--------------------------- MODULE GatewayProofs ----------------------------
(* The safety properties of Gateway, proved for any number of requests of  *)
(* any shape, any registry of scopes and any size of the thread pool.      *)
EXTENDS Gateway, ScopesProofs, TLAPS

-----------------------------------------------------------------------------
(* The inductive invariant.  Everything but the pool is a statement about  *)
(* one request at a time, so the invariant is a type and a conjunction of  *)
(* facts about a client c.                                                 *)

BeforeCall == {"new", "api_key", "principal", "verifying", "scopes", "service",
               "provider_auth", "endpoint"}

\* Which jobs the routes of each area go through.
OnPath(c) ==
    /\ phase[c] \in {"principal", "verifying", "scopes", "service"}
         => Route(c).area = "finance"
    /\ phase[c] \in {"provider_auth", "calling"} => Route(c).area = "items"
    /\ phase[c] = "api_key" => Route(c).area # "health"

\* What the gates behind a request established about it.
Gated(c) ==
    /\ (Route(c).area # "health" /\ (calls[c] > 0 \/ phase[c] \in Jobs \ {"api_key"}))
         => KeyPasses(c)
    /\ (Route(c).area = "finance"
          /\ (calls[c] > 0 \/ phase[c] \in {"scopes", "service", "endpoint", "serialize"}))
         => settings.auth0 /\ request[c].bearer = "good"
    /\ (Route(c).area = "finance"
          /\ (calls[c] > 0 \/ phase[c] \in {"service", "endpoint", "serialize"}))
         => HasScope(c)

\* The provider has made up its mind, and its reply is here or on its way.
Answering(c) == wire[c] \in {"replied", "trickling"}

\* What is known of the effects of a request.
Effects(c) ==
    /\ phase[c] \in BeforeCall => calls[c] = 0
    /\ calls[c] = 0 => applied[c] = 0 /\ wire[c] = "none"
    /\ calls[c] <= 1
    /\ Route(c).area # "items" => wire[c] = "none"
    /\ Route(c).area = "items" /\ wire[c] \in {"none", "sent"} => applied[c] = 0
    /\ Answering(c) => reply[c] \in Reply
    /\ Answering(c) /\ reply[c].status \notin {200, 503} => applied[c] = 0
    /\ Answering(c) /\ reply[c].status = 200 /\ IsWrite(c) => applied[c] = 1

\* A request about to be serialised has been served.
Served(c) ==
    /\ calls[c] = IF Route(c).area = "health" THEN 0 ELSE 1
    /\ Route(c).area = "finance" /\ IsWrite(c) => applied[c] = 1
    /\ Route(c).area = "items" => wire[c] = "replied" /\ reply[c].status \in {200, 302}
    /\ Route(c).area = "health" => ~ IsWrite(c)

\* What a response tells about the effects, and the audit line about it.
Answer(c) ==
    /\ response[c] # NoResponse <=> phase[c] \in {"responding", "answered"}
    /\ phase[c] = "serialize" => Served(c)
    /\ response[c].status = 201 => Served(c) /\ IsWrite(c)
    /\ NotDone(c) => applied[c] = 0 /\ wire[c] # "sent"
    /\ response[c].status \in {401, 403} => calls[c] = 0
    /\ phase[c] = "responding" => response[c].why # "error"
    /\ audit[c] = IF phase[c] = "answered" /\ response[c].why # "error"
                  THEN <<response[c].status>> ELSE <<>>

CInv(c) == OnPath(c) /\ Gated(c) /\ Effects(c) /\ Answer(c)

IInv == TypeOK /\ \A c \in Clients : CInv(c)

-----------------------------------------------------------------------------
(* Steps seen from a request: what they change of it, and what they leave. *)

\* The step leaves everything CInv says about c alone.
Untouched(c) ==
    /\ phase'[c] = phase[c]
    /\ wire'[c] = wire[c]
    /\ reply'[c] = reply[c]
    /\ calls'[c] = calls[c]
    /\ applied'[c] = applied[c]
    /\ response'[c] = response[c]
    /\ audit'[c] = audit[c]

Others(d) == \A c \in Clients \ {d} : Untouched(c)

LEMMA UntouchedKeeps ==
  ASSUME NEW c \in Clients, CInv(c), UNCHANGED gate, Untouched(c)
  PROVE  CInv(c)'
<1>1. /\ Route(c)' = Route(c) /\ IsWrite(c)' = IsWrite(c) /\ KeyPasses(c)' = KeyPasses(c)
      /\ HasScope(c)' = HasScope(c) /\ request'[c] = request[c] /\ settings' = settings
  BY DEF gate, Route, IsWrite, KeyPasses, HasScope, Required
<1>2. OnPath(c)'
  BY <1>1 DEF CInv, OnPath, Untouched
<1>3. Gated(c)'
  BY <1>1 DEF CInv, Gated, Untouched
<1>4. Effects(c)'
  BY <1>1 DEF CInv, Effects, Answering, Untouched
<1>5. Served(c)' = Served(c) /\ NotDone(c)' = NotDone(c)
  BY <1>1 DEF Served, NotDone, Untouched
<1>6. Answer(c)'
  BY <1>1, <1>5 DEF CInv, Answer, Untouched
<1> QED BY <1>2, <1>3, <1>4, <1>6 DEF CInv

\* The three ways to leave a job keep the types and concern one request.
LEMMA SubmitEffect ==
  ASSUME TypeOK, NEW d \in Clients, NEW job \in Jobs, Submit(d, job),
         UNCHANGED <<provider, audit>>
  PROVE  /\ phase' \in [Clients -> Phases] /\ queue' \in Seq(Clients)
         /\ busy' \in SUBSET Clients
         /\ phase'[d] = job /\ UNCHANGED response
         /\ Others(d)
  BY DEF TypeOK, Submit, Phases, Others, Untouched, provider

LEMMA RespondEffect ==
  ASSUME TypeOK, NEW d \in Clients, NEW status, NEW why, Respond(d, status, why),
         [status |-> status, why |-> why] \in Response
  PROVE  /\ phase' \in [Clients -> Phases] /\ queue' \in Seq(Clients)
         /\ busy' \in SUBSET Clients /\ response' \in [Clients -> Response \cup {NoResponse}]
         /\ phase'[d] = "responding"
         /\ response'[d] = [status |-> status, why |-> why]
         /\ \A c \in Clients \ {d} : phase'[c] = phase[c] /\ response'[c] = response[c]
  BY DEF TypeOK, Respond, Phases

LEMMA RaiseEffect ==
  ASSUME TypeOK, NEW d \in Clients, Raise(d), UNCHANGED <<provider, audit>>
  PROVE  /\ phase' \in [Clients -> Phases] /\ queue' \in Seq(Clients)
         /\ busy' \in SUBSET Clients
         /\ phase'[d] = "raised" /\ UNCHANGED response
         /\ Others(d)
  BY DEF TypeOK, Raise, Phases, Others, Untouched, provider

LEMMA OthersKeep ==
  ASSUME NEW d \in Clients, IInv, TypeOK', UNCHANGED gate, Others(d), CInv(d)'
  PROVE  IInv'
<1>1. ASSUME NEW c \in Clients PROVE CInv(c)'
  <2>1. CASE c = d
    BY <2>1
  <2>2. CASE c # d
    BY <2>2, UntouchedKeeps DEF IInv, Others
  <2> QED BY <2>1, <2>2
<1> QED BY <1>1 DEF IInv

\* The facts of a request that do not depend on its phase or response.
LEMMA SameRequest ==
  ASSUME NEW d, UNCHANGED <<gate, provider>>
  PROVE  /\ Route(d)' = Route(d) /\ IsWrite(d)' = IsWrite(d) /\ KeyPasses(d)' = KeyPasses(d)
         /\ HasScope(d)' = HasScope(d) /\ Served(d)' = Served(d)
         /\ UNCHANGED <<request, settings, wire, reply, calls, applied>>
  BY DEF gate, provider, Route, IsWrite, KeyPasses, HasScope, Required, Served

Unanswered == Jobs \cup {"new"}

\* A response keeps the invariant when it tells the truth about the effects.
LEMMA RespondKeeps ==
  ASSUME IInv, NEW d \in Clients, phase[d] \in Unanswered,
         NEW status, NEW why, Respond(d, status, why),
         [status |-> status, why |-> why] \in Response, why # "error",
         UNCHANGED <<gate, stored, provider, audit>>,
         status = 201 => Served(d) /\ IsWrite(d),
         (status \in {307, 400, 401, 403, 404, 422, 429} \/ why = "login")
            => applied[d] = 0 /\ wire[d] # "sent",
         status \in {401, 403} => calls[d] = 0
  PROVE  IInv'
<1>1. /\ phase' \in [Clients -> Phases] /\ queue' \in Seq(Clients)
      /\ busy' \in SUBSET Clients /\ response' \in [Clients -> Response \cup {NoResponse}]
      /\ phase'[d] = "responding"
      /\ response'[d] = [status |-> status, why |-> why]
      /\ \A c \in Clients \ {d} : phase'[c] = phase[c] /\ response'[c] = response[c]
  BY RespondEffect DEF IInv
<1>2. TypeOK'
  BY <1>1 DEF IInv, TypeOK, gate, provider
<1>3. Others(d)
  BY <1>1 DEF Others, Untouched, provider
<1>4. OnPath(d)'
  BY <1>1 DEF OnPath
<1>5. Gated(d)'
  BY <1>1, SameRequest DEF Gated, IInv, CInv, Jobs
<1>6. Effects(d)'
  BY <1>1, SameRequest DEF Effects, Answering, IInv, CInv, BeforeCall
<1>7. Answer(d)'
  <2>1. audit[d] = <<>>
    BY DEF IInv, CInv, Answer, Unanswered, Jobs
  <2>2. response'[d] # NoResponse
    BY <1>1 DEF Response, NoResponse
  <2>3. NotDone(d)' => applied[d] = 0 /\ wire[d] # "sent"
    BY <1>1 DEF NotDone
  <2>4. response'[d].status = status /\ response'[d].why = why
    BY <1>1
  <2> QED BY <1>1, <2>1, <2>2, <2>3, <2>4, SameRequest DEF Answer
<1>8. CInv(d)'
  BY <1>4, <1>5, <1>6, <1>7 DEF CInv
<1>9. UNCHANGED gate
  OBVIOUS
<1> QED BY <1>2, <1>3, <1>8, <1>9, OthersKeep

\* An exception nobody handles leaves the request without a response, for now.
LEMMA RaiseKeeps ==
  ASSUME IInv, NEW d \in Clients, phase[d] \in Unanswered, Raise(d),
         UNCHANGED <<gate, stored, provider, audit>>
  PROVE  IInv'
<1>1. /\ phase' \in [Clients -> Phases] /\ queue' \in Seq(Clients)
      /\ busy' \in SUBSET Clients
      /\ phase'[d] = "raised" /\ UNCHANGED response /\ Others(d)
  BY RaiseEffect DEF IInv
<1>2. TypeOK'
  BY <1>1 DEF IInv, TypeOK, gate, provider
<1>3. OnPath(d)'
  BY <1>1 DEF OnPath
<1>4. Gated(d)'
  BY <1>1, SameRequest DEF Gated, IInv, CInv, Jobs
<1>5. Effects(d)'
  BY <1>1, SameRequest DEF Effects, Answering, IInv, CInv, BeforeCall
<1>6. Answer(d)'
  <2>1. response[d] = NoResponse /\ audit[d] = <<>>
    BY DEF IInv, CInv, Answer, Unanswered, Jobs
  <2>2. ~ NotDone(d)' /\ response'[d].status = 0
    BY <1>1, <2>1 DEF NotDone, NoResponse
  <2> QED BY <1>1, <2>1, <2>2 DEF Answer
<1>7. CInv(d)'
  BY <1>3, <1>4, <1>5, <1>6 DEF CInv
<1>8. UNCHANGED gate
  OBVIOUS
<1> QED BY <1>1, <1>2, <1>7, <1>8, OthersKeep

\* The next job may start when the gates it lies behind were passed.
LEMMA SubmitKeeps ==
  ASSUME IInv, NEW d \in Clients, phase[d] \in Unanswered,
         NEW job \in Jobs \ Asking, Submit(d, job),
         UNCHANGED <<gate, stored, provider, audit>>,
         job \in {"principal", "scopes", "service"} => Route(d).area = "finance",
         job = "provider_auth" => Route(d).area = "items",
         job = "api_key" => Route(d).area # "health",
         Route(d).area # "health" /\ job # "api_key" => KeyPasses(d),
         Route(d).area = "finance" /\ job \in {"scopes", "service", "endpoint", "serialize"}
            => settings.auth0 /\ request[d].bearer = "good",
         Route(d).area = "finance" /\ job \in {"service", "endpoint", "serialize"}
            => HasScope(d),
         job \in BeforeCall => calls[d] = 0,
         job = "serialize" => Served(d)
  PROVE  IInv'
<1>1. /\ phase' \in [Clients -> Phases] /\ queue' \in Seq(Clients)
      /\ busy' \in SUBSET Clients
      /\ phase'[d] = job /\ UNCHANGED response /\ Others(d)
  BY SubmitEffect DEF IInv
<1>2. TypeOK'
  BY <1>1 DEF IInv, TypeOK, gate, provider
<1>3. OnPath(d)'
  BY <1>1, SameRequest DEF OnPath, Asking
<1>4. Gated(d)'
  BY <1>1, SameRequest DEF Gated, IInv, CInv, Asking
<1>5. Effects(d)'
  BY <1>1, SameRequest DEF Effects, Answering, IInv, CInv, Asking, BeforeCall
<1>6. Answer(d)'
  <2>1. response[d] = NoResponse /\ audit[d] = <<>>
    BY DEF IInv, CInv, Answer, Unanswered, Jobs
  <2>2. ~ NotDone(d)' /\ response'[d].status = 0
    BY <1>1, <2>1 DEF NotDone, NoResponse
  <2>3. job \notin {"responding", "answered"}
    BY DEF Jobs
  <2> QED BY <1>1, <2>1, <2>2, <2>3, SameRequest DEF Answer
<1>7. CInv(d)'
  BY <1>3, <1>4, <1>5, <1>6 DEF CInv
<1>8. UNCHANGED gate
  OBVIOUS
<1> QED BY <1>1, <1>2, <1>7, <1>8, OthersKeep

-----------------------------------------------------------------------------
(* One lemma per action.                                                   *)

LEMMA RequestTyped ==
  ASSUME TypeOK, NEW d \in Clients
  PROVE  /\ request[d] \in Request /\ Route(d) \in Routes
         /\ Route(d).area \in {"finance", "items", "health"}
         /\ Route(d).area = "health" => ~ IsWrite(d)
<1>1. request[d] \in Request
  BY ShapesAssumption DEF TypeOK
<1>2. Route(d) \in Routes
  BY <1>1 DEF Request, Route
<1> QED BY <1>1, <1>2, ActionsDiffer DEF Routes, IsWrite

LEMMA ArriveKeeps == ASSUME IInv, NEW d \in Clients, Arrive(d) PROVE IInv'
<1>1. phase[d] \in Unanswered /\ UNCHANGED <<gate, stored, provider, audit>>
  BY DEF Arrive, Unanswered
<1>2. calls[d] = 0 /\ applied[d] = 0 /\ wire[d] = "none"
  BY DEF Arrive, IInv, CInv, Effects, Answering, BeforeCall
<1>3. CASE Respond(d, 422, "json") \/ Respond(d, 400, "json")
  BY <1>1, <1>2, <1>3, RespondKeeps DEF Response
<1>4. CASE Route(d).area = "health" /\ Submit(d, "endpoint")
  BY <1>1, <1>2, <1>4, SubmitKeeps DEF Jobs, Asking
<1>5. CASE Route(d).area # "health" /\ Submit(d, "api_key")
  BY <1>1, <1>2, <1>5, SubmitKeeps DEF Jobs, Asking
<1> QED BY <1>3, <1>4, <1>5 DEF Arrive

LEMMA StartJobKeeps == ASSUME IInv, StartJob PROVE IInv'
<1>1. TypeOK'
  BY DEF IInv, TypeOK, StartJob, gate, provider
<1>2. ASSUME NEW c \in Clients PROVE CInv(c)'
  <2>1. Untouched(c) /\ UNCHANGED gate
    BY DEF StartJob, Untouched, provider
  <2> QED BY <2>1, UntouchedKeeps DEF IInv
<1> QED BY <1>1, <1>2 DEF IInv

LEMMA StoreChangeKeeps == ASSUME IInv, StoreChange PROVE IInv'
<1>1. TypeOK'
  BY DEF IInv, TypeOK, StoreChange, gate, provider
<1>2. ASSUME NEW c \in Clients PROVE CInv(c)'
  <2>1. Untouched(c) /\ UNCHANGED gate
    BY DEF StoreChange, Untouched, provider
  <2> QED BY <2>1, UntouchedKeeps DEF IInv
<1> QED BY <1>1, <1>2 DEF IInv

\* A request in a job before the endpoint has had no effect yet.
LEMMA NoEffectYet ==
  ASSUME IInv, NEW d \in Clients, phase[d] \in BeforeCall
  PROVE  calls[d] = 0 /\ applied[d] = 0 /\ wire[d] = "none"
  BY DEF IInv, CInv, Effects, Answering

LEMMA ApiKeyKeeps == ASSUME IInv, NEW d \in Clients, require_api_key(d) PROVE IInv'
<1>1. /\ phase[d] = "api_key" /\ phase[d] \in Unanswered
      /\ UNCHANGED <<gate, stored, provider, audit>>
  BY DEF require_api_key, Running, Unanswered, Jobs
<1>2. calls[d] = 0 /\ applied[d] = 0 /\ wire[d] = "none"
  BY <1>1, NoEffectYet DEF BeforeCall
<1>3. Route(d).area \in {"finance", "items"}
  BY <1>1, RequestTyped DEF IInv, CInv, OnPath
<1>4. CASE Respond(d, 401, "key")
  BY <1>1, <1>2, <1>4, RespondKeeps DEF Response
<1>5. CASE KeyPasses(d) /\ Route(d).area = "finance" /\ Submit(d, "principal")
  BY <1>1, <1>2, <1>5, SubmitKeeps DEF Jobs, Asking
<1>6. CASE KeyPasses(d) /\ Route(d).area = "items" /\ Submit(d, "provider_auth")
  BY <1>1, <1>2, <1>6, SubmitKeeps DEF Jobs, Asking
<1> QED BY <1>3, <1>4, <1>5, <1>6 DEF require_api_key

LEMMA PrincipalKeeps == ASSUME IInv, NEW d \in Clients, current_principal(d) PROVE IInv'
<1>1. /\ phase[d] = "principal" /\ phase[d] \in Unanswered
      /\ UNCHANGED <<gate, stored, provider, audit>>
  BY DEF current_principal, Running, Unanswered, Jobs
<1>2. calls[d] = 0 /\ applied[d] = 0 /\ wire[d] = "none"
  BY <1>1, NoEffectYet DEF BeforeCall
<1>3. Route(d).area = "finance" /\ KeyPasses(d)
  BY <1>1 DEF IInv, CInv, OnPath, Gated, Jobs
<1>4. CASE Respond(d, 401, "bearer")
  BY <1>1, <1>2, <1>4, RespondKeeps DEF Response
<1>5. CASE Ask(d, "verifying")
  <2>1. TypeOK /\ UNCHANGED gate /\ response[d] = NoResponse /\ audit[d] = <<>>
    BY <1>1 DEF IInv, CInv, Answer
  <2>2. phase'[d] = "verifying" /\ response' = response
    BY <1>5, <2>1 DEF Ask, TypeOK
  <2>3. TypeOK'
    BY <1>1, <1>5, <2>1 DEF Ask, TypeOK, Phases, Jobs, gate, provider
  <2>4. Others(d)
    BY <1>1, <1>5, <2>1 DEF Ask, TypeOK, Others, Untouched, provider
  <2>5. OnPath(d)' /\ Gated(d)' /\ Effects(d)'
    BY <1>1, <1>2, <1>3, <2>2, SameRequest DEF OnPath, Gated, Effects, Answering
  <2>6. Answer(d)'
    <3>1. response'[d].status = 0 /\ response'[d].why = "none" /\ audit'[d] = <<>>
      BY <1>1, <2>1, <2>2 DEF NoResponse
    <3> QED BY <2>1, <2>2, <3>1 DEF Answer, NotDone
  <2> QED BY <2>1, <2>3, <2>4, <2>5, <2>6, OthersKeep DEF CInv
<1> QED BY <1>4, <1>5 DEF current_principal

\* Only a good token of a configured tenant gets a request past verification.
LEMMA VerifyKeeps == ASSUME IInv, NEW d \in Clients, verify(d) PROVE IInv'
<1>1. /\ phase[d] = "verifying" /\ phase[d] \in Unanswered
      /\ UNCHANGED <<gate, stored, provider, audit>>
  BY DEF verify, Running, Unanswered, Jobs
<1>2. calls[d] = 0 /\ applied[d] = 0 /\ wire[d] = "none"
  BY <1>1, NoEffectYet DEF BeforeCall
<1>3. Route(d).area = "finance" /\ KeyPasses(d)
  BY <1>1 DEF IInv, CInv, OnPath, Gated, Jobs
<1>4. CASE Respond(d, 401, "bearer")
  BY <1>1, <1>2, <1>4, RespondKeeps DEF Response
<1>5. CASE Raise(d)
  BY <1>1, <1>5, RaiseKeeps
<1>6. CASE request[d].bearer = "good" /\ settings.auth0 /\ Submit(d, "scopes")
  BY <1>1, <1>2, <1>3, <1>6, SubmitKeeps DEF Jobs, Asking
<1> QED BY <1>4, <1>5, <1>6 DEF verify, Verified, MayEnd, Promised

LEMMA ScopesKeeps == ASSUME IInv, NEW d \in Clients, require_scopes(d) PROVE IInv'
<1>1. /\ phase[d] = "scopes" /\ phase[d] \in Unanswered
      /\ UNCHANGED <<gate, stored, provider, audit>>
  BY DEF require_scopes, Running, Unanswered, Jobs
<1>2. calls[d] = 0 /\ applied[d] = 0 /\ wire[d] = "none"
  BY <1>1, NoEffectYet DEF BeforeCall
<1>3. /\ Route(d).area = "finance" /\ KeyPasses(d)
      /\ settings.auth0 /\ request[d].bearer = "good"
  BY <1>1 DEF IInv, CInv, OnPath, Gated, Jobs
<1>4. CASE Respond(d, 403, "scope")
  BY <1>1, <1>2, <1>4, RespondKeeps DEF Response
<1>5. CASE HasScope(d) /\ Submit(d, "service")
  BY <1>1, <1>2, <1>3, <1>5, SubmitKeeps DEF Jobs, Asking
<1> QED BY <1>4, <1>5 DEF require_scopes

\* The last dependency is followed by validation and the endpoint.
LEMMA CallKeeps ==
  ASSUME IInv, NEW d \in Clients, phase[d] \in {"service", "provider_auth"}, Call(d),
         UNCHANGED <<gate, stored, provider, audit>>
  PROVE  IInv'
<1>1. phase[d] \in Unanswered
  BY DEF Unanswered, Jobs
<1>2. calls[d] = 0 /\ applied[d] = 0 /\ wire[d] = "none"
  BY NoEffectYet DEF BeforeCall
<1>3. /\ Route(d).area # "health" => KeyPasses(d)
      /\ Route(d).area = "finance" =>
           settings.auth0 /\ request[d].bearer = "good" /\ HasScope(d)
  BY DEF IInv, CInv, OnPath, Gated, Jobs
<1>4. CASE Respond(d, 422, "args")
  BY <1>1, <1>2, <1>4, RespondKeeps DEF Response
<1>5. CASE Submit(d, "endpoint")
  BY <1>1, <1>2, <1>3, <1>5, SubmitKeeps DEF Jobs, Asking
<1> QED BY <1>4, <1>5 DEF Call

LEMMA ServiceKeeps == ASSUME IInv, NEW d \in Clients, get_service(d) PROVE IInv'
  BY CallKeeps DEF get_service, Running

\* A login keeps the invariant when nothing was carried out.
LEMMA LoginKeeps ==
  ASSUME IInv, NEW d \in Clients, phase[d] \in Unanswered, Login(d),
         UNCHANGED <<gate, stored, provider, audit>>,
         applied[d] = 0, wire[d] # "sent"
  PROVE  IInv'
<1>1. CASE request[d].html
  <2>1. Respond(d, 307, "login")
    BY <1>1 DEF Login
  <2> QED BY <2>1, RespondKeeps DEF Response
<1>2. CASE ~ request[d].html
  <2>1. Respond(d, 503, "login")
    BY <1>2 DEF Login
  <2> QED BY <2>1, RespondKeeps DEF Response
<1> QED BY <1>1, <1>2

LEMMA ProviderAuthKeeps ==
  ASSUME IInv, NEW d \in Clients, require_provider_auth(d) PROVE IInv'
<1>1. /\ phase[d] = "provider_auth" /\ phase[d] \in Unanswered
      /\ UNCHANGED <<gate, stored, provider, audit>>
  BY DEF require_provider_auth, Running, Unanswered, Jobs
<1>2. calls[d] = 0 /\ applied[d] = 0 /\ wire[d] = "none"
  BY <1>1, NoEffectYet DEF BeforeCall
<1>3. CASE Call(d)
  BY <1>1, <1>3, CallKeeps
<1>4. CASE Login(d)
  BY <1>1, <1>2, <1>4, LoginKeeps
<1>5. CASE Raise(d)
  BY <1>1, <1>5, RaiseKeeps
<1> QED BY <1>3, <1>4, <1>5 DEF require_provider_auth

\* The service is invoked: the one step that changes effects and phase at once.
LEMMA EndpointKeeps == ASSUME IInv, NEW d \in Clients, endpoint(d) PROVE IInv'
<1>1. /\ phase[d] = "endpoint" /\ phase[d] \in Unanswered
      /\ UNCHANGED <<gate, stored, audit>>
  BY DEF endpoint, Running, Unanswered, Jobs
<1>2. calls[d] = 0 /\ applied[d] = 0 /\ wire[d] = "none"
  BY <1>1, NoEffectYet DEF BeforeCall
<1>3. /\ Route(d).area # "health" => KeyPasses(d)
      /\ Route(d).area = "finance" =>
           settings.auth0 /\ request[d].bearer = "good" /\ HasScope(d)
  BY <1>1 DEF IInv, CInv, Gated, Jobs
<1>4. response[d] = NoResponse /\ audit[d] = <<>>
  BY <1>1 DEF IInv, CInv, Answer
<1>5. TypeOK /\ UNCHANGED <<gate, request, settings>>
  BY <1>1 DEF IInv, gate
<1>6. /\ Route(d)' = Route(d) /\ IsWrite(d)' = IsWrite(d) /\ KeyPasses(d)' = KeyPasses(d)
      /\ HasScope(d)' = HasScope(d)
  BY <1>5 DEF Route, IsWrite, KeyPasses, HasScope, Required
<1>7. CASE Route(d).area = "health" /\ Submit(d, "serialize") /\ UNCHANGED provider
  <2>1. Served(d)
    BY <1>2, <1>5, <1>7, RequestTyped DEF Served
  <2> QED BY <1>1, <1>2, <1>7, <2>1, SubmitKeeps DEF Jobs, Asking, BeforeCall
<1>8. CASE /\ Route(d).area = "finance" /\ Submit(d, "serialize")
           /\ calls' = [calls EXCEPT ![d] = @ + 1]
           /\ applied' = [applied EXCEPT ![d] = IF IsWrite(d) THEN @ + 1 ELSE @]
           /\ UNCHANGED <<wire, reply>>
  <2>1. /\ calls'[d] = 1 /\ applied'[d] = IF IsWrite(d) THEN 1 ELSE 0
        /\ phase'[d] = "serialize" /\ response' = response /\ wire'[d] = "none"
    BY <1>2, <1>5, <1>8 DEF TypeOK, Submit
  <2>2. TypeOK'
    BY <1>1, <1>5, <1>8 DEF TypeOK, Submit, Phases, Jobs
  <2>3. Others(d)
    BY <1>1, <1>5, <1>8 DEF TypeOK, Submit, Others, Untouched
  <2>4. OnPath(d)' /\ Gated(d)' /\ Effects(d)'
    BY <1>3, <1>5, <1>6, <1>8, <2>1 DEF OnPath, Gated, Effects, Answering, BeforeCall
  <2>5. Served(d)'
    BY <1>6, <1>8, <2>1 DEF Served
  <2>6. Answer(d)'
    <3>1. response'[d].status = 0 /\ response'[d].why = "none" /\ audit'[d] = <<>>
      BY <1>1, <1>4, <2>1 DEF NoResponse
    <3> QED BY <1>4, <2>1, <2>5, <3>1 DEF Answer, NotDone
  <2> QED BY <1>5, <2>2, <2>3, <2>4, <2>6, OthersKeep DEF CInv
<1>9. CASE /\ Route(d).area = "items"
           /\ phase' = [phase EXCEPT ![d] = "calling"]
           /\ wire' = [wire EXCEPT ![d] = "sent"]
           /\ calls' = [calls EXCEPT ![d] = @ + 1]
           /\ UNCHANGED <<queue, busy, response, reply, applied>>
  <2>1. /\ calls'[d] = 1 /\ applied'[d] = 0 /\ wire'[d] = "sent"
        /\ phase'[d] = "calling" /\ response' = response
    BY <1>2, <1>5, <1>9 DEF TypeOK
  <2>2. TypeOK'
    BY <1>1, <1>5, <1>9 DEF TypeOK, Phases, Jobs
  <2>3. Others(d)
    BY <1>1, <1>5, <1>9 DEF TypeOK, Others, Untouched
  <2>4. OnPath(d)' /\ Gated(d)' /\ Effects(d)'
    BY <1>3, <1>5, <1>6, <1>9, <2>1 DEF OnPath, Gated, Effects, Answering, BeforeCall
  <2>5. Answer(d)'
    <3>1. response'[d].status = 0 /\ response'[d].why = "none" /\ audit'[d] = <<>>
      BY <1>1, <1>4, <2>1 DEF NoResponse
    <3> QED BY <1>4, <2>1, <3>1 DEF Answer, NotDone
  <2> QED BY <1>5, <2>2, <2>3, <2>4, <2>5, OthersKeep DEF CInv
<1>10. CASE /\ Route(d).area = "items" /\ Respond(d, 502, "transport")
            /\ calls' = [calls EXCEPT ![d] = @ + 1]
            /\ UNCHANGED <<wire, reply, applied>>
  <2>0. [status |-> 502, why |-> "transport"] \in Response
    BY DEF Response
  <2>1. /\ phase' \in [Clients -> Phases] /\ queue' \in Seq(Clients)
        /\ busy' \in SUBSET Clients /\ response' \in [Clients -> Response \cup {NoResponse}]
        /\ phase'[d] = "responding"
        /\ response'[d] = [status |-> 502, why |-> "transport"]
        /\ \A c \in Clients \ {d} : phase'[c] = phase[c] /\ response'[c] = response[c]
    BY <1>5, <1>10, <2>0, RespondEffect
  <2>2. calls'[d] = 1 /\ applied'[d] = 0 /\ wire'[d] = "none" /\ reply' = reply
    BY <1>2, <1>5, <1>10 DEF TypeOK
  <2>3. TypeOK'
    <3>1. calls' \in [Clients -> Nat]
      BY <1>5, <1>10 DEF TypeOK
    <3>2. UNCHANGED <<settings, request, stored, audit, wire, reply, applied>>
      BY <1>1, <1>5, <1>10
    <3> QED BY <1>5, <2>1, <3>1, <3>2 DEF TypeOK
  <2>4. Others(d)
    BY <1>1, <1>5, <1>10, <2>1 DEF TypeOK, Others, Untouched
  <2>5. OnPath(d)' /\ Gated(d)' /\ Effects(d)'
    BY <1>3, <1>5, <1>6, <1>10, <2>1, <2>2 DEF OnPath, Gated, Effects, Answering, BeforeCall, Jobs
  <2>6. Answer(d)'
    <3>1. response'[d].status = 502 /\ response'[d].why = "transport"
      BY <2>1
    <3>2. response'[d] # NoResponse
      BY <3>1 DEF NoResponse
    <3>3. audit'[d] = <<>>
      BY <1>1, <1>4
    <3>4. phase'[d] = "responding"
      BY <2>1
    <3>5. ~ NotDone(d)'
      BY <3>1 DEF NotDone
    <3> QED BY <3>1, <3>2, <3>3, <3>4, <3>5 DEF Answer
  <2> QED BY <1>5, <2>3, <2>4, <2>5, <2>6, OthersKeep DEF CInv
<1>11. CASE /\ Route(d).area = "items" /\ Raise(d)
            /\ calls' = [calls EXCEPT ![d] = @ + 1]
            /\ UNCHANGED <<wire, reply, applied>>
  <2>1. /\ phase' = [phase EXCEPT ![d] = "raised"] /\ busy' = busy \ {d}
        /\ UNCHANGED <<queue, response>>
    BY <1>11 DEF Raise
  <2>2. /\ calls'[d] = 1 /\ applied'[d] = 0 /\ wire'[d] = "none"
        /\ phase'[d] = "raised"
    BY <1>2, <1>5, <1>11, <2>1 DEF TypeOK
  <2>3. TypeOK'
    BY <1>1, <1>5, <1>11, <2>1 DEF TypeOK, Phases
  <2>4. Others(d)
    BY <1>1, <1>5, <1>11, <2>1 DEF TypeOK, Others, Untouched
  <2>5. OnPath(d)' /\ Gated(d)' /\ Effects(d)'
    BY <1>3, <1>5, <1>6, <1>11, <2>2 DEF OnPath, Gated, Effects, Answering, BeforeCall, Jobs
  <2>6. Answer(d)'
    <3>1. response'[d].status = 0 /\ response'[d].why = "none" /\ audit'[d] = <<>>
      BY <1>1, <1>4, <2>1 DEF NoResponse
    <3> QED BY <1>4, <2>1, <2>2, <3>1 DEF Answer, NotDone
  <2> QED BY <1>5, <2>3, <2>4, <2>5, <2>6, OthersKeep DEF CInv
<1>12. CASE finance_service(d)
  <2>1. applied' = [applied EXCEPT ![d] = IF IsWrite(d) THEN @ + 1 ELSE @]
    <3>1. CASE create_record(d)
      BY <3>1 DEF create_record
    <3>2. CASE list_records(d)
      BY <1>5, <3>2 DEF list_records, TypeOK
    <3> QED BY <1>12, <3>1, <3>2 DEF finance_service
  <2> QED BY <1>8, <1>12, <2>1 DEF finance_service
<1> QED BY <1>7, <1>9, <1>10, <1>11, <1>12 DEF endpoint, health, example_service, Ask

LEMMA ReceiveReplyKeeps == ASSUME IInv, NEW d \in Clients, ReceiveReply(d) PROVE IInv'
<1>1. /\ phase[d] = "calling" /\ phase[d] \in Unanswered /\ wire[d] = "replied"
      /\ UNCHANGED <<gate, stored, provider, audit>>
  BY DEF ReceiveReply, Awaiting, Running, Unanswered, Jobs
<1>2. Route(d).area = "items" /\ KeyPasses(d) /\ reply[d] \in Reply /\ calls[d] = 1
  <2>1. OnPath(d) /\ Gated(d) /\ Effects(d) /\ calls[d] \in Nat
    BY DEF IInv, CInv, TypeOK
  <2>2. Route(d).area = "items"
    BY <1>1, <2>1 DEF OnPath
  <2>3. KeyPasses(d)
    BY <1>1, <2>1, <2>2 DEF Gated, Jobs
  <2>4. reply[d] \in Reply /\ calls[d] = 1
    BY <1>1, <2>1 DEF Effects, Answering
  <2> QED BY <2>2, <2>3, <2>4
<1>3. reply[d].status \notin {200, 503} => applied[d] = 0
  BY <1>1 DEF IInv, CInv, Effects, Answering
<1>4. CASE reply[d].status \in {401, 403} /\ Login(d)
  BY <1>1, <1>3, <1>4, LoginKeeps
<1>5. CASE reply[d].status = 429 /\ Respond(d, 429, "rate")
  BY <1>1, <1>3, <1>5, RespondKeeps DEF Response
<1>6. CASE reply[d].status \in {404, 503} /\ Respond(d, reply[d].status, "relay")
  BY <1>1, <1>3, <1>6, RespondKeeps DEF Response
<1>7. CASE Raise(d)
  BY <1>1, <1>7, RaiseKeeps
<1>8. CASE reply[d].status \in {200, 302} /\ Submit(d, "serialize")
  <2>1. Served(d)
    BY <1>1, <1>2, <1>8 DEF Served
  <2> QED BY <1>1, <1>2, <1>8, <2>1, SubmitKeeps DEF Jobs, Asking, BeforeCall
<1>9. reply[d].status \in {200, 302, 401, 403, 404, 429, 503}
  BY <1>2 DEF Reply
<1> QED BY <1>4, <1>5, <1>6, <1>7, <1>8, <1>9 DEF ReceiveReply, raise_mapped

LEMMA TransportErrorKeeps == ASSUME IInv, NEW d \in Clients, TransportError(d) PROVE IInv'
<1>1. /\ phase[d] \in Unanswered /\ Respond(d, 502, "transport")
      /\ UNCHANGED <<gate, stored, provider, audit>>
  BY DEF TransportError, Awaiting, Running, Unanswered, Jobs
<1> QED BY <1>1, RespondKeeps DEF Response

LEMMA SerializeKeeps == ASSUME IInv, NEW d \in Clients, serialize(d) PROVE IInv'
<1>1. /\ phase[d] = "serialize" /\ phase[d] \in Unanswered
      /\ UNCHANGED <<gate, stored, provider, audit>>
  BY DEF serialize, Running, Unanswered, Jobs
<1>2. Served(d)
  BY <1>1 DEF IInv, CInv, Answer
<1>3. CASE IsWrite(d) /\ Respond(d, 201, "served")
  BY <1>1, <1>2, <1>3, RespondKeeps DEF Response
<1>4. CASE ~ IsWrite(d) /\ Respond(d, 200, "served")
  BY <1>1, <1>4, RespondKeeps DEF Response
<1>5. CASE Raise(d)
  BY <1>1, <1>5, RaiseKeeps
<1> QED BY <1>3, <1>4, <1>5 DEF serialize

LEMMA AuditKeeps == ASSUME IInv, NEW d \in Clients, Audit(d) PROVE IInv'
<1>1. /\ phase[d] = "responding"
      /\ phase' = [phase EXCEPT ![d] = "answered"]
      /\ audit' = [audit EXCEPT ![d] = Append(@, response[d].status)]
      /\ UNCHANGED <<gate, stored, queue, busy, provider, response>>
  BY DEF Audit
<1>2. /\ TypeOK /\ OnPath(d) /\ Gated(d) /\ Effects(d) /\ Answer(d)
  BY DEF IInv, CInv
<1>3. /\ response[d] # NoResponse /\ response[d].why # "error" /\ audit[d] = <<>>
      /\ response[d] \in Response
  BY <1>1, <1>2 DEF Answer, TypeOK
<1>4. response[d].status \in Nat
  BY <1>3 DEF Response
<1>5. phase'[d] = "answered" /\ audit'[d] = <<response[d].status>> /\ response' = response
  BY <1>1, <1>2, <1>3, <1>4 DEF TypeOK
<1>6. TypeOK'
  <2>1. phase' \in [Clients -> Phases]
    BY <1>1, <1>2 DEF TypeOK, Phases
  <2>2. audit' \in [Clients -> Seq(Nat)]
    BY <1>1, <1>2, <1>4 DEF TypeOK
  <2> QED BY <1>1, <1>2, <2>1, <2>2 DEF TypeOK, gate, provider
<1>7. Others(d)
  BY <1>1, <1>2 DEF TypeOK, Others, Untouched, provider
<1>8. OnPath(d)' /\ Gated(d)' /\ Effects(d)'
  BY <1>1, <1>2, <1>5, SameRequest DEF OnPath, Gated, Effects, Answering, BeforeCall, Jobs
<1>9. NotDone(d)' = NotDone(d)
  BY <1>5 DEF NotDone
<1>10. Answer(d)'
  BY <1>1, <1>2, <1>3, <1>5, <1>9, SameRequest DEF Answer
<1>11. UNCHANGED gate
  BY <1>1
<1> QED BY <1>6, <1>7, <1>8, <1>10, <1>11, OthersKeep DEF CInv

LEMMA ServerErrorKeeps == ASSUME IInv, NEW d \in Clients, ServerError(d) PROVE IInv'
<1> DEFINE Answer500 == [status |-> 500, why |-> "error"]
<1>1. /\ phase[d] = "raised"
      /\ phase' = [phase EXCEPT ![d] = "answered"]
      /\ response' = [response EXCEPT ![d] = Answer500]
      /\ UNCHANGED <<gate, stored, queue, busy, provider, audit>>
  BY DEF ServerError
<1>2. /\ TypeOK /\ OnPath(d) /\ Gated(d) /\ Effects(d) /\ Answer(d)
  BY DEF IInv, CInv
<1>3. audit[d] = <<>>
  BY <1>1, <1>2 DEF Answer
<1>4. Answer500 \in Response
  BY DEF Response
<1>5. phase'[d] = "answered" /\ response'[d] = Answer500 /\ audit' = audit
  BY <1>1, <1>2 DEF TypeOK
<1>6. TypeOK'
  <2>1. phase' \in [Clients -> Phases]
    BY <1>1, <1>2 DEF TypeOK, Phases
  <2>2. response' \in [Clients -> Response \cup {NoResponse}]
    BY <1>1, <1>2, <1>4 DEF TypeOK
  <2> QED BY <1>1, <1>2, <2>1, <2>2 DEF TypeOK, gate, provider
<1>7. Others(d)
  BY <1>1, <1>2 DEF TypeOK, Others, Untouched, provider
<1>8. OnPath(d)' /\ Gated(d)' /\ Effects(d)'
  BY <1>1, <1>2, <1>5, SameRequest DEF OnPath, Gated, Effects, Answering, BeforeCall, Jobs
<1>9. response'[d].status = 500 /\ response'[d].why = "error" /\ response'[d] # NoResponse
  <2>1. response'[d].status = 500 /\ response'[d].why = "error"
    BY <1>5
  <2> QED BY <2>1 DEF NoResponse
<1>10. Answer(d)'
  BY <1>3, <1>5, <1>9 DEF Answer, NotDone
<1>11. UNCHANGED gate
  BY <1>1
<1> QED BY <1>6, <1>7, <1>8, <1>10, <1>11, OthersKeep DEF CInv

\* A provider that acts late, after the request was answered, finds the answer
\* silent about the effect: it acts only while its call is still out.
LEMMA ProviderAnswersKeeps ==
  ASSUME IInv, NEW d \in Clients, NEW r \in Reply, ProviderAnswers(d, r)
  PROVE  IInv'
<1>1. PICK n \in MayApply(d, r.status) : applied' = [applied EXCEPT ![d] = @ + n]
  BY DEF ProviderAnswers
<1>2. PICK w \in {"replied", "trickling", "lost"} :
        /\ wire' = [wire EXCEPT ![d] = w]
        /\ reply' = IF w = "lost" THEN reply ELSE [reply EXCEPT ![d] = r]
  BY DEF ProviderAnswers
<1>3. /\ wire[d] = "sent"
      /\ UNCHANGED <<gate, stored, phase, queue, busy, calls, response, audit>>
  BY DEF ProviderAnswers
<1>4. /\ TypeOK /\ OnPath(d) /\ Gated(d) /\ Effects(d) /\ Answer(d)
  BY DEF IInv, CInv
<1>5. n \in {0, 1} /\ (r.status = 200 /\ IsWrite(d) => n = 1)
      /\ (r.status \notin {200, 503} => n = 0)
  BY <1>1 DEF MayApply
<1>6. /\ applied'[d] = n /\ wire'[d] = w /\ calls[d] # 0
      /\ w # "lost" => reply'[d] = r
      /\ Route(d).area = "items"
  <2>1. Route(d).area = "items" /\ applied[d] = 0 /\ calls[d] # 0
    BY <1>3, <1>4 DEF Effects, Answering, TypeOK
  <2> QED BY <1>1, <1>2, <1>3, <1>4, <1>5, <2>1 DEF TypeOK
<1>7. /\ Route(d)' = Route(d) /\ IsWrite(d)' = IsWrite(d) /\ KeyPasses(d)' = KeyPasses(d)
      /\ HasScope(d)' = HasScope(d) /\ NotDone(d)' = NotDone(d)
      /\ UNCHANGED <<request, settings>>
  BY <1>3 DEF gate, Route, IsWrite, KeyPasses, HasScope, Required, NotDone
<1>8. TypeOK'
  <2>1. applied' \in [Clients -> Nat]
    BY <1>1, <1>4, <1>5 DEF TypeOK
  <2>2. wire' \in [Clients -> {"none", "sent", "replied", "trickling", "lost"}]
    BY <1>2, <1>4 DEF TypeOK
  <2>3. reply' \in [Clients -> Reply \cup {NoReply}]
    BY <1>2, <1>4 DEF TypeOK
  <2> QED BY <1>3, <1>4, <2>1, <2>2, <2>3 DEF TypeOK, gate
<1>9. Others(d)
  BY <1>1, <1>2, <1>3, <1>4 DEF TypeOK, Others, Untouched
<1>10. OnPath(d)' /\ Gated(d)'
  BY <1>3, <1>4, <1>7 DEF OnPath, Gated
<1>11. Effects(d)'
  BY <1>3, <1>4, <1>5, <1>6, <1>7 DEF Effects, Answering
<1>12. Answer(d)'
  <2>1. ~ NotDone(d) /\ phase[d] # "serialize" /\ response[d].status # 201
    <3>1. ~ Served(d)
      BY <1>3, <1>6 DEF Served
    <3> QED BY <1>3, <1>4, <3>1 DEF Answer
  <2> QED BY <1>3, <1>4, <1>7, <2>1 DEF Answer
<1> QED BY <1>3, <1>8, <1>9, <1>10, <1>11, <1>12, OthersKeep DEF CInv

\* The end of a reply that came in pieces leaves what it says in place, or nothing.
LEMMA TrickleEndsKeeps == ASSUME IInv, NEW d \in Clients, TrickleEnds(d) PROVE IInv'
<1>1. PICK w \in {"replied", "lost"} :
        /\ wire' = [wire EXCEPT ![d] = w]
        /\ reply' = IF w = "lost" THEN [reply EXCEPT ![d] = NoReply] ELSE reply
  BY DEF TrickleEnds
<1>2. /\ wire[d] = "trickling"
      /\ UNCHANGED <<gate, stored, phase, queue, busy, calls, applied, response, audit>>
  BY DEF TrickleEnds
<1>3. /\ TypeOK /\ OnPath(d) /\ Gated(d) /\ Effects(d) /\ Answer(d)
  BY DEF IInv, CInv
<1>4. /\ wire'[d] = w /\ calls[d] # 0 /\ Route(d).area = "items"
      /\ w # "lost" => reply'[d] = reply[d]
  BY <1>1, <1>2, <1>3 DEF TypeOK, Effects
<1>5. /\ Route(d)' = Route(d) /\ IsWrite(d)' = IsWrite(d) /\ KeyPasses(d)' = KeyPasses(d)
      /\ HasScope(d)' = HasScope(d) /\ NotDone(d)' = NotDone(d)
      /\ UNCHANGED <<request, settings>>
  BY <1>2 DEF gate, Route, IsWrite, KeyPasses, HasScope, Required, NotDone
<1>6. TypeOK'
  <2>1. wire' \in [Clients -> {"none", "sent", "replied", "trickling", "lost"}]
    BY <1>1, <1>3 DEF TypeOK
  <2>2. reply' \in [Clients -> Reply \cup {NoReply}]
    BY <1>1, <1>3 DEF TypeOK
  <2> QED BY <1>2, <1>3, <2>1, <2>2 DEF TypeOK, gate
<1>7. Others(d)
  BY <1>1, <1>2, <1>3 DEF TypeOK, Others, Untouched
<1>8. OnPath(d)' /\ Gated(d)' /\ Effects(d)'
  BY <1>2, <1>3, <1>4, <1>5 DEF OnPath, Gated, Effects, Answering
<1>9. Answer(d)'
  <2>1. phase[d] # "serialize" /\ response[d].status # 201
    <3>1. ~ Served(d)
      BY <1>2, <1>4 DEF Served
    <3> QED BY <1>3, <3>1 DEF Answer
  <2> QED BY <1>2, <1>3, <1>4, <1>5, <2>1 DEF Answer
<1> QED BY <1>2, <1>6, <1>7, <1>8, <1>9, OthersKeep DEF CInv

LEMMA RequestLostKeeps == ASSUME IInv, NEW d \in Clients, RequestLost(d) PROVE IInv'
<1>1. /\ wire[d] = "sent" /\ wire' = [wire EXCEPT ![d] = "lost"]
      /\ UNCHANGED <<gate, stored, phase, queue, busy, reply, calls, applied, response, audit>>
  BY DEF RequestLost
<1>2. /\ TypeOK /\ OnPath(d) /\ Gated(d) /\ Effects(d) /\ Answer(d)
  BY DEF IInv, CInv
<1>3. wire'[d] = "lost" /\ calls[d] # 0 /\ Route(d).area = "items"
  BY <1>1, <1>2 DEF TypeOK, Effects, Answering
<1>4. /\ Route(d)' = Route(d) /\ IsWrite(d)' = IsWrite(d) /\ KeyPasses(d)' = KeyPasses(d)
      /\ HasScope(d)' = HasScope(d) /\ NotDone(d)' = NotDone(d)
      /\ UNCHANGED <<request, settings>>
  BY <1>1 DEF gate, Route, IsWrite, KeyPasses, HasScope, Required, NotDone
<1>5. TypeOK'
  BY <1>1, <1>2 DEF TypeOK, gate
<1>6. Others(d)
  BY <1>1, <1>2 DEF TypeOK, Others, Untouched
<1>7. OnPath(d)' /\ Gated(d)' /\ Effects(d)'
  BY <1>1, <1>2, <1>3, <1>4 DEF OnPath, Gated, Effects, Answering
<1>8. Answer(d)'
  <2>1. ~ NotDone(d) /\ phase[d] # "serialize" /\ response[d].status # 201
    <3>1. ~ Served(d)
      BY <1>1, <1>3 DEF Served
    <3> QED BY <1>1, <1>2, <3>1 DEF Answer
  <2> QED BY <1>1, <1>2, <1>4, <2>1 DEF Answer
<1> QED BY <1>1, <1>5, <1>6, <1>7, <1>8, OthersKeep DEF CInv

-----------------------------------------------------------------------------
LEMMA InitInvariant == ASSUME Init PROVE IInv
<1>1. TypeOK
  BY DeploymentsAssumption DEF Init, TypeOK, Phases
<1>2. ASSUME NEW c \in Clients PROVE CInv(c)
  <2>1. /\ phase[c] = "new" /\ wire[c] = "none" /\ calls[c] = 0 /\ applied[c] = 0
        /\ response[c] = NoResponse /\ audit[c] = <<>>
    BY DEF Init
  <2>2. OnPath(c) /\ Gated(c) /\ Effects(c)
    BY <2>1 DEF OnPath, Gated, Effects, Answering, Jobs
  <2>3. response[c].status = 0 /\ response[c].why = "none"
    BY <2>1 DEF NoResponse
  <2>4. Answer(c)
    BY <2>1, <2>3 DEF Answer, NotDone
  <2> QED BY <2>2, <2>4 DEF CInv
<1> QED BY <1>1, <1>2 DEF IInv

LEMMA StutterKeeps == ASSUME IInv, UNCHANGED vars PROVE IInv'
<1>1. TypeOK'
  BY DEF IInv, TypeOK, vars
<1>2. ASSUME NEW c \in Clients PROVE CInv(c)'
  <2>1. Untouched(c) /\ UNCHANGED gate
    BY DEF vars, Untouched, gate
  <2> QED BY <2>1, UntouchedKeeps DEF IInv
<1> QED BY <1>1, <1>2 DEF IInv

LEMMA NextKeeps == ASSUME IInv, [Next]_vars PROVE IInv'
<1>1. CASE StartJob
  BY <1>1, StartJobKeeps
<1>2. CASE StoreChange
  BY <1>2, StoreChangeKeeps
<1>3. ASSUME NEW c \in Clients, Arrive(c) PROVE IInv'
  BY <1>3, ArriveKeeps
<1>4. ASSUME NEW c \in Clients, Serve(c) PROVE IInv'
  BY <1>4, ApiKeyKeeps, PrincipalKeeps, VerifyKeeps, ScopesKeeps, ServiceKeeps,
     ProviderAuthKeeps, EndpointKeeps, ReceiveReplyKeeps, TransportErrorKeeps,
     SerializeKeeps, AuditKeeps, ServerErrorKeeps DEF Serve
<1>5. ASSUME NEW c \in Clients, RequestLost(c) PROVE IInv'
  BY <1>5, RequestLostKeeps
<1>6. ASSUME NEW c \in Clients, TrickleEnds(c) PROVE IInv'
  BY <1>6, TrickleEndsKeeps
<1>7. ASSUME NEW c \in Clients, NEW r \in Reply, ProviderAnswers(c, r) PROVE IInv'
  BY <1>7, ProviderAnswersKeeps
<1>8. CASE UNCHANGED vars
  BY <1>8, StutterKeeps
<1> QED BY <1>1, <1>2, <1>3, <1>4, <1>5, <1>6, <1>7, <1>8 DEF Next

LEMMA Invariance == Spec => []IInv
<1>1. Init => IInv
  BY InitInvariant
<1>2. IInv /\ [Next]_vars => IInv'
  BY NextKeeps
<1> QED BY <1>1, <1>2, PTL DEF Spec

-----------------------------------------------------------------------------
(* The theorems.                                                           *)

\* Type correctness of the gateway's state.
THEOREM GatewayTypeCorrect == Spec => []TypeOK
<1>1. IInv => TypeOK
  BY DEF IInv
<1> QED BY <1>1, Invariance, PTL

\* The scope gate of a finance route asks for the authority of its permission.
LEMMA ScopeIsAuthority ==
  ASSUME TypeOK, NEW c \in Clients, Route(c).area = "finance"
  PROVE  HasScope(c) <=>
           Authority(parse(Required(c))) \subseteq AuthorityOf(request[c].grants)
<1>1. request[c] \in Request /\ Route(c) \in Routes
  BY RequestTyped
<1>2. request[c].grants \in SUBSET Scope
  BY <1>1 DEF Request
<1>3. Route(c).provider \in Names /\ Route(c).action \in Names
  BY <1>1, VocabularyAssumption DEF Routes, Actions
<1>4. Required(c) \in Scope /\ WellFormed(Required(c))
  BY <1>3, VocabularyAssumption DEF Required, Scope, WellFormed
<1> QED BY <1>2, <1>4, SatisfiesIsInclusion DEF HasScope

\* No interleaving of requests lets one of them cause an effect that its own key,
\* token and grants do not authorise (deps.py, dependencies.py, the routers).
THEOREM EffectsAreAuthorised == Spec => []EffectAuthorised
<1>1. IInv => EffectAuthorised
  <2> SUFFICES ASSUME IInv, NEW c \in Clients, Route(c).area # "health"
      PROVE  /\ (calls[c] > 0 \/ phase[c] \in Jobs \ {"api_key"}) =>
                  (settings.keys => request[c].key)
             /\ (calls[c] > 0 /\ Route(c).area = "finance") =>
                  /\ settings.auth0
                  /\ request[c].bearer = "good"
                  /\ Authority(parse(Required(c))) \subseteq AuthorityOf(request[c].grants)
    BY DEF EffectAuthorised
  <2>1. Gated(c)
    BY DEF IInv, CInv
  <2>2. (calls[c] > 0 \/ phase[c] \in Jobs \ {"api_key"}) => (settings.keys => request[c].key)
    BY <2>1 DEF Gated, KeyPasses
  <2>3. ASSUME calls[c] > 0, Route(c).area = "finance"
        PROVE  /\ settings.auth0
               /\ request[c].bearer = "good"
               /\ Authority(parse(Required(c))) \subseteq AuthorityOf(request[c].grants)
    <3>1. settings.auth0 /\ request[c].bearer = "good" /\ HasScope(c)
      BY <2>1, <2>3 DEF Gated
    <3> QED BY <2>3, <3>1, ScopeIsAuthority DEF IInv
  <2> QED BY <2>2, <2>3
<1> QED BY <1>1, Invariance, PTL

\* After a 307, a 4xx or a login the write was not and will not be carried out,
\* whatever the provider does after its call was given up.
THEOREM RetryIsSafe == Spec => []SafeToRetry
<1>1. IInv => SafeToRetry
  BY DEF IInv, CInv, Answer, SafeToRetry
<1> QED BY <1>1, Invariance, PTL

\* A 201 stands for one invocation and, redirects apart, one write.
THEOREM CreatedIsOnce == Spec => []CreatedOnce
<1>1. IInv => CreatedOnce
  <2> SUFFICES ASSUME IInv, NEW c \in Clients, response[c].status = 201
               PROVE  calls[c] = 1 /\ (applied[c] = 1 \/ reply[c].status = 302)
    BY DEF CreatedOnce
  <2>1. Served(c) /\ IsWrite(c) /\ Effects(c)
    BY DEF IInv, CInv, Answer
  <2>2. Route(c).area \in {"finance", "items"}
    BY <2>1, RequestTyped DEF IInv
  <2> QED BY <2>1, <2>2 DEF Served, Effects, Answering
<1> QED BY <1>1, Invariance, PTL

\* 401 and 403 are never the provider's.
THEOREM RefusalsAreOurs == Spec => []RefusalsAreAboutTheCaller
<1>1. IInv => RefusalsAreAboutTheCaller
  <2> SUFFICES ASSUME IInv, NEW c \in Clients, response[c].status \in {401, 403}
               PROVE  calls[c] = 0
    BY DEF RefusalsAreAboutTheCaller
  <2>1. Answer(c)
    BY DEF IInv, CInv
  <2> QED BY <2>1 DEF Answer
<1> QED BY <1>1, Invariance, PTL

\* The audit trail: one line per handled answer, with its status.
THEOREM AuditIsFaithful == Spec => []AuditFaithful
<1>1. IInv => AuditFaithful
  BY DEF IInv, CInv, Answer, AuditFaithful
<1> QED BY <1>1, Invariance, PTL

\* Who answers: a login comes from the token check or from a refusal by the
\* provider, every other answer has another reason.
LEMMA LoginComesFrom ==
  ASSUME IInv, NEW d \in Clients, Arrive(d) \/ Serve(d),
         response[d] = NoResponse, response'[d].why = "login"
  PROVE  \/ stored = "none" /\ calls[d] = 0
         \/ wire[d] = "replied" /\ reply[d].status \in {401, 403}
<1>1. response[d].why = "none" /\ TypeOK
  BY DEF NoResponse, IInv
<1>2. ASSUME NEW s, NEW w, Respond(d, s, w) PROVE w = "login"
  <2>1. response'[d] = [status |-> s, why |-> w]
    BY <1>1, <1>2 DEF Respond, TypeOK
  <2> QED BY <2>1
<1>3. response' # response
  BY <1>1
<1>4. CASE Arrive(d)
  BY <1>2, <1>3, <1>4 DEF Arrive, Submit
<1>5. CASE require_provider_auth(d)
  <2>1. ~ Call(d) /\ ~ Raise(d)
    BY <1>2, <1>3 DEF Call, Submit, Raise
  <2>2. phase[d] = "provider_auth"
    BY <1>5 DEF require_provider_auth, Running
  <2> QED BY <1>5, <2>1, <2>2, NoEffectYet DEF require_provider_auth, BeforeCall
<1>6. CASE ReceiveReply(d)
  <2>1. CASE reply[d].status \in {401, 403}
    BY <1>6, <2>1 DEF ReceiveReply
  <2>2. CASE reply[d].status \notin {401, 403}
    BY <1>2, <1>3, <1>6, <2>2 DEF ReceiveReply, raise_mapped, Submit, Raise
  <2> QED BY <2>1, <2>2
<1>7. CASE \/ require_api_key(d) \/ current_principal(d) \/ verify(d)
            \/ require_scopes(d) \/ get_service(d)
  BY <1>2, <1>3, <1>7 DEF require_api_key, current_principal, verify, Verified, require_scopes,
     get_service, Call, Submit, Raise, Ask
<1>8. CASE endpoint(d)
  BY <1>2, <1>3, <1>8 DEF endpoint, health, finance_service, example_service,
     Submit, Raise, Ask
<1>9. CASE TransportError(d) \/ serialize(d)
  BY <1>2, <1>3, <1>9 DEF TransportError, serialize, Submit, Raise
<1>10. CASE Audit(d)
  BY <1>3, <1>10 DEF Audit
<1>11. CASE ServerError(d)
  <2>1. response'[d] = [status |-> 500, why |-> "error"]
    BY <1>1, <1>11 DEF ServerError, TypeOK
  <2> QED BY <2>1
<1> QED BY <1>4, <1>5, <1>6, <1>7, <1>8, <1>9, <1>10, <1>11 DEF Serve

\* The answers of all other requests stay as they are.
LEMMA OthersAnswersStay ==
  ASSUME IInv, NEW d \in Clients, Arrive(d) \/ Serve(d), NEW c \in Clients \ {d}
  PROVE  response'[c] = response[c]
<1>1. TypeOK
  BY DEF IInv
<1>2. CASE Arrive(d)
  BY <1>1, <1>2 DEF Arrive, Respond, Submit, TypeOK
<1>3. CASE Serve(d)
  BY <1>1, <1>3 DEF Serve, require_api_key, current_principal, verify, Verified,
     require_scopes, get_service, require_provider_auth, endpoint, health,
     finance_service, example_service, ReceiveReply, TransportError, serialize,
     raise_mapped, Call, Login, Respond, Submit, Raise, Ask, Audit, ServerError, TypeOK
<1> QED BY <1>2, <1>3

\* A client is sent to the login for one of two reasons, true at that moment.
THEOREM LoginHasACause == Spec => LoginIsJustified
<1> DEFINE Justified == \A c \in Clients :
             (response'[c].why = "login" /\ response[c] = NoResponse) =>
                \/ stored = "none" /\ calls[c] = 0
                \/ wire[c] = "replied" /\ reply[c].status \in {401, 403}
<1>1. IInv /\ [Next]_vars => [Justified]_vars
  <2> SUFFICES ASSUME IInv, Next, NEW c \in Clients,
                      response'[c].why = "login", response[c] = NoResponse
               PROVE  \/ stored = "none" /\ calls[c] = 0
                      \/ wire[c] = "replied" /\ reply[c].status \in {401, 403}
    BY DEF vars
  <2>1. response'[c] # response[c]
    BY DEF NoResponse
  <2>2. ~ StartJob /\ ~ StoreChange
    BY <2>1 DEF StartJob, StoreChange
  <2>3. \A d \in Clients : ~ RequestLost(d) /\ ~ TrickleEnds(d)
    BY <2>1 DEF RequestLost, TrickleEnds
  <2>4. \A d \in Clients, r \in Reply : ~ ProviderAnswers(d, r)
    BY <2>1 DEF ProviderAnswers
  <2>5. PICK d \in Clients : Arrive(d) \/ Serve(d)
    BY <2>2, <2>3, <2>4 DEF Next
  <2>6. c = d
    BY <2>1, <2>5, OthersAnswersStay
  <2> QED BY <2>5, <2>6, LoginComesFrom
<1> QED BY <1>1, Invariance, PTL DEF Spec, LoginIsJustified

-----------------------------------------------------------------------------
(* Which gate answers.                                                     *)

\* An answer of branch w is due to a request that has come to that branch.
Due(c, w) ==
    (Route(c).area # "health" /\ w \notin {"none", "json"}) =>
        /\ w = "key" <=> ~ KeyPasses(c)
        /\ (Route(c).area = "finance" /\ w \in {"scope", "args", "served"}) =>
             /\ settings.auth0
             /\ request[c].bearer = "good"
             /\ w # "scope" <=> HasScope(c)

\* The inductive invariant: an exception that is on its way to its answer was raised
\* behind the key gate.
DueInv ==
    \A c \in Clients :
        /\ Due(c, response[c].why)
        /\ phase[c] = "raised" /\ Route(c).area # "health" => KeyPasses(c)

\* What a step makes of the request it is about.
Fate(d) ==
    \/ \E s, w : Respond(d, s, w) /\ Due(d, w)
    \/ Raise(d) /\ (Route(d).area # "health" => KeyPasses(d))
    \/ phase'[d] # "raised" /\ UNCHANGED response
    \/ ServerError(d)

LEMMA ServeFate ==
  ASSUME IInv, NEW d \in Clients, Arrive(d) \/ Serve(d) PROVE Fate(d)
<1>1. TypeOK /\ OnPath(d) /\ Gated(d)
  BY DEF IInv, CInv
<1>2. ASSUME NEW p \in Phases \ {"raised"}, phase' = [phase EXCEPT ![d] = p], UNCHANGED response
      PROVE  Fate(d)
  BY <1>1, <1>2 DEF Fate, TypeOK
<1>3. ASSUME NEW job \in Jobs, Submit(d, job) \/ Ask(d, job) PROVE Fate(d)
  <2>1. job \in Phases \ {"raised"}
    BY DEF Phases, Jobs
  <2> QED BY <1>2, <1>3, <2>1 DEF Submit, Ask
<1>4. ASSUME Route(d).area # "health" => KeyPasses(d), NEW s, NEW w, Respond(d, s, w),
             w \in {"bearer", "login", "rate", "relay", "transport"}
      PROVE  Fate(d)
  BY <1>4 DEF Fate, Due
<1>5. ASSUME Route(d).area # "health" => KeyPasses(d), Login(d) PROVE Fate(d)
  BY <1>4, <1>5 DEF Login
<1>6. ASSUME Route(d).area # "health" => KeyPasses(d),
             Route(d).area = "finance" =>
               settings.auth0 /\ request[d].bearer = "good" /\ HasScope(d),
             NEW s, NEW w \in {"args", "served"}, Respond(d, s, w)
      PROVE  Fate(d)
  BY <1>6 DEF Fate, Due
<1>7. CASE Arrive(d)
  <2>1. ASSUME NEW s, Respond(d, s, "json") PROVE Fate(d)
    BY <2>1 DEF Fate, Due
  <2> QED BY <1>3, <1>7, <2>1 DEF Arrive, Jobs
<1>8. CASE require_api_key(d)
  <2>1. CASE ~ KeyPasses(d) /\ Respond(d, 401, "key")
    BY <2>1 DEF Fate, Due
  <2> QED BY <1>3, <1>8, <2>1 DEF require_api_key, Jobs
<1>9. CASE current_principal(d) \/ verify(d)
  <2>1. Route(d).area # "health" => KeyPasses(d)
    BY <1>1, <1>9 DEF current_principal, verify, Running, Gated, Jobs
  <2>2. \/ Respond(d, 401, "bearer") \/ Ask(d, "verifying") \/ Submit(d, "scopes") \/ Raise(d)
    BY <1>9 DEF current_principal, verify, Verified
  <2> QED BY <1>3, <1>4, <2>1, <2>2 DEF Fate, Jobs
<1>10. CASE require_scopes(d)
  <2>1. /\ Route(d).area # "health" => KeyPasses(d)
        /\ Route(d).area = "finance" => settings.auth0 /\ request[d].bearer = "good"
    BY <1>1, <1>10 DEF require_scopes, Running, Gated, Jobs
  <2>2. CASE ~ HasScope(d) /\ Respond(d, 403, "scope")
    BY <2>1, <2>2 DEF Fate, Due
  <2> QED BY <1>3, <1>10, <2>2 DEF require_scopes, Jobs
<1>11. CASE get_service(d) \/ require_provider_auth(d)
  <2>1. /\ Route(d).area # "health" => KeyPasses(d)
        /\ Route(d).area = "finance" =>
             settings.auth0 /\ request[d].bearer = "good" /\ HasScope(d)
    BY <1>1, <1>11 DEF get_service, require_provider_auth, Running, OnPath, Gated, Jobs
  <2>2. CASE Call(d)
    BY <1>3, <1>6, <2>1, <2>2 DEF Call, Jobs
  <2> QED BY <1>5, <1>11, <2>1, <2>2 DEF get_service, require_provider_auth, Fate
<1>12. CASE endpoint(d)
  <2>1. Route(d).area # "health" => KeyPasses(d)
    BY <1>1, <1>12 DEF endpoint, Running, Gated, Jobs
  <2>2. \/ Submit(d, "serialize") \/ Ask(d, "calling")
        \/ Respond(d, 502, "transport") \/ Raise(d)
    BY <1>12 DEF endpoint, health, finance_service, example_service
  <2> QED BY <1>3, <1>4, <2>1, <2>2 DEF Fate, Jobs
<1>13. CASE ReceiveReply(d) \/ TransportError(d)
  <2>1. Route(d).area # "health" => KeyPasses(d)
    BY <1>1, <1>13 DEF ReceiveReply, TransportError, Awaiting, Running, Gated, Jobs
  <2> QED BY <1>3, <1>4, <1>5, <1>13, <2>1
          DEF ReceiveReply, TransportError, raise_mapped, Fate, Jobs
<1>14. CASE serialize(d)
  <2>1. /\ Route(d).area # "health" => KeyPasses(d)
        /\ Route(d).area = "finance" =>
             settings.auth0 /\ request[d].bearer = "good" /\ HasScope(d)
    BY <1>1, <1>14 DEF serialize, Running, Gated, Jobs
  <2> QED BY <1>6, <1>14, <2>1 DEF serialize, Fate
<1>15. CASE Audit(d)
  BY <1>2, <1>15 DEF Audit, Phases
<1>16. CASE ServerError(d)
  BY <1>16 DEF Fate
<1> QED BY <1>7, <1>8, <1>9, <1>10, <1>11, <1>12, <1>13, <1>14, <1>15, <1>16 DEF Serve

\* What is due to a request depends on the request and the settings alone.
LEMMA DueIsFixed ==
  ASSUME UNCHANGED gate, NEW c \in Clients, Due(c, response'[c].why)
  PROVE  Due(c, response[c].why)'
  BY DEF gate, Due, Route, KeyPasses, HasScope, Required

LEMMA ServeDue ==
  ASSUME IInv, DueInv, NEW d \in Clients, Arrive(d) \/ Serve(d), UNCHANGED gate,
         NEW c \in Clients
  PROVE  /\ Due(c, response'[c].why)
         /\ phase'[c] = "raised" /\ Route(c).area # "health" => KeyPasses(c)
<1>1. TypeOK /\ Fate(d) /\ Due(c, response[c].why)
  BY ServeFate DEF IInv, DueInv
<1>2. CASE c # d
  <2>1. response'[c] = response[c]
    BY <1>2, OthersAnswersStay
  <2>2. phase'[c] = phase[c]
    BY <1>1, <1>2 DEF TypeOK, Arrive, Serve, require_api_key, current_principal, verify,
       Verified, require_scopes, get_service, require_provider_auth, endpoint, health,
       finance_service, example_service, ReceiveReply, TransportError, serialize,
       raise_mapped, Call, Login, Respond, Submit, Raise, Ask, Audit, ServerError
  <2> QED BY <1>1, <2>1, <2>2 DEF DueInv
<1>3. CASE c = d
  <2>1. ASSUME NEW s, NEW w, Respond(d, s, w), Due(d, w)
        PROVE  Due(d, response'[d].why) /\ phase'[d] # "raised"
    <3>1. response'[d] = [status |-> s, why |-> w] /\ phase'[d] = "responding"
      BY <1>1, <2>1 DEF Respond, TypeOK
    <3> QED BY <2>1, <3>1
  <2>2. ASSUME Raise(d) PROVE UNCHANGED response
    BY <2>2 DEF Raise
  <2>3. ASSUME ServerError(d) PROVE Due(d, response'[d].why) /\ phase'[d] # "raised"
    <3>1. /\ phase[d] = "raised" /\ phase'[d] = "answered"
          /\ response'[d] = [status |-> 500, why |-> "error"]
      BY <1>1, <2>3 DEF ServerError, TypeOK
    <3> QED BY <3>1 DEF Due, DueInv
  <2> QED BY <1>1, <1>3, <2>1, <2>2, <2>3 DEF Fate
<1> QED BY <1>2, <1>3

LEMMA DueInvariance == Spec => []DueInv
<1>1. Init => DueInv
  BY DEF Init, DueInv, Due, NoResponse
<1>2. IInv /\ DueInv /\ [Next]_vars => DueInv'
  <2> SUFFICES ASSUME IInv, DueInv, [Next]_vars PROVE DueInv'
    OBVIOUS
  <2>1. UNCHANGED gate
    BY DEF Next, StartJob, StoreChange, Arrive, Serve, require_api_key, current_principal,
       verify, require_scopes, get_service, require_provider_auth, endpoint, ReceiveReply,
       TransportError, serialize, Audit, ServerError, RequestLost, TrickleEnds,
       ProviderAnswers, vars, gate
  <2>2. ASSUME NEW c \in Clients
        PROVE  /\ Due(c, response'[c].why)
               /\ phase'[c] = "raised" /\ Route(c).area # "health" => KeyPasses(c)
    <3>1. CASE \E d \in Clients : Arrive(d) \/ Serve(d)
      BY <2>1, <3>1, ServeDue
    <3>2. CASE UNCHANGED <<phase, response>>
      BY <3>2 DEF DueInv
    <3>3. CASE \/ StartJob \/ StoreChange \/ UNCHANGED vars
               \/ \E d \in Clients : \/ RequestLost(d) \/ TrickleEnds(d)
                                     \/ \E r \in Reply : ProviderAnswers(d, r)
      BY <3>2, <3>3 DEF StartJob, StoreChange, RequestLost, TrickleEnds, ProviderAnswers, vars
    <3> QED BY <3>1, <3>3 DEF Next
  <2>3. ASSUME NEW c \in Clients PROVE KeyPasses(c)' = KeyPasses(c) /\ Route(c)' = Route(c)
    BY <2>1 DEF gate, KeyPasses, Route
  <2>4. ASSUME NEW c \in Clients
        PROVE  /\ Due(c, response[c].why)'
               /\ (phase[c] = "raised" /\ Route(c).area # "health" => KeyPasses(c))'
    <3>1. Due(c, response[c].why)'
      BY <2>1, <2>2, DueIsFixed
    <3> QED BY <2>2, <2>3, <3>1
  <2> QED BY <2>4 DEF DueInv
<1> QED BY <1>1, <1>2, Invariance, PTL DEF Spec

\* Nobody is turned away without cause or told about a gate behind the one that stopped
\* it: deps.py's require_api_key and dependencies.py's require_scopes answer exactly
\* those they should, in any interleaving and for any registry of scopes.
THEOREM RefusalsFollowTheGates == Spec => []RefusedAtTheFirstGap
<1>1. TypeOK /\ DueInv => RefusedAtTheFirstGap
  <2> SUFFICES ASSUME TypeOK, DueInv, NEW c \in Clients, Route(c).area # "health",
                      response[c].why \notin {"none", "json"}
      PROVE  /\ response[c].why = "key" <=> settings.keys /\ ~ request[c].key
             /\ (Route(c).area = "finance" /\ response[c].why \in {"scope", "args", "served"}) =>
                  /\ settings.auth0
                  /\ request[c].bearer = "good"
                  /\ response[c].why # "scope" <=>
                       Authority(parse(Required(c))) \subseteq AuthorityOf(request[c].grants)
    BY DEF RefusedAtTheFirstGap
  <2>1. Due(c, response[c].why)
    BY DEF DueInv
  <2>2. ASSUME Route(c).area = "finance"
        PROVE  HasScope(c) <=>
                 Authority(parse(Required(c))) \subseteq AuthorityOf(request[c].grants)
    BY <2>2, ScopeIsAuthority
  <2> QED BY <2>1, <2>2 DEF Due, KeyPasses
<1> QED BY <1>1, GatewayTypeCorrect, DueInvariance, PTL
=============================================================================
