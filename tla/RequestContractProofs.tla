----------------------- MODULE RequestContractProofs ------------------------
(* Gateway implements RequestContract: with any number of other requests   *)
(* in flight, and whatever the provider does, each client deals with a     *)
(* machine of four variables that serves it alone.                         *)
EXTENDS GatewayProofs

-----------------------------------------------------------------------------
(* The strengthening.  IInv does not know where a request is whose call is *)
(* out: were it on its way to a 500, that answer would leave open what is  *)
(* still to happen, which the contract allows a 502 alone.                 *)

Out(c) == wire[c] = "sent" => phase[c] \in {"calling", "responding", "answered"}

CallsAreAwaited == \A c \in Clients : Out(c)

LEMMA OutAtFirst == ASSUME Init PROVE CallsAreAwaited
  BY DEF Init, CallsAreAwaited, Out

\* A step of d is all that moves d, and a call goes out with the thread kept.
LEMMA OutStays == ASSUME IInv, CallsAreAwaited, [Next]_vars PROVE CallsAreAwaited'
<1>0. TypeOK
  BY DEF IInv
<1>1. ASSUME UNCHANGED <<phase, wire>> PROVE CallsAreAwaited'
  BY <1>1 DEF CallsAreAwaited, Out
<1>2. ASSUME NEW d \in Clients, UNCHANGED wire, wire[d] # "sent",
             \A c \in Clients \ {d} : phase'[c] = phase[c]
      PROVE  CallsAreAwaited'
  BY <1>2 DEF CallsAreAwaited, Out
<1>3. ASSUME NEW d \in Clients, UNCHANGED wire,
             \A c \in Clients \ {d} : phase'[c] = phase[c],
             phase'[d] \in {"calling", "responding", "answered"}
      PROVE  CallsAreAwaited'
  BY <1>3 DEF CallsAreAwaited, Out
<1>4. ASSUME NEW d \in Clients, Arrive(d) PROVE CallsAreAwaited'
  <2>1. wire[d] = "none" /\ UNCHANGED wire
    BY <1>4, NoEffectYet DEF Arrive, BeforeCall, provider
  <2>2. \A c \in Clients \ {d} : phase'[c] = phase[c]
    BY <1>0, <1>4 DEF Arrive, Submit, Respond, TypeOK
  <2> QED BY <1>2, <2>1, <2>2
<1>5. ASSUME NEW d \in Clients,
             \/ require_api_key(d) \/ current_principal(d) \/ verify(d)
             \/ require_scopes(d) \/ get_service(d) \/ require_provider_auth(d)
      PROVE  CallsAreAwaited'
  <2>1. UNCHANGED wire /\ phase[d] \in BeforeCall
    BY <1>5 DEF require_api_key, current_principal, verify, require_scopes, get_service,
       require_provider_auth, provider, Running, BeforeCall
  <2>2. wire[d] = "none"
    BY <2>1, NoEffectYet
  <2>3. \A c \in Clients \ {d} : phase'[c] = phase[c]
    BY <1>0, <1>5 DEF require_api_key, current_principal, verify, Verified, require_scopes,
       get_service, require_provider_auth, Call, Login, Submit, Ask, Respond, Raise, TypeOK
  <2> QED BY <1>2, <2>1, <2>2, <2>3
<1>6. ASSUME NEW d \in Clients, endpoint(d) PROVE CallsAreAwaited'
  <2>1. wire[d] = "none"
    BY <1>6, NoEffectYet DEF endpoint, Running, BeforeCall
  <2>2. \A c \in Clients \ {d} : phase'[c] = phase[c]
    BY <1>0, <1>6 DEF endpoint, health, finance_service, example_service,
       Submit, Ask, Respond, Raise, TypeOK
  <2>3. CASE UNCHANGED wire
    BY <1>2, <2>1, <2>2, <2>3
  <2>4. CASE Ask(d, "calling") /\ wire' = [wire EXCEPT ![d] = "sent"]
    <3>1. phase'[d] = "calling" /\ \A c \in Clients \ {d} : wire'[c] = wire[c]
      BY <1>0, <2>4 DEF Ask, TypeOK
    <3> QED BY <2>2, <3>1 DEF CallsAreAwaited, Out
  <2> QED BY <1>6, <2>3, <2>4 DEF endpoint, health, finance_service, example_service, provider
<1>7. ASSUME NEW d \in Clients, ReceiveReply(d) \/ serialize(d) \/ ServerError(d)
      PROVE  CallsAreAwaited'
  <2>1. UNCHANGED wire /\ wire[d] # "sent"
    BY <1>7 DEF ReceiveReply, serialize, ServerError, Running, provider, CallsAreAwaited, Out
  <2>2. \A c \in Clients \ {d} : phase'[c] = phase[c]
    BY <1>0, <1>7 DEF ReceiveReply, raise_mapped, serialize, ServerError, Login, Submit,
       Respond, Raise, TypeOK
  <2> QED BY <1>2, <2>1, <2>2
<1>8. ASSUME NEW d \in Clients, TransportError(d) \/ Audit(d) PROVE CallsAreAwaited'
  <2>1. UNCHANGED wire /\ phase'[d] \in {"responding", "answered"}
    BY <1>0, <1>8 DEF TransportError, Audit, Respond, provider, TypeOK
  <2>2. \A c \in Clients \ {d} : phase'[c] = phase[c]
    BY <1>0, <1>8 DEF TransportError, Audit, Respond, TypeOK
  <2> QED BY <1>3, <2>1, <2>2
<1>9. ASSUME NEW d \in Clients, NEW w \in {"replied", "trickling", "lost"},
             wire' = [wire EXCEPT ![d] = w], UNCHANGED phase
      PROVE  CallsAreAwaited'
  BY <1>0, <1>9 DEF CallsAreAwaited, Out, TypeOK
<1>10. ASSUME NEW d \in Clients, RequestLost(d) \/ TrickleEnds(d) PROVE CallsAreAwaited'
  BY <1>9, <1>10 DEF RequestLost, TrickleEnds
<1>11. ASSUME NEW d \in Clients, NEW r \in Reply, ProviderAnswers(d, r) PROVE CallsAreAwaited'
  BY <1>9, <1>11 DEF ProviderAnswers
<1>12. CASE StartJob \/ StoreChange \/ UNCHANGED vars
  BY <1>1, <1>12 DEF StartJob, StoreChange, provider, vars
<1> QED BY <1>4, <1>5, <1>6, <1>7, <1>8, <1>10, <1>11, <1>12 DEF Next, Serve

-----------------------------------------------------------------------------
(* What a client sees of a step.                                           *)

LEMMA TitlesStay ==
  ASSUME UNCHANGED gate
  PROVE  UNCHANGED [c \in Clients |-> Title(c)]
  BY DEF gate, Title, Route, IsWrite, Required

LEMMA EffectsStay ==
  ASSUME UNCHANGED <<wire, applied>>
  PROVE  UNCHANGED [c \in Clients |-> Effect(c)]
  BY DEF Effect

LEMMA Invisible ==
  ASSUME UNCHANGED <<gate, wire, applied, response>>
  PROVE  UNCHANGED Promise!vars
  BY TitlesStay, EffectsStay DEF Promise!vars

\* A step that concerns one call changes one effect.
LEMMA OneEffect ==
  ASSUME NEW d \in Clients,
         \A c \in Clients \ {d} : wire'[c] = wire[c] /\ applied'[c] = applied[c]
  PROVE  [c \in Clients |-> Effect(c)]'
           = [[c \in Clients |-> Effect(c)] EXCEPT ![d] = Effect(d)']
<1>1. \A c \in Clients \ {d} : Effect(c)' = Effect(c)
  BY DEF Effect
<1> QED BY <1>1

\* Past all its gates a request has the title that its route stands for.
LEMMA GatesGiveTitle ==
  ASSUME TypeOK, NEW d \in Clients,
         Route(d).area # "health" => KeyPasses(d),
         Route(d).area = "finance" =>
            settings.auth0 /\ request[d].bearer = "good" /\ HasScope(d)
  PROVE  Title(d) = IF IsWrite(d) THEN "write" ELSE "read"
<1>1. CASE Route(d).area = "finance"
  BY <1>1, ScopeIsAuthority DEF Title, KeyPasses
<1>2. CASE Route(d).area # "finance"
  BY <1>2 DEF Title, KeyPasses
<1> QED BY <1>1, <1>2

\* A service is invoked, and a provider carries out, what the gates let through.
LEMMA TitleAtEndpoint ==
  ASSUME IInv, NEW d \in Clients, calls[d] > 0 \/ phase[d] \in {"endpoint", "serialize"}
  PROVE  Title(d) = IF IsWrite(d) THEN "write" ELSE "read"
<1>1. TypeOK /\ Gated(d)
  BY DEF IInv, CInv
<1>2. /\ Route(d).area # "health" => KeyPasses(d)
      /\ Route(d).area = "finance" =>
            settings.auth0 /\ request[d].bearer = "good" /\ HasScope(d)
  BY <1>1 DEF Gated, Jobs
<1> QED BY <1>1, <1>2, GatesGiveTitle

\* A response tells enough of the effect, in the terms of the contract.
Tells(d, s, w) ==
    /\ Effect(d) = "pending" => s = 502
    /\ (s \in {307, 400, 401, 403, 404, 422, 429} \/ w = "login") => applied[d] = 0
    /\ s = 201 => Effect(d) = "settled"
    /\ s \in {401, 403} => Effect(d) = "none"
    /\ w = "served" => Title(d) # "nothing"

LEMMA AnswerMaps ==
  ASSUME NEW d \in Clients, response[d] = NoResponse, NEW s, NEW w,
         [status |-> s, why |-> w] \in Response,
         response' = [response EXCEPT ![d] = [status |-> s, why |-> w]],
         Tells(d, s, w), UNCHANGED <<gate, wire, applied>>
  PROVE  Promise!Next
<1> DEFINE r == [status |-> s, why |-> w]
<1>1. UNCHANGED <<[c \in Clients |-> Title(c)], [c \in Clients |-> Effect(c)], applied>>
  BY TitlesStay, EffectsStay
<1>2. r.status = s /\ r.why = w /\ r \in Response /\ response' = [response EXCEPT ![d] = r]
  OBVIOUS
<1> HIDE DEF r
<1>3. Promise!Declines(r) => applied[d] = 0
  BY <1>2 DEF Tells, Promise!Declines
<1>4. /\ [c \in Clients |-> Title(c)][d] = Title(d)
      /\ [c \in Clients |-> Effect(c)][d] = Effect(d)
  OBVIOUS
<1>5. Promise!Answer(d, r)
  BY <1>1, <1>2, <1>3, <1>4 DEF Promise!Answer, Tells
<1> QED BY <1>2, <1>5 DEF Promise!Next

\* Before the endpoint nothing has been done, and any answer but "served" says so.
LEMMA EarlyAnswerMaps ==
  ASSUME IInv, NEW d \in Clients, phase[d] \in BeforeCall,
         NEW s, NEW w, Respond(d, s, w), [status |-> s, why |-> w] \in Response,
         s # 201, w # "served", UNCHANGED <<gate, wire, applied>>
  PROVE  Promise!Next
<1>1. applied[d] = 0 /\ wire[d] = "none"
  BY NoEffectYet
<1>2. response[d] = NoResponse
  BY DEF IInv, CInv, Answer, BeforeCall
<1>3. Tells(d, s, w)
  BY <1>1 DEF Tells, Effect
<1> QED BY <1>2, <1>3, AnswerMaps DEF Respond

-----------------------------------------------------------------------------
(* One lemma per action that a client may notice.                          *)

LEMMA ArriveMaps == ASSUME IInv, NEW d \in Clients, Arrive(d) PROVE [Promise!Next]_(Promise!vars)
<1>1. phase[d] \in BeforeCall /\ UNCHANGED <<gate, wire, applied>>
  BY DEF Arrive, BeforeCall, provider
<1>2. CASE Respond(d, 422, "json") \/ Respond(d, 400, "json")
  BY <1>1, <1>2, EarlyAnswerMaps DEF Response
<1>3. CASE UNCHANGED response
  BY <1>1, <1>3, Invisible
<1> QED BY <1>2, <1>3 DEF Arrive, Submit

\* The gates: they refuse, send to the login, or pass the request on unseen.
LEMMA GatesMap ==
  ASSUME IInv, NEW d \in Clients,
         \/ require_api_key(d) \/ current_principal(d) \/ verify(d)
         \/ require_scopes(d) \/ get_service(d) \/ require_provider_auth(d)
  PROVE  [Promise!Next]_(Promise!vars)
<1>1. phase[d] \in BeforeCall /\ UNCHANGED <<gate, wire, applied>>
  BY DEF require_api_key, current_principal, verify, require_scopes, get_service,
     require_provider_auth, provider, Running, BeforeCall
<1>2. CASE \/ Respond(d, 401, "key") \/ Respond(d, 401, "bearer")
           \/ Respond(d, 403, "scope") \/ Respond(d, 422, "args")
           \/ Respond(d, 307, "login") \/ Respond(d, 503, "login")
  BY <1>1, <1>2, EarlyAnswerMaps DEF Response
<1>3. CASE UNCHANGED response
  BY <1>1, <1>3, Invisible
<1>4. Login(d) => Respond(d, 307, "login") \/ Respond(d, 503, "login")
  BY DEF Login
<1>5. Call(d) => Respond(d, 422, "args") \/ UNCHANGED response
  BY DEF Call, Submit
<1> QED BY <1>2, <1>3, <1>4, <1>5 DEF require_api_key, current_principal, verify, Verified,
        require_scopes, get_service, require_provider_auth, Submit, Ask, Raise

\* The service is invoked: a stub acts, a call goes out, or there is no connection.
LEMMA EndpointMaps == ASSUME IInv, NEW d \in Clients, endpoint(d) PROVE [Promise!Next]_(Promise!vars)
<1>1. /\ phase[d] = "endpoint" /\ phase[d] \in BeforeCall
      /\ UNCHANGED <<gate, stored, audit>>
  BY DEF endpoint, Running, BeforeCall
<1>2. applied[d] = 0 /\ wire[d] = "none"
  BY <1>1, NoEffectYet
<1>3. response[d] = NoResponse /\ TypeOK
  BY <1>1 DEF IInv, CInv, Answer
<1>4. Title(d) = IF IsWrite(d) THEN "write" ELSE "read"
  BY <1>1, TitleAtEndpoint
<1>5. Effect(d) = "none"
  BY <1>2 DEF Effect
<1>6. CASE UNCHANGED <<wire, applied, response>>
  BY <1>1, <1>6, Invisible
<1>7. CASE IsWrite(d) /\ create_record(d) /\ UNCHANGED <<wire, response>>
  <2>1. /\ applied' = [applied EXCEPT ![d] = @ + 1] /\ applied'[d] = 1
        /\ \A c \in Clients \ {d} : applied'[c] = applied[c]
    BY <1>2, <1>3, <1>7 DEF create_record, TypeOK
  <2>2. Effect(d)' = "settled"
    BY <1>2, <1>7, <2>1 DEF Effect
  <2>3. [c \in Clients |-> Effect(c)]'
          = [[c \in Clients |-> Effect(c)] EXCEPT ![d] = "settled"]
    BY <1>7, <2>1, <2>2, OneEffect
  <2>4. Promise!Apply(d)
    BY <1>4, <1>7, <2>1 DEF Promise!Apply
  <2>5. Promise!Act(d)
    BY <1>1, <1>3, <1>4, <1>5, <1>7, <2>3, <2>4, TitlesStay DEF Promise!Act
  <2> QED BY <2>5 DEF Promise!Next
<1>8. CASE wire' = [wire EXCEPT ![d] = "sent"] /\ UNCHANGED <<applied, response>>
  <2>1. wire'[d] = "sent" /\ \A c \in Clients \ {d} : wire'[c] = wire[c]
    BY <1>3, <1>8 DEF TypeOK
  <2>2. Effect(d)' = "pending"
    BY <2>1 DEF Effect
  <2>3. [c \in Clients |-> Effect(c)]'
          = [[c \in Clients |-> Effect(c)] EXCEPT ![d] = "pending"]
    BY <1>8, <2>1, <2>2, OneEffect
  <2>4. Promise!Send(d)
    BY <1>1, <1>3, <1>4, <1>5, <1>8, <2>3, TitlesStay DEF Promise!Send
  <2> QED BY <2>4 DEF Promise!Next
<1>9. CASE Respond(d, 502, "transport") /\ UNCHANGED <<wire, applied>>
  BY <1>1, <1>9, EarlyAnswerMaps DEF Response
<1> QED BY <1>6, <1>7, <1>8, <1>9 DEF endpoint, health, finance_service, example_service,
        list_records, create_record, Submit, Ask, Raise, provider

\* What the provider says is passed on; nothing is pending once its reply is here.
LEMMA ReceiveReplyMaps ==
  ASSUME IInv, NEW d \in Clients, ReceiveReply(d) PROVE [Promise!Next]_(Promise!vars)
<1>1. /\ phase[d] = "calling" /\ wire[d] = "replied" /\ UNCHANGED <<gate, wire, applied>>
  BY DEF ReceiveReply, Awaiting, Running, provider
<1>2. /\ reply[d] \in Reply /\ response[d] = NoResponse /\ TypeOK
      /\ reply[d].status \notin {200, 503} => applied[d] = 0
  BY <1>1 DEF IInv, CInv, Answer, Effects, Answering
<1>3. ASSUME NEW s, NEW w, Respond(d, s, w), [status |-> s, why |-> w] \in Response,
             s \notin {201, 401, 403}, w # "served",
             s \in {307, 400, 404, 422, 429} \/ w = "login" => applied[d] = 0
      PROVE  Promise!Next
  <2>1. Tells(d, s, w)
    BY <1>1, <1>3 DEF Tells, Effect
  <2> QED BY <1>1, <1>2, <1>3, <2>1, AnswerMaps DEF Respond
<1>4. CASE reply[d].status \in {401, 403} /\ Login(d)
  <2>1. CASE Respond(d, 307, "login")
    BY <1>2, <1>3, <1>4, <2>1 DEF Response
  <2>2. CASE Respond(d, 503, "login")
    BY <1>2, <1>3, <1>4, <2>2 DEF Response
  <2> QED BY <1>4, <2>1, <2>2 DEF Login
<1>5. CASE reply[d].status = 429 /\ Respond(d, 429, "rate")
  BY <1>2, <1>3, <1>5 DEF Response
<1>6. CASE reply[d].status = 404 /\ Respond(d, 404, "relay")
  BY <1>2, <1>3, <1>6 DEF Response
<1>7. CASE reply[d].status = 503 /\ Respond(d, 503, "relay")
  BY <1>3, <1>7 DEF Response
<1>8. CASE UNCHANGED response
  BY <1>1, <1>8, Invisible
<1>9. reply[d].status \in {200, 302, 401, 403, 404, 429, 503}
  BY <1>2 DEF Reply
<1> QED BY <1>4, <1>5, <1>6, <1>7, <1>8, <1>9 DEF ReceiveReply, raise_mapped, Submit, Raise

\* Giving up on a call is a 502, the answer that may leave the matter open.
LEMMA TransportErrorMaps ==
  ASSUME IInv, NEW d \in Clients, TransportError(d) PROVE Promise!Next
<1>1. Respond(d, 502, "transport") /\ phase[d] = "calling" /\ UNCHANGED <<gate, wire, applied>>
  BY DEF TransportError, Awaiting, Running, provider
<1>2. response[d] = NoResponse
  BY <1>1 DEF IInv, CInv, Answer
<1>3. [status |-> 502, why |-> "transport"] \in Response
  BY DEF Response
<1>4. Tells(d, 502, "transport")
  BY DEF Tells
<1> QED BY <1>1, <1>2, <1>3, <1>4, AnswerMaps DEF Respond

\* What is served had a title, and a 201 has its effect behind it.
LEMMA SerializeMaps ==
  ASSUME IInv, NEW d \in Clients, serialize(d) PROVE [Promise!Next]_(Promise!vars)
<1>1. phase[d] = "serialize" /\ UNCHANGED <<gate, wire, applied>>
  BY DEF serialize, Running, provider
<1>2. response[d] = NoResponse /\ TypeOK /\ Served(d)
  BY <1>1 DEF IInv, CInv, Answer
<1>3. Title(d) # "nothing"
  BY <1>1, TitleAtEndpoint
<1>4. wire[d] # "sent" /\ (IsWrite(d) => Effect(d) = "settled")
  <2>1. Route(d).area # "items" => wire[d] = "none"
    BY DEF IInv, CInv, Effects
  <2>2. Route(d).area \in {"finance", "items", "health"}
    BY <1>2, RequestTyped
  <2> QED BY <1>2, <2>1, <2>2 DEF Served, Effect
<1>5. CASE IsWrite(d) /\ Respond(d, 201, "served")
  <2>1. [status |-> 201, why |-> "served"] \in Response
    BY DEF Response
  <2>2. Tells(d, 201, "served")
    BY <1>3, <1>4, <1>5 DEF Tells, Effect
  <2> QED BY <1>1, <1>2, <1>5, <2>1, <2>2, AnswerMaps DEF Respond
<1>6. CASE Respond(d, 200, "served")
  <2>1. [status |-> 200, why |-> "served"] \in Response
    BY DEF Response
  <2>2. Tells(d, 200, "served")
    BY <1>3, <1>4 DEF Tells, Effect
  <2> QED BY <1>1, <1>2, <1>6, <2>1, <2>2, AnswerMaps DEF Respond
<1>7. CASE UNCHANGED response
  BY <1>1, <1>7, Invisible
<1> QED BY <1>5, <1>6, <1>7 DEF serialize, Raise

\* A 500 comes when nothing is pending: this is what the strengthening is for.
LEMMA ServerErrorMaps ==
  ASSUME IInv, CallsAreAwaited, NEW d \in Clients, ServerError(d) PROVE Promise!Next
<1>1. /\ phase[d] = "raised" /\ UNCHANGED <<gate, wire, applied>>
      /\ response' = [response EXCEPT ![d] = [status |-> 500, why |-> "error"]]
  BY DEF ServerError, provider
<1>2. response[d] = NoResponse /\ wire[d] # "sent"
  BY <1>1 DEF IInv, CInv, Answer, CallsAreAwaited, Out
<1>3. [status |-> 500, why |-> "error"] \in Response
  BY DEF Response
<1>4. Tells(d, 500, "error")
  BY <1>2 DEF Tells, Effect
<1> QED BY <1>1, <1>2, <1>3, <1>4, AnswerMaps

\* A call that was out is settled, a write by whoever had the title to it.
LEMMA CallSettles ==
  ASSUME IInv, NEW d \in Clients, wire[d] = "sent", UNCHANGED <<gate, response>>,
         NEW w \in {"replied", "trickling", "lost"}, wire' = [wire EXCEPT ![d] = w],
         NEW n \in {0, 1}, applied' = [applied EXCEPT ![d] = @ + n],
         n = 1 => IsWrite(d)
  PROVE  Promise!Next
<1>1. TypeOK /\ calls[d] # 0 /\ calls[d] \in Nat
  BY DEF IInv, CInv, Effects, TypeOK
<1>2. Title(d) = IF IsWrite(d) THEN "write" ELSE "read"
  BY <1>1, TitleAtEndpoint
<1>3. /\ wire'[d] = w
      /\ \A c \in Clients \ {d} : wire'[c] = wire[c] /\ applied'[c] = applied[c]
  BY <1>1 DEF TypeOK
<1>4. Effect(d) = "pending" /\ Effect(d)' = "settled"
  BY <1>3 DEF Effect
<1>5. [c \in Clients |-> Effect(c)]'
        = [[c \in Clients |-> Effect(c)] EXCEPT ![d] = "settled"]
  BY <1>3, <1>4, OneEffect
<1>6. Promise!Apply(d)
  BY <1>2 DEF Promise!Apply
<1>7. Promise!Settle(d)
  BY <1>4, <1>5, <1>6, TitlesStay DEF Promise!Settle
<1> QED BY <1>7 DEF Promise!Next

LEMMA ProviderAnswersMaps ==
  ASSUME IInv, NEW d \in Clients, NEW r \in Reply, ProviderAnswers(d, r) PROVE Promise!Next
<1>1. PICK n \in MayApply(d, r.status) : applied' = [applied EXCEPT ![d] = @ + n]
  BY DEF ProviderAnswers
<1>2. PICK w \in {"replied", "trickling", "lost"} : wire' = [wire EXCEPT ![d] = w]
  BY DEF ProviderAnswers
<1>3. wire[d] = "sent" /\ UNCHANGED <<gate, response>>
  BY DEF ProviderAnswers
<1>4. n \in {0, 1}
  BY <1>1 DEF MayApply
<1>5. n = 1 => IsWrite(d)
  <2>1. CASE ~ IsWrite(d)
    BY <1>1, <2>1 DEF MayApply
  <2> QED BY <2>1
<1> QED BY <1>1, <1>2, <1>3, <1>4, <1>5, CallSettles

LEMMA RequestLostMaps == ASSUME IInv, NEW d \in Clients, RequestLost(d) PROVE Promise!Next
<1>1. /\ wire[d] = "sent" /\ wire' = [wire EXCEPT ![d] = "lost"]
      /\ UNCHANGED <<gate, response, applied>>
  BY DEF RequestLost
<1>2. PICK n \in {0, 1} : n = 0 /\ applied' = [applied EXCEPT ![d] = @ + n]
  <2>1. applied' = [applied EXCEPT ![d] = @ + 0]
    BY <1>1 DEF IInv, TypeOK
  <2> QED BY <2>1
<1>3. PICK w \in {"replied", "trickling", "lost"} : wire' = [wire EXCEPT ![d] = w]
  BY <1>1
<1>4. n = 1 => IsWrite(d)
  BY <1>2
<1> QED BY <1>1, <1>2, <1>3, <1>4, CallSettles

\* The end of a reply that came in pieces settles nothing: it was settled before.
LEMMA TrickleEndsInvisible ==
  ASSUME IInv, NEW d \in Clients, TrickleEnds(d) PROVE UNCHANGED Promise!vars
<1>1. PICK w \in {"replied", "lost"} : wire' = [wire EXCEPT ![d] = w]
  BY DEF TrickleEnds
<1>2. wire[d] = "trickling" /\ UNCHANGED <<gate, response, applied>>
  BY DEF TrickleEnds
<1>3. wire'[d] = w /\ \A c \in Clients \ {d} : wire'[c] = wire[c]
  BY <1>1 DEF IInv, TypeOK
<1>4. UNCHANGED [c \in Clients |-> Effect(c)]
  BY <1>2, <1>3 DEF Effect
<1> QED BY <1>2, <1>4, TitlesStay DEF Promise!vars

-----------------------------------------------------------------------------
(* The refinement.                                                         *)

LEMMA InitMapsToInit == ASSUME Init PROVE Promise!Init
<1>1. [c \in Clients |-> Title(c)] \in [Clients -> {"nothing", "read", "write"}]
  BY DEF Title
<1>2. [c \in Clients |-> Effect(c)] = [c \in Clients |-> "none"]
  BY DEF Init, Effect
<1> QED BY <1>1, <1>2 DEF Init, Promise!Init

LEMMA StepMapsToStep ==
  ASSUME IInv, CallsAreAwaited, [Next]_vars PROVE [Promise!Next]_(Promise!vars)
<1>1. ASSUME NEW d \in Clients, Serve(d) PROVE [Promise!Next]_(Promise!vars)
  <2>1. CASE Audit(d)
    BY <2>1, Invisible DEF Audit, provider
  <2> QED BY <1>1, <2>1, GatesMap, EndpointMaps, ReceiveReplyMaps, TransportErrorMaps,
          SerializeMaps, ServerErrorMaps DEF Serve
<1>2. CASE StartJob \/ StoreChange \/ UNCHANGED vars
  BY <1>2, Invisible DEF StartJob, StoreChange, provider, gate, vars
<1> QED BY <1>1, <1>2, ArriveMaps, RequestLostMaps, TrickleEndsInvisible, ProviderAnswersMaps
        DEF Next

\* Each client may take the gateway for the machine of RequestContract: nothing is
\* done that its key, token and grants do not entitle it to, a write is done at most
\* once, and every answer but a 502 is given when it is settled what was done.
THEOREM ClientsDealWithTheContract == Spec => ImplementsRequestContract
<1>1. Init => Promise!Init /\ CallsAreAwaited
  BY InitMapsToInit, OutAtFirst
<1>2. IInv /\ CallsAreAwaited /\ [Next]_vars => CallsAreAwaited'
  BY OutStays
<1>3. IInv /\ CallsAreAwaited /\ [Next]_vars => [Promise!Next]_(Promise!vars)
  BY StepMapsToStep
<1> QED BY <1>1, <1>2, <1>3, Invariance, PTL
        DEF Spec, ImplementsRequestContract, Promise!Spec
=============================================================================
