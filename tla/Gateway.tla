------------------------------ MODULE Gateway -------------------------------
(***************************************************************************)
(* Requests of several clients going through the gateway at once: body     *)
(* parsing, the dependencies of each route in the order FastAPI solves     *)
(* them, the endpoint, the provider call behind /items with its failures,  *)
(* the error handlers, and the audit middleware around it all.             *)
(*                                                                         *)
(* Every dependency and endpoint of this code base is a plain `def`, so    *)
(* each runs as one job of a bounded thread pool that all requests share;  *)
(* between two jobs a request is back on the event loop and queues again.  *)
(***************************************************************************)
EXTENDS Scopes, AuthContract

CONSTANTS
    Clients,    \* the requests in flight, each the only one of its client
    Shapes,     \* what a client may send
    Pool,       \* threads of the shared pool
    Deployments \* the Settings the process may have been started with

-----------------------------------------------------------------------------
(* Routes, requests, provider replies and responses.                       *)

Routes ==
    [area : {"finance"}, provider : FINANCE_PROVIDERS, action : Actions]
      \cup [area : {"items"}, provider : {None}, action : Actions]
      \cup [area : {"health"}, provider : {None}, action : {READ}]

\* args: the request's own parameters, by the first check they fail.  A "clash" is
\* valid input that may fail later: echoed back, it is no response of the model or
\* no JSON, or httpx cannot put it into a provider request.
Request ==
    [route  : Routes,
     key    : BOOLEAN,                      \* X-API-Key is one of API_KEYS
     bearer : {"absent", "bad", "good"},    \* the Authorization header
     grants : SUBSET Scope,                 \* the scopes the token claims
     args   : {"fit", "not_json", "invalid", "clash"},
     html   : BOOLEAN]                      \* Accept contains text/html

\* One status per class the error mapping tells apart; body: a JSON value the
\* response model takes, one it rejects, or no JSON.  That of an error is not read.
Reply == [status : {200, 302}, body : {"fit", "misfit", "not_json"}]
           \cup [status : {401, 403, 404, 429, 503}, body : {"fit"}]
NoReply == [status |-> 0, body |-> "fit"]

\* why: the branch that produced the response, which its body text tells.
Response ==
    [status : {200, 201, 307, 400, 401, 403, 404, 422, 429, 500, 502, 503},
     why : {"served", "json", "key", "bearer", "scope", "login", "args",
            "rate", "relay", "transport", "error"}]
NoResponse == [status |-> 0, why |-> "none"]

ASSUME ShapesAssumption == Shapes \subseteq Request
ASSUME DeploymentsAssumption == Deployments \subseteq [keys : BOOLEAN, auth0 : BOOLEAN]
ASSUME PoolAssumption == Pool \in Nat \ {0}

VARIABLES
    settings,   \* the cached Settings: are API_KEYS and the Auth0 tenant set?
    stored,     \* what the token file holds
    request,    \* [Clients -> Shapes]
    phase,      \* the job a request waits for or runs, or its place outside the pool
    queue,      \* clients waiting for a thread, in order
    busy,       \* clients holding a thread
    wire,       \* the provider call of a request
    reply,      \* what the provider answered
    calls,      \* service methods invoked for a request
    applied,    \* writes carried out for a request
    response,   \* what the client is answered
    audit       \* statuses of the audit lines of a request

gate == <<settings, request>>
provider == <<wire, reply, calls, applied>>
vars == <<settings, stored, request, phase, queue, busy, wire, reply, calls,
          applied, response, audit>>

Jobs == {"api_key", "principal", "verifying", "scopes", "service", "provider_auth",
         "endpoint", "calling", "serialize"}
\* Somebody outside is asked in the middle of a job.
Asking == {"verifying", "calling"}
Phases == Jobs \cup {"new", "responding", "raised", "answered"}

Route(c) == request[c].route
IsWrite(c) == Route(c).action = WRITE
Required(c) == <<FINANCE, Route(c).provider, Route(c).action>>

-----------------------------------------------------------------------------
(* How a request leaves the job it runs.                                   *)

\* The next job queues behind every job submitted before it.
Submit(c, job) ==
    /\ busy' = busy \ {c}
    /\ queue' = Append(queue, c)
    /\ phase' = [phase EXCEPT ![c] = job]
    /\ UNCHANGED response

\* The job goes on, on its thread, when the answer from outside has come.
Ask(c, asking) ==
    /\ phase' = [phase EXCEPT ![c] = asking]
    /\ UNCHANGED <<queue, busy, response>>

\* A response, or an exception that some handler turns into one.
Respond(c, status, why) ==
    /\ busy' = busy \ {c}
    /\ phase' = [phase EXCEPT ![c] = "responding"]
    /\ response' = [response EXCEPT ![c] = [status |-> status, why |-> why]]
    /\ UNCHANGED queue

\* Slip: the thread is not given back on an exception.
RaiseHoldingThread(c) ==
    /\ phase' = [phase EXCEPT ![c] = "raised"]
    /\ UNCHANGED <<busy, queue, response>>

\* An exception no handler is registered for.
Raise(c) ==
    /\ busy' = busy \ {c}
    /\ phase' = [phase EXCEPT ![c] = "raised"]
    /\ UNCHANGED <<queue, response>>

\* Slip: a redirect that turns the repeated request into a GET.
LoginByFound(c) == Respond(c, IF request[c].html THEN 302 ELSE 503, "login")

\* provider_auth_exception_handler
Login(c) == Respond(c, IF request[c].html THEN 307 ELSE 503, "login")

\* The dependencies are solved: only now are body and query validated.
Call(c) ==
    IF request[c].args = "invalid"
    THEN Respond(c, 422, "args")
    ELSE Submit(c, "endpoint")

-----------------------------------------------------------------------------
(* The jobs.                                                               *)

Running(c, job) == c \in busy /\ phase[c] = job

\* The body of a write is parsed before any dependency runs: 422 for text that is
\* no JSON, 400 for bytes that are no text.
Arrive(c) ==
    /\ phase[c] = "new"
    /\ \/ /\ IsWrite(c) /\ request[c].args = "not_json"
          /\ Respond(c, 422, "json") \/ Respond(c, 400, "json")
       \/ /\ ~ (IsWrite(c) /\ request[c].args = "not_json")
          /\ Submit(c, IF Route(c).area = "health" THEN "endpoint" ELSE "api_key")
    /\ UNCHANGED <<gate, stored, provider, audit>>

StartJob ==
    /\ queue # <<>>
    /\ Cardinality(busy) < Pool
    /\ busy' = busy \cup {Head(queue)}
    /\ queue' = Tail(queue)
    /\ UNCHANGED <<gate, stored, phase, provider, response, audit>>

\* Slip: an empty API_KEYS locks everybody out.
KeyAlwaysNeeded(c) == request[c].key

\* An empty API_KEYS leaves the surface unguarded.
KeyPasses(c) == settings.keys => request[c].key

require_api_key(c) ==
    /\ Running(c, "api_key")
    /\ IF KeyPasses(c)
       THEN Submit(c, IF Route(c).area = "finance" THEN "principal" ELSE "provider_auth")
       ELSE Respond(c, 401, "key")
    /\ UNCHANGED <<gate, stored, provider, audit>>

\* Only InvalidTokenError is turned into an answer here.
Verified(c, outcome) ==
    \/ outcome = "principal" /\ Submit(c, "scopes")
    \/ outcome = "InvalidTokenError" /\ Respond(c, 401, "bearer")
    \/ outcome \in {"RuntimeError", "vendor"} /\ Raise(c)

\* A missing header is refused before the provider is asked.
current_principal(c) ==
    /\ Running(c, "principal")
    /\ IF request[c].bearer = "absent"
       THEN Respond(c, 401, "bearer")
       ELSE Ask(c, "verifying")
    /\ UNCHANGED <<gate, stored, provider, audit>>

\* get_provider().verify: it may wait for the tenant, twice, and always ends.
verify(c) ==
    /\ Running(c, "verifying")
    /\ \E o \in MayEnd(settings.auth0, request[c].bearer = "good") : Verified(c, o)
    /\ UNCHANGED <<gate, stored, provider, audit>>

\* Slip: a write route wired with the read scope.
HasReadScope(c) == satisfies(request[c].grants, [Required(c) EXCEPT ![3] = READ])

HasScope(c) == satisfies(request[c].grants, Required(c))

require_scopes(c) ==
    /\ Running(c, "scopes")
    /\ IF HasScope(c) THEN Submit(c, "service") ELSE Respond(c, 403, "scope")
    /\ UNCHANGED <<gate, stored, provider, audit>>

\* get_xero_service and its siblings build a stateless facade.
get_service(c) ==
    /\ Running(c, "service")
    /\ Call(c)
    /\ UNCHANGED <<gate, stored, provider, audit>>

\* Whatever is stored counts as usable: expiry and refresh are stubs.
ensure_valid_token == stored = "token"

\* The file is read once; the token itself is not kept.
require_provider_auth(c) ==
    /\ Running(c, "provider_auth")
    /\ \/ ensure_valid_token /\ Call(c)
       \/ stored = "none" /\ Login(c)
       \/ stored = "corrupt" /\ Raise(c)
    /\ UNCHANGED <<gate, stored, provider, audit>>

health(c) ==
    /\ Route(c).area = "health"
    /\ Submit(c, "serialize")
    /\ UNCHANGED provider

list_records(c) ==
    /\ ~ IsWrite(c)
    /\ UNCHANGED applied

create_record(c) ==
    /\ IsWrite(c)
    /\ applied' = [applied EXCEPT ![c] = @ + 1]

\* The stubs of the finance services act at once.
finance_service(c) ==
    /\ Route(c).area = "finance"
    /\ Submit(c, "serialize")
    /\ calls' = [calls EXCEPT ![c] = @ + 1]
    /\ list_records(c) \/ create_record(c)
    /\ UNCHANGED <<wire, reply>>

\* httpx raises InvalidURL for a control character in item_id and ValueError for a
\* NaN in the payload: neither is an HTTPError, and nothing has been sent.
Sendable(c) == request[c].args # "clash"

\* One HTTP request, the thread kept while it is out, unless it cannot be built or
\* there is no connection.
example_service(c) ==
    /\ Route(c).area = "items"
    /\ calls' = [calls EXCEPT ![c] = @ + 1]
    /\ \/ /\ Sendable(c)
          /\ Ask(c, "calling")
          /\ wire' = [wire EXCEPT ![c] = "sent"]
       \/ /\ Sendable(c) /\ Respond(c, 502, "transport")
          /\ UNCHANGED wire
       \/ /\ ~ Sendable(c) /\ Raise(c)
          /\ UNCHANGED wire
    /\ UNCHANGED <<reply, applied>>

endpoint(c) ==
    /\ Running(c, "endpoint")
    /\ health(c) \/ finance_service(c) \/ example_service(c)
    /\ UNCHANGED <<gate, stored, audit>>

\* Slip: a provider that is down is mistaken for one that wants a login.
MapDownToLogin(c, status) ==
    IF status \in {401, 403, 503} THEN Login(c)
    ELSE IF status = 429 THEN Respond(c, 429, "rate")
    ELSE Respond(c, status, "relay")

\* Slip: the last raise is gone and _request goes on to return the body.
MapSome(c, status) ==
    IF status \in {401, 403} THEN Login(c)
    ELSE IF status = 429 THEN Respond(c, 429, "rate")
    ELSE Submit(c, "serialize")

\* Slip: `status == 401` for `status in (401, 403)`.
MapForbiddenThrough(c, status) ==
    IF status = 401 THEN Login(c)
    ELSE IF status = 429 THEN Respond(c, 429, "rate")
    ELSE Respond(c, status, "relay")

\* Slip: a provider that limits its rate is asked again.
MapRetrying(c, status) ==
    IF status \in {401, 403} THEN Login(c)
    ELSE IF status = 429 THEN Submit(c, "endpoint")
    ELSE Respond(c, status, "relay")

\* 401 and 403 become a login, every other error keeps its status.
raise_mapped(c, status) ==
    IF status \in {401, 403} THEN Login(c)
    ELSE IF status = 429 THEN Respond(c, 429, "rate")
    ELSE Respond(c, status, "relay")

Awaiting(c) == Running(c, "calling")

\* A reply below 400 counts as success; response.json() raises on other bodies.
ReceiveReply(c) ==
    /\ Awaiting(c)
    /\ wire[c] = "replied"
    /\ IF reply[c].status >= 400 THEN raise_mapped(c, reply[c].status)
       ELSE IF reply[c].body = "not_json" THEN Raise(c)
       ELSE Submit(c, "serialize")
    /\ UNCHANGED <<gate, stored, provider, audit>>

\* Slip: timeout=None, only a broken connection ends the wait.
TransportErrorOnly(c) ==
    /\ Awaiting(c)
    /\ wire[c] = "lost"
    /\ Respond(c, 502, "transport")
    /\ UNCHANGED <<gate, stored, provider, audit>>

\* Slip: only httpx.ConnectError is caught, a read that times out is not.
TransportErrorEscapes(c) ==
    /\ Awaiting(c)
    /\ wire[c] # "trickling"
    /\ Raise(c)
    /\ UNCHANGED <<gate, stored, provider, audit>>

\* Any httpx.HTTPError while the call is out: nothing read for 30 s, a broken
\* connection.  The provider may have acted, or may still act.  A reply that keeps
\* coming in small pieces is no time-out, however long it takes.
TransportError(c) ==
    /\ Awaiting(c)
    /\ wire[c] # "trickling"
    /\ Respond(c, 502, "transport")
    /\ UNCHANGED <<gate, stored, provider, audit>>

\* The stubs echo the payload.  Xero's and Netcash's spread it over their own fields:
\* one that only the response model knows may have a type that it rejects.  An amount
\* may be NaN: FastAPI raises when it renders that, or writes null, by its version.
MayClash(c) == Route(c).area = "finance" /\ IsWrite(c) /\ request[c].args = "clash"

\* The /items services return what the provider sent.
ItemFits(c) == Route(c).area = "items" => reply[c].body = "fit"

serialize(c) ==
    /\ Running(c, "serialize")
    /\ \/ ItemFits(c) /\ Respond(c, IF IsWrite(c) THEN 201 ELSE 200, "served")
       \/ (~ ItemFits(c) \/ MayClash(c)) /\ Raise(c)
    /\ UNCHANGED <<gate, stored, provider, audit>>

\* Slip: errors are left to the error log.
AuditSuccesses(c) ==
    /\ phase[c] = "responding"
    /\ audit' = [audit EXCEPT ![c] = IF response[c].status < 400
                                     THEN Append(@, response[c].status) ELSE @]
    /\ phase' = [phase EXCEPT ![c] = "answered"]
    /\ UNCHANGED <<gate, stored, queue, busy, provider, response>>

\* call_next returned: one audit line, then the response goes out.
Audit(c) ==
    /\ phase[c] = "responding"
    /\ audit' = [audit EXCEPT ![c] = Append(@, response[c].status)]
    /\ phase' = [phase EXCEPT ![c] = "answered"]
    /\ UNCHANGED <<gate, stored, queue, busy, provider, response>>

\* call_next raised: the server's outermost handler answers, past the audit.
ServerError(c) ==
    /\ phase[c] = "raised"
    /\ response' = [response EXCEPT ![c] = [status |-> 500, why |-> "error"]]
    /\ phase' = [phase EXCEPT ![c] = "answered"]
    /\ UNCHANGED <<gate, stored, queue, busy, provider, audit>>

-----------------------------------------------------------------------------
(* The provider and the token file, both outside the gateway.              *)

\* A provider carries out a write it answers with success, none it answers with
\* a redirect or a client error, and perhaps one it answers with its own error.
MayApply(c, status) ==
    IF ~ IsWrite(c) THEN {0}
    ELSE CASE status = 200 -> {1}
           [] status = 503 -> {0, 1}
           [] OTHER        -> {0}

\* The request arrives, however late; the reply comes back at once or in pieces,
\* or is lost on its way.
ProviderAnswers(c, r) ==
    /\ wire[c] = "sent"
    /\ \E n \in MayApply(c, r.status) : applied' = [applied EXCEPT ![c] = @ + n]
    /\ \/ /\ wire' \in {[wire EXCEPT ![c] = w] : w \in {"replied", "trickling"}}
          /\ reply' = [reply EXCEPT ![c] = r]
       \/ /\ wire' = [wire EXCEPT ![c] = "lost"]
          /\ UNCHANGED reply
    /\ UNCHANGED <<gate, stored, phase, queue, busy, calls, response, audit>>

\* The last piece arrives, or the connection breaks.
TrickleEnds(c) ==
    /\ wire[c] = "trickling"
    /\ \/ /\ wire' = [wire EXCEPT ![c] = "replied"]
          /\ UNCHANGED reply
       \/ /\ wire' = [wire EXCEPT ![c] = "lost"]
          /\ reply' = [reply EXCEPT ![c] = NoReply]
    /\ UNCHANGED <<gate, stored, phase, queue, busy, calls, applied, response, audit>>

RequestLost(c) ==
    /\ wire[c] = "sent"
    /\ wire' = [wire EXCEPT ![c] = "lost"]
    /\ UNCHANGED <<gate, stored, phase, queue, busy, reply, calls, applied,
                   response, audit>>

\* No code of the gateway saves a token: whoever authorizes the service does.
StoreChange ==
    /\ stored' \in {"token", "none", "corrupt"} \ {stored}
    /\ UNCHANGED <<gate, phase, queue, busy, provider, response, audit>>

-----------------------------------------------------------------------------
Init ==
    /\ settings \in Deployments
    /\ stored \in {"token", "none", "corrupt"}
    /\ request \in [Clients -> Shapes]
    /\ phase = [c \in Clients |-> "new"]
    /\ queue = <<>>
    /\ busy = {}
    /\ wire = [c \in Clients |-> "none"]
    /\ reply = [c \in Clients |-> NoReply]
    /\ calls = [c \in Clients |-> 0]
    /\ applied = [c \in Clients |-> 0]
    /\ response = [c \in Clients |-> NoResponse]
    /\ audit = [c \in Clients |-> <<>>]

\* What the gateway does for a request once it has arrived.
Serve(c) ==
    \/ require_api_key(c) \/ current_principal(c) \/ verify(c) \/ require_scopes(c)
    \/ get_service(c) \/ require_provider_auth(c) \/ endpoint(c)
    \/ ReceiveReply(c) \/ TransportError(c) \/ serialize(c)
    \/ Audit(c) \/ ServerError(c)

Next ==
    \/ StartJob
    \/ StoreChange
    \/ \E c \in Clients :
          \/ Arrive(c) \/ Serve(c) \/ RequestLost(c) \/ TrickleEnds(c)
          \/ \E r \in Reply : ProviderAnswers(c, r)

\* The event loop and the threads keep running, and a call that nothing comes back
\* from ends with its time-out, a verification with that of its fetches.  Nothing
\* obliges clients, provider or operator, not even to finish a reply that has begun.
Fairness == WF_vars(StartJob) /\ \A c \in Clients : WF_vars(Serve(c))

Spec == Init /\ [][Next]_vars /\ Fairness

-----------------------------------------------------------------------------
TypeOK ==
    /\ settings \in [keys : BOOLEAN, auth0 : BOOLEAN]
    /\ stored \in {"token", "none", "corrupt"}
    /\ request \in [Clients -> Shapes]
    /\ phase \in [Clients -> Phases]
    /\ queue \in Seq(Clients)
    /\ busy \in SUBSET Clients
    /\ wire \in [Clients -> {"none", "sent", "replied", "trickling", "lost"}]
    /\ reply \in [Clients -> Reply \cup {NoReply}]
    /\ calls \in [Clients -> Nat]
    /\ applied \in [Clients -> Nat]
    /\ response \in [Clients -> Response \cup {NoResponse}]
    /\ audit \in [Clients -> Seq(Nat)]

\* Two gates before any effect: past the key check the key is a configured one
\* (or none is configured), and a finance service is only ever invoked for a
\* good token of a configured tenant whose grants carry the route's permission.
EffectAuthorised ==
    \A c \in Clients : Route(c).area # "health" =>
        /\ (calls[c] > 0 \/ phase[c] \in Jobs \ {"api_key"}) =>
              (settings.keys => request[c].key)
        /\ (calls[c] > 0 /\ Route(c).area = "finance") =>
              /\ settings.auth0
              /\ request[c].bearer = "good"
              /\ Authority(parse(Required(c))) \subseteq AuthorityOf(request[c].grants)

\* A request is refused at the first gate it does not pass and at no other, so no one is
\* turned away without cause: the key gate answers exactly those without a configured
\* key when there are any, whatever their token, grants and arguments; 403 is for the
\* holder of a good token whose grants fall short, and only the others are told that
\* their arguments are invalid.  (Text that is no JSON is refused before all gates.)
RefusedAtTheFirstGap ==
    \A c \in Clients :
        LET why == response[c].why
        IN (Route(c).area # "health" /\ why \notin {"none", "json"}) =>
             /\ why = "key" <=> settings.keys /\ ~ request[c].key
             /\ (Route(c).area = "finance" /\ why \in {"scope", "args", "served"}) =>
                  /\ settings.auth0
                  /\ request[c].bearer = "good"
                  /\ why # "scope" <=>
                       Authority(parse(Required(c))) \subseteq AuthorityOf(request[c].grants)

\* Answers that tell a client nothing was done: every 307 and 4xx, and the 503
\* that carries a login_url.
NotDone(c) == \/ response[c].status \in {307, 400, 401, 403, 404, 422, 429}
              \/ response[c].why = "login"

\* After such an answer the write has not been carried out and never will be: a
\* client may repeat the request.  (502 and the other 5xx promise nothing.)
SafeToRetry ==
    \A c \in Clients : NotDone(c) => applied[c] = 0 /\ wire[c] # "sent"

\* 201 is sent for one invocation, and the provider carried the write out once,
\* unless it had answered with a redirect, which the code takes for success.
CreatedOnce ==
    \A c \in Clients : response[c].status = 201 =>
        calls[c] = 1 /\ (applied[c] = 1 \/ reply[c].status = 302)

\* 401 and 403 are about the caller's own credentials: when the provider refuses
\* the service's token the caller is sent to the login instead.
RefusalsAreAboutTheCaller ==
    \A c \in Clients : response[c].status \in {401, 403} => calls[c] = 0

\* A client that has its answer has exactly one audit line, with the status it
\* was sent, unless an unhandled exception went past the middleware.
AuditFaithful ==
    \A c \in Clients :
        audit[c] = IF phase[c] = "answered" /\ response[c].why # "error"
                   THEN <<response[c].status>> ELSE <<>>

\* Threads are neither leaked nor overcommitted, and a request with a job to run
\* is either waiting in the queue, once, or holds one thread.
PoolAccounting ==
    /\ Cardinality(busy) <= Pool
    /\ \A c \in Clients :
         /\ phase[c] \in Jobs <=> c \in busy \/ \E i \in DOMAIN queue : queue[i] = c
         /\ c \in busy => \A i \in DOMAIN queue : queue[i] # c
         /\ phase[c] \in Asking => c \in busy
    /\ \A i, j \in DOMAIN queue : queue[i] = queue[j] => i = j

\* No client is sent to the login without a cause: at the moment it is, nothing is
\* stored and no service was asked, or the provider has just refused this very call
\* (service.py: 401 and 403 mean that re-authorization is required).
LoginIsJustified ==
    [][ \A c \in Clients :
          (response'[c].why = "login" /\ response[c] = NoResponse) =>
             \/ stored = "none" /\ calls[c] = 0
             \/ wire[c] = "replied" /\ reply[c].status \in {401, 403} ]_vars

\* How far a request has come.
Stage(p) ==
    CASE p = "new" -> 0
      [] p = "api_key" -> 1
      [] p \in {"principal", "provider_auth"} -> 2
      [] p = "verifying" -> 3
      [] p = "scopes" -> 4
      [] p = "service" -> 5
      [] p = "endpoint" -> 6
      [] p = "calling" -> 7
      [] p = "serialize" -> 8
      [] p \in {"responding", "raised"} -> 9
      [] p = "answered" -> 10

\* No step takes a request back: no gate is asked twice, no call is repeated, whatever
\* the provider answers, and a thread is held until its job has got the request further.
RequestsAdvance ==
    [][ \A c \in Clients :
          \/ Stage(phase'[c]) > Stage(phase[c])
          \/ phase'[c] = phase[c] /\ (c \in busy => c \in busy') ]_vars

\* Every request that arrives is answered, /health included, although all share
\* one pool and every provider call may be lost, unless a reply trickles in for
\* ever: the time-out of service.py is one per read.
EveryRequestAnswered ==
    (\A c \in Clients : <>[](wire[c] # "trickling"))
      => \A c \in Clients : phase[c] # "new" ~> phase[c] = "answered"

-----------------------------------------------------------------------------
(* A request as its client sees it.                                        *)

\* What its key, its token and its grants entitle a request to.
Title(c) ==
    IF \/ Route(c).area # "health" /\ settings.keys /\ ~ request[c].key
       \/ /\ Route(c).area = "finance"
          /\ ~ /\ settings.auth0 /\ request[c].bearer = "good"
               /\ Authority(parse(Required(c))) \subseteq AuthorityOf(request[c].grants)
    THEN "nothing"
    ELSE IF IsWrite(c) THEN "write" ELSE "read"

Effect(c) ==
    IF wire[c] = "sent" THEN "pending"
    ELSE IF wire[c] = "none" /\ applied[c] = 0 THEN "none"
    ELSE "settled"

Promise == INSTANCE RequestContract WITH
    title <- [c \in Clients |-> Title(c)],
    effect <- [c \in Clients |-> Effect(c)]

\* Whatever the other requests, the pool and the provider do, each client deals with
\* the machine of RequestContract: nothing is done without a title, at most once and
\* before or without an answer, and of all answers only a 502 leaves open what comes.
ImplementsRequestContract == Promise!Spec

-----------------------------------------------------------------------------
(* What the documentation says and the code does not do.                   *)

\* README.md: "Audit middleware. Every request is logged as metadata only".
EveryRequestAudited ==
    \A c \in Clients : phase[c] = "answered" => audit[c] # <<>>

\* service.py: "Create an item at the provider and return the created record".
CreatedMeansApplied ==
    \A c \in Clients : response[c].status = 201 => applied[c] = 1
=============================================================================
