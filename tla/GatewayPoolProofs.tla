------------------------- MODULE GatewayPoolProofs --------------------------
(* The accounts of Gateway's thread pool balance, for any number of        *)
(* requests and any number of threads: no request is lost between queue    *)
(* and pool, no thread is leaked, none serves two requests.                *)
EXTENDS GatewayProofs, FiniteSetTheorems

-----------------------------------------------------------------------------
(* The inductive invariant: PoolAccounting, and that the threads in use    *)
(* can be counted.                                                         *)

InQueue(c) == \E i \in DOMAIN queue : queue[i] = c

\* No client waits twice.
Distinct == \A i, j \in DOMAIN queue : queue[i] = queue[j] => i = j

Placed(c) ==
    /\ phase[c] \in Jobs <=> c \in busy \/ InQueue(c)
    /\ c \in busy => ~ InQueue(c)
    /\ phase[c] \in Asking => c \in busy

PoolInv ==
    /\ IsFiniteSet(busy)
    /\ Cardinality(busy) <= Pool
    /\ \A c \in Clients : Placed(c)
    /\ Distinct

LEMMA PoolInvIsAccounting == PoolInv => PoolAccounting
  BY DEF PoolInv, Placed, Distinct, InQueue, PoolAccounting

-----------------------------------------------------------------------------
(* The queue.                                                              *)

LEMMA Joining ==
  ASSUME queue \in Seq(Clients), Distinct, NEW d \in Clients, ~ InQueue(d),
         queue' = Append(queue, d)
  PROVE  Distinct' /\ \A c \in Clients : InQueue(c)' <=> InQueue(c) \/ c = d
<1>1. /\ DOMAIN queue' = 1 .. Len(queue) + 1 /\ DOMAIN queue = 1 .. Len(queue)
      /\ Len(queue) \in Nat /\ queue'[Len(queue) + 1] = d
      /\ \A i \in DOMAIN queue : queue'[i] = queue[i]
  OBVIOUS
<1>2. Distinct'
  BY <1>1 DEF Distinct, InQueue
<1>3. ASSUME NEW c \in Clients PROVE InQueue(c)' <=> InQueue(c) \/ c = d
  BY <1>1 DEF InQueue
<1> QED BY <1>2, <1>3

LEMMA Leaving ==
  ASSUME queue \in Seq(Clients), Distinct, queue # <<>>, queue' = Tail(queue)
  PROVE  /\ Distinct'
         /\ Head(queue) \in Clients /\ InQueue(Head(queue))
         /\ \A c \in Clients : InQueue(c)' <=> InQueue(c) /\ c # Head(queue)
<1>1. /\ DOMAIN queue' = 1 .. Len(queue) - 1 /\ DOMAIN queue = 1 .. Len(queue)
      /\ Len(queue) \in Nat \ {0} /\ Head(queue) = queue[1] /\ queue[1] \in Clients
      /\ \A i \in DOMAIN queue' : queue'[i] = queue[i + 1]
  OBVIOUS
<1>2. Distinct'
  BY <1>1 DEF Distinct
<1>3. InQueue(Head(queue))
  BY <1>1 DEF InQueue
<1>4. ASSUME NEW c \in Clients PROVE InQueue(c)' <=> InQueue(c) /\ c # Head(queue)
  <2>1. ASSUME InQueue(c)' PROVE InQueue(c) /\ c # Head(queue)
    <3>1. PICK i \in DOMAIN queue' : queue'[i] = c
      BY <2>1 DEF InQueue
    <3>2. i + 1 \in DOMAIN queue /\ 1 \in DOMAIN queue /\ i + 1 # 1 /\ queue[i + 1] = c
      BY <1>1, <3>1
    <3> QED BY <1>1, <3>2 DEF InQueue, Distinct
  <2>2. ASSUME InQueue(c), c # Head(queue) PROVE InQueue(c)'
    <3>1. PICK i \in DOMAIN queue : queue[i] = c
      BY <2>2 DEF InQueue
    <3>2. i - 1 \in DOMAIN queue' /\ queue'[i - 1] = c
      BY <1>1, <2>2, <3>1
    <3> QED BY <3>2 DEF InQueue
  <2> QED BY <2>1, <2>2
<1> QED BY <1>1, <1>2, <1>3, <1>4

-----------------------------------------------------------------------------
(* How a request moves.                                                    *)

LEMMA FewerBusy ==
  ASSUME PoolInv, NEW d, busy' = busy \ {d}
  PROVE  IsFiniteSet(busy)' /\ (Cardinality(busy) <= Pool)'
<1>1. IsFiniteSet(busy) /\ Cardinality(busy) \in Nat /\ Cardinality(busy) <= Pool
  BY FS_CardinalityType DEF PoolInv
<1>2. IsFiniteSet(busy') /\ Cardinality(busy') \in {Cardinality(busy), Cardinality(busy) - 1}
  BY <1>1, FS_RemoveElement
<1> QED BY <1>1, <1>2, PoolAssumption

\* A request at its next job waits behind all others; it did not wait before.
LEMMA SubmitPool ==
  ASSUME TypeOK, PoolInv, NEW d \in Clients, ~ InQueue(d),
         NEW job \in Jobs \ Asking, Submit(d, job)
  PROVE  PoolInv'
<1>1. /\ busy' = busy \ {d} /\ queue' = Append(queue, d)
      /\ phase' = [phase EXCEPT ![d] = job]
  BY DEF Submit
<1>2. Distinct' /\ \A c \in Clients : InQueue(c)' <=> InQueue(c) \/ c = d
  BY <1>1, Joining DEF TypeOK, PoolInv
<1>3. ASSUME NEW c \in Clients PROVE Placed(c)'
  BY <1>1, <1>2 DEF Placed, PoolInv, TypeOK
<1>4. IsFiniteSet(busy)' /\ (Cardinality(busy) <= Pool)'
  BY <1>1, FewerBusy
<1> QED BY <1>2, <1>3, <1>4 DEF PoolInv

\* A request with no job left to run is neither in the queue nor on a thread.
LEMMA LeavePool ==
  ASSUME TypeOK, PoolInv, NEW d \in Clients, ~ InQueue(d), NEW p, p \notin Jobs,
         phase' = [phase EXCEPT ![d] = p], busy' = busy \ {d}, queue' = queue
  PROVE  PoolInv'
<1>1. \A c \in Clients : InQueue(c)' = InQueue(c)
  BY DEF InQueue
<1>2. Distinct'
  BY DEF Distinct, PoolInv
<1>3. ASSUME NEW c \in Clients PROVE Placed(c)'
  BY <1>1 DEF Placed, PoolInv, TypeOK, Jobs, Asking
<1>4. IsFiniteSet(busy)' /\ (Cardinality(busy) <= Pool)'
  BY FewerBusy
<1> QED BY <1>2, <1>3, <1>4 DEF PoolInv

LEMMA RespondPool ==
  ASSUME TypeOK, PoolInv, NEW d \in Clients, ~ InQueue(d), NEW s, NEW w, Respond(d, s, w)
  PROVE  PoolInv'
  BY LeavePool DEF Respond, Jobs

LEMMA RaisePool ==
  ASSUME TypeOK, PoolInv, NEW d \in Clients, ~ InQueue(d), Raise(d)
  PROVE  PoolInv'
  BY LeavePool DEF Raise, Jobs

LEMMA LoginPool ==
  ASSUME TypeOK, PoolInv, NEW d \in Clients, ~ InQueue(d), Login(d)
  PROVE  PoolInv'
  BY RespondPool DEF Login

\* A request on a thread does not wait for one.
LEMMA RunningIsPlaced ==
  ASSUME PoolInv, NEW d \in Clients, NEW job, Running(d, job)
  PROVE  d \in busy /\ ~ InQueue(d)
  BY DEF PoolInv, Placed, Running

\* A job that asks somebody outside keeps its thread.
LEMMA AskPool ==
  ASSUME TypeOK, PoolInv, NEW d \in Clients, NEW job, Running(d, job), job \in Jobs,
         NEW asking \in Asking, Ask(d, asking)
  PROVE  PoolInv'
<1>1. d \in busy /\ ~ InQueue(d)
  BY RunningIsPlaced
<1>2. phase' = [phase EXCEPT ![d] = asking] /\ UNCHANGED <<queue, busy>>
  BY DEF Ask
<1>3. \A c \in Clients : InQueue(c)' = InQueue(c)
  BY <1>2 DEF InQueue
<1>4. ASSUME NEW c \in Clients PROVE Placed(c)'
  BY <1>1, <1>2, <1>3 DEF PoolInv, Placed, TypeOK, Jobs, Asking
<1> QED BY <1>2, <1>4 DEF PoolInv, Distinct

\* Steps that leave queue, threads and phases alone.
LEMMA SamePool ==
  ASSUME PoolInv, UNCHANGED <<phase, queue, busy>>
  PROVE  PoolInv'
  BY DEF PoolInv, Placed, Distinct, InQueue

-----------------------------------------------------------------------------
(* One lemma per kind of action.                                           *)

LEMMA StartJobPool == ASSUME TypeOK, PoolInv, StartJob PROVE PoolInv'
<1> DEFINE h == Head(queue)
<1>1. /\ queue # <<>> /\ Cardinality(busy) < Pool /\ busy' = busy \cup {h}
      /\ queue' = Tail(queue) /\ phase' = phase
  BY DEF StartJob
<1>2. /\ Distinct' /\ h \in Clients /\ InQueue(h)
      /\ \A c \in Clients : InQueue(c)' <=> InQueue(c) /\ c # h
  BY <1>1, Leaving DEF TypeOK, PoolInv
<1>3. phase[h] \in Jobs \ Asking /\ h \notin busy
  BY <1>2 DEF PoolInv, Placed
<1>4. ASSUME NEW c \in Clients PROVE Placed(c)'
  <2>1. Placed(c) /\ Placed(h)
    BY <1>2 DEF PoolInv
  <2> HIDE DEF h
  <2>2. CASE c = h
    BY <1>1, <1>2, <1>3, <2>2 DEF Placed
  <2>3. CASE c # h
    BY <1>1, <1>2, <2>1, <2>3 DEF Placed
  <2> QED BY <2>2, <2>3
<1>5. IsFiniteSet(busy') /\ Cardinality(busy') <= Pool
  <2>1. IsFiniteSet(busy) /\ Cardinality(busy) \in Nat
    BY FS_CardinalityType DEF PoolInv
  <2>2. IsFiniteSet(busy') /\ Cardinality(busy') = Cardinality(busy) + 1
    BY <1>1, <1>3, <2>1, FS_AddElement
  <2> QED BY <1>1, <2>1, <2>2, PoolAssumption
<1> QED BY <1>2, <1>4, <1>5 DEF PoolInv

LEMMA ArrivePool == ASSUME TypeOK, PoolInv, NEW d \in Clients, Arrive(d) PROVE PoolInv'
<1>1. ~ InQueue(d)
  BY DEF Arrive, PoolInv, Placed, Jobs
<1> QED BY <1>1, RespondPool, SubmitPool DEF Arrive, Jobs, Asking

LEMMA ServePool == ASSUME TypeOK, PoolInv, NEW d \in Clients, Serve(d) PROVE PoolInv'
<1>1. CASE require_api_key(d)
  BY <1>1, RunningIsPlaced, RespondPool, SubmitPool DEF require_api_key, Jobs, Asking
<1>2. CASE current_principal(d)
  BY <1>2, RunningIsPlaced, RespondPool, AskPool DEF current_principal, Running, Jobs, Asking
<1>3. CASE require_scopes(d)
  BY <1>3, RunningIsPlaced, RespondPool, SubmitPool DEF require_scopes, Jobs, Asking
<1>4. CASE get_service(d)
  BY <1>4, RunningIsPlaced, RespondPool, SubmitPool DEF get_service, Call, Jobs, Asking
<1>5. CASE require_provider_auth(d)
  BY <1>5, RunningIsPlaced, RespondPool, RaisePool, LoginPool, SubmitPool
     DEF require_provider_auth, Call, Jobs, Asking
<1>6. CASE endpoint(d)
  <2>1. d \in busy /\ ~ InQueue(d) /\ phase[d] = "endpoint"
    BY <1>6, RunningIsPlaced DEF endpoint, Running
  <2>2. CASE Ask(d, "calling")
    BY <1>6, <2>2, AskPool DEF endpoint, Jobs, Asking
  <2>3. CASE Respond(d, 502, "transport") \/ Raise(d) \/ Submit(d, "serialize")
    BY <2>1, <2>3, RespondPool, RaisePool, SubmitPool DEF Jobs, Asking
  <2> QED BY <1>6, <2>2, <2>3 DEF endpoint, health, finance_service, list_records,
     create_record, example_service
<1>7. CASE ReceiveReply(d)
  BY <1>7, RunningIsPlaced, RespondPool, RaisePool, LoginPool, SubmitPool
     DEF ReceiveReply, Awaiting, raise_mapped, Jobs, Asking
<1>8. CASE TransportError(d)
  BY <1>8, RunningIsPlaced, RespondPool DEF TransportError, Awaiting
<1>9. CASE serialize(d)
  BY <1>9, RunningIsPlaced, RespondPool, RaisePool DEF serialize
<1>10. CASE Audit(d) \/ ServerError(d)
  <2>1. /\ phase[d] \notin Jobs /\ phase' = [phase EXCEPT ![d] = "answered"]
        /\ UNCHANGED <<queue, busy>>
    BY <1>10 DEF Audit, ServerError, Jobs
  <2>2. ~ InQueue(d) /\ busy \ {d} = busy
    BY <2>1 DEF PoolInv, Placed
  <2> QED BY <2>1, <2>2, LeavePool DEF Jobs
<1>11. CASE verify(d)
  BY <1>11, RunningIsPlaced, RespondPool, RaisePool, SubmitPool
     DEF verify, Verified, Jobs, Asking
<1> QED BY <1>1, <1>2, <1>3, <1>4, <1>5, <1>6, <1>7, <1>8, <1>9, <1>10, <1>11 DEF Serve

LEMMA PoolInvariance == Spec => []PoolInv
<1>1. Init => PoolInv
  <2> SUFFICES ASSUME Init PROVE PoolInv
    OBVIOUS
  <2>1. IsFiniteSet(busy) /\ Cardinality(busy) <= Pool
    BY FS_EmptySet, PoolAssumption DEF Init
  <2>2. ASSUME NEW c \in Clients PROVE Placed(c)
    BY DEF Init, Placed, InQueue, Jobs, Asking
  <2> QED BY <2>1, <2>2 DEF Init, PoolInv, Distinct
<1>2. TypeOK /\ PoolInv /\ [Next]_vars => PoolInv'
  <2> SUFFICES ASSUME TypeOK, PoolInv, [Next]_vars PROVE PoolInv'
    OBVIOUS
  <2>1. CASE StartJob
    BY <2>1, StartJobPool
  <2>2. CASE StoreChange \/ UNCHANGED vars
    BY <2>2, SamePool DEF StoreChange, vars
  <2>3. ASSUME NEW c \in Clients, Arrive(c) \/ Serve(c) PROVE PoolInv'
    BY <2>3, ArrivePool, ServePool
  <2>4. ASSUME NEW c \in Clients, RequestLost(c) \/ TrickleEnds(c) PROVE PoolInv'
    BY <2>4, SamePool DEF RequestLost, TrickleEnds
  <2>5. ASSUME NEW c \in Clients, NEW r \in Reply, ProviderAnswers(c, r) PROVE PoolInv'
    BY <2>5, SamePool DEF ProviderAnswers
  <2> QED BY <2>1, <2>2, <2>3, <2>4, <2>5 DEF Next
<1>3. Spec => []TypeOK
  BY GatewayTypeCorrect
<1> QED BY <1>1, <1>2, <1>3, PTL DEF Spec

-----------------------------------------------------------------------------
\* No thread of the pool is leaked or shared, and a request with a job to run has
\* exactly one place to wait for it or run it, whatever way each job ends.
THEOREM PoolBalances == Spec => []PoolAccounting
  BY PoolInvariance, PoolInvIsAccounting, PTL

-----------------------------------------------------------------------------
(* The safety half of EveryRequestAnswered: whatever happens, a request on *)
(* a thread only gets closer to its answer.                                *)

Advances ==
    \A c \in Clients :
       \/ Stage(phase'[c]) > Stage(phase[c])
       \/ phase'[c] = phase[c] /\ (c \in busy => c \in busy')

\* One request moves on; the others stay where they are.
Onward(d, p) ==
    /\ phase' = [phase EXCEPT ![d] = p]
    /\ Stage(p) > Stage(phase[d])
    /\ busy \ {d} \subseteq busy'

LEMMA OnwardAdvances ==
  ASSUME TypeOK, NEW d \in Clients, NEW p, Onward(d, p)
  PROVE  Advances
<1>1. ASSUME NEW c \in Clients
      PROVE  \/ Stage(phase'[c]) > Stage(phase[c])
             \/ phase'[c] = phase[c] /\ (c \in busy => c \in busy')
  <2>1. CASE c = d
    BY <2>1 DEF TypeOK, Onward
  <2>2. CASE c # d
    BY <2>2 DEF TypeOK, Onward
  <2> QED BY <2>1, <2>2
<1> QED BY <1>1 DEF Advances

LEMMA SubmitIsOnward ==
  ASSUME NEW d \in Clients, NEW job, Submit(d, job), Stage(job) > Stage(phase[d])
  PROVE  Onward(d, job)
  BY DEF Submit, Onward

\* Only the audit and the server's error handler come after a response.
LEMMA LeavingIsOnward ==
  ASSUME NEW d \in Clients, phase[d] \in Jobs \cup {"new"},
         NEW s, NEW w, Respond(d, s, w) \/ Raise(d)
  PROVE  \E p \in Phases : Onward(d, p)
<1>1. Stage("responding") > Stage(phase[d]) /\ Stage("raised") > Stage(phase[d])
  <2>1. Stage("responding") = 9 /\ Stage("raised") = 9
    BY DEF Stage
  <2>2. ASSUME NEW p \in Jobs \cup {"new"} PROVE Stage(p) \in 0 .. 8
    <3>1. CASE p \in {"new", "api_key", "principal", "provider_auth", "verifying"}
      BY <3>1 DEF Stage
    <3>2. CASE p \in {"scopes", "service", "endpoint", "calling", "serialize"}
      BY <3>2 DEF Stage
    <3> QED BY <3>1, <3>2 DEF Jobs
  <2> QED BY <2>1, <2>2
<1>2. CASE Respond(d, s, w)
  BY <1>1, <1>2 DEF Respond, Onward, Phases
<1>3. CASE Raise(d)
  BY <1>1, <1>3 DEF Raise, Onward, Phases
<1> QED BY <1>2, <1>3

LEMMA LoginIsOnward ==
  ASSUME NEW d \in Clients, phase[d] \in Jobs, Login(d)
  PROVE  \E p \in Phases : Onward(d, p)
  BY LeavingIsOnward DEF Login

LEMMA AskIsOnward ==
  ASSUME NEW d \in Clients, NEW asking \in Asking, Ask(d, asking),
         Stage(asking) > Stage(phase[d])
  PROVE  Onward(d, asking)
  BY DEF Ask, Onward

LEMMA ServeIsOnward ==
  ASSUME NEW d \in Clients, Serve(d) \/ Arrive(d)
  PROVE  \E p \in Phases : Onward(d, p)
<1>1. Jobs \cup {"new"} \subseteq Phases
  BY DEF Phases
<1>2. CASE Arrive(d)
  <2>1. phase[d] = "new"
    BY <1>2 DEF Arrive
  <2> QED BY <1>1, <1>2, <2>1, LeavingIsOnward, SubmitIsOnward DEF Arrive, Stage, Jobs
<1>3. CASE require_api_key(d)
  <2>1. phase[d] = "api_key"
    BY <1>3 DEF require_api_key, Running
  <2> QED BY <1>1, <1>3, <2>1, LeavingIsOnward, SubmitIsOnward
          DEF require_api_key, Stage, Jobs
<1>4. CASE current_principal(d)
  <2>1. phase[d] = "principal"
    BY <1>4 DEF current_principal, Running
  <2> QED BY <1>1, <1>4, <2>1, LeavingIsOnward, AskIsOnward
          DEF current_principal, Stage, Jobs, Asking
<1>5. CASE verify(d)
  <2>1. phase[d] = "verifying"
    BY <1>5 DEF verify, Running
  <2> QED BY <1>1, <1>5, <2>1, LeavingIsOnward, SubmitIsOnward
          DEF verify, Verified, Stage, Jobs
<1>6. CASE require_scopes(d)
  <2>1. phase[d] = "scopes"
    BY <1>6 DEF require_scopes, Running
  <2> QED BY <1>1, <1>6, <2>1, LeavingIsOnward, SubmitIsOnward
          DEF require_scopes, Stage, Jobs
<1>7. CASE get_service(d)
  <2>1. phase[d] = "service"
    BY <1>7 DEF get_service, Running
  <2> QED BY <1>1, <1>7, <2>1, LeavingIsOnward, SubmitIsOnward
          DEF get_service, Call, Stage, Jobs
<1>8. CASE require_provider_auth(d)
  <2>1. phase[d] = "provider_auth"
    BY <1>8 DEF require_provider_auth, Running
  <2> QED BY <1>1, <1>8, <2>1, LeavingIsOnward, LoginIsOnward, SubmitIsOnward
          DEF require_provider_auth, Call, Stage, Jobs
<1>9. CASE endpoint(d)
  <2>1. phase[d] = "endpoint"
    BY <1>9 DEF endpoint, Running
  <2>2. \/ Submit(d, "serialize") \/ Ask(d, "calling")
        \/ Respond(d, 502, "transport") \/ Raise(d)
    BY <1>9 DEF endpoint, health, finance_service, example_service
  <2> QED BY <1>1, <2>1, <2>2, LeavingIsOnward, AskIsOnward, SubmitIsOnward
          DEF Stage, Jobs, Asking
<1>10. CASE ReceiveReply(d)
  <2>1. phase[d] = "calling"
    BY <1>10 DEF ReceiveReply, Awaiting, Running
  <2> QED BY <1>1, <1>10, <2>1, LeavingIsOnward, LoginIsOnward, SubmitIsOnward
          DEF ReceiveReply, raise_mapped, Stage, Jobs
<1>11. CASE TransportError(d) \/ serialize(d)
  <2>1. phase[d] \in Jobs
    BY <1>11 DEF TransportError, serialize, Awaiting, Running, Jobs
  <2> QED BY <1>11, <2>1, LeavingIsOnward DEF TransportError, serialize
<1>12. CASE Audit(d) \/ ServerError(d)
  <2>1. Stage("answered") > Stage(phase[d])
    BY <1>12 DEF Audit, ServerError, Stage
  <2> QED BY <1>12, <2>1 DEF Audit, ServerError, Onward, Phases
<1> QED BY <1>2, <1>3, <1>4, <1>5, <1>6, <1>7, <1>8, <1>9, <1>10, <1>11, <1>12 DEF Serve

LEMMA StepsAdvance == ASSUME TypeOK, Next PROVE Advances
<1>1. CASE StartJob
  BY <1>1 DEF StartJob, Advances
<1>2. CASE StoreChange
  BY <1>2 DEF StoreChange, Advances
<1>3. ASSUME NEW c \in Clients, Arrive(c) \/ Serve(c) PROVE Advances
  BY <1>3, ServeIsOnward, OnwardAdvances
<1>4. ASSUME NEW c \in Clients, RequestLost(c) \/ TrickleEnds(c) PROVE Advances
  BY <1>4 DEF RequestLost, TrickleEnds, Advances
<1>5. ASSUME NEW c \in Clients, NEW r \in Reply, ProviderAnswers(c, r) PROVE Advances
  BY <1>5 DEF ProviderAnswers, Advances
<1> QED BY <1>1, <1>2, <1>3, <1>4, <1>5 DEF Next

\* Every request moves through its gates in order, each once, and holds a thread until
\* it has moved: with any number of requests, threads and providers' answers.
THEOREM NoRequestFallsBack == Spec => RequestsAdvance
<1>1. TypeOK /\ [Next]_vars => [Advances]_vars
  BY StepsAdvance
<1> QED BY <1>1, GatewayTypeCorrect, PTL DEF Spec, RequestsAdvance, Advances
=============================================================================
