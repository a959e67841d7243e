------------------------ MODULE Auth0ProviderProofs -------------------------
(* Auth0Provider forgets retired keys and follows a rotation: for any      *)
(* threads, keys and tokens, any lifespan of the cache and any travel time *)
(* of the tenant's answers.                                                *)
EXTENDS Auth0Provider, TLAPS

-----------------------------------------------------------------------------
(* The inductive invariant.                                                *)

\* The answer in a thread's hand: how old it is, and what it says of the keys.
AnswerInv(c) ==
    /\ c.answer.served <= now /\ now <= c.answer.served + FetchTime
    /\ \A k \in c.answer.keys : LastPublished(k) >= c.answer.served
    /\ c.answer.keys # {} /\ c.steady => c.token.kid \in c.answer.keys

CallInv(c) ==
    /\ c.at # "idle" => c.token \in Tokens
    /\ c.at \in {"config", "lookup"} => c.last = FALSE
    /\ c.steady => c.token.kid \in published
    /\ c.at = "receiving" => AnswerInv(c)
    /\ c.at = "decode" =>
         LastPublished(c.token.kid) >= c.found - Lifespan - FetchTime
    /\ c.outcome = "refused" /\ c.steady /\ c.token.form = "good"
         /\ now < c.token.expires => c.trouble
    /\ c.at # "done" => c.outcome = "none"

\* What is cached was published when it was served, FetchTime before at the most.
CacheInv ==
    jwks.state = "set" =>
      /\ jwks.at <= now
      /\ \A k \in jwks.keys : LastPublished(k) >= jwks.at - FetchTime

IInv ==
    /\ TypeOK
    /\ \A k \in Keys : retired[k] <= now
    /\ CacheInv
    /\ \A t \in Threads : CallInv(call[t])

LEMMA Times == Lifespan \in Nat /\ FetchTime \in Nat /\ MaxTime \in Nat
  BY TimesAssumption

LEMMA TokenTyped ==
  ASSUME NEW k \in Tokens
  PROVE  k.kid \in Keys /\ k.expires \in Nat /\ k.form \in {"good", "bad", "malformed"}
  BY TokensAssumption DEF Token

LEMMA LastPublishedTyped ==
  ASSUME TypeOK, NEW k \in Keys PROVE LastPublished(k) \in Int
  BY DEF TypeOK, LastPublished

LEMMA IdleTyped == Idle \in Calls
  BY DEF Idle, Calls, NoAnswer, Answer, Steps, Outcomes

LEMMA InitInvariant == ASSUME Init PROVE IInv
<1>1. TypeOK
  BY IdleTyped, Times DEF Init, TypeOK, Empty, Cached, LongAgo
<1>2. \A k \in Keys : retired[k] <= now
  BY Times DEF Init, LongAgo
<1>3. CacheInv
  BY DEF Init, CacheInv, Empty
<1>4. \A t \in Threads : CallInv(call[t])
  BY DEF Init, CallInv, Idle
<1> QED BY <1>1, <1>2, <1>3, <1>4 DEF IInv

-----------------------------------------------------------------------------
(* The steps of a thread.                                                  *)

\* A step of one thread, which leaves the tenant and the clock alone, is judged by
\* the new cache and by the thread's own call.
LEMMA ThreadStep ==
  ASSUME IInv, NEW t \in Threads, NEW c \in Calls,
         UNCHANGED <<configured, now, tenant>>, jwks' \in Cached,
         call' = [call EXCEPT ![t] = c], CallInv(c), CacheInv'
  PROVE  IInv'
<1>1. TypeOK'
  BY DEF IInv, TypeOK, tenant
<1>2. ASSUME NEW u \in Threads PROVE CallInv(call[u])'
  <2>1. call'[u] = IF u = t THEN c ELSE call[u]
    BY DEF IInv, TypeOK
  <2>2. CallInv(call'[u])
    BY <2>1 DEF IInv
  <2> QED BY <2>2 DEF CallInv, AnswerInv, LastPublished, tenant
<1>3. \A k \in Keys : retired'[k] <= now'
  BY DEF IInv, tenant
<1> QED BY <1>1, <1>2, <1>3 DEF IInv

\* The same when the cache stays as it is.
LEMMA CallStep ==
  ASSUME IInv, NEW t \in Threads, NEW c \in Calls,
         UNCHANGED <<configured, now, tenant, jwks>>,
         call' = [call EXCEPT ![t] = c], CallInv(c)
  PROVE  IInv'
<1>1. CacheInv'
  BY DEF IInv, CacheInv, LastPublished, tenant
<1>2. jwks' \in Cached
  BY DEF IInv, TypeOK
<1> QED BY <1>1, <1>2, ThreadStep

\* How a verification ends.
Ending(t, outcome, trouble) ==
    [Idle EXCEPT !.at = "done", !.token = call[t].token, !.steady = call[t].steady,
                 !.trouble = trouble, !.outcome = outcome]

LEMMA EndingInvariant ==
  ASSUME IInv, NEW t \in Threads, call[t].at # "idle",
         NEW outcome \in Outcomes, NEW trouble \in BOOLEAN,
         outcome = "refused" /\ call[t].steady /\ call[t].token.form = "good"
           /\ now < call[t].token.expires => trouble
  PROVE  Ending(t, outcome, trouble) \in Calls /\ CallInv(Ending(t, outcome, trouble))
<1>1. call[t] \in Calls /\ call[t].token \in Tokens /\ call[t].steady \in BOOLEAN
  BY DEF IInv, TypeOK, CallInv, Calls
<1> DEFINE e == Ending(t, outcome, trouble)
<1>2. /\ e.at = "done" /\ e.token = call[t].token /\ e.steady = call[t].steady
      /\ e.trouble = trouble /\ e.outcome = outcome
  BY DEF Ending, Idle
<1>3. e \in Calls
  BY <1>1, IdleTyped DEF Ending, Idle, Calls, Steps
<1>4. e.steady => e.token.kid \in published
  BY <1>2 DEF IInv, CallInv
<1> QED BY <1>1, <1>2, <1>3, <1>4 DEF CallInv

LEMMA Beginning ==
  ASSUME NEW k \in Tokens, NEW b \in BOOLEAN, b => k.kid \in published
  PROVE  LET c == [Idle EXCEPT !.at = "config", !.token = k, !.steady = b]
         IN  c \in Calls /\ CallInv(c)
  BY IdleTyped DEF Idle, Calls, Steps, CallInv

LEMMA VerifyKeeps == ASSUME IInv, NEW t \in Threads, NEW k \in Tokens, Verify(t, k) PROVE IInv'
<1> DEFINE b == k.kid \in published
           c == [Idle EXCEPT !.at = "config", !.token = k, !.steady = b]
<1>1. b \in BOOLEAN
  OBVIOUS
<1>2. c \in Calls /\ CallInv(c)
  <2> HIDE DEF b
  <2>1. b => k.kid \in published
    BY DEF b
  <2> QED BY <1>1, <2>1, Beginning
<1>3. call' = [call EXCEPT ![t] = c] /\ UNCHANGED <<configured, now, tenant, jwks>>
  BY DEF Verify
<1> HIDE DEF c
<1> QED BY <1>2, <1>3, CallStep

LEMMA ConfigKeeps == ASSUME IInv, NEW t \in Threads, require_auth0_config(t) PROVE IInv'
<1>1. call[t] \in Calls /\ CallInv(call[t]) /\ call[t].at = "config"
  BY DEF IInv, TypeOK, require_auth0_config, At
<1>2. CASE configured
  <2> DEFINE c == [call[t] EXCEPT !.at = "lookup"]
  <2>1. c \in Calls /\ CallInv(c)
    BY <1>1 DEF Calls, Steps, CallInv
  <2> QED BY <1>2, <2>1, CallStep DEF require_auth0_config
<1>3. CASE ~ configured
  <2>1. "RuntimeError" \in Outcomes /\ call[t].trouble \in BOOLEAN
    BY <1>1 DEF Outcomes, Calls
  <2>2. LET e == Ending(t, "RuntimeError", call[t].trouble) IN e \in Calls /\ CallInv(e)
    BY <1>1, <2>1, EndingInvariant
  <2> QED BY <1>3, <2>2, CallStep DEF require_auth0_config, Finish, Done, Ending
<1> QED BY <1>2, <1>3

\* Looking the key up in a set of keys that were published recently enough, and
\* that holds the token's key if it has been published all along, a call goes on.
LEMMA ResolveKeeps ==
  ASSUME IInv, NEW t \in Threads, call[t].at \in {"lookup", "receiving"},
         UNCHANGED <<configured, now, tenant>>, jwks' \in Cached, CacheInv',
         NEW keys \in SUBSET Keys, Resolve(t, keys),
         \A k \in keys : LastPublished(k) >= now - Lifespan - FetchTime,
         call[t].last /\ keys # {} /\ call[t].steady => call[t].token.kid \in keys
  PROVE  IInv'
<1>1. /\ call[t] \in Calls /\ CallInv(call[t]) /\ call[t].at # "idle"
      /\ now \in Nat /\ NoAnswer \in Answer
  BY DEF IInv, TypeOK, NoAnswer, Answer
<1>2. CASE keys = {}
  <2>1. ASSUME NEW o \in {"refused", "PyJWKSetError"}, GiveUp(t, o) PROVE IInv'
    <3>1. o \in Outcomes /\ TRUE \in BOOLEAN
      BY DEF Outcomes
    <3>2. LET e == Ending(t, o, TRUE) IN e \in Calls /\ CallInv(e)
      BY <1>1, <3>1, EndingInvariant
    <3> QED BY <2>1, <3>2, ThreadStep DEF GiveUp, Done, Ending
  <2> QED BY <1>2, <2>1 DEF Resolve
<1>3. CASE call[t].token.kid \in keys
  <2> DEFINE c == [call[t] EXCEPT !.at = "decode", !.found = now, !.answer = NoAnswer]
  <2>1. c \in Calls
    BY <1>1 DEF Calls, Steps
  <2>2. CallInv(c)
    BY <1>1, <1>3 DEF Calls, CallInv
  <2>3. call' = [call EXCEPT ![t] = c]
    BY <1>3 DEF Resolve
  <2> HIDE DEF c
  <2> QED BY <2>1, <2>2, <2>3, ThreadStep
<1>4. CASE keys # {} /\ call[t].token.kid \notin keys
  <2>1. CASE call[t].last
    <3>1. "refused" \in Outcomes /\ call[t].trouble \in BOOLEAN /\ ~ call[t].steady
      BY <1>1, <1>4, <2>1 DEF Outcomes, Calls
    <3>2. LET e == Ending(t, "refused", call[t].trouble) IN e \in Calls /\ CallInv(e)
      BY <1>1, <3>1, EndingInvariant
    <3>3. Finish(t, "refused")
      BY <1>4, <2>1 DEF Resolve
    <3> QED BY <3>2, <3>3, ThreadStep DEF Finish, Done, Ending
  <2>2. CASE ~ call[t].last
    <3> DEFINE c == [call[t] EXCEPT !.at = "fetch", !.last = TRUE, !.answer = NoAnswer]
    <3>1. c \in Calls
      BY <1>1 DEF Calls, Steps
    <3>2. CallInv(c)
      BY <1>1 DEF Calls, CallInv
    <3>3. call' = [call EXCEPT ![t] = c]
      BY <1>4, <2>2 DEF Resolve
    <3> HIDE DEF c
    <3> QED BY <3>1, <3>2, <3>3, ThreadStep
  <2> QED BY <2>1, <2>2
<1> QED BY <1>2, <1>3, <1>4

LEMMA LookupKeeps == ASSUME IInv, NEW t \in Threads, Lookup(t) PROVE IInv'
<1>1. /\ call[t] \in Calls /\ CallInv(call[t]) /\ call[t].at = "lookup" /\ call[t].last = FALSE
      /\ TypeOK /\ CacheInv
  BY DEF IInv, TypeOK, Lookup, At, CallInv
<1>2. UNCHANGED <<configured, now, tenant, jwks>>
  BY DEF Lookup
<1>3. CASE call[t].token.form = "malformed"
  <2>1. "refused" \in Outcomes /\ call[t].trouble \in BOOLEAN
    BY <1>1 DEF Outcomes, Calls
  <2>2. LET e == Ending(t, "refused", call[t].trouble) IN e \in Calls /\ CallInv(e)
    BY <1>1, <1>3, <2>1, EndingInvariant
  <2> QED BY <1>2, <1>3, <2>2, CallStep DEF Lookup, Finish, Done, Ending
<1>4. CASE call[t].token.form # "malformed" /\ Fresh
  <2>1. \A k \in jwks.keys : LastPublished(k) >= now - Lifespan - FetchTime
    <3>1. now \in Nat /\ jwks.at \in Nat /\ now <= jwks.at + Lifespan
      BY <1>1, <1>4 DEF Fresh, TypeOK, Cached
    <3>2. ASSUME NEW k \in jwks.keys PROVE LastPublished(k) >= now - Lifespan - FetchTime
      <4>1. LastPublished(k) >= jwks.at - FetchTime /\ LastPublished(k) \in Int
        BY <1>1, <1>4, LastPublishedTyped DEF Fresh, CacheInv, TypeOK, Cached
      <4> QED BY <3>1, <4>1, Times
    <3> QED BY <3>2
  <2>2. CacheInv' /\ jwks' \in Cached /\ jwks.keys \in SUBSET Keys
    BY <1>1, <1>2 DEF CacheInv, LastPublished, tenant, TypeOK, Cached
  <2>3. Resolve(t, jwks.keys)
    BY <1>4 DEF Lookup
  <2> QED BY <1>1, <1>2, <2>1, <2>2, <2>3, ResolveKeeps
<1>5. CASE call[t].token.form # "malformed" /\ ~ Fresh
  <2> DEFINE c == [call[t] EXCEPT !.at = "fetch"]
  <2>1. c \in Calls /\ CallInv(c)
    BY <1>1 DEF Calls, Steps, CallInv
  <2>2. call' = [call EXCEPT ![t] = c]
    BY <1>5 DEF Lookup
  <2> HIDE DEF c
  <2> QED BY <1>2, <2>1, <2>2, CallStep
<1> QED BY <1>3, <1>4, <1>5

LEMMA ServeKeeps == ASSUME IInv, NEW t \in Threads, Serve(t) PROVE IInv'
<1>1. /\ call[t] \in Calls /\ CallInv(call[t]) /\ call[t].at = "fetch"
      /\ now \in Nat /\ published \in SUBSET Keys
  BY DEF IInv, TypeOK, Serve, At
<1>2. PICK keys \in {published, {}} :
         call' = [call EXCEPT ![t].at = "receiving",
                              ![t].answer = [keys |-> keys, served |-> now]]
  BY DEF Serve
<1> DEFINE a == [keys |-> keys, served |-> now]
           c == [call[t] EXCEPT !.at = "receiving", !.answer = a]
<1>3. c \in Calls
  BY <1>1 DEF Calls, Steps, Answer
<1>4. /\ c.at = "receiving" /\ c.answer.keys = keys /\ c.answer.served = now
      /\ c.steady = call[t].steady /\ c.token = call[t].token
      /\ c.outcome = call[t].outcome
  BY <1>1 DEF Calls
<1>5. AnswerInv(c)
  BY <1>1, <1>4, Times DEF AnswerInv, CallInv, LastPublished
<1>6. CallInv(c)
  BY <1>1, <1>4, <1>5 DEF CallInv
<1>7. call' = [call EXCEPT ![t] = c] /\ UNCHANGED <<configured, now, tenant, jwks>>
  BY <1>2 DEF Serve
<1> HIDE DEF c
<1> QED BY <1>3, <1>6, <1>7, CallStep

LEMMA ReceiveKeeps == ASSUME IInv, NEW t \in Threads, Receive(t) PROVE IInv'
<1> DEFINE a == call[t].answer
<1>1. /\ call[t].at = "receiving" /\ AnswerInv(call[t]) /\ TypeOK
      /\ now \in Nat /\ a \in Answer
  BY DEF IInv, TypeOK, Receive, At, CallInv, Calls
<1>2. a.keys \in SUBSET Keys /\ a.served \in Nat
  BY <1>1 DEF Answer
<1>3. /\ UNCHANGED <<configured, now, tenant>> /\ Resolve(t, a.keys)
      /\ jwks' = [state |-> "set", keys |-> a.keys, at |-> now]
  BY DEF Receive
<1>4. jwks' \in Cached
  BY <1>1, <1>2, <1>3 DEF Cached
<1>5. ASSUME NEW k \in a.keys PROVE /\ LastPublished(k) >= now - FetchTime
                                     /\ LastPublished(k) >= now - Lifespan - FetchTime
  <2>1. LastPublished(k) >= a.served /\ LastPublished(k) \in Int /\ now <= a.served + FetchTime
    BY <1>1, <1>2, LastPublishedTyped DEF AnswerInv
  <2> QED BY <1>1, <1>2, <2>1, Times
<1>6. CacheInv'
  BY <1>1, <1>3, <1>5 DEF CacheInv, LastPublished, tenant
<1>7. a.keys # {} /\ call[t].steady => call[t].token.kid \in a.keys
  BY <1>1 DEF AnswerInv
<1> QED BY <1>1, <1>2, <1>3, <1>4, <1>5, <1>6, <1>7, ResolveKeeps

LEMMA FetchFailsKeeps == ASSUME IInv, NEW t \in Threads, FetchFails(t) PROVE IInv'
<1>1. PICK o \in {"refused", "error"} : GiveUp(t, o)
  BY DEF FetchFails
<1>2. o \in Outcomes /\ TRUE \in BOOLEAN /\ call[t].at # "idle"
  BY DEF Outcomes, FetchFails
<1>3. LET e == Ending(t, o, TRUE) IN e \in Calls /\ CallInv(e)
  BY <1>2, EndingInvariant
<1>4. jwks' \in {jwks, Empty} /\ UNCHANGED <<configured, now, tenant>>
  BY DEF FetchFails
<1>5. jwks' \in Cached /\ CacheInv'
  BY <1>4 DEF IInv, TypeOK, CacheInv, LastPublished, tenant, Empty, Cached
<1> QED BY <1>1, <1>3, <1>4, <1>5, ThreadStep DEF GiveUp, Done, Ending

LEMMA DecodeKeeps == ASSUME IInv, NEW t \in Threads, Decode(t) PROVE IInv'
<1>1. call[t] \in Calls /\ call[t].at = "decode"
  BY DEF IInv, TypeOK, Decode, At
<1> DEFINE valid == call[t].token.form = "good" /\ now < call[t].token.expires
           o == IF valid THEN "accepted" ELSE "refused"
<1>2. o \in Outcomes /\ call[t].trouble \in BOOLEAN /\ (o = "refused" => ~ valid)
  BY <1>1 DEF Outcomes, Calls
<1>3. Finish(t, o) /\ UNCHANGED <<configured, now, tenant, jwks>>
  BY DEF Decode
<1> HIDE DEF o
<1>4. LET e == Ending(t, o, call[t].trouble) IN e \in Calls /\ CallInv(e)
  BY <1>1, <1>2, EndingInvariant
<1> QED BY <1>3, <1>4, CallStep DEF Finish, Done, Ending

LEMMA ReturnKeeps == ASSUME IInv, NEW t \in Threads, Return(t) PROVE IInv'
<1>1. CallInv(Idle)
  BY DEF CallInv, Idle
<1> QED BY <1>1, IdleTyped, CallStep DEF Return

-----------------------------------------------------------------------------
(* The steps of the tenant and of the clock.                               *)

\* A call outlives a change of the tenant or of the clock when no key looks older
\* for it and an answer on its way stays young enough.
LEMMA CallOutlives ==
  ASSUME IInv, now' \in Nat, now <= now',
         \A k \in Keys : LastPublished(k)' \in Int /\ LastPublished(k)' >= LastPublished(k),
         NEW t \in Threads, NEW s \in BOOLEAN, call'[t] = [call[t] EXCEPT !.steady = s],
         s => call[t].steady /\ call[t].token.kid \in published',
         call[t].at = "receiving" => now' <= call[t].answer.served + FetchTime
  PROVE  CallInv(call[t])'
<1> DEFINE c == call[t]
           d == call'[t]
<1>0. c \in Calls /\ CallInv(c)
  BY DEF IInv, TypeOK
<1>1. /\ d.at = c.at /\ d.token = c.token /\ d.answer = c.answer /\ d.last = c.last
      /\ d.found = c.found /\ d.trouble = c.trouble /\ d.outcome = c.outcome
      /\ d.steady = s
  BY <1>0 DEF Calls
<1>2. now \in Nat /\ c.answer \in Answer /\ c.found \in Nat
  BY <1>0 DEF IInv, TypeOK, Calls
<1> HIDE DEF c, d
<1>3. c.at = "receiving" => AnswerInv(call[t])'
  <2> SUFFICES ASSUME c.at = "receiving" PROVE AnswerInv(call[t])'
    OBVIOUS
  <2>1. AnswerInv(c) /\ c.answer.served \in Nat /\ c.answer.keys \in SUBSET Keys
    BY <1>0, <1>2 DEF CallInv, Answer
  <2>2. d.answer.served <= now' /\ now' <= d.answer.served + FetchTime
    BY <1>1, <1>2, <2>1, Times DEF AnswerInv, c
  <2>3. ASSUME NEW k \in d.answer.keys PROVE LastPublished(k)' >= d.answer.served
    <3>1. k \in Keys /\ LastPublished(k) >= c.answer.served
      BY <1>1, <2>1 DEF AnswerInv
    <3>2. LastPublished(k) \in Int
      BY <3>1, LastPublishedTyped DEF IInv
    <3>3. LastPublished(k)' \in Int /\ LastPublished(k)' >= LastPublished(k)
      BY <3>1
    <3> QED BY <1>1, <2>1, <3>1, <3>2, <3>3
  <2>4. d.answer.keys # {} /\ d.steady => d.token.kid \in d.answer.keys
    BY <1>1, <2>1 DEF AnswerInv, c
  <2> QED BY <2>2, <2>3, <2>4 DEF AnswerInv, d
<1>4. ASSUME c.at = "decode", NEW k \in Keys, k = c.token.kid
      PROVE  LastPublished(k)' >= c.found - Lifespan - FetchTime
  <2>1. LastPublished(k) >= c.found - Lifespan - FetchTime
    BY <1>0, <1>4 DEF CallInv
  <2>2. LastPublished(k) \in Int
    BY LastPublishedTyped DEF IInv
  <2>3. LastPublished(k)' \in Int /\ LastPublished(k)' >= LastPublished(k)
    OBVIOUS
  <2> QED BY <1>2, <2>1, <2>2, <2>3, Times
<1>5. c.outcome = "refused" /\ s /\ c.token.form = "good" /\ now' < c.token.expires
        => c.trouble
  <2> SUFFICES ASSUME c.outcome = "refused", s, c.token.form = "good",
                      now' < c.token.expires, ~ c.trouble
               PROVE  FALSE
    OBVIOUS
  <2>1. c.at # "idle" /\ c.steady
    BY <1>0 DEF CallInv, c
  <2> QED BY <1>0, <1>2, <2>1, TokenTyped DEF CallInv
<1>6. /\ d.at # "idle" => d.token \in Tokens
      /\ d.at \in {"config", "lookup"} => d.last = FALSE
      /\ d.steady => d.token.kid \in published'
      /\ d.at # "done" => d.outcome = "none"
  BY <1>0, <1>1 DEF CallInv, c
<1>7. d.at = "decode" =>
        (IF d.token.kid \in published' THEN now' ELSE retired'[d.token.kid])
          >= d.found - Lifespan - FetchTime
  <2> SUFFICES ASSUME d.at = "decode" PROVE
        (IF d.token.kid \in published' THEN now' ELSE retired'[d.token.kid])
          >= d.found - Lifespan - FetchTime
    OBVIOUS
  <2>1. c.at = "decode" /\ c.token.kid \in Keys
    BY <1>0, <1>1, TokenTyped DEF CallInv
  <2> QED BY <1>1, <1>4, <2>1 DEF LastPublished
<1> QED BY <1>1, <1>3, <1>5, <1>6, <1>7 DEF CallInv, LastPublished, d

LEMMA RotateKeeps == ASSUME IInv, Rotate PROVE IInv'
<1>1. /\ TypeOK /\ now \in Nat /\ now' = now /\ UNCHANGED <<configured, jwks>>
      /\ published' \in SUBSET Keys
      /\ retired' = [k \in Keys |-> IF k \in published' THEN LongAgo ELSE LastPublished(k)]
  BY DEF IInv, TypeOK, Rotate
<1>2. ASSUME NEW k \in Keys
      PROVE  /\ retired'[k] \in Int /\ retired'[k] <= now'
             /\ LastPublished(k)' \in Int /\ LastPublished(k)' >= LastPublished(k)
  <2>1. LastPublished(k) \in Int /\ LastPublished(k) <= now
    BY <1>1, LastPublishedTyped DEF IInv, LastPublished
  <2>2. LastPublished(k)' = IF k \in published' THEN now ELSE LastPublished(k)
    BY <1>1 DEF LastPublished
  <2>3. LongAgo \in Int /\ LongAgo <= now
    BY <1>1, Times DEF LongAgo
  <2> QED BY <1>1, <2>1, <2>2, <2>3
<1>3. ASSUME NEW t \in Threads PROVE call'[t] \in Calls /\ CallInv(call[t])'
  <2> DEFINE s == call[t].steady /\ call[t].token.kid \in published'
  <2>1. call[t] \in Calls /\ CallInv(call[t])
    BY DEF IInv, TypeOK
  <2>2. s \in BOOLEAN /\ call'[t] = [call[t] EXCEPT !.steady = s]
    BY DEF Rotate
  <2>3. s => call[t].steady /\ call[t].token.kid \in published'
    OBVIOUS
  <2>4. call[t].at = "receiving" => now' <= call[t].answer.served + FetchTime
    BY <1>1, <2>1 DEF CallInv, AnswerInv
  <2> HIDE DEF s
  <2>5. call'[t] \in Calls
    BY <2>1, <2>2 DEF Calls
  <2>6. /\ now' \in Nat /\ now <= now'
        /\ \A k \in Keys : LastPublished(k)' \in Int /\ LastPublished(k)' >= LastPublished(k)
    BY <1>1, <1>2
  <2>7. CallInv(call[t])'
    BY <2>2, <2>3, <2>4, <2>6, CallOutlives
  <2> QED BY <2>5, <2>7
<1>4. TypeOK'
  <2>1. call' \in [Threads -> Calls]
    BY <1>3 DEF Rotate
  <2>2. retired' \in [Keys -> Int]
    BY <1>1, <1>2
  <2> QED BY <1>1, <2>1, <2>2 DEF TypeOK
<1>5. CacheInv'
  <2> SUFFICES ASSUME jwks.state = "set", NEW k \in jwks.keys
               PROVE  LastPublished(k)' >= jwks.at - FetchTime
    BY <1>1 DEF IInv, CacheInv
  <2>1. k \in Keys /\ jwks.at \in Nat /\ LastPublished(k) >= jwks.at - FetchTime
    BY <1>1 DEF IInv, CacheInv, TypeOK, Cached
  <2> QED BY <1>1, <1>2, <2>1, LastPublishedTyped, Times
<1> QED BY <1>2, <1>3, <1>4, <1>5 DEF IInv

LEMMA TickKeeps == ASSUME IInv, Tick PROVE IInv'
<1>1. /\ TypeOK /\ now \in Nat /\ now' = now + 1
      /\ UNCHANGED <<configured, published, retired, jwks, call>>
  BY DEF IInv, TypeOK, Tick, tenant
<1>2. ASSUME NEW k \in Keys
      PROVE  /\ retired'[k] <= now'
             /\ LastPublished(k)' \in Int /\ LastPublished(k)' >= LastPublished(k)
  <2>1. retired[k] \in Int /\ retired[k] <= now
    BY <1>1 DEF IInv, TypeOK
  <2> QED BY <1>1, <2>1 DEF LastPublished
<1>3. ASSUME NEW t \in Threads PROVE CallInv(call[t])'
  <2>1. call[t] \in Calls /\ CallInv(call[t])
    BY DEF IInv, TypeOK
  <2>2. call[t].steady \in BOOLEAN /\ [call[t] EXCEPT !.steady = call[t].steady] = call[t]
    BY <2>1 DEF Calls
  <2>3. call[t].steady => call[t].token.kid \in published'
    BY <1>1, <2>1 DEF CallInv
  <2>4. call[t].at = "receiving" => now' <= call[t].answer.served + FetchTime
    <3> SUFFICES ASSUME call[t].at = "receiving"
                 PROVE  now' <= call[t].answer.served + FetchTime
      OBVIOUS
    <3>1. now < call[t].answer.served + FetchTime /\ call[t].answer.served \in Nat
      BY <2>1 DEF Tick, At, Calls, Answer
    <3> QED BY <1>1, <3>1, Times
  <2>5. /\ \A k \in Keys : LastPublished(k)' \in Int /\ LastPublished(k)' >= LastPublished(k)
        /\ now' \in Nat /\ now <= now'
    BY <1>1, <1>2
  <2>6. call'[t] = [call[t] EXCEPT !.steady = call[t].steady]
    BY <1>1, <2>2
  <2>7. call[t].steady => call[t].steady /\ call[t].token.kid \in published'
    BY <2>3
  <2> QED BY <2>2, <2>4, <2>5, <2>6, <2>7, CallOutlives
<1>4. TypeOK'
  BY <1>1 DEF TypeOK
<1>5. CacheInv'
  <2> SUFFICES ASSUME jwks.state = "set"
               PROVE  /\ jwks.at <= now'
                      /\ \A k \in jwks.keys : LastPublished(k)' >= jwks.at - FetchTime
    BY <1>1 DEF CacheInv
  <2>1. jwks.at \in Nat /\ jwks.at <= now /\ jwks.keys \in SUBSET Keys
    BY <1>1 DEF IInv, CacheInv, TypeOK, Cached
  <2>2. ASSUME NEW k \in jwks.keys PROVE LastPublished(k)' >= jwks.at - FetchTime
    <3>1. k \in Keys /\ LastPublished(k) >= jwks.at - FetchTime
      BY <2>1 DEF IInv, CacheInv
    <3> QED BY <1>1, <1>2, <2>1, <3>1, LastPublishedTyped, Times
  <2> QED BY <1>1, <2>1, <2>2
<1> QED BY <1>2, <1>3, <1>4, <1>5 DEF IInv

LEMMA StutterKeeps == ASSUME IInv, UNCHANGED vars PROVE IInv'
  BY DEF IInv, vars, tenant, TypeOK, CacheInv, CallInv, AnswerInv, LastPublished

LEMMA NextKeeps == ASSUME IInv, [Next]_vars PROVE IInv'
<1>1. ASSUME NEW t \in Threads, Step(t) PROVE IInv'
  BY <1>1, ConfigKeeps, LookupKeeps, ServeKeeps, ReceiveKeeps, FetchFailsKeeps,
     DecodeKeeps, ReturnKeeps DEF Step
<1>2. ASSUME NEW t \in Threads, NEW k \in Tokens, Verify(t, k) PROVE IInv'
  BY <1>2, VerifyKeeps
<1> QED BY <1>1, <1>2, RotateKeeps, TickKeeps, StutterKeeps DEF Next

LEMMA Invariance == Spec => []IInv
<1>1. Init => IInv
  BY InitInvariant
<1>2. IInv /\ [Next]_vars => IInv'
  BY NextKeeps
<1> QED BY <1>1, <1>2, PTL DEF Spec

-----------------------------------------------------------------------------
(* What follows.                                                           *)

\* The state of auth0.py's verify is well-formed in every run.
THEOREM ProviderTypeCorrect == Spec => []TypeOK
<1>1. IInv => TypeOK
  BY DEF IInv
<1> QED BY <1>1, Invariance, PTL

\* The JWKS cache of auth0.py:76-80, shared by all threads, never yields a key
\* retired longer ago than its lifespan and one answer's travel time.
THEOREM RetiredKeysAreForgotten == Spec => []NoStaleKey
<1>1. IInv => NoStaleKey
  BY DEF IInv, CallInv, NoStaleKey, At
<1> QED BY <1>1, Invariance, PTL

\* A tenant's rotation of its signing keys makes auth0.py's verify refuse no
\* good token, whatever the cache held before.
THEOREM RotationNeedsNoAction == Spec => []RotationIsSeamless
<1>1. IInv => RotationIsSeamless
  BY DEF IInv, CallInv, RotationIsSeamless
<1> QED BY <1>1, Invariance, PTL

-----------------------------------------------------------------------------
(* Auth0Provider keeps the AuthProvider contract.                          *)

\* A call as current_principal sees it.
View(c) == [state |-> State(c), token |-> c.token, outcome |-> Seen(c.outcome),
            failed |-> c.trouble]

\* Between two calls a thread presents no token, past the first check the settings
\* are complete, and a failure of the tenant ends the call at once.
Working == {"lookup", "fetch", "receiving", "decode"}
AskInv ==
    \A t \in Threads : /\ call[t].at = "idle" => call[t].token = NoToken
                       /\ call[t].at \in Working => configured
                       /\ call[t].at # "done" => ~ call[t].trouble

LEMMA InitAsks == ASSUME Init PROVE Contract!Init /\ AskInv
<1>1. \A t \in Threads : call[t] = Idle
  BY DEF Init
<1>2. /\ State(Idle) = "idle" /\ Seen("none") = "none" /\ Idle.token = NoToken
      /\ Idle.outcome = "none" /\ Idle.trouble = FALSE
  BY DEF State, Seen, Idle
<1>3. [t \in Threads |-> View(call[t])] = [t \in Threads |-> Contract!Idle]
  BY <1>1, <1>2 DEF View, Contract!Idle
<1>4. configured \in BOOLEAN
  BY DEF Init
<1> QED BY <1>1, <1>2, <1>3, <1>4 DEF Contract!Init, View, AskInv, Idle, Working

\* A step of one thread changes the mapped call of that thread only.
LEMMA OneCall ==
  ASSUME IInv, NEW t \in Threads, NEW c, call' = [call EXCEPT ![t] = c]
  PROVE  /\ call'[t] = c /\ \A u \in Threads \ {t} : call'[u] = call[u]
         /\ [u \in Threads |-> View(call[u])]'
              = [[u \in Threads |-> View(call[u])] EXCEPT ![t] = View(c)]
<1>1. call'[t] = c /\ \A u \in Threads \ {t} : call'[u] = call[u]
  BY DEF IInv, TypeOK
<1>2. \A u \in Threads : View(call'[u]) = IF u = t THEN View(c) ELSE View(call[u])
  BY <1>1
<1> QED BY <1>1, <1>2

\* A verification on its way shows its caller nothing.
LEMMA WorkIsInvisible ==
  ASSUME IInv, AskInv, NEW t \in Threads, NEW c, call' = [call EXCEPT ![t] = c],
         call[t].at \in Working \cup {"config"}, c.at \in Working, configured,
         c.token = call[t].token, c.outcome = call[t].outcome,
         c.trouble = call[t].trouble, UNCHANGED configured
  PROVE  UNCHANGED Contract!vars /\ AskInv'
<1>1. View(c) = View(call[t])
  BY DEF View, State, Working
<1>2. UNCHANGED [u \in Threads |-> View(call[u])]
  BY <1>1, OneCall
<1>3. AskInv'
  BY OneCall DEF AskInv, Working
<1> QED BY <1>2, <1>3 DEF Contract!vars, View

\* A verification that ends is the contract's Conclude.
LEMMA EndIsConclude ==
  ASSUME IInv, AskInv, NEW t \in Threads, call[t].at \in Working \cup {"config"},
         NEW o \in Outcomes, NEW trouble \in BOOLEAN, Done(t, o, trouble), UNCHANGED configured,
         Seen(o) \in Contract!Ends(call[t].token, trouble)
  PROVE  Contract!Conclude(t) /\ AskInv'
<1> DEFINE e == Ending(t, o, trouble)
<1>1. call' = [call EXCEPT ![t] = e]
  BY DEF Done, Ending
<1>2. e.at = "done" /\ e.token = call[t].token /\ e.outcome = o /\ e.trouble = trouble
  BY DEF Ending, Idle
<1>3. call[t].outcome = "none" /\ State(call[t]) = "asked" /\ State(e) = "concluded"
  BY <1>2 DEF IInv, CallInv, State, Working
<1> HIDE DEF e
<1>4. View(e) = [state |-> "concluded", token |-> call[t].token, outcome |-> Seen(o),
                 failed |-> trouble]
  BY <1>2, <1>3 DEF View
<1> DEFINE V == [u \in Threads |-> View(call[u])]
<1>5. V[t].state = "asked" /\ V[t].token = call[t].token
  BY <1>3 DEF View
<1>6. V' = [V EXCEPT ![t] = View(e)]
  BY <1>1, OneCall
<1>7. V' = [V EXCEPT ![t] = [state |-> "concluded", token |-> V[t].token,
                             outcome |-> Seen(o), failed |-> trouble]]
  BY <1>4, <1>5, <1>6
<1>8. Contract!Conclude(t)
  BY <1>5, <1>7 DEF Contract!Conclude, View
<1>9. AskInv'
  BY <1>1, <1>2, OneCall DEF AskInv, Working
<1> QED BY <1>8, <1>9

Maps == [Contract!Next]_(Contract!vars) /\ AskInv'

LEMMA VerifyAsks ==
  ASSUME IInv, AskInv, NEW t \in Threads, NEW k \in Tokens, Verify(t, k) PROVE Maps
<1>1. PICK b : call' = [call EXCEPT ![t] =
                          [Idle EXCEPT !.at = "config", !.token = k, !.steady = b]]
  BY DEF Verify
<1> DEFINE c == [Idle EXCEPT !.at = "config", !.token = k, !.steady = b]
<1>2. c.at = "config" /\ c.token = k /\ c.outcome = "none" /\ c.trouble = FALSE
  BY DEF Idle
<1>3. call' = [call EXCEPT ![t] = c] /\ UNCHANGED configured
  BY <1>1 DEF Verify
<1> HIDE DEF c
<1>4. View(c) = [state |-> "asked", token |-> k, outcome |-> "none", failed |-> FALSE]
  BY <1>2 DEF View, State, Seen
<1>5. /\ call[t].at = "idle" /\ call[t].token = NoToken /\ call[t].outcome = "none"
      /\ call[t].trouble = FALSE
  BY DEF Verify, At, AskInv, IInv, CallInv, TypeOK, Calls
<1>6. View(call[t]) = Contract!Idle
  BY <1>5 DEF View, State, Seen, Contract!Idle
<1> DEFINE V == [u \in Threads |-> View(call[u])]
<1>7. V[t] = Contract!Idle /\ V' = [V EXCEPT ![t] = View(c)]
  BY <1>3, <1>6, OneCall
<1>8. V' = [V EXCEPT ![t] =
              [state |-> "asked", token |-> k, outcome |-> "none", failed |-> FALSE]]
  BY <1>4, <1>7
<1>9. Contract!Ask(t, k)
  BY <1>3, <1>7, <1>8 DEF Contract!Ask, View
<1>10. AskInv'
  BY <1>2, <1>3, OneCall DEF AskInv, Working
<1> QED BY <1>9, <1>10 DEF Maps, Contract!Next

LEMMA ConfigMaps ==
  ASSUME IInv, AskInv, NEW t \in Threads, require_auth0_config(t) PROVE Maps
<1>1. call[t] \in Calls /\ call[t].at = "config" /\ UNCHANGED configured
  BY DEF IInv, TypeOK, require_auth0_config, At
<1>2. CASE configured
  <2> DEFINE c == [call[t] EXCEPT !.at = "lookup"]
  <2>1. /\ c.at \in Working /\ c.token = call[t].token /\ c.outcome = call[t].outcome
        /\ c.trouble = call[t].trouble /\ call' = [call EXCEPT ![t] = c]
    BY <1>1, <1>2 DEF Calls, Working, require_auth0_config
  <2> HIDE DEF c
  <2> QED BY <1>1, <1>2, <2>1, WorkIsInvisible DEF Maps
<1>3. CASE ~ configured
  <2>1. Seen("RuntimeError") \in Contract!Ends(call[t].token, call[t].trouble)
    BY <1>3 DEF Seen, Contract!Ends, Contract!MayEnd, Contract!Promised
  <2>2. /\ Done(t, "RuntimeError", call[t].trouble)
        /\ "RuntimeError" \in Outcomes /\ call[t].trouble \in BOOLEAN
    BY <1>1, <1>3 DEF require_auth0_config, Finish, Outcomes, Calls
  <2> QED BY <1>1, <2>1, <2>2, EndIsConclude DEF Maps, Contract!Next
<1> QED BY <1>2, <1>3

\* Whatever keys are looked at, a configured provider may refuse any token ...
LEMMA RefusalMaps ==
  ASSUME IInv, AskInv, NEW t \in Threads, call[t].at \in Working, UNCHANGED configured,
         Finish(t, "refused")
  PROVE  Maps
<1>1. configured /\ call[t].trouble \in BOOLEAN /\ "refused" \in Outcomes
  BY DEF AskInv, IInv, TypeOK, Calls, Outcomes
<1>2. Seen("refused") \in Contract!Ends(call[t].token, call[t].trouble)
  BY <1>1 DEF Seen, Contract!Ends, Contract!MayEnd, Contract!Promised
<1> QED BY <1>1, <1>2, EndIsConclude DEF Finish, Maps, Contract!Next

\* ... and let a vendor's exception out when the tenant did not deliver its keys.
LEMMA GivingUpMaps ==
  ASSUME IInv, AskInv, NEW t \in Threads, call[t].at \in Working, UNCHANGED configured,
         NEW o \in {"refused", "PyJWKSetError", "error"}, GiveUp(t, o)
  PROVE  Maps
<1>1. configured /\ o \in Outcomes
  BY DEF AskInv, Outcomes
<1>2. Seen(o) \in Contract!Ends(call[t].token, TRUE)
  BY <1>1 DEF Seen, Contract!Ends, Contract!MayEnd, Contract!Promised
<1> QED BY <1>1, <1>2, EndIsConclude DEF GiveUp, Maps, Contract!Next

LEMMA ResolveMaps ==
  ASSUME IInv, AskInv, NEW t \in Threads, call[t].at \in Working, UNCHANGED configured,
         NEW keys, Resolve(t, keys)
  PROVE  Maps
<1>1. call[t] \in Calls /\ configured
  BY DEF IInv, TypeOK, AskInv
<1>2. CASE \/ GiveUp(t, "refused") \/ GiveUp(t, "PyJWKSetError") \/ Finish(t, "refused")
  BY <1>2, RefusalMaps, GivingUpMaps
<1>3. CASE call' = [call EXCEPT ![t].at = "decode", ![t].found = now, ![t].answer = NoAnswer]
  <2> DEFINE c == [call[t] EXCEPT !.at = "decode", !.found = now, !.answer = NoAnswer]
  <2>1. /\ c.at \in Working /\ c.token = call[t].token /\ c.outcome = call[t].outcome
        /\ c.trouble = call[t].trouble /\ call' = [call EXCEPT ![t] = c]
    BY <1>1, <1>3 DEF Calls, Working
  <2> HIDE DEF c
  <2> QED BY <1>1, <2>1, WorkIsInvisible DEF Maps
<1>4. CASE call' = [call EXCEPT ![t].at = "fetch", ![t].last = TRUE, ![t].answer = NoAnswer]
  <2> DEFINE c == [call[t] EXCEPT !.at = "fetch", !.last = TRUE, !.answer = NoAnswer]
  <2>1. /\ c.at \in Working /\ c.token = call[t].token /\ c.outcome = call[t].outcome
        /\ c.trouble = call[t].trouble /\ call' = [call EXCEPT ![t] = c]
    BY <1>1, <1>4 DEF Calls, Working
  <2> HIDE DEF c
  <2> QED BY <1>1, <2>1, WorkIsInvisible DEF Maps
<1> QED BY <1>2, <1>3, <1>4 DEF Resolve

LEMMA LookupMaps == ASSUME IInv, AskInv, NEW t \in Threads, Lookup(t) PROVE Maps
<1>1. call[t] \in Calls /\ call[t].at \in Working /\ configured /\ UNCHANGED configured
  BY DEF IInv, TypeOK, AskInv, Lookup, At, Working
<1>2. CASE Finish(t, "refused")
  BY <1>1, <1>2, RefusalMaps
<1>3. CASE Resolve(t, jwks.keys)
  BY <1>1, <1>3, ResolveMaps
<1>4. CASE call' = [call EXCEPT ![t].at = "fetch"]
  <2> DEFINE c == [call[t] EXCEPT !.at = "fetch"]
  <2>1. /\ c.at \in Working /\ c.token = call[t].token /\ c.outcome = call[t].outcome
        /\ c.trouble = call[t].trouble /\ call' = [call EXCEPT ![t] = c]
    BY <1>1, <1>4 DEF Calls, Working
  <2> HIDE DEF c
  <2> QED BY <1>1, <2>1, WorkIsInvisible DEF Maps
<1> QED BY <1>2, <1>3, <1>4 DEF Lookup

LEMMA ServeMaps == ASSUME IInv, AskInv, NEW t \in Threads, Serve(t) PROVE Maps
<1>1. call[t] \in Calls /\ call[t].at \in Working /\ configured /\ UNCHANGED configured
  BY DEF IInv, TypeOK, AskInv, Serve, At, Working
<1>2. PICK a : call' = [call EXCEPT ![t].at = "receiving", ![t].answer = a]
  BY DEF Serve
<1> DEFINE c == [call[t] EXCEPT !.at = "receiving", !.answer = a]
<1>3. /\ c.at \in Working /\ c.token = call[t].token /\ c.outcome = call[t].outcome
      /\ c.trouble = call[t].trouble /\ call' = [call EXCEPT ![t] = c]
  BY <1>1, <1>2 DEF Calls, Working
<1> HIDE DEF c
<1> QED BY <1>1, <1>3, WorkIsInvisible DEF Maps

LEMMA ReceiveMaps == ASSUME IInv, AskInv, NEW t \in Threads, Receive(t) PROVE Maps
  BY ResolveMaps DEF Receive, At, Working

LEMMA FetchFailsMaps == ASSUME IInv, AskInv, NEW t \in Threads, FetchFails(t) PROVE Maps
  BY GivingUpMaps DEF FetchFails, Working

\* The one way to a Principal.
LEMMA DecodeMaps == ASSUME IInv, AskInv, NEW t \in Threads, Decode(t) PROVE Maps
<1>1. /\ call[t] \in Calls /\ call[t].at \in Working /\ call[t].token \in Tokens
      /\ configured /\ UNCHANGED configured
  BY DEF IInv, TypeOK, AskInv, CallInv, Decode, At, Working
<1>2. CASE Finish(t, "refused")
  BY <1>1, <1>2, RefusalMaps
<1>3. CASE Finish(t, "accepted") /\ call[t].token.form = "good"
  <2>1. Seen("accepted") \in Contract!Ends(call[t].token, call[t].trouble)
    BY <1>1, <1>3 DEF Seen, Contract!Ends, Contract!MayEnd, Contract!Promised
  <2>2. "accepted" \in Outcomes /\ call[t].trouble \in BOOLEAN
    BY <1>1 DEF Outcomes, Calls
  <2> QED BY <1>1, <1>3, <2>1, <2>2, EndIsConclude DEF Finish, Maps, Contract!Next
<1> QED BY <1>2, <1>3 DEF Decode

LEMMA ReturnMaps == ASSUME IInv, AskInv, NEW t \in Threads, Return(t) PROVE Maps
<1>1. /\ View(Idle) = Contract!Idle /\ Idle.at = "idle" /\ Idle.token = NoToken
      /\ Idle.trouble = FALSE
  BY DEF View, State, Seen, Idle, Contract!Idle
<1>2. call' = [call EXCEPT ![t] = Idle] /\ call[t].at = "done" /\ UNCHANGED configured
  BY DEF Return, At
<1>3. View(call[t]).state = "concluded"
  BY <1>2 DEF View, State
<1>4. Contract!Return(t)
  BY <1>1, <1>2, <1>3, OneCall DEF Contract!Return, View
<1>5. AskInv'
  BY <1>1, <1>2, OneCall DEF AskInv, Working
<1> QED BY <1>4, <1>5 DEF Maps, Contract!Next

\* Tenant and clock are out of the caller's sight.
LEMMA SurroundingsMap == ASSUME IInv, AskInv, Rotate \/ Tick \/ UNCHANGED vars PROVE Maps
<1>1. ASSUME NEW t \in Threads
      PROVE  /\ call'[t].at = call[t].at /\ call'[t].token = call[t].token
             /\ call'[t].outcome = call[t].outcome /\ call'[t].trouble = call[t].trouble
  BY DEF IInv, TypeOK, Calls, Rotate, Tick, vars
<1>2. UNCHANGED configured
  BY DEF Rotate, Tick, vars
<1>3. UNCHANGED [t \in Threads |-> View(call[t])]
  BY <1>1 DEF View, State
<1>4. AskInv'
  BY <1>1, <1>2 DEF AskInv
<1> QED BY <1>2, <1>3, <1>4 DEF Maps, Contract!vars, View

LEMMA StepMaps == ASSUME IInv, AskInv, [Next]_vars PROVE Maps
<1>1. ASSUME NEW t \in Threads, Step(t) PROVE Maps
  BY <1>1, ConfigMaps, LookupMaps, ServeMaps, ReceiveMaps, FetchFailsMaps, DecodeMaps,
     ReturnMaps DEF Step
<1>2. ASSUME NEW t \in Threads, NEW k \in Tokens, Verify(t, k) PROVE Maps
  BY <1>2, VerifyAsks
<1> QED BY <1>1, <1>2, SurroundingsMap DEF Next

\* auth0.py's verify implements the verify of provider.py's AuthProvider: each caller
\* sees one step, in which an unconfigured provider ends in RuntimeError, nothing but
\* a sound token makes a Principal, and a vendor's exception takes a failing tenant.
THEOREM Auth0KeepsTheContract == Spec => ImplementsAuthProvider
<1>1. Init => Contract!Init /\ AskInv
  BY InitAsks
<1>2. IInv /\ AskInv /\ [Next]_vars => [Contract!Next]_(Contract!vars) /\ AskInv'
  BY StepMaps DEF Maps
<1> QED BY <1>1, <1>2, Invariance, PTL DEF Spec, ImplementsAuthProvider, Contract!Spec

-----------------------------------------------------------------------------
(* The safety half of VerifyEnds: a verification only moves on, so it has  *)
(* a bounded number of steps before it, two fetches among them.            *)

MovesOn ==
    \A t \in Threads :
       \/ Stage(call'[t]) > Stage(call[t])
       \/ call'[t].at = call[t].at /\ call'[t].last = call[t].last
       \/ At(t, "done") /\ call'[t] = Idle

LEMMA OneMovesOn ==
  ASSUME TypeOK, NEW t \in Threads, NEW c, call' = [call EXCEPT ![t] = c],
         Stage(c) > Stage(call[t])
  PROVE  MovesOn
  BY DEF MovesOn, TypeOK

\* A call ends after everything else it may do.
LEMMA DoneMovesOn ==
  ASSUME TypeOK, NEW t \in Threads, ~ At(t, "done"), NEW o, NEW b, Done(t, o, b)
  PROVE  MovesOn
<1> DEFINE c == [Idle EXCEPT !.at = "done", !.token = call[t].token,
                             !.steady = call[t].steady, !.trouble = b, !.outcome = o]
<1>1. Stage(c) = 8
  BY DEF Stage, Idle
<1>2. Stage(call[t]) \in 0 .. 7
  <2>1. call[t].at \in Steps \ {"done"}
    BY DEF TypeOK, Calls, At
  <2> QED BY <2>1 DEF Stage, Steps
<1>3. call' = [call EXCEPT ![t] = c]
  BY DEF Done
<1> HIDE DEF c
<1>4. Stage(c) > Stage(call[t])
  BY <1>1, <1>2
<1> QED BY <1>3, <1>4, OneMovesOn

LEMMA ResolveMovesOn ==
  ASSUME TypeOK, NEW t \in Threads, At(t, "lookup") \/ At(t, "receiving"),
         NEW keys, Resolve(t, keys)
  PROVE  MovesOn
<1>1. call[t] \in Calls /\ call[t].last \in BOOLEAN
  BY DEF TypeOK, Calls
<1>2. CASE \/ GiveUp(t, "refused") \/ GiveUp(t, "PyJWKSetError") \/ Finish(t, "refused")
  BY <1>2, DoneMovesOn DEF GiveUp, Finish, At
<1>3. CASE call' = [call EXCEPT ![t].at = "decode", ![t].found = now, ![t].answer = NoAnswer]
  <2> DEFINE c == [call[t] EXCEPT !.at = "decode", !.found = now, !.answer = NoAnswer]
  <2>1. Stage(c) = 7 /\ Stage(call[t]) \in 2 .. 6
    BY <1>1 DEF Stage, Calls, At
  <2>2. call' = [call EXCEPT ![t] = c]
    BY <1>3
  <2> HIDE DEF c
  <2>3. Stage(c) > Stage(call[t])
    BY <2>1
  <2> QED BY <2>2, <2>3, OneMovesOn
<1>4. CASE /\ ~ call[t].last
           /\ call' = [call EXCEPT ![t].at = "fetch", ![t].last = TRUE,
                                   ![t].answer = NoAnswer]
  <2> DEFINE c == [call[t] EXCEPT !.at = "fetch", !.last = TRUE, !.answer = NoAnswer]
  <2>1. Stage(c) = 5 /\ Stage(call[t]) \in 2 .. 4
    BY <1>1, <1>4 DEF Stage, Calls, At
  <2>2. call' = [call EXCEPT ![t] = c]
    BY <1>4
  <2> HIDE DEF c
  <2>3. Stage(c) > Stage(call[t])
    BY <2>1
  <2> QED BY <2>2, <2>3, OneMovesOn
<1> QED BY <1>2, <1>3, <1>4 DEF Resolve

LEMMA StepMovesOn == ASSUME TypeOK, NEW t \in Threads, Step(t) PROVE MovesOn
<1>1. call[t] \in Calls /\ call[t].last \in BOOLEAN
  BY DEF TypeOK, Calls
<1>2. CASE require_auth0_config(t)
  <2>1. CASE configured
    <3> DEFINE c == [call[t] EXCEPT !.at = "lookup"]
    <3>1. Stage(c) = 2 /\ Stage(call[t]) = 1 /\ call' = [call EXCEPT ![t] = c]
      BY <1>1, <1>2, <2>1 DEF require_auth0_config, Stage, Calls, At
    <3> HIDE DEF c
    <3>2. Stage(c) > Stage(call[t])
      BY <3>1
    <3> QED BY <3>1, <3>2, OneMovesOn
  <2>2. CASE ~ configured
    BY <1>2, <2>2, DoneMovesOn DEF require_auth0_config, Finish, At
  <2> QED BY <2>1, <2>2
<1>3. CASE Lookup(t)
  <2>1. CASE Finish(t, "refused")
    BY <1>3, <2>1, DoneMovesOn DEF Lookup, Finish, At
  <2>2. CASE Resolve(t, jwks.keys)
    BY <1>3, <2>2, ResolveMovesOn DEF Lookup
  <2>3. CASE call' = [call EXCEPT ![t].at = "fetch"]
    <3> DEFINE c == [call[t] EXCEPT !.at = "fetch"]
    <3>1. Stage(c) \in {3, 5} /\ Stage(call[t]) = 2 /\ call' = [call EXCEPT ![t] = c]
      BY <1>1, <1>3, <2>3 DEF Lookup, Stage, Calls, At
    <3> HIDE DEF c
    <3>2. Stage(c) > Stage(call[t])
      BY <3>1
    <3> QED BY <3>1, <3>2, OneMovesOn
  <2> QED BY <1>3, <2>1, <2>2, <2>3 DEF Lookup
<1>4. CASE Serve(t)
  <2>1. PICK a : call' = [call EXCEPT ![t].at = "receiving", ![t].answer = a]
    BY <1>4 DEF Serve
  <2> DEFINE c == [call[t] EXCEPT !.at = "receiving", !.answer = a]
  <2>2. c.at = "receiving" /\ c.last = call[t].last /\ call[t].at = "fetch"
    BY <1>1, <1>4 DEF Serve, Calls, At
  <2>3. call' = [call EXCEPT ![t] = c]
    BY <2>1
  <2> HIDE DEF c
  <2>4. Stage(c) > Stage(call[t])
    BY <1>1, <2>2 DEF Stage
  <2> QED BY <2>3, <2>4, OneMovesOn
<1>5. CASE Receive(t)
  BY <1>5, ResolveMovesOn DEF Receive
<1>6. CASE FetchFails(t)
  BY <1>6, DoneMovesOn DEF FetchFails, GiveUp, At
<1>7. CASE Decode(t)
  BY <1>7, DoneMovesOn DEF Decode, Finish, At
<1>8. CASE Return(t)
  BY <1>8 DEF Return, MovesOn, TypeOK
<1> QED BY <1>2, <1>3, <1>4, <1>5, <1>6, <1>7, <1>8 DEF Step

\* For any number of threads and keys and any pace of rotation, one verification asks
\* the tenant twice at most, and nothing that others do starts it over.
THEOREM FetchesAreBounded == Spec => AskedTwiceAtMost
<1>1. TypeOK /\ [Next]_vars => [MovesOn]_vars
  <2> SUFFICES ASSUME TypeOK, Next PROVE MovesOn
    OBVIOUS
  <2>1. ASSUME NEW t \in Threads, NEW k \in Tokens, Verify(t, k) PROVE MovesOn
    <3> DEFINE c == [Idle EXCEPT !.at = "config", !.token = k, !.steady = k.kid \in published]
    <3>1. c.at = "config" /\ call[t].at = "idle" /\ call' = [call EXCEPT ![t] = c]
      BY <2>1 DEF Verify, At, Idle
    <3> HIDE DEF c
    <3>2. Stage(c) > Stage(call[t])
      BY <3>1 DEF Stage
    <3> QED BY <3>1, <3>2, OneMovesOn
  <2>2. CASE Rotate
    BY <2>2 DEF Rotate, MovesOn, TypeOK, Calls
  <2>3. CASE Tick
    BY <2>3 DEF Tick, MovesOn
  <2> QED BY <2>1, <2>2, <2>3, StepMovesOn DEF Next
<1> QED BY <1>1, ProviderTypeCorrect, PTL DEF Spec, AskedTwiceAtMost, MovesOn
=============================================================================
