---------------------------- MODULE Auth0Provider ----------------------------
(***************************************************************************)
(* Auth0Provider.verify called by several threads at once: they share one  *)
(* JWKS client, whose cache lives for a while, while the tenant rotates    *)
(* its signing keys and may be out of reach.  (How the threads come by     *)
(* that client is LazySingletons.)                                         *)
(***************************************************************************)
EXTENDS Integers

CONSTANTS
    Threads,    \* threads running current_principal
    Keys,       \* signing keys, by kid
    Tokens,     \* the bearer tokens that are presented
    Lifespan,   \* how long PyJWKClient trusts a key set it received
    FetchTime,  \* how old the tenant's answer is, at most, when it is received
    MaxTime     \* bound on the clock

\* good: signed by its kid, with the right issuer and audience and all claims;
\* bad: it fails one of these checks; malformed: its header cannot be read.
Token == [kid : Keys, form : {"good", "bad", "malformed"}, expires : Nat]

ASSUME TokensAssumption == Tokens \subseteq Token
ASSUME TimesAssumption == {Lifespan, FetchTime, MaxTime} \subseteq Nat

VARIABLES
    configured, \* are AUTH0_DOMAIN and AUTH0_API_AUDIENCE set?
    now,        \* the clock
    published,  \* the keys the tenant publishes
    retired,    \* when each of the others was last published
    jwks,       \* the key set cached in the client
    call        \* the verification each thread is in, or was last in

tenant == <<published, retired>>
vars == <<configured, now, published, retired, jwks, call>>

Steps == {"idle", "config", "lookup", "fetch", "receiving", "decode", "done"}
Outcomes == {"none", "accepted", "refused", "RuntimeError", "PyJWKSetError", "error"}

\* An answer without a usable key is the empty set.
Answer == [keys : SUBSET Keys, served : Nat]
NoAnswer == [keys |-> {}, served |-> 0]
Cached == [state : {"empty", "set"}, keys : SUBSET Keys, at : Nat]
Empty == [state |-> "empty", keys |-> {}, at |-> 0]

NoToken == [kid |-> "none", form |-> "none", expires |-> 0]

\* steady and trouble are history: was the token's key published all along, and
\* did the tenant fail to deliver its keys?
Calls ==
    [at : Steps, token : Tokens \cup {NoToken}, answer : Answer, last : BOOLEAN,
     found : Nat, steady : BOOLEAN, trouble : BOOLEAN, outcome : Outcomes]

Idle == [at |-> "idle", token |-> NoToken, answer |-> NoAnswer, last |-> FALSE,
         found |-> 0, steady |-> FALSE, trouble |-> FALSE, outcome |-> "none"]

LastPublished(k) == IF k \in published THEN now ELSE retired[k]

\* Before the oldest answer that could be in a cache.
LongAgo == 0 - Lifespan - FetchTime - 1

At(t, step) == call[t].at = step
Done(t, outcome, trouble) ==
    call' = [call EXCEPT ![t] =
      [Idle EXCEPT !.at = "done", !.token = call[t].token, !.steady = call[t].steady,
                   !.trouble = trouble, !.outcome = outcome]]

Finish(t, outcome) == Done(t, outcome, call[t].trouble)

\* The tenant did not deliver its keys.
GiveUp(t, outcome) == Done(t, outcome, TRUE)

-----------------------------------------------------------------------------
(* verify                                                                  *)

Verify(t, k) ==
    /\ At(t, "idle")
    /\ call' = [call EXCEPT ![t] =
         [Idle EXCEPT !.at = "config", !.token = k, !.steady = k.kid \in published]]
    /\ UNCHANGED <<configured, now, tenant, jwks>>

require_auth0_config(t) ==
    /\ At(t, "config")
    /\ IF configured THEN call' = [call EXCEPT ![t].at = "lookup"]
       ELSE Finish(t, "RuntimeError")
    /\ UNCHANGED <<configured, now, tenant, jwks>>

\* Slip: an unknown key is refused without a second look.
ResolveOnce(t, keys) ==
    \/ keys = {} /\ GiveUp(t, "refused")
    \/ /\ call[t].token.kid \in keys
       /\ call' = [call EXCEPT ![t].at = "decode", ![t].found = now, ![t].answer = NoAnswer]
    \/ keys # {} /\ call[t].token.kid \notin keys /\ Finish(t, "refused")

\* Slip: the key is asked for until it turns up.
ResolveUntilFound(t, keys) ==
    \/ keys = {} /\ GiveUp(t, "refused")
    \/ /\ call[t].token.kid \in keys
       /\ call' = [call EXCEPT ![t].at = "decode", ![t].found = now, ![t].answer = NoAnswer]
    \/ /\ keys # {} /\ call[t].token.kid \notin keys
       /\ call' = [call EXCEPT ![t].at = "fetch", ![t].answer = NoAnswer]

\* The token's key in a set; a key the first set lacks is asked for once more.
Resolve(t, keys) ==
    \/ /\ keys = {}
       /\ GiveUp(t, "refused") \/ GiveUp(t, "PyJWKSetError")
    \/ /\ call[t].token.kid \in keys
       /\ call' = [call EXCEPT ![t].at = "decode", ![t].found = now, ![t].answer = NoAnswer]
    \/ /\ keys # {} /\ call[t].token.kid \notin keys
       /\ IF call[t].last THEN Finish(t, "refused")
          ELSE call' = [call EXCEPT ![t].at = "fetch", ![t].last = TRUE,
                                    ![t].answer = NoAnswer]

\* Slip: lifespan=-1, a cached set is trusted for good.
FreshForever == jwks.state = "set"

Fresh == jwks.state = "set" /\ now <= jwks.at + Lifespan

\* Slip: the unreadable header's DecodeError is not among _JWT_ERRORS.
LookupOutsideTry(t) ==
    /\ At(t, "lookup")
    /\ IF call[t].token.form = "malformed" THEN Finish(t, "DecodeError")
       ELSE IF Fresh THEN Resolve(t, jwks.keys)
       ELSE call' = [call EXCEPT ![t].at = "fetch"]
    /\ UNCHANGED <<configured, now, tenant, jwks>>

Lookup(t) ==
    /\ At(t, "lookup")
    /\ IF call[t].token.form = "malformed" THEN Finish(t, "refused")
       ELSE IF Fresh THEN Resolve(t, jwks.keys)
       ELSE call' = [call EXCEPT ![t].at = "fetch"]
    /\ UNCHANGED <<configured, now, tenant, jwks>>

\* The tenant answers with its keys, or with something that holds none.
Serve(t) ==
    /\ At(t, "fetch")
    /\ \E keys \in {published, {}} :
          call' = [call EXCEPT ![t].at = "receiving",
                               ![t].answer = [keys |-> keys, served |-> now]]
    /\ UNCHANGED <<configured, now, tenant, jwks>>

\* Whatever was received is cached, over anything another thread cached meanwhile.
Receive(t) ==
    /\ At(t, "receiving")
    /\ jwks' = [state |-> "set", keys |-> call[t].answer.keys, at |-> now]
    /\ Resolve(t, call[t].answer.keys)
    /\ UNCHANGED <<configured, now, tenant>>

\* No connection, a time-out (both refused), or an answer that is no JSON.
FetchFails(t) ==
    /\ call[t].at \in {"fetch", "receiving"}
    /\ GiveUp(t, "refused") \/ GiveUp(t, "error")
    /\ jwks' \in {jwks, Empty}
    /\ UNCHANGED <<configured, now, tenant>>

\* Slip: jwt.decode is not told the audience and the issuer, any token of a key will do.
DecodeAnyAudience(t) ==
    /\ At(t, "decode")
    /\ Finish(t, IF now < call[t].token.expires THEN "accepted" ELSE "refused")
    /\ UNCHANGED <<configured, now, tenant, jwks>>

\* jwt.decode, and the Principal built from the claims.
Decode(t) ==
    /\ At(t, "decode")
    /\ Finish(t, IF call[t].token.form = "good" /\ now < call[t].token.expires
                 THEN "accepted" ELSE "refused")
    /\ UNCHANGED <<configured, now, tenant, jwks>>

\* The caller gets its Principal or its exception.
Return(t) ==
    /\ At(t, "done")
    /\ call' = [call EXCEPT ![t] = Idle]
    /\ UNCHANGED <<configured, now, tenant, jwks>>

-----------------------------------------------------------------------------
(* The tenant and time.                                                    *)

Rotate ==
    /\ published' \in SUBSET Keys \ {{}}
    /\ retired' = [k \in Keys |-> IF k \in published' THEN LongAgo ELSE LastPublished(k)]
    /\ call' = [t \in Threads |->
                  [call[t] EXCEPT !.steady = @ /\ call[t].token.kid \in published']]
    /\ UNCHANGED <<configured, now, jwks>>

Tick ==
    /\ now < MaxTime
    /\ \A t \in Threads : At(t, "receiving") => now < call[t].answer.served + FetchTime
    /\ now' = now + 1
    /\ UNCHANGED <<configured, tenant, jwks, call>>

-----------------------------------------------------------------------------
Init ==
    /\ configured \in BOOLEAN
    /\ now = 0
    /\ published \in SUBSET Keys \ {{}}
    /\ retired = [k \in Keys |-> LongAgo]
    /\ jwks = Empty
    /\ call = [t \in Threads |-> Idle]

Step(t) == \/ require_auth0_config(t) \/ Lookup(t) \/ Serve(t) \/ Receive(t)
           \/ FetchFails(t) \/ Decode(t) \/ Return(t)

Next ==
    \/ \E t \in Threads : Step(t) \/ \E k \in Tokens : Verify(t, k)
    \/ Rotate \/ Tick

\* A thread inside verify keeps running, and a fetch ends at the latest with its
\* time-out.
Fairness == \A t \in Threads : WF_vars(Step(t))

Spec == Init /\ [][Next]_vars /\ Fairness

-----------------------------------------------------------------------------
TypeOK ==
    /\ configured \in BOOLEAN
    /\ now \in Nat
    /\ published \in SUBSET Keys
    /\ retired \in [Keys -> Int]
    /\ jwks \in Cached
    /\ call \in [Threads -> Calls]

\* A retired key is forgotten: when a token's key is found, the tenant published
\* it no longer ago than a cached set may live and an answer may travel, whichever
\* thread filled the cache, in whatever order the answers came.
NoStaleKey ==
    \A t \in Threads : At(t, "decode") =>
        LastPublished(call[t].token.kid) >= call[t].found - Lifespan - FetchTime

\* "Refreshes on unknown kid, so no action is needed on rotation": a good token
\* whose key has been published since its verification began is only refused
\* when the tenant failed to deliver its keys.
RotationIsSeamless ==
    \A t \in Threads :
        (call[t].outcome = "refused" /\ call[t].steady /\ call[t].token.form = "good"
           /\ now < call[t].token.expires) => call[t].trouble

\* How far a verification has come; a key it did not find is asked for again.
Stage(c) ==
    CASE c.at = "idle" -> 0
      [] c.at = "config" -> 1
      [] c.at = "lookup" -> 2
      [] c.at = "fetch" -> IF c.last THEN 5 ELSE 3
      [] c.at = "receiving" -> IF c.last THEN 6 ELSE 4
      [] c.at = "decode" -> 7
      [] c.at = "done" -> 8

\* The tenant is asked for its keys at most twice for one token, however often other
\* threads replace the cache and the keys rotate: no step takes a verification back.
AskedTwiceAtMost ==
    [][ \A t \in Threads :
          \/ Stage(call'[t]) > Stage(call[t])
          \/ call'[t].at = call[t].at /\ call'[t].last = call[t].last
          \/ At(t, "done") /\ call'[t] = Idle ]_vars

\* Every verification ends, the tenant reachable or not.
VerifyEnds == \A t \in Threads : ~ At(t, "idle") ~> At(t, "idle")

-----------------------------------------------------------------------------
(* verify as its caller sees it.                                           *)

State(c) == CASE c.at = "idle" -> "idle" [] c.at = "done" -> "concluded" [] OTHER -> "asked"

\* What current_principal makes of each outcome.
Seen(outcome) ==
    CASE outcome = "accepted" -> "principal"
      [] outcome = "refused"  -> "InvalidTokenError"
      [] outcome \in {"PyJWKSetError", "error"} -> "vendor"
      [] OTHER -> outcome

Contract == INSTANCE AuthProvider WITH
    Sound <- {k \in Tokens : k.form = "good"},
    verifying <- [t \in Threads |-> [state |-> State(call[t]), token |-> call[t].token,
                                     outcome |-> Seen(call[t].outcome),
                                     failed |-> call[t].trouble]]

\* However many steps a verification takes and whatever other threads, tenant and
\* clock do meanwhile, each caller sees the one-step verify of the AuthProvider
\* contract: an unsound token makes no Principal, even if its key is found, a missing
\* configuration is never taken for a bad token, and no vendor's exception comes out
\* (provider.py, line 67) unless the tenant failed to deliver its keys.
ImplementsAuthProvider == Contract!Spec

-----------------------------------------------------------------------------
(* What the documentation says and the code does not do.                   *)

\* auth0.py: "Every PyJWT failure is remapped to InvalidTokenError".
PyJWTFailuresAreRemapped == \A t \in Threads : call[t].outcome # "PyJWKSetError"
=============================================================================
