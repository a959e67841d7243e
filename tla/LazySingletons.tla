--------------------------- MODULE LazySingletons ---------------------------
(***************************************************************************)
(* The first use of what is built once per process: several threads call   *)
(* current_principal before there is a provider (lru_cache on              *)
(* get_provider) or its JWKS client (cached_property on _jwks_client).     *)
(* Neither holds a second thread back while the first one builds.          *)
(*                                                                         *)
(* An instance is named by the thread that built it: no thread builds the  *)
(* same thing twice.                                                       *)
(***************************************************************************)
EXTENDS Integers

CONSTANTS
    Threads,    \* threads running current_principal
    NoThread    \* where there is no instance

ASSUME NoThreadAssumption == NoThread \notin Threads

VARIABLES
    cached,     \* the provider lru_cache keeps
    client,     \* the client in the __dict__ of each provider
    built,      \* who built a client for each provider
    at,         \* where each thread is
    provider,   \* the provider its call uses
    using       \* the client its call uses

vars == <<cached, client, built, at, provider, using>>

Places == {"idle", "constructing", "verify", "building", "in_use"}

Goto(t, place) == at' = [at EXCEPT ![t] = place]

\* Slip: a second caller waits for the first one's instance.
GetOrWait(t) ==
    /\ at[t] = "idle"
    /\ provider' = [provider EXCEPT ![t] = cached]
    /\ Goto(t, IF cached # NoThread THEN "verify"
               ELSE IF \E u \in Threads : at[u] = "constructing" THEN "waiting"
               ELSE "constructing")
    /\ UNCHANGED <<cached, client, built, using>>

\* get_provider: a hit, or a miss that runs the function.
get_provider(t) ==
    /\ at[t] = "idle"
    /\ provider' = [provider EXCEPT ![t] = cached]
    /\ Goto(t, IF cached = NoThread THEN "constructing" ELSE "verify")
    /\ UNCHANGED <<cached, client, built, using>>

\* Every caller that missed goes on with its own instance; the first is kept.
Construct(t) ==
    /\ at[t] = "constructing"
    /\ provider' = [provider EXCEPT ![t] = t]
    /\ cached' = IF cached = NoThread THEN t ELSE cached
    /\ Goto(t, "verify")
    /\ UNCHANGED <<client, built, using>>

\* Slip: a plain property, nothing is kept.
UseProperty(t) ==
    /\ at[t] = "verify"
    /\ Goto(t, "building")
    /\ UNCHANGED <<cached, client, built, provider, using>>

\* Slip: the client is taken from get_provider() instead of self.
UseCachedClient(t) ==
    /\ at[t] = "verify"
    /\ using' = [using EXCEPT ![t] = client[cached]]
    /\ Goto(t, IF client[cached] = NoThread THEN "building" ELSE "in_use")
    /\ UNCHANGED <<cached, client, built, provider>>

\* _jwks_client of the provider: in its __dict__, or to be built.
UseClient(t) ==
    /\ at[t] = "verify"
    /\ using' = [using EXCEPT ![t] = client[provider[t]]]
    /\ Goto(t, IF client[provider[t]] = NoThread THEN "building" ELSE "in_use")
    /\ UNCHANGED <<cached, client, built, provider>>

\* The last to end is kept, each goes on with its own.
BuildClient(t) ==
    /\ at[t] = "building"
    /\ client' = [client EXCEPT ![provider[t]] = t]
    /\ built' = [built EXCEPT ![provider[t]] = @ \cup {t}]
    /\ using' = [using EXCEPT ![t] = t]
    /\ Goto(t, "in_use")
    /\ UNCHANGED <<cached, provider>>

\* verify returned: the thread is free for the next call.
Return(t) ==
    /\ at[t] = "in_use"
    /\ Goto(t, "idle")
    /\ provider' = [provider EXCEPT ![t] = NoThread]
    /\ using' = [using EXCEPT ![t] = NoThread]
    /\ UNCHANGED <<cached, client, built>>

Init ==
    /\ cached = NoThread
    /\ client = [p \in Threads |-> NoThread]
    /\ built = [p \in Threads |-> {}]
    /\ at = [t \in Threads |-> "idle"]
    /\ provider = [t \in Threads |-> NoThread]
    /\ using = [t \in Threads |-> NoThread]

Next ==
    \E t \in Threads :
        \/ get_provider(t) \/ Construct(t) \/ UseClient(t) \/ BuildClient(t)
        \/ Return(t)

Spec == Init /\ [][Next]_vars

-----------------------------------------------------------------------------
Instances == Threads \cup {NoThread}

TypeOK ==
    /\ cached \in Instances
    /\ client \in [Threads -> Instances]
    /\ built \in [Threads -> SUBSET Threads]
    /\ at \in [Threads -> Places]
    /\ provider \in [Threads -> Instances]
    /\ using \in [Threads -> Instances]

\* There is a provider, a client in it, and no thread building another one.
Shared ==
    /\ cached # NoThread
    /\ client[cached] # NoThread
    /\ \A t \in Threads : at[t] = "building" => provider[t] # cached

\* Once that is so the races are over for good: nothing replaces either of them,
\* and no thread begins to build another client.
Settled ==
    [][ Shared => /\ Shared'
                  /\ cached' = cached /\ client'[cached] = client[cached] ]_vars

\* A thread that is past get_provider has a provider of its own making or the one
\* the process keeps, and one that is past _jwks_client has a client of that very
\* provider: no race hands out a half-built or a foreign instance.
OwnOrShared ==
    \A t \in Threads :
        /\ at[t] \in {"verify", "building", "in_use"} => provider[t] \in {t, cached}
        /\ at[t] = "in_use" => using[t] \in built[provider[t]]

-----------------------------------------------------------------------------
(* What the documentation says and the code does not do.                   *)

\* auth0.py: "The tenant JWKS client, built once on first use".
BuiltOnce == \A p, t, u \in Threads : {t, u} \subseteq built[p] => t = u
=============================================================================
