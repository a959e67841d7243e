------------------------ MODULE LazySingletonsProofs ------------------------
(* The races for what is built once per process mix up no instances and    *)
(* come to an end, for any number of threads.                              *)
EXTENDS LazySingletons, TLAPS

\* A thread past get_provider has a provider, its own or the cached one; the
\* client it uses, and the one its provider keeps, were built for that provider.
IInv ==
    /\ TypeOK
    /\ \A t \in Threads : at[t] \in {"verify", "building", "in_use"} =>
          provider[t] \in Threads /\ provider[t] \in {t, cached}
    /\ \A t \in Threads : at[t] = "in_use" => using[t] \in built[provider[t]]
    /\ \A p \in Threads : client[p] # NoThread => client[p] \in built[p]

LEMMA InitInvariant == ASSUME Init PROVE IInv
  BY DEF Init, IInv, TypeOK, Instances, Places

LEMMA GetKeeps == ASSUME IInv, NEW t \in Threads, get_provider(t) PROVE IInv'
<1>1. TypeOK'
  BY DEF IInv, TypeOK, Instances, Places, get_provider, Goto
<1> QED BY <1>1 DEF IInv, TypeOK, Instances, get_provider, Goto

\* Whoever holds a provider while none is cached built it.
LEMMA ConstructKeeps == ASSUME IInv, NEW t \in Threads, Construct(t) PROVE IInv'
<1>1. TypeOK'
  BY DEF IInv, TypeOK, Instances, Places, Construct, Goto
<1> QED BY <1>1, NoThreadAssumption DEF IInv, TypeOK, Instances, Construct, Goto

LEMMA UseKeeps == ASSUME IInv, NEW t \in Threads, UseClient(t) PROVE IInv'
<1>1. TypeOK'
  BY DEF IInv, TypeOK, Instances, Places, UseClient, Goto
<1> QED BY <1>1 DEF IInv, TypeOK, Instances, UseClient, Goto

LEMMA BuildKeeps == ASSUME IInv, NEW t \in Threads, BuildClient(t) PROVE IInv'
<1>1. TypeOK'
  BY DEF IInv, TypeOK, Instances, Places, BuildClient, Goto
<1> QED BY <1>1 DEF IInv, TypeOK, Instances, BuildClient, Goto

LEMMA ReturnKeeps == ASSUME IInv, NEW t \in Threads, Return(t) PROVE IInv'
<1>1. TypeOK'
  BY DEF IInv, TypeOK, Instances, Places, Return, Goto
<1> QED BY <1>1 DEF IInv, TypeOK, Instances, Return, Goto

LEMMA NextKeeps == ASSUME IInv, [Next]_vars PROVE IInv'
<1>1. CASE UNCHANGED vars
  BY <1>1 DEF IInv, TypeOK, vars
<1> QED BY <1>1, GetKeeps, ConstructKeeps, UseKeeps, BuildKeeps, ReturnKeeps DEF Next

LEMMA Invariance == Spec => []IInv
<1>1. Init => IInv
  BY InitInvariant
<1>2. IInv /\ [Next]_vars => IInv'
  BY NextKeeps
<1> QED BY <1>1, <1>2, PTL DEF Spec

-----------------------------------------------------------------------------
\* The state of get_provider and _jwks_client is well-formed in every run.
THEOREM SingletonsTypeCorrect == Spec => []TypeOK
<1>1. IInv => TypeOK
  BY DEF IInv
<1> QED BY <1>1, Invariance, PTL

\* No race on provider.py:73 or auth0.py:76 hands a thread a foreign instance.
THEOREM InstancesAreNotMixed == Spec => []OwnOrShared
<1>1. IInv => OwnOrShared
  BY DEF IInv, OwnOrShared
<1> QED BY <1>1, Invariance, PTL

\* The races of the first use are over for good once both are kept.
THEOREM RacesSettle == Spec => Settled
<1> DEFINE Kept == Shared => Shared' /\ cached' = cached /\ client'[cached] = client[cached]
<1>1. IInv /\ [Next]_vars => [Kept]_vars
  <2> SUFFICES ASSUME IInv, Next, Shared PROVE Kept
    OBVIOUS
  <2>1. PICK t \in Threads : \/ get_provider(t) \/ Construct(t) \/ UseClient(t)
                             \/ BuildClient(t) \/ Return(t)
    BY DEF Next
  <2>2. cached \in Threads /\ TypeOK
    BY DEF IInv, TypeOK, Instances, Shared
  <2>3. CASE get_provider(t)
    BY <2>2, <2>3 DEF get_provider, Goto, TypeOK, Shared
  <2>4. CASE Construct(t)
    BY <2>2, <2>4 DEF Construct, Goto, TypeOK, Shared
  <2>5. CASE UseClient(t)
    BY <2>2, <2>5 DEF UseClient, Goto, TypeOK, Shared
  <2>6. CASE BuildClient(t)
    BY <2>2, <2>6 DEF BuildClient, Goto, TypeOK, Shared, IInv
  <2>7. CASE Return(t)
    BY <2>2, <2>7 DEF Return, Goto, TypeOK, Shared
  <2> QED BY <2>1, <2>3, <2>4, <2>5, <2>6, <2>7
<1> QED BY <1>1, Invariance, PTL DEF Spec, Settled
=============================================================================
