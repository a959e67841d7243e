---------------------------- MODULE AuthProvider -----------------------------
(***************************************************************************)
(* What the AuthProvider contract (app/auth/provider.py, class             *)
(* AuthProvider) promises current_principal: each call of verify ends in   *)
(* one of the ways AuthContract promises for its token, decided at one     *)
(* instant, whatever other threads verify meanwhile.  A vendor's exception *)
(* is excused only while the source of the keys fails.                     *)
(***************************************************************************)
EXTENDS AuthContract

CONSTANTS
    Threads,    \* threads calling verify
    Tokens,     \* the bearer tokens that are presented
    Sound,      \* those that carry what a Principal is built from
    NoToken

VARIABLES
    configured, \* are the provider's settings complete?
    verifying   \* the call of verify each thread is in

vars == <<configured, verifying>>

Idle == [state |-> "idle", token |-> NoToken, outcome |-> "none", failed |-> FALSE]

Init ==
    /\ configured \in BOOLEAN
    /\ verifying = [t \in Threads |-> Idle]

Ask(t, k) ==
    /\ verifying[t] = Idle
    /\ verifying' = [verifying EXCEPT ![t] =
         [state |-> "asked", token |-> k, outcome |-> "none", failed |-> FALSE]]
    /\ UNCHANGED configured

\* How a call may end, the keys having been to hand or not.
Ends(k, failed) ==
    IF failed THEN MayEnd(configured, k \in Sound) ELSE Promised(configured, k \in Sound)

\* The one step at which the caller is judged.
Conclude(t) ==
    /\ verifying[t].state = "asked"
    /\ \E failed \in BOOLEAN : \E o \in Ends(verifying[t].token, failed) :
          verifying' = [verifying EXCEPT ![t] =
            [state |-> "concluded", token |-> verifying[t].token, outcome |-> o,
             failed |-> failed]]
    /\ UNCHANGED configured

Return(t) ==
    /\ verifying[t].state = "concluded"
    /\ verifying' = [verifying EXCEPT ![t] = Idle]
    /\ UNCHANGED configured

Next == \E t \in Threads : Conclude(t) \/ Return(t) \/ \E k \in Tokens : Ask(t, k)

Spec == Init /\ [][Next]_vars
=============================================================================
