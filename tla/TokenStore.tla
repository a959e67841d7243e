----------------------------- MODULE TokenStore -----------------------------
(***************************************************************************)
(* What the TokenStore contract (app/example/token_store.py, class         *)
(* TokenStore) promises its callers: a register that save overwrites as a  *)
(* whole and load reads, which survives the crash of the process, and      *)
(* which after a power loss holds a value it held before.                  *)
(***************************************************************************)
CONSTANTS
    Tokens,     \* the token dicts that may be saved
    Nothing,    \* load's None, no token: nothing is stored
    Savers,     \* threads calling save
    Loaders     \* threads calling load

VARIABLES
    value,      \* what a load would return now
    durable,    \* what it would return after a power loss now
    saving,     \* the save in progress of each saver
    loaded      \* what the last load of each loader saw

vars == <<value, durable, saving, loaded>>

Value == Tokens \cup {Nothing}
Idle == [state |-> "idle", token |-> Nothing]
Save == {Idle} \cup [state : {"pending", "stored"}, token : Tokens]

Init ==
    /\ value \in Value
    /\ durable = value
    /\ saving = [w \in Savers |-> Idle]
    /\ loaded = [r \in Loaders |-> Nothing]

Begin(w, t) ==
    /\ saving[w] = Idle
    /\ saving' = [saving EXCEPT ![w] = [state |-> "pending", token |-> t]]
    /\ UNCHANGED <<value, durable, loaded>>

\* The one step at which the save takes effect.
Commit(w) ==
    /\ saving[w].state = "pending"
    /\ value' = saving[w].token
    /\ saving' = [saving EXCEPT ![w].state = "stored"]
    /\ UNCHANGED <<durable, loaded>>

Return(w) ==
    /\ saving[w].state = "stored"
    /\ saving' = [saving EXCEPT ![w] = Idle]
    /\ UNCHANGED <<value, durable, loaded>>

\* A save that raises has changed nothing.
Fail(w) ==
    /\ saving[w].state = "pending"
    /\ saving' = [saving EXCEPT ![w] = Idle]
    /\ UNCHANGED <<value, durable, loaded>>

Load(r) ==
    /\ loaded' = [loaded EXCEPT ![r] = value]
    /\ UNCHANGED <<value, durable, saving>>

\* The stored value reaches the disk, at a time of the system's choosing.
Settle ==
    /\ durable' = value
    /\ UNCHANGED <<value, saving, loaded>>

Stop ==
    /\ saving' = [w \in Savers |-> Idle]
    /\ UNCHANGED loaded

Crash == Stop /\ UNCHANGED <<value, durable>>

PowerLoss == Stop /\ value' = durable /\ UNCHANGED durable

Next ==
    \/ \E w \in Savers :
          (\E t \in Tokens : Begin(w, t)) \/ Commit(w) \/ Return(w) \/ Fail(w)
    \/ \E r \in Loaders : Load(r)
    \/ Settle \/ Crash \/ PowerLoss

Spec == Init /\ [][Next]_vars
=============================================================================
