--------------------------- MODULE FileTokenStore ---------------------------
(***************************************************************************)
(* FileTokenStore.save and .load step by step: several threads are in them *)
(* at once, every file operation may fail, and between any two steps the   *)
(* process may die or the machine lose power.                              *)
(*                                                                         *)
(* A file is what its reader would find: a token, whether its text is      *)
(* complete, and whether that text is on the disk.  The token path names a *)
(* file in the running system (target) and, some time later, on the disk   *)
(* (onDisk).                                                               *)
(***************************************************************************)
EXTENDS Integers

CONSTANTS
    Tokens,     \* the token dicts that may be saved
    Nothing,    \* load's None
    Savers,     \* threads calling save
    Loaders,    \* threads calling load
    MaxFaults   \* bound on crashes, power losses and failed clean-ups

ASSUME NothingAssumption == Nothing \notin Tokens
ASSUME MaxFaultsAssumption == MaxFaults \in Nat

VARIABLES
    target,     \* the file the token path names, or NoFile
    onDisk,     \* the file it names on the disk
    temp,       \* the temporary file of each saver
    token,      \* the token each saver was called with
    pc,         \* where each saver is in save
    reading,    \* the loaders between open and read
    handle,     \* the file each loader opened last
    loaded,     \* what its last load read
    stray,      \* is there a temporary file that no save owns?
    faults      \* crashes, power losses and failed clean-ups so far

vars == <<target, onDisk, temp, token, pc, reading, handle, loaded, stray, faults>>
loads == <<reading, handle, loaded>>

File == [token : Tokens, complete : BOOLEAN, synced : BOOLEAN]
NoFile == [token |-> Nothing, complete |-> TRUE, synced |-> TRUE]
Files == File \cup {NoFile}

\* The steps of save inside its try block.
Guarded == {"dump", "fsync", "replace"}

Goto(w, l) == pc' = [pc EXCEPT ![w] = l]

\* The caller gets its None or its exception.
Leave(w) ==
    /\ Goto(w, "idle")
    /\ token' = [token EXCEPT ![w] = Nothing]

-----------------------------------------------------------------------------
(* save                                                                    *)

\* mkdir and mkstemp.  When one of these raises, nothing has happened.
Create(w, t) ==
    /\ pc[w] = "idle"
    /\ temp' = [temp EXCEPT ![w] = [token |-> t, complete |-> FALSE, synced |-> FALSE]]
    /\ token' = [token EXCEPT ![w] = t]
    /\ Goto(w, "dump")
    /\ UNCHANGED <<target, onDisk, loads, stray, faults>>

\* json.dump and flush: all of the text is in the file, not yet on the disk.
Dump(w) ==
    /\ pc[w] = "dump"
    /\ temp' = [temp EXCEPT ![w].complete = TRUE]
    /\ Goto(w, "fsync")
    /\ UNCHANGED <<target, onDisk, token, loads, stray, faults>>

\* Slip: flush is taken for fsync.
FlushOnly(w) ==
    /\ pc[w] = "fsync"
    /\ Goto(w, "replace")
    /\ UNCHANGED <<target, onDisk, temp, token, loads, stray, faults>>

Fsync(w) ==
    /\ pc[w] = "fsync"
    /\ temp' = [temp EXCEPT ![w].synced = TRUE]
    /\ Goto(w, "replace")
    /\ UNCHANGED <<target, onDisk, token, loads, stray, faults>>

\* Slip: the target is unlinked first and renamed onto in the next step.
ReplaceInTwo(w) ==
    /\ pc[w] = "replace"
    /\ target' = IF target = NoFile THEN temp[w] ELSE NoFile
    /\ temp' = IF target = NoFile THEN [temp EXCEPT ![w] = NoFile] ELSE temp
    /\ Goto(w, IF target = NoFile THEN "return" ELSE "replace")
    /\ UNCHANGED <<onDisk, token, loads, stray, faults>>

\* os.replace: at once for the running system; the directory is not synced.
Replace(w) ==
    /\ pc[w] = "replace"
    /\ target' = temp[w]
    /\ temp' = [temp EXCEPT ![w] = NoFile]
    /\ Goto(w, "return")
    /\ UNCHANGED <<onDisk, token, loads, stray, faults>>

Return(w) ==
    /\ pc[w] = "return"
    /\ Leave(w)
    /\ UNCHANGED <<target, onDisk, temp, loads, stray, faults>>

\* Slip: an except clause that only raises again.
RaiseWithoutCleanup(w) ==
    /\ pc[w] \in Guarded
    /\ Leave(w)
    /\ UNCHANGED <<target, onDisk, temp, loads, stray, faults>>

\* Slip: the write is retried as long as it fails.
RetryForever(w) ==
    /\ pc[w] \in Guarded
    /\ Goto(w, "dump")
    /\ UNCHANGED <<target, onDisk, temp, token, loads, stray, faults>>

\* A payload json refuses, a full disk, ...: except BaseException.
Error(w) ==
    /\ pc[w] \in Guarded
    /\ Goto(w, "unlink")
    /\ UNCHANGED <<target, onDisk, temp, token, loads, stray, faults>>

\* os.unlink of the temporary file, which may fail in turn; then the raise.
Unlink(w) ==
    /\ pc[w] = "unlink"
    /\ Leave(w)
    /\ temp' = [temp EXCEPT ![w] = NoFile]
    /\ \/ UNCHANGED <<stray, faults>>
       \/ faults < MaxFaults /\ faults' = faults + 1 /\ stray' = TRUE
    /\ UNCHANGED <<target, onDisk, loads>>

-----------------------------------------------------------------------------
(* load                                                                    *)

\* Slip: a missing file is read as an empty dict.
OpenMissingAsEmpty(r) ==
    /\ r \notin reading
    /\ handle' = [handle EXCEPT ![r] = target]
    /\ IF target = NoFile
       THEN /\ loaded' = [loaded EXCEPT ![r] = [NoFile EXCEPT !.token = {}]]
            /\ UNCHANGED reading
       ELSE reading' = reading \cup {r} /\ UNCHANGED loaded
    /\ UNCHANGED <<target, onDisk, temp, token, pc, stray, faults>>

\* FileNotFoundError is the None of an empty store.
Open(r) ==
    /\ r \notin reading
    /\ handle' = [handle EXCEPT ![r] = target]
    /\ IF target = NoFile
       THEN loaded' = [loaded EXCEPT ![r] = NoFile] /\ UNCHANGED reading
       ELSE reading' = reading \cup {r} /\ UNCHANGED loaded
    /\ UNCHANGED <<target, onDisk, temp, token, pc, stray, faults>>

\* The file that was opened is the one read, whatever the path names by now.
Read(r) ==
    /\ r \in reading
    /\ loaded' = [loaded EXCEPT ![r] = handle[r]]
    /\ reading' = reading \ {r}
    /\ UNCHANGED <<target, onDisk, temp, token, pc, handle, stray, faults>>

-----------------------------------------------------------------------------
(* The system underneath.                                                  *)

\* The directory reaches the disk whenever the system writes it back.
Settle ==
    /\ onDisk # target
    /\ onDisk' = target
    /\ UNCHANGED <<target, temp, token, pc, loads, stray, faults>>

\* All threads are gone; a temporary file they had stays, if it was there.
Stop(leaves) ==
    /\ faults < MaxFaults
    /\ faults' = faults + 1
    /\ pc' = [w \in Savers |-> "idle"]
    /\ token' = [w \in Savers |-> Nothing]
    /\ temp' = [w \in Savers |-> NoFile]
    /\ reading' = {}
    /\ stray' \in leaves
    /\ UNCHANGED <<handle, loaded>>

TempExists == stray \/ \E w \in Savers : temp[w] # NoFile

Crash == Stop({TempExists}) /\ UNCHANGED <<target, onDisk>>

\* Text that was not synced may be gone from the file the disk names.
PowerLoss ==
    /\ Stop({FALSE, TempExists})
    /\ target' \in {onDisk, [onDisk EXCEPT !.complete = @ /\ onDisk.synced]}
    /\ onDisk' = target'

-----------------------------------------------------------------------------
Init ==
    /\ target \in {NoFile} \cup [token : Tokens, complete : {TRUE}, synced : {TRUE}]
    /\ onDisk = target
    /\ temp = [w \in Savers |-> NoFile]
    /\ token = [w \in Savers |-> Nothing]
    /\ pc = [w \in Savers |-> "idle"]
    /\ reading = {}
    /\ handle = [r \in Loaders |-> NoFile]
    /\ loaded = [r \in Loaders |-> NoFile]
    /\ stray = FALSE
    /\ faults = 0

\* What a save does once it has its temporary file.
Step(w) == \/ Dump(w) \/ Fsync(w) \/ Replace(w) \/ Return(w)
           \/ Error(w) \/ Unlink(w)

Next ==
    \/ \E w \in Savers : Step(w) \/ \E t \in Tokens : Create(w, t)
    \/ \E r \in Loaders : Open(r) \/ Read(r)
    \/ Settle \/ Crash \/ PowerLoss

\* A thread inside save keeps running.  Callers, loads, the write-back and the
\* faults are under no obligation.
Fairness == \A w \in Savers : WF_vars(Step(w))

Spec == Init /\ [][Next]_vars /\ Fairness

-----------------------------------------------------------------------------
TypeOK ==
    /\ target \in Files /\ onDisk \in Files
    /\ temp \in [Savers -> Files]
    /\ token \in [Savers -> Tokens \cup {Nothing}]
    /\ pc \in [Savers -> {"idle", "return", "unlink"} \cup Guarded]
    /\ reading \in SUBSET Loaders
    /\ handle \in [Loaders -> Files] /\ loaded \in [Loaders -> Files]
    /\ stray \in BOOLEAN
    /\ faults \in 0 .. MaxFaults

\* "A crash mid-write can never leave a truncated or corrupt token file": what
\* the path names, now or after a power loss, and whatever a load opened, is a
\* complete token or no file, at every moment of any number of saves.
NeverTorn ==
    /\ target.complete
    /\ onDisk.complete /\ onDisk.synced
    /\ \A r \in Loaders : handle[r].complete /\ loaded[r].complete

\* "Never leave a stray temp file behind on failure": a temporary file belongs to
\* a save in progress, or a crash or a failed clean-up left it.
StraysOnlyFromFaults ==
    /\ stray => faults > 0
    /\ \A w \in Savers : temp[w] # NoFile => pc[w] \in Guarded \cup {"unlink"}

\* A save ends: it returns or it raises.
SaveEnds == \A w \in Savers : pc[w] # "idle" ~> pc[w] = "idle"

\* A save seen from outside: until its os.replace it has had no effect.
Saving(w) ==
    [state |-> IF pc[w] = "idle" THEN "idle"
               ELSE IF pc[w] = "return" THEN "stored" ELSE "pending",
     token |-> token[w]]

Store ==
    INSTANCE TokenStore WITH
      value <- target.token,
      durable <- onDisk.token,
      saving <- [w \in Savers |-> Saving(w)],
      loaded <- [r \in Loaders |-> handle[r].token]

\* Seen through the path, the store is the register of TokenStore: a save takes
\* effect at its os.replace, a load at its open.
ImplementsTokenStore == Store!Spec

-----------------------------------------------------------------------------
(* What the documentation says and the code does not do.                   *)

\* "Persist the token dict, overwriting any previous value": with no save in
\* progress, nothing that befalls process or machine brings another token back.
SavedIsPersisted ==
    [][(\A w \in Savers : pc[w] = "idle") => target'.token = target.token]_vars
=============================================================================
