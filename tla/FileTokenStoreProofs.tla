------------------------ MODULE FileTokenStoreProofs ------------------------
(* FileTokenStore never shows a torn token, keeps its directory clean, and *)
(* implements the register of TokenStore: for any tokens, any number of    *)
(* threads and any number of faults.                                       *)
EXTENDS FileTokenStore, TLAPS

-----------------------------------------------------------------------------
(* The inductive invariant.                                                *)

\* A file that can be named by the token path: complete, and on the disk.
Sound == {f \in Files : f.complete /\ f.synced}

\* What a saver's temporary file holds at each step of save.
SaverInv(w) ==
    /\ pc[w] = "idle" => token[w] = Nothing /\ temp[w] = NoFile
    /\ pc[w] = "return" => token[w] \in Tokens /\ temp[w] = NoFile
    /\ pc[w] \in Guarded \cup {"unlink"} =>
         temp[w] \in File /\ token[w] \in Tokens /\ temp[w].token = token[w]
    /\ pc[w] \in {"fsync", "replace"} => temp[w].complete
    /\ pc[w] = "replace" => temp[w].synced

IInv ==
    /\ TypeOK
    /\ target \in Sound /\ onDisk \in Sound
    /\ \A r \in Loaders : handle[r] \in Sound /\ loaded[r] \in Sound
    /\ stray => faults > 0
    /\ \A w \in Savers : SaverInv(w)

LEMMA NoFileSound == NoFile \in Sound
  BY DEF Sound, Files, NoFile

LEMMA InitInvariant == ASSUME Init PROVE IInv
<1>1. target \in Sound
  <2>1. CASE target = NoFile
    BY <2>1, NoFileSound
  <2>2. CASE target \in [token : Tokens, complete : {TRUE}, synced : {TRUE}]
    BY <2>2 DEF Sound, Files, File
  <2> QED BY <2>1, <2>2 DEF Init
<1>2. onDisk = target /\ onDisk \in Sound
  BY <1>1 DEF Init
<1>3. TypeOK
  <2>1. target \in Files /\ onDisk \in Files /\ NoFile \in Files
    BY <1>1, <1>2 DEF Sound, Files
  <2>2. temp \in [Savers -> Files] /\ handle \in [Loaders -> Files]
        /\ loaded \in [Loaders -> Files]
    BY <2>1 DEF Init
  <2>3. faults \in 0 .. MaxFaults
    BY MaxFaultsAssumption DEF Init
  <2>4. /\ token \in [Savers -> Tokens \cup {Nothing}]
        /\ pc \in [Savers -> {"idle", "return", "unlink"} \cup Guarded]
        /\ reading \in SUBSET Loaders /\ stray \in BOOLEAN
    BY DEF Init
  <2> QED BY <2>1, <2>2, <2>3, <2>4 DEF TypeOK
<1> QED BY <1>1, <1>2, <1>3, NoFileSound DEF Init, IInv, SaverInv, Guarded

\* A step of one saver that touches nothing else keeps the others' invariants.
LEMMA SaverStep ==
  ASSUME IInv, TypeOK', NEW w \in Savers, SaverInv(w)',
         \A v \in Savers \ {w} : pc'[v] = pc[v] /\ temp'[v] = temp[v] /\ token'[v] = token[v],
         target' \in Sound, onDisk' \in Sound, UNCHANGED loads, stray' => faults' > 0
  PROVE  IInv'
<1>1. ASSUME NEW v \in Savers PROVE SaverInv(v)'
  <2>1. CASE v = w
    BY <2>1
  <2>2. CASE v # w
    BY <2>2 DEF IInv, SaverInv
  <2> QED BY <2>1, <2>2
<1>2. \A r \in Loaders : handle'[r] \in Sound /\ loaded'[r] \in Sound
  BY DEF IInv, loads
<1> QED BY <1>1, <1>2 DEF IInv

LEMMA CreateKeeps ==
  ASSUME IInv, NEW w \in Savers, NEW t \in Tokens, Create(w, t) PROVE IInv'
<1> DEFINE f == [token |-> t, complete |-> FALSE, synced |-> FALSE]
<1>0. TypeOK /\ f \in File
  BY DEF IInv, File
<1>1. /\ pc'[w] = "dump" /\ temp'[w] = f /\ token'[w] = t /\ f.token = t
      /\ UNCHANGED <<target, onDisk, loads, stray, faults>>
  BY <1>0 DEF Create, Goto, TypeOK
<1>2. TypeOK'
  BY <1>0 DEF Create, Goto, TypeOK, Files, Guarded, loads
<1>3. SaverInv(w)'
  BY <1>0, <1>1 DEF SaverInv, Guarded
<1>4. \A v \in Savers \ {w} : pc'[v] = pc[v] /\ temp'[v] = temp[v] /\ token'[v] = token[v]
  BY <1>0 DEF Create, Goto, TypeOK
<1> QED BY <1>1, <1>2, <1>3, <1>4, SaverStep DEF IInv

LEMMA DumpKeeps == ASSUME IInv, NEW w \in Savers, Dump(w) PROVE IInv'
<1>0. TypeOK /\ SaverInv(w) /\ pc[w] = "dump" /\ temp[w] \in File
  BY DEF IInv, SaverInv, Dump, Guarded
<1>1. /\ pc'[w] = "fsync" /\ temp'[w] = [temp[w] EXCEPT !.complete = TRUE]
      /\ temp'[w] \in File /\ temp'[w].token = temp[w].token /\ temp'[w].complete
      /\ UNCHANGED <<target, onDisk, token, loads, stray, faults>>
  BY <1>0 DEF Dump, Goto, TypeOK, File
<1>2. TypeOK'
  BY <1>0, <1>1 DEF Dump, Goto, TypeOK, Files, Guarded, loads
<1>3. SaverInv(w)'
  BY <1>0, <1>1 DEF SaverInv, Guarded
<1>4. \A v \in Savers \ {w} : pc'[v] = pc[v] /\ temp'[v] = temp[v] /\ token'[v] = token[v]
  BY <1>0 DEF Dump, Goto, TypeOK
<1> QED BY <1>1, <1>2, <1>3, <1>4, SaverStep DEF IInv

LEMMA FsyncKeeps == ASSUME IInv, NEW w \in Savers, Fsync(w) PROVE IInv'
<1>0. TypeOK /\ SaverInv(w) /\ pc[w] = "fsync" /\ temp[w] \in File /\ temp[w].complete
  BY DEF IInv, SaverInv, Fsync, Guarded
<1>1. /\ pc'[w] = "replace" /\ temp'[w] = [temp[w] EXCEPT !.synced = TRUE]
      /\ temp'[w] \in File /\ temp'[w].token = temp[w].token
      /\ temp'[w].complete /\ temp'[w].synced
      /\ UNCHANGED <<target, onDisk, token, loads, stray, faults>>
  BY <1>0 DEF Fsync, Goto, TypeOK, File
<1>2. TypeOK'
  BY <1>0, <1>1 DEF Fsync, Goto, TypeOK, Files, Guarded, loads
<1>3. SaverInv(w)'
  BY <1>0, <1>1 DEF SaverInv, Guarded
<1>4. \A v \in Savers \ {w} : pc'[v] = pc[v] /\ temp'[v] = temp[v] /\ token'[v] = token[v]
  BY <1>0 DEF Fsync, Goto, TypeOK
<1> QED BY <1>1, <1>2, <1>3, <1>4, SaverStep DEF IInv

\* The file that takes the token's name is complete and on the disk: this is why
\* the fsync comes before the os.replace.
LEMMA ReplaceKeeps == ASSUME IInv, NEW w \in Savers, Replace(w) PROVE IInv'
<1>0. /\ TypeOK /\ SaverInv(w) /\ pc[w] = "replace" /\ temp[w] \in Sound
      /\ token[w] \in Tokens
  BY DEF IInv, SaverInv, Replace, Guarded, Sound, Files
<1>1. /\ pc'[w] = "return" /\ temp'[w] = NoFile /\ target' = temp[w]
      /\ UNCHANGED <<onDisk, token, loads, stray, faults>>
  BY <1>0 DEF Replace, Goto, TypeOK
<1>2. TypeOK'
  BY <1>0, <1>1 DEF Replace, Goto, TypeOK, Files, Guarded, loads
<1>3. SaverInv(w)'
  BY <1>0, <1>1 DEF SaverInv, Guarded
<1>4. \A v \in Savers \ {w} : pc'[v] = pc[v] /\ temp'[v] = temp[v] /\ token'[v] = token[v]
  BY <1>0 DEF Replace, Goto, TypeOK
<1> QED BY <1>0, <1>1, <1>2, <1>3, <1>4, SaverStep DEF IInv

LEMMA ReturnKeeps == ASSUME IInv, NEW w \in Savers, Return(w) PROVE IInv'
<1>0. TypeOK /\ SaverInv(w) /\ pc[w] = "return" /\ temp[w] = NoFile
  BY DEF IInv, SaverInv, Return
<1>1. /\ pc'[w] = "idle" /\ token'[w] = Nothing
      /\ UNCHANGED <<target, onDisk, temp, loads, stray, faults>>
  BY <1>0 DEF Return, Leave, Goto, TypeOK
<1>2. TypeOK'
  BY <1>0, <1>1 DEF Return, Leave, Goto, TypeOK, loads
<1>3. SaverInv(w)'
  BY <1>0, <1>1 DEF SaverInv, Guarded
<1>4. \A v \in Savers \ {w} : pc'[v] = pc[v] /\ temp'[v] = temp[v] /\ token'[v] = token[v]
  BY <1>0 DEF Return, Leave, Goto, TypeOK
<1> QED BY <1>1, <1>2, <1>3, <1>4, SaverStep DEF IInv

LEMMA ErrorKeeps == ASSUME IInv, NEW w \in Savers, Error(w) PROVE IInv'
<1>0. TypeOK /\ SaverInv(w) /\ pc[w] \in Guarded
  BY DEF IInv, Error
<1>1. /\ pc'[w] = "unlink"
      /\ UNCHANGED <<target, onDisk, temp, token, loads, stray, faults>>
  BY <1>0 DEF Error, Goto, TypeOK
<1>2. TypeOK'
  BY <1>0, <1>1 DEF Error, Goto, TypeOK, loads
<1>3. SaverInv(w)'
  BY <1>0, <1>1 DEF SaverInv, Guarded
<1>4. \A v \in Savers \ {w} : pc'[v] = pc[v] /\ temp'[v] = temp[v] /\ token'[v] = token[v]
  BY <1>0 DEF Error, Goto, TypeOK
<1> QED BY <1>1, <1>2, <1>3, <1>4, SaverStep DEF IInv

LEMMA UnlinkKeeps == ASSUME IInv, NEW w \in Savers, Unlink(w) PROVE IInv'
<1>0. TypeOK /\ SaverInv(w) /\ pc[w] = "unlink"
  BY DEF IInv, Unlink
<1>1. /\ pc'[w] = "idle" /\ token'[w] = Nothing /\ temp'[w] = NoFile
      /\ UNCHANGED <<target, onDisk, loads>>
  BY <1>0 DEF Unlink, Leave, Goto, TypeOK
<1>2. /\ stray' => faults' > 0
      /\ stray' \in BOOLEAN /\ faults' \in 0 .. MaxFaults
  <2>1. faults \in 0 .. MaxFaults /\ stray \in BOOLEAN /\ (stray => faults > 0)
    BY DEF IInv, TypeOK
  <2>2. CASE UNCHANGED <<stray, faults>>
    BY <2>1, <2>2
  <2>3. CASE faults < MaxFaults /\ faults' = faults + 1 /\ stray' = TRUE
    BY <2>1, <2>3, MaxFaultsAssumption
  <2> QED BY <2>2, <2>3 DEF Unlink
<1>3. TypeOK'
  BY <1>0, <1>1, <1>2 DEF Unlink, Leave, Goto, TypeOK, Files, loads
<1>4. SaverInv(w)'
  BY <1>0, <1>1 DEF SaverInv, Guarded
<1>5. \A v \in Savers \ {w} : pc'[v] = pc[v] /\ temp'[v] = temp[v] /\ token'[v] = token[v]
  BY <1>0 DEF Unlink, Leave, Goto, TypeOK
<1> QED BY <1>1, <1>2, <1>3, <1>4, <1>5, SaverStep DEF IInv

\* Steps that leave the savers alone.
LEMMA LoadStep ==
  ASSUME IInv, UNCHANGED <<target, temp, token, pc, stray, faults>>, onDisk' \in Sound,
         reading' \in SUBSET Loaders,
         handle' \in [Loaders -> Sound], loaded' \in [Loaders -> Sound]
  PROVE  IInv'
<1>1. TypeOK'
  BY DEF IInv, TypeOK, Sound
<1>2. \A w \in Savers : SaverInv(w)'
  BY DEF IInv, SaverInv
<1> QED BY <1>1, <1>2 DEF IInv

LEMMA LoadsTyped ==
  ASSUME IInv PROVE handle \in [Loaders -> Sound] /\ loaded \in [Loaders -> Sound]
  BY DEF IInv, TypeOK

LEMMA OpenKeeps == ASSUME IInv, NEW r \in Loaders, Open(r) PROVE IInv'
<1>1. handle' \in [Loaders -> Sound]
  BY LoadsTyped DEF Open, IInv
<1>2. loaded' \in [Loaders -> Sound] /\ reading' \in SUBSET Loaders
  BY LoadsTyped, NoFileSound DEF Open, IInv, TypeOK
<1>3. UNCHANGED <<target, temp, token, pc, stray, faults>> /\ onDisk' \in Sound
  BY DEF Open, IInv
<1> QED BY <1>1, <1>2, <1>3, LoadStep

LEMMA ReadKeeps == ASSUME IInv, NEW r \in Loaders, Read(r) PROVE IInv'
<1>1. handle' \in [Loaders -> Sound] /\ loaded' \in [Loaders -> Sound]
  BY LoadsTyped DEF Read
<1>2. reading' \in SUBSET Loaders
  BY DEF Read, IInv, TypeOK
<1>3. UNCHANGED <<target, temp, token, pc, stray, faults>> /\ onDisk' \in Sound
  BY DEF Read, IInv
<1> QED BY <1>1, <1>2, <1>3, LoadStep

LEMMA SettleKeeps == ASSUME IInv, Settle PROVE IInv'
<1>1. UNCHANGED <<target, temp, token, pc, stray, faults, loads>> /\ onDisk' \in Sound
  BY DEF Settle, IInv
<1>2. reading' \in SUBSET Loaders
  BY <1>1 DEF IInv, TypeOK, loads
<1> QED BY <1>1, <1>2, LoadsTyped, LoadStep DEF loads

LEMMA StopKeeps ==
  ASSUME IInv, NEW leaves \in SUBSET BOOLEAN, Stop(leaves),
         target' \in Sound, onDisk' \in Sound
  PROVE  IInv'
<1>1. faults' \in 0 .. MaxFaults /\ faults' > 0 /\ stray' \in BOOLEAN
  BY MaxFaultsAssumption DEF Stop, IInv, TypeOK
<1>2. TypeOK'
  BY <1>1, NoFileSound DEF Stop, IInv, TypeOK, Sound
<1>3. ASSUME NEW w \in Savers PROVE SaverInv(w)'
  <2>1. pc'[w] = "idle" /\ token'[w] = Nothing /\ temp'[w] = NoFile
    BY DEF Stop
  <2> QED BY <2>1 DEF SaverInv, Guarded
<1>4. \A r \in Loaders : handle'[r] \in Sound /\ loaded'[r] \in Sound
  BY DEF Stop, IInv
<1> QED BY <1>1, <1>2, <1>3, <1>4 DEF IInv

LEMMA CrashKeeps == ASSUME IInv, Crash PROVE IInv'
<1>1. {TempExists} \in SUBSET BOOLEAN
  BY DEF TempExists, IInv, TypeOK
<1>2. Stop({TempExists}) /\ target' \in Sound /\ onDisk' \in Sound
  BY DEF Crash, IInv
<1> QED BY <1>1, <1>2, StopKeeps

\* Nothing is lost of the file the disk names: its text was synced before.
LEMMA PowerLossKeeps == ASSUME IInv, PowerLoss PROVE IInv' /\ target' = onDisk
<1>1. onDisk \in Sound
  BY DEF IInv
<1>2. [onDisk EXCEPT !.complete = @ /\ onDisk.synced] = onDisk
  <2>1. onDisk.complete = TRUE /\ onDisk.synced = TRUE
    BY <1>1 DEF Sound, Files, File, NoFile
  <2>2. onDisk = [token |-> onDisk.token, complete |-> TRUE, synced |-> TRUE]
    BY <1>1, <2>1 DEF Sound, Files, File, NoFile
  <2> QED BY <2>1, <2>2
<1>3. target' = onDisk /\ onDisk' = onDisk
  BY <1>2 DEF PowerLoss
<1>4. {FALSE, TempExists} \in SUBSET BOOLEAN
  BY DEF TempExists, IInv, TypeOK
<1>5. Stop({FALSE, TempExists})
  BY DEF PowerLoss
<1> QED BY <1>1, <1>3, <1>4, <1>5, StopKeeps

LEMMA StutterKeeps == ASSUME IInv, UNCHANGED vars PROVE IInv'
<1>1. UNCHANGED <<target, temp, token, pc, stray, faults, loads>> /\ onDisk' \in Sound
  BY DEF vars, loads, IInv
<1>2. reading' \in SUBSET Loaders
  BY <1>1 DEF IInv, TypeOK, loads
<1> QED BY <1>1, <1>2, LoadsTyped, LoadStep DEF loads

LEMMA NextKeeps == ASSUME IInv, [Next]_vars PROVE IInv'
<1>1. ASSUME NEW w \in Savers, Step(w) PROVE IInv'
  BY <1>1, DumpKeeps, FsyncKeeps, ReplaceKeeps, ReturnKeeps, ErrorKeeps, UnlinkKeeps DEF Step
<1>2. ASSUME NEW w \in Savers, NEW t \in Tokens, Create(w, t) PROVE IInv'
  BY <1>2, CreateKeeps
<1>3. ASSUME NEW r \in Loaders, Open(r) \/ Read(r) PROVE IInv'
  BY <1>3, OpenKeeps, ReadKeeps
<1>4. CASE Settle \/ Crash \/ PowerLoss
  BY <1>4, SettleKeeps, CrashKeeps, PowerLossKeeps
<1>5. CASE UNCHANGED vars
  BY <1>5, StutterKeeps
<1> QED BY <1>1, <1>2, <1>3, <1>4, <1>5 DEF Next

LEMMA Invariance == Spec => []IInv
<1>1. Init => IInv
  BY InitInvariant
<1>2. IInv /\ [Next]_vars => IInv'
  BY NextKeeps
<1> QED BY <1>1, <1>2, PTL DEF Spec

-----------------------------------------------------------------------------
(* The safety theorems.                                                    *)

\* Every variable of the store stays in its type, however many threads save and
\* load and however many faults strike.
THEOREM StoreTypeCorrect == Spec => []TypeOK
<1>1. IInv => TypeOK
  BY DEF IInv
<1> QED BY <1>1, Invariance, PTL

\* The token path never names a truncated file, now or after a power loss, and no
\* load ever opened one: save writes, flushes and syncs before it renames.
THEOREM TokenIsNeverTorn == Spec => []NeverTorn
<1>1. IInv => NeverTorn
  BY DEF IInv, NeverTorn, Sound
<1> QED BY <1>1, Invariance, PTL

\* A temporary file no save owns was left by a crash or by a clean-up that failed:
\* the except clause of save removes every other one.
THEOREM StraysAreFaults == Spec => []StraysOnlyFromFaults
<1>1. ASSUME IInv PROVE StraysOnlyFromFaults
  <2>1. \A w \in Savers : pc[w] \in {"idle", "return"} \cup Guarded \cup {"unlink"}
    BY <1>1 DEF IInv, TypeOK
  <2>2. \A w \in Savers : temp[w] # NoFile => pc[w] \in Guarded \cup {"unlink"}
    BY <1>1, <2>1 DEF IInv, SaverInv
  <2> QED BY <1>1, <2>2 DEF IInv, StraysOnlyFromFaults
<1> QED BY <1>1, Invariance, PTL

-----------------------------------------------------------------------------
(* The implementation of TokenStore.                                       *)

LEMMA InitMapsToInit == ASSUME Init PROVE Store!Init
<1>1. target.token \in Store!Value
  <2>1. CASE target = NoFile
    BY <2>1 DEF NoFile, Store!Value
  <2>2. CASE target \in [token : Tokens, complete : {TRUE}, synced : {TRUE}]
    BY <2>2 DEF Store!Value
  <2> QED BY <2>1, <2>2 DEF Init
<1>2. [w \in Savers |-> Saving(w)] = [w \in Savers |-> Store!Idle]
  BY DEF Init, Saving, Store!Idle
<1>3. [r \in Loaders |-> handle[r].token] = [r \in Loaders |-> Nothing]
  BY DEF Init, NoFile
<1> QED BY <1>1, <1>2, <1>3 DEF Init, Store!Init

\* A step of one saver changes the mapped save of that saver only.
LEMMA OneSaver ==
  ASSUME IInv, NEW w \in Savers,
         \A v \in Savers \ {w} : pc'[v] = pc[v] /\ token'[v] = token[v]
  PROVE  [v \in Savers |-> Saving(v)]'
           = [[v \in Savers |-> Saving(v)] EXCEPT ![w] = Saving(w)']
<1>1. ASSUME NEW v \in Savers, v # w PROVE Saving(v)' = Saving(v)
  BY <1>1 DEF Saving
<1> QED BY <1>1

LEMMA CreateBegins ==
  ASSUME IInv, NEW w \in Savers, NEW t \in Tokens, Create(w, t) PROVE Store!Begin(w, t)
<1>0. TypeOK /\ pc[w] = "idle" /\ token[w] = Nothing
  BY DEF IInv, SaverInv, Create
<1>1. \A v \in Savers \ {w} : pc'[v] = pc[v] /\ token'[v] = token[v]
  BY <1>0 DEF Create, Goto, TypeOK
<1>2. pc'[w] = "dump" /\ token'[w] = t
  BY <1>0 DEF Create, Goto, TypeOK
<1>3. Saving(w) = Store!Idle
  BY <1>0 DEF Saving, Store!Idle
<1>4. Saving(w)' = [state |-> "pending", token |-> t]
  BY <1>2 DEF Saving
<1>5. UNCHANGED <<target, onDisk, handle>>
  BY DEF Create, loads
<1> QED BY <1>1, <1>3, <1>4, <1>5, OneSaver DEF Store!Begin

LEMMA ReplaceCommits == ASSUME IInv, NEW w \in Savers, Replace(w) PROVE Store!Commit(w)
<1>0. /\ TypeOK /\ pc[w] = "replace" /\ token[w] \in Tokens /\ temp[w].token = token[w]
  BY DEF IInv, SaverInv, Replace, Guarded
<1>1. \A v \in Savers \ {w} : pc'[v] = pc[v] /\ token'[v] = token[v]
  BY <1>0 DEF Replace, Goto, TypeOK
<1>2. pc'[w] = "return" /\ token'[w] = token[w]
  BY <1>0 DEF Replace, Goto, TypeOK
<1>3. Saving(w) = [state |-> "pending", token |-> token[w]]
  BY <1>0 DEF Saving
<1>4. Saving(w)' = [state |-> "stored", token |-> token[w]]
  BY <1>2 DEF Saving
<1>5. target'.token = token[w] /\ UNCHANGED <<onDisk, handle>>
  BY <1>0 DEF Replace, loads
<1> QED BY <1>1, <1>3, <1>4, <1>5, OneSaver DEF Store!Commit

LEMMA ReturnReturns == ASSUME IInv, NEW w \in Savers, Return(w) PROVE Store!Return(w)
<1>0. TypeOK /\ pc[w] = "return"
  BY DEF IInv, Return
<1>1. \A v \in Savers \ {w} : pc'[v] = pc[v] /\ token'[v] = token[v]
  BY <1>0 DEF Return, Leave, Goto, TypeOK
<1>2. pc'[w] = "idle" /\ token'[w] = Nothing
  BY <1>0 DEF Return, Leave, Goto, TypeOK
<1>3. Saving(w).state = "stored"
  BY <1>0 DEF Saving
<1>4. Saving(w)' = Store!Idle
  BY <1>2 DEF Saving, Store!Idle
<1>5. UNCHANGED <<target, onDisk, handle>>
  BY DEF Return, loads
<1> QED BY <1>1, <1>3, <1>4, <1>5, OneSaver DEF Store!Return

LEMMA UnlinkFails == ASSUME IInv, NEW w \in Savers, Unlink(w) PROVE Store!Fail(w)
<1>0. TypeOK /\ pc[w] = "unlink"
  BY DEF IInv, Unlink
<1>1. \A v \in Savers \ {w} : pc'[v] = pc[v] /\ token'[v] = token[v]
  BY <1>0 DEF Unlink, Leave, Goto, TypeOK
<1>2. pc'[w] = "idle" /\ token'[w] = Nothing
  BY <1>0 DEF Unlink, Leave, Goto, TypeOK
<1>3. Saving(w).state = "pending"
  BY <1>0 DEF Saving
<1>4. Saving(w)' = Store!Idle
  BY <1>2 DEF Saving, Store!Idle
<1>5. UNCHANGED <<target, onDisk, handle>>
  BY DEF Unlink, loads
<1> QED BY <1>1, <1>3, <1>4, <1>5, OneSaver DEF Store!Fail

\* Preparing the temporary file, and giving up on it, is invisible.
LEMMA PreparingIsInvisible ==
  ASSUME IInv, NEW w \in Savers, Dump(w) \/ Fsync(w) \/ Error(w)
  PROVE  UNCHANGED Store!vars
<1>0. TypeOK /\ pc[w] \in Guarded
  BY DEF IInv, Dump, Fsync, Error, Guarded
<1>1. \A v \in Savers \ {w} : pc'[v] = pc[v]
  BY <1>0 DEF Dump, Fsync, Error, Goto, TypeOK
<1>2. pc'[w] \in {"fsync", "replace", "unlink"}
  BY <1>0 DEF Dump, Fsync, Error, Goto, TypeOK
<1>3. UNCHANGED <<target, onDisk, token, handle>>
  BY DEF Dump, Fsync, Error, loads
<1>4. ASSUME NEW v \in Savers PROVE Saving(v)' = Saving(v)
  <2>1. CASE v = w
    BY <1>0, <1>2, <1>3, <2>1 DEF Saving, Guarded
  <2>2. CASE v # w
    BY <1>1, <1>3, <2>2 DEF Saving
  <2> QED BY <2>1, <2>2
<1> QED BY <1>3, <1>4 DEF Store!vars

LEMMA OpenLoads == ASSUME IInv, NEW r \in Loaders, Open(r) PROVE Store!Load(r)
<1>1. handle' = [handle EXCEPT ![r] = target] /\ UNCHANGED <<target, onDisk, pc, token>>
  BY DEF Open
<1>2. [q \in Loaders |-> handle[q].token]'
        = [[q \in Loaders |-> handle[q].token] EXCEPT ![r] = target.token]
  BY <1>1 DEF IInv, TypeOK
<1>3. UNCHANGED [w \in Savers |-> Saving(w)]
  BY <1>1 DEF Saving
<1> QED BY <1>1, <1>2, <1>3 DEF Store!Load

LEMMA StopStops == ASSUME NEW leaves, Stop(leaves) PROVE Store!Stop
<1>1. [w \in Savers |-> Saving(w)]' = [w \in Savers |-> Store!Idle]
  BY DEF Stop, Saving, Store!Idle
<1>2. UNCHANGED handle
  BY DEF Stop
<1> QED BY <1>1, <1>2 DEF Store!Stop

\* Every step of the file store is a step of the register, or invisible.
LEMMA StepMapsToStep == ASSUME IInv, [Next]_vars PROVE [Store!Next]_(Store!vars)
<1>1. ASSUME NEW w \in Savers, Step(w) PROVE [Store!Next]_(Store!vars)
  BY <1>1, ReplaceCommits, ReturnReturns, UnlinkFails, PreparingIsInvisible
     DEF Step, Store!Next
<1>2. ASSUME NEW w \in Savers, NEW t \in Tokens, Create(w, t) PROVE Store!Next
  BY <1>2, CreateBegins DEF Store!Next
<1>3. ASSUME NEW r \in Loaders, Open(r) PROVE Store!Next
  BY <1>3, OpenLoads DEF Store!Next
<1>4. ASSUME NEW r \in Loaders, Read(r) PROVE UNCHANGED Store!vars
  BY <1>4 DEF Read, Saving, Store!vars
<1>5. CASE Settle
  <2>1. onDisk'.token = target.token /\ UNCHANGED <<target, pc, token, handle>>
    BY <1>5 DEF Settle, loads
  <2> QED BY <2>1 DEF Saving, Store!Settle, Store!Next
<1>6. CASE Crash
  <2>1. Store!Stop /\ UNCHANGED <<target, onDisk>>
    BY <1>6, StopStops DEF Crash
  <2> QED BY <2>1 DEF Store!Crash, Store!Next
<1>7. CASE PowerLoss
  <2>1. Store!Stop /\ target' = onDisk /\ onDisk' = onDisk
    BY <1>7, StopStops, PowerLossKeeps DEF PowerLoss
  <2> QED BY <2>1 DEF Store!PowerLoss, Store!Next
<1>8. CASE UNCHANGED vars
  BY <1>8 DEF vars, loads, Saving, Store!vars
<1> QED BY <1>1, <1>2, <1>3, <1>4, <1>5, <1>6, <1>7, <1>8 DEF Next

\* FileTokenStore implements the register of TokenStore: an overwrite takes effect
\* as a whole at its os.replace or, when save raises, not at all; whatever else
\* happens to threads, process or machine, a load sees one of those values.
THEOREM FileImplementsRegister == Spec => ImplementsTokenStore
<1>1. Init => Store!Init
  BY InitMapsToInit
<1>2. IInv /\ [Next]_vars => [Store!Next]_(Store!vars)
  BY StepMapsToStep
<1> QED BY <1>1, <1>2, Invariance, PTL DEF Spec, ImplementsTokenStore, Store!Spec
=============================================================================
