--------------------------- MODULE RoomFilesProofs ---------------------------
(***************************************************************************)
(* The client's files change in one piece, for every set of callers,       *)
(* stores, reports and values, and through every failure the model knows.  *)
(***************************************************************************)
EXTENDS RoomFiles, TLAPS

USE NamesApart, NoneIsFresh, OutcomesAreNoValues, MaxStopsIsNat

-----------------------------------------------------------------------------
(* The inductive invariant *)

LEMMA InitFiles == Init => FilesInv
  BY SMTT(30) DEF Init, FilesInv, TypeOK, MutexHeld, TempsWhole, KindsOfSteps, NothingTorn,
         Contents, NoTemp, Idle, Ops, SaveSteps, Names

LEMMA CallKeeps ==
  ASSUME FilesInv, NEW c \in Callers, NEW o \in Ops, Call(c, o)
  PROVE  FilesInv'
<1> USE DEF FilesInv, Call, Goto, FirstStep
<1>1. TypeOK' BY DEF TypeOK, SaveSteps, Ops, Names
<1>2. MutexHeld' BY DEF TypeOK, MutexHeld, SaveSteps, Ops, Idle, Names
<1>3. TempsWhole' BY DEF TypeOK, TempsWhole, SaveSteps, Ops, Idle
<1>4. KindsOfSteps' BY DEF TypeOK, KindsOfSteps, SaveSteps, Ops, Idle
<1>5. NothingTorn' BY DEF NothingTorn
<1> QED BY <1>1, <1>2, <1>3, <1>4, <1>5

LEMMA SaveFailsKeeps ==
  ASSUME FilesInv, NEW c \in Callers, SaveFails(c)
  PROVE  FilesInv'
<1> USE DEF FilesInv, SaveFails, Goto, Answer
<1>1. TypeOK' BY DEF TypeOK, SaveSteps
<1>2. MutexHeld' BY DEF TypeOK, MutexHeld, SaveSteps
<1>3. TempsWhole' BY DEF TypeOK, TempsWhole, SaveSteps
<1>4. KindsOfSteps' BY DEF TypeOK, KindsOfSteps, SaveSteps
<1>5. NothingTorn' BY DEF NothingTorn
<1> QED BY <1>1, <1>2, <1>3, <1>4, <1>5

LEMMA WriteTempKeeps ==
  ASSUME FilesInv, NEW c \in Callers, WriteTemp(c)
  PROVE  FilesInv'
<1> USE DEF FilesInv, WriteTemp, Goto, Answer, SetTemp
<1>0. op[c].value \in Contents /\ temp[c] \in [there : BOOLEAN, value : Contents, flushed : BOOLEAN]
  BY DEF TypeOK, MutexHeld, SaveSteps, Contents, Ops
<1>1. TypeOK'
  <2>1. \E v \in Contents : temp' = [temp EXCEPT ![c] = [temp[c] EXCEPT !.value = v]]
    BY <1>0 DEF Contents
  <2>2. temp' \in [Callers -> [there : BOOLEAN, value : Contents, flushed : BOOLEAN]]
    <3>1. ASSUME NEW v \in Contents
          PROVE  [temp[c] EXCEPT !.value = v] \in [there : BOOLEAN, value : Contents, flushed : BOOLEAN]
      BY <1>0, Zenon
    <3>2. temp \in [Callers -> [there : BOOLEAN, value : Contents, flushed : BOOLEAN]]
      BY DEF TypeOK
    <3> QED BY <2>1, <3>1, <3>2, Zenon
  <2> QED BY <2>2 DEF TypeOK, SaveSteps
<1>2. MutexHeld' BY DEF TypeOK, MutexHeld, SaveSteps
<1>3. TempsWhole' BY DEF TypeOK, TempsWhole, SaveSteps
<1>4. KindsOfSteps' BY DEF TypeOK, KindsOfSteps, SaveSteps
<1>5. NothingTorn' BY DEF NothingTorn
<1> QED BY <1>1, <1>2, <1>3, <1>4, <1>5

\* What is moved is the whole value, and it is flushed.
LEMMA ReplaceIsWhole ==
  ASSUME FilesInv, NEW c \in Callers, pc[c] = "replace"
  PROVE  /\ op[c].kind = "save" /\ op[c].value \in Values /\ op[c].name \in Names
         /\ temp[c].value = op[c].value
         /\ OnDisk(c) = op[c].value
<1>1. op[c] \in Ops /\ op[c].kind = "save"
  BY DEF FilesInv, TypeOK, MutexHeld, KindsOfSteps, SaveSteps
<1> QED BY <1>1 DEF FilesInv, TempsWhole, OnDisk, Ops

LEMMA ReplaceKeeps ==
  ASSUME FilesInv, NEW c \in Callers, Replace(c)
  PROVE  FilesInv'
<1>0. /\ pc[c] = "replace" /\ op[c].value \in Values /\ op[c].name \in Names
      /\ file' = [file EXCEPT ![op[c].name] = op[c].value]
      /\ disk' = [disk EXCEPT ![op[c].name] = op[c].value] \/ disk' = disk
      /\ temp' = [temp EXCEPT ![c] = NoTemp]
      /\ result' = [result EXCEPT ![c] = "ok"]
      /\ pc' = [pc EXCEPT ![c] = "return"]
      /\ UNCHANGED <<mutex, op, used, stops>>
  BY ReplaceIsWhole DEF Replace, Goto, Answer, SetTemp
<1> USE <1>0 DEF FilesInv
<1>1. TypeOK'
  <2>1. file' \in [Names -> Contents] /\ disk' \in [Names -> Contents]
    BY DEF TypeOK, Contents
  <2> QED BY <2>1 DEF TypeOK, Contents, NoTemp
<1>2. MutexHeld' BY DEF TypeOK, MutexHeld, SaveSteps
<1>3. TempsWhole' BY DEF TypeOK, TempsWhole, SaveSteps, NoTemp
<1>4. KindsOfSteps' BY DEF TypeOK, KindsOfSteps, SaveSteps
<1>5. NothingTorn' BY DEF NothingTorn, TypeOK
<1> QED BY <1>1, <1>2, <1>3, <1>4, <1>5

LEMMA LockKeeps ==
  ASSUME FilesInv, NEW c \in Callers, Lock(c)
  PROVE  FilesInv'
<1>0. op[c] \in Ops /\ op[c].kind \in {"save", "load", "clear"}
  BY DEF FilesInv, Lock, TypeOK, MutexHeld, Ops
<1>a. pc'[c] \in {"create", "read", "remove"}
  BY <1>0 DEF FilesInv, Lock, Goto, FirstStep, TypeOK
<1> USE <1>0, <1>a DEF FilesInv, Lock, Goto, FirstStep
<1>1. TypeOK' BY DEF TypeOK, SaveSteps, Contents, NoTemp, Idle
<1>2. MutexHeld' BY DEF TypeOK, MutexHeld, SaveSteps, Idle, Ops
<1>3. TempsWhole' BY DEF TypeOK, TempsWhole, SaveSteps, NoTemp
<1>4. KindsOfSteps' BY DEF TypeOK, KindsOfSteps, SaveSteps
<1>5. NothingTorn' BY DEF TypeOK, NothingTorn
<1> QED BY <1>1, <1>2, <1>3, <1>4, <1>5

LEMMA ReturnKeeps ==
  ASSUME FilesInv, NEW c \in Callers, Return(c)
  PROVE  FilesInv'
<1> USE DEF FilesInv, Return, Goto, Answer
<1>1. TypeOK' BY DEF TypeOK, SaveSteps, Contents, NoTemp, Idle
<1>2. MutexHeld' BY DEF TypeOK, MutexHeld, SaveSteps, Idle, Ops
<1>3. TempsWhole' BY DEF TypeOK, TempsWhole, SaveSteps, NoTemp
<1>4. KindsOfSteps' BY DEF TypeOK, KindsOfSteps, SaveSteps
<1>5. NothingTorn' BY DEF TypeOK, NothingTorn
<1> QED BY <1>1, <1>2, <1>3, <1>4, <1>5

LEMMA CreateTempKeeps ==
  ASSUME FilesInv, NEW c \in Callers, CreateTemp(c)
  PROVE  FilesInv'
<1> USE DEF FilesInv, CreateTemp, Goto, SetTemp
<1>1. TypeOK' BY DEF TypeOK, SaveSteps, Contents, NoTemp, Idle
<1>2. MutexHeld' BY DEF TypeOK, MutexHeld, SaveSteps, Idle, Ops
<1>3. TempsWhole' BY DEF TypeOK, TempsWhole, SaveSteps, NoTemp
<1>4. KindsOfSteps' BY DEF TypeOK, KindsOfSteps, SaveSteps
<1>5. NothingTorn' BY DEF TypeOK, NothingTorn
<1> QED BY <1>1, <1>2, <1>3, <1>4, <1>5

LEMMA FlushTempKeeps ==
  ASSUME FilesInv, NEW c \in Callers, FlushTemp(c)
  PROVE  FilesInv'
<1> USE DEF FilesInv, FlushTemp, Goto, SetTemp
<1>1. TypeOK' BY DEF TypeOK, SaveSteps, Contents, NoTemp, Idle
<1>2. MutexHeld' BY DEF TypeOK, MutexHeld, SaveSteps, Idle, Ops
<1>3. TempsWhole' BY DEF TypeOK, TempsWhole, SaveSteps, NoTemp
<1>4. KindsOfSteps' BY DEF TypeOK, KindsOfSteps, SaveSteps
<1>5. NothingTorn' BY DEF TypeOK, NothingTorn
<1> QED BY <1>1, <1>2, <1>3, <1>4, <1>5

LEMMA CloseTempKeeps ==
  ASSUME FilesInv, NEW c \in Callers, CloseTemp(c)
  PROVE  FilesInv'
<1> USE DEF FilesInv, CloseTemp, Goto
<1>1. TypeOK' BY DEF TypeOK, SaveSteps, Contents, NoTemp, Idle
<1>2. MutexHeld' BY DEF TypeOK, MutexHeld, SaveSteps, Idle, Ops
<1>3. TempsWhole' BY DEF TypeOK, TempsWhole, SaveSteps, NoTemp
<1>4. KindsOfSteps' BY DEF TypeOK, KindsOfSteps, SaveSteps
<1>5. NothingTorn' BY DEF TypeOK, NothingTorn
<1> QED BY <1>1, <1>2, <1>3, <1>4, <1>5

LEMMA CheckSizeKeeps ==
  ASSUME FilesInv, NEW c \in Callers, CheckSize(c)
  PROVE  FilesInv'
<1> USE DEF FilesInv, CheckSize, Goto, Answer
<1>1. TypeOK' BY DEF TypeOK, SaveSteps, Contents, NoTemp, Idle
<1>2. MutexHeld' BY DEF TypeOK, MutexHeld, SaveSteps, Idle, Ops
<1>3. TempsWhole' BY DEF TypeOK, TempsWhole, SaveSteps, NoTemp
<1>4. KindsOfSteps' BY DEF TypeOK, KindsOfSteps, SaveSteps
<1>5. NothingTorn' BY DEF TypeOK, NothingTorn
<1> QED BY <1>1, <1>2, <1>3, <1>4, <1>5

LEMMA DiscardKeeps ==
  ASSUME FilesInv, NEW c \in Callers, Discard(c)
  PROVE  FilesInv'
<1> USE DEF FilesInv, Discard, Goto, SetTemp
<1>1. TypeOK' BY DEF TypeOK, SaveSteps, Contents, NoTemp, Idle
<1>2. MutexHeld' BY DEF TypeOK, MutexHeld, SaveSteps, Idle, Ops
<1>3. TempsWhole' BY DEF TypeOK, TempsWhole, SaveSteps, NoTemp
<1>4. KindsOfSteps' BY DEF TypeOK, KindsOfSteps, SaveSteps
<1>5. NothingTorn' BY DEF TypeOK, NothingTorn
<1> QED BY <1>1, <1>2, <1>3, <1>4, <1>5

LEMMA LoadKeeps ==
  ASSUME FilesInv, NEW c \in Callers, Load(c)
  PROVE  FilesInv'
<1>0. file[op[c].name] \in Contents
  BY DEF FilesInv, Load, TypeOK, MutexHeld, Ops, Names, SaveSteps
<1> USE <1>0 DEF FilesInv, Load, Goto, Answer
<1>1. TypeOK' BY DEF TypeOK, SaveSteps, Contents, NoTemp, Idle
<1>2. MutexHeld' BY DEF TypeOK, MutexHeld, SaveSteps, Idle, Ops
<1>3. TempsWhole' BY DEF TypeOK, TempsWhole, SaveSteps, NoTemp
<1>4. KindsOfSteps' BY DEF TypeOK, KindsOfSteps, SaveSteps
<1>5. NothingTorn' BY DEF TypeOK, NothingTorn
<1> QED BY <1>1, <1>2, <1>3, <1>4, <1>5

LEMMA ClearKeeps ==
  ASSUME FilesInv, NEW c \in Callers, Clear(c)
  PROVE  FilesInv'
<1> USE DEF FilesInv, Clear, Goto, Answer
<1>1. TypeOK' BY DEF TypeOK, SaveSteps, Contents, NoTemp, Idle
<1>2. MutexHeld' BY DEF TypeOK, MutexHeld, SaveSteps, Idle, Ops
<1>3. TempsWhole' BY DEF TypeOK, TempsWhole, SaveSteps, NoTemp
<1>4. KindsOfSteps' BY DEF TypeOK, KindsOfSteps, SaveSteps
<1>5. NothingTorn' BY DEF TypeOK, NothingTorn
<1> QED BY <1>1, <1>2, <1>3, <1>4, <1>5

LEMMA WriteBackKeeps ==
  ASSUME FilesInv, NEW n \in Names, WriteBack(n)
  PROVE  FilesInv'
<1>1. disk' \in [Names -> Contents] /\ NothingTorn'
  BY DEF FilesInv, TypeOK, NothingTorn, WriteBack
<1> QED
  BY <1>1 DEF WriteBack, callVars, FilesInv, TypeOK, MutexHeld, TempsWhole, KindsOfSteps

LEMMA StopKeeps ==
  ASSUME FilesInv, Kill \/ PowerLoss
  PROVE  FilesInv'
<1> USE DEF FilesInv, Stopped
<1>0. Stopped /\ UNCHANGED disk /\ (file' = file \/ file' = disk)
  BY DEF Kill, PowerLoss
<1>1. TypeOK' BY <1>0 DEF TypeOK, NoTemp, Contents
<1>2. MutexHeld' BY <1>0 DEF TypeOK, MutexHeld, SaveSteps
<1>3. TempsWhole' BY <1>0 DEF TypeOK, TempsWhole, SaveSteps, NoTemp
<1>4. KindsOfSteps' BY <1>0 DEF TypeOK, KindsOfSteps, SaveSteps
<1>5. NothingTorn' BY <1>0 DEF NothingTorn
<1> QED BY <1>1, <1>2, <1>3, <1>4, <1>5

LEMMA NextFiles == FilesInv /\ [Next]_vars => FilesInv'
<1> SUFFICES ASSUME FilesInv, [Next]_vars PROVE FilesInv'
  OBVIOUS
<1>1. ASSUME NEW c \in Callers, CallStep(c) PROVE FilesInv'
  BY <1>1, LockKeeps, ReturnKeeps, SaveFailsKeeps, CreateTempKeeps, WriteTempKeeps,
     FlushTempKeeps, CloseTempKeeps, CheckSizeKeeps, ReplaceKeeps, DiscardKeeps,
     LoadKeeps, ClearKeeps, Zenon DEF CallStep
<1>2. CASE UNCHANGED vars
  BY <1>2 DEF vars, callVars, FilesInv, TypeOK, MutexHeld, TempsWhole, KindsOfSteps, NothingTorn
<1> QED
  BY <1>1, <1>2, CallKeeps, WriteBackKeeps, StopKeeps, Zenon DEF Next

\* The mutexes exclude, a temporary file is whole before it is moved, and no
\* file is ever torn (MetadataStore.Save, RoomCodeStore.Save, Writer.Write).
THEOREM FilesInvariant == Spec => []FilesInv
  BY InitFiles, NextFiles, PTL DEF Spec

-----------------------------------------------------------------------------
(* The steps of the abstract specification *)

StageAt(step) == CASE step = "idle"                  -> "idle"
                   [] step \in {"discard", "return"} -> "done"
                   [] OTHER                          -> "pending"

Stages == [c \in Callers |-> StageOf(c)]

LEMMA StageMoves ==
  ASSUME TypeOK, NEW c \in Callers, NEW step, Goto(c, step)
  PROVE  /\ Stages' = [Stages EXCEPT ![c] = StageAt(step)]
         /\ StageAt(step) = StageAt(pc[c]) => Stages' = Stages
         /\ Stages[c] = StageAt(pc[c])
<1>1. \A d \in Callers : StageOf(d) = StageAt(pc[d]) /\ StageOf(d)' = StageAt(pc'[d])
  BY DEF StageOf, StageAt
<1>2. pc' = [pc EXCEPT ![c] = step] /\ pc \in [Callers -> SaveSteps \cup {"idle", "lock", "discard", "read", "remove", "return"}]
  BY DEF TypeOK, Goto
<1> QED BY <1>1, <1>2, Zenon DEF Stages

\* A call that is past its lock is pending, until it fails or takes effect.
LEMMA PendingSteps ==
  \A step \in SaveSteps \cup {"lock", "read", "remove"} : StageAt(step) = "pending"
  BY DEF StageAt, SaveSteps

\* A step inside a call that nobody outside it sees.
LEMMA Unseen ==
  ASSUME TypeOK, NEW c \in Callers, NEW step, Goto(c, step),
         StageAt(step) = StageAt(pc[c]), UNCHANGED <<file, disk, op, result>>
  PROVE  UNCHANGED Abstract!vars
BY StageMoves DEF Abstract!vars, Stages

\* The moment at which a call takes effect, or fails.
LEMMA CallEndsOnce ==
  ASSUME TypeOK, NEW c \in Callers, NEW step \in {"discard", "return"}, NEW r,
         pc[c] \in SaveSteps \cup {"read", "remove"},
         Goto(c, step), Answer(c, r), UNCHANGED op
  PROVE  Abstract!Ends(c, r)
<1>1. StageAt(step) = "done" /\ StageAt(pc[c]) = "pending"
  BY PendingSteps DEF StageAt
<1> QED
  BY <1>1, StageMoves DEF Abstract!Ends, Stages, Answer

LEMMA StepRefines ==
  ASSUME FilesInv, NEW c \in Callers, CallStep(c)
  PROVE  [Abstract!Next]_Abstract!vars
<1> USE DEF FilesInv
<1>1. ASSUME Lock(c) \/ CreateTemp(c) \/ FlushTemp(c) \/ CloseTemp(c) \/ Discard(c)
      PROVE  UNCHANGED Abstract!vars
  <2>1. PICK step : Goto(c, step) /\ StageAt(step) = StageAt(pc[c])
    <3>1. CASE Lock(c)
      <4>1. FirstStep(op[c].kind) \in {"create", "read", "remove"} /\ pc[c] = "lock"
        BY <3>1 DEF Lock, TypeOK, MutexHeld, Ops, FirstStep
      <4> QED BY <3>1, <4>1 DEF Lock, StageAt
    <3>2. CASE CreateTemp(c) BY <3>2 DEF CreateTemp, StageAt
    <3>3. CASE FlushTemp(c)  BY <3>3 DEF FlushTemp, StageAt
    <3>4. CASE CloseTemp(c)  BY <3>4 DEF CloseTemp, StageAt
    <3>5. CASE Discard(c)    BY <3>5 DEF Discard, StageAt
    <3> QED BY <1>1, <3>1, <3>2, <3>3, <3>4, <3>5
  <2>2. UNCHANGED <<file, disk, op, result>>
    BY <1>1 DEF Lock, CreateTemp, FlushTemp, CloseTemp, Discard
  <2> QED BY <2>1, <2>2, Unseen
<1>2. ASSUME SaveFails(c)
      PROVE  Abstract!Fail(c)
  <2>1. Abstract!Ends(c, "error")
    BY <1>2, CallEndsOnce DEF SaveFails
  <2> QED BY <1>2, <2>1 DEF SaveFails, Abstract!Fail
<1>3. ASSUME WriteTemp(c) \/ CheckSize(c)
      PROVE  Abstract!Fail(c) \/ UNCHANGED Abstract!vars
  <2>0. UNCHANGED <<file, disk, op>> /\ pc[c] \in SaveSteps
    BY <1>3 DEF WriteTemp, CheckSize, SaveSteps
  <2>1. CASE Answer(c, "error") /\ Goto(c, "discard")
    <3>1. Abstract!Ends(c, "error")
      BY <2>0, <2>1, CallEndsOnce
    <3> QED BY <3>1, <2>0 DEF Abstract!Fail
  <2>2. CASE UNCHANGED result /\ \E step \in SaveSteps : Goto(c, step)
    <3>1. PICK step \in SaveSteps : Goto(c, step)
      BY <2>2
    <3>2. StageAt(step) = StageAt(pc[c])
      BY <2>0, PendingSteps
    <3> QED BY <2>0, <2>2, <3>1, <3>2, Unseen
  <2> QED BY <1>3, <2>1, <2>2 DEF WriteTemp, CheckSize, SaveSteps
<1>4. ASSUME Replace(c)
      PROVE  Abstract!Save(c)
  <2>1. Abstract!Ends(c, "ok")
    BY <1>4, CallEndsOnce DEF Replace, SaveSteps
  <2>2. pc[c] = "replace"
    BY <1>4 DEF Replace
  <2> QED BY <1>4, <2>1, <2>2, ReplaceIsWhole DEF Replace, Abstract!Save, Names
<1>5. ASSUME Load(c)
      PROVE  Abstract!Load(c) \/ Abstract!Fail(c)
  <2>1. op[c].kind = "load" /\ UNCHANGED <<file, disk>>
    BY <1>5 DEF Load, KindsOfSteps
  <2>2. Abstract!Ends(c, file[op[c].name]) \/ Abstract!Ends(c, "error")
    BY <1>5, CallEndsOnce DEF Load
  <2> QED BY <2>1, <2>2 DEF Abstract!Load, Abstract!Fail
<1>6. ASSUME Clear(c)
      PROVE  Abstract!Clear(c) \/ Abstract!Fail(c)
  <2>1. op[c].kind = "clear" /\ UNCHANGED disk
    BY <1>6 DEF Clear, KindsOfSteps
  <2>2. \/ Abstract!Ends(c, "ok") /\ file' = [file EXCEPT ![op[c].name] = None]
        \/ Abstract!Ends(c, "error") /\ UNCHANGED file
    BY <1>6, CallEndsOnce DEF Clear
  <2> QED BY <2>1, <2>2 DEF Abstract!Clear, Abstract!Fail
<1>7. ASSUME Return(c)
      PROVE  Abstract!Return(c)
  <2>1. StageAt("return") = "done" /\ StageAt("idle") = "idle"
    BY DEF StageAt
  <2>2. Stages[c] = "done" /\ Stages' = [Stages EXCEPT ![c] = "idle"]
    BY <1>7, <2>1, StageMoves DEF Return
  <2> QED BY <1>7, <2>2 DEF Return, Answer, Abstract!Return, Abstract!Idle, Idle, Stages
<1> QED
  BY <1>1, <1>2, <1>3, <1>4, <1>5, <1>6, <1>7, Zenon DEF CallStep, Abstract!Next

LEMMA CallRefines ==
  ASSUME FilesInv, NEW c \in Callers, NEW o \in Ops, Call(c, o)
  PROVE  Abstract!Invoke(c, o)
<1>1. PICK step \in {"lock", "create", "read", "remove"} : Goto(c, step)
  BY DEF Call, FirstStep, Ops
<1>2. StageAt(pc[c]) = "idle" /\ StageAt(step) = "pending"
  BY PendingSteps DEF Call, StageAt, SaveSteps
<1>3. Stages[c] = "idle" /\ Stages' = [Stages EXCEPT ![c] = "pending"]
  BY <1>1, <1>2, StageMoves DEF FilesInv
<1> QED BY <1>3 DEF Call, Abstract!Invoke, Stages

LEMMA SystemRefines ==
  ASSUME FilesInv, Kill \/ PowerLoss \/ \E n \in Names : WriteBack(n)
  PROVE  Abstract!Next
<1>1. ASSUME Kill \/ PowerLoss
      PROVE  Abstract!Stop
  <2>1. Stages' = [c \in Callers |-> "idle"]
    BY <1>1 DEF Kill, PowerLoss, Stopped, Stages, StageOf
  <2> QED
    BY <1>1, <2>1 DEF Kill, PowerLoss, Stopped, Stages, Abstract!Stop, Abstract!Idle, Idle
<1>2. ASSUME NEW n \in Names, WriteBack(n)
      PROVE  Abstract!Flush(n)
  <2>1. Stages' = Stages
    BY <1>2 DEF WriteBack, callVars, Stages, StageOf
  <2> QED BY <1>2, <2>1 DEF WriteBack, callVars, Stages, Abstract!Flush
<1> QED BY <1>1, <1>2, Zenon DEF Abstract!Next, Abstract!Names, Names

\* Every step of a store or a report is a step of files that change in one
\* piece, or is not seen at all.
LEMMA NextRefines == FilesInv /\ [Next]_vars => [Abstract!Next]_Abstract!vars
<1> SUFFICES ASSUME FilesInv, [Next]_vars PROVE [Abstract!Next]_Abstract!vars
  OBVIOUS
<1>1. ASSUME NEW c \in Callers, NEW o \in Ops, Call(c, o)
      PROVE  Abstract!Next
  <2>1. Abstract!Ops = Ops
    BY DEF Abstract!Ops, Ops, Abstract!Names, Names
  <2> QED BY <1>1, <2>1, CallRefines, Zenon DEF Abstract!Next
<1>2. CASE UNCHANGED vars
  BY <1>2 DEF vars, callVars, Abstract!vars, StageOf
<1> QED
  BY <1>1, <1>2, StepRefines, SystemRefines, Zenon DEF Next

\* MetadataStore, RoomCodeStore and Writer keep their promise: a call takes
\* effect in one moment or not at all, and a saved room survives a loss of power.
THEOREM FilesAreAtomic == Spec => WritesAreAtomic
<1>1. Init => Abstract!Init
  BY DEF Init, Abstract!Init, Abstract!Names, Names, Abstract!Idle, Idle, StageOf
<1> QED
  BY <1>1, NextRefines, FilesInvariant, PTL DEF Spec, WritesAreAtomic, Abstract!Spec

=============================================================================
