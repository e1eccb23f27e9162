------------------------------ MODULE RoomFiles ------------------------------
(***************************************************************************)
(* How the client writes its files: securestore.MetadataStore and          *)
(* RoomCodeStore (room.json and room.code), and diagnostics.Writer (the    *)
(* diagnostic bundles and crash logs).  All four write a temporary file,   *)
(* flush it, close it and move it to its name; a deferred call removes it  *)
(* unless it was moved.                                                    *)
(*                                                                         *)
(* Every file system call is a step that may fail.  The application may be *)
(* killed between two, and the machine may lose power: what survives is    *)
(* what was flushed.  MoveFileEx is called with MOVEFILE_WRITE_THROUGH and *)
(* is on the disk when it returns; the os.Rename of a report and the       *)
(* os.Remove of a store are there some time later.                         *)
(*                                                                         *)
(* Values are abstract; what validation, DPAPI and JSON reject is an error *)
(* that Save and Load may return, or a value they do not know: "torn".     *)
(***************************************************************************)
EXTENDS Naturals

CONSTANTS
    Callers,    \* goroutines
    Stores,     \* files of the secure stores, each behind a mutex
    Reports,    \* names of bundles and crash logs, each used once
    Values,
    None,       \* no file, no caller, no value
    Faults,     \* a subset of {"io", "kill", "power"}
    MaxStops    \* bound on kills and losses of power

Names == Stores \cup Reports

ASSUME NamesApart == Stores \cap Reports = {}
ASSUME NoneIsFresh == None \notin Callers \cup Values \cup Names
ASSUME OutcomesAreNoValues ==
    {"none", "ok", "error", "torn"} \cap (Values \cup {None}) = {}
ASSUME MaxStopsIsNat == MaxStops \in Nat

VARIABLES
    file,    \* the directory, as the system shows it
    disk,    \* what a loss of power would leave of it
    mutex,   \* the holder of each store's mutex
    op, pc, result,   \* the calls under way
    temp,    \* the temporary file of a call: [there, value, flushed]
    used,    \* report names that were taken: a time stamp is not repeated
    stops

callVars == <<op, pc, result, temp>>
vars     == <<file, disk, mutex, callVars, used, stops>>

Contents == Values \cup {None, "torn"}
NoTemp   == [there |-> FALSE, value |-> None, flushed |-> FALSE]
Idle     == [kind |-> "none", name |-> None, value |-> None]

Ops == [kind : {"save"}, name : Names, value : Values]
           \cup [kind : {"load", "clear"}, name : Stores, value : {None}]

SaveSteps == {"create", "write", "flush", "close", "check", "replace"}

TypeOK ==
    /\ file \in [Names -> Contents]
    /\ disk \in [Names -> Contents]
    /\ mutex \in [Stores -> Callers \cup {None}]
    /\ op \in [Callers -> Ops \cup {Idle}]
    /\ pc \in [Callers -> SaveSteps \cup {"idle", "lock", "discard", "read",
                                          "remove", "return"}]
    /\ result \in [Callers -> Contents \cup {"none", "ok", "error"}]
    /\ temp \in [Callers -> [there : BOOLEAN, value : Contents, flushed : BOOLEAN]]
    /\ used \subseteq Reports
    /\ stops \in 0..MaxStops

Init ==
    /\ file = [n \in Names |-> None]
    /\ disk = file
    /\ mutex = [n \in Stores |-> None]
    /\ op = [c \in Callers |-> Idle]
    /\ pc = [c \in Callers |-> "idle"]
    /\ result = [c \in Callers |-> "none"]
    /\ temp = [c \in Callers |-> NoTemp]
    /\ used = {}
    /\ stops = 0

Goto(c, step) == pc' = [pc EXCEPT ![c] = step]
Answer(c, r)  == result' = [result EXCEPT ![c] = r]

-----------------------------------------------------------------------------
(* Calls, and the mutex of a store *)

FirstStep(kind) == CASE kind = "save"  -> "create"
                     [] kind = "load"  -> "read"
                     [] kind = "clear" -> "remove"

Call(c, o) ==
    /\ pc[c] = "idle"
    /\ o.name \notin used
    /\ op' = [op EXCEPT ![c] = o]
    /\ used' = used \cup ({o.name} \cap Reports)
    /\ Goto(c, IF o.name \in Stores THEN "lock" ELSE FirstStep(o.kind))
    /\ UNCHANGED <<file, disk, mutex, result, temp, stops>>

Lock(c) ==
    /\ pc[c] = "lock" /\ mutex[op[c].name] = None
    /\ mutex' = [mutex EXCEPT ![op[c].name] = c]
    /\ Goto(c, FirstStep(op[c].kind))
    /\ UNCHANGED <<file, disk, op, result, temp, used, stops>>

\* Unlock is deferred first and so runs last.
Return(c) ==
    /\ pc[c] = "return"
    /\ mutex' = [n \in Stores |-> IF mutex[n] = c THEN None ELSE mutex[n]]
    /\ op' = [op EXCEPT ![c] = Idle]
    /\ Answer(c, "none")
    /\ Goto(c, "idle")
    /\ UNCHANGED <<file, disk, temp, used, stops>>

-----------------------------------------------------------------------------
(* Save, Write and WriteLocalCrash *)

SetTemp(c, t) == temp' = [temp EXCEPT ![c] = t]

\* Mutant: a save that failed is tried again.
SaveTriesAgain(c) ==
    /\ pc[c] \in SaveSteps
    /\ "io" \in Faults
    /\ SetTemp(c, NoTemp)
    /\ Goto(c, "create")
    /\ UNCHANGED <<file, disk, mutex, op, result, used, stops>>

\* Every error of a save is followed by the deferred clean-up.
SaveFails(c) ==
    /\ pc[c] \in SaveSteps
    /\ "io" \in Faults
    /\ Answer(c, "error")
    /\ Goto(c, IF temp[c].there THEN "discard" ELSE "return")
    /\ UNCHANGED <<file, disk, mutex, op, temp, used, stops>>

\* MkdirAll, CreateTemp and Chmod: a name of its own in the same directory.
CreateTemp(c) ==
    /\ pc[c] = "create"
    /\ SetTemp(c, [NoTemp EXCEPT !.there = TRUE])
    /\ Goto(c, "write")
    /\ UNCHANGED <<file, disk, mutex, op, result, used, stops>>

\* A write that fails may have written a part.
WriteTemp(c) ==
    /\ pc[c] = "write"
    /\ \/ SetTemp(c, [temp[c] EXCEPT !.value = op[c].value]) /\ Goto(c, "flush")
          /\ UNCHANGED result
       \/ /\ "io" \in Faults
          /\ SetTemp(c, [temp[c] EXCEPT !.value = "torn"]) /\ Goto(c, "discard")
          /\ Answer(c, "error")
    /\ UNCHANGED <<file, disk, mutex, op, used, stops>>

\* Mutant: Sync is left out.
FlushSkipped(c) ==
    /\ pc[c] = "flush"
    /\ Goto(c, "close")
    /\ UNCHANGED <<file, disk, mutex, op, result, temp, used, stops>>

FlushTemp(c) ==
    /\ pc[c] = "flush"
    /\ SetTemp(c, [temp[c] EXCEPT !.flushed = TRUE])
    /\ Goto(c, "close")
    /\ UNCHANGED <<file, disk, mutex, op, result, used, stops>>

CloseTemp(c) ==
    /\ pc[c] = "close"
    /\ Goto(c, IF op[c].name \in Stores THEN "replace" ELSE "check")
    /\ UNCHANGED <<file, disk, mutex, op, result, temp, used, stops>>

\* A bundle is measured once it is complete; one that is too large is an error.
CheckSize(c) ==
    /\ pc[c] = "check"
    /\ \/ Goto(c, "replace") /\ UNCHANGED result
       \/ Goto(c, "discard") /\ Answer(c, "error")
    /\ UNCHANGED <<file, disk, mutex, op, temp, used, stops>>

OnDisk(c) == IF temp[c].flushed THEN temp[c].value ELSE "torn"

Replace(c) ==
    /\ pc[c] = "replace"
    /\ file' = [file EXCEPT ![op[c].name] = temp[c].value]
    /\ IF op[c].name \in Stores
       THEN disk' = [disk EXCEPT ![op[c].name] = OnDisk(c)]
       ELSE UNCHANGED disk
    /\ SetTemp(c, NoTemp)
    /\ Answer(c, "ok")
    /\ Goto(c, "return")
    /\ UNCHANGED <<mutex, op, used, stops>>

\* The deferred Close and Remove.  Their errors are dropped, and a temporary
\* file that is not removed, or was left by a call cut short, is never read.
Discard(c) ==
    /\ pc[c] = "discard"
    /\ SetTemp(c, NoTemp)
    /\ Goto(c, "return")
    /\ UNCHANGED <<file, disk, mutex, op, result, used, stops>>

-----------------------------------------------------------------------------
(* Load and Clear *)

\* Open, read, decode and validate; "torn" fails one of them.
Load(c) ==
    /\ pc[c] = "read"
    /\ \/ Answer(c, file[op[c].name])
       \/ "io" \in Faults /\ Answer(c, "error")
    /\ Goto(c, "return")
    /\ UNCHANGED <<file, disk, mutex, op, temp, used, stops>>

\* Removing a file that is not there is no error.
Clear(c) ==
    /\ pc[c] = "remove"
    /\ \/ file' = [file EXCEPT ![op[c].name] = None] /\ Answer(c, "ok")
       \/ "io" \in Faults /\ Answer(c, "error") /\ UNCHANGED file
    /\ Goto(c, "return")
    /\ UNCHANGED <<disk, mutex, op, temp, used, stops>>

-----------------------------------------------------------------------------
(* The system underneath *)

\* The directory is written back in its own time, its files' data with it.
WriteBack(n) ==
    /\ disk[n] # file[n]
    /\ disk' = [disk EXCEPT ![n] = file[n]]
    /\ UNCHANGED <<file, mutex, callVars, used, stops>>

Stopped ==
    /\ stops < MaxStops
    /\ stops' = stops + 1
    /\ mutex' = [n \in Stores |-> None]
    /\ op' = [c \in Callers |-> Idle]
    /\ pc' = [c \in Callers |-> "idle"]
    /\ result' = [c \in Callers |-> "none"]
    /\ temp' = [c \in Callers |-> NoTemp]
    /\ UNCHANGED used

Kill ==
    /\ "kill" \in Faults
    /\ Stopped
    /\ UNCHANGED <<file, disk>>

PowerLoss ==
    /\ "power" \in Faults
    /\ Stopped
    /\ file' = disk
    /\ UNCHANGED disk

-----------------------------------------------------------------------------
CallStep(c) ==
    \/ Lock(c) \/ Return(c) \/ SaveFails(c) \/ CreateTemp(c)
    \/ WriteTemp(c) \/ FlushTemp(c) \/ CloseTemp(c) \/ CheckSize(c)
    \/ Replace(c) \/ Discard(c) \/ Load(c) \/ Clear(c)

Next ==
    \/ \E c \in Callers : CallStep(c) \/ \E o \in Ops : Call(c, o)
    \/ \E n \in Names : WriteBack(n)
    \/ Kill \/ PowerLoss

\* A call runs on; a Go mutex is handed on to whoever waits for it.
Fairness == \A c \in Callers : WF_vars(CallStep(c) /\ ~Lock(c)) /\ SF_vars(Lock(c))

Spec     == Init /\ [][Next]_vars
FairSpec == Spec /\ Fairness

-----------------------------------------------------------------------------
(* Properties *)

\* Stores and reports behave as files that change in one piece: through
\* failures, kills and losses of power, and for callers that run side by side.
StageOf(c) == CASE pc[c] = "idle"                  -> "idle"
                [] pc[c] \in {"discard", "return"} -> "done"
                [] OTHER                           -> "pending"

Abstract == INSTANCE AtomicFiles WITH
    cell <- file, kept <- disk, stage <- [c \in Callers |-> StageOf(c)]

WritesAreAtomic == Abstract!Spec

\* Every call returns, whoever else uses the store.
CallsReturn == \A c \in Callers : pc[c] # "idle" ~> pc[c] = "idle"

-----------------------------------------------------------------------------
(* The inductive invariant *)

\* A call that is inside a store holds its mutex.
MutexHeld ==
    /\ \A c \in Callers :
           /\ pc[c] = "idle" <=> op[c] = Idle
           /\ pc[c] \notin {"idle", "lock"} /\ op[c].name \in Stores
                  => mutex[op[c].name] = c
           /\ pc[c] = "lock" => op[c].name \in Stores
    /\ \A n \in Stores : mutex[n] # None =>
           op[mutex[n]].name = n /\ pc[mutex[n]] \notin {"idle", "lock"}

\* Where a call is tells what its temporary file holds.
TempsWhole ==
    \A c \in Callers :
        /\ temp[c].there <=> pc[c] \in (SaveSteps \ {"create"}) \cup {"discard"}
        /\ pc[c] \in {"flush", "close", "check", "replace"} =>
               temp[c].value = op[c].value
        /\ pc[c] \in {"close", "check", "replace"} => temp[c].flushed

KindsOfSteps ==
    \A c \in Callers :
        /\ pc[c] \in SaveSteps \cup {"discard"} => op[c].kind = "save"
        /\ pc[c] = "read" => op[c].kind = "load"
        /\ pc[c] = "remove" => op[c].kind = "clear"
        /\ pc[c] \in SaveSteps \cup {"lock", "idle", "read", "remove"}
               => result[c] = "none"
        /\ pc[c] = "discard" => result[c] = "error"

NothingTorn == \A n \in Names : file[n] # "torn" /\ disk[n] # "torn"

FilesInv == TypeOK /\ MutexHeld /\ TempsWhole /\ KindsOfSteps /\ NothingTorn
=============================================================================
