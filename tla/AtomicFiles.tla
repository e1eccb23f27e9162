----------------------------- MODULE AtomicFiles -----------------------------
(***************************************************************************)
(* What callers of the secure stores and of the diagnostics writer rely    *)
(* on: a call takes effect at one moment between its start and its return  *)
(* or, if it fails, not at all.  A file is absent or holds a whole value.  *)
(*                                                                         *)
(* cell is what is read; kept is what a loss of power would leave of it.   *)
(***************************************************************************)
CONSTANTS Callers, Stores, Reports, Values, None

Names == Stores \cup Reports

VARIABLES
    cell, kept,
    op,       \* what a caller asked for: [kind, name, value]
    stage,    \* "idle", "pending" or "done"
    result    \* "none", "ok", "error" or the value of a load

vars == <<cell, kept, op, stage, result>>

Idle == [kind |-> "none", name |-> None, value |-> None]

Ops == [kind : {"save"}, name : Names, value : Values]
           \cup [kind : {"load", "clear"}, name : Stores, value : {None}]

Init ==
    /\ cell = [n \in Names |-> None]
    /\ kept = cell
    /\ op = [c \in Callers |-> Idle]
    /\ stage = [c \in Callers |-> "idle"]
    /\ result = [c \in Callers |-> "none"]

Invoke(c, o) ==
    /\ stage[c] = "idle"
    /\ op' = [op EXCEPT ![c] = o]
    /\ stage' = [stage EXCEPT ![c] = "pending"]
    /\ UNCHANGED <<cell, kept, result>>

Ends(c, r) ==
    /\ stage[c] = "pending"
    /\ stage' = [stage EXCEPT ![c] = "done"]
    /\ result' = [result EXCEPT ![c] = r]
    /\ UNCHANGED op

\* A saved room is on the disk when Save returns, a report need not be.
Save(c) ==
    /\ op[c].kind = "save"
    /\ cell' = [cell EXCEPT ![op[c].name] = op[c].value]
    /\ \/ kept' = [kept EXCEPT ![op[c].name] = op[c].value]
       \/ op[c].name \in Reports /\ UNCHANGED kept
    /\ Ends(c, "ok")

Load(c) ==
    /\ op[c].kind = "load"
    /\ Ends(c, cell[op[c].name])
    /\ UNCHANGED <<cell, kept>>

Clear(c) ==
    /\ op[c].kind = "clear"
    /\ cell' = [cell EXCEPT ![op[c].name] = None]
    /\ UNCHANGED kept
    /\ Ends(c, "ok")

Fail(c) ==
    /\ Ends(c, "error")
    /\ UNCHANGED <<cell, kept>>

Return(c) ==
    /\ stage[c] = "done"
    /\ stage' = [stage EXCEPT ![c] = "idle"]
    /\ op' = [op EXCEPT ![c] = Idle]
    /\ result' = [result EXCEPT ![c] = "none"]
    /\ UNCHANGED <<cell, kept>>

Flush(n) ==
    /\ kept' = [kept EXCEPT ![n] = cell[n]]
    /\ UNCHANGED <<cell, op, stage, result>>

\* The application ends, alone or with the machine.
Stop ==
    /\ op' = [c \in Callers |-> Idle]
    /\ stage' = [c \in Callers |-> "idle"]
    /\ result' = [c \in Callers |-> "none"]
    /\ UNCHANGED kept
    /\ cell' \in {cell, kept}

Next ==
    \/ \E c \in Callers :
           \/ \E o \in Ops : Invoke(c, o)
           \/ Save(c) \/ Load(c) \/ Clear(c) \/ Fail(c) \/ Return(c)
    \/ \E n \in Names : Flush(n)
    \/ Stop

Spec == Init /\ [][Next]_vars
=============================================================================
