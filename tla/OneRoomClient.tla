--------------------------- MODULE OneRoomClient ---------------------------
(***************************************************************************)
(* What the client promises of the rooms it enters: it is in one room or   *)
(* in none, enters a room only from none, and never comes back to one it   *)
(* set out to leave or failed to enter, although it may be given the same  *)
(* code again: that is a new enrollment.  Of a room it has left there may  *)
(* be traces, in its files or in NetBird, until it is gone; a room that is *)
(* gone stays gone.  When a command takes effect, and which of its steps   *)
(* may fail, is left open.                                                 *)
(***************************************************************************)
CONSTANTS Rooms, None

VARIABLES
    room,   \* the room the client is in
    over,   \* the rooms that it set out to leave, or failed to enter
    gone    \* those of which there is no trace

vars == <<room, over, gone>>

Init == room = None /\ over = {} /\ gone = {}

Enter(r) ==
    /\ room = None
    /\ r \notin over
    /\ room' = r
    /\ UNCHANGED <<over, gone>>

Leave(r) ==
    /\ room \in {r, None}
    /\ room' = None
    /\ over' = over \cup {r}
    /\ UNCHANGED gone

Vanish(r) ==
    /\ r \in over
    /\ gone' = gone \cup {r}
    /\ UNCHANGED <<room, over>>

Next == \E r \in Rooms : Enter(r) \/ Leave(r) \/ Vanish(r)

Spec == Init /\ [][Next]_vars
=============================================================================
