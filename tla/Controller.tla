------------------------------ MODULE Controller ------------------------------
(* The application controller and the page that shows its snapshot:
   app/controller.go and frontend/src/App.tsx. The session behind it is reduced
   to the room it has saved and the one step at which a command takes effect or
   fails; module Session models it in full.

   The controller owns one snapshot, written by commands, by the view of the
   room and by the inspection of the service, each under a lock that is released
   while the session, the daemon or the Room API is asked. The page keeps a copy
   of its own: it reads the snapshot once when it is mounted, and afterwards
   replaces it by the reply of each call. Nothing is ever pushed to it. *)
EXTENDS FiniteSets, ConnectionState

CONSTANTS
    Calls,       \* calls of the page that may be under way at once
    Kinds,       \* what the user asks for, of AllKinds
    Rooms,
    None, Broken,  \* no saved room; a saved room that cannot be read
    DaemonPeers, \* the peers the daemon may know, of PeerKinds
    Faults       \* what may go wrong, of AllFaults

AllKinds == {"enter", "connect", "disconnect", "leave", "switch", "repair"}

(* "fail"   a command of the session, or a repair, fails without effect
   "half"   a switch leaves the room and then fails to enter another
   "status" the daemon does not answer a status request
   "daemon" the daemon connects, loses and meets peers by itself
   "late"   the user acts before the reads of the start-up have ended
   "hang"   the daemon takes a request and never answers it: neither runCommand
            nor the adapter sets a deadline for it *)
AllFaults == {"fail", "half", "status", "daemon", "late", "hang"}

ASSUME ControllerAssumption ==
    /\ Kinds \subseteq AllKinds
    /\ Faults \subseteq AllFaults
    /\ DaemonPeers \subseteq PeerKinds
    /\ None \notin Rooms /\ Broken \notin Rooms /\ None # Broken
    /\ Calls \cap {"mount", "startup", "service"} = {}

VARIABLES
    saved,    \* the room in the secure store
    daemon,   \* what the daemon would answer to a status request
    shown,    \* the controller's snapshot
    ui,       \* the page's copy, Unread before the first reply
    pc,       \* where a call, or a task of the start-up, is
    cmd,      \* the kind of each call
    outcome,  \* the session's answer to each call
    view,     \* what each view has read so far
    reply,    \* the snapshot a call answers with
    hung      \* the calls and tasks that wait for the daemon for ever

vars == <<saved, daemon, shown, ui, pc, cmd, outcome, view, reply, hung>>

Tasks == {"mount", "startup", "service"}
Procs == Calls \cup Tasks
Viewers == Calls \cup {"startup"}
Daemons == [ready : BOOLEAN, peers : SUBSET DaemonPeers]
Offline == [ready |-> FALSE, peers |-> {}]
Snapshots ==
    [state : ConnectionStates, path : Paths, room : Rooms \cup {None},
     busy : AllKinds \cup {"none"}, error : {"none", "conflict", "failed", "service"},
     repair : BOOLEAN]
Unread ==
    [state |-> "NoRoom", path |-> "none", room |-> None, busy |-> "none",
     error |-> "none", repair |-> FALSE]
Failed(e) == [state |-> "RecoverableError", path |-> "none", error |-> e]
NothingRead == [room |-> None, state |-> "NoRoom", path |-> "none"]

TypeOK ==
    /\ saved \in Rooms \cup {None, Broken}
    /\ daemon \in Daemons
    /\ shown \in Snapshots /\ ui \in Snapshots
    /\ pc \in [Procs -> {"idle", "sent", "execute", "readRoom", "readStatus",
                         "store", "finish", "repair", "inspect", "answer", "done"}]
    /\ cmd \in [Calls -> AllKinds \cup {"none"}]
    /\ outcome \in [Calls -> [state : ConnectionStates, path : Paths,
                           error : {"none", "failed", "service"}]]
    /\ view \in [Viewers -> [room : Rooms \cup {None}, state : ConnectionStates, path : Paths]]
    /\ reply \in [Calls \cup {"mount"} -> Snapshots]
    /\ hung \subseteq Procs

(* The application starts on whatever the last one saved. *)
Init ==
    /\ saved \in Rooms \cup {None, Broken}
    /\ daemon \in IF "daemon" \in Faults THEN Daemons ELSE {[ready |-> TRUE, peers |-> {}]}
    /\ shown = Unread
    /\ ui = Unread
    /\ pc = [p \in Procs |-> CASE p = "mount" -> "sent"
                               [] p = "startup" -> "readRoom"
                               [] p = "service" -> "inspect"
                               [] OTHER -> "idle"]
    /\ cmd = [c \in Calls |-> "none"]
    /\ outcome = [c \in Calls |-> Failed("none")]
    /\ view = [p \in Viewers |-> NothingRead]
    /\ reply = [p \in Calls \cup {"mount"} |-> Unread]
    /\ hung = {}

At(p, step) == pc[p] = step
Goto(p, step) == pc' = [pc EXCEPT ![p] = step]
Started == \A t \in Tasks : At(t, "done")

-----------------------------------------------------------------------------
(* The page *)

(* The repair button is inside the banner that shows an error. *)
RepairButton == ui.error # "none" /\ (ui.repair \/ ui.error = "service")

(* The entry panel is shown without a room, the room panel with one. Every
   button is off while the page's own copy is busy. *)
Offered(k) ==
    /\ ui.busy = "none"
    /\ CASE k = "enter" -> ui.room = None
         [] k = "repair" -> RepairButton
         [] OTHER -> ui.room # None

(* A click marks the page's copy busy before the call is sent. *)
Click(c, k) ==
    /\ At(c, "idle") /\ Offered(k)
    /\ Started \/ "late" \in Faults
    /\ ui' = [ui EXCEPT !.busy = k, !.error = "none",
                        !.state = IF k = "enter" THEN "Enrolling" ELSE @]
    /\ cmd' = [cmd EXCEPT ![c] = k]
    /\ Goto(c, "sent")
    /\ UNCHANGED <<saved, daemon, shown, outcome, view, reply, hung>>

(* A reply replaces the whole copy, in whatever order replies arrive. *)
Deliver(p) ==
    /\ At(p, "answer")
    /\ ui' = reply[p]
    /\ reply' = [reply EXCEPT ![p] = Unread]
    /\ Goto(p, IF p = "mount" THEN "done" ELSE "idle")
    /\ UNCHANGED <<saved, daemon, shown, cmd, outcome, view>>

GetState ==
    /\ At("mount", "sent")
    /\ reply' = [reply EXCEPT !["mount"] = shown]
    /\ Goto("mount", "answer")
    /\ UNCHANGED <<saved, daemon, shown, ui, cmd, outcome, view>>

-----------------------------------------------------------------------------
(* runCommand *)

AnyTime == TRUE   \* a mutant of Idle: commands are not refused
Idle == shown.busy = "none"

AnnounceSwapped(s, k) ==   \* a mutant of Announce: command and state exchanged
    [s EXCEPT !.busy = IF k = "enter" THEN "Enrolling" ELSE k, !.error = "none",
              !.state = IF k = "enter" /\ @ = "NoRoom" THEN k ELSE @]

Announce(s, k) ==
    [s EXCEPT !.busy = k, !.error = "none",
              !.state = IF k = "enter" /\ @ = "NoRoom" THEN "Enrolling" ELSE @]

Begin(c) ==
    /\ At(c, "sent") /\ cmd[c] # "repair" /\ Idle
    /\ shown' = Announce(shown, cmd[c])
    /\ Goto(c, "execute")
    /\ UNCHANGED <<saved, daemon, ui, cmd, outcome, view, reply>>

Conflict(c) ==
    /\ At(c, "sent") /\ cmd[c] # "repair" /\ ~Idle
    /\ shown' = [shown EXCEPT !.error = "conflict"]
    /\ reply' = [reply EXCEPT ![c] = shown']
    /\ Goto(c, "answer")
    /\ UNCHANGED <<saved, daemon, ui, cmd, outcome, view>>

(* What the daemon knows once it is up; only Up and faults change it. *)
Up == IF "daemon" \in Faults THEN Daemons ELSE {[ready |-> TRUE, peers |-> daemon.peers]}

Answered(c, facts) ==
    LET o == Derive(facts)
    IN  outcome' = [outcome EXCEPT ![c] = [state |-> o.state, path |-> o.path, error |-> "none"]]

SavedFacts == [NoFacts EXCEPT !.saved = TRUE]
StatusFacts(d) == [SavedFacts EXCEPT !.ready = d.ready, !.peers = d.peers]

(* Create and Join: the status after the commit may be missing, the command
   succeeds without it. *)
Enrols(c, r) ==
    /\ saved' = r
    /\ daemon' \in Up
    /\ \/ Answered(c, StatusFacts(daemon'))
       \/ "status" \in Faults /\ Answered(c, SavedFacts)

Succeeds(c) ==
    CASE cmd[c] = "enter" -> saved = None /\ \E r \in Rooms : Enrols(c, r)
      [] cmd[c] = "switch" -> saved # Broken /\ \E r \in Rooms : Enrols(c, r)
      [] cmd[c] = "connect" ->
            /\ saved \in Rooms /\ daemon' \in Up
            /\ Answered(c, StatusFacts(daemon')) /\ UNCHANGED saved
      [] cmd[c] = "disconnect" ->
            /\ saved \in Rooms /\ daemon' = Offline
            /\ Answered(c, [SavedFacts EXCEPT !.disconnected = TRUE]) /\ UNCHANGED saved
      [] cmd[c] = "leave" ->
            /\ saved \in Rooms /\ daemon' = Offline
            /\ Answered(c, NoFacts) /\ saved' = None

(* Without faults a command fails only for the room that is, or is not, saved. *)
Refused(k) ==
    IF k = "enter" THEN saved # None
    ELSE IF k = "switch" THEN saved = Broken ELSE saved \notin Rooms

CommandFails(c) ==
    /\ \E e \in {"failed", "service"} : outcome' = [outcome EXCEPT ![c] = Failed(e)]
    /\ \/ /\ Refused(cmd[c]) \/ "fail" \in Faults
          /\ UNCHANGED <<saved, daemon>>
       \/ /\ "half" \in Faults /\ cmd[c] = "switch" /\ saved \in Rooms
          /\ saved' = None /\ daemon' = Offline

Execute(c) ==
    /\ At(c, "execute")
    /\ \/ Succeeds(c) /\ Goto(c, "readRoom")
       \/ CommandFails(c) /\ Goto(c, "finish")
    /\ UNCHANGED <<shown, ui, cmd, view, reply>>

KeepActiveRoom(s) == s   \* a mutant of ClearActiveRoom: the room shown survives its end
ClearActiveRoom(s) == [s EXCEPT !.room = None]

MergeSuccess(s, o) ==    \* a mutant of Merge: a failure returns before busy is reset
    [s EXCEPT !.busy = IF o.error = "none" THEN "none" ELSE @,
              !.state = o.state, !.path = o.path, !.error = o.error]

Merge(s, o) ==
    LET t == [s EXCEPT !.busy = "none", !.state = o.state, !.path = o.path, !.error = o.error]
    IN  IF o.state = "NoRoom" THEN ClearActiveRoom(t) ELSE t

Finish(c) ==
    /\ At(c, "finish")
    /\ shown' = Merge(shown, outcome[c])
    /\ reply' = [reply EXCEPT ![c] = shown']
    /\ outcome' = [outcome EXCEPT ![c] = Failed("none")]
    /\ Goto(c, "answer")
    /\ UNCHANGED <<saved, daemon, ui, cmd, view>>

-----------------------------------------------------------------------------
(* refreshRoomView, after a command that succeeded and at the start *)

Viewed(p) == Goto(p, IF p = "startup" THEN "done" ELSE "finish")

ReadRoom(p) ==
    /\ At(p, "readRoom")
    /\ IF saved \in Rooms
       THEN /\ view' = [view EXCEPT ![p].room = saved]
            /\ Goto(p, "readStatus") /\ UNCHANGED shown
       ELSE /\ shown' = IF saved = None THEN shown
                        ELSE [shown EXCEPT !.state = "RecoverableError", !.error = "failed"]
            /\ Viewed(p) /\ UNCHANGED view
    /\ UNCHANGED <<saved, daemon, ui, cmd, outcome, reply>>

ReadStatus(p) ==
    /\ At(p, "readStatus")
    /\ \/ LET o == Derive([StatusFacts(daemon) EXCEPT !.membershipKnown = TRUE,
                                                     !.others = Cardinality(daemon.peers)])
          IN  /\ view' = [view EXCEPT ![p].state = o.state, ![p].path = o.path]
              /\ Goto(p, "store")
       \/ /\ "status" \in Faults
          /\ view' = [view EXCEPT ![p] = NothingRead] /\ Viewed(p)
    /\ UNCHANGED <<saved, daemon, shown, ui, cmd, outcome, reply>>

(* The Room API has been asked for peers in between; its failure changes only
   the peer list. *)
Store(p) ==
    /\ At(p, "store")
    /\ shown' = [shown EXCEPT !.state = view[p].state, !.path = view[p].path, !.room = view[p].room]
    /\ view' = [view EXCEPT ![p] = NothingRead]
    /\ Viewed(p)
    /\ UNCHANGED <<saved, daemon, ui, cmd, outcome, reply>>

-----------------------------------------------------------------------------
(* RepairService and refreshService *)

Repair(c) ==
    /\ At(c, "sent") /\ cmd[c] = "repair"
    /\ shown' = [shown EXCEPT !.busy = "repair", !.error = "none"]
    /\ Goto(c, "repair")
    /\ UNCHANGED <<saved, daemon, ui, cmd, outcome, view, reply>>

(* The answer is the snapshot as it is before the service is inspected again;
   a failure answers without an inspection. *)
RepairEnds(c) ==
    /\ At(c, "repair")
    /\ \E ok \in IF "fail" \in Faults THEN BOOLEAN ELSE {TRUE} :
         /\ shown' = [shown EXCEPT !.busy = "none", !.repair = ~ok,
                                   !.error = IF ok THEN "none" ELSE "failed"]
         /\ Goto(c, IF ok THEN "inspect" ELSE "answer")
    /\ reply' = [reply EXCEPT ![c] = shown']
    /\ UNCHANGED <<saved, daemon, ui, cmd, outcome, view>>

(* The service is ready, or it is not and says so unless an error is shown. *)
Inspect(p) ==
    /\ At(p, "inspect")
    /\ \E ready \in BOOLEAN :
         shown' = [shown EXCEPT !.repair = ~ready,
                                !.error = IF ~ready /\ @ = "none" THEN "service" ELSE @]
    /\ Goto(p, IF p = "service" THEN "done" ELSE "answer")
    /\ UNCHANGED <<saved, daemon, ui, cmd, outcome, view, reply>>

-----------------------------------------------------------------------------
(* The daemon *)

DaemonChanges ==
    /\ "daemon" \in Faults
    /\ daemon' \in Daemons \ {daemon}
    /\ UNCHANGED <<saved, shown, ui, pc, cmd, outcome, view, reply, hung>>

(* Any request of a command may be the one that is not answered: what the
   command has done by then is done. A command that is refused asks nothing. *)
HangsInCommand(c) ==
    /\ At(c, "execute") /\ ~Refused(cmd[c])
    /\ saved' \in {saved} \cup IF cmd[c] \in {"enter", "switch"} THEN Rooms \cup {None} ELSE {}
    /\ daemon' \in Up \cup {daemon, Offline}

(* The status of a view and the probe of an inspection wait as long. *)
Hang(p) ==
    /\ "hang" \in Faults /\ p \notin hung
    /\ \/ p \in Calls /\ HangsInCommand(p)
       \/ /\ \/ p \in Viewers /\ At(p, "readStatus")
             \/ p \in Calls \cup {"service"} /\ At(p, "inspect")
          /\ UNCHANGED <<saved, daemon>>
    /\ hung' = hung \cup {p}
    /\ UNCHANGED <<shown, ui, pc, cmd, outcome, view, reply>>

Step(p) ==
    /\ p \notin hung
    /\ \/ p \in Calls /\ (Begin(p) \/ Conflict(p) \/ Execute(p) \/ Finish(p)
                           \/ Repair(p) \/ RepairEnds(p))
       \/ p \in Viewers /\ (ReadRoom(p) \/ ReadStatus(p) \/ Store(p))
       \/ p \in Calls \cup {"service"} /\ Inspect(p)
       \/ p \in Calls \cup {"mount"} /\ Deliver(p)
       \/ p = "mount" /\ GetState
    /\ UNCHANGED hung

Next ==
    \/ \E c \in Calls, k \in Kinds : Click(c, k)
    \/ \E p \in Procs : Step(p) \/ Hang(p)
    \/ DaemonChanges

Spec == Init /\ [][Next]_vars

(* Every call that was sent is worked on and answered unless the daemon leaves
   it waiting: goroutines are scheduled, files and the user's answer to the
   elevation come to an end, and the Room API is asked with a deadline. Nothing
   bounds the daemon's answer, so a call that hangs owes no step. The user need
   not click and the daemon need not change. *)
FairSpec == Spec /\ \A p \in Procs : WF_vars(Step(p))

-----------------------------------------------------------------------------
(* A command holds the controller from its announcement to its merge. *)
Working == {c \in Calls : pc[c] \in {"execute", "readRoom", "readStatus", "store", "finish"}}

(* runCommand lets one command at a time into the session, however late the
   page learns of it, and its busy mark says that one is running: it is neither
   lost while the command works nor left behind by a path that returns early. *)
OneCommand ==
    /\ Cardinality(Working) <= 1
    /\ shown.busy # "none" <=> Working # {}

Quiet == Started /\ \A c \in Calls : At(c, "idle")

(* When nothing is under way, the controller shows the room that is saved and
   no other, and does not say NoRoom of a saved room; the page agrees with it
   once it has had a reply. It holds if no status request fails, no switch fails
   between its two halves and the user waits for the reads of the start-up:
   refreshRoomView, clearActiveRoom and the merge of runCommand together. *)
SettledIsTrue ==
    Quiet /\ saved # Broken =>
        /\ shown.room = saved
        /\ shown.state = "NoRoom" => saved = None
        /\ (\E c \in Calls : cmd[c] # "none") =>
              ui.room = shown.room /\ ui.state = shown.state

(* The page, whose buttons are off while its copy is busy, is given them back by
   the end of every command and repair, unless the daemon leaves the call waiting
   for ever. It holds if the user waits for the reads of the start-up: the reply
   to the page's first read may otherwise come last. *)
BusyEnds == ui.busy # "none" ~> ui.busy = "none" \/ hung \cap Calls # {}

-----------------------------------------------------------------------------
(* What the specifications of the client say, and the code does not do. *)

(* "Control plane ready without another peer ... the client displays
   WaitingForPeer as a normal non-error state": the view of the room says so
   after a command, and runCommand overwrites it with what the command itself
   knew, which is never the membership (controller.go:363-364). *)
WaitingIsShown ==
    Quiet /\ ui.room # None /\ daemon = [ready |-> TRUE, peers |-> {}] /\ ui.error = "none"
        => ui.state = "WaitingForPeer"

(* "WHEN the client restarts with valid saved metadata THEN it restores the
   single room": the page reads the snapshot once, and may do so before the
   start-up has viewed the room. *)
RoomIsRestored == saved \in Rooms ~> ui.room = saved \/ saved = None

(* "Daemon RPC events trigger immediate local state updates": nothing follows
   the daemon, and a tunnel that is gone stays on the page. *)
LostTunnelIsShown == <>[](daemon.peers = {}) => []<>(ui.path = "none")

(* "refuses room networking operations and offers a repair flow": a command
   clears the error (controller.go:340, 366) and leaves the need for a repair,
   whose button is in the banner of the error (App.tsx:193). *)
RepairIsOffered == Quiet /\ ui.busy = "none" /\ ui.repair => Offered("repair")

-----------------------------------------------------------------------------
(* Why the controller settles on what is true *)

(* The user waits for the start-up, a switch takes effect or none, and no status
   request of a view fails; one may hang. *)
Orderly == Faults \cap {"late", "half", "status"} = {}

(* The page allows one call at a time, and while it is sent the controller has
   nothing else to do, so that none is refused as a conflict. *)
OneAtATime ==
    /\ pc["mount"] \in {"sent", "answer", "done"}
    /\ pc["startup"] \in {"readRoom", "readStatus", "store", "done"}
    /\ pc["service"] \in {"inspect", "done"}
    /\ \A c, d \in Calls : ~At(c, "idle") /\ ~At(d, "idle") => c = d
    /\ \A c \in Calls :
          /\ ~At(c, "idle") => Started /\ cmd[c] # "none" /\ ui.busy # "none"
          /\ cmd[c] # "none" => Started
          /\ At(c, "execute") => cmd[c] # "repair"
    /\ shown.busy # "none" => \E c \in Calls : c \in Working \/ At(c, "repair")

(* Between the effect of a command and its merge the snapshot may be behind. *)
Behind ==
    {c \in Calls : \/ pc[c] \in {"readRoom", "readStatus", "store", "finish"}
                   \/ pc[c] = "execute" /\ c \in hung}

SnapshotIsTrue ==
    saved # Broken =>
        /\ At("startup", "done") /\ Behind = {} =>
              shown.room = saved /\ (shown.state = "NoRoom" => saved = None)
        /\ ~At("startup", "done") => shown.room = None /\ shown.state = "NoRoom"

(* What a view has read is still so, and what a command has been told agrees
   with what it will find or has merged. *)
ViewIsTrue ==
    /\ \A p \in Viewers :
          /\ pc[p] \in {"readStatus", "store"} => saved \in Rooms /\ view[p].room = saved
          /\ pc[p] = "store" => view[p].state # "NoRoom"
    /\ \A c \in Calls :
          /\ pc[c] = "readRoom" =>
                \/ saved \in Rooms /\ outcome[c].state # "NoRoom"
                \/ saved = None /\ outcome[c].state = "NoRoom"
          /\ pc[c] \in {"readStatus", "store"} => outcome[c].state # "NoRoom"
          /\ pc[c] = "finish" /\ saved # Broken =>
                IF outcome[c].state = "NoRoom" THEN saved = None ELSE shown.room = saved

(* A reply is what the controller still shows when it arrives. *)
PageAgrees ==
    /\ \A c \in Calls : pc[c] \in {"inspect", "answer"} =>
          reply[c].room = shown.room /\ reply[c].state = shown.state
    /\ (\A c \in Calls : At(c, "idle")) /\ (\E c \in Calls : cmd[c] # "none") =>
          ui.room = shown.room /\ ui.state = shown.state

IInv == TypeOK /\ OneAtATime /\ SnapshotIsTrue /\ ViewIsTrue /\ PageAgrees
=============================================================================
