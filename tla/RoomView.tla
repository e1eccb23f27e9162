------------------------------- MODULE RoomView -------------------------------
(***************************************************************************)
(* The list of peers on display: Service.View and the PeerRefresher it     *)
(* asks, the Room API client's Peers, and the controller, which shows a    *)
(* view after every command that succeeds and lets the views of            *)
(* diagnostics run beside them.                                            *)
(*                                                                         *)
(* One refresher serves all the rooms the process is in, and keeps the     *)
(* last list it was given.  The session is reduced to the room it has      *)
(* saved (Session has its files apart), the Room API to how often its      *)
(* lists have changed; RoomAccess has what it does for a disabled room,    *)
(* here an answer that is no list.                                         *)
(*                                                                         *)
(* A view of diagnostics runs in a controller that was given a session     *)
(* and a writer; bootstrap_windows.go loses the writer when it makes the   *)
(* session (line 69), and Exports is empty there.                          *)
(*                                                                         *)
(* The user's views follow each other: runCommand admits one command at a  *)
(* time, and the user is taken to wait for the view of the start-up        *)
(* (Controller has the user who does not).                                 *)
(***************************************************************************)
EXTENDS Naturals

CONSTANTS
    Rooms, None,
    User,        \* the view of the start-up and of the user's commands
    Exports,     \* views of diagnostics that may be under way at once
    Retries,     \* len(defaultRetryDelays)
    MaxVersion,  \* bound on the changes of the rooms' lists
    Faults       \* what may go wrong, a subset of AllFaults

AllFaults ==
    { "api"        \* an attempt meets 429, a 5xx or no connection
    , "answer"     \* another error, an answer that is no list, the deadline
    , "status"     \* the daemon does not answer a status request
    , "command" }  \* a command fails, a switch perhaps half-way

ASSUME NoneIsNoRoom == None \notin Rooms
ASSUME UserIsNoExport == User \notin Exports
ASSUME BoundsAreNat == Retries \in Nat /\ MaxVersion \in Nat
ASSUME FaultsKnown == Faults \subseteq AllFaults

VARIABLES
    version,    \* Room API: how often a list has changed
    saved,      \* session: the room saved, or None
    command,    \* controller: the command under way
    list,       \* PeerRefresher.state
    pc, mine,   \* the views: next step, and their call of the Room API
    seen, got,  \* the user's view: the room, and the refresher's answer
    shown       \* StateSnapshot: RoomID, Peers and PeersStale

vars == <<version, saved, command, list, pc, mine, seen, got, shown>>

Views     == Exports \cup {User}
ViewSteps == {"room", "status", "code", "ask", "wait", "store", "failed", "show"}
Lists     == [room : Rooms \cup {None}, version : 0..MaxVersion, stale : BOOLEAN]
NoList    == [room |-> None, version |-> 0, stale |-> FALSE]
NoCall    == [asked |-> None, tries |-> 0, answer |-> 0]
\* A room as a view finds it; since is history, its list then.
NoRoom    == [room |-> None, since |-> 0]
Nothing   == [of |-> NoRoom, list |-> NoList]
Found     == [room : Rooms \cup {None}, since : 0..MaxVersion]

TypeOK ==
    /\ version \in 0..MaxVersion
    /\ saved \in Rooms \cup {None}
    /\ command \in {"none", "startup", "enter", "leave", "switch", "stay"}
    /\ list \in Lists /\ got \in Lists
    /\ pc \in [Views -> ViewSteps \cup {"idle", "finish"}]
    /\ mine \in [Views -> [asked : Rooms \cup {None}, tries : 0..Retries,
                           answer : 0..MaxVersion]]
    /\ seen \in Found
    /\ shown \in [of : Found, list : Lists]

\* The application starts on whatever the last one saved, and views it.
Init ==
    /\ version = 0
    /\ saved \in Rooms \cup {None}
    /\ command = "startup"
    /\ list = NoList
    /\ pc = [v \in Views |-> IF v = User THEN "room" ELSE "idle"]
    /\ mine = [v \in Views |-> NoCall]
    /\ seen = NoRoom /\ got = NoList /\ shown = Nothing

At(v, step)   == pc[v] = step
Goto(v, step) == pc' = [pc EXCEPT ![v] = step]

-----------------------------------------------------------------------------
(* The user's commands, and diagnostics *)

Click(k) ==
    /\ command = "none"
    /\ command' = k
    /\ UNCHANGED <<version, saved, list, pc, mine, seen, got, shown>>

\* runCommand goes on to refreshRoomView.
Done == Goto(User, "room") /\ UNCHANGED command

\* The room that is saved, or is not, forbids it.
Refused(k) ==
    \/ k = "enter" /\ saved # None
    \/ k \in {"leave", "stay"} /\ saved = None

Execute ==
    /\ At(User, "idle")
    /\ \/ command = "enter"  /\ saved = None /\ saved' \in Rooms /\ Done
       \/ command = "leave"  /\ saved # None /\ saved' = None /\ Done
       \/ command = "stay"   /\ saved # None /\ UNCHANGED saved /\ Done
       \/ command = "switch" /\ saved' = None /\ command' = "enter" /\ UNCHANGED pc
       \/ /\ command # "none"
          /\ Refused(command) \/ "command" \in Faults
          /\ command' = "none" /\ UNCHANGED <<saved, pc>>
    /\ UNCHANGED <<version, list, mine, seen, got, shown>>

Export(e) ==
    /\ At(e, "idle")
    /\ Goto(e, "room")
    /\ UNCHANGED <<version, saved, command, list, mine, seen, got, shown>>

\* A view that ends, with or without something to show.
Over(v) ==
    /\ Goto(v, IF v = User THEN "finish" ELSE "idle")
    /\ mine' = [mine EXCEPT ![v] = NoCall]

-----------------------------------------------------------------------------
(* View: the saved room, the daemon, and the refresher *)

ReadRoom(v) ==
    /\ At(v, "room")
    /\ \/ /\ saved # None
          /\ seen' = IF v = User THEN [room |-> saved, since |-> version]
                                 ELSE seen
          /\ Goto(v, "status") /\ UNCHANGED mine
       \/ saved = None /\ Over(v) /\ UNCHANGED seen
    /\ UNCHANGED <<version, saved, command, list, got, shown>>

ReadStatus(v) ==
    /\ At(v, "status")
    /\ \/ Goto(v, "code") /\ UNCHANGED <<mine, seen>>
       \/ "status" \in Faults /\ Over(v)
             /\ seen' = IF v = User THEN NoRoom ELSE seen
    /\ UNCHANGED <<version, saved, command, list, got, shown>>

\* Refresh reads the room code once more.
LoadCode(v) ==
    /\ At(v, "code")
    /\ mine' = [mine EXCEPT ![v].asked = saved]
    /\ Goto(v, IF saved = None THEN "failed" ELSE "ask")
    /\ UNCHANGED <<version, saved, command, list, seen, got, shown>>

-----------------------------------------------------------------------------
(* Client.Peers: attempts until one is answered, or the last has failed *)

\* What is not transient is not tried again.
GivesUp(v) ==
    /\ At(v, "ask") \/ At(v, "wait")
    /\ "answer" \in Faults
    /\ Goto(v, "failed")
    /\ UNCHANGED mine

Answered(v) ==
    /\ At(v, "ask")
    /\ mine' = [mine EXCEPT ![v].answer = version]
    /\ Goto(v, "store")

Retry(v) ==
    /\ At(v, "ask") /\ "api" \in Faults
    /\ Goto(v, IF mine[v].tries < Retries THEN "wait" ELSE "failed")
    /\ UNCHANGED mine

\* Mutant: retries are not counted.
WakeUncounted(v) ==
    /\ At(v, "wait")
    /\ Goto(v, "ask")
    /\ UNCHANGED mine

Wake(v) ==
    /\ At(v, "wait")
    /\ mine' = [mine EXCEPT ![v].tries = @ + 1]
    /\ Goto(v, "ask")

Peers(v) ==
    /\ Answered(v) \/ GivesUp(v) \/ Retry(v) \/ Wake(v)
    /\ UNCHANGED <<version, saved, command, list, seen, got, shown>>

-----------------------------------------------------------------------------
(* Refresh ends: the view is given a copy made under the refresher's lock *)

Copied(v) ==
    IF v = User THEN got' = list' /\ Goto(v, "show") /\ UNCHANGED mine
                ELSE Over(v) /\ UNCHANGED got

Store(v) ==
    /\ At(v, "store")
    /\ list' = [room |-> mine[v].asked, version |-> mine[v].answer, stale |-> FALSE]
    /\ Copied(v)
    /\ UNCHANGED <<version, saved, command, seen, shown>>

MarkStale(v) ==
    /\ At(v, "failed")
    /\ list' = [list EXCEPT !.stale = TRUE]
    /\ Copied(v)
    /\ UNCHANGED <<version, saved, command, seen, shown>>

View(v) ==
    \/ ReadRoom(v) \/ ReadStatus(v) \/ LoadCode(v) \/ Peers(v)
    \/ Store(v) \/ MarkStale(v)

-----------------------------------------------------------------------------
(* The controller's snapshot *)

Showing(peers) ==
    /\ At(User, "show")
    /\ shown' = [of |-> seen, list |-> peers]
    /\ Over(User)
    /\ seen' = NoRoom /\ got' = NoList
    /\ UNCHANGED <<version, saved, command, list>>

\* Mutant: the list is read from the refresher when it is shown.
ShowLatest == Showing(list)

Show == Showing(got)

\* runCommand: a room that was left is cleared, its peers with it.
Finish ==
    /\ At(User, "finish")
    /\ shown' = IF command = "leave" THEN Nothing ELSE shown
    /\ command' = "none"
    /\ Goto(User, "idle")
    /\ UNCHANGED <<version, saved, list, mine, seen, got>>

-----------------------------------------------------------------------------
(* The Room API: guests come and go *)

ListChanges ==
    /\ version < MaxVersion
    /\ version' = version + 1
    /\ UNCHANGED <<saved, command, list, pc, mine, seen, got, shown>>

-----------------------------------------------------------------------------
UserStep == View(User) \/ Show \/ Finish

Next ==
    \/ \E k \in {"enter", "leave", "switch", "stay"} : Click(k)
    \/ Execute
    \/ UserStep
    \/ \E e \in Exports : Export(e) \/ View(e)
    \/ ListChanges

Spec == Init /\ [][Next]_vars

\* Every view is a goroutine, and the timers of its retries fire.
FairSpec == Spec /\ WF_vars(UserStep) /\ \A e \in Exports : WF_vars(View(e))

-----------------------------------------------------------------------------
(* Properties *)

\* A list that is not marked stale is one that the Room API gave for the room
\* it is shown under, and no older than the view that shows it, whatever views
\* of diagnostics, perhaps for the rooms of earlier commands, share the
\* refresher.
FreshIsTheirs ==
    shown.of # NoRoom /\ ~shown.list.stale =>
        /\ shown.list.room = shown.of.room
        /\ shown.list.version >= shown.of.since

\* A view ends, even if no deadline cuts its attempts short, and the command
\* that waits for it with it; provided that the daemon answers the status, for
\* which no deadline is set.
ViewsEnd == \A v \in Views : pc[v] \in ViewSteps ~> pc[v] \notin ViewSteps

\* "The system SHALL show peer membership from the Room API" and, when the API
\* cannot be asked, "the last known peer list as stale" (desktop-room-client/
\* spec.md): of the room on display.  The refresher does not know of rooms, and
\* what it keeps when it fails may be the list of the room before.
ListIsOfTheRoom ==
    shown.of # NoRoom => shown.list.room \in {shown.of.room, None}

\* The last known list is the last: a room's list is not replaced by an older
\* one.  A refresh for diagnostics that ends late stores one all the same.
NeverOlder ==
    [][shown'.list.room = shown.list.room /\ shown.list.room # None
         => shown'.list.version >= shown.list.version]_vars

-----------------------------------------------------------------------------
(* Why a fresh list is theirs *)

\* No command changes the room while a view of the user is under way: the room
\* found is the one that is saved, and the one the Room API is asked about,
\* and its answer is younger than the view.
AsksForTheirs ==
    /\ seen.since <= version
    /\ pc[User] \in ViewSteps \ {"room"} => seen.room = saved /\ saved # None
    /\ pc[User] \in {"ask", "wait", "store"} => mine[User].asked = seen.room
    /\ pc[User] = "store" => mine[User].answer >= seen.since

\* A fresh list is the view's own, not the last that the refresher was given.
GotTheirs ==
    pc[User] = "show" /\ ~got.stale =>
        got.room = seen.room /\ got.version >= seen.since

\* Who waits has a retry left.
RetriesLeft == \A v \in Views : pc[v] = "wait" => mine[v].tries < Retries

IInv == TypeOK /\ AsksForTheirs /\ GotTheirs /\ RetriesLeft /\ FreshIsTheirs
=============================================================================
