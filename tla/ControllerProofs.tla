--------------------------- MODULE ControllerProofs ---------------------------
(* The controller settles on the room that is saved, for any number of calls
   of the page, of rooms and of peers, whatever the daemon does by itself.

   The argument. The page, whose buttons are off while its copy is busy, keeps
   one call under way, and the controller is never busy when it is sent
   (OneAtATime). From the effect of a command to its merge the snapshot may be
   behind, but the answer the command had from the session and what the view
   reads after it agree on the room (ViewIsTrue), and one of the two is what the
   merge leaves (SnapshotIsTrue). The reply is taken from the snapshot, which
   nobody changes before it is delivered (PageAgrees). *)
EXTENDS Controller, FiniteSetTheorems, TLAPS

LEMMA TaskNames ==
    /\ "mount" \in Procs \ Calls /\ "startup" \in Procs \ Calls /\ "service" \in Procs \ Calls
    /\ "startup" \in Viewers
    /\ \A c \in Calls : c \in Procs /\ c \in Viewers /\ c \notin Tasks
BY ControllerAssumption DEF Procs, Tasks, Viewers

-----------------------------------------------------------------------------
(* What is derived of a saved room is not NoRoom *)

LEMMA DeriveTyped ==
    ASSUME NEW f
    PROVE  Derive(f).state \in ConnectionStates /\ Derive(f).path \in Paths
<1>1. PreferredPath(f.peers) \in Paths
    BY DEF PreferredPath, Paths
<1> QED
    BY <1>1 DEF Derive, Without, ConnectionStates, Paths

LEMMA DeriveOfRoom ==
    ASSUME NEW f, f.saved, ~f.failed, ~f.enrolling
    PROVE  Derive(f).state # "NoRoom"
BY DEF Derive, Without

LEMMA DeriveOfNone == Derive(NoFacts).state = "NoRoom"
BY DEF Derive, Without, NoFacts

LEMMA FactsOfRoom ==
    /\ Derive(SavedFacts).state # "NoRoom"
    /\ Derive([SavedFacts EXCEPT !.disconnected = TRUE]).state # "NoRoom"
    /\ \A d : Derive(StatusFacts(d)).state # "NoRoom"
    /\ \A d, n : Derive([StatusFacts(d) EXCEPT !.membershipKnown = TRUE,
                                               !.others = n]).state # "NoRoom"
<1>1. SavedFacts.saved /\ ~SavedFacts.failed /\ ~SavedFacts.enrolling
    BY DEF SavedFacts, NoFacts
<1>2. LET f == [SavedFacts EXCEPT !.disconnected = TRUE]
      IN  f.saved /\ ~f.failed /\ ~f.enrolling
    BY DEF SavedFacts, NoFacts
<1>3. ASSUME NEW d
      PROVE  StatusFacts(d).saved /\ ~StatusFacts(d).failed /\ ~StatusFacts(d).enrolling
    BY DEF StatusFacts, SavedFacts, NoFacts
<1>4. ASSUME NEW d, NEW n
      PROVE  LET f == [StatusFacts(d) EXCEPT !.membershipKnown = TRUE, !.others = n]
             IN  f.saved /\ ~f.failed /\ ~f.enrolling
    BY DEF StatusFacts, SavedFacts, NoFacts
<1> QED
    BY <1>1, <1>2, <1>3, <1>4, DeriveOfRoom

-----------------------------------------------------------------------------
LEMMA InitInv == Init => IInv
<1> SUFFICES ASSUME Init PROVE IInv
    OBVIOUS
<1> USE ControllerAssumption, TaskNames DEF Init
<1>1. TypeOK
    <2>1. Unread \in Snapshots
        BY DEF Unread, Snapshots, ConnectionStates, Paths
    <2>2. daemon \in Daemons
        <3>1. [ready |-> TRUE, peers |-> {}] \in Daemons
            BY DEF Daemons
        <3> QED
            BY <3>1
    <2>3. pc \in [Procs -> {"idle", "sent", "execute", "readRoom", "readStatus",
                            "store", "finish", "repair", "inspect", "answer", "done"}]
        OBVIOUS
    <2>4. Failed("none") \in [state : ConnectionStates, path : Paths,
                              error : {"none", "failed", "service"}]
        BY DEF Failed, ConnectionStates, Paths
    <2>5. NothingRead \in [room : Rooms \cup {None}, state : ConnectionStates, path : Paths]
        BY DEF NothingRead, ConnectionStates, Paths
    <2> QED
        BY <2>1, <2>2, <2>3, <2>4, <2>5 DEF TypeOK
<1>2. /\ \A c \in Calls : pc[c] = "idle" /\ cmd[c] = "none"
      /\ pc["mount"] = "sent" /\ pc["startup"] = "readRoom" /\ pc["service"] = "inspect"
    BY DEF Tasks
<1>3. shown.busy = "none" /\ shown.room = None /\ shown.state = "NoRoom"
    BY DEF Unread
<1>4. OneAtATime
    BY <1>2, <1>3 DEF OneAtATime, At
<1>5. SnapshotIsTrue
    BY <1>2, <1>3 DEF SnapshotIsTrue, At
<1>6. ViewIsTrue
    BY <1>2 DEF ViewIsTrue, Viewers
<1>7. PageAgrees
    BY <1>2 DEF PageAgrees
<1> QED
    BY <1>1, <1>4, <1>5, <1>6, <1>7 DEF IInv

-----------------------------------------------------------------------------
(* Types *)

(* The user asks for something, and no repair is ever executed as a command. *)
KindsKnown ==
    \A c \in Calls :
        /\ ~At(c, "idle") => cmd[c] # "none"
        /\ At(c, "execute") => cmd[c] # "repair"

LEMMA AnnounceTyped ==
    ASSUME NEW s \in Snapshots, NEW k \in AllKinds
    PROVE  Announce(s, k) \in Snapshots
BY DEF Announce, Snapshots, ConnectionStates

LEMMA MergeTyped ==
    ASSUME NEW s \in Snapshots,
           NEW o \in [state : ConnectionStates, path : Paths,
                      error : {"none", "failed", "service"}]
    PROVE  Merge(s, o) \in Snapshots
BY DEF Merge, ClearActiveRoom, Snapshots

LEMMA PageKeepsType ==
    ASSUME TypeOK, hung' = hung,
           \/ \E c \in Calls, k \in Kinds : Click(c, k)
           \/ \E p \in Calls \cup {"mount"} : Deliver(p)
           \/ GetState \/ DaemonChanges \/ UNCHANGED vars
    PROVE  TypeOK'
<1> USE ControllerAssumption DEF TypeOK, Goto
<1>1. ASSUME NEW c \in Calls, NEW k \in Kinds, Click(c, k)
      PROVE  TypeOK'
    <2>1. ui' \in Snapshots
        BY <1>1 DEF Click, Snapshots, ConnectionStates
    <2>2. cmd' \in [Calls -> AllKinds \cup {"none"}]
        BY <1>1 DEF Click
    <2> QED
        BY <1>1, <2>1, <2>2 DEF Click
<1>2. ASSUME NEW p \in Calls \cup {"mount"}, Deliver(p)
      PROVE  TypeOK'
    <2>1. Unread \in Snapshots
        BY DEF Unread, Snapshots, ConnectionStates, Paths
    <2>2. reply' \in [Calls \cup {"mount"} -> Snapshots] /\ ui' \in Snapshots
        BY <1>2, <2>1 DEF Deliver
    <2> QED
        BY <1>2, <2>2 DEF Deliver
<1>3. CASE GetState
    BY <1>3 DEF GetState
<1>4. CASE DaemonChanges
    BY <1>4 DEF DaemonChanges
<1>5. CASE UNCHANGED vars
    BY <1>5 DEF vars
<1> QED
    BY <1>1, <1>2, <1>3, <1>4, <1>5

LEMMA CommandKeepsType ==
    ASSUME TypeOK, KindsKnown, NEW c \in Calls, hung' = hung,
           Begin(c) \/ Conflict(c) \/ Finish(c) \/ Repair(c) \/ RepairEnds(c)
    PROVE  TypeOK'
<1> USE ControllerAssumption DEF TypeOK, Goto
<1>0. c \in Procs
    BY TaskNames
<1>1. CASE Begin(c)
    <2>1. cmd[c] \in AllKinds
        BY <1>1 DEF Begin, KindsKnown, At
    <2>2. shown' \in Snapshots
        BY <1>1, <2>1, AnnounceTyped DEF Begin
    <2> QED
        BY <1>0, <1>1, <2>2 DEF Begin
<1>2. CASE Conflict(c)
    <2>1. shown' \in Snapshots
        BY <1>2 DEF Conflict, Snapshots
    <2> QED
        BY <1>0, <1>2, <2>1 DEF Conflict
<1>3. CASE Finish(c)
    <2>1. shown' \in Snapshots
        BY <1>3, MergeTyped DEF Finish
    <2>2. Failed("none") \in [state : ConnectionStates, path : Paths,
                              error : {"none", "failed", "service"}]
        BY DEF Failed, ConnectionStates, Paths
    <2> QED
        BY <1>0, <1>3, <2>1, <2>2 DEF Finish
<1>4. CASE Repair(c)
    <2>1. shown' \in Snapshots
        BY <1>4 DEF Repair, Snapshots, AllKinds
    <2> QED
        BY <1>0, <1>4, <2>1 DEF Repair
<1>5. CASE RepairEnds(c)
    <2>1. PICK ok \in BOOLEAN :
             shown' = [shown EXCEPT !.busy = "none", !.repair = ~ok,
                                    !.error = IF ok THEN "none" ELSE "failed"]
        BY <1>5 DEF RepairEnds
    <2>3. shown' \in Snapshots
        <3>1. CASE ok = TRUE
            BY <2>1, <3>1 DEF Snapshots
        <3>2. CASE ok = FALSE
            BY <2>1, <3>2 DEF Snapshots
        <3> QED
            BY <3>1, <3>2
    <2>2. pc' \in [Procs -> {"idle", "sent", "execute", "readRoom", "readStatus",
                             "store", "finish", "repair", "inspect", "answer", "done"}]
        BY <1>0, <1>5 DEF RepairEnds
    <2> QED
        BY <1>0, <1>5, <2>2, <2>3 DEF RepairEnds
<1> QED
    BY <1>1, <1>2, <1>3, <1>4, <1>5

LEMMA UpTyped ==
    ASSUME TypeOK
    PROVE  Offline \in Daemons /\ Up \subseteq Daemons
<1>1. Offline \in Daemons
    BY DEF Offline, Daemons
<1>2. [ready |-> TRUE, peers |-> daemon.peers] \in Daemons
    BY DEF Daemons, TypeOK
<1> QED
    BY <1>1, <1>2 DEF Up

LEMMA SessionKeepsType ==
    ASSUME TypeOK, KindsKnown, NEW c \in Calls, hung' = hung, Execute(c)
    PROVE  TypeOK'
<1> USE ControllerAssumption DEF TypeOK, Goto
<1> DEFINE Outcomes == [state : ConnectionStates, path : Paths,
                        error : {"none", "failed", "service"}]
<1>0. c \in Procs
    BY TaskNames
<1>1. ASSUME NEW f, Answered(c, f) PROVE outcome' \in [Calls -> Outcomes]
    <2>1. [state |-> Derive(f).state, path |-> Derive(f).path, error |-> "none"] \in Outcomes
        BY DeriveTyped
    <2> QED
        BY <1>1, <2>1 DEF Answered
<1>2. Offline \in Daemons /\ Up \subseteq Daemons
    BY UpTyped
<1>3. /\ outcome' \in [Calls -> Outcomes]
      /\ saved' \in Rooms \cup {None, Broken}
      /\ daemon' \in Daemons
    <2>1. ASSUME NEW r \in Rooms, Enrols(c, r)
          PROVE  /\ outcome' \in [Calls -> Outcomes]
                 /\ saved' \in Rooms \cup {None, Broken}
                 /\ daemon' \in Daemons
        BY <1>1, <1>2, <2>1 DEF Enrols
    <2>2. CASE Succeeds(c)
        <3>1. CASE cmd[c] \in {"enter", "switch"}
            BY <2>1, <2>2, <3>1 DEF Succeeds
        <3>2. CASE cmd[c] = "connect"
            BY <1>1, <1>2, <2>2, <3>2 DEF Succeeds
        <3>3. CASE cmd[c] = "disconnect"
            BY <1>1, <1>2, <2>2, <3>3 DEF Succeeds
        <3>4. CASE cmd[c] = "leave"
            BY <1>1, <1>2, <2>2, <3>4 DEF Succeeds
        <3>5. cmd[c] \in {"enter", "switch", "connect", "disconnect", "leave"}
            BY DEF KindsKnown, Execute, At, AllKinds
        <3> QED
            BY <3>1, <3>2, <3>3, <3>4, <3>5
    <2>3. CASE CommandFails(c)
        <3>1. \A e \in {"failed", "service"} : Failed(e) \in Outcomes
            BY DEF Failed, ConnectionStates, Paths
        <3>2. outcome' \in [Calls -> Outcomes]
            BY <2>3, <3>1 DEF CommandFails
        <3> QED
            BY <1>2, <2>3, <3>2 DEF CommandFails
    <2> QED
        BY <2>2, <2>3 DEF Execute
<1>4. pc' \in [Procs -> {"idle", "sent", "execute", "readRoom", "readStatus",
                         "store", "finish", "repair", "inspect", "answer", "done"}]
    BY <1>0 DEF Execute
<1> QED
    BY <1>3, <1>4 DEF Execute

LEMMA ViewKeepsType ==
    ASSUME TypeOK, NEW p \in Viewers, hung' = hung,
           ReadRoom(p) \/ ReadStatus(p) \/ Store(p)
    PROVE  TypeOK'
<1> USE ControllerAssumption DEF TypeOK, Goto
<1> DEFINE Seen == [room : Rooms \cup {None}, state : ConnectionStates, path : Paths]
<1>0. p \in Procs
    BY TaskNames DEF Viewers
<1>1. NothingRead \in Seen
    BY DEF NothingRead, ConnectionStates, Paths
<1>2. pc' \in [Procs -> {"idle", "sent", "execute", "readRoom", "readStatus",
                         "store", "finish", "repair", "inspect", "answer", "done"}]
    BY <1>0 DEF ReadRoom, ReadStatus, Store, Viewed
<1>3. CASE ReadRoom(p)
    <2>1. view' \in [Viewers -> Seen]
        BY <1>3 DEF ReadRoom
    <2>2. shown' \in Snapshots
        <3>1. [shown EXCEPT !.state = "RecoverableError", !.error = "failed"] \in Snapshots
            BY DEF Snapshots, ConnectionStates
        <3>2. CASE saved \in Rooms
            BY <1>3, <3>2 DEF ReadRoom
        <3>3. CASE saved \notin Rooms
            BY <1>3, <3>1, <3>3 DEF ReadRoom
        <3> QED
            BY <3>2, <3>3
    <2> QED
        BY <1>2, <1>3, <2>1, <2>2 DEF ReadRoom
<1>4. CASE ReadStatus(p)
    <2>1. \A f : Derive(f).state \in ConnectionStates /\ Derive(f).path \in Paths
        BY DeriveTyped
    <2>2. view' \in [Viewers -> Seen]
        BY <1>1, <1>4, <2>1 DEF ReadStatus
    <2> QED
        BY <1>2, <1>4, <2>2 DEF ReadStatus
<1>5. CASE Store(p)
    <2>1. view[p] \in Seen
        OBVIOUS
    <2>2. shown' \in Snapshots
        BY <1>5, <2>1 DEF Store, Snapshots
    <2>3. view' \in [Viewers -> Seen]
        BY <1>1, <1>5 DEF Store
    <2> QED
        BY <1>2, <1>5, <2>2, <2>3 DEF Store
<1> QED
    BY <1>3, <1>4, <1>5

LEMMA InspectKeepsType ==
    ASSUME TypeOK, NEW p \in Calls \cup {"service"}, hung' = hung, Inspect(p)
    PROVE  TypeOK'
<1> USE DEF TypeOK, Goto
<1>1. p \in Procs
    BY TaskNames
<1>2. shown' \in Snapshots
    BY DEF Inspect, Snapshots
<1>3. pc' \in [Procs -> {"idle", "sent", "execute", "readRoom", "readStatus",
                         "store", "finish", "repair", "inspect", "answer", "done"}]
    BY <1>1 DEF Inspect
<1> QED
    BY <1>2, <1>3 DEF Inspect

LEMMA HangKeepsType ==
    ASSUME TypeOK, NEW p \in Procs, Hang(p)
    PROVE  TypeOK'
<1>1. saved' \in Rooms \cup {None, Broken} /\ daemon' \in Daemons
    BY UpTyped DEF Hang, HangsInCommand, TypeOK
<1> QED
    BY <1>1 DEF Hang, TypeOK

LEMMA NextKeepsType == TypeOK /\ KindsKnown /\ [Next]_vars => TypeOK'
<1> SUFFICES ASSUME TypeOK, KindsKnown, [Next]_vars PROVE TypeOK'
    OBVIOUS
<1>1. CASE hung' = hung /\ ~\E p \in Procs : Hang(p)
    BY <1>1, PageKeepsType, CommandKeepsType, SessionKeepsType, ViewKeepsType,
       InspectKeepsType DEF Next, Step
<1>2. (\E p \in Procs : Hang(p)) \/ hung' = hung
    BY DEF Next, Step, Click, DaemonChanges, vars
<1> QED
    BY <1>1, <1>2, HangKeepsType

-----------------------------------------------------------------------------
(* One call at a time *)

(* What the invariant says of the call c under way, ... *)
RoomShown == shown.room = saved /\ (shown.state = "NoRoom" => saved = None)

Fits(c) ==
    /\ cmd[c] # "none"
    /\ At(c, "execute") => cmd[c] # "repair"
    /\ shown.busy # "none" => c \in Working \/ At(c, "repair")
    /\ saved # Broken => c \in Behind \/ RoomShown
    /\ pc[c] \in {"readStatus", "store"} =>
          saved \in Rooms /\ view[c].room = saved /\ outcome[c].state # "NoRoom"
    /\ pc[c] = "store" => view[c].state # "NoRoom"
    /\ pc[c] = "readRoom" =>
          \/ saved \in Rooms /\ outcome[c].state # "NoRoom"
          \/ saved = None /\ outcome[c].state = "NoRoom"
    /\ pc[c] = "finish" /\ saved # Broken =>
          IF outcome[c].state = "NoRoom" THEN saved = None ELSE shown.room = saved
    /\ pc[c] \in {"inspect", "answer"} =>
          reply[c].room = shown.room /\ reply[c].state = shown.state

(* ... and of everything else. *)
Alone(c) ==
    /\ Started /\ ui.busy # "none"
    /\ ~At(c, "idle")
    /\ \A d \in Calls : d # c => At(d, "idle")

LEMMA CallFits ==
    ASSUME IInv, NEW c \in Calls, ~At(c, "idle")
    PROVE  Fits(c) /\ Alone(c)
<1> USE DEF At
<1>1. Alone(c)
    BY DEF IInv, OneAtATime, Alone
<1>2. cmd[c] # "none" /\ (At(c, "execute") => cmd[c] # "repair")
    BY DEF IInv, OneAtATime
<1>3. shown.busy # "none" => c \in Working \/ At(c, "repair")
    <2>1. \A d \in Calls : d \in Working \/ At(d, "repair") => d = c
        BY <1>1 DEF Alone, Working
    <2> QED
        BY <2>1 DEF IInv, OneAtATime
<1>4. saved # Broken => c \in Behind \/ RoomShown
    <2>1. c \in Behind \/ Behind = {}
        BY <1>1 DEF Alone, Behind
    <2>2. At("startup", "done")
        BY <1>1 DEF Alone, Started, Tasks
    <2> QED
        BY <2>1, <2>2 DEF IInv, SnapshotIsTrue, RoomShown
<1>5. /\ pc[c] \in {"readStatus", "store"} =>
            saved \in Rooms /\ view[c].room = saved /\ outcome[c].state # "NoRoom"
      /\ pc[c] = "store" => view[c].state # "NoRoom"
      /\ pc[c] = "readRoom" =>
            \/ saved \in Rooms /\ outcome[c].state # "NoRoom"
            \/ saved = None /\ outcome[c].state = "NoRoom"
      /\ pc[c] = "finish" /\ saved # Broken =>
            IF outcome[c].state = "NoRoom" THEN saved = None ELSE shown.room = saved
    BY TaskNames DEF IInv, ViewIsTrue
<1>6. pc[c] \in {"inspect", "answer"} =>
          reply[c].room = shown.room /\ reply[c].state = shown.state
    BY DEF IInv, PageAgrees
<1> QED
    BY <1>1, <1>2, <1>3, <1>4, <1>5, <1>6 DEF Fits

LEMMA FittingIsEnough ==
    ASSUME NEW c \in Calls, TypeOK', Fits(c)', Alone(c)'
    PROVE  IInv'
<1> USE DEF At
<1>1. \A d \in Calls : pc'[d] # "idle" => d = c
    BY DEF Alone
<1>2. pc'["mount"] = "done" /\ pc'["startup"] = "done" /\ pc'["service"] = "done"
    BY DEF Alone, Started, Tasks
<1>3. OneAtATime'
    <2>1. \A d \in Calls :
             /\ pc'[d] # "idle" => Started' /\ cmd'[d] # "none" /\ ui'.busy # "none"
             /\ cmd'[d] # "none" => Started'
             /\ pc'[d] = "execute" => cmd'[d] # "repair"
        BY <1>1 DEF Alone, Fits
    <2>2. shown'.busy # "none" => \E d \in Calls : d \in Working' \/ pc'[d] = "repair"
        BY DEF Fits
    <2>3. \A d, e \in Calls : pc'[d] # "idle" /\ pc'[e] # "idle" => d = e
        BY <1>1
    <2> QED
        BY <1>2, <2>1, <2>2, <2>3 DEF OneAtATime
<1>4. SnapshotIsTrue'
    BY <1>2 DEF SnapshotIsTrue, Fits, RoomShown
<1>5. ViewIsTrue'
    <2>1. \A p \in Viewers : pc'[p] \in {"readStatus", "store"} => p = c
        BY <1>1, <1>2 DEF Viewers
    <2> QED
        BY <1>1, <2>1 DEF ViewIsTrue, Fits
<1>6. PageAgrees'
    <2>1. pc'[c] # "idle"
        BY DEF Alone
    <2>2. \A d \in Calls : pc'[d] \in {"inspect", "answer"} => d = c
        BY <1>1
    <2> QED
        BY <2>1, <2>2 DEF PageAgrees, Fits
<1> QED
    BY <1>3, <1>4, <1>5, <1>6 DEF IInv

LEMMA StaysAlone ==
    ASSUME TypeOK, NEW c \in Calls, Alone(c), ui' = ui,
           NEW step, Goto(c, step), step # "idle"
    PROVE  Alone(c)'
<1>1. \A p \in Procs : pc'[p] = IF p = c THEN step ELSE pc[p]
    BY DEF TypeOK, Goto
<1>2. Started'
    BY <1>1, TaskNames DEF Alone, Started, Tasks, At
<1>3. pc'[c] # "idle" /\ \A d \in Calls : d # c => pc'[d] = "idle"
    BY <1>1, TaskNames DEF Alone, At
<1> QED
    BY <1>2, <1>3 DEF Alone, At

-----------------------------------------------------------------------------
(* The steps of a call *)

LEMMA GoesOn ==
    ASSUME TypeOK, NEW c \in Calls, NEW step, Goto(c, step)
    PROVE  pc'[c] = step
BY TaskNames DEF TypeOK, Goto

LEMMA BeginFits ==
    ASSUME TypeOK, NEW c \in Calls, Fits(c), Begin(c)
    PROVE  Fits(c)'
<1>1. pc[c] = "sent" /\ pc'[c] = "execute"
    BY GoesOn DEF Begin, At
<1>2. shown'.room = shown.room /\ (shown'.state = "NoRoom" => shown.state = "NoRoom")
    BY DEF Begin, Announce, TypeOK, Snapshots
<1>3. saved # Broken => RoomShown'
    BY <1>1, <1>2 DEF Begin, Fits, RoomShown, Behind
<1> QED
    BY <1>1, <1>3 DEF Begin, Fits, Working, At

LEMMA ExecuteFits ==
    ASSUME TypeOK, Orderly, NEW c \in Calls \ hung, Fits(c), Execute(c)
    PROVE  Fits(c)'
<1>1. pc[c] = "execute" /\ pc'[c] \in {"readRoom", "finish"}
    BY GoesOn DEF Execute, At
<1>2. saved # Broken => RoomShown
    BY <1>1 DEF Fits, Behind
<1>3. c \in Working' /\ c \in Behind'
    BY <1>1 DEF Working, Behind
<1>4. ASSUME NEW f, Answered(c, f)
      PROVE  outcome'[c].state = Derive(f).state
    BY <1>4 DEF Answered, TypeOK
<1>5. ASSUME NEW r \in Rooms, Enrols(c, r)
      PROVE  saved' \in Rooms /\ outcome'[c].state # "NoRoom"
    BY <1>4, <1>5, FactsOfRoom DEF Enrols
<1>6. CASE Succeeds(c) /\ Goto(c, "readRoom")
    <2>1. \/ saved' \in Rooms /\ outcome'[c].state # "NoRoom"
          \/ saved' = None /\ outcome'[c].state = "NoRoom"
        <3>1. CASE cmd[c] = "enter"
            BY <1>5, <1>6, <3>1 DEF Succeeds
        <3>2. CASE cmd[c] = "switch"
            BY <1>5, <1>6, <3>2 DEF Succeeds
        <3>3. CASE cmd[c] = "connect"
            BY <1>4, <1>6, <3>3, FactsOfRoom DEF Succeeds
        <3>4. CASE cmd[c] = "disconnect"
            BY <1>4, <1>6, <3>4, FactsOfRoom DEF Succeeds
        <3>5. CASE cmd[c] = "leave"
            BY <1>4, <1>6, <3>5, DeriveOfNone DEF Succeeds
        <3>6. cmd[c] \in {"enter", "switch", "connect", "disconnect", "leave"}
            BY <1>1 DEF Fits, At, TypeOK, AllKinds
        <3> QED
            BY <3>1, <3>2, <3>3, <3>4, <3>5, <3>6
    <2>2. pc'[c] = "readRoom"
        BY <1>6, GoesOn
    <2> QED
        BY <1>1, <1>3, <2>1, <2>2 DEF Execute, Fits, At
<1>7. CASE CommandFails(c) /\ Goto(c, "finish")
    <2>1. saved' = saved
        BY <1>7 DEF CommandFails, Orderly
    <2>2. outcome'[c].state = "RecoverableError"
        <3>1. \A e : Failed(e).state = "RecoverableError"
            BY DEF Failed
        <3> QED
            BY <1>7, <3>1 DEF CommandFails, TypeOK
    <2>3. pc'[c] = "finish"
        BY <1>7, GoesOn
    <2> QED
        BY <1>1, <1>2, <1>3, <2>1, <2>2, <2>3 DEF Execute, Fits, RoomShown, At
<1> QED
    BY <1>6, <1>7 DEF Execute

LEMMA FinishFits ==
    ASSUME TypeOK, NEW c \in Calls, Fits(c), Finish(c)
    PROVE  Fits(c)'
<1>1. pc[c] = "finish" /\ pc'[c] = "answer"
    BY GoesOn DEF Finish, At
<1>2. /\ shown'.busy = "none"
      /\ shown'.state = outcome[c].state
      /\ shown'.room = IF outcome[c].state = "NoRoom" THEN None ELSE shown.room
    BY DEF Finish, Merge, ClearActiveRoom, TypeOK, Snapshots
<1>3. reply'[c] = shown'
    BY DEF Finish, TypeOK
<1>4. saved # Broken => RoomShown'
    BY <1>1, <1>2 DEF Finish, Fits, RoomShown
<1> QED
    BY <1>1, <1>2, <1>3, <1>4 DEF Finish, Fits, At

LEMMA ReadRoomFits ==
    ASSUME TypeOK, NEW c \in Calls, Fits(c), ReadRoom(c)
    PROVE  Fits(c)'
<1>1. pc[c] = "readRoom" /\ pc'[c] = IF saved \in Rooms THEN "readStatus" ELSE "finish"
    BY GoesOn, TaskNames, ControllerAssumption DEF ReadRoom, Viewed, At
<1>2. c \in Working' /\ c \in Behind'
    BY <1>1 DEF Working, Behind
<1>3. \/ saved \in Rooms /\ outcome[c].state # "NoRoom"
      \/ saved = None /\ outcome[c].state = "NoRoom"
    BY <1>1 DEF Fits
<1>4. saved \in Rooms => view'[c].room = saved
    BY TaskNames DEF ReadRoom, TypeOK
<1> QED
    BY <1>1, <1>2, <1>3, <1>4, ControllerAssumption DEF ReadRoom, Fits, At

LEMMA ReadStatusFits ==
    ASSUME TypeOK, Orderly, NEW c \in Calls, Fits(c), ReadStatus(c)
    PROVE  Fits(c)'
<1> DEFINE o == Derive([StatusFacts(daemon) EXCEPT !.membershipKnown = TRUE,
                                                  !.others = Cardinality(daemon.peers)])
<1>1. /\ view' = [view EXCEPT ![c].state = o.state, ![c].path = o.path]
      /\ Goto(c, "store")
    BY DEF ReadStatus, Orderly
<1>2. pc[c] = "readStatus" /\ pc'[c] = "store"
    BY <1>1, GoesOn DEF ReadStatus, At
<1>3. o.state # "NoRoom"
    BY FactsOfRoom
<1> HIDE DEF o
<1>4. view'[c].state = o.state /\ view'[c].room = view[c].room
    BY <1>1, TaskNames DEF TypeOK
<1> QED
    BY <1>2, <1>3, <1>4 DEF ReadStatus, Fits, Working, Behind, At

LEMMA StoreFits ==
    ASSUME TypeOK, NEW c \in Calls, Fits(c), Store(c)
    PROVE  Fits(c)'
<1>1. pc[c] = "store" /\ pc'[c] = "finish"
    BY GoesOn, TaskNames DEF Store, Viewed, Tasks, At
<1>2. shown'.room = view[c].room /\ shown'.busy = shown.busy
    BY DEF Store, TypeOK, Snapshots
<1> QED
    BY <1>1, <1>2 DEF Store, Fits, Working, Behind, At

LEMMA RepairFits ==
    ASSUME TypeOK, NEW c \in Calls, Fits(c), Repair(c)
    PROVE  Fits(c)'
<1>1. pc[c] = "sent" /\ pc'[c] = "repair"
    BY GoesOn DEF Repair, At
<1>2. shown'.room = shown.room /\ shown'.state = shown.state
    BY DEF Repair, TypeOK, Snapshots
<1>3. saved # Broken => RoomShown'
    BY <1>1, <1>2 DEF Repair, Fits, RoomShown, Behind
<1> QED
    BY <1>1, <1>3 DEF Repair, Fits, At

LEMMA RepairEndsFits ==
    ASSUME TypeOK, NEW c \in Calls, Fits(c), RepairEnds(c)
    PROVE  Fits(c)'
<1>1. pc[c] = "repair" /\ pc'[c] \in {"inspect", "answer"}
    BY GoesOn DEF RepairEnds, At
<1>2. shown'.room = shown.room /\ shown'.state = shown.state /\ shown'.busy = "none"
    BY DEF RepairEnds, TypeOK, Snapshots
<1>3. saved # Broken => RoomShown'
    BY <1>1, <1>2 DEF RepairEnds, Fits, RoomShown, Behind
<1>4. reply'[c] = shown'
    BY DEF RepairEnds, TypeOK
<1> QED
    BY <1>1, <1>2, <1>3, <1>4 DEF RepairEnds, Fits, At

LEMMA InspectFits ==
    ASSUME TypeOK, NEW c \in Calls, Fits(c), Inspect(c)
    PROVE  Fits(c)'
<1>1. pc[c] = "inspect" /\ pc'[c] = "answer"
    BY GoesOn, TaskNames DEF Inspect, Tasks, At
<1>2. shown'.room = shown.room /\ shown'.state = shown.state /\ shown'.busy = shown.busy
    BY DEF Inspect, TypeOK, Snapshots
<1>3. saved # Broken => RoomShown'
    BY <1>1, <1>2 DEF Inspect, Fits, RoomShown, Behind
<1> QED
    BY <1>1, <1>2, <1>3 DEF Inspect, Fits, Working, At

(* A call that goes on and fits keeps the invariant. *)
LEMMA CallKeepsInv ==
    ASSUME IInv, Orderly, TypeOK', NEW c \in Calls \ hung,
           \/ Begin(c) \/ Conflict(c) \/ Execute(c) \/ Finish(c)
           \/ Repair(c) \/ RepairEnds(c)
           \/ ReadRoom(c) \/ ReadStatus(c) \/ Store(c) \/ Inspect(c)
    PROVE  IInv'
<1>1. TypeOK /\ Fits(c) /\ Alone(c)
    <2>1. ~At(c, "idle")
        BY DEF At, Begin, Conflict, Execute, Finish, Repair, RepairEnds,
               ReadRoom, ReadStatus, Store, Inspect
    <2> QED
        BY <2>1, CallFits DEF IInv
<1>2. ~Conflict(c)
    BY <1>1 DEF Conflict, Idle, Fits, Working, At
<1>3. Fits(c)'
    BY <1>1, <1>2, BeginFits, ExecuteFits, FinishFits, RepairFits, RepairEndsFits,
       ReadRoomFits, ReadStatusFits, StoreFits, InspectFits
<1>4. ui' = ui
    BY DEF Begin, Conflict, Execute, Finish, Repair, RepairEnds,
           ReadRoom, ReadStatus, Store, Inspect
<1>5. \E step : Goto(c, step) /\ step # "idle"
    <2>1. c # "startup" /\ c # "service"
        BY TaskNames DEF Tasks
    <2>2. CASE ReadRoom(c) \/ ReadStatus(c) \/ Store(c)
        BY <2>1, <2>2 DEF ReadRoom, ReadStatus, Store, Viewed
    <2>3. CASE RepairEnds(c)
        <3>1. PICK ok \in BOOLEAN : Goto(c, IF ok THEN "inspect" ELSE "answer")
            BY <2>3 DEF RepairEnds
        <3>2. (IF ok THEN "inspect" ELSE "answer") # "idle"
            OBVIOUS
        <3> QED
            BY <3>1, <3>2
    <2>4. CASE Inspect(c)
        BY <2>1, <2>4 DEF Inspect
    <2>5. CASE Begin(c) \/ Execute(c) \/ Finish(c) \/ Repair(c)
        BY <2>5 DEF Begin, Execute, Finish, Repair
    <2> QED
        BY <1>2, <2>2, <2>3, <2>4, <2>5
<1>6. Alone(c)'
    BY <1>1, <1>4, <1>5, StaysAlone
<1> QED
    BY <1>3, <1>6, FittingIsEnough

(* A call that hangs is behind: it may have changed what is saved. *)
LEMMA HangKeepsInv ==
    ASSUME IInv, TypeOK', NEW p \in Procs, Hang(p)
    PROVE  IInv'
<1> USE DEF At
<1>1. UNCHANGED <<shown, ui, pc, cmd, outcome, view, reply>>
    BY DEF Hang
<1>2. CASE p \in Calls
    <2>1. Fits(p) /\ Alone(p)
        BY <1>2, CallFits DEF Hang, HangsInCommand
    <2>2. Alone(p)'
        BY <1>1, <2>1 DEF Alone, Started
    <2>3. CASE HangsInCommand(p)
        <3>1. pc'[p] = "execute" /\ p \in Behind' /\ Working' = Working
            BY <1>1, <1>2, <2>3 DEF Hang, HangsInCommand, Behind, Working
        <3>2. Fits(p)'
            BY <1>1, <2>1, <3>1 DEF Fits
        <3> QED
            BY <1>2, <2>2, <3>2, FittingIsEnough
    <2>4. CASE ~HangsInCommand(p)
        <3>1. pc[p] \in {"readStatus", "inspect"} /\ UNCHANGED saved
            BY <2>4 DEF Hang
        <3>2. Working' = Working /\ (p \in Behind => p \in Behind')
            BY <1>1, <1>2 DEF Hang, Behind, Working
        <3>3. Fits(p)'
            BY <1>1, <2>1, <3>1, <3>2 DEF Fits, RoomShown
        <3> QED
            BY <1>2, <2>2, <3>3, FittingIsEnough
    <2> QED
        BY <2>3, <2>4
<1>3. CASE p \notin Calls
    <2>1. UNCHANGED saved /\ Behind' = Behind
        BY <1>1, <1>3 DEF Hang, Behind
    <2> QED
        BY <1>1, <2>1 DEF IInv, OneAtATime, SnapshotIsTrue, ViewIsTrue, PageAgrees,
                          Started, Working
<1> QED
    BY <1>2, <1>3

-----------------------------------------------------------------------------
(* The user and the page *)

LEMMA ClickKeepsInv ==
    ASSUME IInv, Orderly, TypeOK', NEW c \in Calls, NEW k \in Kinds, Click(c, k)
    PROVE  IInv'
<1> USE DEF At
<1>1. \A d \in Calls : pc[d] = "idle"
    BY DEF Click, Offered, IInv, OneAtATime
<1>2. Started
    BY DEF Click, Orderly
<1>3. pc'[c] = "sent" /\ \A p \in Procs : p # c => pc'[p] = pc[p]
    BY TaskNames DEF Click, Goto, IInv, TypeOK
<1>4. cmd'[c] = k /\ ui'.busy = k /\ k # "none"
    BY ControllerAssumption DEF Click, IInv, TypeOK, Snapshots, AllKinds
<1>5. shown.busy = "none"
    BY <1>1 DEF IInv, OneAtATime, Working
<1>6. saved # Broken => RoomShown
    BY <1>1, <1>2 DEF IInv, SnapshotIsTrue, Behind, RoomShown, Started, Tasks
<1>7. Fits(c)'
    BY <1>3, <1>4, <1>5, <1>6 DEF Click, Fits, RoomShown
<1>8. Alone(c)'
    <2>1. Started'
        BY <1>2, <1>3, TaskNames DEF Started, Tasks
    <2> QED
        BY <1>1, <1>3, <1>4, <2>1, TaskNames DEF Alone
<1> QED
    BY <1>7, <1>8, FittingIsEnough

LEMMA ReplyKeepsInv ==
    ASSUME IInv, TypeOK', NEW c \in Calls, Deliver(c)
    PROVE  IInv'
<1> USE DEF At
<1>1. pc[c] = "answer" /\ Fits(c) /\ Alone(c) /\ c # "mount"
    BY CallFits, TaskNames DEF Deliver, Tasks
<1>2. \A p \in Procs : pc'[p] = IF p = c THEN "idle" ELSE pc[p]
    BY <1>1 DEF Deliver, Goto, IInv, TypeOK
<1>3. \A d \in Calls : pc'[d] = "idle"
    BY <1>1, <1>2, TaskNames DEF Alone
<1>4. pc'["mount"] = "done" /\ pc'["startup"] = "done" /\ pc'["service"] = "done"
    BY <1>1, <1>2, TaskNames DEF Alone, Started, Tasks
<1>5. OneAtATime'
    <2>1. Started'
        BY <1>4 DEF Started, Tasks
    <2>2. shown'.busy = "none"
        BY <1>1 DEF Deliver, Fits, Working
    <2> QED
        BY <1>3, <1>4, <2>1, <2>2 DEF OneAtATime
<1>6. SnapshotIsTrue'
    BY <1>1, <1>4 DEF Deliver, Fits, Behind, RoomShown, SnapshotIsTrue
<1>7. ViewIsTrue'
    BY <1>3, <1>4 DEF ViewIsTrue, Viewers
<1>8. PageAgrees'
    BY <1>1, <1>3 DEF Deliver, Fits, PageAgrees
<1> QED
    BY <1>5, <1>6, <1>7, <1>8 DEF IInv

-----------------------------------------------------------------------------
(* The start-up, while which no call is sent *)

LEMMA NothingSent ==
    ASSUME IInv, ~Started
    PROVE  /\ \A c \in Calls : pc[c] = "idle" /\ cmd[c] = "none"
           /\ shown.busy = "none"
<1>1. \A c \in Calls : pc[c] = "idle" /\ cmd[c] = "none"
    BY DEF IInv, OneAtATime, At
<1> QED
    BY <1>1 DEF IInv, OneAtATime, Working, At

(* It is enough that a task leaves the calls alone and the snapshot, and what
   the first view has read, true. *)
LEMMA StartingIsEnough ==
    ASSUME IInv, ~Started, TypeOK', NEW t \in Tasks, NEW step, Goto(t, step),
           cmd' = cmd, shown'.busy = "none", SnapshotIsTrue',
           pc'["mount"] \in {"sent", "answer", "done"},
           pc'["startup"] \in {"readRoom", "readStatus", "store", "done"},
           pc'["service"] \in {"inspect", "done"},
           pc'["startup"] \in {"readStatus", "store"} =>
               saved' \in Rooms /\ view'["startup"].room = saved',
           pc'["startup"] = "store" => view'["startup"].state # "NoRoom"
    PROVE  IInv'
<1> USE DEF At
<1>1. \A c \in Calls : pc'[c] = "idle" /\ cmd'[c] = "none"
    BY NothingSent, TaskNames DEF Goto, IInv, TypeOK
<1>2. OneAtATime'
    BY <1>1 DEF OneAtATime
<1>3. ViewIsTrue'
    BY <1>1 DEF ViewIsTrue, Viewers
<1>4. PageAgrees'
    BY <1>1 DEF PageAgrees
<1> QED
    BY <1>2, <1>3, <1>4 DEF IInv

LEMMA TaskKeepsInv ==
    ASSUME IInv, Orderly, TypeOK',
           \/ GetState \/ Deliver("mount")
           \/ ReadRoom("startup") \/ ReadStatus("startup") \/ Store("startup")
           \/ Inspect("service")
    PROVE  IInv'
<1> USE DEF At
<1>1. ~Started
    BY DEF Started, Tasks, GetState, Deliver, ReadRoom, ReadStatus, Store, Inspect
<1>2. TypeOK /\ OneAtATime /\ SnapshotIsTrue /\ ViewIsTrue
    BY DEF IInv
<1>3. shown.busy = "none" /\ \A c \in Calls : pc[c] = "idle" /\ cmd[c] = "none"
    BY <1>1, NothingSent
<1>4. Behind = {}
    BY <1>3 DEF Behind
<1>5. ASSUME NEW t \in Tasks, NEW step, Goto(t, step)
      PROVE  \A p \in Procs : pc'[p] = IF p = t THEN step ELSE pc[p]
    BY <1>2, <1>5, TaskNames DEF Goto, TypeOK
<1>6. /\ pc["startup"] \in {"readStatus", "store"} =>
            saved \in Rooms /\ view["startup"].room = saved
      /\ pc["startup"] = "store" => view["startup"].state # "NoRoom"
    BY <1>2 DEF ViewIsTrue, Viewers
<1>7. CASE GetState \/ Deliver("mount")
    <2>1. PICK step \in {"answer", "done"} : Goto("mount", step)
        BY <1>7 DEF GetState, Deliver
    <2>2. /\ pc'["mount"] = step
          /\ \A p \in Procs : p # "mount" => pc'[p] = pc[p]
        BY <1>5, <2>1, TaskNames DEF Tasks
    <2>3. UNCHANGED <<saved, shown, cmd, view>>
        BY <1>7 DEF GetState, Deliver
    <2>4. SnapshotIsTrue'
        <3>1. pc'["startup"] = pc["startup"]
            BY <2>2, TaskNames DEF Tasks
        <3> QED
            BY <1>2, <1>4, <2>3, <3>1 DEF SnapshotIsTrue
    <2>5. pc'["startup"] = pc["startup"] /\ pc'["service"] = pc["service"]
        BY <2>2, TaskNames DEF Tasks
    <2>6. "mount" \in Tasks
        BY DEF Tasks
    <2> QED
        BY <1>1, <1>2, <1>3, <1>6, <2>1, <2>2, <2>3, <2>4, <2>5, <2>6, StartingIsEnough
           DEF OneAtATime
<1>8. CASE Inspect("service")
    <2>1. Goto("service", "done") /\ "service" \in Tasks
        BY <1>8 DEF Inspect, Tasks
    <2>2. /\ pc'["service"] = "done"
          /\ pc'["mount"] = pc["mount"] /\ pc'["startup"] = pc["startup"]
        BY <1>5, <2>1, TaskNames
    <2>3. /\ UNCHANGED <<saved, cmd, view>>
          /\ shown'.room = shown.room /\ shown'.state = shown.state
          /\ shown'.busy = shown.busy
        BY <1>2, <1>8 DEF Inspect, TypeOK, Snapshots
    <2>4. SnapshotIsTrue'
        BY <1>2, <1>4, <2>2, <2>3 DEF SnapshotIsTrue
    <2> QED
        BY <1>1, <1>2, <1>3, <1>6, <2>1, <2>2, <2>3, <2>4, StartingIsEnough
           DEF OneAtATime
<1>9. ASSUME NEW step \in {"readStatus", "store", "done"}, Goto("startup", step)
      PROVE  /\ "startup" \in Tasks
             /\ pc'["startup"] = step
             /\ pc'["mount"] = pc["mount"] /\ pc'["service"] = pc["service"]
    BY <1>5, <1>9, TaskNames DEF Tasks
<1>10. CASE ReadRoom("startup") /\ saved \in Rooms
    <2>1. /\ view' = [view EXCEPT !["startup"].room = saved]
          /\ Goto("startup", "readStatus")
          /\ UNCHANGED <<saved, shown, cmd>>
        BY <1>10 DEF ReadRoom
    <2>2. view'["startup"].room = saved
        BY <1>2, <2>1, TaskNames DEF TypeOK
    <2>3. pc["startup"] = "readRoom"
        BY <1>10 DEF ReadRoom
    <2>4. SnapshotIsTrue'
        BY <1>2, <1>9, <2>1, <2>3 DEF SnapshotIsTrue
    <2>5. /\ "startup" \in Tasks
          /\ pc'["startup"] = "readStatus"
          /\ pc'["mount"] \in {"sent", "answer", "done"}
          /\ pc'["service"] \in {"inspect", "done"}
        BY <1>2, <1>9, <2>1 DEF OneAtATime
    <2>6. saved' \in Rooms /\ view'["startup"].room = saved' /\ shown'.busy = "none"
        BY <1>3, <1>10, <2>1, <2>2
    <2> QED
        BY <1>1, <2>1, <2>4, <2>5, <2>6, StartingIsEnough
<1>11. CASE ReadRoom("startup") /\ saved \notin Rooms
    <2>1. /\ Goto("startup", "done")
          /\ UNCHANGED <<saved, cmd, view>>
          /\ shown' = IF saved = None THEN shown
                      ELSE [shown EXCEPT !.state = "RecoverableError", !.error = "failed"]
        BY <1>11 DEF ReadRoom, Viewed
    <2>2. [shown EXCEPT !.state = "RecoverableError", !.error = "failed"].busy = "none"
        BY <1>2, <1>3 DEF TypeOK, Snapshots
    <2>3. /\ shown'.busy = "none"
          /\ saved # Broken => saved = None /\ shown' = shown
        BY <1>2, <1>3, <1>11, <2>1, <2>2 DEF TypeOK
    <2>4. pc["startup"] = "readRoom"
        BY <1>11 DEF ReadRoom
    <2>5. SnapshotIsTrue'
        BY <1>2, <1>9, <2>1, <2>3, <2>4 DEF SnapshotIsTrue
    <2> QED
        BY <1>1, <1>2, <1>3, <1>9, <2>1, <2>3, <2>5, StartingIsEnough DEF OneAtATime
<1>12. CASE ReadStatus("startup")
    <2> DEFINE o == Derive([StatusFacts(daemon) EXCEPT !.membershipKnown = TRUE,
                                                      !.others = Cardinality(daemon.peers)])
    <2>1. /\ view' = [view EXCEPT !["startup"].state = o.state, !["startup"].path = o.path]
          /\ Goto("startup", "store")
          /\ UNCHANGED <<saved, shown, cmd>>
        BY <1>12 DEF ReadStatus, Orderly
    <2>2. o.state # "NoRoom"
        BY FactsOfRoom
    <2> HIDE DEF o
    <2>3. pc["startup"] = "readStatus"
        BY <1>12 DEF ReadStatus
    <2>4. view'["startup"].state = o.state /\ view'["startup"].room = view["startup"].room
        BY <1>2, <2>1, TaskNames DEF TypeOK
    <2>5. SnapshotIsTrue'
        BY <1>2, <1>9, <2>1, <2>3 DEF SnapshotIsTrue
    <2> QED
        BY <1>1, <1>2, <1>3, <1>6, <1>9, <2>1, <2>2, <2>3, <2>4, <2>5, StartingIsEnough
           DEF OneAtATime
<1>13. CASE Store("startup")
    <2>1. /\ Goto("startup", "done")
          /\ UNCHANGED <<saved, cmd>>
          /\ shown'.busy = "none"
          /\ shown'.room = view["startup"].room /\ shown'.state = view["startup"].state
        BY <1>2, <1>3, <1>13 DEF Store, Viewed, TypeOK, Snapshots
    <2>2. pc["startup"] = "store"
        BY <1>13 DEF Store
    <2>3. SnapshotIsTrue'
        BY <1>6, <1>9, <2>1, <2>2 DEF SnapshotIsTrue
    <2> QED
        BY <1>1, <1>2, <1>3, <1>9, <2>1, <2>3, StartingIsEnough DEF OneAtATime
<1> QED
    BY <1>7, <1>8, <1>10, <1>11, <1>12, <1>13

-----------------------------------------------------------------------------
LEMMA NextKeepsInv == Orderly /\ IInv /\ [Next]_vars => IInv'
<1> SUFFICES ASSUME Orderly, IInv, [Next]_vars PROVE IInv'
    OBVIOUS
<1>1. TypeOK'
    BY NextKeepsType DEF IInv, OneAtATime, KindsKnown
<1>2. CASE \E c \in Calls, k \in Kinds : Click(c, k)
    BY <1>1, <1>2, ClickKeepsInv
<1>3. CASE DaemonChanges \/ UNCHANGED vars
    <2>1. UNCHANGED <<saved, shown, ui, pc, cmd, outcome, view, reply, hung>>
        BY <1>3 DEF DaemonChanges, vars
    <2> QED
        BY <1>1, <2>1 DEF IInv, OneAtATime, SnapshotIsTrue, ViewIsTrue, PageAgrees,
                          At, Started, Working, Behind
<1>4. ASSUME NEW p \in Procs, Step(p) PROVE IInv'
    <2>1. CASE p \in Calls
        BY <1>1, <1>4, <2>1, CallKeepsInv, ReplyKeepsInv, TaskNames DEF Step, Tasks
    <2>2. CASE p \notin Calls
        BY <1>1, <1>4, <2>2, TaskKeepsInv DEF Step, Viewers
    <2> QED
        BY <2>1, <2>2
<1>5. ASSUME NEW p \in Procs, Hang(p) PROVE IInv'
    BY <1>1, <1>5, HangKeepsInv
<1> QED
    BY <1>2, <1>3, <1>4, <1>5 DEF Next

(* Under Orderly, every state of the controller and its page satisfies the
   inductive invariant: one call at a time (the buttons of App.tsx), a snapshot
   that is behind only between the effect of a command and its merge, a view
   that agrees with what the command was told (runCommand and refreshRoomView
   of controller.go), and a reply that is still what the controller shows. *)
THEOREM InvariantHolds == Orderly => (Spec => []IInv)
<1> SUFFICES ASSUME Orderly PROVE Spec => []IInv
    OBVIOUS
<1>1. Init => IInv
    BY InitInv
<1>2. IInv /\ [Next]_vars => IInv'
    BY NextKeepsInv
<1> QED
    BY <1>1, <1>2, PTL DEF Spec

(* Once every call is answered the controller shows the saved room and no other,
   does not say NoRoom of a saved room, and the page agrees with it: what
   clearActiveRoom, refreshRoomView and the merge of runCommand leave together,
   when the daemon answers the view, a switch does not fail half-way and the
   user waits for the start-up. *)
THEOREM SettlesOnTheTruth == Orderly => (Spec => []SettledIsTrue)
<1>1. IInv => SettledIsTrue
    <2> SUFFICES ASSUME IInv, Quiet, saved # Broken
                 PROVE  /\ shown.room = saved
                        /\ shown.state = "NoRoom" => saved = None
                        /\ (\E c \in Calls : cmd[c] # "none") =>
                              ui.room = shown.room /\ ui.state = shown.state
        BY DEF SettledIsTrue
    <2>1. At("startup", "done") /\ Behind = {}
        BY DEF Quiet, Started, Tasks, Behind, At
    <2> QED
        BY <2>1 DEF IInv, SnapshotIsTrue, PageAgrees, Quiet
<1> QED
    BY <1>1, InvariantHolds, PTL

-----------------------------------------------------------------------------
(* Commands by themselves, however early the user clicks *)

LEMMA NextKeepsKinds == TypeOK /\ KindsKnown /\ [Next]_vars => KindsKnown'
<1> SUFFICES ASSUME TypeOK, KindsKnown, [Next]_vars,
                    NEW c \in Calls
             PROVE  /\ pc'[c] # "idle" => cmd'[c] # "none"
                    /\ pc'[c] = "execute" => cmd'[c] # "repair"
    BY DEF KindsKnown, At
<1> USE DEF At
<1>1. ASSUME NEW d \in Calls, NEW k \in Kinds, Click(d, k)
      PROVE  /\ pc'[c] # "idle" => cmd'[c] # "none"
             /\ pc'[c] = "execute" => cmd'[c] # "repair"
    <2>1. /\ pc'[d] = "sent" /\ cmd'[d] = k /\ k # "none"
          /\ c # d => pc'[c] = pc[c] /\ cmd'[c] = cmd[c]
        BY <1>1, TaskNames, ControllerAssumption DEF Click, Goto, TypeOK, AllKinds
    <2> QED
        BY <2>1 DEF KindsKnown
<1>2. ASSUME NEW p \in Procs, Step(p)
      PROVE  /\ pc'[c] # "idle" => cmd'[c] # "none"
             /\ pc'[c] = "execute" => cmd'[c] # "repair"
    <2>1. cmd' = cmd
        BY <1>2 DEF Step, Begin, Conflict, Execute, Finish, Repair, RepairEnds, Inspect,
                    ReadRoom, ReadStatus, Store, Deliver, GetState
    <2>2. CASE c = p
        <3>1. pc[c] # "idle"
            BY <1>2, <2>2 DEF Step, Begin, Conflict, Execute, Finish, Repair, RepairEnds,
                              Inspect, ReadRoom, ReadStatus, Store, Deliver, GetState
        <3>2. pc'[c] = "execute" => Begin(c)
            BY <1>2, <2>2, GoesOn
               DEF Step, Conflict, Execute, Finish, Repair, RepairEnds, Inspect,
                   ReadRoom, ReadStatus, Store, Viewed, Deliver, GetState
        <3> QED
            BY <2>1, <3>1, <3>2 DEF KindsKnown, Begin
    <2>3. CASE c # p
        <3>1. \E step : Goto(p, step)
            BY <1>2 DEF Step, Begin, Conflict, Execute, Finish, Repair, RepairEnds, Inspect,
                        ReadRoom, ReadStatus, Store, Viewed, Deliver, GetState
        <3>2. pc'[c] = pc[c]
            BY <2>3, <3>1, TaskNames DEF Goto, TypeOK
        <3> QED
            BY <2>1, <3>2 DEF KindsKnown
    <2> QED
        BY <2>2, <2>3
<1>3. CASE DaemonChanges \/ UNCHANGED vars \/ \E p \in Procs : Hang(p)
    BY <1>3 DEF DaemonChanges, vars, Hang, KindsKnown
<1> QED
    BY <1>1, <1>2, <1>3 DEF Next

(* Every call of the controller and every task of its start-up leaves values of
   their types: a busy mark is a command or none, a view is of a room or none. *)
THEOREM TypeCorrect == Spec => []TypeOK
<1>1. Init => TypeOK /\ KindsKnown
    <2>1. Init => IInv
        BY InitInv
    <2> QED
        BY <2>1 DEF IInv, OneAtATime, KindsKnown
<1>2. TypeOK /\ KindsKnown /\ [Next]_vars => (TypeOK /\ KindsKnown)'
    BY NextKeepsType, NextKeepsKinds
<1> QED
    BY <1>1, <1>2, PTL DEF Spec

(* While nobody repairs the service, at most one command is inside, and the
   busy mark is there exactly while it is. *)
Alternate ==
    /\ \A c \in Calls : cmd[c] # "repair" /\ ~At(c, "repair")
    /\ \A c, d \in Working : c = d
    /\ shown.busy # "none" <=> Working # {}

LEMMA NextAlternates ==
    ASSUME "repair" \notin Kinds, TypeOK, KindsKnown, Alternate, [Next]_vars
    PROVE  Alternate'
<1> USE DEF At
<1>1. ASSUME Working' = Working, shown'.busy = shown.busy,
             \A c \in Calls : cmd'[c] # "repair" /\ pc'[c] # "repair"
      PROVE  Alternate'
    BY <1>1 DEF Alternate
<1>2. ASSUME NEW p, NEW step, Goto(p, step)
      PROVE  \A c \in Calls : pc'[c] = IF c = p THEN step ELSE pc[c]
    BY <1>2, TaskNames DEF Goto, TypeOK
<1>3. ASSUME NEW c \in Calls, NEW k \in Kinds, Click(c, k)
      PROVE  Alternate'
    <2>1. pc[c] = "idle" /\ \A d \in Calls : pc'[d] = IF d = c THEN "sent" ELSE pc[d]
        BY <1>2, <1>3 DEF Click
    <2>2. Working' = Working
        BY <2>1 DEF Working
    <2>3. \A d \in Calls : cmd'[d] # "repair"
        BY <1>3 DEF Click, TypeOK, Alternate
    <2> QED
        BY <1>1, <1>3, <2>1, <2>2, <2>3 DEF Click, Alternate
<1>4. ASSUME NEW c \in Calls, Begin(c)
      PROVE  Alternate'
    <2>1. Working = {}
        BY <1>4 DEF Begin, Idle, Alternate
    <2>2. \A d \in Calls : pc'[d] = IF d = c THEN "execute" ELSE pc[d]
        BY <1>2, <1>4 DEF Begin
    <2>3. Working' = {c}
        BY <2>1, <2>2 DEF Working
    <2>4. shown'.busy # "none"
        BY <1>4 DEF Begin, Announce, KindsKnown, TypeOK, Snapshots
    <2> QED
        BY <1>4, <2>2, <2>3, <2>4 DEF Begin, Alternate
<1>5. ASSUME NEW c \in Calls, Finish(c)
      PROVE  Alternate'
    <2>1. Working = {c}
        BY <1>5 DEF Finish, Working, Alternate
    <2>2. \A d \in Calls : pc'[d] = IF d = c THEN "answer" ELSE pc[d]
        BY <1>2, <1>5 DEF Finish
    <2>3. Working' = {}
        BY <2>1, <2>2 DEF Working
    <2>4. shown'.busy = "none"
        BY <1>5 DEF Finish, Merge, ClearActiveRoom, TypeOK, Snapshots
    <2> QED
        BY <1>5, <2>2, <2>3, <2>4 DEF Finish, Alternate
<1>6. ASSUME NEW c \in Calls,
             Conflict(c) \/ Execute(c) \/ Inspect(c) \/ Deliver(c)
                \/ ReadRoom(c) \/ ReadStatus(c) \/ Store(c)
      PROVE  Alternate'
    <2>1. c # "startup" /\ c # "service" /\ c # "mount"
        BY TaskNames DEF Tasks
    <2>2. \E step : /\ Goto(c, step) /\ step # "repair"
                    /\ LET inside == {"execute", "readRoom", "readStatus", "store", "finish"}
                       IN  step \in inside <=> pc[c] \in inside
        <3>1. CASE Conflict(c)
            BY <3>1 DEF Conflict
        <3>2. CASE Execute(c)
            BY <3>2 DEF Execute
        <3>3. CASE Inspect(c)
            <4>1. Goto(c, "answer") /\ pc[c] = "inspect"
                BY <2>1, <3>3 DEF Inspect
            <4> QED
                BY <4>1
        <3>7. CASE Deliver(c)
            <4>1. Goto(c, "idle") /\ pc[c] = "answer"
                BY <2>1, <3>7 DEF Deliver
            <4> QED
                BY <4>1
        <3>4. CASE ReadRoom(c)
            BY <2>1, <3>4 DEF ReadRoom, Viewed
        <3>5. CASE ReadStatus(c)
            BY <2>1, <3>5 DEF ReadStatus, Viewed
        <3>6. CASE Store(c)
            BY <2>1, <3>6 DEF Store, Viewed
        <3> QED
            BY <1>6, <3>1, <3>2, <3>3, <3>4, <3>5, <3>6, <3>7
    <2>3. Working' = Working /\ \A d \in Calls : pc'[d] # "repair"
        BY <1>2, <2>2 DEF Working, Alternate
    <2>4. shown'.busy = shown.busy /\ cmd' = cmd
        BY <1>6, TaskNames DEF Conflict, Execute, Inspect, Deliver, ReadRoom, ReadStatus,
                               Store, TypeOK, Snapshots
    <2> QED
        BY <1>1, <2>3, <2>4 DEF Alternate
<1>7. CASE \/ Inspect("service") \/ Deliver("mount") \/ GetState
           \/ ReadRoom("startup") \/ ReadStatus("startup") \/ Store("startup")
    <2>1. \E t \in Tasks : \E step : Goto(t, step)
        BY <1>7 DEF Inspect, Deliver, GetState, ReadRoom, ReadStatus, Store, Viewed, Tasks
    <2>2. \A c \in Calls : pc'[c] = pc[c]
        BY <1>2, <2>1, TaskNames
    <2>3. shown'.busy = shown.busy /\ cmd' = cmd
        BY <1>7 DEF Inspect, Deliver, GetState, ReadRoom, ReadStatus, Store,
                    TypeOK, Snapshots
    <2> QED
        BY <1>1, <2>2, <2>3 DEF Working, Alternate
<1>8. CASE DaemonChanges \/ UNCHANGED vars \/ \E p \in Procs : Hang(p)
    BY <1>1, <1>8 DEF DaemonChanges, vars, Hang, Working, Alternate
<1>9. \A c \in Calls : ~Repair(c) /\ ~RepairEnds(c)
    BY DEF Repair, RepairEnds, Alternate
<1> QED
    BY <1>3, <1>4, <1>5, <1>6, <1>7, <1>8, <1>9 DEF Next, Step, Procs, Tasks, Viewers

(* runCommand lets one command at a time into the session, however late the page
   learns of it, and its busy mark is neither lost while the command works nor
   left behind by a path that returns early; provided that the service is not
   repaired meanwhile, which takes no notice of the mark. *)
THEOREM OneCommandAtATime == "repair" \notin Kinds => (Spec => []OneCommand)
<1> SUFFICES ASSUME "repair" \notin Kinds PROVE Spec => []OneCommand
    OBVIOUS
<1>1. Init => Alternate
    <2> SUFFICES ASSUME Init PROVE Alternate
        OBVIOUS
    <2>1. \A c \in Calls : pc[c] = "idle" /\ cmd[c] = "none"
        BY TaskNames DEF Init, Tasks
    <2>2. shown.busy = "none"
        BY DEF Init, Unread
    <2> QED
        BY <2>1, <2>2 DEF Alternate, Working, At
<1>2. TypeOK /\ KindsKnown /\ Alternate /\ [Next]_vars => Alternate'
    BY NextAlternates
<1>3. Alternate => OneCommand
    <2> SUFFICES ASSUME Alternate PROVE Cardinality(Working) <= 1
        BY DEF Alternate, OneCommand
    <2>1. Working = {} \/ \E c \in Working : Working = {c}
        BY DEF Alternate
    <2>2. CASE Working = {}
        BY <2>2, FS_EmptySet
    <2>3. ASSUME NEW c \in Working, Working = {c} PROVE Cardinality(Working) <= 1
        <3>1. Cardinality({c}) = 1
            BY FS_Singleton
        <3> QED
            BY <2>3, <3>1
    <2> QED
        BY <2>1, <2>2, <2>3
<1>4. Init => TypeOK /\ KindsKnown
    <2>1. Init => IInv
        BY InitInv
    <2> QED
        BY <2>1 DEF IInv, OneAtATime, KindsKnown
<1>5. TypeOK /\ KindsKnown /\ [Next]_vars => (TypeOK /\ KindsKnown)'
    BY NextKeepsType, NextKeepsKinds
<1> QED
    BY <1>1, <1>2, <1>3, <1>4, <1>5, PTL DEF Spec
=============================================================================
