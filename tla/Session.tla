------------------------------ MODULE Session ------------------------------
(***************************************************************************)
(* The room session of the desktop client, session.Service: the commands   *)
(* Create, Join, Leave, Switch, Disconnect and Reconnect, one at a time    *)
(* under the busy flag, and View, which runs beside them.                  *)
(*                                                                         *)
(* A saved room lives in three places that share no transaction: the files *)
(* room.json and room-code (securestore), the managed profile "sogame-room"*)
(* of the NetBird daemon, and the peer registered with that profile at the *)
(* Management server.  An enrollment writes them in one order and undoes   *)
(* what it wrote if it fails; Leave removes them in another.               *)
(*                                                                         *)
(* Create and Join differ in the Room API call they make, not in what they *)
(* do here: both are "enroll".  The daemon mints a fresh id for a profile; *)
(* the room, the files, the profile and the peer of one enrollment are all *)
(* identified with it.  The daemon itself is external.                     *)
(***************************************************************************)
CONSTANTS
    Commands,     \* callers of the service: UI commands in flight
    Enrollments,  \* profile ids the daemon may mint; bounds the enrollments
    None,
    Faults        \* the faults that may happen, a subset of AllFaults

AllFaults ==
    { "api"      \* the Room API call fails
    , "daemon"   \* a daemon call fails and changes nothing
    , "lost"     \* a daemon call is applied and its answer lost
    , "file"     \* a file is not written, or not removed
    , "crash" }  \* the application is killed and started again

ASSUME NoneIsNoEnrollment == None \notin Enrollments
ASSUME FaultsKnown == Faults \subseteq AllFaults

VARIABLES
    meta, code,         \* the files: the enrollment whose data they hold
    profiles, peers,    \* daemon: managed profiles; Management: their peers
    tunnel,             \* daemon: the managed profile whose engine is up
    used,               \* the profile ids minted so far
    busy, state,        \* Service.busy; the state of Service.machine
    kind, pc, att,      \* a command: what it does, its next step, on whom
    failedAt, unclean,  \* its transaction: where it failed, any failed undo
    result,             \* how the command last ended
    view,               \* View: its next step
    leaving             \* the enrollments that some command set out to undo

fileVars   == <<meta, code>>
daemonVars == <<profiles, peers, tunnel, used>>
cmdVars    == <<kind, att, failedAt, unclean>>
vars == <<fileVars, daemonVars, busy, state, pc, cmdVars, result, view, leaving>>

-----------------------------------------------------------------------------
EnrollSteps == {"check", "obtain", "list", "add", "login", "up",
                "saveCode", "saveMeta", "commit"}
UndoSteps   == {"undoLogin", "undoProfile", "undoMeta", "undoCode"}
LeaveSteps  == {"load", "logout", "remove", "clearMeta", "clearCode"}
Steps == EnrollSteps \cup UndoSteps \cup LeaveSteps
             \cup {"switch", "disconnect", "down", "reconnect", "resume"}

Daemon == {"list", "add", "login", "up", "undoLogin", "undoProfile",
           "logout", "remove", "down", "resume"}
Files  == {"saveCode", "saveMeta", "undoMeta", "undoCode",
           "clearMeta", "clearCode"}

\* Machine.state; InRoom stands for the five states Derive gives a saved
\* room whose connection is not being restored.
States == {"NoRoom", "Enrolling", "InRoom", "Reconnecting", "RecoverableError"}

TypeOK ==
    /\ meta \in Enrollments \cup {None}
    /\ code \in Enrollments \cup {None}
    /\ profiles \subseteq Enrollments
    /\ peers \subseteq Enrollments
    /\ tunnel \in Enrollments \cup {None}
    /\ used \subseteq Enrollments
    /\ busy \in BOOLEAN
    /\ state \in States
    /\ kind \in [Commands -> {"enroll", "leave", "switch", "disconnect",
                              "reconnect"}]
    /\ pc \in [Commands -> Steps \cup {"idle"}]
    /\ att \in [Commands -> Enrollments \cup {None}]
    /\ failedAt \in [Commands -> Steps \cup {"none"}]
    /\ unclean \in [Commands -> BOOLEAN]
    /\ result \in [Commands -> {"none", "ok", "left", "undone", "failed",
                                "busy", "conflict", "inconsistent"}]
    /\ view \in {"idle", "code", "apply"}
    /\ leaving \subseteq Enrollments

Init ==
    /\ meta = None /\ code = None
    /\ profiles = {} /\ peers = {} /\ tunnel = None /\ used = {}
    /\ busy = FALSE /\ state = "NoRoom"
    /\ kind = [c \in Commands |-> "leave"]
    /\ pc = [c \in Commands |-> "idle"]
    /\ att = [c \in Commands |-> None]
    /\ failedAt = [c \in Commands |-> "none"]
    /\ unclean = [c \in Commands |-> FALSE]
    /\ result = [c \in Commands |-> "none"]
    /\ view = "idle"
    /\ leaving = {}

-----------------------------------------------------------------------------
Saved == meta # None /\ code # None

Empty == meta = None /\ code = None

Goto(c, step) == pc' = [pc EXCEPT ![c] = step]

\* The command returns: the machine is applied, the busy flag released.
End(c, outcome, states) ==
    /\ state' \in states
    /\ busy' = FALSE
    /\ pc' = [pc EXCEPT ![c] = "idle"]
    /\ result' = [result EXCEPT ![c] = outcome]

\* Service.fail
Fail(c, outcome) == End(c, outcome, {"RecoverableError"})

\* What Derive may say of a saved room, from the status of the daemon.
Restored == {"InRoom", "Reconnecting"}

\* A daemon call outside a transaction that is applied without an answer.
NoAnswer(c) == "lost" \in Faults /\ Fail(c, "failed")

\* Going on to the next step: neither the machine nor the lock is touched.
Proceed(c, step) == Goto(c, step) /\ UNCHANGED <<busy, state, result>>

\* Mutant: beginCommand does not look at the flag.
AlwaysFree == TRUE

Free == ~busy

\* beginCommand, for a command whose parameters are valid.
Start(c, k) ==
    /\ pc[c] = "idle"
    /\ Free
    /\ busy' = TRUE
    /\ kind' = [kind EXCEPT ![c] = k]
    /\ Goto(c, CASE k = "enroll" -> "check" [] k = "leave" -> "load" [] OTHER -> k)
    /\ att' = [att EXCEPT ![c] = None]
    /\ failedAt' = [failedAt EXCEPT ![c] = "none"]
    /\ unclean' = [unclean EXCEPT ![c] = FALSE]
    /\ result' = [result EXCEPT ![c] = "none"]
    /\ UNCHANGED <<fileVars, daemonVars, state, view, leaving>>

\* ErrCommandInProgress leaves the machine alone; a parameter that is not
\* valid is refused before the flag is looked at, and does not.
Refuse(c) ==
    /\ pc[c] = "idle"
    /\ att' = [att EXCEPT ![c] = None]
    /\ \/ /\ busy
          /\ result' = [result EXCEPT ![c] = "busy"]
          /\ UNCHANGED state
       \/ /\ state' = "RecoverableError"
          /\ result' = [result EXCEPT ![c] = "failed"]
    /\ UNCHANGED <<fileVars, daemonVars, busy, pc, kind, failedAt, unclean,
                   view, leaving>>

-----------------------------------------------------------------------------
(* Create and Join: enrollUnlocked *)

\* requireEmptyStorage
Check(c) ==
    /\ pc[c] = "check"
    /\ \/ /\ Empty
          /\ state' = "Enrolling"
          /\ Goto(c, "obtain")
          /\ UNCHANGED <<busy, result>>
       \/ Saved /\ Fail(c, "failed")
       \/ ~Empty /\ ~Saved /\ Fail(c, "conflict")
    /\ UNCHANGED <<fileVars, daemonVars, cmdVars, view, leaving>>

Obtain(c) ==
    /\ pc[c] = "obtain"
    /\ \/ Proceed(c, "list")
       \/ "api" \in Faults /\ Fail(c, "failed")
    /\ UNCHANGED <<fileVars, daemonVars, cmdVars, view, leaving>>

\* Ensure: a profile of that name that nobody saved is not adopted.
List(c) ==
    /\ pc[c] = "list"
    /\ IF profiles = {} THEN Proceed(c, "add") ELSE Fail(c, "inconsistent")
    /\ UNCHANGED <<fileVars, daemonVars, cmdVars, view, leaving>>

\* Without an answer there is no profile id, hence no transaction to undo.
Add(c) ==
    /\ pc[c] = "add"
    /\ \E a \in Enrollments \ used :
          /\ used' = used \cup {a}
          /\ profiles' = profiles \cup {a}
          /\ \/ Proceed(c, "login") /\ att' = [att EXCEPT ![c] = a]
             \/ "lost" \in Faults /\ Fail(c, "failed") /\ UNCHANGED att
    /\ UNCHANGED <<fileVars, peers, tunnel, kind, failedAt, unclean, view,
                   leaving>>

\* A step of the transaction fails, applied or not: compensate.
Abort(c) ==
    /\ failedAt' = [failedAt EXCEPT ![c] = pc[c]]
    /\ leaving' = leaving \cup {att[c]}
    /\ Proceed(c, "undoLogin")

\* A daemon call of the transaction that is applied.
Applied(c, step) ==
    \/ Proceed(c, step) /\ UNCHANGED <<failedAt, leaving>>
    \/ "lost" \in Faults /\ Abort(c)

Login(c) ==
    /\ pc[c] = "login"
    /\ att[c] \in profiles
    /\ peers' = peers \cup {att[c]}
    /\ Applied(c, "up")
    /\ UNCHANGED <<fileVars, profiles, tunnel, used, kind, att, unclean, view>>

Up(c) ==
    /\ pc[c] = "up"
    /\ att[c] \in profiles
    /\ tunnel' = att[c]
    /\ Applied(c, "saveCode")
    /\ UNCHANGED <<fileVars, profiles, peers, used, kind, att, unclean, view>>

SaveCode(c) ==
    /\ pc[c] = "saveCode"
    /\ code' = att[c]
    /\ Proceed(c, "saveMeta")
    /\ UNCHANGED <<meta, daemonVars, cmdVars, view, leaving>>

SaveMeta(c) ==
    /\ pc[c] = "saveMeta"
    /\ meta' = att[c]
    /\ Proceed(c, "commit")
    /\ UNCHANGED <<code, daemonVars, cmdVars, view, leaving>>

Commit(c) ==
    /\ pc[c] = "commit"
    /\ End(c, "ok", Restored)
    /\ UNCHANGED <<fileVars, daemonVars, cmdVars, view, leaving>>

\* Mutant: the error of Login is not looked at.
LoginGoesOn(c) ==
    /\ pc[c] \in {"login", "up", "saveCode", "saveMeta"}
    /\ (IF pc[c] \in Daemon THEN "daemon" ELSE "file") \in Faults
    /\ IF pc[c] = "login" THEN Proceed(c, "up") /\ UNCHANGED <<failedAt, leaving>>
                          ELSE Abort(c)
    /\ UNCHANGED <<fileVars, daemonVars, kind, att, unclean, view>>

TransactionFails(c) ==
    /\ pc[c] \in {"login", "up", "saveCode", "saveMeta"}
    /\ (IF pc[c] \in Daemon THEN "daemon" ELSE "file") \in Faults
    /\ Abort(c)
    /\ UNCHANGED <<fileVars, daemonVars, kind, att, unclean, view>>

-----------------------------------------------------------------------------
(* compensate: every step is tried, an error only counted *)

\* The transaction is over; its error says whether an undo failed.
Undone(c) == Fail(c, IF unclean'[c] THEN "failed" ELSE "undone")

\* An undo step that is applied, or not, as its faults have it.
Clean(c)   == UNCHANGED unclean
Unclean(c) == unclean' = [unclean EXCEPT ![c] = TRUE]

\* An undo call that is applied may count as failed for want of an answer.
Answered(c) ==
    \/ Clean(c)
    \/ "lost" \in Faults /\ Unclean(c)

\* Removing a profile logs its peer out too, if Management can be reached.
Forget(a) ==
    /\ profiles' = profiles \ {a}
    /\ peers' \in IF "daemon" \in Faults THEN {peers, peers \ {a}}
                                         ELSE {peers \ {a}}
    /\ tunnel' = IF tunnel = a THEN None ELSE tunnel
    /\ UNCHANGED used

Deregister(a) ==
    /\ peers' = peers \ {a}
    /\ tunnel' = IF tunnel = a THEN None ELSE tunnel
    /\ UNCHANGED <<profiles, used>>

UndoLogin(c) ==
    /\ pc[c] = "undoLogin"
    /\ \/ Deregister(att[c]) /\ Answered(c)
       \/ /\ "daemon" \in Faults \/ att[c] \notin peers
          /\ UNCHANGED daemonVars /\ Unclean(c)
    /\ Proceed(c, "undoProfile")
    /\ UNCHANGED <<fileVars, kind, att, failedAt, view, leaving>>

UndoProfile(c) ==
    /\ pc[c] = "undoProfile"
    /\ \/ Forget(att[c]) /\ Answered(c)
       \/ "daemon" \in Faults /\ UNCHANGED daemonVars /\ Unclean(c)
    /\ CASE failedAt[c] = "saveMeta" -> Proceed(c, "undoMeta")
         [] failedAt[c] = "saveCode" -> Proceed(c, "undoCode")
         [] OTHER                    -> Undone(c)
    /\ UNCHANGED <<fileVars, kind, att, failedAt, view, leaving>>

UndoMeta(c) ==
    /\ pc[c] = "undoMeta"
    /\ \/ meta' = None /\ Clean(c)
       \/ "file" \in Faults /\ meta # None /\ UNCHANGED meta /\ Unclean(c)
    /\ Proceed(c, "undoCode")
    /\ UNCHANGED <<code, daemonVars, kind, att, failedAt, view, leaving>>

\* Mutant: the code is only cleared if its own write failed.
UndoCodeUnlessSaved(c) ==
    /\ pc[c] = "undoCode"
    /\ \/ failedAt[c] = "saveCode" /\ code' = None
       \/ failedAt[c] = "saveMeta" /\ UNCHANGED code
    /\ Clean(c)
    /\ Undone(c)
    /\ UNCHANGED <<meta, daemonVars, kind, att, failedAt, view, leaving>>

UndoCode(c) ==
    /\ pc[c] = "undoCode"
    /\ \/ code' = None /\ Clean(c)
       \/ "file" \in Faults /\ code # None /\ UNCHANGED code /\ Unclean(c)
    /\ Undone(c)
    /\ UNCHANGED <<meta, daemonVars, kind, att, failedAt, view, leaving>>

-----------------------------------------------------------------------------
(* Leave, and Switch, which goes on with an enrollment *)

LoadToSwitch(c) ==
    /\ pc[c] = "switch"
    /\ \/ Saved /\ Proceed(c, "load")
       \/ Empty /\ Proceed(c, "check")
       \/ ~Empty /\ ~Saved /\ Fail(c, "conflict")
    /\ UNCHANGED <<fileVars, daemonVars, cmdVars, view, leaving>>

Load(c) ==
    /\ pc[c] = "load"
    /\ \/ /\ Saved
          /\ att' = [att EXCEPT ![c] = meta]
          /\ leaving' = leaving \cup {meta}
          /\ Proceed(c, "logout")
       \/ Empty /\ Fail(c, "failed") /\ UNCHANGED <<att, leaving>>
       \/ ~Empty /\ ~Saved /\ Fail(c, "conflict") /\ UNCHANGED <<att, leaving>>
    /\ UNCHANGED <<fileVars, daemonVars, kind, failedAt, unclean, view>>

\* Mutant: the peer is deregistered on a best-effort basis.
LogoutGoesOn(c) ==
    /\ pc[c] = "logout"
    /\ att[c] \in profiles
    /\ \/ Deregister(att[c])
       \/ "daemon" \in Faults /\ UNCHANGED daemonVars
    /\ Proceed(c, "remove")
    /\ UNCHANGED <<fileVars, cmdVars, view, leaving>>

Logout(c) ==
    /\ pc[c] = "logout"
    /\ \/ /\ att[c] \in profiles
          /\ Deregister(att[c])
          /\ Proceed(c, "remove") \/ NoAnswer(c)
       \/ /\ att[c] \in profiles \ peers
          /\ Fail(c, "failed") /\ UNCHANGED daemonVars
       \/ att[c] \notin profiles /\ Fail(c, "inconsistent") /\ UNCHANGED daemonVars
    /\ UNCHANGED <<fileVars, cmdVars, view, leaving>>

Remove(c) ==
    /\ pc[c] = "remove"
    /\ \/ /\ att[c] \in profiles
          /\ Forget(att[c])
          /\ Proceed(c, "clearMeta") \/ NoAnswer(c)
       \/ att[c] \notin profiles /\ Fail(c, "inconsistent") /\ UNCHANGED daemonVars
    /\ UNCHANGED <<fileVars, cmdVars, view, leaving>>

ClearMeta(c) ==
    /\ pc[c] = "clearMeta"
    /\ \/ meta' = None /\ Clean(c)
       \/ "file" \in Faults /\ UNCHANGED meta /\ Unclean(c)
    /\ Proceed(c, "clearCode")
    /\ UNCHANGED <<code, daemonVars, kind, att, failedAt, view, leaving>>

\* Both files are tried before either failure is reported.
ClearCode(c) ==
    /\ pc[c] = "clearCode"
    /\ \/ code' = None /\ Clean(c)
       \/ "file" \in Faults /\ UNCHANGED code /\ Unclean(c)
    /\ \/ unclean'[c] /\ Fail(c, "failed")
       \/ ~unclean'[c] /\ kind[c] = "leave" /\ End(c, "left", {"NoRoom"})
       \/ /\ ~unclean'[c] /\ kind[c] = "switch"
          /\ state' = "NoRoom"
          /\ Goto(c, "check")
          /\ UNCHANGED <<busy, result>>
    /\ UNCHANGED <<meta, daemonVars, kind, att, failedAt, view, leaving>>

-----------------------------------------------------------------------------
(* Disconnect and Reconnect *)

LoadToDisconnect(c) ==
    /\ pc[c] = "disconnect"
    /\ \/ Saved /\ att' = [att EXCEPT ![c] = meta] /\ Proceed(c, "down")
       \/ Empty /\ Fail(c, "failed") /\ UNCHANGED att
       \/ ~Empty /\ ~Saved /\ Fail(c, "conflict") /\ UNCHANGED att
    /\ UNCHANGED <<fileVars, daemonVars, kind, failedAt, unclean, view, leaving>>

\* Select validates the profile; Down takes no profile.
Down(c) ==
    /\ pc[c] = "down"
    /\ \/ /\ att[c] \in profiles
          /\ tunnel' = None
          /\ End(c, "ok", {"InRoom"}) \/ NoAnswer(c)
       \/ att[c] \notin profiles /\ Fail(c, "inconsistent") /\ UNCHANGED tunnel
    /\ UNCHANGED <<fileVars, profiles, peers, used, cmdVars, view, leaving>>

LoadToReconnect(c) ==
    /\ pc[c] = "reconnect"
    /\ \/ /\ Saved
          /\ att' = [att EXCEPT ![c] = meta]
          /\ state' = "Reconnecting"
          /\ Goto(c, "resume")
          /\ UNCHANGED <<busy, result>>
       \/ Empty /\ Fail(c, "failed") /\ UNCHANGED att
       \/ ~Empty /\ ~Saved /\ Fail(c, "conflict") /\ UNCHANGED att
    /\ UNCHANGED <<fileVars, daemonVars, kind, failedAt, unclean, view, leaving>>

NoStatus(c) == "daemon" \in Faults /\ Fail(c, "failed")

\* All attempts of Resume at once.  Up needs a profile that is logged in.
Resume(c) ==
    /\ pc[c] = "resume"
    /\ \/ /\ att[c] \in profiles \cap peers
          /\ tunnel' = att[c]
          /\ End(c, "ok", Restored) \/ NoStatus(c)
       \/ /\ att[c] \notin profiles \cap peers
          /\ Fail(c, "failed") /\ UNCHANGED tunnel
    /\ UNCHANGED <<fileVars, profiles, peers, used, cmdVars, view, leaving>>

\* A file that cannot be read, a daemon call that fails outside a transaction.
CommandFails(c) ==
    /\ \/ /\ pc[c] \in {"check", "load", "switch", "disconnect", "reconnect"}
          /\ "file" \in Faults
          /\ Fail(c, "conflict")
       \/ /\ pc[c] \in {"list", "add", "logout", "remove", "down", "resume"}
          /\ "daemon" \in Faults
          /\ Fail(c, "failed")
    /\ UNCHANGED <<fileVars, daemonVars, cmdVars, view, leaving>>

Step(c) ==
    \/ Check(c) \/ Obtain(c) \/ List(c) \/ Add(c) \/ Login(c) \/ Up(c)
    \/ SaveCode(c) \/ SaveMeta(c) \/ Commit(c) \/ TransactionFails(c)
    \/ UndoLogin(c) \/ UndoProfile(c) \/ UndoMeta(c) \/ UndoCode(c)
    \/ LoadToSwitch(c) \/ Load(c) \/ Logout(c) \/ Remove(c)
    \/ ClearMeta(c) \/ ClearCode(c)
    \/ LoadToDisconnect(c) \/ Down(c) \/ LoadToReconnect(c) \/ Resume(c)
    \/ CommandFails(c)

-----------------------------------------------------------------------------
(* View, and the process *)

ViewMeta ==
    /\ view = "idle"
    /\ meta # None
    /\ view' = "code"
    /\ UNCHANGED <<fileVars, daemonVars, busy, state, pc, cmdVars, result, leaving>>

ViewCode ==
    /\ view = "code"
    /\ view' = IF code = None THEN "idle" ELSE "apply"
    /\ UNCHANGED <<fileVars, daemonVars, busy, state, pc, cmdVars, result, leaving>>

\* The status of the daemon is read, or not; what the files said may be old.
ViewApply ==
    /\ view = "apply"
    /\ view' = "idle"
    /\ \/ state' \in Restored
       \/ "daemon" \in Faults /\ UNCHANGED state
    /\ UNCHANGED <<fileVars, daemonVars, busy, pc, cmdVars, result, leaving>>

View == ViewMeta \/ ViewCode \/ ViewApply

\* Files and daemon stay as they are.
Crash ==
    /\ "crash" \in Faults
    /\ busy' = FALSE
    /\ state' = "NoRoom"
    /\ pc' = [c \in Commands |-> "idle"]
    /\ att' = [c \in Commands |-> None]
    /\ failedAt' = [c \in Commands |-> "none"]
    /\ unclean' = [c \in Commands |-> FALSE]
    /\ result' = [c \in Commands |-> "none"]
    /\ view' = "idle"
    /\ UNCHANGED <<fileVars, daemonVars, kind, leaving>>

Next ==
    \/ \E c \in Commands :
          \/ \E k \in {"enroll", "leave", "switch", "disconnect", "reconnect"} :
                Start(c, k)
          \/ Refuse(c)
          \/ Step(c)
    \/ View
    \/ Crash

Spec == Init /\ [][Next]_vars

-----------------------------------------------------------------------------
(* Properties *)

\* What a command holds once its enrollment is committed.
Holds(a) == meta = a /\ code = a /\ a \in profiles /\ a \in peers

\* At most one managed profile exists, whatever enrollments failed, were
\* killed or ran into one another: the daemon allows duplicate names, and
\* Ensure lists the profiles and adds one in two calls.
OneProfile == \A a, b \in profiles : a = b

\* The two files never speak of different rooms.
SavedTogether == Saved => meta = code

\* A saved room is the same in both files and, unless a command set out to
\* leave or to undo it, has its profile and its registered peer: it can be
\* reconnected without a setup key, also after restarts, failures and
\* enrollments that were refused.
SavedUsable ==
    /\ SavedTogether
    /\ Saved /\ meta \notin leaving => Holds(meta)

\* No trace of enrollment a, in the files or in the daemon.
Gone(a) == a \notin profiles \cup peers \cup {meta, code, tunnel}

\* A command that reports that it left a room, or that its enrollment failed
\* and every undo succeeded, has left no trace of it.
ReportedGone ==
    \A c \in Commands : pc[c] = "idle" /\ result[c] \in {"left", "undone"} => Gone(att[c])

\* The machine says "Enrolling" only while a command is running.
EnrollingIsBusy == state = "Enrolling" => busy

\* The profile of a saved room is removed only once its peer is
\* deregistered: afterwards nobody could.
NoPeerStranded ==
    [][\A a \in profiles \ profiles' : meta = a => a \notin peers]_vars

\* The session is in the room that is saved, until a command sets out to leave
\* it, and implements a client of one room, through failures of every step of
\* Create, Join, Leave and Switch, and through restarts.
Client == INSTANCE OneRoomClient WITH
    Rooms <- Enrollments,
    room  <- IF Saved /\ meta \notin leaving THEN meta ELSE None,
    over  <- leaving,
    gone  <- {a \in leaving : Gone(a)}

OneRoomAtATime == Client!Spec

\* A Leave is never refused for the state an earlier command left behind.
\* (client-secret-protection/spec.md, scenario "Partial metadata": the client
\* "enters a repair or leave flow"; publicError tells the user to leave.)
LeaveRepairs ==
    \A c \in Commands :
        ~(kind[c] = "leave" /\ result[c] \in {"conflict", "inconsistent"})

-----------------------------------------------------------------------------
(* The inductive invariant behind the properties *)

\* One command at a time, and no result before it ends.
Locked ==
    /\ \A c \in Commands : pc[c] # "idle" => busy /\ result[c] = "none"
    /\ \A c, d \in Commands : pc[c] # "idle" /\ pc[d] # "idle" => c = d

\* Every profile id in sight was minted.
Minted ==
    /\ profiles \cup peers \cup leaving \subseteq used
    /\ {meta, code, tunnel} \subseteq used \cup {None}
    /\ \A c \in Commands : att[c] \in used \cup {None}

\* Where an enrollment stands.
Enrolling ==
    \A c \in Commands :
        /\ pc[c] \in {"obtain", "list", "add", "login", "up", "saveCode"} => Empty
        /\ pc[c] = "add" => profiles = {}
        /\ pc[c] \in {"login", "up", "saveCode", "saveMeta"} => att[c] \in profiles
        /\ pc[c] \in {"up", "saveCode", "saveMeta"} => att[c] \in peers
        /\ pc[c] = "saveMeta" => meta = None /\ code = att[c]

\* Where the compensation of an enrollment stands.
Undoing ==
    \A c \in Commands : pc[c] \in UndoSteps =>
        /\ att[c] # None
        /\ meta = None
        /\ code # None => code = att[c] /\ failedAt[c] = "saveMeta"
        /\ pc[c] \in {"undoLogin", "undoProfile"} => att[c] \in profiles
        /\ pc[c] # "undoLogin" /\ ~unclean[c] =>
               att[c] \notin peers /\ att[c] # tunnel
        /\ pc[c] \in {"undoMeta", "undoCode"} /\ ~unclean[c] =>
               att[c] \notin profiles

\* Where a Leave stands.
Leaving ==
    \A c \in Commands :
        /\ pc[c] \in {"logout", "remove", "clearMeta", "clearCode"} =>
               att[c] # None /\ code = att[c]
        /\ pc[c] \in {"logout", "remove", "clearMeta"} => meta = att[c]
        /\ pc[c] \in {"logout", "remove", "clearMeta"} => att[c] \in leaving
        /\ pc[c] \in {"remove", "clearMeta", "clearCode"} =>
               att[c] \notin peers /\ att[c] # tunnel
        /\ pc[c] \in {"clearMeta", "clearCode"} => att[c] \notin profiles
        /\ pc[c] = "clearCode" /\ meta # None =>
               meta = att[c] /\ unclean[c] /\ meta \in leaving

\* What was reported gone does not come back while the report stands.
Reported ==
    \A c \in Commands : result[c] \in {"left", "undone"} =>
        att[c] # None /\ Gone(att[c])

IInv ==
    /\ TypeOK
    /\ Locked
    /\ Minted
    /\ Reported
    /\ Enrolling
    /\ Undoing
    /\ Leaving
    /\ OneProfile
    /\ SavedTogether
    /\ SavedUsable
    /\ EnrollingIsBusy

=============================================================================
