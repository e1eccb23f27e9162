--------------------------- MODULE SessionProofs ---------------------------
(***************************************************************************)
(* What holds of the session for every number of callers and enrollments.  *)
(* One command runs at a time, so the invariant says, for each step of an  *)
(* enrollment, of its compensation and of a Leave, what the files and the  *)
(* daemon hold by then; what holds between commands follows from the last  *)
(* step of each.  The death of the process keeps it, since the statements  *)
(* about files and daemon never mention a running command.                 *)
(***************************************************************************)
EXTENDS Session, TLAPS

LEMMA InitInv == Init => IInv
<1> SUFFICES ASSUME Init PROVE IInv
    OBVIOUS
<1> USE NoneIsNoEnrollment DEF Init
<1>1. kind \in [Commands -> {"enroll", "leave", "switch", "disconnect", "reconnect"}]
    OBVIOUS
<1>2. /\ pc \in [Commands -> Steps \cup {"idle"}]
      /\ failedAt \in [Commands -> Steps \cup {"none"}]
    OBVIOUS
<1>3. /\ att \in [Commands -> Enrollments \cup {None}]
      /\ unclean \in [Commands -> BOOLEAN]
    OBVIOUS
<1>4. result \in [Commands -> {"none", "ok", "left", "undone", "failed",
                              "busy", "conflict", "inconsistent"}]
    OBVIOUS
<1>5. TypeOK
    BY <1>1, <1>2, <1>3, <1>4 DEF TypeOK, States
<1>6. Locked /\ Minted /\ Reported /\ Enrolling
    BY DEF Locked, Minted, Reported, Enrolling, Empty
<1>7. Undoing /\ Leaving
    BY DEF Undoing, UndoSteps, Leaving
<1>8. OneProfile /\ SavedTogether /\ SavedUsable /\ EnrollingIsBusy
    BY DEF OneProfile, SavedTogether, SavedUsable, Saved, EnrollingIsBusy
<1> QED
    BY <1>5, <1>6, <1>7, <1>8 DEF IInv

-----------------------------------------------------------------------------
(* The types *)

LEMMA StepKeepsType ==
    ASSUME TypeOK, Enrolling, NEW c \in Commands, Step(c)
    PROVE  TypeOK'
<1> USE DEF TypeOK, Goto, Proceed, End, Fail, fileVars, daemonVars, cmdVars,
            States, Restored, Steps, EnrollSteps, UndoSteps, LeaveSteps
<1>1. CASE Check(c)
    BY <1>1 DEF Check
<1>2. CASE Obtain(c)
    BY <1>2 DEF Obtain
<1>3. CASE List(c)
    BY <1>3 DEF List
<1>4. CASE Add(c)
    <2> PICK a \in Enrollments \ used :
               /\ used' = used \cup {a}
               /\ profiles' = profiles \cup {a}
               /\ \/ Proceed(c, "login") /\ att' = [att EXCEPT ![c] = a]
                  \/ Fail(c, "failed") /\ UNCHANGED att
        BY <1>4 DEF Add
    <2>1. /\ used' \subseteq Enrollments /\ profiles' \subseteq Enrollments
          /\ att' \in [Commands -> Enrollments \cup {None}]
        OBVIOUS
    <2>2. /\ busy' \in BOOLEAN /\ state' \in States
          /\ pc' \in [Commands -> Steps \cup {"idle"}]
          /\ result' \in [Commands -> {"none", "ok", "left", "undone", "failed",
                                       "busy", "conflict", "inconsistent"}]
        OBVIOUS
    <2> QED
        BY <1>4, <2>1, <2>2 DEF Add
<1>5. CASE Login(c)
    BY <1>5 DEF Login, Applied, Abort
<1>6. CASE Up(c)
    BY <1>6 DEF Up, Applied, Abort
<1>7. CASE SaveCode(c)
    BY <1>7 DEF SaveCode
<1>8. CASE SaveMeta(c)
    BY <1>8 DEF SaveMeta
<1>9. CASE Commit(c)
    BY <1>9 DEF Commit
<1>10. CASE TransactionFails(c)
    <2>1. failedAt' \in [Commands -> Steps \cup {"none"}]
        BY <1>10 DEF TransactionFails, Abort
    <2>2. leaving' \subseteq Enrollments
        BY <1>10 DEF TransactionFails, Abort, Enrolling
    <2> QED
        BY <1>10, <2>1, <2>2 DEF TransactionFails, Abort
<1>11. CASE UndoLogin(c)
    BY <1>11 DEF UndoLogin, Deregister, Clean, Unclean, Answered
<1>12. CASE UndoProfile(c)
    <2>1. profiles' \subseteq Enrollments /\ peers' \subseteq Enrollments
        BY <1>12 DEF UndoProfile, Forget
    <2>2. unclean' \in [Commands -> BOOLEAN]
        BY <1>12 DEF UndoProfile, Clean, Unclean, Answered
    <2>3. /\ busy' \in BOOLEAN /\ state' \in States
          /\ pc' \in [Commands -> Steps \cup {"idle"}]
          /\ result' \in [Commands -> {"none", "ok", "left", "undone", "failed",
                                       "busy", "conflict", "inconsistent"}]
        BY <1>12 DEF UndoProfile, Undone
    <2>4. tunnel' \in Enrollments \cup {None}
        BY <1>12 DEF UndoProfile, Forget
    <2>5. UNCHANGED <<fileVars, used, kind, att, failedAt, view, leaving>>
        BY <1>12 DEF UndoProfile, Forget
    <2> QED
        BY <2>1, <2>2, <2>3, <2>4, <2>5
<1>13. CASE UndoMeta(c)
    BY <1>13 DEF UndoMeta, Clean, Unclean
<1>14. CASE UndoCode(c)
    BY <1>14 DEF UndoCode, Clean, Unclean, Undone
<1>15. CASE LoadToSwitch(c)
    BY <1>15 DEF LoadToSwitch
<1>16. CASE Load(c)
    BY <1>16 DEF Load, Saved
<1>17. CASE Logout(c)
    BY <1>17 DEF Logout, Deregister, NoAnswer
<1>18. CASE Remove(c)
    BY <1>18 DEF Remove, Forget, NoAnswer
<1>19. CASE ClearMeta(c)
    BY <1>19 DEF ClearMeta, Clean, Unclean
<1>20. CASE ClearCode(c)
    BY <1>20 DEF ClearCode, Clean, Unclean
<1>21. CASE LoadToDisconnect(c)
    BY <1>21 DEF LoadToDisconnect
<1>22. CASE Down(c)
    BY <1>22 DEF Down, NoAnswer
<1>23. CASE LoadToReconnect(c)
    BY <1>23 DEF LoadToReconnect
<1>24. CASE Resume(c)
    BY <1>24 DEF Resume, NoStatus
<1>25. CASE CommandFails(c)
    BY <1>25 DEF CommandFails
<1> QED
    BY <1>1, <1>2, <1>3, <1>4, <1>5, <1>6, <1>7, <1>8, <1>9, <1>10, <1>11,
       <1>12, <1>13, <1>14, <1>15, <1>16, <1>17, <1>18, <1>19, <1>20, <1>21,
       <1>22, <1>23, <1>24, <1>25 DEF Step

-----------------------------------------------------------------------------
(* The rest of the invariant, group by group of steps *)

\* The steps of an enrollment.
LEMMA EnrollKeepsInv ==
    ASSUME IInv, NEW c \in Commands,
           \/ Check(c) \/ Obtain(c) \/ List(c) \/ Add(c)
           \/ Login(c) \/ Up(c) \/ SaveCode(c) \/ SaveMeta(c)
           \/ Commit(c) \/ TransactionFails(c)
    PROVE  IInv'
<1> USE NoneIsNoEnrollment
    DEF Check, Obtain, List, Add, Abort, Login, Applied, Up, SaveCode,
            SaveMeta, Commit, TransactionFails, Goto, Proceed, End, Fail,
            fileVars, daemonVars, cmdVars, Daemon, Files, IInv, TypeOK,
            Locked, Empty, Saved
<1>1. TypeOK'
    BY StepKeepsType DEF Step
<1>2. (Locked /\ Minted)'
    BY DEF Minted, Enrolling, Undoing, Leaving, UndoSteps
<1>3. Reported'
    BY DEF Reported, Gone, Minted, Enrolling, Undoing, Leaving, UndoSteps
<1>4. Enrolling'
    BY DEF Enrolling, Minted
<1>5. Undoing'
    BY DEF Enrolling, Undoing, UndoSteps, OneProfile, Minted
<1>6. Leaving'
    BY DEF Leaving, Minted, SavedTogether, OneProfile
<1>7. (OneProfile /\ SavedTogether /\ EnrollingIsBusy)'
    BY DEF Enrolling, Undoing, Leaving, UndoSteps, OneProfile,
           SavedTogether, EnrollingIsBusy, Restored
<1>8. SavedUsable'
    BY DEF Enrolling, Undoing, Leaving, Minted, UndoSteps, OneProfile,
           SavedTogether, SavedUsable, Holds
<1> QED
    BY <1>1, <1>2, <1>3, <1>4, <1>5, <1>6, <1>7, <1>8

\* The steps of a compensation.
LEMMA UndoKeepsInv ==
    ASSUME IInv, NEW c \in Commands,
           \/ UndoLogin(c) \/ UndoProfile(c) \/ UndoMeta(c)
           \/ UndoCode(c)
    PROVE  IInv'
<1> USE NoneIsNoEnrollment
    DEF UndoLogin, Deregister, Clean, Unclean, Answered, UndoProfile,
            Forget, Undone, UndoMeta, UndoCode, Goto, Proceed, End, Fail,
            fileVars, daemonVars, cmdVars, Daemon, Files, IInv, TypeOK,
            Locked, Empty, Saved
<1>1. TypeOK'
    BY StepKeepsType DEF Step
<1>2. (Locked /\ Minted)'
    BY DEF Minted, Enrolling, Undoing, Leaving, UndoSteps
<1>3. Reported'
    BY DEF Reported, Gone, Minted, Enrolling, Undoing, Leaving, UndoSteps
<1>4. Enrolling'
    BY DEF Enrolling, Minted
<1>5. Undoing'
    BY DEF Enrolling, Undoing, UndoSteps, OneProfile, Minted
<1>6. Leaving'
    BY DEF Leaving, Minted, SavedTogether, OneProfile
<1>7. (OneProfile /\ SavedTogether /\ EnrollingIsBusy)'
    BY DEF Enrolling, Undoing, Leaving, UndoSteps, OneProfile,
           SavedTogether, EnrollingIsBusy, Restored
<1>8. SavedUsable'
    BY DEF Enrolling, Undoing, Leaving, Minted, UndoSteps, OneProfile,
           SavedTogether, SavedUsable, Holds
<1> QED
    BY <1>1, <1>2, <1>3, <1>4, <1>5, <1>6, <1>7, <1>8

\* The steps of Leave, and Switch.
LEMMA LeaveKeepsInv ==
    ASSUME IInv, NEW c \in Commands,
           \/ LoadToSwitch(c) \/ Load(c) \/ Logout(c) \/ Remove(c)
           \/ ClearMeta(c) \/ ClearCode(c)
    PROVE  IInv'
<1> USE NoneIsNoEnrollment
    DEF LoadToSwitch, Load, Logout, Deregister, NoAnswer, Remove, Forget,
            ClearMeta, Clean, Unclean, ClearCode, Goto, Proceed, End, Fail,
            fileVars, daemonVars, cmdVars, Daemon, Files, IInv, TypeOK,
            Locked, Empty, Saved
<1>1. TypeOK'
    BY StepKeepsType DEF Step
<1>2. (Locked /\ Minted)'
    BY DEF Minted, Enrolling, Undoing, Leaving, UndoSteps
<1>3. Reported'
    BY DEF Reported, Gone, Minted, Enrolling, Undoing, Leaving, UndoSteps
<1>4. Enrolling'
    BY DEF Enrolling, Minted
<1>5. Undoing'
    BY DEF Enrolling, Undoing, UndoSteps, OneProfile, Minted
<1>6. Leaving'
    BY DEF Leaving, Minted, SavedTogether, OneProfile
<1>7. (OneProfile /\ SavedTogether /\ EnrollingIsBusy)'
    BY DEF Enrolling, Undoing, Leaving, UndoSteps, OneProfile,
           SavedTogether, EnrollingIsBusy, Restored
<1>8. SavedUsable'
    BY DEF Enrolling, Undoing, Leaving, Minted, UndoSteps, OneProfile,
           SavedTogether, SavedUsable, Holds
<1> QED
    BY <1>1, <1>2, <1>3, <1>4, <1>5, <1>6, <1>7, <1>8

\* Disconnect, Reconnect, and failures outside a transaction.
LEMMA ConnectionKeepsInv ==
    ASSUME IInv, NEW c \in Commands,
           \/ LoadToDisconnect(c) \/ Down(c) \/ LoadToReconnect(c)
           \/ Resume(c) \/ CommandFails(c)
    PROVE  IInv'
<1> USE NoneIsNoEnrollment
    DEF LoadToDisconnect, Down, NoAnswer, LoadToReconnect, Resume,
            NoStatus, CommandFails, Goto, Proceed, End, Fail, fileVars,
            daemonVars, cmdVars, Daemon, Files, IInv, TypeOK, Locked, Empty,
            Saved
<1>1. TypeOK'
    BY StepKeepsType DEF Step
<1>2. (Locked /\ Minted)'
    BY DEF Minted, Enrolling, Undoing, Leaving, UndoSteps
<1>3. Reported'
    BY DEF Reported, Gone, Minted, Enrolling, Undoing, Leaving, UndoSteps
<1>4. Enrolling'
    BY DEF Enrolling, Minted
<1>5. Undoing'
    BY DEF Enrolling, Undoing, UndoSteps, OneProfile, Minted
<1>6. Leaving'
    BY DEF Leaving, Minted, SavedTogether, OneProfile
<1>7. (OneProfile /\ SavedTogether /\ EnrollingIsBusy)'
    BY DEF Enrolling, Undoing, Leaving, UndoSteps, OneProfile,
           SavedTogether, EnrollingIsBusy, Restored
<1>8. SavedUsable'
    BY DEF Enrolling, Undoing, Leaving, Minted, UndoSteps, OneProfile,
           SavedTogether, SavedUsable, Holds
<1> QED
    BY <1>1, <1>2, <1>3, <1>4, <1>5, <1>6, <1>7, <1>8

\* Starting and refusing a command, View, and the death of the process.
LEMMA OthersKeepInv ==
    ASSUME IInv,
           \/ \E c \in Commands :
                 \/ \E k \in {"enroll", "leave", "switch", "disconnect",
                              "reconnect"} : Start(c, k)
                 \/ Refuse(c)
           \/ View \/ Crash
    PROVE  IInv'
<1> USE NoneIsNoEnrollment
    DEF IInv, TypeOK, Locked, Empty, Saved, Goto, fileVars, daemonVars, cmdVars
<1>1. ASSUME NEW c \in Commands,
             NEW k \in {"enroll", "leave", "switch", "disconnect", "reconnect"},
             Start(c, k)
      PROVE  IInv'
    <2> USE <1>1 DEF Start, Free
    <2>1. TypeOK'
        BY DEF States, Steps, EnrollSteps, UndoSteps, LeaveSteps, Restored
    <2>2. (Locked /\ Minted /\ Reported)'
        BY DEF Minted, Reported, Gone
    <2>3. (Enrolling /\ Undoing /\ Leaving)'
        BY DEF Enrolling, Undoing, Leaving, UndoSteps
    <2>4. (OneProfile /\ SavedTogether /\ SavedUsable /\ EnrollingIsBusy)'
        BY DEF OneProfile, SavedTogether, SavedUsable, Holds, EnrollingIsBusy, Restored
    <2> QED
        BY <2>1, <2>2, <2>3, <2>4
<1>2. ASSUME NEW c \in Commands, Refuse(c) PROVE IInv'
    <2> USE <1>2 DEF Refuse
    <2>1. TypeOK'
        BY DEF States, Steps, EnrollSteps, UndoSteps, LeaveSteps, Restored
    <2>2. (Locked /\ Minted /\ Reported)'
        BY DEF Minted, Reported, Gone
    <2>3. (Enrolling /\ Undoing /\ Leaving)'
        BY DEF Enrolling, Undoing, Leaving, UndoSteps
    <2>4. (OneProfile /\ SavedTogether /\ SavedUsable /\ EnrollingIsBusy)'
        BY DEF OneProfile, SavedTogether, SavedUsable, Holds, EnrollingIsBusy, Restored
    <2> QED
        BY <2>1, <2>2, <2>3, <2>4
<1>3. CASE View
    <2> USE <1>3 DEF View, ViewMeta, ViewCode, ViewApply
    <2>1. TypeOK'
        BY DEF States, Steps, EnrollSteps, UndoSteps, LeaveSteps, Restored
    <2>2. (Locked /\ Minted /\ Reported)'
        BY DEF Minted, Reported, Gone
    <2>3. (Enrolling /\ Undoing /\ Leaving)'
        BY DEF Enrolling, Undoing, Leaving, UndoSteps
    <2>4. (OneProfile /\ SavedTogether /\ SavedUsable /\ EnrollingIsBusy)'
        BY DEF OneProfile, SavedTogether, SavedUsable, Holds, EnrollingIsBusy, Restored
    <2> QED
        BY <2>1, <2>2, <2>3, <2>4
<1>4. CASE Crash
    <2> USE <1>4 DEF Crash
    <2>1. TypeOK'
        BY DEF States, Steps, EnrollSteps, UndoSteps, LeaveSteps, Restored
    <2>2. (Locked /\ Minted /\ Reported)'
        BY DEF Minted, Reported, Gone
    <2>3. (Enrolling /\ Undoing /\ Leaving)'
        BY DEF Enrolling, Undoing, Leaving, UndoSteps
    <2>4. (OneProfile /\ SavedTogether /\ SavedUsable /\ EnrollingIsBusy)'
        BY DEF OneProfile, SavedTogether, SavedUsable, Holds, EnrollingIsBusy, Restored
    <2> QED
        BY <2>1, <2>2, <2>3, <2>4
<1> QED
    BY <1>1, <1>2, <1>3, <1>4

-----------------------------------------------------------------------------
LEMMA NextKeepsInv == IInv /\ [Next]_vars => IInv'
<1>1. IInv /\ Next => IInv'
    BY EnrollKeepsInv, UndoKeepsInv, LeaveKeepsInv, ConnectionKeepsInv,
       OthersKeepInv DEF Next, Step
<1>2. IInv /\ UNCHANGED vars => IInv'
    <2> SUFFICES ASSUME IInv, UNCHANGED vars PROVE IInv'
        OBVIOUS
    <2> USE DEF vars, fileVars, daemonVars, cmdVars, IInv, Saved, Empty
    <2>1. (TypeOK /\ Locked /\ Minted /\ Reported)'
        BY DEF TypeOK, Locked, Minted, Reported, Gone
    <2>2. (Enrolling /\ Undoing /\ Leaving)'
        BY DEF Enrolling, Undoing, Leaving
    <2>3. (OneProfile /\ SavedTogether /\ SavedUsable /\ EnrollingIsBusy)'
        BY DEF OneProfile, SavedTogether, SavedUsable, Holds, EnrollingIsBusy
    <2> QED
        BY <2>1, <2>2, <2>3
<1> QED
    BY <1>1, <1>2

\* Every reachable state of the session satisfies the inductive invariant.
THEOREM InvariantHolds == Spec => []IInv
BY InitInv, NextKeepsInv, PTL DEF Spec

\* Every reachable state of the session is well typed: no command ends in a
\* state of the machine, or leaves a file, that the code has no word for.
THEOREM TypeCorrect == Spec => []TypeOK
<1>1. IInv => TypeOK
    BY DEF IInv
<1> QED
    BY <1>1, InvariantHolds, PTL

\* The daemon never holds two managed profiles, and the two files never
\* speak of two rooms, whatever fails, is killed or is asked for at once.
THEOREM OneRoom == Spec => [](OneProfile /\ SavedTogether)
<1>1. IInv => OneProfile /\ SavedTogether
    BY DEF IInv
<1> QED
    BY <1>1, InvariantHolds, PTL

\* A saved room that nobody set out to leave can be reconnected.
THEOREM SavedRoomsAreUsable == Spec => []SavedUsable
<1>1. IInv => SavedUsable
    BY DEF IInv
<1> QED
    BY <1>1, InvariantHolds, PTL

\* A room reported as left, or an enrollment reported as undone, is gone.
THEOREM ReportsAreTrue == Spec => []ReportedGone
<1>1. IInv => ReportedGone
    BY DEF IInv, Reported, ReportedGone
<1> QED
    BY <1>1, InvariantHolds, PTL

\* The profile of a saved room outlives the registration of its peer.
THEOREM PeersAreNotStranded == Spec => NoPeerStranded
<1> DEFINE Keeps == \A a \in profiles \ profiles' : meta = a => a \notin peers
<1>1. IInv /\ [Next]_vars => [Keeps]_vars
    <2> SUFFICES ASSUME IInv, Next, NEW a \in profiles \ profiles', meta = a
                 PROVE  a \notin peers
        OBVIOUS
    <2>1. PICK c \in Commands : UndoProfile(c) \/ Remove(c)
        BY DEF Next, Step, Start, Refuse, View, ViewMeta, ViewCode, ViewApply,
               Crash, Check, Obtain, List, Add, Login, Up, SaveCode, SaveMeta,
               Commit, TransactionFails, UndoLogin, UndoMeta, UndoCode,
               LoadToSwitch, Load, Logout, ClearMeta, ClearCode,
               LoadToDisconnect, Down, LoadToReconnect, Resume, CommandFails,
               Deregister, Applied, Abort, fileVars, daemonVars
    <2>2. CASE UndoProfile(c)
        BY <2>2, NoneIsNoEnrollment
           DEF UndoProfile, Forget, IInv, TypeOK, Undoing, UndoSteps, daemonVars
    <2>3. CASE Remove(c)
        BY <2>3 DEF Remove, Forget, IInv, Leaving, daemonVars
    <2> QED
        BY <2>1, <2>2, <2>3
<1> QED
    BY <1>1, InvariantHolds, PTL DEF Spec, NoPeerStranded

-----------------------------------------------------------------------------
(* The session is a client of one room *)

\* No engine is up for a profile that does not exist.
TunnelHasProfile == tunnel \in profiles \cup {None}

LEMMA NextKeepsTunnel == IInv /\ TunnelHasProfile /\ [Next]_vars => TunnelHasProfile'
<1> SUFFICES ASSUME IInv, TunnelHasProfile, [Next]_vars PROVE TunnelHasProfile'
    OBVIOUS
<1> USE DEF TunnelHasProfile, daemonVars
<1>1. ASSUME NEW c \in Commands, Step(c) PROVE TunnelHasProfile'
    <2>1. CASE Add(c)
        BY <2>1 DEF Add
    <2>2. CASE Login(c) \/ Up(c)
        BY <2>2 DEF Login, Up
    <2>3. CASE UndoLogin(c) \/ UndoProfile(c) \/ Logout(c) \/ Remove(c)
        BY <2>3 DEF UndoLogin, UndoProfile, Logout, Remove, Deregister, Forget
    <2>4. CASE Down(c) \/ Resume(c)
        BY <2>4 DEF Down, Resume
    <2>5. CASE \/ Check(c) \/ Obtain(c) \/ List(c) \/ SaveCode(c) \/ SaveMeta(c)
               \/ Commit(c) \/ TransactionFails(c) \/ UndoMeta(c) \/ UndoCode(c)
               \/ LoadToSwitch(c) \/ Load(c) \/ ClearMeta(c) \/ ClearCode(c)
               \/ LoadToDisconnect(c) \/ LoadToReconnect(c) \/ CommandFails(c)
        BY <2>5 DEF Check, Obtain, List, SaveCode, SaveMeta, Commit, TransactionFails,
                    UndoMeta, UndoCode, LoadToSwitch, Load, ClearMeta, ClearCode,
                    LoadToDisconnect, LoadToReconnect, CommandFails
    <2> QED
        BY <1>1, <2>1, <2>2, <2>3, <2>4, <2>5 DEF Step
<1>2. ASSUME NEW c \in Commands, NEW k, Start(c, k) PROVE TunnelHasProfile'
    BY <1>2 DEF Start
<1>3. ASSUME NEW c \in Commands, Refuse(c) PROVE TunnelHasProfile'
    BY <1>3 DEF Refuse
<1>4. CASE View \/ Crash
    BY <1>4 DEF View, ViewMeta, ViewCode, ViewApply, Crash
<1>5. CASE UNCHANGED vars
    BY <1>5 DEF vars
<1> QED
    BY <1>1, <1>2, <1>3, <1>4, <1>5 DEF Next

\* The three variables of OneRoomClient.
room == IF Saved /\ meta \notin leaving THEN meta ELSE None
gone == {a \in leaving : Gone(a)}

\* A step of files and daemon that sets out to leave no room: what matters is
\* that no trace comes back and that the traces of one room at most go away.
LEMMA TracesOnly ==
    ASSUME leaving' = leaving, room' = room,
           NEW r \in Enrollments,
           \A a \in leaving : Gone(a) => Gone(a)',
           \A a \in leaving \ {r} : Gone(a)' => Gone(a)
    PROVE  [Client!Next]_(Client!vars)
<1> USE DEF gone, room
<1>1. CASE gone' = gone
    BY <1>1 DEF Client!vars
<1>2. CASE gone' # gone
    <2>1. r \in leaving /\ gone' = gone \cup {r}
        BY <1>2
    <2> QED
        BY <2>1 DEF Client!Next, Client!Vanish
<1> QED
    BY <1>1, <1>2

\* The compensation of an enrollment begins: it was never entered.
LEMMA AbortRefines ==
    ASSUME IInv, NEW c \in Commands, Abort(c),
           pc[c] \in {"login", "up", "saveCode", "saveMeta"},
           UNCHANGED <<meta, code, profiles>>,
           \A a \in Enrollments \ {att[c]} : (a \in peers' <=> a \in peers),
           tunnel' \in {tunnel, att[c]}, TunnelHasProfile
    PROVE  [Client!Next]_(Client!vars)
<1>1. /\ att[c] \in profiles /\ att[c] \in Enrollments /\ att[c] # None
      /\ meta = None
    BY NoneIsNoEnrollment DEF IInv, TypeOK, Enrolling, Empty
<1> PICK r \in Enrollments : r = att[c]
    BY <1>1
<1>2. leaving' = leaving \cup {r} /\ leaving \subseteq Enrollments
    BY DEF Abort, IInv, TypeOK
<1>3. room = None /\ room' = None
    BY <1>1 DEF room, Saved
<1>4. \A a \in leaving' : Gone(a)' <=> a \in leaving /\ Gone(a)
    <2>1. ASSUME NEW a \in leaving, a # r
          PROVE  Gone(a)' <=> Gone(a)
        <3>1. tunnel = a => a \in profiles
            BY <1>2, <2>1, NoneIsNoEnrollment DEF TunnelHasProfile
        <3> QED
            BY <1>2, <2>1, <3>1 DEF Gone
    <2>2. ~Gone(r) /\ ~Gone(r)'
        BY <1>1 DEF Gone
    <2> QED
        BY <1>2, <2>1, <2>2
<1>5. gone' = gone
    BY <1>2, <1>4 DEF gone
<1> QED
    BY <1>1, <1>2, <1>3, <1>5 DEF Client!Next, Client!Leave, room, gone

LEMMA EnrollRefines ==
    ASSUME IInv, TunnelHasProfile, NEW c \in Commands,
           \/ Check(c) \/ Obtain(c) \/ List(c) \/ Add(c) \/ Login(c) \/ Up(c)
           \/ SaveCode(c) \/ SaveMeta(c) \/ Commit(c) \/ TransactionFails(c)
    PROVE  [Client!Next]_(Client!vars)
<1> DEFINE r == att[c]
<1>1. CASE Check(c) \/ Obtain(c) \/ List(c) \/ Commit(c)
    BY <1>1 DEF Check, Obtain, List, Commit, fileVars, daemonVars, Client!vars, Gone, Saved
<1>2. CASE Add(c)
    <2>1. PICK a \in Enrollments \ used : profiles' = profiles \cup {a}
        BY <1>2 DEF Add
    <2>2. UNCHANGED <<meta, code, peers, tunnel, leaving>>
        BY <1>2 DEF Add, fileVars
    <2>3. \A b \in leaving : Gone(b)' <=> Gone(b)
        BY <2>1, <2>2 DEF IInv, Minted, Gone
    <2>4. gone' = gone /\ room' = room
        BY <2>2, <2>3 DEF gone, room, Saved
    <2> QED
        BY <2>2, <2>4 DEF Client!vars, gone, room
<1>3. CASE pc[c] \in {"login", "up", "saveCode", "saveMeta"}
    <2>1. r \in profiles /\ r \in Enrollments /\ meta = None
        BY <1>3 DEF IInv, TypeOK, Enrolling, Empty
    <2>2. CASE Abort(c)
        <3>1. pc'[c] = "undoLogin"
            BY <2>2 DEF Abort, Proceed, Goto, IInv, TypeOK
        <3>2. CASE Login(c)
            <4>1. /\ UNCHANGED <<meta, code, profiles, tunnel>>
                  /\ peers' = peers \cup {r}
                BY <3>2 DEF Login, fileVars
            <4>2. \A a \in Enrollments \ {r} : (a \in peers' <=> a \in peers)
                BY <4>1
            <4> QED
                BY <1>3, <2>2, <4>1, <4>2, AbortRefines
        <3>3. CASE Up(c)
            <4>1. UNCHANGED <<meta, code, profiles, peers>> /\ tunnel' = r
                BY <3>3 DEF Up, fileVars
            <4> QED
                BY <1>3, <2>2, <4>1, AbortRefines
        <3>4. CASE TransactionFails(c)
            <4>1. UNCHANGED <<meta, code, profiles, peers, tunnel>>
                BY <3>4 DEF TransactionFails, fileVars, daemonVars
            <4> QED
                BY <1>3, <2>2, <4>1, AbortRefines
        <3>5. ~SaveCode(c) /\ ~SaveMeta(c)
            BY <3>1 DEF SaveCode, SaveMeta, Proceed, Goto, IInv, TypeOK
        <3> QED
            BY <1>3, <3>2, <3>3, <3>4, <3>5 DEF Check, Obtain, List, Add, Commit
    <2>3. CASE ~Abort(c) /\ ~SaveMeta(c)
        <3>1. /\ UNCHANGED <<meta, profiles, leaving>>
              /\ code' \in {code, r} /\ tunnel' \in {tunnel, r}
              /\ \A a \in Enrollments \ {r} : (a \in peers' <=> a \in peers)
            BY <1>3, <2>3 DEF Check, Obtain, List, Add, Login, Up, SaveCode, Commit,
                              TransactionFails, Applied, fileVars, daemonVars
        <3>2. code' = r => code \in {None, r}
            BY <1>3, <2>3 DEF Check, Obtain, List, Add, Login, Up, SaveCode, Commit,
                              TransactionFails, fileVars, IInv, Enrolling, Empty
        <3>3. \A a \in leaving : Gone(a)' <=> Gone(a)
            BY <2>1, <3>1, <3>2, NoneIsNoEnrollment
               DEF Gone, TunnelHasProfile, IInv, TypeOK
        <3>4. gone' = gone /\ room' = room
            BY <2>1, <3>1, <3>3 DEF gone, room, Saved
        <3> QED
            BY <3>1, <3>4 DEF Client!vars, gone, room
    <2>4. CASE SaveMeta(c)
        <3>1. /\ pc[c] = "saveMeta" /\ meta' = r /\ code = r
              /\ UNCHANGED <<code, profiles, peers, tunnel, leaving>>
            BY <2>4 DEF SaveMeta, daemonVars, IInv, Enrolling
        <3>2. \A a \in leaving : Gone(a)' <=> Gone(a)
            BY <2>1, <3>1, NoneIsNoEnrollment DEF Gone, IInv, TypeOK
        <3>3. gone' = gone
            BY <3>1, <3>2 DEF gone
        <3>4. room = None /\ room' = IF r \in leaving THEN None ELSE r
            BY <2>1, <3>1, NoneIsNoEnrollment DEF room, Saved
        <3> QED
            BY <2>1, <3>1, <3>3, <3>4 DEF Client!vars, Client!Next, Client!Enter, room, gone
    <2> QED
        BY <2>2, <2>3, <2>4
<1> QED
    BY <1>1, <1>2, <1>3 DEF Login, Up, SaveCode, SaveMeta, TransactionFails

LEMMA UndoRefines ==
    ASSUME IInv, NEW c \in Commands,
           UndoLogin(c) \/ UndoProfile(c) \/ UndoMeta(c) \/ UndoCode(c)
    PROVE  [Client!Next]_(Client!vars)
<1> DEFINE r == att[c]
<1>1. r \in Enrollments /\ meta = None /\ (code # None => code = r)
    BY DEF UndoLogin, UndoProfile, UndoMeta, UndoCode, UndoSteps, IInv, TypeOK, Undoing
<1>2. /\ leaving' = leaving /\ meta' = None
      /\ code' \in {code, None} /\ tunnel' \in {tunnel, None}
      /\ tunnel' # tunnel => tunnel = r
      /\ profiles' \subseteq profiles /\ peers' \subseteq peers
      /\ profiles \ profiles' \subseteq {r} /\ peers \ peers' \subseteq {r}
    BY <1>1 DEF UndoLogin, UndoProfile, UndoMeta, UndoCode, Deregister, Forget,
                fileVars, daemonVars
<1>3. leaving \subseteq Enrollments
    BY DEF IInv, TypeOK
<1>4. room' = room
    BY <1>1, <1>2 DEF room, Saved
<1>5. \A a \in leaving : /\ Gone(a) => Gone(a)'
                         /\ a # r /\ Gone(a)' => Gone(a)
    BY <1>1, <1>2, <1>3, NoneIsNoEnrollment DEF Gone
<1> QED
    BY <1>1, <1>2, <1>4, <1>5, TracesOnly

LEMMA LeaveRefines ==
    ASSUME IInv, NEW c \in Commands,
           Logout(c) \/ Remove(c) \/ ClearMeta(c) \/ ClearCode(c)
    PROVE  [Client!Next]_(Client!vars)
<1> DEFINE r == att[c]
<1>1. /\ r \in Enrollments /\ code = r
      /\ meta # None => meta = r /\ meta \in leaving
    BY NoneIsNoEnrollment DEF Logout, Remove, ClearMeta, ClearCode, IInv, TypeOK, Leaving
<1>2. /\ leaving' = leaving
      /\ meta' \in {meta, None} /\ code' \in {code, None} /\ tunnel' \in {tunnel, None}
      /\ tunnel' # tunnel => tunnel = r
      /\ profiles' \subseteq profiles /\ peers' \subseteq peers
      /\ profiles \ profiles' \subseteq {r} /\ peers \ peers' \subseteq {r}
    BY DEF Logout, Remove, ClearMeta, ClearCode, Deregister, Forget,
           fileVars, daemonVars
<1>3. leaving \subseteq Enrollments
    BY DEF IInv, TypeOK
<1>4. room' = room
    BY <1>1, <1>2 DEF room, Saved
<1>5. \A a \in leaving : /\ Gone(a) => Gone(a)'
                         /\ a # r /\ Gone(a)' => Gone(a)
    BY <1>1, <1>2, <1>3, NoneIsNoEnrollment DEF Gone
<1> QED
    BY <1>1, <1>2, <1>4, <1>5, TracesOnly

LEMMA LoadRefines ==
    ASSUME IInv, NEW c \in Commands, Load(c)
    PROVE  [Client!Next]_(Client!vars)
<1>1. UNCHANGED <<meta, code, profiles, peers, tunnel>>
    BY DEF Load, fileVars, daemonVars
<1>2. \A a : Gone(a)' <=> Gone(a)
    BY <1>1 DEF Gone
<1>3. CASE leaving' = leaving
    BY <1>1, <1>3 DEF Client!vars, Gone, Saved
<1>4. CASE leaving' # leaving
    <2>1. Saved /\ leaving' = leaving \cup {meta} /\ meta \notin leaving
        BY <1>4 DEF Load
    <2>2. meta \in Enrollments /\ ~Gone(meta)
        BY <2>1 DEF Saved, Gone, IInv, TypeOK
    <2>3. room = meta /\ room' = None /\ gone' = gone
        BY <1>1, <1>2, <2>1, <2>2 DEF room, gone, Saved
    <2> QED
        BY <2>1, <2>2, <2>3 DEF Client!Next, Client!Leave, room, gone
<1> QED
    BY <1>3, <1>4

LEMMA ConnectionRefines ==
    ASSUME IInv, TunnelHasProfile, NEW c \in Commands,
           \/ LoadToSwitch(c) \/ LoadToDisconnect(c) \/ Down(c)
           \/ LoadToReconnect(c) \/ Resume(c) \/ CommandFails(c)
    PROVE  [Client!Next]_(Client!vars)
<1>1. UNCHANGED <<meta, code, profiles, peers, leaving>>
    BY DEF LoadToSwitch, LoadToDisconnect, Down, LoadToReconnect, Resume, CommandFails,
           fileVars, daemonVars
<1>2. tunnel' \in {tunnel, None} \cup profiles
    BY DEF LoadToSwitch, LoadToDisconnect, Down, LoadToReconnect, Resume, CommandFails,
           daemonVars
<1>3. \A a \in leaving : Gone(a)' <=> Gone(a)
    BY <1>1, <1>2, NoneIsNoEnrollment DEF Gone, TunnelHasProfile, IInv, TypeOK
<1>4. gone' = gone /\ room' = room
    BY <1>1, <1>3 DEF gone, room, Saved
<1> QED
    BY <1>1, <1>4 DEF Client!vars, gone, room

LEMMA OthersRefine ==
    ASSUME (\E c \in Commands : Refuse(c) \/ \E k : Start(c, k)) \/ View \/ Crash
              \/ UNCHANGED vars
    PROVE  UNCHANGED Client!vars
<1>1. UNCHANGED <<meta, code, profiles, peers, tunnel, leaving>>
    BY DEF Refuse, Start, View, ViewMeta, ViewCode, ViewApply, Crash, vars,
           fileVars, daemonVars
<1> QED
    BY <1>1 DEF Client!vars, Gone, Saved

\* The session implements OneRoomClient: whichever steps of Create, Join, Leave
\* and Switch fail or end with the process, it is in one room at a time, leaves
\* it before it enters another, and what it left neither comes back nor leaves
\* anything behind once it was gone.
THEOREM SessionIsOneRoomClient == Spec => OneRoomAtATime
<1>1. Init => Client!Init
    BY NoneIsNoEnrollment DEF Init, Client!Init, Saved
<1>2. Init => TunnelHasProfile
    BY DEF Init, TunnelHasProfile
<1>3. IInv /\ TunnelHasProfile /\ [Next]_vars => [Client!Next]_(Client!vars)
    BY EnrollRefines, UndoRefines, LeaveRefines, LoadRefines, ConnectionRefines,
       OthersRefine DEF Next, Step
<1> QED
    BY <1>1, <1>2, <1>3, NextKeepsTunnel, InvariantHolds, PTL
       DEF Spec, OneRoomAtATime, Client!Spec
=============================================================================
