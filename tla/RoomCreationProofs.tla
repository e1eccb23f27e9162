-------------------------- MODULE RoomCreationProofs --------------------------
(***************************************************************************)
(* What holds of the creation of rooms: of RoomProvisioning for every set  *)
(* of requests and keys, every combination of faults and any number of     *)
(* restarts, and of RoomApiClient, its client, on top of it.               *)
(*                                                                         *)
(* 1. A room that is answered works.  A room is committed once it may be   *)
(* answered: its handler is about to reply, a client has it, or an active  *)
(* operation would replay it.  A committed room is complete, because its   *)
(* handler went through every stage (Stages), and its handler takes no     *)
(* further step that could undo one.  Only Reconcile touches rooms of      *)
(* other handlers; it follows the room_id of operations in state           *)
(* "creating", such a room is never committed (CreatingUncommitted), and   *)
(* it runs when no handler does (ReconcileAlone).                          *)
(*                                                                         *)
(* 2. Where clients repeat a key only after its handler is gone, creation  *)
(* gives every request with one key the same room, and implements          *)
(* IdempotentCreation.  With one handler for a key at a time, a handler    *)
(* that has read its operation finds it unchanged when it writes it, so no *)
(* handler past Lookup works on a key that is bound (Serial), and an       *)
(* active operation stays as it is.  Reconcile rewrites only operations    *)
(* that are "creating", which bind nothing.                                *)
(*                                                                         *)
(* 3. roomapi.Client is such a client, and what it is promised therefore.  *)
(***************************************************************************)
EXTENDS RoomApiClient, TLAPS

-----------------------------------------------------------------------------
(* 1. A room that is answered works *)

LEMMA InitInv == Init => IInv
BY NoneIsFresh, MaxCrashesIsNat
   DEF Init, IInv, TypeOK, Stages, KeyedSteps, CommittedSettled, Committed,
       Delivered, ActiveHasResponse, OpRoomOwned, CreatingUncommitted,
       ReconcileAlone, InProgress, CallSteps, StoreSteps, CreateSteps, UndoSteps

-----------------------------------------------------------------------------
(* The invariant is inductive: the handlers *)

LEMMA HandlerKeepsInv ==
    ASSUME IInv, NEW r \in Requests, Step(r)
    PROVE  IInv'
<1> USE NoneIsFresh
    DEF IInv, TypeOK, Stages, KeyedSteps, CommittedSettled, Committed,
        Delivered, Provisioned, ActiveHasResponse, OpRoomOwned,
        CreatingUncommitted, ReconcileAlone, InProgress, CallSteps, StoreSteps,
        CreateSteps, UndoSteps, RecSteps, opVars, roomVars, nbVars, reqVars,
        recVars, Goto, Succeeds
<1>1. CASE Lookup(r)
    BY <1>1 DEF Lookup
<1>2. CASE Reset(r)
    BY <1>2 DEF Reset
<1>3. CASE Rebegin(r)
    BY <1>3 DEF Rebegin, InsertOperation
<1>4. CASE Begin(r)
    BY <1>4 DEF Begin, InsertOperation
<1>5. CASE CreateRoom(r)
    BY <1>5 DEF CreateRoom
<1>6. CASE CreateGroup(r)
    BY <1>6 DEF CreateGroup, AfterCreate, AfterFailure
<1>7. CASE CreateSetupKey(r)
    BY <1>7 DEF CreateSetupKey, AfterCreate, AfterFailure
<1>8. CASE SaveKey(r)
    BY <1>8 DEF SaveKey, UpdateExternalIDs
<1>9. CASE CreateRoomPolicy(r)
    BY <1>9 DEF CreateRoomPolicy, AfterCreate, AfterFailure
<1>10. CASE SavePolicy(r)
    BY <1>10 DEF SavePolicy, UpdateExternalIDs
<1>11. CASE Activate(r)
    BY <1>11 DEF Activate
<1>12. CASE SaveOp(r)
    \* The one step that commits a keyed room.  Its operation stops being
    \* "creating"; no other operation points to the room, by OpRoomOwned.
    <2>1. key[r] \in Keys /\ Provisioned(r)
        BY <1>12 DEF SaveOp
    <2>2. CreatingUncommitted'
        BY <1>12, <2>1 DEF SaveOp, SaveOperation
    <2>3. CommittedSettled' /\ ActiveHasResponse'
        BY <1>12, <2>1 DEF SaveOp, SaveOperation
    <2>4. TypeOK' /\ Stages' /\ KeyedSteps' /\ OpRoomOwned' /\ ReconcileAlone'
        BY <1>12, <2>1 DEF SaveOp, SaveOperation
    <2> QED
        BY <2>2, <2>3, <2>4
<1>13. CASE Reply(r)
    BY <1>13 DEF Reply
<1>14. CASE UndoPolicy(r)
    BY <1>14 DEF UndoPolicy, AfterFailure
<1>15. CASE UndoKey(r)
    BY <1>15 DEF UndoKey, AfterFailure
<1>16. CASE UndoGroup(r)
    BY <1>16 DEF UndoGroup, AfterFailure
<1>17. CASE FailRoom(r)
    BY <1>17 DEF FailRoom, AfterFailure
<1>18. CASE FailOp(r)
    BY <1>18 DEF FailOp, SaveOperation, AfterFailure
<1>19. CASE CallFails(r)
    BY <1>19 DEF CallFails, AfterFailure
<1> QED
    BY <1>1, <1>2, <1>3, <1>4, <1>5, <1>6, <1>7, <1>8, <1>9, <1>10, <1>11,
       <1>12, <1>13, <1>14, <1>15, <1>16, <1>17, <1>18, <1>19 DEF Step

-----------------------------------------------------------------------------
(* The invariant is inductive: clients, restarts and Reconcile *)

LEMMA ReconcileKeepsInv ==
    ASSUME IInv, Reconcile
    PROVE  IInv'
<1> USE NoneIsFresh
    DEF IInv, TypeOK, Stages, KeyedSteps, CommittedSettled, Committed,
        Delivered, Provisioned, ActiveHasResponse, OpRoomOwned,
        CreatingUncommitted, ReconcileAlone, InProgress, CallSteps, StoreSteps,
        CreateSteps, UndoSteps, RecSteps, opVars, roomVars, nbVars, reqVars
<1>1. CASE RecList
    BY <1>1 DEF RecList, ListCreating
<1>2. ASSUME NEW k \in Keys, RecPick(k) PROVE IInv'
    BY <1>2 DEF RecPick
<1>3. CASE RecDeletePolicy
    BY <1>3 DEF RecDeletePolicy, RecHas
<1>4. CASE RecRemoveKey
    BY <1>4 DEF RecRemoveKey, RecHas
<1>5. CASE RecDeleteGroup
    BY <1>5 DEF RecDeleteGroup, RecHas
<1>6. CASE RecSetStatus
    BY <1>6 DEF RecSetStatus
<1>7. CASE RecSaveOp
    BY <1>7 DEF RecSaveOp, SaveOperation
<1>8. CASE RecEnd
    BY <1>8 DEF RecEnd
<1> QED
    BY <1>1, <1>2, <1>3, <1>4, <1>5, <1>6, <1>7, <1>8 DEF Reconcile

LEMMA EnvironmentKeepsInv ==
    ASSUME IInv,
           \/ \E r \in Requests, k \in Keys \cup {None} : Arrive(r, k)
           \/ \E r \in Requests : Cancel(r)
           \/ Crash
    PROVE  IInv'
<1> USE NoneIsFresh, MaxCrashesIsNat
    DEF IInv, TypeOK, Stages, KeyedSteps, CommittedSettled, Committed,
        Delivered, Provisioned, ActiveHasResponse, OpRoomOwned,
        CreatingUncommitted, ReconcileAlone, InProgress, CallSteps, StoreSteps,
        CreateSteps, UndoSteps, RecSteps, opVars, roomVars, nbVars, reqVars,
        recVars, Goto
<1>1. ASSUME NEW r \in Requests, NEW k \in Keys \cup {None}, Arrive(r, k)
      PROVE  IInv'
    BY <1>1 DEF Arrive
<1>2. ASSUME NEW r \in Requests, Cancel(r)
      PROVE  IInv'
    BY <1>2 DEF Cancel
<1>3. CASE Crash
    BY <1>3 DEF Crash
<1> QED
    BY <1>1, <1>2, <1>3

LEMMA NextKeepsInv == IInv /\ [Next]_vars => IInv'
<1> SUFFICES ASSUME IInv, [Next]_vars PROVE IInv'
    OBVIOUS
<1>1. CASE Next
    BY <1>1, HandlerKeepsInv, ReconcileKeepsInv, EnvironmentKeepsInv DEF Next
<1>2. CASE UNCHANGED vars
    BY <1>2
    DEF vars, opVars, roomVars, nbVars, reqVars, recVars, IInv, TypeOK, Stages,
        KeyedSteps, CommittedSettled, Committed, Delivered, Provisioned,
        ActiveHasResponse, OpRoomOwned, CreatingUncommitted, ReconcileAlone,
        InProgress
<1> QED
    BY <1>1, <1>2

\* The invariant holds in every reachable state of Create and Reconcile.
THEOREM InvariantHolds == Spec => []IInv
BY InitInv, NextKeepsInv, PTL DEF Spec

\* Tables, NetBird and handlers stay within their types.
THEOREM TypeCorrect == Spec => []TypeOK
<1>1. IInv => TypeOK
    BY DEF IInv
<1> QED
    BY <1>1, InvariantHolds, PTL

\* Create hands out working rooms, and neither a failure nor a restart ever
\* takes a handed-out room apart.
THEOREM WorkingRooms == Spec => []DeliveredUsable
<1>1. IInv => DeliveredUsable
    BY DEF IInv, CommittedSettled, Committed, DeliveredUsable
<1> QED
    BY <1>1, InvariantHolds, PTL

\* Reconcile is never pointed at a room that a client holds.
THEOREM OutOfReach == Spec => []DeliveredOutOfReach
<1>1. IInv => DeliveredOutOfReach
    BY DEF IInv, CreatingUncommitted, Committed, DeliveredOutOfReach
<1> QED
    BY <1>1, InvariantHolds, PTL

-----------------------------------------------------------------------------
(* Compensation, when nothing fails but creating calls *)

CreatingFails == Faults \cap {"store", "lost", "undo"} = {}

LEMMA HandlerUndoes ==
    ASSUME CreatingFails, IInv, LeftToUndo, NEW r \in Requests, Step(r)
    PROVE  LeftToUndo'
<1> USE NoneIsFresh
    DEF CreatingFails, IInv, TypeOK, LeftToUndo, KeyedSteps, OpRoomOwned,
        InProgress, CallSteps, StoreSteps, CreateSteps, UndoSteps, opVars,
        roomVars, nbVars, reqVars, recVars, Goto, Succeeds, MayFail
<1>1. CASE Lookup(r)
    BY <1>1 DEF Lookup
<1>2. CASE Reset(r)
    BY <1>2 DEF Reset
<1>3. CASE Rebegin(r)
    BY <1>3 DEF Rebegin, InsertOperation
<1>4. CASE Begin(r)
    BY <1>4 DEF Begin, InsertOperation
<1>5. CASE CreateRoom(r)
    BY <1>5 DEF CreateRoom
<1>6. CASE CreateGroup(r)
    BY <1>6 DEF CreateGroup, AfterCreate
<1>7. CASE CreateSetupKey(r)
    BY <1>7 DEF CreateSetupKey, AfterCreate
<1>8. CASE SaveKey(r)
    BY <1>8 DEF SaveKey, UpdateExternalIDs
<1>9. CASE CreateRoomPolicy(r)
    BY <1>9 DEF CreateRoomPolicy, AfterCreate
<1>10. CASE SavePolicy(r)
    BY <1>10 DEF SavePolicy, UpdateExternalIDs
<1>11. CASE Activate(r)
    BY <1>11 DEF Activate
<1>12. CASE SaveOp(r)
    BY <1>12 DEF SaveOp, SaveOperation
<1>13. CASE Reply(r)
    BY <1>13 DEF Reply
<1>14. CASE UndoPolicy(r)
    BY <1>14 DEF UndoPolicy, AfterFailure
<1>15. CASE UndoKey(r)
    BY <1>15 DEF UndoKey, AfterFailure
<1>16. CASE UndoGroup(r)
    BY <1>16 DEF UndoGroup, AfterFailure
<1>17. CASE FailRoom(r)
    BY <1>17 DEF FailRoom, AfterFailure
<1>18. CASE FailOp(r)
    BY <1>18 DEF FailOp, SaveOperation, AfterFailure
<1>19. CASE CallFails(r)
    BY <1>19 DEF CallFails, AfterFailure, FaultOf
<1> QED
    BY <1>1, <1>2, <1>3, <1>4, <1>5, <1>6, <1>7, <1>8, <1>9, <1>10, <1>11,
       <1>12, <1>13, <1>14, <1>15, <1>16, <1>17, <1>18, <1>19 DEF Step

LEMMA NextUndoes ==
    ASSUME CreatingFails, IInv, LeftToUndo, [Next]_vars
    PROVE  LeftToUndo'
<1> USE NoneIsFresh, MaxCrashesIsNat
    DEF IInv, TypeOK, LeftToUndo, OpRoomOwned, ReconcileAlone, InProgress,
        CallSteps, StoreSteps, CreateSteps, UndoSteps, opVars, roomVars,
        nbVars, reqVars, recVars, Goto
<1>1. ASSUME NEW r \in Requests, Step(r)
      PROVE  LeftToUndo'
    BY <1>1, HandlerUndoes
<1>2. ASSUME NEW r \in Requests, NEW k \in Keys \cup {None}, Arrive(r, k)
      PROVE  LeftToUndo'
    BY <1>2 DEF Arrive
<1>3. ASSUME NEW r \in Requests, Cancel(r)
      PROVE  LeftToUndo'
    BY <1>3 DEF Cancel
<1>4. CASE Crash
    BY <1>4 DEF Crash
<1>5. CASE Reconcile
    \* Reconcile runs after a crash only, and then nothing is claimed.
    <2>1. phase # "serving" /\ UNCHANGED crashes
        BY <1>5 DEF Reconcile, RecList, RecPick, RecDeletePolicy, RecRemoveKey,
                    RecDeleteGroup, RecSetStatus, RecSaveOp, RecEnd
    <2>2. crashes # 0 /\ UNCHANGED cancelled
        BY <1>5, <2>1
        DEF Reconcile, RecList, RecPick, RecDeletePolicy, RecRemoveKey,
            RecDeleteGroup, RecSetStatus, RecSaveOp, RecEnd
    <2> QED
        BY <2>1, <2>2
<1>6. CASE UNCHANGED vars
    BY <1>6 DEF vars
<1> QED
    BY <1>1, <1>2, <1>3, <1>4, <1>5, <1>6 DEF Next

\* While only creating calls fail, fail() and the deferred undo calls of Create
\* leave nothing of a creation that failed behind.
THEOREM Compensates == CreatingFails => (Spec => []CompensationComplete)
<1> SUFFICES ASSUME CreatingFails PROVE Spec => []CompensationComplete
    OBVIOUS
<1>1. Init => LeftToUndo
    BY DEF Init, LeftToUndo
<1>2. IInv /\ LeftToUndo /\ [Next]_vars => LeftToUndo'
    BY NextUndoes
<1>3. LeftToUndo => CompensationComplete
    BY DEF LeftToUndo, CompensationComplete
<1> QED
    BY <1>1, <1>2, <1>3, InvariantHolds, PTL DEF Spec

-----------------------------------------------------------------------------
(* 2. One key, one room *)

LEMMA InitSerial == Init => Serial
BY NoneIsFresh DEF Init, Serial, InProgress, CallSteps, StoreSteps, CreateSteps,
                   UndoSteps

LEMMA HandlerKeepsSerial ==
    ASSUME SerialInv, NEW r \in Requests, Step(r)
    PROVE  Serial'
<1> USE NoneIsFresh
    DEF SerialInv, Serial, IInv, TypeOK, KeyedSteps, InProgress, CallSteps,
        StoreSteps, CreateSteps, UndoSteps, opVars, roomVars, nbVars, reqVars,
        recVars, Goto, Succeeds
<1>1. CASE Lookup(r)
    BY <1>1 DEF Lookup, ActiveHasResponse
<1>2. CASE Reset(r)
    BY <1>2 DEF Reset
<1>3. CASE Rebegin(r)
    BY <1>3 DEF Rebegin, InsertOperation
<1>4. CASE Begin(r)
    BY <1>4 DEF Begin, InsertOperation
<1>5. CASE CreateRoom(r)
    BY <1>5 DEF CreateRoom
<1>6. CASE CreateGroup(r)
    BY <1>6 DEF CreateGroup, AfterCreate, AfterFailure
<1>7. CASE CreateSetupKey(r)
    BY <1>7 DEF CreateSetupKey, AfterCreate, AfterFailure
<1>8. CASE SaveKey(r)
    BY <1>8 DEF SaveKey, UpdateExternalIDs
<1>9. CASE CreateRoomPolicy(r)
    BY <1>9 DEF CreateRoomPolicy, AfterCreate, AfterFailure
<1>10. CASE SavePolicy(r)
    BY <1>10 DEF SavePolicy, UpdateExternalIDs
<1>11. CASE Activate(r)
    BY <1>11 DEF Activate
<1>12. CASE SaveOp(r)
    BY <1>12 DEF SaveOp, SaveOperation
<1>13. CASE Reply(r)
    BY <1>13 DEF Reply
<1>14. CASE UndoPolicy(r)
    BY <1>14 DEF UndoPolicy, AfterFailure
<1>15. CASE UndoKey(r)
    BY <1>15 DEF UndoKey, AfterFailure
<1>16. CASE UndoGroup(r)
    BY <1>16 DEF UndoGroup, AfterFailure
<1>17. CASE FailRoom(r)
    BY <1>17 DEF FailRoom, AfterFailure
<1>18. CASE FailOp(r)
    BY <1>18 DEF FailOp, SaveOperation, AfterFailure
<1>19. CASE CallFails(r)
    BY <1>19 DEF CallFails, AfterFailure
<1> QED
    BY <1>1, <1>2, <1>3, <1>4, <1>5, <1>6, <1>7, <1>8, <1>9, <1>10, <1>11,
       <1>12, <1>13, <1>14, <1>15, <1>16, <1>17, <1>18, <1>19 DEF Step

LEMMA ArrivalKeepsSerial ==
    ASSUME SerialInv, NEW r \in Requests, NEW k \in Keys \cup {None},
           Arrive(r, k),
           k # None => \A q \in Requests : key[q] = k => ~InProgress(q)
    PROVE  Serial'
BY NoneIsFresh
   DEF Arrive, Goto, SerialInv, Serial, IInv, TypeOK, ReconcileAlone, InProgress,
       CallSteps, StoreSteps, CreateSteps, UndoSteps, opVars, roomVars, nbVars,
       reqVars, recVars

LEMMA EnvironmentKeepsSerial ==
    ASSUME SerialInv, (\E r \in Requests : Cancel(r)) \/ Crash \/ Reconcile
    PROVE  Serial'
<1> USE NoneIsFresh
    DEF SerialInv, Serial, IInv, TypeOK, ReconcileAlone, InProgress, CallSteps,
        StoreSteps, CreateSteps, UndoSteps, opVars, roomVars, nbVars, reqVars,
        recVars
<1>1. ASSUME NEW r \in Requests, Cancel(r)
      PROVE  Serial'
    BY <1>1 DEF Cancel
<1>2. CASE Crash
    BY <1>2 DEF Crash
<1>3. CASE Reconcile
    <2>1. CASE RecSaveOp
        BY <2>1 DEF RecSaveOp, SaveOperation
    <2>2. CASE ~RecSaveOp
        <3>1. UNCHANGED <<opVars, pc, reqVars>>
            BY <1>3, <2>2
            DEF Reconcile, RecList, RecPick, RecDeletePolicy, RecRemoveKey,
                RecDeleteGroup, RecSetStatus, RecEnd
        <3> QED
            BY <3>1
    <2> QED
        BY <2>1, <2>2
<1> QED
    BY <1>1, <1>2, <1>3

LEMMA NextKeepsSerial ==
    ASSUME SerialRetries
    PROVE  SerialInv /\ [Next]_vars => SerialInv'
<1> SUFFICES ASSUME SerialInv, [Next]_vars PROVE SerialInv'
    OBVIOUS
<1>1. IInv'
    BY NextKeepsInv DEF SerialInv
<1>2. CASE Next
    <2>1. ASSUME NEW r \in Requests, NEW k \in Keys \cup {None}, Arrive(r, k)
          PROVE  SerialInv'
        BY <1>1, <2>1, ArrivalKeepsSerial, SerialRetriesIsBoolean
        DEF Arrive, SerialInv
    <2> QED
        BY <1>1, <1>2, <2>1, HandlerKeepsSerial, EnvironmentKeepsSerial
        DEF Next, SerialInv
<1>3. CASE UNCHANGED vars
    BY <1>1, <1>3
    DEF vars, opVars, roomVars, nbVars, reqVars, recVars, SerialInv, Serial,
        InProgress
<1> QED
    BY <1>2, <1>3

\* The two invariants together hold wherever retries are serial.
THEOREM SerialHolds == SerialRetries => (Spec => []SerialInv)
<1> SUFFICES ASSUME SerialRetries PROVE Spec => []SerialInv
    OBVIOUS
<1>1. Init => SerialInv
    BY InitInv, InitSerial DEF SerialInv
<1>2. SerialInv /\ [Next]_vars => SerialInv'
    BY NextKeepsSerial
<1> QED
    BY <1>1, <1>2, PTL DEF Spec

\* An Idempotency-Key stands for one room, however many requests carry it.
THEOREM OneRoom == SerialRetries => (Spec => []OneRoomPerKey)
<1>1. SerialInv => OneRoomPerKey
    BY DEF SerialInv, Serial, OneRoomPerKey
<1> QED
    BY <1>1, SerialHolds, PTL

-----------------------------------------------------------------------------
(* Refinement *)

LEMMA InitRefines == Init => Abstract!Init
BY DEF Init, Abstract!Init

LEMMA HandlerRefines ==
    ASSUME SerialInv, NEW r \in Requests, Step(r)
    PROVE  [Abstract!Next]_Abstract!vars
<1> USE NoneIsFresh
    DEF SerialInv, Serial, IInv, TypeOK, KeyedSteps, InProgress, CallSteps,
        StoreSteps, CreateSteps, UndoSteps, opVars, roomVars, nbVars, reqVars,
        recVars, Goto, Succeeds, Abstract!vars
<1> DEFINE bound == [k \in Keys |->
                        IF opStatus[k] = "active" THEN opResponse[k] ELSE None]
<1>1. CASE Lookup(r)
    <2>1. CASE opStatus[key[r]] = "active"
        <3>1. Abstract!Answer(r)
            BY <1>1, <2>1 DEF Lookup, Abstract!Answer, ActiveHasResponse
        <3> QED
            BY <3>1 DEF Abstract!Next
    <2>2. CASE opStatus[key[r]] # "active"
        BY <1>1, <2>2 DEF Lookup
    <2> QED
        BY <2>1, <2>2
<1>2. CASE SaveOp(r)
    <2>1. Abstract!Bind(r)
        BY <1>2 DEF SaveOp, SaveOperation, Abstract!Bind
    <2> QED
        BY <2>1 DEF Abstract!Next
<1>3. CASE Reply(r)
    <2>1. Abstract!Answer(r)
        BY <1>3 DEF Reply, Abstract!Answer
    <2> QED
        BY <2>1 DEF Abstract!Next
<1>4. CASE Reset(r) \/ Rebegin(r) \/ Begin(r) \/ FailOp(r)
    \* These rewrite an operation, none that was active or becomes so.
    <2>1. key[r] \in Keys /\ opStatus[key[r]] # "active"
        BY <1>4 DEF Reset, Rebegin, Begin, FailOp
    <2>2. bound' = bound
        BY <1>4, <2>1 DEF Reset, Rebegin, Begin, FailOp, InsertOperation,
                          SaveOperation
    <2> QED
        BY <1>4, <2>2 DEF Reset, Rebegin, Begin, FailOp
<1>5. CASE ~(\/ Lookup(r) \/ SaveOp(r) \/ Reply(r)
             \/ Reset(r) \/ Rebegin(r) \/ Begin(r) \/ FailOp(r))
    <2>1. UNCHANGED <<opVars, reqVars>>
        BY <1>5
        DEF Step, CreateRoom, CreateGroup, CreateSetupKey, SaveKey,
            CreateRoomPolicy, SavePolicy, UpdateExternalIDs, Activate,
            UndoPolicy, UndoKey, UndoGroup, FailRoom, CallFails
    <2> QED
        BY <2>1
<1> QED
    BY <1>1, <1>2, <1>3, <1>4, <1>5

LEMMA NextRefines ==
    ASSUME SerialInv, [Next]_vars
    PROVE  [Abstract!Next]_Abstract!vars
<1> USE NoneIsFresh
    DEF SerialInv, Serial, IInv, TypeOK, ReconcileAlone, opVars, roomVars,
        nbVars, reqVars, recVars, Abstract!vars
<1>1. ASSUME NEW r \in Requests, NEW k \in Keys \cup {None}, Arrive(r, k)
      PROVE  [Abstract!Next]_Abstract!vars
    <2>1. CASE k = None
        BY <1>1, <2>1 DEF Arrive
    <2>2. CASE k \in Keys
        <3>1. Abstract!Submit(r, k)
            BY <1>1, <2>2 DEF Arrive, Abstract!Submit
        <3> QED
            BY <2>2, <3>1 DEF Abstract!Next
    <2> QED
        BY <2>1, <2>2
<1>2. CASE RecSaveOp
    BY <1>2 DEF RecSaveOp, SaveOperation
<1>3. CASE Reconcile /\ ~RecSaveOp
    BY <1>3
    DEF Reconcile, RecList, RecPick, RecDeletePolicy, RecRemoveKey,
        RecDeleteGroup, RecSetStatus, RecEnd
<1>4. CASE (\E r \in Requests : Cancel(r)) \/ Crash \/ UNCHANGED vars
    BY <1>4 DEF Cancel, Crash, vars
<1> QED
    BY <1>1, <1>2, <1>3, <1>4, HandlerRefines DEF Next

\* Every step of creation, of a failure, a cancellation or a restart is a
\* step IdempotentCreation allows, or leaves what it speaks of unchanged.
THEOREM Refinement == SerialRetries => (Spec => KeepsPromise)
<1> SUFFICES ASSUME SerialRetries PROVE Spec => Abstract!Spec
    BY DEF KeepsPromise
<1>1. SerialInv /\ [Next]_vars => [Abstract!Next]_Abstract!vars
    BY NextRefines
<1> QED
    BY <1>1, SerialHolds, InitRefines, PTL DEF Spec, Abstract!Spec

-----------------------------------------------------------------------------
(* 3. The client and the server together *)

LEMMA InitClientInv == ClientInit => ClientInv
BY NoneIsFresh, RetriesIsNat
   DEF ClientInit, Init, ClientInv, ClientTypeOK, CallsGoOn, AttemptsAccounted,
       InProgress, CallSteps, StoreSteps, CreateSteps, UndoSteps

\* A step of the composed system is a step of the server or none.
LEMMA ServerPart == [ClientNext]_allVars => [Next]_vars
<1> SUFFICES ASSUME [ClientNext]_allVars PROVE [Next]_vars
    OBVIOUS
<1>1. ASSUME NEW k \in Keys, NEW r \in Requests, Send(k, r)
      PROVE  Next
    BY <1>1 DEF Send, Next
<1>2. ASSUME NEW k \in Keys,
             BeginCall(k) \/ Refused(k) \/ Wake(k) \/ Receive(k)
                 \/ ReceiveError(k) \/ Lost(k)
      PROVE  UNCHANGED vars
    BY <1>2 DEF BeginCall, Refused, Wake, Receive, ReceiveError, Lost,
                LoseAnswer, Garbled, Break, Timeout, Retry, serverVars
<1>3. CASE ServerStep
    BY <1>3 DEF ServerStep, CrashBreaks, Abandoned, Next
<1>4. CASE UNCHANGED allVars
    BY <1>4 DEF allVars, serverVars
<1> QED
    BY <1>1, <1>2, <1>3, <1>4 DEF ClientNext, CallStep

LEMMA ServerHolds == ClientSpec => Spec
<1>1. ClientInit => Init
    BY DEF ClientInit
<1> QED
    BY <1>1, ServerPart, PTL DEF ClientSpec, Spec

\* A handler that takes a step was running, and only its own position moves.
LEMMA StepIsLocal ==
    ASSUME TypeOK, NEW r \in Requests, Step(r)
    PROVE  /\ InProgress(r)
           /\ UNCHANGED key
           /\ \A q \in Requests \ {r} : pc'[q] = pc[q]
BY DEF TypeOK, Step, Lookup, Reset, Rebegin, Begin, CreateRoom, CreateGroup,
       CreateSetupKey, SaveKey, CreateRoomPolicy, SavePolicy, UpdateExternalIDs,
       Activate, SaveOp, Reply, UndoPolicy, UndoKey, UndoGroup, FailRoom, FailOp,
       CallFails, AfterCreate, Goto, Succeeds, InProgress, CallSteps, StoreSteps,
       CreateSteps, UndoSteps, reqVars

LEMMA ClientKeepsInv ==
    ASSUME Serialising, TypeOK, ClientInv, NEW k \in Keys,
           BeginCall(k) \/ CallStep(k) \/ Lost(k)
    PROVE  ClientInv'
<1> USE NoneIsFresh, RetriesIsNat
    DEF ClientInv, ClientTypeOK, CallsGoOn, Now, Retry, Unread, serverVars, vars, reqVars
<1>1. ASSUME NEW r \in Requests, Send(k, r)
      PROVE  ClientInv'
    <2>1. /\ key' = [key EXCEPT ![r] = k]
          /\ \A q \in Requests \ {r} : pc'[q] = pc[q]
        BY <1>1 DEF Send, Arrive, Goto, TypeOK
    <2>2. AttemptsAccounted'
        BY <1>1, <2>1 DEF Send, AttemptsAccounted, InProgress, TypeOK
    <2> QED
        BY <1>1, <2>2 DEF Send
<1>2. CASE BeginCall(k)
    BY <1>2 DEF BeginCall, AttemptsAccounted, InProgress, Serialising
<1>3. CASE Refused(k)
    <2>1. UNCHANGED <<pc, key>> /\ call[k] = "send"
        BY <1>3 DEF Refused
    <2>2. call' \in [Keys -> {"fresh", "send", "await", "wait", "failed", "complete"}]
        BY <1>3 DEF Refused
    <2> QED
        BY <1>3, <2>1, <2>2 DEF Refused, AttemptsAccounted, InProgress
<1>4. CASE Wake(k)
    <2>1. ClientTypeOK'
        BY <1>4 DEF Wake
    <2>2. UNCHANGED <<pc, key>> /\ call[k] = "wait"
        BY <1>4 DEF Wake
    <2> QED
        BY <1>4, <2>1, <2>2 DEF Wake, AttemptsAccounted, InProgress
<1>7. CASE Receive(k) \/ ReceiveError(k) \/ LoseAnswer(k) \/ Garbled(k)
    <2>1. /\ UNCHANGED <<pc, key>> /\ call[k] = "await"
          /\ ~InProgress(awaited[k])
          /\ UNCHANGED awaited
          /\ \A j \in Keys \ {k} : call'[j] = call[j]
        BY <1>7 DEF Receive, ReceiveError, LoseAnswer, Garbled, Ended,
                    Transient, InProgress, CallSteps, StoreSteps, CreateSteps,
                    UndoSteps
    <2>2. ClientTypeOK'
        BY <1>7, <2>1 DEF Receive, ReceiveError, LoseAnswer, Garbled, TypeOK
    <2>3. AttemptsAccounted'
        <3> SUFFICES ASSUME NEW r \in Requests, InProgress(r)
                     PROVE  /\ key[r] \in Keys
                            /\ \/ call'[key[r]] = "await" /\ awaited[key[r]] = r
                               \/ call'[key[r]] = "failed" /\ "timeout" \in Losses
            BY <2>1 DEF AttemptsAccounted, InProgress
        <3>1. key[r] \in Keys \ {k}
            BY <2>1 DEF AttemptsAccounted
        <3> QED
            BY <2>1, <3>1 DEF AttemptsAccounted
    <2>4. CallsGoOn'
        BY <1>7 DEF Receive, ReceiveError, LoseAnswer, Garbled
    <2> QED
        BY <2>2, <2>3, <2>4
<1>5. CASE Break(k)
    BY <1>5 DEF Break, Serialising
<1>6. CASE Timeout(k)
    BY <1>6 DEF Timeout, Under, AttemptsAccounted, InProgress
<1> QED
    BY <1>1, <1>2, <1>3, <1>4, <1>5, <1>6, <1>7 DEF CallStep, Lost

LEMMA ServerKeepsInv ==
    ASSUME TypeOK, ClientInv, ServerStep
    PROVE  ClientInv'
<1> USE DEF ClientInv, ClientTypeOK, CallsGoOn
<1>1. ASSUME NEW r \in Requests, Step(r), UNCHANGED clientVars
      PROVE  ClientInv'
    BY <1>1, StepIsLocal DEF clientVars, AttemptsAccounted, InProgress
<1>2. ASSUME NEW r \in Requests, Abandoned(r), UNCHANGED clientVars
      PROVE  ClientInv'
    BY <1>2 DEF Abandoned, Cancel, clientVars, AttemptsAccounted, InProgress
<1>3. CASE CrashBreaks
    BY <1>3 DEF CrashBreaks, Crash, reqVars, AttemptsAccounted, InProgress,
                TypeOK, CallSteps, StoreSteps, CreateSteps, UndoSteps
<1>4. CASE Reconcile /\ UNCHANGED clientVars
    <2>1. UNCHANGED <<pc, key>>
        BY <1>4
        DEF Reconcile, RecList, RecPick, RecDeletePolicy, RecRemoveKey,
            RecDeleteGroup, RecSetStatus, RecSaveOp, RecEnd, reqVars
    <2> QED
        BY <1>4, <2>1 DEF clientVars, AttemptsAccounted, InProgress
<1> QED
    BY <1>1, <1>2, <1>3, <1>4 DEF ServerStep

LEMMA ClientInvHolds == Serialising => (ClientSpec => []ClientInv)
<1> SUFFICES ASSUME Serialising PROVE ClientSpec => []ClientInv
    OBVIOUS
<1>1. TypeOK /\ ClientInv /\ [ClientNext]_allVars => ClientInv'
    <2> SUFFICES ASSUME TypeOK, ClientInv, [ClientNext]_allVars PROVE ClientInv'
        OBVIOUS
    <2>1. CASE UNCHANGED allVars
        BY <2>1 DEF allVars, serverVars, vars, reqVars, clientVars, ClientInv,
                    ClientTypeOK, CallsGoOn, AttemptsAccounted, InProgress
    <2> QED
        BY <2>1, ClientKeepsInv, ServerKeepsInv DEF ClientNext
<1> QED
    BY <1>1, InitClientInv, ServerHolds, TypeCorrect, PTL DEF ClientSpec

-----------------------------------------------------------------------------
(* The client is one the promise is made to *)

\* The two instances differ in the guard of Arrive only.
LEMMA SameHandler == ASSUME NEW r \in Requests, Step(r) PROVE SerialServer!Step(r)
BY DEF Lookup, Reset, Rebegin, Begin, CreateRoom, CreateGroup, CreateSetupKey,
       SaveKey, CreateRoomPolicy, SavePolicy, UpdateExternalIDs, Activate,
       SaveOp, Reply, UndoPolicy, UndoKey, UndoGroup, FailRoom, FailOp,
       CallFails, AfterCreate, AfterFailure, Goto, Succeeds, MayFail, FaultOf,
       InsertOperation, SaveOperation, CallSteps, StoreSteps, CreateSteps,
       UndoSteps, opVars, roomVars, nbVars, reqVars, recVars, Step,
       SerialServer!Lookup, SerialServer!Reset, SerialServer!Rebegin,
       SerialServer!Begin, SerialServer!CreateRoom, SerialServer!CreateGroup,
       SerialServer!CreateSetupKey, SerialServer!SaveKey,
       SerialServer!CreateRoomPolicy, SerialServer!SavePolicy,
       SerialServer!UpdateExternalIDs, SerialServer!Activate,
       SerialServer!SaveOp, SerialServer!Reply, SerialServer!UndoPolicy,
       SerialServer!UndoKey, SerialServer!UndoGroup, SerialServer!FailRoom,
       SerialServer!FailOp, SerialServer!CallFails, SerialServer!AfterCreate,
       SerialServer!AfterFailure, SerialServer!Goto, SerialServer!Succeeds,
       SerialServer!MayFail, SerialServer!FaultOf,
       SerialServer!InsertOperation, SerialServer!SaveOperation,
       SerialServer!CallSteps, SerialServer!StoreSteps,
       SerialServer!CreateSteps, SerialServer!UndoSteps, SerialServer!opVars,
       SerialServer!roomVars, SerialServer!nbVars, SerialServer!reqVars,
       SerialServer!recVars, SerialServer!Step

LEMMA SameReconcile == Reconcile => SerialServer!Reconcile
BY DEF Reconcile, RecList, RecPick, RecDeletePolicy, RecRemoveKey,
       RecDeleteGroup, RecSetStatus, RecSaveOp, RecEnd, RecHas, ListCreating,
       SaveOperation, opVars, roomVars, nbVars, reqVars, recVars,
       SerialServer!Reconcile, SerialServer!RecList, SerialServer!RecPick,
       SerialServer!RecDeletePolicy, SerialServer!RecRemoveKey,
       SerialServer!RecDeleteGroup, SerialServer!RecSetStatus,
       SerialServer!RecSaveOp, SerialServer!RecEnd, SerialServer!RecHas,
       SerialServer!ListCreating, SerialServer!SaveOperation,
       SerialServer!opVars, SerialServer!roomVars, SerialServer!nbVars,
       SerialServer!reqVars, SerialServer!recVars

LEMMA SameEnvironment ==
    /\ Crash => SerialServer!Crash
    /\ \A r \in Requests : Cancel(r) => SerialServer!Cancel(r)
BY DEF Crash, Cancel, InProgress, CallSteps, StoreSteps, CreateSteps,
       UndoSteps, opVars, roomVars, nbVars, reqVars, recVars,
       SerialServer!Crash, SerialServer!Cancel, SerialServer!InProgress,
       SerialServer!CallSteps, SerialServer!StoreSteps,
       SerialServer!CreateSteps, SerialServer!UndoSteps, SerialServer!opVars,
       SerialServer!roomVars, SerialServer!nbVars, SerialServer!reqVars,
       SerialServer!recVars

\* An attempt is sent when no handler for its key is left.
LEMMA SerialArrival ==
    ASSUME ClientInv, NEW k \in Keys, NEW r \in Requests, Send(k, r)
    PROVE  SerialServer!Arrive(r, k)
<1>1. \A q \in Requests : key[q] = k => ~InProgress(q)
    BY DEF Send, ClientInv, AttemptsAccounted
<1> QED
    BY <1>1 DEF Arrive, InProgress, Goto, CallSteps, StoreSteps, CreateSteps,
                UndoSteps, opVars, roomVars, nbVars, reqVars, recVars,
                SerialServer!Arrive, SerialServer!InProgress,
                SerialServer!Goto, SerialServer!CallSteps,
                SerialServer!StoreSteps, SerialServer!CreateSteps,
                SerialServer!UndoSteps, SerialServer!opVars,
                SerialServer!roomVars, SerialServer!nbVars,
                SerialServer!reqVars, SerialServer!recVars, Send

LEMMA NextIsSerial ==
    ASSUME ClientInv, [ClientNext]_allVars
    PROVE  [SerialServer!Next]_SerialServer!vars
<1> USE DEF SerialServer!Next
<1>1. ASSUME NEW k \in Keys, NEW r \in Requests, Send(k, r)
      PROVE  SerialServer!Next
    BY <1>1, SerialArrival
<1>2. CASE ServerStep
    BY <1>2, SameHandler, SameReconcile, SameEnvironment
    DEF ServerStep, CrashBreaks, Abandoned
<1>3. ASSUME NEW k \in Keys,
             BeginCall(k) \/ Refused(k) \/ Wake(k) \/ Receive(k)
                 \/ ReceiveError(k) \/ Lost(k)
      PROVE  UNCHANGED vars
    BY <1>3 DEF BeginCall, Refused, Wake, Receive, ReceiveError, Lost,
                LoseAnswer, Garbled, Break, Timeout, Retry, serverVars
<1>4. CASE UNCHANGED allVars
    BY <1>4 DEF allVars, serverVars, vars, SerialServer!vars, opVars, roomVars,
                nbVars, reqVars, recVars, SerialServer!opVars,
                SerialServer!roomVars, SerialServer!nbVars,
                SerialServer!reqVars, SerialServer!recVars
<1>5. UNCHANGED vars => UNCHANGED SerialServer!vars
    BY DEF vars, SerialServer!vars, opVars, roomVars,
           nbVars, reqVars, recVars, SerialServer!opVars,
           SerialServer!roomVars, SerialServer!nbVars,
           SerialServer!reqVars, SerialServer!recVars
<1> QED
    BY <1>1, <1>2, <1>3, <1>4, <1>5 DEF ClientNext, CallStep

\* As far as the server can tell, the client's retries do not overlap.
THEOREM ClientIsSerial == Serialising => (ClientSpec => ServesSerially)
<1> SUFFICES ASSUME Serialising PROVE ClientSpec => SerialServer!Spec
    BY DEF ServesSerially
<1>1. ClientInit => SerialServer!Init
    BY DEF ClientInit, Init, SerialServer!Init
<1>2. ClientInv /\ [ClientNext]_allVars => [SerialServer!Next]_SerialServer!vars
    BY NextIsSerial
<1> QED
    BY <1>1, <1>2, ClientInvHolds, PTL DEF ClientSpec, SerialServer!Spec

-----------------------------------------------------------------------------
(* What it is promised *)

LEMMA NextKeepsSerialForClient ==
    ASSUME SerialInv, ClientInv, [ClientNext]_allVars
    PROVE  SerialInv'
<1>1. IInv'
    BY ServerPart, NextKeepsInv DEF SerialInv
<1>2. ASSUME NEW k \in Keys, NEW r \in Requests, Send(k, r)
      PROVE  Serial'
    <2>1. \A q \in Requests : key[q] = k => ~InProgress(q)
        BY <1>2 DEF Send, ClientInv, AttemptsAccounted
    <2> QED
        BY <1>2, <2>1, ArrivalKeepsSerial DEF Send
<1>3. CASE ServerStep
    BY <1>1, <1>3, HandlerKeepsSerial, EnvironmentKeepsSerial
    DEF ServerStep, CrashBreaks, Abandoned, SerialInv
<1>4. CASE UNCHANGED vars
    BY <1>1, <1>4 DEF SerialInv, Serial, vars, opVars, reqVars, InProgress
<1>5. ASSUME NEW k \in Keys,
             BeginCall(k) \/ Refused(k) \/ Wake(k) \/ Receive(k)
                 \/ ReceiveError(k) \/ Lost(k)
      PROVE  UNCHANGED vars
    BY <1>5 DEF BeginCall, Refused, Wake, Receive, ReceiveError, Lost,
                LoseAnswer, Garbled, Break, Timeout, Retry, serverVars
<1>6. CASE UNCHANGED allVars
    BY <1>4, <1>6 DEF allVars, serverVars
<1> QED
    BY <1>1, <1>2, <1>3, <1>4, <1>5, <1>6 DEF SerialInv, ClientNext, CallStep

LEMMA HandlerKeepsBound ==
    ASSUME SerialInv, BoundRooms, NEW r \in Requests, Step(r)
    PROVE  BoundRooms'
<1> USE NoneIsFresh
    DEF SerialInv, Serial, BoundRooms, IInv, TypeOK, KeyedSteps, ReconcileAlone,
        InProgress, CallSteps, StoreSteps, CreateSteps, UndoSteps, opVars,
        roomVars, nbVars, reqVars, recVars, Goto, Succeeds
<1>1. CASE Lookup(r)
    BY <1>1 DEF Lookup
<1>2. CASE Reset(r)
    BY <1>2 DEF Reset
<1>3. CASE Rebegin(r)
    BY <1>3 DEF Rebegin, InsertOperation
<1>4. CASE Begin(r)
    BY <1>4 DEF Begin, InsertOperation
<1>5. CASE CreateRoom(r)
    BY <1>5 DEF CreateRoom
<1>6. CASE CreateGroup(r)
    BY <1>6 DEF CreateGroup, AfterCreate, AfterFailure
<1>7. CASE CreateSetupKey(r)
    BY <1>7 DEF CreateSetupKey, AfterCreate, AfterFailure
<1>8. CASE SaveKey(r)
    BY <1>8 DEF SaveKey, UpdateExternalIDs
<1>9. CASE CreateRoomPolicy(r)
    BY <1>9 DEF CreateRoomPolicy, AfterCreate, AfterFailure
<1>10. CASE SavePolicy(r)
    BY <1>10 DEF SavePolicy, UpdateExternalIDs
<1>11. CASE Activate(r)
    BY <1>11 DEF Activate
<1>12. CASE SaveOp(r)
    BY <1>12 DEF SaveOp, SaveOperation
<1>13. CASE Reply(r)
    BY <1>13 DEF Reply
<1>14. CASE UndoPolicy(r)
    BY <1>14 DEF UndoPolicy, AfterFailure
<1>15. CASE UndoKey(r)
    BY <1>15 DEF UndoKey, AfterFailure
<1>16. CASE UndoGroup(r)
    BY <1>16 DEF UndoGroup, AfterFailure
<1>17. CASE FailRoom(r)
    BY <1>17 DEF FailRoom, AfterFailure
<1>18. CASE FailOp(r)
    BY <1>18 DEF FailOp, SaveOperation, AfterFailure
<1>19. CASE CallFails(r)
    BY <1>19 DEF CallFails, AfterFailure
<1> QED
    BY <1>1, <1>2, <1>3, <1>4, <1>5, <1>6, <1>7, <1>8, <1>9, <1>10, <1>11,
       <1>12, <1>13, <1>14, <1>15, <1>16, <1>17, <1>18, <1>19 DEF Step

LEMMA ReconcileKeepsBound ==
    ASSUME SerialInv, BoundRooms, Reconcile
    PROVE  BoundRooms'
<1> USE NoneIsFresh
    DEF SerialInv, Serial, BoundRooms, IInv, TypeOK, OpRoomOwned,
        CreatingUncommitted, ReconcileAlone, InProgress, CallSteps, StoreSteps,
        CreateSteps, UndoSteps, opVars, roomVars, nbVars, reqVars, recVars
<1>1. CASE RecPick(current')
    BY <1>1 DEF RecPick
<1>2. CASE RecSetStatus
    BY <1>2 DEF RecSetStatus
<1>3. CASE RecSaveOp
    BY <1>3 DEF RecSaveOp, SaveOperation
<1>4. CASE RecList \/ RecDeletePolicy \/ RecRemoveKey \/ RecDeleteGroup \/ RecEnd
    BY <1>4 DEF RecList, RecDeletePolicy, RecRemoveKey, RecDeleteGroup, RecEnd
<1>5. ASSUME NEW k \in Keys, RecPick(k)
      PROVE  RecPick(current')
    BY <1>5 DEF RecPick
<1> QED
    BY <1>1, <1>2, <1>3, <1>4, <1>5 DEF Reconcile

LEMMA NextKeepsBound ==
    ASSUME SerialInv, ClientInv, BoundRooms, [ClientNext]_allVars
    PROVE  BoundRooms'
<1> USE NoneIsFresh
    DEF BoundRooms, opVars, roomVars, nbVars, reqVars, recVars
<1>1. ASSUME NEW k \in Keys, NEW r \in Requests, Send(k, r)
      PROVE  BoundRooms'
    BY <1>1 DEF Send, Arrive, Goto, SerialInv, IInv, TypeOK, CallSteps,
                StoreSteps, CreateSteps, UndoSteps
<1>2. CASE (\E r \in Requests : Cancel(r)) \/ Crash
    BY <1>2 DEF Cancel, Crash, InProgress, SerialInv, IInv, TypeOK, CallSteps,
                StoreSteps, CreateSteps, UndoSteps
<1>3. CASE ServerStep
    BY <1>2, <1>3, HandlerKeepsBound, ReconcileKeepsBound
    DEF ServerStep, CrashBreaks, Abandoned
<1>4. CASE UNCHANGED vars
    BY <1>4 DEF vars
<1>5. ASSUME NEW k \in Keys,
             BeginCall(k) \/ Refused(k) \/ Wake(k) \/ Receive(k)
                 \/ ReceiveError(k) \/ Lost(k)
      PROVE  UNCHANGED vars
    BY <1>5 DEF BeginCall, Refused, Wake, Receive, ReceiveError, Lost,
                LoseAnswer, Garbled, Break, Timeout, Retry, serverVars
<1>6. CASE UNCHANGED allVars
    BY <1>4, <1>6 DEF allVars, serverVars
<1> QED
    BY <1>1, <1>3, <1>4, <1>5, <1>6 DEF ClientNext, CallStep

\* An active operation stays as it is.
LEMMA ActiveStays ==
    ASSUME SerialInv, [Next]_vars, NEW k \in Keys, opStatus[k] = "active"
    PROVE  opStatus'[k] = "active" /\ opResponse'[k] = opResponse[k]
<1> USE NoneIsFresh
    DEF SerialInv, Serial, IInv, TypeOK, KeyedSteps, ReconcileAlone, InProgress,
        CallSteps, StoreSteps, CreateSteps, UndoSteps, opVars, Succeeds
<1>1. ASSUME NEW r \in Requests, Step(r)
      PROVE  opStatus'[k] = "active" /\ opResponse'[k] = opResponse[k]
    <2>1. CASE Reset(r) \/ Rebegin(r) \/ Begin(r) \/ SaveOp(r) \/ FailOp(r)
        BY <2>1 DEF Reset, Rebegin, Begin, InsertOperation, SaveOp, FailOp,
                    SaveOperation
    <2>2. CASE ~(\/ Reset(r) \/ Rebegin(r) \/ Begin(r) \/ SaveOp(r)
                 \/ FailOp(r))
        BY <1>1, <2>2
        DEF Step, Lookup, CreateRoom, CreateGroup, CreateSetupKey, SaveKey,
            CreateRoomPolicy, SavePolicy, UpdateExternalIDs, Activate, Reply,
            UndoPolicy, UndoKey, UndoGroup, FailRoom, CallFails
    <2> QED
        BY <2>1, <2>2
<1>2. CASE RecSaveOp
    BY <1>2 DEF RecSaveOp, SaveOperation
<1>3. CASE ~RecSaveOp /\ Reconcile
    BY <1>3 DEF Reconcile, RecList, RecPick, RecDeletePolicy, RecRemoveKey,
                RecDeleteGroup, RecSetStatus, RecEnd
<1>4. ASSUME NEW r \in Requests, NEW j \in Keys \cup {None}, Arrive(r, j)
      PROVE  UNCHANGED opVars
    BY <1>4 DEF Arrive
<1>5. CASE (\E r \in Requests : Cancel(r)) \/ Crash \/ UNCHANGED vars
    BY <1>5 DEF Cancel, Crash, vars
<1> QED
    BY <1>1, <1>2, <1>3, <1>4, <1>5 DEF Next

LEMMA DoneIsAnswered ==
    ASSUME IInv, [Next]_vars, \A r \in Requests : pc[r] = "done" => answer[r] # None
    PROVE  (\A r \in Requests : pc[r] = "done" => answer[r] # None)'
<1> USE NoneIsFresh
    DEF IInv, TypeOK, KeyedSteps, ActiveHasResponse, reqVars, Succeeds, Goto,
        CallSteps, StoreSteps, CreateSteps, UndoSteps
<1>1. ASSUME NEW q \in Requests, Step(q)
      PROVE  (\A r \in Requests : pc[r] = "done" => answer[r] # None)'
    <2>1. CASE Lookup(q) \/ Reply(q)
        BY <2>1 DEF Lookup, Reply
    <2>2. CASE ~(Lookup(q) \/ Reply(q))
        <3>1. UNCHANGED answer /\ pc'[q] # "done"
              /\ \A r \in Requests \ {q} : pc'[r] = pc[r]
            BY <1>1, <2>2
            DEF Step, Reset, Rebegin, Begin, CreateRoom, CreateGroup,
                CreateSetupKey, SaveKey, CreateRoomPolicy, SavePolicy,
                UpdateExternalIDs, Activate, SaveOp, AfterCreate, AfterFailure,
                UndoPolicy, UndoKey, UndoGroup, FailRoom, FailOp, CallFails
        <3> QED
            BY <3>1
    <2> QED
        BY <2>1, <2>2
<1>2. ASSUME NEW q \in Requests, NEW j \in Keys \cup {None}, Arrive(q, j)
      PROVE  (\A r \in Requests : pc[r] = "done" => answer[r] # None)'
    BY <1>2 DEF Arrive
<1>3. CASE (\E q \in Requests : Cancel(q)) \/ Crash \/ UNCHANGED vars
    BY <1>3 DEF Cancel, Crash, vars
<1>4. CASE Reconcile
    BY <1>4 DEF Reconcile, RecList, RecPick, RecDeletePolicy, RecRemoveKey,
                RecDeleteGroup, RecSetStatus, RecSaveOp, RecEnd
<1> QED
    BY <1>1, <1>2, <1>3, <1>4 DEF Next

LEMMA NextKeepsGotten ==
    ASSUME RoomInv, [ClientNext]_allVars
    PROVE  Gotten'
<1> DEFINE Waits(k)    == call[k] = "await" => key[awaited[k]] = k
           Stands(k)   == call[k] = "complete" =>
                              opStatus[k] = "active" /\ opResponse[k] = got[k]
<1> USE NoneIsFresh DEF ClientInv, ClientTypeOK, CallsGoOn
<1>1. (\A r \in Requests : pc[r] = "done" => answer[r] # None)'
    BY ServerPart, DoneIsAnswered DEF RoomInv, Gotten, SerialInv
<1>2. \A k \in Keys : opStatus[k] = "active" =>
          opStatus'[k] = "active" /\ opResponse'[k] = opResponse[k]
    BY ServerPart, ActiveStays DEF RoomInv
<1>3. \A k \in Keys : Waits(k) /\ Stands(k)
    BY DEF RoomInv, Gotten
<1>4. ClientInv /\ TypeOK
    BY DEF RoomInv, SerialInv, IInv
<1>5. ASSUME NEW k \in Keys, NEW r \in Requests, Send(k, r)
      PROVE  \A j \in Keys : Waits(j)' /\ Stands(j)'
    <2>1. /\ key' = [key EXCEPT ![r] = k] /\ key[r] = None
          /\ UNCHANGED opVars
        BY <1>5 DEF Send, Arrive, RoomInv, SerialInv, Serial
    <2>2. /\ call' = [call EXCEPT ![k] = "await"]
          /\ awaited' = [awaited EXCEPT ![k] = r]
          /\ got' = got
        BY <1>5 DEF Send, Now
    <2> QED
        BY <1>3, <1>4, <2>1, <2>2 DEF opVars, TypeOK
<1>6. ASSUME NEW k \in Keys, Receive(k)
      PROVE  \A j \in Keys : Waits(j)' /\ Stands(j)'
    <2>1. /\ answer[awaited[k]] # None /\ key[awaited[k]] = k
          /\ awaited[k] \in Requests
        BY <1>3, <1>4, <1>6 DEF Receive, RoomInv, Gotten
    <2>2. opStatus[k] = "active" /\ opResponse[k] = answer[awaited[k]]
        BY <2>1 DEF RoomInv, SerialInv, Serial
    <2>3. /\ call' = [call EXCEPT ![k] = "complete"]
          /\ got' = [got EXCEPT ![k] = answer[awaited[k]]]
          /\ UNCHANGED <<key, awaited, opStatus, opResponse>>
        BY <1>6 DEF Receive, Now, serverVars, vars, opVars, reqVars
    <2> QED
        BY <1>3, <1>4, <2>2, <2>3
<1>7. ASSUME NEW k \in Keys,
             BeginCall(k) \/ Refused(k) \/ Wake(k) \/ ReceiveError(k) \/ Lost(k)
      PROVE  \A j \in Keys : Waits(j)' /\ Stands(j)'
    <2>1. /\ UNCHANGED <<key, opStatus, opResponse, awaited, got>>
          /\ \A j \in Keys \ {k} : call'[j] = call[j]
          /\ call'[k] \in {"send", "wait", "failed"}
        BY <1>4, <1>7
        DEF BeginCall, Refused, Wake, ReceiveError, Lost, LoseAnswer, Garbled,
            Break, Timeout, Retry, Now, serverVars, vars, opVars, reqVars
    <2> QED
        BY <1>3, <2>1
<1>8. ASSUME ServerStep \/ UNCHANGED allVars
      PROVE  \A j \in Keys : Waits(j)' /\ Stands(j)'
    <2>1. UNCHANGED <<key, call, awaited, got>>
        BY <1>4, <1>8, StepIsLocal
        DEF ServerStep, CrashBreaks, Crash, Abandoned, Cancel, Reconcile,
            RecList, RecPick, RecDeletePolicy, RecRemoveKey, RecDeleteGroup,
            RecSetStatus, RecSaveOp, RecEnd, reqVars, clientVars, allVars,
            serverVars, vars
    <2> QED
        BY <1>2, <1>3, <2>1
<1> QED
    BY <1>1, <1>5, <1>6, <1>7, <1>8 DEF ClientNext, CallStep, Gotten

LEMMA InitRoomInv == ClientInit => RoomInv
<1> SUFFICES ASSUME ClientInit PROVE RoomInv
    OBVIOUS
<1>1. SerialInv
    BY InitInv, NoneIsFresh
    DEF ClientInit, SerialInv, Serial, Init, InProgress, CallSteps, StoreSteps,
        CreateSteps, UndoSteps
<1> QED
    BY <1>1, InitClientInv, NoneIsFresh
    DEF ClientInit, Init, RoomInv, BoundRooms, Gotten, CallSteps, StoreSteps,
        CreateSteps, UndoSteps

LEMMA RoomInvHolds == Serialising => (ClientSpec => []RoomInv)
<1> SUFFICES ASSUME Serialising PROVE ClientSpec => []RoomInv
    OBVIOUS
<1>1. RoomInv /\ ClientInv' /\ [ClientNext]_allVars => RoomInv'
    BY NextKeepsSerialForClient, NextKeepsBound, NextKeepsGotten DEF RoomInv
<1> QED
    BY <1>1, InitRoomInv, ClientInvHolds, PTL DEF ClientSpec

\* roomapi.Client.Create returns a room that works, that its key stands for and
\* that is the only active one made under the key: with every fault of the
\* server, any number of attempts, and answers and deadlines lost at will.
THEOREM ClientGetsTheRoom == Serialising => (ClientSpec => []GotIsTheRoom)
<1> SUFFICES ASSUME Serialising PROVE ClientSpec => []GotIsTheRoom
    OBVIOUS
<1>1. RoomInv => GotIsTheRoom
    <2> SUFFICES ASSUME RoomInv, NEW k \in Keys, call[k] = "complete"
                 PROVE  /\ Provisioned(got[k])
                        /\ opStatus[k] = "active" /\ opResponse[k] = got[k]
                        /\ \A r \in Requests :
                               key[r] = k /\ roomStatus[r] = "active" => r = got[k]
        BY DEF GotIsTheRoom
    <2>1. opStatus[k] = "active" /\ opResponse[k] = got[k]
        BY DEF RoomInv, Gotten
    <2>2. got[k] \in Requests /\ Committed(got[k])
        BY <2>1 DEF RoomInv, SerialInv, IInv, ActiveHasResponse, Committed
    <2>3. Provisioned(got[k])
        BY <2>2 DEF RoomInv, SerialInv, IInv, CommittedSettled
    <2>4. ASSUME NEW r \in Requests, key[r] = k, roomStatus[r] = "active"
          PROVE  r = got[k]
        BY <2>1, <2>4, NoneIsFresh DEF RoomInv, BoundRooms
    <2> QED
        BY <2>1, <2>3, <2>4
<1> QED
    BY <1>1, RoomInvHolds, PTL

\* Whoever is answered under one Idempotency-Key is given one room, with no
\* assumption about retries but that they are made by this client.
THEOREM OneRoomForTheClient == Serialising => (ClientSpec => []OneRoomPerKey)
<1> SUFFICES ASSUME Serialising PROVE ClientSpec => []OneRoomPerKey
    OBVIOUS
<1>1. RoomInv => OneRoomPerKey
    BY DEF RoomInv, SerialInv, Serial, OneRoomPerKey
<1> QED
    BY <1>1, RoomInvHolds, PTL

\* The server as this client uses it implements IdempotentCreation, without
\* being told that retries come one after another.
THEOREM ClientKeepsPromise == Serialising => (ClientSpec => KeepsPromise)
<1> SUFFICES ASSUME Serialising PROVE ClientSpec => Abstract!Spec
    BY DEF KeepsPromise
<1>1. RoomInv /\ [ClientNext]_allVars => [Abstract!Next]_Abstract!vars
    BY ServerPart, NextRefines DEF RoomInv
<1>2. ClientInit => Abstract!Init
    BY InitRefines DEF ClientInit
<1> QED
    BY <1>1, <1>2, RoomInvHolds, PTL DEF ClientSpec, Abstract!Spec

LEMMA ClientTypeKept ==
    ASSUME TypeOK, ClientTypeOK, CallsGoOn, [ClientNext]_allVars
    PROVE  ClientTypeOK' /\ CallsGoOn'
<1> USE RetriesIsNat DEF ClientTypeOK, CallsGoOn, Now, Retry, Unread
<1>1. ASSUME NEW k \in Keys, NEW r \in Requests, Send(k, r)
      PROVE  ClientTypeOK' /\ CallsGoOn'
    BY <1>1 DEF Send
<1>2. ASSUME NEW k \in Keys,
             BeginCall(k) \/ Refused(k) \/ ReceiveError(k) \/ Lost(k)
      PROVE  ClientTypeOK' /\ CallsGoOn'
    <2>1. /\ UNCHANGED <<awaited, got>>
          /\ attempt' \in [Keys -> 0..Retries]
          /\ unsure' \subseteq Keys
          /\ \E step \in {"send", "wait", "failed"} :
                /\ call' = [call EXCEPT ![k] = step]
                /\ step = "wait" => attempt[k] < Retries
          /\ attempt' = attempt \/ attempt' = [attempt EXCEPT ![k] = 0]
        <3>1. CASE BeginCall(k)
            BY <3>1 DEF BeginCall
        <3>2. CASE Refused(k) \/ ReceiveError(k) \/ LoseAnswer(k) \/ Break(k)
            BY <3>2 DEF Refused, ReceiveError, LoseAnswer, Break
        <3>3. CASE Garbled(k) \/ Timeout(k)
            BY <3>3 DEF Garbled, Timeout
        <3> QED
            BY <1>2, <3>1, <3>2, <3>3 DEF Lost
    <2> QED
        BY <1>2, <2>1 DEF BeginCall, Refused, ReceiveError, Lost, LoseAnswer,
                          Garbled, Break, Timeout
<1>3. ASSUME NEW k \in Keys, Wake(k)
      PROVE  ClientTypeOK' /\ CallsGoOn'
    BY <1>3 DEF Wake
<1>4. ASSUME NEW k \in Keys, Receive(k)
      PROVE  ClientTypeOK' /\ CallsGoOn'
    BY <1>4 DEF Receive, TypeOK
<1>5. CASE ServerStep \/ UNCHANGED allVars
    BY <1>5 DEF ServerStep, CrashBreaks, clientVars, allVars
<1> QED
    BY <1>1, <1>2, <1>3, <1>4, <1>5 DEF ClientNext, CallStep

-----------------------------------------------------------------------------
(* What a create that failed leaves *)

LEMMA InitRead == ClientInit => AttemptsRead
BY NoneIsFresh DEF ClientInit, Init, AttemptsRead, InProgress, CallSteps,
                   StoreSteps, CreateSteps, UndoSteps

LEMMA HandlerKeepsRead ==
    ASSUME CreatingFails, TypeOK, AttemptsRead, NEW r \in Requests, Step(r),
           UNCHANGED clientVars
    PROVE  AttemptsRead'
<1> USE NoneIsFresh
    DEF TypeOK, AttemptsRead, CreatingFails, InProgress, CallSteps, StoreSteps,
        CreateSteps, UndoSteps, opVars, roomVars, nbVars, reqVars, recVars,
        clientVars, Goto, Succeeds
<1>1. CASE Lookup(r)
    BY <1>1 DEF Lookup
<1>2. CASE Reset(r)
    BY <1>2 DEF Reset
<1>3. CASE Rebegin(r)
    BY <1>3 DEF Rebegin
<1>4. CASE Begin(r)
    BY <1>4 DEF Begin
<1>5. CASE CreateRoom(r)
    BY <1>5 DEF CreateRoom
<1>6. CASE CreateGroup(r)
    BY <1>6 DEF CreateGroup, AfterCreate
<1>7. CASE CreateSetupKey(r)
    BY <1>7 DEF CreateSetupKey, AfterCreate
<1>8. CASE SaveKey(r)
    BY <1>8 DEF SaveKey, UpdateExternalIDs
<1>9. CASE CreateRoomPolicy(r)
    BY <1>9 DEF CreateRoomPolicy, AfterCreate
<1>10. CASE SavePolicy(r)
    BY <1>10 DEF SavePolicy, UpdateExternalIDs
<1>11. CASE Activate(r)
    BY <1>11 DEF Activate
<1>12. CASE SaveOp(r)
    BY <1>12 DEF SaveOp
<1>13. CASE Reply(r)
    BY <1>13 DEF Reply
<1>14. CASE UndoPolicy(r)
    BY <1>14 DEF UndoPolicy, AfterFailure
<1>15. CASE UndoKey(r)
    BY <1>15 DEF UndoKey, AfterFailure
<1>16. CASE UndoGroup(r)
    BY <1>16 DEF UndoGroup, AfterFailure
<1>17. CASE FailRoom(r)
    BY <1>17 DEF FailRoom, AfterFailure
<1>18. CASE FailOp(r)
    BY <1>18 DEF FailOp, AfterFailure
<1>19. CASE CallFails(r)
    \* Of an attempt whose answer is awaited or was read, a creating call
    \* failed; of another nothing is claimed.
    BY <1>19 DEF CallFails, MayFail, AfterFailure, FaultOf
<1> QED
    BY <1>1, <1>2, <1>3, <1>4, <1>5, <1>6, <1>7, <1>8, <1>9, <1>10, <1>11,
       <1>12, <1>13, <1>14, <1>15, <1>16, <1>17, <1>18, <1>19 DEF Step

\* Reconcile only takes away.
LEMMA ReconcileTakesAway ==
    ASSUME TypeOK, Reconcile
    PROVE  /\ UNCHANGED <<pc, key, cancelled>>
           /\ groups' \subseteq groups /\ policies' \subseteq policies
           /\ \A r \in Requests :
                  /\ setupKey'[r] = "valid" => setupKey[r] = "valid"
                  /\ roomStatus'[r] = "active" => roomStatus[r] = "active"
BY DEF TypeOK, Reconcile, RecList, RecPick, RecDeletePolicy, RecRemoveKey,
       RecDeleteGroup, RecSetStatus, RecSaveOp, RecEnd, nbVars, roomVars, reqVars

LEMMA ServerKeepsRead ==
    ASSUME CreatingFails, TypeOK, ClientTypeOK, AttemptsRead, ServerStep
    PROVE  AttemptsRead'
<1>1. ASSUME NEW r \in Requests, Step(r), UNCHANGED clientVars
      PROVE  AttemptsRead'
    BY <1>1, HandlerKeepsRead
<1>2. ASSUME NEW r \in Requests, Abandoned(r), UNCHANGED clientVars
      PROVE  AttemptsRead'
    <2>1. InProgress(r) /\ ~Awaited(r) /\ cancelled' = cancelled \cup {r}
          /\ UNCHANGED <<pc, key, roomVars, nbVars>>
        BY <1>2 DEF Abandoned, Cancel
    <2>2. key[r] \notin Keys \ unsure
        BY <2>1 DEF AttemptsRead, Awaited
    <2>3. pc[r] # "idle"
        BY <2>1 DEF InProgress, CallSteps, StoreSteps, CreateSteps, UndoSteps
    <2> QED
        BY <1>2, <2>1, <2>2, <2>3
        DEF AttemptsRead, InProgress, roomVars, nbVars, clientVars
<1>3. CASE CrashBreaks
    <2>1. /\ UNCHANGED <<key, cancelled, roomVars, nbVars, call, awaited>>
          /\ pc' = [r \in Requests |-> IF InProgress(r) THEN "failed" ELSE pc[r]]
          /\ unsure \subseteq unsure'
        BY <1>3 DEF CrashBreaks, Crash, reqVars
    <2>2. ASSUME NEW r \in Requests, key[r] \in Keys \ unsure'
          PROVE  ~InProgress(r) /\ pc'[r] = pc[r]
        BY <1>3, <2>1, <2>2 DEF CrashBreaks, AttemptsRead
    <2>3. \A r \in Requests : pc'[r] = "idle" => pc[r] = "idle"
        BY <2>1
    <2> QED
        BY <2>1, <2>2, <2>3 DEF AttemptsRead, InProgress, roomVars, nbVars
<1>4. CASE Reconcile /\ UNCHANGED clientVars
    BY <1>4, ReconcileTakesAway DEF AttemptsRead, InProgress, clientVars
<1> QED
    BY <1>1, <1>2, <1>3, <1>4 DEF ServerStep

LEMMA ClientKeepsRead ==
    ASSUME TypeOK, ClientTypeOK, AttemptsRead, NEW k \in Keys,
           BeginCall(k) \/ CallStep(k) \/ Lost(k)
    PROVE  AttemptsRead'
<1> USE DEF AttemptsRead, InProgress, CallSteps, StoreSteps, CreateSteps,
            UndoSteps
<1>1. ASSUME NEW r \in Requests, Send(k, r)
      PROVE  AttemptsRead'
    <2>1. /\ key' = [key EXCEPT ![r] = k] /\ pc[r] = "idle"
          /\ pc'[r] \in {"room", "lookup"}
          /\ \A q \in Requests \ {r} : pc'[q] = pc[q]
          /\ UNCHANGED <<roomVars, nbVars, cancelled, unsure>>
          /\ call' = [call EXCEPT ![k] = "await"] /\ call[k] = "send"
          /\ awaited' = [awaited EXCEPT ![k] = r]
        BY <1>1 DEF Send, Arrive, Goto, Now, TypeOK
    <2> QED
        BY <2>1 DEF TypeOK, ClientTypeOK, roomVars, nbVars
<1>2. ASSUME BeginCall(k) \/ Refused(k) \/ Wake(k) \/ Receive(k)
                 \/ ReceiveError(k) \/ Lost(k)
      PROVE  AttemptsRead'
    <2>1. UNCHANGED <<vars, awaited>> /\ unsure \subseteq unsure'
          /\ \A j \in Keys \ {k} : call'[j] = call[j]
        BY <1>2 DEF BeginCall, Refused, Wake, Receive, ReceiveError, Lost,
                    LoseAnswer, Garbled, Break, Timeout, Retry, Now, Unread,
                    serverVars, ClientTypeOK
    \* Only an attempt that is over is turned away from, or the key is unsure.
    <2>2. ASSUME NEW r \in Requests, key[r] = k, k \notin unsure'
          PROVE  /\ ~InProgress(r)
                 /\ pc[r] = "done" => call'[k] = "complete"
        BY <1>2, <2>1, <2>2
        DEF BeginCall, Refused, Wake, Receive, ReceiveError, Lost, LoseAnswer,
            Garbled, Break, Timeout, Retry, Now, Unread, Ended, Under,
            ClientTypeOK
    <2> QED
        BY <2>1, <2>2 DEF vars, roomVars, nbVars, reqVars
<1> QED
    BY <1>1, <1>2 DEF CallStep

\* While only creating calls fail, a create that failed after the answers of
\* all its attempts were read leaves no room, group, key or policy, whatever
\* was lost for others, however often an intent is used and the process dies.
THEOREM FailureIsClean == CreatingFails => (ClientSpec => []FailureLeavesNothing)
<1> SUFFICES ASSUME CreatingFails PROVE ClientSpec => []FailureLeavesNothing
    OBVIOUS
<1>1. TypeOK /\ ClientTypeOK /\ AttemptsRead /\ [ClientNext]_allVars
          => AttemptsRead'
    <2>1. UNCHANGED allVars /\ AttemptsRead => AttemptsRead'
        BY DEF allVars, serverVars, vars, roomVars, nbVars, reqVars, clientVars,
               AttemptsRead, InProgress
    <2> QED
        BY <2>1, ServerKeepsRead, ClientKeepsRead DEF ClientNext
<1>2. ClientInit => ClientTypeOK /\ CallsGoOn
    BY InitClientInv DEF ClientInv
<1>3. TypeOK /\ ClientTypeOK /\ CallsGoOn /\ [ClientNext]_allVars
          => ClientTypeOK' /\ CallsGoOn'
    BY ClientTypeKept
<1>4. AttemptsRead => FailureLeavesNothing
    BY DEF AttemptsRead, FailureLeavesNothing, InProgress, CallSteps,
           StoreSteps, CreateSteps, UndoSteps
<1> QED
    BY <1>1, <1>2, <1>3, <1>4, InitRead, ServerHolds, TypeCorrect, PTL
    DEF ClientSpec

\* A delivered room stays whole and out of Reconcile's reach whatever the
\* network does, whatever is tried again, and whoever creates rooms beside it.
THEOREM DeliveredStaysWhole == OpenSpec => [](DeliveredUsable /\ DeliveredOutOfReach)
<1>1. [OpenNext]_allVars => [Next]_vars
    <2>1. ASSUME NEW r \in Requests, OtherClient(r)
          PROVE  Next
        BY <2>1 DEF OtherClient, Next
    <2> QED
        BY <2>1, ServerPart DEF OpenNext
<1>2. OpenSpec => Spec
    BY <1>1, PTL DEF OpenSpec, ClientInit, Spec
<1> QED
    BY <1>2, WorkingRooms, OutOfReach, PTL
=============================================================================
