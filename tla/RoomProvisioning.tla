-------------------------- MODULE RoomProvisioning --------------------------
(***************************************************************************)
(* Room creation in the Room API: rooms.Service.Create, the compensation   *)
(* it runs when a step fails, and the Reconcile pass the process makes     *)
(* once after every start, before it serves.                               *)
(*                                                                         *)
(* A creation is a saga over two stores that share no transaction: the     *)
(* SQLite tables operations and rooms, and the NetBird Management API.     *)
(* Every call to either is one step, so that another request, a            *)
(* cancellation or a crash may come between any two.                       *)
(*                                                                         *)
(* randomID mints 96 random bits, taken here to be unique: the room a      *)
(* request mints, and the group, the setup key and the policy it creates   *)
(* for it, are all identified with the request.  The NetBird names are     *)
(* derived from that id ("room-" + roomID), so findGroup never finds a     *)
(* group and is one step with CreateGroup.                                 *)
(***************************************************************************)
EXTENDS Naturals

CONSTANTS
    Requests,       \* the POST /rooms requests
    Keys,           \* the values of the Idempotency-Key header
    None,           \* no key, no room, no response
    Faults,         \* the faults that may happen, a subset of AllFaults
    SerialRetries,  \* do clients await an answer before they repeat a key?
    MaxCrashes      \* bound on the restarts of the process

AllFaults ==
    { "store"     \* a SQLite statement fails and changes nothing
    , "create"    \* a NetBird call that creates fails and changes nothing
    , "lost"      \* a NetBird call that creates is applied, its answer lost
    , "undo"      \* a NetBird call that revokes or deletes is not applied
    , "cancel"    \* the client goes away and r.Context() is cancelled
    , "crash" }   \* the process dies and is started again

ASSUME NoneIsFresh == None \notin Requests \cup Keys
ASSUME FaultsKnown == Faults \subseteq AllFaults
ASSUME SerialRetriesIsBoolean == SerialRetries \in BOOLEAN
ASSUME MaxCrashesIsNat == MaxCrashes \in Nat

VARIABLES
    opStatus, opRoom, opResponse,  \* SQLite: operations, a row for each key
    roomStatus, roomIds,           \* SQLite: rooms, and the ids recorded there
    groups, setupKey, policies,    \* NetBird
    pc, key, cancelled,            \* the handlers
    answer,                        \* the room whose code a request was given
    phase, pending, current,       \* Reconcile, or serving
    crashes

opVars   == <<opStatus, opRoom, opResponse>>
roomVars == <<roomStatus, roomIds>>
nbVars   == <<groups, setupKey, policies>>
reqVars  == <<key, cancelled, answer>>
recVars  == <<phase, pending, current, crashes>>
vars     == <<opVars, roomVars, nbVars, pc, reqVars, recVars>>

-----------------------------------------------------------------------------
StoreSteps  == {"lookup", "reset", "rebegin", "begin", "room", "saveKey",
                "savePolicy", "activate", "saveOp", "failRoom", "failOp"}
CreateSteps == {"group", "key", "policy"}
UndoSteps   == {"undoPolicy", "undoKey", "undoGroup"}
CallSteps   == StoreSteps \cup CreateSteps \cup UndoSteps
RecSteps    == {"list", "pick", "policy", "key", "group", "status", "op"}

InProgress(r) == pc[r] \in CallSteps \cup {"reply"}

TypeOK ==
    /\ opStatus \in [Keys -> {"absent", "creating", "active", "error"}]
    /\ opRoom \in [Keys -> Requests \cup {None}]
    /\ opResponse \in [Keys -> Requests \cup {None}]
    /\ roomStatus \in [Requests -> {"absent", "creating", "active", "error"}]
    /\ roomIds \in [Requests -> {"none", "key", "policy"}]
    /\ groups \subseteq Requests
    /\ setupKey \in [Requests -> {"absent", "valid", "revoked"}]
    /\ policies \subseteq Requests
    /\ pc \in [Requests -> CallSteps \cup
                           {"idle", "reply", "conflict", "failed", "done"}]
    /\ key \in [Requests -> Keys \cup {None}]
    /\ cancelled \subseteq Requests
    /\ answer \in [Requests -> Requests \cup {None}]
    /\ phase \in RecSteps \cup {"serving"}
    /\ pending \subseteq Keys
    /\ current \in Keys \cup {None}
    /\ crashes \in 0..MaxCrashes

Init ==
    /\ opStatus = [k \in Keys |-> "absent"]
    /\ opRoom = [k \in Keys |-> None]
    /\ opResponse = [k \in Keys |-> None]
    /\ roomStatus = [r \in Requests |-> "absent"]
    /\ roomIds = [r \in Requests |-> "none"]
    /\ groups = {}
    /\ setupKey = [r \in Requests |-> "absent"]
    /\ policies = {}
    /\ pc = [r \in Requests |-> "idle"]
    /\ key = [r \in Requests |-> None]
    /\ cancelled = {}
    /\ answer = [r \in Requests |-> None]
    /\ phase = "serving"
    /\ pending = {}
    /\ current = None
    /\ crashes = 0

-----------------------------------------------------------------------------
(***************************************************************************)
(* How a call ends.  Every call of Create takes the request's context: a   *)
(* call made once that is cancelled fails without being sent, the          *)
(* compensation and the writes of fail() included.                         *)
(***************************************************************************)
FaultOf(step) == CASE step \in StoreSteps  -> "store"
                   [] step \in CreateSteps -> "create"
                   [] step \in UndoSteps   -> "undo"

Succeeds(r, step) == pc[r] = step /\ r \notin cancelled
MayFail(r)        == r \in cancelled \/ FaultOf(pc[r]) \in Faults

Goto(r, step) == pc' = [pc EXCEPT ![r] = step]

\* Mutant: a failed policy leaves the setup key behind.
AfterFailureKeyLeft(r) ==
    CASE pc[r] \in {"group", "undoGroup"}          -> "failRoom"
      [] pc[r] \in {"key", "undoKey", "policy"}    -> "undoGroup"
      [] pc[r] \in {"saveKey", "undoPolicy"}       -> "undoKey"
      [] pc[r] = "savePolicy"                      -> "undoPolicy"
      [] pc[r] = "failRoom" /\ key[r] # None       -> "failOp"
      [] OTHER                                     -> "failed"

\* The step that follows a call whose error Create acts on, or, for an undo
\* step and for the writes of fail(), the step that follows in any case.
AfterFailure(r) ==
    CASE pc[r] \in {"group", "undoGroup"}               -> "failRoom"
      [] pc[r] \in {"key", "undoKey"}                   -> "undoGroup"
      [] pc[r] \in {"saveKey", "policy", "undoPolicy"}  -> "undoKey"
      [] pc[r] = "savePolicy"                           -> "undoPolicy"
      [] pc[r] = "failRoom" /\ key[r] # None            -> "failOp"
      [] OTHER                                          -> "failed"

CallFails(r) ==
    /\ pc[r] \in CallSteps
    /\ MayFail(r)
    /\ Goto(r, AfterFailure(r))
    /\ UNCHANGED <<opVars, roomVars, nbVars, reqVars, recVars>>

\* A creating call that is applied: the handler sees it succeed, or, where
\* answers may be lost, sees an error and does not own what it created.
AfterCreate(r, step) ==
    \/ Goto(r, step)
    \/ "lost" \in Faults /\ Goto(r, AfterFailure(r))

-----------------------------------------------------------------------------
(* Create, on the way to an active room *)

Arrive(r, k) ==
    /\ pc[r] = "idle"
    /\ phase = "serving"
    /\ SerialRetries /\ k # None =>
           \A q \in Requests : key[q] = k => ~InProgress(q)
    /\ key' = [key EXCEPT ![r] = k]
    /\ Goto(r, IF k = None THEN "room" ELSE "lookup")
    /\ UNCHANGED <<opVars, roomVars, nbVars, cancelled, answer, recVars>>

Lookup(r) ==
    /\ Succeeds(r, "lookup")
    /\ LET k == key[r] IN
       \/ opStatus[k] = "absent"   /\ Goto(r, "begin")    /\ UNCHANGED answer
       \/ opStatus[k] = "error"    /\ Goto(r, "reset")    /\ UNCHANGED answer
       \/ opStatus[k] = "creating" /\ Goto(r, "conflict") /\ UNCHANGED answer
       \/ /\ opStatus[k] = "active"
          /\ Goto(r, "done")
          /\ answer' = [answer EXCEPT ![r] = opResponse[k]]
    /\ UNCHANGED <<opVars, roomVars, nbVars, key, cancelled, recVars>>

\* The operation a retry resets is in state "error" when Lookup reads it,
\* not necessarily when ResetOperation writes it.
Reset(r) ==
    /\ Succeeds(r, "reset")
    /\ opStatus' = [opStatus EXCEPT ![key[r]] = "creating"]
    /\ opRoom' = [opRoom EXCEPT ![key[r]] = r]
    /\ opResponse' = [opResponse EXCEPT ![key[r]] = None]
    /\ Goto(r, "rebegin")
    /\ UNCHANGED <<roomVars, nbVars, reqVars, recVars>>

\* INSERT OR IGNORE: a row that exists stays as it is.
InsertOperation(r) ==
    IF opStatus[key[r]] = "absent"
    THEN /\ opStatus' = [opStatus EXCEPT ![key[r]] = "creating"]
         /\ opRoom' = [opRoom EXCEPT ![key[r]] = r]
         /\ UNCHANGED opResponse
    ELSE UNCHANGED opVars

\* After a reset the row exists, and Create goes on although it inserted none.
Rebegin(r) ==
    /\ Succeeds(r, "rebegin")
    /\ InsertOperation(r)
    /\ Goto(r, "room")
    /\ UNCHANGED <<roomVars, nbVars, reqVars, recVars>>

Begin(r) ==
    /\ Succeeds(r, "begin")
    /\ InsertOperation(r)
    /\ Goto(r, IF opStatus[key[r]] = "absent" THEN "room" ELSE "conflict")
    /\ UNCHANGED <<roomVars, nbVars, reqVars, recVars>>

CreateRoom(r) ==
    /\ Succeeds(r, "room")
    /\ roomStatus' = [roomStatus EXCEPT ![r] = "creating"]
    /\ Goto(r, "group")
    /\ UNCHANGED <<opVars, roomIds, nbVars, reqVars, recVars>>

CreateGroup(r) ==
    /\ Succeeds(r, "group")
    /\ groups' = groups \cup {r}
    /\ AfterCreate(r, "key")
    /\ UNCHANGED <<opVars, roomVars, setupKey, policies, reqVars, recVars>>

CreateSetupKey(r) ==
    /\ Succeeds(r, "key")
    /\ setupKey' = [setupKey EXCEPT ![r] = "valid"]
    /\ AfterCreate(r, "saveKey")
    /\ UNCHANGED <<opVars, roomVars, groups, policies, reqVars, recVars>>

UpdateExternalIDs(r, step, ids, next) ==
    /\ Succeeds(r, step)
    /\ roomIds' = [roomIds EXCEPT ![r] = ids]
    /\ Goto(r, next)
    /\ UNCHANGED <<opVars, roomStatus, nbVars, reqVars, recVars>>

SaveKey(r) == UpdateExternalIDs(r, "saveKey", "key", "policy")

CreateRoomPolicy(r) ==
    /\ Succeeds(r, "policy")
    /\ policies' = policies \cup {r}
    /\ AfterCreate(r, "savePolicy")
    /\ UNCHANGED <<opVars, roomVars, groups, setupKey, reqVars, recVars>>

SavePolicy(r) == UpdateExternalIDs(r, "savePolicy", "policy", "activate")

Activate(r) ==
    /\ Succeeds(r, "activate")
    /\ roomStatus' = [roomStatus EXCEPT ![r] = "active"]
    /\ Goto(r, IF key[r] = None THEN "reply" ELSE "saveOp")
    /\ UNCHANGED <<opVars, roomIds, nbVars, reqVars, recVars>>

\* Mutant: the UPDATE forgets the status column.
SaveResponseOnly(k, response, status) ==
    /\ opResponse' = [opResponse EXCEPT ![k] = response]
    /\ UNCHANGED <<opStatus, opRoom>>

\* SaveOperation leaves the room_id of the row alone.
SaveOperation(k, response, status) ==
    /\ opStatus' = [opStatus EXCEPT ![k] = status]
    /\ opResponse' = [opResponse EXCEPT ![k] = response]
    /\ UNCHANGED opRoom

SaveOp(r) ==
    /\ Succeeds(r, "saveOp")
    /\ SaveOperation(key[r], r, "active")
    /\ Goto(r, "reply")
    /\ UNCHANGED <<roomVars, nbVars, reqVars, recVars>>

Reply(r) ==
    /\ pc[r] = "reply"
    /\ answer' = [answer EXCEPT ![r] = r]
    /\ Goto(r, "done")
    /\ UNCHANGED <<opVars, roomVars, nbVars, key, cancelled, recVars>>

-----------------------------------------------------------------------------
(* Create, undoing what it did; the errors of these calls are discarded *)

UndoPolicy(r) ==
    /\ Succeeds(r, "undoPolicy")
    /\ policies' = policies \ {r}
    /\ Goto(r, AfterFailure(r))
    /\ UNCHANGED <<opVars, roomVars, groups, setupKey, reqVars, recVars>>

UndoKey(r) ==
    /\ Succeeds(r, "undoKey")
    /\ setupKey' = [setupKey EXCEPT ![r] = "revoked"]
    /\ Goto(r, AfterFailure(r))
    /\ UNCHANGED <<opVars, roomVars, groups, policies, reqVars, recVars>>

UndoGroup(r) ==
    /\ Succeeds(r, "undoGroup")
    /\ groups' = groups \ {r}
    /\ Goto(r, AfterFailure(r))
    /\ UNCHANGED <<opVars, roomVars, setupKey, policies, reqVars, recVars>>

FailRoom(r) ==
    /\ Succeeds(r, "failRoom")
    /\ roomStatus' = [roomStatus EXCEPT ![r] = "error"]
    /\ Goto(r, AfterFailure(r))
    /\ UNCHANGED <<opVars, roomIds, nbVars, reqVars, recVars>>

FailOp(r) ==
    /\ Succeeds(r, "failOp")
    /\ SaveOperation(key[r], None, "error")
    /\ Goto(r, AfterFailure(r))
    /\ UNCHANGED <<roomVars, nbVars, reqVars, recVars>>

\* The client disconnects or gives up while its handler runs.
Cancel(r) ==
    /\ "cancel" \in Faults
    /\ InProgress(r)
    /\ cancelled' = cancelled \cup {r}
    /\ UNCHANGED <<opVars, roomVars, nbVars, pc, key, answer, recVars>>

Step(r) ==
    \/ Lookup(r) \/ Reset(r) \/ Rebegin(r) \/ Begin(r) \/ CreateRoom(r)
    \/ CreateGroup(r) \/ CreateSetupKey(r) \/ SaveKey(r)
    \/ CreateRoomPolicy(r) \/ SavePolicy(r) \/ Activate(r) \/ SaveOp(r)
    \/ Reply(r)
    \/ UndoPolicy(r) \/ UndoKey(r) \/ UndoGroup(r) \/ FailRoom(r) \/ FailOp(r)
    \/ CallFails(r)

-----------------------------------------------------------------------------
(***************************************************************************)
(* Restart: the handlers are gone, and Reconcile runs alone (main calls it *)
(* before it listens) over the operations that are still "creating".  Its  *)
(* NetBird errors are discarded; the first SQLite error ends it, main logs *)
(* the error and serves.                                                   *)
(***************************************************************************)
Crash ==
    /\ "crash" \in Faults
    /\ crashes < MaxCrashes
    /\ crashes' = crashes + 1
    /\ pc' = [r \in Requests |-> IF InProgress(r) THEN "failed" ELSE pc[r]]
    /\ phase' = "list"
    /\ pending' = {}
    /\ current' = None
    /\ UNCHANGED <<opVars, roomVars, nbVars, reqVars>>

\* Mutant: the query forgets its WHERE clause.
ListAll == {k \in Keys : opStatus[k] # "absent"}

ListCreating == {k \in Keys : opStatus[k] = "creating"}

RecList ==
    /\ phase = "list"
    /\ pending' = ListCreating
    /\ phase' = "pick"
    /\ UNCHANGED <<opVars, roomVars, nbVars, pc, reqVars, current, crashes>>

\* GetRoom: whatever the status of the room, it is torn down if it exists.
RecPick(k) ==
    /\ phase = "pick"
    /\ k \in pending
    /\ pending' = pending \ {k}
    /\ current' = k
    /\ phase' = IF roomStatus[opRoom[k]] = "absent" THEN "op" ELSE "policy"
    /\ UNCHANGED <<opVars, roomVars, nbVars, pc, reqVars, crashes>>

\* The recorded ids that are not empty, for the room Reconcile looks at.
RecHas(id) ==
    LET ids == roomIds[opRoom[current]] IN ids = "policy" \/ ids = id

RecDeletePolicy ==
    /\ phase = "policy"
    /\ \/ RecHas("policy") /\ policies' = policies \ {opRoom[current]}
       \/ (~RecHas("policy") \/ "undo" \in Faults) /\ UNCHANGED policies
    /\ phase' = "key"
    /\ UNCHANGED <<opVars, roomVars, groups, setupKey, pc, reqVars,
                   pending, current, crashes>>

\* RevokeSetupKey, then DeleteSetupKey.
RecRemoveKey ==
    /\ phase = "key"
    /\ \/ /\ RecHas("key")
          /\ \/ setupKey' = [setupKey EXCEPT ![opRoom[current]] = "absent"]
             \/ /\ "undo" \in Faults
                /\ setupKey[opRoom[current]] # "absent"
                /\ setupKey' = [setupKey EXCEPT ![opRoom[current]] = "revoked"]
       \/ (~RecHas("key") \/ "undo" \in Faults) /\ UNCHANGED setupKey
    /\ phase' = "group"
    /\ UNCHANGED <<opVars, roomVars, groups, policies, pc, reqVars,
                   pending, current, crashes>>

RecDeleteGroup ==
    /\ phase = "group"
    /\ \/ RecHas("key") /\ groups' = groups \ {opRoom[current]}
       \/ (~RecHas("key") \/ "undo" \in Faults) /\ UNCHANGED groups
    /\ phase' = "status"
    /\ UNCHANGED <<opVars, roomVars, setupKey, policies, pc, reqVars,
                   pending, current, crashes>>

RecSetStatus ==
    /\ phase = "status"
    /\ roomStatus' = [roomStatus EXCEPT ![opRoom[current]] = "error"]
    /\ phase' = "op"
    /\ UNCHANGED <<opVars, roomIds, nbVars, pc, reqVars, pending, current,
                   crashes>>

RecSaveOp ==
    /\ phase = "op"
    /\ SaveOperation(current, None, "error")
    /\ phase' = "pick"
    /\ current' = None
    /\ UNCHANGED <<roomVars, nbVars, pc, reqVars, pending, crashes>>

RecEnd ==
    /\ \/ phase = "pick" /\ pending = {}
       \/ phase \in {"list", "pick", "status", "op"} /\ "store" \in Faults
    /\ phase' = "serving"
    /\ pending' = {}
    /\ current' = None
    /\ UNCHANGED <<opVars, roomVars, nbVars, pc, reqVars, crashes>>

Reconcile ==
    \/ RecList \/ (\E k \in Keys : RecPick(k))
    \/ RecDeletePolicy \/ RecRemoveKey \/ RecDeleteGroup
    \/ RecSetStatus \/ RecSaveOp \/ RecEnd

-----------------------------------------------------------------------------
Next ==
    \/ \E r \in Requests, k \in Keys \cup {None} : Arrive(r, k)
    \/ \E r \in Requests : Step(r) \/ Cancel(r)
    \/ Crash
    \/ Reconcile

\* A handler is a goroutine and keeps running; Reconcile is straight-line
\* code.  Nothing obliges a client to call, to cancel, or the process to die.
Fairness ==
    /\ \A r \in Requests : WF_vars(Step(r))
    /\ WF_vars(Reconcile)

Spec     == Init /\ [][Next]_vars
FairSpec == Spec /\ Fairness

-----------------------------------------------------------------------------
(* Properties *)

\* Some client was given the code and the key of room x.
Delivered(x) == \E q \in Requests : answer[q] = x

\* All of room x is in place and recorded.
Provisioned(x) ==
    /\ roomStatus[x] = "active" /\ roomIds[x] = "policy"
    /\ x \in groups /\ setupKey[x] = "valid" /\ x \in policies

\* A room whose code a client holds is a working room: active, with all
\* three NetBird ids recorded and the group, the key and the policy in place.
\* (Create answers only at the end, the compensation never runs for a room
\* that was answered, and no replay, late failure or restart undoes one.)
DeliveredUsable == \A x \in Requests : Delivered(x) => Provisioned(x)

\* No delivered room is one that a restart would hand to Reconcile, which
\* tears down whatever room a "creating" operation points to.
DeliveredOutOfReach ==
    \A k \in Keys : opStatus[k] = "creating" => ~Delivered(opRoom[k])

\* Requests that carry the same Idempotency-Key are given the same room.
OneRoomPerKey ==
    \A q, r \in Requests :
        /\ key[q] = key[r] /\ key[q] # None
        /\ answer[q] # None /\ answer[r] # None
        => answer[q] = answer[r]

\* When only creating calls fail, a creation that failed while its client and
\* the process were there has removed what it made in NetBird and marked its
\* room, and its key may be used again.
CompensationComplete ==
    \A r \in Requests \ cancelled : pc[r] = "failed" /\ crashes = 0 =>
        /\ r \notin groups /\ setupKey[r] # "valid" /\ r \notin policies
        /\ roomStatus[r] = "error"
        /\ \A k \in Keys : opStatus[k] = "creating" => opRoom[k] # r

\* Create and fail() record a failed provisioning attempt: once the request
\* has failed after its room row was written, the row is no longer "creating"
\* (room-control-api/spec.md, scenario "NetBird provisioning fails").
FailureRecorded ==
    \A r \in Requests : pc[r] = "failed" => roomStatus[r] # "creating"

\* What the comment on Reconcile says first: it removes the resources left by
\* an interrupted attempt, so none is left once the server serves again.
InterruptedIsRemoved ==
    \A r \in Requests : pc[r] = "failed" /\ phase = "serving" =>
        r \notin groups /\ setupKey[r] # "valid" /\ r \notin policies

\* What the comment on Reconcile says next: active rooms are never modified.
ActiveNeverModified ==
    [][\A r \in Requests : phase # "serving" /\ roomStatus[r] = "active" =>
            /\ roomStatus'[r] = "active"
            /\ r \in groups => r \in groups'
            /\ r \in policies => r \in policies'
            /\ setupKey'[r] = setupKey[r]]_vars

\* As long as SQLite works no key stays locked: an operation that is "creating"
\* is settled, by its handler or, if the process died, by Reconcile.  The one
\* exception is a handler whose client went away.
KeyUnlocks ==
    \A k \in Keys : opStatus[k] = "creating" ~>
        opStatus[k] # "creating" \/ opRoom[k] \in cancelled

-----------------------------------------------------------------------------
(* The inductive invariant behind the first two properties *)

\* What a handler has achieved by the time it gets to a step.
Stages ==
    \A r \in Requests :
        /\ pc[r] \in {"key", "saveKey", "policy", "savePolicy", "activate",
                     "saveOp", "reply"} => r \in groups
        /\ pc[r] \in {"saveKey", "policy", "savePolicy", "activate",
                     "saveOp", "reply"} => setupKey[r] = "valid"
        /\ pc[r] \in {"savePolicy", "activate", "saveOp", "reply"}
               => r \in policies
        /\ pc[r] \in {"activate", "saveOp", "reply"} => roomIds[r] = "policy"
        /\ pc[r] \in {"saveOp", "reply"} => roomStatus[r] = "active"

KeyedSteps ==
    \A r \in Requests :
        pc[r] \in {"lookup", "reset", "rebegin", "begin", "saveOp", "failOp"}
            => key[r] # None

\* Room x may be answered from now on, or was already.
Committed(x) ==
    \/ pc[x] = "reply"
    \/ Delivered(x)
    \/ \E k \in Keys : opStatus[k] = "active" /\ opResponse[k] = x

CommittedSettled ==
    \A x \in Requests : Committed(x) =>
        Provisioned(x) /\ pc[x] \in {"reply", "done", "failed"}

ActiveHasResponse ==
    \A k \in Keys : opStatus[k] = "active" => opResponse[k] \in Requests

\* The room of an operation belongs to a request that carries its key.
OpRoomOwned ==
    \A k \in Keys : opRoom[k] # None =>
        key[opRoom[k]] = k /\ pc[opRoom[k]] # "idle"

CreatingUncommitted ==
    \A k \in Keys : opStatus[k] = "creating" =>
        opRoom[k] \in Requests /\ ~Committed(opRoom[k])

\* Reconcile runs alone, on operations that were and still are "creating".
ReconcileAlone ==
    /\ phase # "serving" => \A r \in Requests : ~InProgress(r)
    /\ \A k \in pending : opStatus[k] = "creating"
    /\ phase \in {"policy", "key", "group", "status", "op"} =>
           /\ current \in Keys \ pending
           /\ opStatus[current] = "creating"
    /\ phase = "serving" => pending = {}

IInv ==
    /\ TypeOK
    /\ Stages
    /\ KeyedSteps
    /\ CommittedSettled
    /\ ActiveHasResponse
    /\ OpRoomOwned
    /\ CreatingUncommitted
    /\ ReconcileAlone

\* What is left to undo when a handler gets to a step, if only creating calls
\* fail, its client stays and the process lives.
LeftToUndo ==
    /\ phase # "serving" => crashes > 0
    /\ \A r \in Requests \ cancelled : crashes = 0 =>
           /\ r \in policies => pc[r] \in {"savePolicy", "activate", "saveOp",
                                           "reply", "done"}
           /\ setupKey[r] = "valid" =>
                  pc[r] \in {"saveKey", "policy", "savePolicy", "activate",
                             "saveOp", "reply", "done", "undoKey"}
           /\ pc[r] \in {"idle", "lookup", "reset", "rebegin", "begin", "room",
                         "group", "failRoom", "failOp", "failed"}
                  => r \notin groups
           /\ pc[r] \in {"failOp", "failed"} => roomStatus[r] = "error"
           /\ pc[r] = "failOp" => key[r] # None
           /\ pc[r] = "failed" =>
                  \A k \in Keys : opStatus[k] = "creating" => opRoom[k] # r

\* What serial retries add: one handler for a key at a time, a binding that
\* no handler is about to undo, and answers that agree with it.
Serial ==
    /\ \A q, r \in Requests :
           key[q] = key[r] /\ key[q] # None /\ InProgress(q) /\ InProgress(r)
               => q = r
    /\ \A r \in Requests : key[r] # None =>
           /\ pc[r] \in CallSteps \ {"lookup"} => opStatus[key[r]] # "active"
           /\ pc[r] = "reply" => opStatus[key[r]] = "active"
                                 /\ opResponse[key[r]] = r
           /\ answer[r] # None => opStatus[key[r]] = "active"
                                  /\ opResponse[key[r]] = answer[r]
    /\ \A r \in Requests :
           /\ answer[r] # None => pc[r] = "done"
           /\ answer[r] # None /\ key[r] = None => answer[r] = r
           /\ pc[r] = "idle" => key[r] = None

SerialInv == IInv /\ Serial

-----------------------------------------------------------------------------
(* Refinement: an operation binds its key while it is "active" *)

Abstract == INSTANCE IdempotentCreation WITH
    bound <- [k \in Keys |->
                 IF opStatus[k] = "active" THEN opResponse[k] ELSE None]

\* Provided a key is not repeated while a request with it is being handled,
\* creation keeps the promise of IdempotentCreation, through failures, lost
\* answers, cancellations and restarts.
KeepsPromise == Abstract!Spec

=============================================================================
