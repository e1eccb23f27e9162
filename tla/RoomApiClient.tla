--------------------------- MODULE RoomApiClient ---------------------------
(***************************************************************************)
(* roomapi.Client.Create against the Room API: the attempts of a create    *)
(* intent, their retries and the deadline, composed with the handlers of   *)
(* RoomProvisioning.                                                       *)
(*                                                                         *)
(* Requests are the attempts here, and a key is the one its intent minted. *)
(* An attempt is known by the answer it gets or by a transport error; the  *)
(* client cannot tell whether the handler of a lost attempt ever ran, has  *)
(* ended or goes on.  Delays between attempts are a state (waiting)        *)
(* without a length, and the deadline of ten seconds, which all attempts   *)
(* of a call share, may pass at any moment.                                *)
(***************************************************************************)
EXTENDS RoomProvisioning

CONSTANTS
    Retries,       \* len(defaultRetryDelays)
    Losses,        \* what the network does to attempts, a subset of AllLosses
    ReuseIntents   \* is Create called again with an intent that failed?

AllLosses ==
    { "refuse"    \* 429 or 503 before the handler, or no connection
    , "answer"    \* the handler has ended, its answer is lost
    , "garbled"   \* the answer arrives and cannot be read or is no room
    , "break"     \* the connection breaks while the handler runs
    , "timeout" } \* the deadline of the call passes

ASSUME RetriesIsNat == Retries \in Nat
ASSUME LossesKnown == Losses \subseteq AllLosses
ASSUME ReuseIntentsIsBoolean == ReuseIntents \in BOOLEAN

VARIABLES
    call,      \* what the call with an intent is doing
    attempt,   \* the number of retries it has made
    awaited,   \* the attempt it awaits
    got,       \* the room an intent ended with
    unsure     \* history: intents with an attempt whose answer was not read

clientVars == <<call, attempt, awaited, got, unsure>>
serverVars == vars
allVars    == <<serverVars, clientVars>>

-----------------------------------------------------------------------------
Under(k) == call[k] \in {"send", "await", "wait"}
Awaited(r) == \E k \in Keys : call[k] = "await" /\ awaited[k] = r

ClientTypeOK ==
    /\ call \in [Keys -> {"fresh", "send", "await", "wait", "failed", "complete"}]
    /\ attempt \in [Keys -> 0..Retries]
    /\ awaited \in [Keys -> Requests \cup {None}]
    /\ got \in [Keys -> Requests \cup {None}]
    /\ unsure \subseteq Keys

ClientInit ==
    /\ Init
    /\ call = [k \in Keys |-> "fresh"]
    /\ attempt = [k \in Keys |-> 0]
    /\ awaited = [k \in Keys |-> None]
    /\ got = [k \in Keys |-> None]
    /\ unsure = {}

Now(k, step) == call' = [call EXCEPT ![k] = step]

-----------------------------------------------------------------------------
(* Create: an intent takes one call at a time, and none once it is complete *)

BeginCall(k) ==
    /\ call[k] = "fresh" \/ (call[k] = "failed" /\ ReuseIntents)
    /\ Now(k, "send")
    /\ attempt' = [attempt EXCEPT ![k] = 0]
    /\ UNCHANGED <<serverVars, awaited, got, unsure>>

\* The attempt reaches its handler.
Send(k, r) ==
    /\ call[k] = "send"
    /\ Arrive(r, k)
    /\ Now(k, "await")
    /\ awaited' = [awaited EXCEPT ![k] = r]
    /\ UNCHANGED <<attempt, got, unsure>>

\* A transient failure: try again unless this was the last attempt.
Retry(k) ==
    /\ Now(k, IF attempt[k] < Retries THEN "wait" ELSE "failed")
    /\ UNCHANGED <<serverVars, attempt, awaited, got>>

Unread(k) == unsure' = unsure \cup {k}

Refused(k) ==
    /\ call[k] = "send"
    /\ phase # "serving" \/ "refuse" \in Losses
    /\ Retry(k)
    /\ UNCHANGED unsure

\* Mutant: retries are not counted.
WakeUncounted(k) ==
    /\ call[k] = "wait"
    /\ Now(k, "send")
    /\ UNCHANGED <<serverVars, attempt, awaited, got, unsure>>

\* The delay has passed.
Wake(k) ==
    /\ call[k] = "wait"
    /\ Now(k, "send")
    /\ attempt' = [attempt EXCEPT ![k] = @ + 1]
    /\ UNCHANGED <<serverVars, awaited, got, unsure>>

Ended(r) == pc[r] \in {"done", "failed", "conflict"}

\* Mutant: the room is taken to be the one the last attempt made.
ReceiveOwn(k) ==
    /\ call[k] = "await" /\ pc[awaited[k]] = "done"
    /\ Now(k, "complete")
    /\ got' = [got EXCEPT ![k] = awaited[k]]
    /\ UNCHANGED <<serverVars, attempt, awaited, unsure>>

\* 201 with the room: the intent is complete and its key forgotten.
Receive(k) ==
    /\ call[k] = "await" /\ pc[awaited[k]] = "done"
    /\ Now(k, "complete")
    /\ got' = [got EXCEPT ![k] = answer[awaited[k]]]
    /\ UNCHANGED <<serverVars, attempt, awaited, unsure>>

\* 409 is not retried, 502 is, and so is the broken connection to a process
\* that died.
Transient(r) == pc[r] = "failed"

ReceiveError(k) ==
    /\ call[k] = "await" /\ Ended(awaited[k]) /\ pc[awaited[k]] # "done"
    /\ IF Transient(awaited[k])
       THEN Retry(k)
       ELSE Now(k, "failed") /\ UNCHANGED <<serverVars, attempt, awaited, got>>
    /\ UNCHANGED unsure

LoseAnswer(k) ==
    /\ call[k] = "await" /\ Ended(awaited[k])
    /\ "answer" \in Losses
    /\ Retry(k)
    /\ Unread(k)

\* A body that cannot be read or decoded is not retried.
Garbled(k) ==
    /\ call[k] = "await" /\ Ended(awaited[k])
    /\ "garbled" \in Losses
    /\ Now(k, "failed")
    /\ Unread(k)
    /\ UNCHANGED <<serverVars, attempt, awaited, got>>

Break(k) ==
    /\ call[k] = "await" /\ InProgress(awaited[k])
    /\ "break" \in Losses
    /\ Retry(k)
    /\ Unread(k)

\* Mutant: a deadline for each attempt, after which the next one is made.
TimeoutOfAttempt(k) ==
    /\ call[k] = "await"
    /\ "timeout" \in Losses
    /\ Retry(k)
    /\ Unread(k)

Timeout(k) ==
    /\ Under(k)
    /\ "timeout" \in Losses
    /\ Now(k, "failed")
    /\ IF call[k] = "await" THEN Unread(k) ELSE UNCHANGED unsure
    /\ UNCHANGED <<serverVars, attempt, awaited, got>>

\* A handler learns that its client is gone when the connection is closed.
Abandoned(r) ==
    /\ ~Awaited(r)
    /\ Cancel(r)

-----------------------------------------------------------------------------
CallStep(k) ==
    \/ \E r \in Requests : Send(k, r)
    \/ Refused(k) \/ Wake(k) \/ Receive(k) \/ ReceiveError(k)

Lost(k) == LoseAnswer(k) \/ Garbled(k) \/ Break(k) \/ Timeout(k)

\* With the process every connection is gone.
CrashBreaks ==
    /\ Crash
    /\ unsure' = unsure \cup
           {k \in Keys : call[k] = "await" /\ InProgress(awaited[k])}
    /\ UNCHANGED <<call, attempt, awaited, got>>

ServerStep ==
    \/ CrashBreaks
    \/ /\ Reconcile \/ \E r \in Requests : Step(r) \/ Abandoned(r)
       /\ UNCHANGED clientVars

ClientNext ==
    \/ \E k \in Keys : BeginCall(k) \/ CallStep(k) \/ Lost(k)
    \/ ServerStep

\* The call is a goroutine and its timers fire; handlers and Reconcile as in
\* RoomProvisioning.  No loss and no deadline is counted on.
ClientFairness ==
    /\ \A k \in Keys : WF_allVars(CallStep(k))
    /\ \A r \in Requests : WF_allVars(Step(r) /\ UNCHANGED clientVars)
    /\ WF_allVars(Reconcile /\ UNCHANGED clientVars)

ClientSpec     == ClientInit /\ [][ClientNext]_allVars
ClientFairSpec == ClientSpec /\ ClientFairness

\* The API is open to clients that send no Idempotency-Key, beside this one.
OtherClient(r) == Arrive(r, None) /\ UNCHANGED clientVars

OpenNext == ClientNext \/ \E r \in Requests : OtherClient(r)
OpenSpec == ClientInit /\ [][OpenNext]_allVars

-----------------------------------------------------------------------------
(* Properties *)

\* What RoomProvisioning assumes of clients when it promises one room for a
\* key (SerialRetries), this client does, as long as no connection breaks
\* under a running handler and an intent is not used again after a deadline:
\* seen from the server, its attempts come one after another.
SerialServer == INSTANCE RoomProvisioning WITH SerialRetries <- TRUE
ServesSerially == SerialServer!Spec

\* The room a create ended with works, is the one its key stands for on the
\* server, and the only active room made under that key: no earlier attempt
\* that failed, was lost or was cut off left another.
GotIsTheRoom ==
    \A k \in Keys : call[k] = "complete" =>
        /\ Provisioned(got[k])
        /\ opStatus[k] = "active" /\ opResponse[k] = got[k]
        /\ \A r \in Requests :
               key[r] = k /\ roomStatus[r] = "active" => r = got[k]

\* A create that failed although the answer of every attempt was read has left
\* nothing on the server and in NetBird; one whose answer was lost may have.
FailureLeavesNothing ==
    \A k \in Keys \ unsure : call[k] = "failed" =>
        \A r \in Requests : key[r] = k =>
            /\ roomStatus[r] # "active"
            /\ r \notin groups /\ setupKey[r] # "valid" /\ r \notin policies

\* A create ends, even if no deadline interrupts it: its retries are bounded
\* and every handler answers.
CallEnds == \A k \in Keys : Under(k) ~> ~Under(k)

-----------------------------------------------------------------------------
(* Why the attempts of an intent come one after another *)

\* The client keeps to one attempt at a time if a broken connection is the end
\* of its handler, and if a failed intent is only used again when no deadline
\* may have cut an attempt short.
Serialising == "break" \notin Losses /\ (ReuseIntents => "timeout" \notin Losses)

\* Every handler that runs is awaited, or was cut off by a deadline.
AttemptsAccounted ==
    \A r \in Requests : InProgress(r) =>
        /\ key[r] \in Keys
        /\ \/ call[key[r]] = "await" /\ awaited[key[r]] = r
           \/ call[key[r]] = "failed" /\ "timeout" \in Losses

\* Who waits has a retry left, and who awaits has an attempt under way.
CallsGoOn ==
    \A k \in Keys :
        /\ call[k] = "wait" => attempt[k] < Retries
        /\ call[k] = "await" => awaited[k] \in Requests

ClientInv == ClientTypeOK /\ AttemptsAccounted /\ CallsGoOn

\* An active room is the one its operation points to: before an operation is
\* pointed elsewhere, or given up, its room has been marked.
BoundRooms ==
    /\ \A r \in Requests :
           /\ pc[r] \in CallSteps \ {"saveOp"} \/ pc[r] = "idle"
                  => roomStatus[r] # "active"
           /\ key[r] # None =>
                  /\ pc[r] = "reset" => opStatus[key[r]] = "error"
                  /\ pc[r] = "begin" => opStatus[key[r]] = "absent"
                  /\ \/ roomStatus[r] = "active"
                     \/ pc[r] \in CallSteps \ {"lookup", "reset", "begin"}
                     => /\ opRoom[key[r]] = r
                        /\ opStatus[key[r]] \in {"creating", "active"}
    /\ \A k \in Keys : opStatus[k] = "active" => opResponse[k] = opRoom[k]
    /\ phase = "op" => roomStatus[opRoom[current]] # "active"

\* What a call has is what its attempt was answered, and what its key stands for.
Gotten ==
    /\ \A r \in Requests : pc[r] = "done" => answer[r] # None
    /\ \A k \in Keys :
           /\ call[k] = "await" => key[awaited[k]] = k
           /\ call[k] = "complete" =>
                  opStatus[k] = "active" /\ opResponse[k] = got[k]

RoomInv == SerialInv /\ ClientInv /\ BoundRooms /\ Gotten

\* While the answer of every attempt of an intent was read, its attempts follow
\* each other, none is cut off, and each undoes what it made or is the last.
\* This holds over restarts: the process does not die under an attempt without
\* its client losing the connection.
AttemptsRead ==
    /\ \A r \in Requests : pc[r] = "idle" =>
           /\ r \notin cancelled /\ roomStatus[r] # "active"
           /\ r \notin groups /\ setupKey[r] # "valid" /\ r \notin policies
    /\ \A r \in Requests : key[r] \in Keys \ unsure =>
           /\ r \notin cancelled
           /\ InProgress(r) => call[key[r]] = "await" /\ awaited[key[r]] = r
           /\ pc[r] = "done" =>
                  \/ call[key[r]] = "complete"
                  \/ call[key[r]] = "await" /\ awaited[key[r]] = r
           /\ roomStatus[r] = "active" => pc[r] \in {"saveOp", "reply", "done"}
           /\ r \in policies => pc[r] \in {"savePolicy", "activate", "saveOp",
                                           "reply", "done"}
           /\ setupKey[r] = "valid" =>
                  pc[r] \in {"saveKey", "policy", "savePolicy", "activate",
                             "saveOp", "reply", "done", "undoKey"}
           /\ r \in groups =>
                  pc[r] \in {"key", "saveKey", "policy", "savePolicy",
                             "activate", "saveOp", "reply", "done", "undoKey",
                             "undoGroup"}
=============================================================================
