--------------------------- MODULE RecoveryMonitor ---------------------------
(* RecoveryMonitor.Watch of client/internal/netbird/monitor.go: one goroutine
   that polls the daemon's status, follows its event stream, reopens the stream
   a bounded number of times and reports to two bounded channels; with the
   adapter's goroutine that feeds the stream (rpc_adapter.go, Subscribe), the
   reader of the channels, and a daemon that comes and goes. *)
EXTENDS Naturals

CONSTANTS
    Retries,      \* length of the list of retry delays
    UpdateRoom,   \* capacity of the update channel, 8 in the code
    FailureRoom,  \* capacity of the failure channel, 4 in the code
    StreamFaults  \* "stream": a stream may break while the daemon is up
                  \* "early": the last retry may come before a poll; its delay
                  \* and the poll interval are both two seconds

ASSUME MonitorAssumption ==
    /\ Retries \in Nat /\ UpdateRoom \in Nat \ {0} /\ FailureRoom \in Nat \ {0}
    /\ StreamFaults \subseteq {"stream", "early"}

VARIABLES
    pc,           \* where the watcher is: at the select, or in one of its calls
    stream,       \* the subscription the watcher holds, as the adapter has left it
    retry,        \* a retry timer is running
    polled,       \* the status was polled since it was started
    streamFailures, streamExhausted, statusUnavailable, wasUnavailable,
    updates, failures,   \* filled places of the channels
    answering,    \* the daemon answers
    cancelled     \* the watch's context

watchVars == <<pc, stream, retry, polled, streamFailures, streamExhausted, statusUnavailable,
              wasUnavailable, updates, failures, answering, cancelled>>
timer == <<retry, polled>>
counters == <<streamFailures, streamExhausted>>
channels == <<updates, failures>>
outside == <<answering, cancelled>>

WatchTypeOK ==
    /\ pc \in {"select", "status", "snapshot", "event", "closed"}
    /\ stream \in {"none", "opening", "open", "ended"}
    /\ retry \in BOOLEAN /\ polled \in BOOLEAN
    /\ streamFailures \in 0..Retries + 1 /\ streamExhausted \in BOOLEAN
    /\ statusUnavailable \in BOOLEAN /\ wasUnavailable \in BOOLEAN
    /\ updates \in 0..UpdateRoom /\ failures \in 0..FailureRoom
    /\ answering \in BOOLEAN /\ cancelled \in BOOLEAN

(* The watcher subscribes and asks for the status before its first select. *)
WatchInit ==
    /\ pc = "status" /\ stream = "opening" /\ retry = FALSE /\ polled = FALSE
    /\ streamFailures = 0 /\ streamExhausted = FALSE
    /\ statusUnavailable = FALSE /\ wasUnavailable = FALSE
    /\ updates = 0 /\ failures = 0
    /\ answering \in BOOLEAN /\ cancelled = FALSE

(* sendMonitorError never waits: a failure nobody has room for is dropped, and
   at the end of the watch its select may drop it anyway. *)
SendError ==
    \/ failures < FailureRoom /\ failures' = failures + 1
    \/ (failures = FailureRoom \/ cancelled) /\ UNCHANGED failures

(* The deferred calls of the watcher: subscription and timer are given up. *)
Return == pc' = "closed" /\ stream' = "none" /\ retry' = FALSE /\ polled' = FALSE

-----------------------------------------------------------------------------
(* emitStatus *)

StatusAnswered ==
    /\ pc = "status" /\ answering /\ ~cancelled
    /\ statusUnavailable' = FALSE /\ wasUnavailable' = statusUnavailable
    /\ pc' = "snapshot"
    /\ UNCHANGED <<stream, timer, counters, channels, outside>>

(* One failure is reported for each outage. *)
StatusFails ==
    /\ pc = "status" /\ (~answering \/ cancelled)
    /\ IF statusUnavailable THEN UNCHANGED failures ELSE SendError
    /\ statusUnavailable' = TRUE
    /\ IF cancelled THEN Return ELSE pc' = "select" /\ UNCHANGED <<stream, timer>>
    /\ UNCHANGED <<counters, wasUnavailable, updates, outside>>

(* The daemon is back after the stream had been given up: start afresh. *)
Reopens == streamExhausted /\ wasUnavailable

SendSnapshot ==
    /\ pc = "snapshot" /\ updates < UpdateRoom
    /\ updates' = updates + 1
    /\ IF Reopens
       THEN stream' = "opening" /\ streamFailures' = 0 /\ streamExhausted' = FALSE
       ELSE UNCHANGED <<stream, counters>>
    /\ wasUnavailable' = FALSE
    /\ pc' = "select"
    /\ UNCHANGED <<timer, statusUnavailable, failures, outside>>

(* sendMonitorUpdate waits for a reader or for the end of the watch. *)
DeafToCancel == FALSE   \* a mutant of GivesUp: waits for a reader only
GivesUp == cancelled

StopSending ==
    /\ pc \in {"snapshot", "event"} /\ GivesUp
    /\ Return
    /\ UNCHANGED <<counters, statusUnavailable, wasUnavailable, channels, outside>>

-----------------------------------------------------------------------------
(* The cases of the select *)

WatchDone ==
    /\ pc = "select" /\ cancelled
    /\ Return
    /\ UNCHANGED <<counters, statusUnavailable, wasUnavailable, channels, outside>>

Poll ==
    /\ pc = "select"
    /\ pc' = "status" /\ polled' = TRUE
    /\ UNCHANGED <<stream, retry, counters, statusUnavailable, wasUnavailable, channels, outside>>

RetryTimer ==
    /\ pc = "select" /\ retry
    /\ streamFailures = Retries => polled \/ "early" \in StreamFaults
    /\ retry' = FALSE /\ stream' = "opening"
    /\ UNCHANGED <<pc, polled, counters, statusUnavailable, wasUnavailable, channels, outside>>

(* Only an event proves that a stream works. The daemon may be gone by the time
   the adapter hands its event over. *)
Event ==
    /\ pc = "select" /\ stream = "open"
    /\ streamFailures' = 0
    /\ pc' = "event"
    /\ UNCHANGED <<stream, timer, streamExhausted, statusUnavailable, wasUnavailable, channels, outside>>

SendEvent ==
    /\ pc = "event" /\ updates < UpdateRoom
    /\ updates' = updates + 1
    /\ pc' = "status"
    /\ UNCHANGED <<stream, timer, counters, statusUnavailable, wasUnavailable, failures, outside>>

(* A mutant of ForgetStream: the ended channels are still selected from. *)
KeepChannels == UNCHANGED stream
ForgetStream == stream' = "none"

(* A mutant of GiveUp: the watch ends with its stream. *)
EndWatch == streamExhausted' = TRUE /\ pc' = "closed"
GiveUp == streamExhausted' = TRUE /\ UNCHANGED pc

(* A mutant of Exhausted: one retry more than there are delays. *)
OneTooMany(n) == n > Retries + 1
Exhausted(n) == n > Retries

(* scheduleStreamRecovery, after an error or the end of the stream. *)
StreamRecovery ==
    /\ pc = "select" /\ stream = "ended"
    /\ ForgetStream
    /\ streamFailures' = streamFailures + 1
    /\ \/ /\ Exhausted(streamFailures + 1)
          /\ GiveUp /\ SendError /\ UNCHANGED timer
       \/ /\ ~Exhausted(streamFailures + 1)
          /\ retry' = TRUE /\ polled' = FALSE /\ UNCHANGED <<pc, streamExhausted, failures>>
    /\ UNCHANGED <<statusUnavailable, wasUnavailable, updates, outside>>

-----------------------------------------------------------------------------
(* The adapter's goroutine of the current subscription *)

Opens ==
    /\ stream = "opening" /\ answering
    /\ stream' = "open"
    /\ UNCHANGED <<pc, timer, counters, statusUnavailable, wasUnavailable, channels, outside>>

Breaks ==
    /\ stream \in {"opening", "open"} /\ (~answering \/ cancelled \/ "stream" \in StreamFaults)
    /\ stream' = "ended"
    /\ UNCHANGED <<pc, timer, counters, statusUnavailable, wasUnavailable, channels, outside>>

(* The reader of the channels, the daemon and the owner of the watch *)

ReadUpdate ==
    /\ updates > 0 /\ updates' = updates - 1
    /\ UNCHANGED <<pc, stream, timer, counters, statusUnavailable, wasUnavailable, failures, outside>>

ReadFailure ==
    /\ failures > 0 /\ failures' = failures - 1
    /\ UNCHANGED <<pc, stream, timer, counters, statusUnavailable, wasUnavailable, updates, outside>>

DaemonChanges ==
    /\ answering' = ~answering
    /\ UNCHANGED <<pc, stream, timer, counters, statusUnavailable, wasUnavailable, channels, cancelled>>

Cancel ==
    /\ ~cancelled /\ cancelled' = TRUE
    /\ UNCHANGED <<pc, stream, timer, counters, statusUnavailable, wasUnavailable, channels, answering>>

EmitStatus == StatusAnswered \/ StatusFails \/ SendSnapshot \/ StopSending
WatchNext ==
    \/ EmitStatus \/ WatchDone \/ Poll \/ RetryTimer \/ Event \/ SendEvent \/ StreamRecovery
    \/ Opens \/ Breaks
    \/ ReadUpdate \/ ReadFailure \/ DaemonChanges \/ Cancel

WatchSpec == WatchInit /\ [][WatchNext]_watchVars

(* A goroutine that can run does, and a select takes each ready case with equal
   chance, so that one that is ready again and again is taken. Nothing is assumed
   of the reader, of the daemon, or of events. *)
Scheduled ==
    /\ WF_watchVars(EmitStatus) /\ WF_watchVars(SendEvent)
    /\ SF_watchVars(WatchDone) /\ SF_watchVars(Poll)
    /\ SF_watchVars(RetryTimer) /\ SF_watchVars(StreamRecovery)
    /\ WF_watchVars(Opens) /\ WF_watchVars(Breaks /\ ~answering)
WatchFairSpec == WatchSpec /\ Scheduled
ReadSpec == WatchFairSpec /\ WF_watchVars(ReadUpdate)

-----------------------------------------------------------------------------
(* The watcher never loses its stream from sight: until it returns, it holds a
   subscription, or a timer will give it one, or it has given up after exactly
   as many failures as it has retries; and never two of these, which would
   subscribe twice or retry without bound. *)
StreamInSight ==
    /\ pc # "closed" =>
         /\ stream # "none" \/ retry \/ streamExhausted
         /\ stream # "none" => ~retry /\ ~streamExhausted
         /\ retry => ~streamExhausted
    /\ retry => streamFailures \in 1..Retries
    /\ streamExhausted => streamFailures = Retries + 1
    /\ stream # "none" => streamFailures <= Retries

(* A cancelled watch ends and closes its channels, also when nobody reads them
   and the watcher waits in a send. *)
CancelEnds == cancelled ~> pc = "closed"

(* The poll is the fallback for the stream: as long as the daemon is up,
   snapshots keep coming, whatever happens to the stream, unless the updates
   pile up because nobody reads them. *)
PollGoesOn ==
    <>[](answering /\ ~cancelled) =>
        []<>(pc = "snapshot") \/ <>[](updates = UpdateRoom)

(* "Event stream was not reopened after daemon recovery" is the failure that
   TestRecoveryMonitorReopensEventStreamAfterDaemonReturns tests for: once the
   daemon is back for good, its events are followed again. *)
StreamComesBack == <>[](answering /\ ~cancelled) => <>[](stream = "open")
=============================================================================
