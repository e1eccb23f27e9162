------------------------------ MODULE Admission ------------------------------
(***************************************************************************)
(* What stands in front of the Room API's handlers: the request size       *)
(* limit, the rate limiter of each public endpoint, and the provisioning   *)
(* slots that room creations share.                                        *)
(*                                                                         *)
(* Every request is a goroutine.  Allow reads the clock before it takes    *)
(* the limiter's mutex, so a request may be decided by a stamp that is     *)
(* older than the clock (by at most Lag), and older than the window it is  *)
(* counted in.  The clock is monotonic, as Go's is, and starts at 1: the   *)
(* zero time of an entry that is not in the map is 0.  The slots are a     *)
(* buffered channel, of which only the length matters.  A client is the    *)
(* address remoteIP finds.                                                 *)
(***************************************************************************)
EXTENDS Integers, FiniteSets

CONSTANTS
    Requests,   \* the requests that are made
    Clients,    \* the addresses they come from
    Limit,      \* requests per window, for each endpoint that has a limiter
    Window,     \* its length
    Slots,      \* cap(provision), ProvisionConcurrency
    Lag,        \* bound: how old a stamp may be when Allow decides by it
    MaxTime     \* bound on the clock

Kinds == {"create", "join", "peers"}

ASSUME RequestsFinite == IsFiniteSet(Requests)
ASSUME LimitPositive  == Limit \in [Kinds -> Nat \ {0}]
ASSUME WindowPositive == Window \in Nat \ {0}
ASSUME SlotsPositive  == Slots \in Nat \ {0}
ASSUME LagIsShort     == Lag \in 0..Window
ASSUME MaxTimeIsNat   == MaxTime \in Nat \ {0}

VARIABLES
    now,            \* the monotonic clock
    pc, kind, client, stamp, reply,   \* the requests
    entry,          \* the limiters' maps: counter{started, count}
    used,           \* len(provision)
    admitted,       \* history: when a request was let through
    window          \* history: the start of the window it was counted in

reqVars   == <<kind, client>>
limitVars == <<entry, admitted, window>>
vars      == <<now, pc, reqVars, stamp, reply, limitVars, used>>

-----------------------------------------------------------------------------
Holding == {r \in Requests : pc[r] \in {"key", "create", "release"}}

TypeOK ==
    /\ now \in 1..MaxTime
    /\ pc \in [Requests -> {"allow", "decide", "slot", "key", "create", "release",
                            "handle", "done"}]
    /\ kind \in [Requests -> Kinds \cup {"disable"}]
    /\ client \in [Requests -> Clients]
    /\ stamp \in [Requests -> 0..now]
    /\ reply \in [Requests -> {"none", "tooLarge", "tooMany", "busy", "badKey",
                               "unauthorized", "served"}]
    /\ entry \in [Kinds \X Clients -> [started : 0..now, count : Nat]]
    /\ used \in 0..Slots
    /\ admitted \in [Requests -> 0..now]
    /\ window \in [Requests -> 0..now]

Init ==
    /\ now = 1
    /\ kind \in [Requests -> Kinds \cup {"disable"}]
    /\ client \in [Requests -> Clients]
    /\ pc = [r \in Requests |-> IF kind[r] = "disable" THEN "handle" ELSE "allow"]
    /\ stamp = [r \in Requests |-> 0]
    /\ reply = [r \in Requests |-> "none"]
    /\ entry = [kc \in Kinds \X Clients |-> [started |-> 0, count |-> 0]]
    /\ used = 0
    /\ admitted = [r \in Requests |-> 0]
    /\ window = [r \in Requests |-> 0]

Goto(r, step)  == pc' = [pc EXCEPT ![r] = step]
Answer(r, status, step) ==
    /\ reply' = [reply EXCEPT ![r] = status]
    /\ Goto(r, step)

-----------------------------------------------------------------------------
(* A request arrives: when it does is when it takes its first step *)

\* Only a creation looks at the declared length before the limiter counts.
TooLarge(r) ==
    /\ pc[r] = "allow" /\ kind[r] = "create"
    /\ Answer(r, "tooLarge", "done")
    /\ UNCHANGED <<now, reqVars, stamp, limitVars, used>>

\* now := time.Now(), ahead of the mutex.
ReadClock(r) ==
    /\ pc[r] = "allow"
    /\ stamp' = [stamp EXCEPT ![r] = now]
    /\ Goto(r, "decide")
    /\ UNCHANGED <<now, reqVars, reply, limitVars, used>>

-----------------------------------------------------------------------------
(* Allow, under the mutex of its limiter *)

\* Mutant: one map for all endpoints.
EntrySharedByKinds(r) == <<"join", client[r]>>

Entry(r) == <<kind[r], client[r]>>

Fresh(r) ==
    \/ entry[Entry(r)].started = 0
    \/ stamp[r] - entry[Entry(r)].started >= Window

Count(r, started, count) ==
    /\ entry' = [entry EXCEPT ![Entry(r)] = [started |-> started, count |-> count]]
    /\ admitted' = [admitted EXCEPT ![r] = now]
    /\ window' = [window EXCEPT ![r] = started]
    /\ Goto(r, IF kind[r] = "create" THEN "slot" ELSE "handle")
    /\ stamp' = [stamp EXCEPT ![r] = 0]
    /\ UNCHANGED <<now, reqVars, reply, used>>

\* Mutant: the request that opens a window is not counted.
OpenWindowUncounted(r) ==
    /\ pc[r] = "decide" /\ Fresh(r)
    /\ Count(r, stamp[r], 0)

OpenWindow(r) ==
    /\ pc[r] = "decide" /\ Fresh(r)
    /\ Count(r, stamp[r], 1)

CountIn(r) ==
    /\ pc[r] = "decide" /\ ~Fresh(r)
    /\ entry[Entry(r)].count < Limit[kind[r]]
    /\ Count(r, entry[Entry(r)].started, entry[Entry(r)].count + 1)

TooMany(r) ==
    /\ pc[r] = "decide" /\ ~Fresh(r)
    /\ entry[Entry(r)].count >= Limit[kind[r]]
    /\ Answer(r, "tooMany", "done")
    /\ stamp' = [stamp EXCEPT ![r] = 0]
    /\ UNCHANGED <<now, reqVars, limitVars, used>>

-----------------------------------------------------------------------------
(* The provisioning slots *)

Acquire(r) ==
    /\ pc[r] = "slot" /\ used < Slots
    /\ used' = used + 1
    /\ Goto(r, "key")
    /\ UNCHANGED <<now, reqVars, stamp, reply, limitVars>>

\* Mutant: the slot is given back although none was taken.
BusyReleases(r) ==
    /\ pc[r] = "slot" /\ used = Slots
    /\ Answer(r, "busy", "release")
    /\ UNCHANGED <<now, reqVars, stamp, limitVars, used>>

Busy(r) ==
    /\ pc[r] = "slot" /\ used = Slots
    /\ Answer(r, "busy", "done")
    /\ UNCHANGED <<now, reqVars, stamp, limitVars, used>>

\* Mutant: the slot is given back after the key was looked at, not by defer.
CheckKeyKeepsSlot(r) ==
    /\ pc[r] = "key"
    /\ Answer(r, "badKey", "done") \/ (Goto(r, "create") /\ UNCHANGED reply)
    /\ UNCHANGED <<now, reqVars, stamp, limitVars, used>>

\* The length of the Idempotency-Key is looked at with the slot in hand.
CheckKey(r) ==
    /\ pc[r] = "key"
    /\ Answer(r, "badKey", "release") \/ (Goto(r, "create") /\ UNCHANGED reply)
    /\ UNCHANGED <<now, reqVars, stamp, limitVars, used>>

\* rooms.Service.Create has returned and its answer is written.
Create(r) ==
    /\ pc[r] = "create"
    /\ Answer(r, "served", "release")
    /\ UNCHANGED <<now, reqVars, stamp, limitVars, used>>

\* The deferred receive: the client may have its answer before.
Release(r) ==
    /\ pc[r] = "release"
    /\ used' = used - 1
    /\ Goto(r, "done")
    /\ UNCHANGED <<now, reqVars, stamp, reply, limitVars>>

-----------------------------------------------------------------------------
\* joinRoom, and roomAction once it has its code; a disable needs the token.
Handle(r) ==
    /\ pc[r] = "handle"
    /\ \/ Answer(r, "served", "done")
       \/ kind[r] = "disable" /\ Answer(r, "unauthorized", "done")
    /\ UNCHANGED <<now, reqVars, stamp, limitVars, used>>

\* No request is held up for longer than Lag between its stamp and the mutex.
Tick ==
    /\ now < MaxTime
    /\ \A r \in Requests : pc[r] = "decide" => now - stamp[r] < Lag
    /\ now' = now + 1
    /\ UNCHANGED <<pc, reqVars, stamp, reply, limitVars, used>>

Serve(r) ==
    \/ TooLarge(r) \/ ReadClock(r) \/ OpenWindow(r) \/ CountIn(r) \/ TooMany(r)
    \/ Acquire(r) \/ Busy(r) \/ CheckKey(r) \/ Create(r) \/ Release(r)
    \/ Handle(r)

Next == Tick \/ \E r \in Requests : Serve(r)

Spec == Init /\ [][Next]_vars

-----------------------------------------------------------------------------
(* Properties *)

\* Those of client c that endpoint k let through at a time in span.
Through(k, c, span) ==
    {r \in Requests : /\ kind[r] = k /\ client[r] = c
                      /\ admitted[r] # 0 /\ admitted[r] \in span}

\* The limiter counts in windows that a client opens with its first request,
\* by stamps that may be old: over any span as long as a window it lets twice
\* the limit through if stamps are fresh, and never more than three times.
Windows == IF Lag <= 1 THEN 2 ELSE 3

RateBound ==
    \A k \in Kinds, c \in Clients, t \in 0..now :
        Cardinality(Through(k, c, t..(t + Window - 1))) <= Windows * Limit[k]

\* A client is told that it asks too often only if it did: its own requests to
\* this endpoint, let through a short while ago, use the limit up.
QuotaIsOwn ==
    [][\A r \in Requests : reply'[r] = "tooMany" /\ reply[r] = "none" =>
          Cardinality(Through(kind[r], client[r],
                              (now - Window - Lag + 1)..now)) >= Limit[kind[r]]]_vars

\* A creation is told that provisioning is busy only while that many others
\* are in it: no way out of createRoom keeps its slot.
BusyIsTrue ==
    [][\A r \in Requests : reply'[r] = "busy" /\ reply[r] = "none" =>
          Cardinality(Holding) = Slots]_vars

-----------------------------------------------------------------------------
(* The inductive invariant *)

Counted(k, c, s) ==
    {r \in Requests : /\ kind[r] = k /\ client[r] = c
                      /\ admitted[r] # 0 /\ window[r] = s}

\* The slots in use are those of the handlers that hold one.
SlotsAccounted == used = Cardinality(Holding)

\* Who is not yet through has not been counted.
Undecided ==
    \A r \in Requests :
        /\ pc[r] \in {"allow", "decide"} => admitted[r] = 0
        /\ pc[r] \in {"allow", "decide", "slot", "key", "create", "release"}
               => kind[r] \in Kinds
        /\ pc[r] = "decide" => stamp[r] > 0 /\ now - stamp[r] <= Lag

\* A request is counted in a window that had begun and, but for its stamp's
\* age, had not ended.
CountedInTime ==
    \A r \in Requests : admitted[r] # 0 =>
        /\ kind[r] \in Kinds
        /\ 0 < window[r] /\ window[r] <= admitted[r]
        /\ admitted[r] < window[r] + Window + Lag

\* An entry holds the latest window and its count; no window exceeds the limit.
EntriesAreTrue ==
    \A k \in Kinds, c \in Clients :
        LET e == entry[<<k, c>>] IN
        /\ e.count = Cardinality(Counted(k, c, e.started))
        /\ e.started # 0 => e.count > 0
        /\ \A s \in 0..now : Cardinality(Counted(k, c, s)) <= Limit[k]

\* Windows of a client lie a window apart, the entry's being the latest.
WindowsApart ==
    /\ \A r \in Requests : admitted[r] # 0 =>
           LET e == entry[Entry(r)] IN
           e.started # 0 /\ (window[r] = e.started \/ window[r] + Window <= e.started)
    /\ \A q, r \in Requests :
           /\ admitted[q] # 0 /\ admitted[r] # 0 /\ Entry(q) = Entry(r)
           /\ window[q] < window[r]
           => window[q] + Window <= window[r]

IInv ==
    /\ TypeOK
    /\ SlotsAccounted
    /\ Undecided
    /\ CountedInTime
    /\ EntriesAreTrue
    /\ WindowsApart
=============================================================================
