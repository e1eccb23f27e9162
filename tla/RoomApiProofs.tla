---------------------------- MODULE RoomApiProofs ----------------------------
(***************************************************************************)
(* What holds of the Room API besides the creation of rooms, which is in   *)
(* RoomCreationProofs: of Admission for any number of requests, clients    *)
(* and slots, every limit and every length of the window, and of           *)
(* RoomAccess for any number of rooms, requests and guests.                *)
(*                                                                         *)
(* 1. Admission.  A window is known by the stamp of the request that       *)
(* opened it.  An entry's count is the number of requests let through in   *)
(* its window (EntriesAreTrue), and it is replaced only by a stamp a       *)
(* window later, so that the windows of a client lie apart (WindowsApart). *)
(* A request let through at some time was counted in a window that began   *)
(* at most Window + Lag before (CountedInTime).  A span of length Window   *)
(* therefore meets two or three windows, each of which is within the       *)
(* limit.                                                                  *)
(*                                                                         *)
(* 2. Access.  Disable writes the row last, so by the time any request     *)
(* finds it disabled, the key is revoked and the policy deleted; neither   *)
(* comes back, nor does the row ever leave "disabled".                     *)
(***************************************************************************)
EXTENDS Admission, RoomAccess, FiniteSetTheorems, TLAPS

-----------------------------------------------------------------------------
(* 1. Admission *)

USE DEF Kinds

LEMMA InitInv == Init => IInv
<1> SUFFICES ASSUME Init PROVE IInv
    OBVIOUS
<1>1. Holding = {} /\ \A k \in Kinds, c \in Clients, s \in Nat : Counted(k, c, s) = {}
    BY DEF Init, Holding, Counted
<1>2. Cardinality({}) = 0
    BY FS_EmptySet
<1>3. TypeOK
    BY LagIsShort, WindowPositive, SlotsPositive, MaxTimeIsNat DEF Init, TypeOK
<1>4. EntriesAreTrue
    <2>1. \A k \in Kinds, c \in Clients :
              entry[<<k, c>>].started = 0 /\ entry[<<k, c>>].count = 0
        BY DEF Init
    <2>2. now = 1 /\ \A k \in Kinds : Limit[k] \in Nat
        BY LimitPositive DEF Init
    <2>3. \A k \in Kinds, c \in Clients, s \in Nat : Cardinality(Counted(k, c, s)) = 0
        BY <1>1, <1>2
    <2> QED
        BY <2>1, <2>2, <2>3 DEF EntriesAreTrue
<1> QED
    BY <1>1, <1>2, <1>3, <1>4
    DEF Init, IInv, SlotsAccounted, Undecided, CountedInTime, WindowsApart

\* The sets that are counted are finite.
LEMMA CountsAreFinite ==
    /\ IsFiniteSet(Holding)
    /\ \A k, c, s : IsFiniteSet(Counted(k, c, s)) /\ IsFiniteSet(Through(k, c, s))
<1>1. Holding \in SUBSET Requests
    BY DEF Holding
<1>2. ASSUME NEW k, NEW c, NEW s
      PROVE  Counted(k, c, s) \in SUBSET Requests /\ Through(k, c, s) \in SUBSET Requests
    BY DEF Counted, Through
<1> QED
    BY <1>1, <1>2, FS_Subset, RequestsFinite

-----------------------------------------------------------------------------
(* Letting a request through *)

\* Counted, one step later.
CountedAfter(k, c, s) ==
    {q \in Requests : /\ kind'[q] = k /\ client'[q] = c
                      /\ admitted'[q] # 0 /\ window'[q] = s}

\* The request joins the window it is counted in, and no other set changes.
LEMMA CountedNext ==
    ASSUME IInv, NEW r \in Requests, pc[r] = "decide",
           NEW w \in Nat, NEW n \in Nat, Count(r, w, n)
    PROVE  \A k \in Kinds, c \in Clients, s \in Nat :
               /\ r \notin Counted(k, c, s)
               /\ CountedAfter(k, c, s) = IF <<k, c>> = Entry(r) /\ s = w
                                         THEN Counted(k, c, s) \cup {r}
                                         ELSE Counted(k, c, s)
<1>1. /\ admitted[r] = 0 /\ admitted'[r] # 0 /\ window'[r] = w
      /\ \A q \in Requests \ {r} : admitted'[q] = admitted[q] /\ window'[q] = window[q]
      /\ UNCHANGED <<kind, client>>
    BY DEF IInv, TypeOK, Undecided, Count, reqVars
<1> QED
    BY <1>1 DEF Counted, CountedAfter, Entry

LEMMA CountKeeps ==
    ASSUME IInv, NEW r \in Requests, OpenWindow(r) \/ CountIn(r)
    PROVE  IInv'
<1> DEFINE e == entry[Entry(r)]
           w == IF Fresh(r) THEN stamp[r] ELSE e.started
           n == IF Fresh(r) THEN 1 ELSE e.count + 1
<1> USE WindowPositive, LimitPositive, LagIsShort
<1>1. /\ pc[r] = "decide" /\ kind[r] \in Kinds /\ client[r] \in Clients
      /\ Entry(r) \in Kinds \X Clients
      /\ stamp[r] \in 1..now /\ now - stamp[r] <= Lag /\ now \in Nat
      /\ e.started \in 0..now /\ e.count \in Nat
    BY DEF IInv, TypeOK, Undecided, OpenWindow, CountIn, Entry
<1>2. Count(r, w, n) /\ w \in 1..now /\ n \in Nat \ {0}
    BY <1>1 DEF OpenWindow, CountIn, Fresh
<1> HIDE DEF w, n
<1>3. /\ admitted' = [admitted EXCEPT ![r] = now]
      /\ window' = [window EXCEPT ![r] = w]
      /\ entry' = [entry EXCEPT ![Entry(r)] = [started |-> w, count |-> n]]
      /\ stamp' = [stamp EXCEPT ![r] = 0]
      /\ pc' = [pc EXCEPT ![r] = IF kind[r] = "create" THEN "slot" ELSE "handle"]
      /\ UNCHANGED <<now, kind, client, reply, used>>
    BY <1>2 DEF Count, Goto, reqVars
<1>4. TypeOK'
    BY <1>1, <1>2, <1>3 DEF IInv, TypeOK
<1>5. SlotsAccounted'
    <2>1. Holding' = Holding
        BY <1>1, <1>3 DEF Holding, IInv, TypeOK
    <2> QED
        BY <1>3, <2>1 DEF SlotsAccounted, IInv
<1>6. Undecided'
    BY <1>1, <1>3 DEF IInv, TypeOK, Undecided
<1>7. CountedInTime'
    <2>1. w <= now /\ now < w + Window + Lag
        BY <1>1, <1>2 DEF Fresh, w
    <2> QED
        BY <1>1, <1>2, <1>3, <2>1 DEF IInv, TypeOK, CountedInTime
<1>8. \* A window that is opened holds nobody yet, and lies apart from all others.
      /\ Fresh(r) => /\ Counted(kind[r], client[r], w) = {}
                     /\ \A q \in Requests : admitted[q] # 0 /\ Entry(q) = Entry(r)
                            => window[q] + Window <= w
      /\ ~Fresh(r) => \A q \in Requests : admitted[q] # 0 /\ Entry(q) = Entry(r)
                            => window[q] = w \/ window[q] + Window <= w
    <2>1. \A q \in Requests : admitted[q] # 0 /\ Entry(q) = Entry(r) =>
              /\ e.started # 0
              /\ window[q] \in Nat
              /\ window[q] = e.started \/ window[q] + Window <= e.started
        BY DEF IInv, TypeOK, WindowsApart
    <2>2. Fresh(r) => \A q \in Requests : admitted[q] # 0 /\ Entry(q) = Entry(r)
                            => window[q] + Window <= w
        BY <1>1, <2>1 DEF Fresh, w
    <2>3. Fresh(r) => Counted(kind[r], client[r], w) = {}
        BY <1>2, <2>1, <2>2 DEF Counted, Entry
    <2> QED
        BY <1>1, <2>1, <2>2, <2>3 DEF w
<1>9. EntriesAreTrue'
    <2> SUFFICES ASSUME NEW k \in Kinds, NEW c \in Clients
                 PROVE  /\ entry'[<<k, c>>].count =
                               Cardinality(CountedAfter(k, c, entry'[<<k, c>>].started))
                        /\ entry'[<<k, c>>].started # 0 => entry'[<<k, c>>].count > 0
                        /\ \A s \in 0..now' : Cardinality(CountedAfter(k, c, s)) <= Limit[k]
        BY DEF EntriesAreTrue, Counted, CountedAfter
    <2>1. /\ entry[<<k, c>>].count = Cardinality(Counted(k, c, entry[<<k, c>>].started))
          /\ entry[<<k, c>>].started # 0 => entry[<<k, c>>].count > 0
          /\ \A s \in 0..now : Cardinality(Counted(k, c, s)) <= Limit[k]
        BY DEF IInv, EntriesAreTrue
    <2>2. \A s \in Nat : CountedAfter(k, c, s) =
              IF <<k, c>> = Entry(r) /\ s = w THEN Counted(k, c, s) \cup {r}
                                              ELSE Counted(k, c, s)
        BY <1>1, <1>2, CountedNext
    <2>3. CASE <<k, c>> # Entry(r)
        <3>1. entry'[<<k, c>>] = entry[<<k, c>>] /\ entry[<<k, c>>].started \in Nat
            BY <1>3, <2>3 DEF IInv, TypeOK
        <3> QED
            BY <1>3, <2>1, <2>2, <2>3, <3>1
    <2>4. CASE <<k, c>> = Entry(r)
        <3>1. entry'[<<k, c>>] = [started |-> w, count |-> n]
            BY <1>1, <1>3, <2>4 DEF IInv, TypeOK
        <3>2. k = kind[r] /\ c = client[r]
            BY <2>4 DEF Entry
        <3>3. r \notin Counted(k, c, w)
            BY <1>1, <1>2, CountedNext
        <3>4. Cardinality(Counted(k, c, w) \cup {r}) = Cardinality(Counted(k, c, w)) + 1
            BY <3>3, CountsAreFinite, FS_AddElement
        <3>5. Cardinality(Counted(k, c, w)) + 1 = n /\ n <= Limit[k]
            <4>1. CASE Fresh(r)
                <5>1. Counted(k, c, w) = {}
                    BY <1>8, <3>2, <4>1
                <5>2. Cardinality(Counted(k, c, w)) = 0
                    BY <5>1, FS_EmptySet
                <5>3. n = 1 /\ Limit[k] \in Nat \ {0}
                    BY <4>1 DEF n
                <5> QED
                    BY <5>2, <5>3
            <4>2. CASE ~Fresh(r)
                BY <1>1, <2>1, <2>4, <3>2, <4>2 DEF OpenWindow, CountIn, Entry, w, n
            <4> QED
                BY <4>1, <4>2
        <3>6. /\ Cardinality(CountedAfter(k, c, w)) = n
              /\ \A s \in 0..now : s # w => CountedAfter(k, c, s) = Counted(k, c, s)
            <4>1. w \in Nat /\ \A s \in 0..now : s \in Nat
                BY <1>1, <1>2
            <4>2. CountedAfter(k, c, w) = Counted(k, c, w) \cup {r}
                BY <2>2, <2>4, <4>1
            <4>3. \A s \in 0..now : s # w => CountedAfter(k, c, s) = Counted(k, c, s)
                BY <2>2, <4>1
            <4> QED
                BY <3>4, <3>5, <4>2, <4>3
        <3>7. \A s \in 0..now : Cardinality(CountedAfter(k, c, s)) <= Limit[k]
            BY <2>1, <3>5, <3>6
        <3>8. entry'[<<k, c>>].started = w /\ entry'[<<k, c>>].count = n
            BY <3>1
        <3>9. n > 0 /\ now' = now
            BY <1>2, <1>3
        <3>10. Cardinality(CountedAfter(k, c, entry'[<<k, c>>].started)) = n
            BY <3>6, <3>8
        <3> QED
            BY <3>7, <3>8, <3>9, <3>10
    <2> QED
        BY <2>3, <2>4
<1>10. WindowsApart'
    <2>1. \A q \in Requests : Entry(q)' = Entry(q)
        BY <1>3 DEF Entry
    <2>2. /\ admitted'[r] # 0 /\ window'[r] = w
          /\ entry'[Entry(r)].started = w
          /\ \A q \in Requests \ {r} : /\ admitted'[q] = admitted[q]
                                       /\ window'[q] = window[q]
                                       /\ Entry(q) # Entry(r) =>
                                              entry'[Entry(q)] = entry[Entry(q)]
        BY <1>1, <1>3 DEF IInv, TypeOK
    <2>3. \A q \in Requests : admitted'[q] # 0 =>
              /\ entry'[Entry(q)].started # 0
              /\ \/ window'[q] = entry'[Entry(q)].started
                 \/ window'[q] + Window <= entry'[Entry(q)].started
        <3> SUFFICES ASSUME NEW q \in Requests, admitted'[q] # 0
                     PROVE  /\ entry'[Entry(q)].started # 0
                            /\ \/ window'[q] = entry'[Entry(q)].started
                               \/ window'[q] + Window <= entry'[Entry(q)].started
            OBVIOUS
        <3>1. CASE Entry(q) = Entry(r)
            BY <1>2, <1>8, <2>2, <3>1
        <3>2. CASE Entry(q) # Entry(r)
            BY <2>2, <3>2 DEF IInv, WindowsApart
        <3> QED
            BY <3>1, <3>2
    <2>4. \A p, q \in Requests :
              /\ admitted'[p] # 0 /\ admitted'[q] # 0 /\ Entry(p) = Entry(q)
              /\ window'[p] < window'[q]
              => window'[p] + Window <= window'[q]
        <3> SUFFICES ASSUME NEW p \in Requests, NEW q \in Requests,
                            admitted'[p] # 0, admitted'[q] # 0, Entry(p) = Entry(q),
                            window'[p] < window'[q]
                     PROVE  window'[p] + Window <= window'[q]
            OBVIOUS
        <3>1. CASE p # r /\ q # r
            BY <2>2, <3>1 DEF IInv, WindowsApart
        <3>2. CASE q = r
            BY <1>2, <1>8, <2>2, <3>2
        <3>3. CASE p = r /\ q # r
            BY <1>2, <1>8, <2>2, <3>3 DEF IInv, TypeOK
        <3> QED
            BY <3>1, <3>2, <3>3
    <2> QED
        BY <2>1, <2>3, <2>4 DEF WindowsApart
<1> QED
    BY <1>4, <1>5, <1>6, <1>7, <1>9, <1>10 DEF IInv

-----------------------------------------------------------------------------
(* Every other step *)

LEMMA SlotKeeps ==
    ASSUME IInv, NEW r \in Requests,
           Acquire(r) \/ Busy(r) \/ CheckKey(r) \/ Create(r) \/ Release(r)
    PROVE  TypeOK' /\ SlotsAccounted'
<1> USE SlotsPositive DEF Goto, Answer, reqVars, limitVars
<1>1. CASE Acquire(r)
    <2>1. Holding' = Holding \cup {r} /\ r \notin Holding
        BY <1>1 DEF Acquire, Holding, IInv, TypeOK
    <2>2. Cardinality(Holding') = Cardinality(Holding) + 1
        BY <2>1, CountsAreFinite, FS_AddElement
    <2> QED
        BY <1>1, <2>2 DEF Acquire, IInv, TypeOK, SlotsAccounted
<1>2. CASE Release(r)
    <2>1. Holding' = Holding \ {r} /\ r \in Holding
        BY <1>2 DEF Release, Holding, IInv, TypeOK
    <2>2. /\ Cardinality(Holding') = Cardinality(Holding) - 1
          /\ Cardinality(Holding) # 0 /\ Cardinality(Holding) \in Nat
        BY <2>1, CountsAreFinite, FS_RemoveElement, FS_EmptySet, FS_CardinalityType
    <2>3. used' = Cardinality(Holding') /\ used' \in 0..Slots
        <3>1. used' = used - 1 /\ used = Cardinality(Holding) /\ used \in 0..Slots
            BY <1>2 DEF Release, IInv, TypeOK, SlotsAccounted
        <3> QED
            BY <2>2, <3>1
    <2>4. TypeOK'
        BY <1>2, <2>3 DEF Release, IInv, TypeOK
    <2> QED
        BY <2>3, <2>4 DEF SlotsAccounted
<1>3. CASE Busy(r) \/ CheckKey(r) \/ Create(r)
    <2>1. Holding' = Holding
        BY <1>3 DEF Busy, CheckKey, Create, Holding, IInv, TypeOK
    <2> QED
        BY <1>3, <2>1 DEF Busy, CheckKey, Create, IInv, TypeOK, SlotsAccounted
<1> QED
    BY <1>1, <1>2, <1>3

LEMMA OthersKeep ==
    ASSUME IInv, NEW r \in Requests,
           TooLarge(r) \/ ReadClock(r) \/ TooMany(r) \/ Handle(r)
    PROVE  TypeOK' /\ SlotsAccounted'
<1> USE DEF Goto, Answer, reqVars, limitVars
<1>1. Holding' = Holding /\ used' = used
    BY DEF TooLarge, ReadClock, TooMany, Handle, Holding, IInv, TypeOK
<1>2. TypeOK'
    BY DEF TooLarge, ReadClock, TooMany, Handle, IInv, TypeOK
<1> QED
    BY <1>1, <1>2 DEF IInv, SlotsAccounted

\* None of these touches what the limiters have counted.
LEMMA LimitersKept ==
    ASSUME IInv, UNCHANGED <<limitVars, reqVars>>, now' = now
    PROVE  CountedInTime' /\ EntriesAreTrue' /\ WindowsApart'
<1> USE DEF limitVars, reqVars, IInv
<1>1. \A k, c, s : CountedAfter(k, c, s) = Counted(k, c, s)
    BY DEF CountedAfter, Counted
<1>2. EntriesAreTrue'
    <2>1. \A k \in Kinds, c \in Clients :
              /\ entry[<<k, c>>].count =
                     Cardinality(CountedAfter(k, c, entry[<<k, c>>].started))
              /\ entry[<<k, c>>].started # 0 => entry[<<k, c>>].count > 0
              /\ \A s \in 0..now : Cardinality(CountedAfter(k, c, s)) <= Limit[k]
        BY <1>1 DEF EntriesAreTrue
    <2> QED
        BY <2>1 DEF EntriesAreTrue, Counted, CountedAfter
<1> QED
    BY <1>2 DEF CountedInTime, WindowsApart, Entry

LEMMA TickKeeps ==
    ASSUME IInv, Tick
    PROVE  IInv'
<1> USE LagIsShort, WindowPositive, LimitPositive
    DEF Tick, reqVars, limitVars
<1>1. now' = now + 1 /\ now \in Nat
    BY DEF IInv, TypeOK
<1>2. TypeOK'
    BY <1>1, MaxTimeIsNat DEF IInv, TypeOK
<1>3. SlotsAccounted' /\ Undecided' /\ CountedInTime' /\ WindowsApart'
    BY <1>1 DEF IInv, TypeOK, SlotsAccounted, Holding, Undecided, CountedInTime,
                WindowsApart, Entry
<1>4. EntriesAreTrue'
    <2>1. \A k \in Kinds, c \in Clients :
              Cardinality(Counted(k, c, now + 1)) <= Limit[k]
        <3> SUFFICES ASSUME NEW k \in Kinds, NEW c \in Clients
                     PROVE  Cardinality(Counted(k, c, now + 1)) <= Limit[k]
            OBVIOUS
        <3>1. Counted(k, c, now + 1) = {}
            BY <1>1 DEF Counted, IInv, TypeOK
        <3>2. Limit[k] \in Nat
            OBVIOUS
        <3> QED
            BY <3>1, <3>2, FS_EmptySet
    <2>2. \A k \in Kinds, c \in Clients, s \in 0..(now + 1) :
              Cardinality(Counted(k, c, s)) <= Limit[k]
        <3>1. \A s \in 0..(now + 1) : s \in 0..now \/ s = now + 1
            BY <1>1
        <3> QED
            BY <2>1, <3>1 DEF IInv, EntriesAreTrue
    <2>3. \A k \in Kinds, c \in Clients :
              /\ entry[<<k, c>>].count =
                     Cardinality(Counted(k, c, entry[<<k, c>>].started))
              /\ entry[<<k, c>>].started # 0 => entry[<<k, c>>].count > 0
        BY DEF IInv, EntriesAreTrue
    <2>4. UNCHANGED <<entry, kind, client, admitted, window>>
        OBVIOUS
    <2>5. \A k, c, s : CountedAfter(k, c, s) = Counted(k, c, s)
        BY <2>4 DEF CountedAfter, Counted
    <2>6. \A k \in Kinds, c \in Clients :
              /\ entry'[<<k, c>>].count =
                     Cardinality(CountedAfter(k, c, entry'[<<k, c>>].started))
              /\ entry'[<<k, c>>].started # 0 => entry'[<<k, c>>].count > 0
              /\ \A s \in 0..now' : Cardinality(CountedAfter(k, c, s)) <= Limit[k]
        BY <1>1, <2>2, <2>3, <2>4, <2>5
    <2> QED
        BY <2>6 DEF EntriesAreTrue, Counted, CountedAfter
<1> QED
    BY <1>2, <1>3, <1>4 DEF IInv

LEMMA NextKeepsInv == IInv /\ [Next]_vars => IInv'
<1> SUFFICES ASSUME IInv, [Next]_vars PROVE IInv'
    OBVIOUS
<1>1. ASSUME NEW r \in Requests,
             \/ TooLarge(r) \/ ReadClock(r) \/ TooMany(r) \/ Handle(r)
             \/ Acquire(r) \/ Busy(r) \/ CheckKey(r) \/ Create(r) \/ Release(r)
      PROVE  IInv'
    <2>1. UNCHANGED <<limitVars, reqVars>> /\ now' = now
        BY <1>1 DEF TooLarge, ReadClock, TooMany, Handle, Acquire, Busy,
                    CheckKey, Create, Release
    <2>2. Undecided'
        BY <1>1, LagIsShort
        DEF TooLarge, ReadClock, TooMany, Handle, Acquire, Busy, CheckKey,
            Create, Release, Goto, Answer, IInv, TypeOK, Undecided, reqVars,
            limitVars
    <2> QED
        BY <1>1, <2>1, <2>2, LimitersKept, SlotKeeps, OthersKeep DEF IInv
<1>2. CASE UNCHANGED vars
    <2>1. TypeOK' /\ SlotsAccounted' /\ Undecided'
        BY <1>2 DEF vars, limitVars, reqVars, IInv, TypeOK, SlotsAccounted,
                    Holding, Undecided
    <2> QED
        BY <1>2, <2>1, LimitersKept DEF vars, IInv
<1> QED
    BY <1>1, <1>2, CountKeeps, TickKeeps DEF Next, Serve

\* Clock, limiters and slots stay true to the requests they have counted.
THEOREM InvariantHolds == Spec => []IInv
BY InitInv, NextKeepsInv, PTL DEF Spec

\* The slots in use never exceed the channel's capacity, and never fall below 0.
THEOREM TypeCorrect == Spec => []TypeOK
<1>1. IInv => TypeOK
    BY DEF IInv
<1> QED
    BY <1>1, InvariantHolds, PTL

-----------------------------------------------------------------------------
(* The limit over any span of time *)

\* In an interval of starts as long as a window there is one window.
LEMMA OneWindow ==
    ASSUME IInv, NEW k \in Kinds, NEW c \in Clients, NEW a \in Int
    PROVE  LET S == UNION {Counted(k, c, s) : s \in {x \in 0..now :
                                a <= x /\ x < a + Window}}
           IN  IsFiniteSet(S) /\ Cardinality(S) <= Limit[k]
<1> DEFINE S == UNION {Counted(k, c, s) : s \in {x \in 0..now :
                           a <= x /\ x < a + Window}}
<1>1. S \in SUBSET Requests
    BY DEF Counted
<1>2. CASE S = {}
    <2>1. Limit[k] \in Nat
        BY LimitPositive
    <2> QED
        BY <1>2, <2>1, FS_EmptySet
<1>3. CASE S # {}
    <2>1. PICK q \in S : TRUE
        BY <1>3
    <2>2. /\ kind[q] = k /\ client[q] = c /\ admitted[q] # 0 /\ window[q] \in 0..now
          /\ a <= window[q] /\ window[q] < a + Window
        BY <2>1 DEF Counted
    <2>3. ASSUME NEW p \in S
          PROVE  window[p] = window[q]
        <3>1. /\ kind[p] = k /\ client[p] = c /\ admitted[p] # 0
              /\ window[p] \in 0..now
              /\ a <= window[p] /\ window[p] < a + Window
            BY <2>3 DEF Counted
        <3>2. /\ window[p] < window[q] => window[p] + Window <= window[q]
              /\ window[q] < window[p] => window[q] + Window <= window[p]
            BY <1>1, <2>1, <2>2, <2>3, <3>1 DEF IInv, WindowsApart, Entry
        <3>3. window[p] \in Int /\ window[q] \in Int /\ Window \in Int
            BY <2>2, <3>1, WindowPositive
        <3> QED
            BY <2>2, <3>1, <3>2, <3>3
    <2>4. S \in SUBSET Counted(k, c, window[q])
        BY <2>3 DEF Counted
    <2>5. Cardinality(Counted(k, c, window[q])) <= Limit[k]
        BY <2>2 DEF IInv, EntriesAreTrue
    <2>6. IsFiniteSet(S) /\ Cardinality(S) <= Cardinality(Counted(k, c, window[q]))
        BY <2>4, CountsAreFinite, FS_Subset
    <2> QED
        BY <2>5, <2>6, CountsAreFinite, FS_CardinalityType, LimitPositive
<1> QED
    BY <1>2, <1>3

LEMMA UnionBound ==
    ASSUME NEW S, NEW T, IsFiniteSet(S), IsFiniteSet(T)
    PROVE  /\ IsFiniteSet(S \cup T)
           /\ Cardinality(S \cup T) \in Nat
           /\ Cardinality(S \cup T) <= Cardinality(S) + Cardinality(T)
<1>1. IsFiniteSet(S \cup T) /\ IsFiniteSet(S \cap T)
    BY FS_Union, FS_Subset
<1>2. /\ Cardinality(S) \in Nat /\ Cardinality(T) \in Nat
      /\ Cardinality(S \cap T) \in Nat /\ Cardinality(S \cup T) \in Nat
    BY <1>1, FS_CardinalityType
<1>3. Cardinality(S \cup T) = Cardinality(S) + Cardinality(T) - Cardinality(S \cap T)
    BY FS_Union
<1> QED
    BY <1>1, <1>2, <1>3

\* Over any span as long as a window, a client gets through an endpoint at most
\* twice the limit's number of times if stamps are fresh, else three times.
THEOREM RateIsBounded == Spec => []RateBound
<1>1. IInv => RateBound
    <2> SUFFICES ASSUME IInv, NEW k \in Kinds, NEW c \in Clients, NEW t \in 0..now
                 PROVE  Cardinality(Through(k, c, t..(t + Window - 1)))
                            <= Windows * Limit[k]
        BY DEF RateBound
    <2> DEFINE In(a) == UNION {Counted(k, c, s) : s \in {x \in 0..now :
                                   a <= x /\ x < a + Window}}
               T == Through(k, c, t..(t + Window - 1))
               b == t - Window
    <2>1. /\ t \in Int /\ now \in Int /\ Window \in Nat \ {0} /\ Lag \in 0..Window
          /\ Limit[k] \in Nat /\ b \in Int /\ b - Window \in Int
        BY LimitPositive, WindowPositive, LagIsShort DEF IInv, TypeOK
    <2>2. \A a \in Int : IsFiniteSet(In(a)) /\ Cardinality(In(a)) <= Limit[k]
                         /\ Cardinality(In(a)) \in Nat
        BY OneWindow, FS_CardinalityType
    <2>3. \A r \in T :
              /\ window[r] \in 0..now /\ r \in Counted(k, c, window[r])
              /\ window[r] <= t + Window - 1 /\ t < window[r] + Window + Lag
        <3> SUFFICES ASSUME NEW r \in T
                     PROVE  /\ window[r] \in 0..now /\ r \in Counted(k, c, window[r])
                            /\ window[r] <= t + Window - 1
                            /\ t < window[r] + Window + Lag
            OBVIOUS
        <3>1. /\ r \in Requests /\ kind[r] = k /\ client[r] = c /\ admitted[r] # 0
              /\ admitted[r] \in t..(t + Window - 1)
            BY DEF Through
        <3>2. /\ window[r] \in 0..now /\ admitted[r] \in 0..now
              /\ window[r] <= admitted[r] /\ admitted[r] < window[r] + Window + Lag
            BY <3>1 DEF IInv, TypeOK, CountedInTime
        <3> QED
            BY <2>1, <3>1, <3>2 DEF Counted
    <2>4. ASSUME NEW r \in T, NEW a \in Int, a <= window[r], window[r] < a + Window
          PROVE  r \in In(a)
        BY <2>3, <2>4
    <2>5. T \subseteq In(b) \cup In(t) \/ (Lag > 1 /\ T \subseteq In(b - Window) \cup (In(b) \cup In(t)))
        <3> HIDE DEF In, T
        <3>1. ASSUME NEW r \in T
              PROVE  /\ r \in In(b) \cup In(t) \cup In(b - Window)
                     /\ Lag <= 1 => r \in In(b) \cup In(t)
            <4>1. window[r] \in Int /\ window[r] < t + Window
                  /\ t < window[r] + Window + Lag
                BY <2>1, <2>3
            <4>2. \/ t <= window[r] \/ (b <= window[r] /\ window[r] < t)
                  \/ (window[r] < b /\ b - Window <= window[r] /\ Lag > 1)
                BY <2>1, <4>1
            <4> QED
                BY <2>1, <2>4, <4>1, <4>2
        <3> QED
            BY <2>1, <3>1
    <2>6. IsFiniteSet(T) /\ Cardinality(T) \in Nat
        BY CountsAreFinite, FS_CardinalityType
    <2> HIDE DEF In, T
    <2> DEFINE U == In(b) \cup In(t)
               V == In(b - Window) \cup U
    <2>7. /\ IsFiniteSet(U) /\ Cardinality(U) \in Nat
          /\ Cardinality(U) <= Cardinality(In(b)) + Cardinality(In(t))
        BY <2>1, <2>2, UnionBound
    <2> HIDE DEF U
    <2>8. /\ IsFiniteSet(V) /\ Cardinality(V) \in Nat
          /\ Cardinality(V) <= Cardinality(In(b - Window)) + Cardinality(U)
        <3>1. IsFiniteSet(In(b - Window))
            BY <2>1, <2>2
        <3> QED
            BY <2>7, <3>1, UnionBound
    <2>9. \/ T \subseteq U
          \/ Lag > 1 /\ T \subseteq V
        BY <2>5 DEF U
    <2> HIDE DEF V
    <2>10. /\ Cardinality(U) <= 2 * Limit[k]
           /\ Cardinality(V) <= 3 * Limit[k]
        BY <2>1, <2>2, <2>7, <2>8
    <2>11. \/ Cardinality(T) <= Cardinality(U)
           \/ Lag > 1 /\ Cardinality(T) <= Cardinality(V)
        BY <2>7, <2>8, <2>9, FS_Subset
    <2>12. Cardinality(T) <= Windows * Limit[k]
        BY <2>1, <2>6, <2>7, <2>8, <2>10, <2>11 DEF Windows
    <2> QED
        BY <2>12 DEF T
<1> QED
    BY <1>1, InvariantHolds, PTL

-----------------------------------------------------------------------------
(* Refusals *)

\* A refusal for asking too often is always due to the same client's requests to
\* the same endpoint, as many as the limit and all of them recent.
THEOREM QuotaIsTheirOwn == Spec => QuotaIsOwn
<1> DEFINE Recent(r) == Through(kind[r], client[r], (now - Window - Lag + 1)..now)
<1>1. ASSUME IInv, [Next]_vars, NEW r \in Requests,
             reply'[r] = "tooMany", reply[r] = "none"
      PROVE  Cardinality(Recent(r)) >= Limit[kind[r]]
    <2> DEFINE e == entry[Entry(r)]
    <2>1. TooMany(r)
        BY <1>1
        DEF Next, Serve, Tick, TooLarge, ReadClock, OpenWindow, CountIn, Count,
            TooMany, Acquire, Busy, CheckKey, Create, Release, Handle, Answer,
            Goto, vars, IInv, TypeOK
    <2>2. /\ kind[r] \in Kinds /\ client[r] \in Clients
          /\ e.count >= Limit[kind[r]] /\ stamp[r] - e.started < Window
          /\ stamp[r] \in 0..now /\ now - stamp[r] <= Lag /\ e.started \in 0..now
        <3>1. /\ kind[r] \in Kinds /\ client[r] \in Clients
              /\ stamp[r] \in 0..now /\ now - stamp[r] <= Lag
            BY <1>1, <2>1 DEF TooMany, IInv, TypeOK, Undecided
        <3>2. e.started \in 0..now /\ now \in Int /\ Window \in Int
            BY <1>1, <3>1, WindowPositive DEF Entry, IInv, TypeOK
        <3>3. ~Fresh(r) /\ e.count >= Limit[kind[r]]
            BY <2>1 DEF TooMany
        <3> QED
            BY <3>1, <3>2, <3>3 DEF Fresh
    <2>3. e.count = Cardinality(Counted(kind[r], client[r], e.started))
        BY <1>1, <2>2 DEF IInv, EntriesAreTrue, Entry
    <2>4. Counted(kind[r], client[r], e.started) \subseteq Recent(r)
        <3> SUFFICES ASSUME NEW q \in Counted(kind[r], client[r], e.started)
                     PROVE  q \in Recent(r)
            OBVIOUS
        <3>1. /\ q \in Requests /\ kind[q] = kind[r] /\ client[q] = client[r]
              /\ admitted[q] # 0 /\ window[q] = e.started
            BY DEF Counted
        <3>2. /\ admitted[q] \in 0..now /\ e.started <= admitted[q]
              /\ now \in Int /\ Window \in Nat /\ Lag \in Nat
            BY <1>1, <3>1, WindowPositive, LagIsShort
            DEF IInv, TypeOK, CountedInTime
        <3> QED
            BY <2>2, <3>1, <3>2 DEF Through
    <2>5. /\ IsFiniteSet(Recent(r))
          /\ Cardinality(Counted(kind[r], client[r], e.started)) <= Cardinality(Recent(r))
        BY <2>4, CountsAreFinite, FS_Subset
    <2>6. /\ Cardinality(Counted(kind[r], client[r], e.started)) \in Nat
          /\ Cardinality(Recent(r)) \in Nat /\ Limit[kind[r]] \in Nat
        BY <2>2, CountsAreFinite, FS_CardinalityType, LimitPositive
    <2> QED
        BY <2>2, <2>3, <2>5, <2>6
<1>2. IInv /\ [Next]_vars =>
          [\A r \in Requests : reply'[r] = "tooMany" /\ reply[r] = "none" =>
               Cardinality(Recent(r)) >= Limit[kind[r]]]_vars
    BY <1>1
<1> QED
    BY <1>2, InvariantHolds, PTL DEF Spec, QuotaIsOwn

\* A creation is refused as busy only while as many others as there are slots
\* hold one.
THEOREM BusyIsHonest == Spec => BusyIsTrue
<1>1. ASSUME IInv, [Next]_vars, NEW r \in Requests,
             reply'[r] = "busy", reply[r] = "none"
      PROVE  Cardinality(Holding) = Slots
    <2>1. Busy(r)
        BY <1>1
        DEF Next, Serve, Tick, TooLarge, ReadClock, OpenWindow, CountIn, Count,
            TooMany, Acquire, Busy, CheckKey, Create, Release, Handle, Answer,
            Goto, vars, IInv, TypeOK
    <2> QED
        BY <1>1, <2>1 DEF Busy, IInv, SlotsAccounted
<1>2. IInv /\ [Next]_vars =>
          [\A r \in Requests : reply'[r] = "busy" /\ reply[r] = "none" =>
               Cardinality(Holding) = Slots]_vars
    BY <1>1
<1> QED
    BY <1>2, InvariantHolds, PTL DEF Spec, BusyIsTrue

-----------------------------------------------------------------------------
(* 2. Access *)

HIDE DEF Kinds

LEMMA AccessInitInv == AccessInit => AccessInv
BY DEF AccessInit, AccessInv, AccessTypeOK, Undone, DisabledIsDead, LateIsRefused, DeadCodeRefused

LEMMA DisableKeepsInv ==
    ASSUME AccessInv, NEW d \in Admins,
           Disable(d) \/ \E x \in Rooms : AskDisable(d, x)
    PROVE  AccessInv'
<1> USE NoneIsNoRoom
    DEF AccessInv, AccessTypeOK, Undone, DisabledIsDead, LateIsRefused,
        DeadCodeRefused, nbVars, guestVars, After
<1>1. ASSUME NEW x \in Rooms, AskDisable(d, x) PROVE AccessInv'
    BY <1>1 DEF AskDisable
<1>2. CASE ReadForDisable(d)
    BY <1>2 DEF ReadForDisable
<1>3. CASE RevokeSetupKey(d)
    BY <1>3 DEF RevokeSetupKey
<1>4. CASE DeletePolicy(d)
    BY <1>4 DEF DeletePolicy
<1>5. CASE StoreDisable(d)
    BY <1>5 DEF StoreDisable
<1>6. CASE DisableFails(d)
    BY <1>6 DEF DisableFails
<1> QED
    BY <1>1, <1>2, <1>3, <1>4, <1>5, <1>6 DEF Disable

LEMMA GuestsKeepInv ==
    ASSUME AccessInv, NEW g \in Guests,
           \/ \E x \in Rooms, call \in {"join", "peers"} : Ask(g, x, call)
           \/ Join(g) \/ Peers(g) \/ ListPeers(g) \/ Refuse(g) \/ Enrol(g)
    PROVE  AccessInv'
<1> USE NoneIsNoRoom
    DEF AccessInv, AccessTypeOK, Undone, DisabledIsDead, LateIsRefused,
        DeadCodeRefused, nbVars, adminVars
<1>1. ASSUME NEW x \in Rooms, NEW call \in {"join", "peers"}, Ask(g, x, call)
      PROVE  AccessInv'
    BY <1>1 DEF Ask, ToldDisabled
<1>2. CASE Join(g)
    BY <1>2 DEF Join
<1>3. CASE Peers(g)
    BY <1>3 DEF Peers
<1>4. CASE ListPeers(g)
    BY <1>4 DEF ListPeers
<1>5. CASE Refuse(g)
    BY <1>5 DEF Refuse
<1>6. CASE Enrol(g)
    BY <1>6 DEF Enrol
<1> QED
    BY <1>1, <1>2, <1>3, <1>4, <1>5, <1>6

LEMMA AccessNextKeepsInv == AccessInv /\ [AccessNext]_accessVars => AccessInv'
<1>1. AccessInv /\ AccessNext => AccessInv'
    BY DisableKeepsInv, GuestsKeepInv DEF AccessNext
<1>2. AccessInv /\ UNCHANGED accessVars => AccessInv'
    BY DEF accessVars, nbVars, adminVars, guestVars, AccessInv, AccessTypeOK, Undone,
           DisabledIsDead, LateIsRefused, DeadCodeRefused
<1> QED
    BY <1>1, <1>2

LEMMA AccessInvHolds == AccessSpec => []AccessInv
BY AccessInitInv, AccessNextKeepsInv, PTL DEF AccessSpec

\* Every reachable state of the rooms and their guests is well typed: a Disable
\* leaves a room in one of the states the store knows.
THEOREM AccessTypeCorrect == AccessSpec => []AccessTypeOK
<1>1. AccessInv => AccessTypeOK
    BY DEF AccessInv
<1> QED
    BY <1>1, AccessInvHolds, PTL

\* The row says "disabled" only of rooms whose key and policy are gone,
\* whatever failed on the way and however many Disable requests there were.
THEOREM DisabledRoomsAreDead == AccessSpec => []DisabledIsDead
<1>1. AccessInv => DisabledIsDead
    BY DEF AccessInv
<1> QED
    BY <1>1, AccessInvHolds, PTL

\* Join and Peers refuse the code of a room that was reported disabled.
THEOREM DeadCodesAreRefused == AccessSpec => []DeadCodeRefused
<1>1. AccessInv => DeadCodeRefused
    BY DEF AccessInv
<1> QED
    BY <1>1, AccessInvHolds, PTL

\* No client enrols in a room that was reported disabled.
THEOREM NoEntry == AccessSpec => NoEntryAfterDisable
<1> DEFINE Entered == \A g \in Guests :
                          g \in enrolled' \ enrolled => ~ToldDisabled(asks[g])
<1>1. AccessInv /\ [AccessNext]_accessVars => [Entered]_accessVars
    <2> SUFFICES ASSUME AccessInv, AccessNext, NEW g \in Guests, g \in enrolled' \ enrolled
                 PROVE  ~ToldDisabled(asks[g])
        OBVIOUS
    <2>1. Enrol(g)
        BY DEF AccessNext, AskDisable, Disable, ReadForDisable, RevokeSetupKey,
               DeletePolicy, StoreDisable, DisableFails, Ask, Join, Peers,
               ListPeers, Refuse, Enrol, guestVars
    <2>2. ASSUME ToldDisabled(asks[g]) PROVE FALSE
        BY <2>1, <2>2 DEF Enrol, ToldDisabled, AccessInv, Undone, DisabledIsDead
    <2> QED
        BY <2>2
<1> QED
    BY <1>1, AccessInvHolds, PTL DEF AccessSpec, NoEntryAfterDisable
=============================================================================
