---------------------------- MODULE RoomViewProofs ----------------------------
(***************************************************************************)
(* The list on display is the room's own unless it is marked stale, for    *)
(* any number of rooms, of retries and of views of diagnostics that share  *)
(* the refresher.                                                          *)
(*                                                                         *)
(* The argument.  The refresher's state is of no use: any view may have    *)
(* replaced it.  What a view of the user shows is the copy it was given    *)
(* under the refresher's lock, and that is its own answer or stale         *)
(* (GotTheirs).  The answer is for the room the view found, because no     *)
(* command ends before its view does (AsksForTheirs).                      *)
(***************************************************************************)
EXTENDS RoomView, TLAPS

LEMMA InitInv == Init => IInv
BY BoundsAreNat, NoneIsNoRoom
   DEF Init, IInv, TypeOK, AsksForTheirs, GotTheirs, RetriesLeft, FreshIsTheirs,
       Views, ViewSteps, Lists, NoList, NoCall, NoRoom, Nothing, Found

-----------------------------------------------------------------------------
(* A view, of the user or of diagnostics *)

LEMMA ReadKeepsInv ==
    ASSUME IInv, NEW v \in Views, ReadRoom(v) \/ ReadStatus(v) \/ LoadCode(v)
    PROVE  IInv'
<1> USE BoundsAreNat
    DEF IInv, TypeOK, AsksForTheirs, GotTheirs, RetriesLeft, FreshIsTheirs,
        Views, ViewSteps, Found, NoCall, NoRoom, At, Goto, Over
<1>1. CASE ReadRoom(v)
    BY <1>1 DEF ReadRoom
<1>2. CASE ReadStatus(v)
    BY <1>2 DEF ReadStatus
<1>3. CASE LoadCode(v)
    BY <1>3 DEF LoadCode
<1> QED
    BY <1>1, <1>2, <1>3

LEMMA PeersKeepsInv ==
    ASSUME IInv, NEW v \in Views, Peers(v)
    PROVE  IInv'
<1> USE BoundsAreNat
    DEF IInv, TypeOK, AsksForTheirs, GotTheirs, RetriesLeft, FreshIsTheirs,
        Views, ViewSteps, Found, Peers, At, Goto
<1>1. CASE Answered(v)
    BY <1>1 DEF Answered
<1>2. CASE GivesUp(v)
    BY <1>2 DEF GivesUp
<1>3. CASE Retry(v)
    BY <1>3 DEF Retry
<1>4. CASE Wake(v)
    BY <1>4 DEF Wake
<1> QED
    BY <1>1, <1>2, <1>3, <1>4

\* The refresher's state is replaced, and only a view of the user gets a copy.
LEMMA RefreshKeepsInv ==
    ASSUME IInv, NEW v \in Views, Store(v) \/ MarkStale(v)
    PROVE  IInv'
<1>1. /\ list' \in Lists
      /\ Store(v) => list' = [room |-> mine[v].asked, version |-> mine[v].answer,
                              stale |-> FALSE]
      /\ MarkStale(v) => list'.stale
    <2>1. CASE Store(v)
        <3>1. /\ mine[v].asked \in Rooms \cup {None}
              /\ mine[v].answer \in 0..MaxVersion
            BY DEF IInv, TypeOK
        <3>2. list' = [room |-> mine[v].asked, version |-> mine[v].answer,
                       stale |-> FALSE]
            BY <2>1 DEF Store
        <3>3. ~MarkStale(v)
            BY <2>1 DEF Store, MarkStale, At
        <3> QED
            BY <3>1, <3>2, <3>3 DEF Lists
    <2>2. CASE MarkStale(v)
        <3>1. list' = [list EXCEPT !.stale = TRUE] /\ list \in Lists
            BY <2>2 DEF MarkStale, IInv, TypeOK
        <3>2. list' \in Lists /\ list'.stale = TRUE
            BY <3>1 DEF Lists
        <3>3. ~Store(v)
            BY <2>2 DEF Store, MarkStale, At
        <3> QED
            BY <3>2, <3>3
    <2> QED
        BY <2>1, <2>2
<1>2. UNCHANGED <<version, saved, command, seen, shown>>
    BY DEF Store, MarkStale
<1>3. CASE v = User
    <2>1. /\ got' = list' /\ UNCHANGED mine
          /\ pc' = [pc EXCEPT ![User] = "show"]
        BY <1>3 DEF Store, MarkStale, Copied, Goto
    <2>2. GotTheirs'
        <3>1. CASE Store(User)
            BY <1>1, <1>2, <1>3, <2>1, <3>1
            DEF Store, At, GotTheirs, IInv, AsksForTheirs
        <3>2. CASE MarkStale(User)
            BY <1>1, <1>3, <2>1, <3>2 DEF GotTheirs
        <3> QED
            BY <1>3, <3>1, <3>2
    <2>3. At(User, "store") \/ At(User, "failed")
        BY <1>3 DEF Store, MarkStale
    <2> QED
        BY <1>1, <1>2, <1>3, <2>1, <2>2, <2>3
        DEF IInv, TypeOK, AsksForTheirs, RetriesLeft, FreshIsTheirs, At, Views,
            ViewSteps
<1>4. CASE v # User
    <2>1. /\ pc' = [pc EXCEPT ![v] = "idle"]
          /\ mine' = [mine EXCEPT ![v] = NoCall]
          /\ UNCHANGED got
        BY <1>4 DEF Store, MarkStale, Copied, Over, Goto
    <2>2. NoCall \in [asked : Rooms \cup {None}, tries : 0..Retries,
                     answer : 0..MaxVersion]
        BY BoundsAreNat DEF NoCall
    <2> QED
        BY <1>1, <1>2, <1>4, <2>1, <2>2
        DEF IInv, TypeOK, AsksForTheirs, GotTheirs, RetriesLeft, FreshIsTheirs,
            Views
<1> QED
    BY <1>3, <1>4

-----------------------------------------------------------------------------
(* The controller, the user and the Room API *)

LEMMA ControllerKeepsInv ==
    ASSUME IInv, Show \/ Finish \/ Execute
    PROVE  IInv'
<1> USE BoundsAreNat
    DEF IInv, TypeOK, AsksForTheirs, GotTheirs, RetriesLeft, FreshIsTheirs,
        Views, ViewSteps, Lists, Found, NoCall, NoRoom, NoList, Nothing, Over,
        At, Goto
<1>1. CASE Show
    BY <1>1 DEF Show, Showing
<1>2. CASE Finish
    BY <1>2 DEF Finish
<1>3. CASE Execute
    BY <1>3 DEF Execute, Done
<1> QED
    BY <1>1, <1>2, <1>3

LEMMA EnvironmentKeepsInv ==
    ASSUME IInv,
           \/ \E k \in {"enter", "leave", "switch", "stay"} : Click(k)
           \/ \E e \in Exports : Export(e)
           \/ ListChanges \/ UNCHANGED vars
    PROVE  IInv'
<1> USE BoundsAreNat
    DEF IInv, TypeOK, AsksForTheirs, GotTheirs, RetriesLeft, FreshIsTheirs,
        Views, ViewSteps, Found, At, Goto
<1>1. ASSUME NEW k \in {"enter", "leave", "switch", "stay"}, Click(k)
      PROVE  IInv'
    BY <1>1 DEF Click
<1>2. ASSUME NEW e \in Exports, Export(e)
      PROVE  IInv'
    BY <1>2, UserIsNoExport DEF Export
<1>3. CASE ListChanges
    BY <1>3 DEF ListChanges
<1>4. CASE UNCHANGED vars
    BY <1>4 DEF vars
<1> QED
    BY <1>1, <1>2, <1>3, <1>4

LEMMA NextKeepsInv == IInv /\ [Next]_vars => IInv'
BY ReadKeepsInv, PeersKeepsInv, RefreshKeepsInv, ControllerKeepsInv,
   EnvironmentKeepsInv
   DEF Next, UserStep, View, Views

-----------------------------------------------------------------------------
(* Theorems *)

\* The invariant behind the two below holds of every view, command and change.
THEOREM InvariantHolds == Spec => []IInv
BY InitInv, NextKeepsInv, PTL DEF Spec

\* The views keep to their types; the retries of Client.Peers, shared by no two
\* views, stay within its table of delays.
THEOREM TypeCorrect == Spec => []TypeOK
<1>1. IInv => TypeOK
    BY DEF IInv
<1> QED
    BY <1>1, InvariantHolds, PTL

\* PeerRefresher.Refresh and refreshRoomView: a list that is not marked stale
\* belongs to the room it is shown under and is no older than its view.
THEOREM FreshListsAreTheirs == Spec => []FreshIsTheirs
<1>1. IInv => FreshIsTheirs
    BY DEF IInv
<1> QED
    BY <1>1, InvariantHolds, PTL
=============================================================================
