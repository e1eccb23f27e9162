------------------------- MODULE ServiceRepairProofs -------------------------
(***************************************************************************)
(* What the application says of the service, for any number of repairs and *)
(* helpers, every set of versions and every order in which inspections     *)
(* end.                                                                    *)
(*                                                                         *)
(* The argument.  An inspection that concludes "ready" does so of the      *)
(* service as it is at that moment, and is told of every change from then  *)
(* on (VerdictsHold).  A repair that clears the flag owes an inspection,   *)
(* which stores the flag again (NeedIsPending).                            *)
(***************************************************************************)
EXTENDS ServiceRepair, TLAPS

LEMMA InitInv == Init => IInv
<1> SUFFICES ASSUME Init PROVE IInv
    OBVIOUS
<1> USE VersionsKnown DEF Init, NoVerdict, Healths
<1>1. TypeOK
    <2>1. required \in BOOLEAN
        OBVIOUS
    <2>2. service \in Services /\ probe \in BOOLEAN /\ told \in BOOLEAN
        OBVIOUS
    <2>3. /\ pc \in [Inspections -> {"idle", "elevate", "lookup", "probe", "store"}]
          /\ seen \subseteq Inspections /\ moved \subseteq Inspections
        BY DEF Inspections
    <2>4. /\ verdict \in [Inspections -> Healths]
          /\ helper \in [Repairs -> {"none", "verify", "msi"}]
        OBVIOUS
    <2> QED
        BY <2>1, <2>2, <2>3, <2>4, Zenon DEF TypeOK
<1>2. VerdictsHold
    BY DEF VerdictsHold, Inspecting
<1>3. ReadyWasTrue
    BY DEF ReadyWasTrue
<1>4. NeedIsPending
    BY DEF NeedIsPending
<1> QED
    BY <1>1, <1>2, <1>3, <1>4 DEF IInv

-----------------------------------------------------------------------------
(* An inspection *)

LEMMA ConclusionKeepsInv ==
    ASSUME IInv, NEW p \in Inspections, NEW h \in Healths,
           pc[p] \in {"lookup", "probe"}, Concludes(p, h),
           h = "ready" => probe /\ IsReady(service),
           UNCHANGED <<service, probe, required, helper, seen, moved, told>>
    PROVE  IInv'
<1>1. /\ pc' = [pc EXCEPT ![p] = "store"]
      /\ verdict' = [verdict EXCEPT ![p] = h]
    BY DEF Concludes, Goto
<1>2. Inspecting' = Inspecting /\ p \in Inspecting
    BY <1>1 DEF Inspecting, IInv, TypeOK
<1>3. TypeOK'
    BY <1>1 DEF IInv, TypeOK
<1>4. VerdictsHold'
    BY <1>1, <1>2 DEF IInv, TypeOK, VerdictsHold, IsReady
<1>5. ReadyWasTrue'
    BY <1>1, <1>2 DEF IInv, TypeOK, VerdictsHold, ReadyWasTrue
<1>6. NeedIsPending'
    BY <1>1, <1>2 DEF IInv, TypeOK, NeedIsPending, IsReady
<1> QED
    BY <1>3, <1>4, <1>5, <1>6 DEF IInv

LEMMA LookupKeepsInv ==
    ASSUME IInv, NEW p \in Inspections, Lookup(p)
    PROVE  IInv'
<1>1. CASE Goto(p, "probe") /\ UNCHANGED verdict
    <2>1. /\ pc' = [pc EXCEPT ![p] = "probe"] /\ pc[p] = "lookup"
          /\ UNCHANGED <<service, probe, required, helper, seen, moved, told, verdict>>
        BY <1>1 DEF Lookup, Goto
    <2>2. Inspecting' = Inspecting
        BY <2>1 DEF Inspecting, IInv, TypeOK
    <2> QED
        BY <2>1, <2>2
        DEF IInv, TypeOK, VerdictsHold, ReadyWasTrue, NeedIsPending, IsReady
<1>2. ASSUME NEW h \in Healths, Concludes(p, h), h # "ready"
      PROVE  IInv'
    BY <1>2, ConclusionKeepsInv DEF Lookup
<1> QED
    BY <1>1, <1>2 DEF Lookup, Healths

LEMMA ProbeKeepsInv ==
    ASSUME IInv, NEW p \in Inspections, Probe(p)
    PROVE  IInv'
<1>1. CASE probe /\ service.state = "running" /\ Concludes(p, Health(p))
    <2>1. Health(p) \in Healths /\ (Health(p) = "ready" => IsReady(service))
        BY <1>1 DEF Health, Healths, IsReady
    <2> QED
        BY <1>1, <2>1, ConclusionKeepsInv DEF Probe
<1>2. CASE Concludes(p, "unhealthy")
    BY <1>2, ConclusionKeepsInv DEF Probe, Healths
<1> QED
    BY <1>1, <1>2 DEF Probe

LEMMA StoreKeepsInv ==
    ASSUME IInv, NEW p \in Inspections, Store(p)
    PROVE  IInv'
<1>1. /\ pc[p] = "store" /\ pc' = [pc EXCEPT ![p] = "idle"]
      /\ verdict' = [verdict EXCEPT ![p] = NoVerdict]
      /\ seen' = seen \ {p} /\ moved' = moved \ {p}
      /\ told' = (p \notin moved)
      /\ UNCHANGED <<service, probe, helper>>
    BY DEF Store, Goto
<1>2. p \in Inspecting /\ Inspecting' = Inspecting \ {p}
    BY <1>1 DEF Inspecting, IInv, TypeOK
<1>3. required' \in BOOLEAN /\ (~required' => verdict[p] = "ready")
    BY DEF Store
<1>4. TypeOK'
    BY <1>1, <1>3 DEF IInv, TypeOK, NoVerdict, Healths
<1>5. VerdictsHold'
    BY <1>1, <1>2 DEF IInv, TypeOK, VerdictsHold, IsReady
<1>6. ReadyWasTrue'
    BY <1>1 DEF IInv, TypeOK, ReadyWasTrue, NoVerdict
<1>7. NeedIsPending'
    BY <1>1, <1>2, <1>3 DEF IInv, VerdictsHold, NeedIsPending, IsReady
<1> QED
    BY <1>4, <1>5, <1>6, <1>7 DEF IInv

-----------------------------------------------------------------------------
(* A repair, its helper, and the service *)

LEMMA RepairKeepsInv ==
    ASSUME IInv, NEW r \in Repairs, Repair(r) \/ ElevationFails(r) \/ Elevated(r)
    PROVE  IInv'
<1> USE DEF IInv, TypeOK, Inspections
<1>1. CASE Repair(r)
    <2>1. /\ pc[r] = "idle" /\ pc' = [pc EXCEPT ![r] = "elevate"]
          /\ UNCHANGED <<service, probe, required, verdict, helper, seen, moved, told>>
        BY <1>1 DEF Repair, Goto
    <2>2. Inspecting' = Inspecting
        BY <2>1 DEF Inspecting
    <2>3. TypeOK'
        BY <2>1
    <2>4. NeedIsPending'
        BY <2>1, <2>2 DEF NeedIsPending, IsReady
    <2> QED
        BY <2>1, <2>2, <2>3, <2>4 DEF VerdictsHold, ReadyWasTrue, IsReady
<1>2. CASE ElevationFails(r)
    <2>1. /\ pc[r] = "elevate" /\ pc' = [pc EXCEPT ![r] = "idle"]
          /\ required' = TRUE
          /\ UNCHANGED <<service, probe, verdict, helper, seen, moved, told>>
        BY <1>2 DEF ElevationFails, Goto
    <2>2. Inspecting' = Inspecting
        BY <2>1 DEF Inspecting
    <2> QED
        BY <2>1, <2>2 DEF VerdictsHold, ReadyWasTrue, NeedIsPending, IsReady
<1>3. CASE Elevated(r)
    <2>1. /\ pc[r] = "elevate" /\ pc' = [pc EXCEPT ![r] = "lookup"]
          /\ required' = FALSE
          /\ helper' = [helper EXCEPT ![r] = "verify"]
          /\ seen' = seen \cup {p \in {r} : IsReady(service)}
          /\ UNCHANGED <<service, probe, verdict, moved, told>>
        BY <1>3 DEF Elevated, Goto
    <2>2. Inspecting' = Inspecting \cup {r}
        BY <2>1 DEF Inspecting
    <2>3. TypeOK'
        BY <2>1
    <2> QED
        BY <2>1, <2>2, <2>3 DEF VerdictsHold, ReadyWasTrue, NeedIsPending, IsReady
<1> QED
    BY <1>1, <1>2, <1>3

\* A change of the service is noted by every inspection under way.
LEMMA ChangeKeepsInv ==
    ASSUME IInv, NEW s, Becomes(s), UNCHANGED <<probe, appVars>>,
           helper' \in [Repairs -> {"none", "verify", "msi"}]
    PROVE  IInv'
<1>1. /\ service' \in Services /\ told' = FALSE
      /\ moved' = Inspecting \cup moved
      /\ seen' = IF IsReady(s) THEN Inspecting \cup seen ELSE seen
      /\ service' = s
      /\ UNCHANGED <<probe, required, pc, verdict>>
    BY DEF Becomes, appVars
<1>2. Inspecting' = Inspecting /\ Inspecting \subseteq Inspections
    BY <1>1 DEF Inspecting
<1> QED
    BY <1>1, <1>2
    DEF IInv, TypeOK, VerdictsHold, ReadyWasTrue, NeedIsPending, Inspecting

LEMMA HelperKeepsInv ==
    ASSUME IInv, NEW r \in Repairs, Verify(r) \/ MsiStopsService(r) \/ MsiEnds(r)
    PROVE  IInv'
<1>1. helper' \in [Repairs -> {"none", "verify", "msi"}]
    BY DEF IInv, TypeOK, Verify, MsiStopsService, MsiEnds
<1>2. ASSUME UNCHANGED <<service, probe, appVars, seen, moved, told>>
      PROVE  IInv'
    BY <1>1, <1>2 DEF appVars, IInv, TypeOK, VerdictsHold, ReadyWasTrue,
                      NeedIsPending, Inspecting, IsReady
<1>3. ASSUME NEW s, Becomes(s), UNCHANGED <<probe, appVars>>
      PROVE  IInv'
    BY <1>1, <1>3, ChangeKeepsInv
<1> QED
    BY <1>2, <1>3 DEF Verify, MsiStopsService, MsiEnds

LEMMA OthersKeepInv ==
    ASSUME IInv, OthersChange
    PROVE  IInv'
<1>1. ASSUME NEW s, Becomes(s)
      PROVE  IInv'
    BY <1>1, ChangeKeepsInv DEF OthersChange, IInv, TypeOK
<1> QED
    BY <1>1 DEF OthersChange

LEMMA RestartKeepsInv ==
    ASSUME IInv, Restart
    PROVE  IInv'
<1> PICK d \in BOOLEAN : Starts(service, d)
    BY DEF Restart
<1> USE DEF Starts, Restart, NoVerdict, Healths
<1>1. TypeOK'
    <2>1. required' \in BOOLEAN
        OBVIOUS
    <2>2. service' \in Services /\ probe' \in BOOLEAN /\ told' \in BOOLEAN
        BY DEF IInv, TypeOK
    <2>3. /\ pc' \in [Inspections -> {"idle", "elevate", "lookup", "probe", "store"}]
          /\ seen' \subseteq Inspections /\ moved' \subseteq Inspections
        BY DEF Inspections
    <2>4. /\ verdict' \in [Inspections -> Healths]
          /\ helper' \in [Repairs -> {"none", "verify", "msi"}]
        BY DEF IInv, TypeOK
    <2> QED
        BY <2>1, <2>2, <2>3, <2>4, Zenon DEF TypeOK
<1>2. VerdictsHold'
    BY DEF VerdictsHold, Inspecting, IsReady
<1>3. ReadyWasTrue'
    BY DEF ReadyWasTrue
<1>4. NeedIsPending'
    BY DEF NeedIsPending
<1> QED
    BY <1>1, <1>2, <1>3, <1>4 DEF IInv

LEMMA NextKeepsInv == IInv /\ [Next]_vars => IInv'
<1>1. IInv /\ UNCHANGED vars => IInv'
    BY DEF vars, appVars, IInv, TypeOK, VerdictsHold, ReadyWasTrue,
           NeedIsPending, Inspecting, IsReady
<1> QED
    BY <1>1, LookupKeepsInv, ProbeKeepsInv, StoreKeepsInv, RepairKeepsInv,
       HelperKeepsInv, OthersKeepInv, RestartKeepsInv
    DEF Next

-----------------------------------------------------------------------------
(* Theorems *)

\* The invariant behind the two below holds whatever repairs are asked for,
\* whatever others do to the service, and however often the application starts.
THEOREM InvariantHolds == Spec => []IInv
BY InitInv, NextKeepsInv, PTL DEF Spec

\* ServiceInspector.Inspect says "ready" of a service that was ready while it
\* looked, although it looks twice and the service changes in between.
THEOREM ReadyWasSeen == Spec => []ReadyWasTrue
<1>1. IInv => ReadyWasTrue
    BY DEF IInv
<1> QED
    BY <1>1, InvariantHolds, PTL

\* refreshService and RepairService together: when nothing is under way, the flag
\* RepairRequired does not hide the need for repair of a service that has not
\* changed since it was inspected.
THEOREM NeedsAreShown == Spec => []NeedIsShown
<1>1. IInv => NeedIsShown
    BY DEF Quiet, Inspecting, IInv, NeedIsPending, NeedIsShown
<1> QED
    BY <1>1, InvariantHolds, PTL
=============================================================================
