---------------------------- MODULE ServiceRepair ----------------------------
(***************************************************************************)
(* The NetBird service as the application sees it: platform.               *)
(* ServiceInspector, the controller's refreshService and RepairService,    *)
(* and the elevated helper that runs the MSI.                              *)
(*                                                                         *)
(* An inspection looks the service up and then, if it runs, asks the       *)
(* daemon for its version; the service may change in between.  A repair    *)
(* asks for elevation and returns: the helper is a process of its own      *)
(* whose end nobody in the application waits for.                          *)
(*                                                                         *)
(* Of the application's snapshot this module has the flag RepairRequired,  *)
(* which nothing else writes.  The error beside it and the busy mark are   *)
(* also written by every command; they are in module Controller.           *)
(*                                                                         *)
(* The service and msiexec are external.                                   *)
(***************************************************************************)
CONSTANTS
    Repairs,    \* calls of RepairService, and their helpers
    Versions,
    Expected,
    None,       \* no version
    Faults      \* a subset of {"scm", "rpc", "others"}

ASSUME VersionsKnown == Expected \in Versions /\ None \notin Versions

VARIABLES
    service,    \* [state, files, process]: what is installed and what runs
    probe,      \* whether the daemon could be dialled when this process began
    required,   \* the controller: Service.RepairRequired
    pc,
    verdict,    \* what each inspection made of the service
    helper,     \* the helper of each repair
    seen,       \* the inspections during which the service was ready
    moved,      \* the inspections during which it changed
    told        \* whether it is unchanged since the inspection that was stored last

appVars == <<required, pc, verdict>>
vars == <<service, probe, appVars, helper, seen, moved, told>>

Inspections == Repairs \cup {"startup"}
Healths == {"missing", "access_denied", "stopped", "unhealthy", "version_mismatch", "ready"}
Services ==
    [state : {"missing"}, files : {None}, process : {None}]
    \cup [state : {"stopped"}, files : Versions, process : {None}]
    \cup [state : {"running"}, files : Versions, process : Versions]
NoVerdict == "missing"

TypeOK ==
    /\ service \in Services
    /\ probe \in BOOLEAN
    /\ required \in BOOLEAN
    /\ pc \in [Inspections -> {"idle", "elevate", "lookup", "probe", "store"}]
    /\ verdict \in [Inspections -> Healths]
    /\ helper \in [Repairs -> {"none", "verify", "msi"}]
    /\ seen \subseteq Inspections /\ moved \subseteq Inspections
    /\ told \in BOOLEAN

IsReady(s) == s.state = "running" /\ s.process = Expected

\* NewWindowsController: without the daemon there is no probe, and no session.
Starts(s, dialled) ==
    /\ dialled => s.state = "running"
    /\ probe' = dialled
    /\ required' = ~dialled
    /\ pc' = [p \in Inspections |-> IF p = "startup" THEN "lookup" ELSE "idle"]
    /\ verdict' = [p \in Inspections |-> NoVerdict]
    /\ seen' = {p \in {"startup"} : IsReady(s)}
    /\ moved' = {} /\ told' = FALSE

Init ==
    /\ service \in Services
    /\ probe \in {d \in BOOLEAN : d => service.state = "running"}
    /\ required = ~probe
    /\ pc = [p \in Inspections |-> IF p = "startup" THEN "lookup" ELSE "idle"]
    /\ verdict = [p \in Inspections |-> NoVerdict]
    /\ helper = [r \in Repairs |-> "none"]
    /\ seen = {p \in {"startup"} : IsReady(service)}
    /\ moved = {} /\ told = FALSE

Goto(p, step) == pc' = [pc EXCEPT ![p] = step]

-----------------------------------------------------------------------------
(* ServiceInspector.Inspect *)

Concludes(p, health) ==
    /\ verdict' = [verdict EXCEPT ![p] = health]
    /\ Goto(p, "store")

\* The service manager, and the registry for the version of the product, which
\* has none when another product is installed.
Lookup(p) ==
    /\ pc[p] = "lookup"
    /\ \/ service.state = "missing" /\ Concludes(p, "missing")
       \/ /\ "scm" \in Faults
          /\ \E h \in {"access_denied", "unhealthy"} : Concludes(p, h)
       \/ /\ service.state = "stopped"
          /\ \E v \in {service.files, None} :
               Concludes(p, IF v \notin {None, Expected} THEN "version_mismatch"
                            ELSE "stopped")
       \/ service.state = "running" /\ Goto(p, "probe") /\ UNCHANGED verdict
    /\ UNCHANGED <<service, probe, required, helper, seen, moved, told>>

\* Mutant: the version that is installed is taken for the one that runs.
HealthByFiles(p) ==
    IF service.files = Expected \/ service.process = Expected
    THEN "ready" ELSE "version_mismatch"

Health(p) == IF service.process = Expected THEN "ready" ELSE "version_mismatch"

Probe(p) ==
    /\ pc[p] = "probe"
    /\ \/ /\ probe /\ service.state = "running"
          /\ Concludes(p, Health(p))
       \/ /\ ~probe \/ service.state # "running" \/ "rpc" \in Faults
          /\ Concludes(p, "unhealthy")
    /\ UNCHANGED <<service, probe, required, helper, seen, moved, told>>

-----------------------------------------------------------------------------
(* Controller.refreshService *)

Store(p) ==
    /\ pc[p] = "store"
    /\ required' = (verdict[p] # "ready")
    /\ told' = (p \notin moved)
    /\ verdict' = [verdict EXCEPT ![p] = NoVerdict]
    /\ seen' = seen \ {p} /\ moved' = moved \ {p}
    /\ Goto(p, "idle")
    /\ UNCHANGED <<service, probe, helper>>

-----------------------------------------------------------------------------
(* Controller.RepairService: repairs are not kept apart *)

Repair(r) ==
    /\ pc[r] = "idle" /\ helper[r] = "none"
    /\ Goto(r, "elevate")
    /\ UNCHANGED <<service, probe, required, verdict, helper, seen, moved, told>>

\* The path of the helper is not found, or the user declines.
ElevationFails(r) ==
    /\ pc[r] = "elevate"
    /\ required' = TRUE
    /\ Goto(r, "idle")
    /\ UNCHANGED <<service, probe, verdict, helper, seen, moved, told>>

\* Mutant: a repair that was requested is taken for one that is done.
ElevatedIsDone(r) ==
    /\ pc[r] = "elevate"
    /\ helper' = [helper EXCEPT ![r] = "verify"]
    /\ required' = FALSE
    /\ Goto(r, "idle")
    /\ UNCHANGED <<service, probe, verdict, seen, moved, told>>

\* ShellExecute returns once the helper was started; the service is inspected.
Elevated(r) ==
    /\ pc[r] = "elevate"
    /\ helper' = [helper EXCEPT ![r] = "verify"]
    /\ required' = FALSE
    /\ seen' = seen \cup {p \in {r} : IsReady(service)}
    /\ Goto(r, "lookup")
    /\ UNCHANGED <<service, probe, verdict, moved, told>>

-----------------------------------------------------------------------------
(* The helper, and the service *)

Inspecting == {p \in Inspections : pc[p] \in {"lookup", "probe", "store"}}

Becomes(s) ==
    /\ s \in Services \ {service}
    /\ service' = s
    /\ moved' = Inspecting \cup moved
    /\ seen' = IF IsReady(s) THEN Inspecting \cup seen ELSE seen
    /\ told' = FALSE

\* Its arguments and the artifact are checked first; one msiexec runs at a time.
Verify(r) ==
    /\ helper[r] = "verify"
    /\ \/ helper' = [helper EXCEPT ![r] = "msi"] /\ \A q \in Repairs : helper[q] # "msi"
       \/ helper' = [helper EXCEPT ![r] = "none"]
    /\ UNCHANGED <<service, probe, appVars, seen, moved, told>>

MsiStopsService(r) ==
    /\ helper[r] = "msi" /\ service.state = "running"
    /\ Becomes([service EXCEPT !.state = "stopped", !.process = None])
    /\ UNCHANGED <<probe, appVars, helper>>

\* The service is started, left stopped, or still the one from before, whose
\* files are replaced when the machine restarts; or the MSI fails.
MsiEnds(r) ==
    /\ helper[r] = "msi"
    /\ helper' = [helper EXCEPT ![r] = "none"]
    /\ \/ /\ service.state # "running"
          /\ \E p \in {None, Expected} :
               Becomes([state |-> IF p = None THEN "stopped" ELSE "running",
                        files |-> Expected, process |-> p])
       \/ service.state = "running" /\ Becomes([service EXCEPT !.files = Expected])
       \/ UNCHANGED <<service, seen, moved, told>>
    /\ UNCHANGED <<probe, appVars>>

\* The user, Windows and other installers.
OthersChange ==
    /\ "others" \in Faults
    /\ \/ service.state = "stopped" /\
          Becomes([service EXCEPT !.state = "running", !.process = service.files])
       \/ service.state = "running" /\
          Becomes([service EXCEPT !.state = "stopped", !.process = None])
       \/ service.state = "stopped" /\ \E v \in Versions : Becomes([service EXCEPT !.files = v])
       \/ Becomes([state |-> "missing", files |-> None, process |-> None])
    /\ UNCHANGED <<probe, appVars, helper>>

\* The application is closed, or killed, and started again; helpers run on.
Restart ==
    /\ \E dialled \in BOOLEAN : Starts(service, dialled)
    /\ UNCHANGED <<service, helper>>

Next ==
    \/ \E p \in Inspections : Lookup(p) \/ Probe(p) \/ Store(p)
    \/ \E r \in Repairs : Repair(r) \/ ElevationFails(r) \/ Elevated(r)
                           \/ Verify(r) \/ MsiStopsService(r) \/ MsiEnds(r)
    \/ OthersChange \/ Restart

Spec == Init /\ [][Next]_vars

-----------------------------------------------------------------------------
(* Properties *)

\* "ready" is said of a service that ran, in the expected version, at some time
\* while it was inspected; what is installed is not what runs.
ReadyWasTrue ==
    \A p \in Inspections : pc[p] = "store" /\ verdict[p] = "ready" => p \in seen

Quiet == \A p \in Inspections : pc[p] = "idle"

\* With no call under way, and a service that has not changed since it was
\* inspected, the flag does not hide that a repair is needed: whatever repairs
\* were asked for, and in whatever order their inspections and the one of the
\* start-up ended.
NeedIsShown == Quiet /\ told /\ ~required => probe /\ IsReady(service)

-----------------------------------------------------------------------------
(* Why the two hold *)

\* Whoever inspects a service that is ready has it among what it saw, and whoever
\* found it ready and unchanged finds it so still.
VerdictsHold ==
    \A p \in Inspecting :
        /\ IsReady(service) => p \in seen
        /\ pc[p] = "store" /\ verdict[p] = "ready" /\ p \notin moved
               => probe /\ IsReady(service)

\* A repair hides the need only until it has inspected the service.
NeedIsPending ==
    told /\ ~required => (probe /\ IsReady(service)) \/ Inspecting # {}

IInv == TypeOK /\ VerdictsHold /\ ReadyWasTrue /\ NeedIsPending
=============================================================================
