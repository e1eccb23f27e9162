---------------------------- MODULE DaemonAdapter ----------------------------
(***************************************************************************)
(* The calls through which the session uses the NetBird daemon:            *)
(* VersionedAdapter around RPCAdapter around ManagedProfileStore.          *)
(*                                                                         *)
(* A call is a sequence of requests.  The daemon is shared: between two    *)
(* requests, and between a request and its answer, the user may switch     *)
(* or remove profiles with another program, and an installer may replace   *)
(* the daemon by one of another version.  The session makes its calls one  *)
(* after the other (module Session, the busy flag).                        *)
(*                                                                         *)
(* The daemon is external; what it does is what docs/netbird-v0.74.7-      *)
(* contract.md confirms of it.  It runs at most one engine, that of the    *)
(* active profile, and does not remove the active profile.                 *)
(***************************************************************************)
EXTENDS Integers, FiniteSets, DaemonMessages

CONSTANTS
    NewIDs,         \* ids the daemon may give to profiles it adds
    UserIDs,        \* profiles of the user; "default" is one
    ManagedName, OtherName,
    Username,
    Expected,       \* the version the client was built for
    StatusBodies,   \* what the daemon may know of its connections
    Faults          \* a subset of {"lost", "user", "replaced"}

ASSUME IdsAreApart == NewIDs \cap UserIDs = {} /\ "default" \in UserIDs
ASSUME IdsAreKnown == ProfileIDs = NewIDs \cup UserIDs \cup {""}
ASSUME ConstantsKnown ==
    /\ ProfileNames = {ManagedName, OtherName} /\ ManagedName # OtherName
    /\ Username \in Usernames /\ Expected \in DaemonVersions
    /\ Nil \notin ProfileIDs \cup ProfileNames
    /\ StatusBodies \subseteq Optional(FullStatus)

\* What the client is handed: ok with a message, or an error with none.
Answers ==
    [ok : BOOLEAN,
     body : Optional(StatusResponse \cup ListProfilesResponse \cup AddProfileResponse \cup {<<>>})]

ASSUME NilIsNoAnswer == Nil \notin Answers

VARIABLES
    version,     \* daemon: its version
    name,        \* daemon: the name of each profile, Nil if there is none
    active,      \* daemon: the selected profile
    up,          \* daemon: whether its engine runs
    enrolled,    \* daemon: the profiles with an identity
    minted,      \* daemon: the ids given out
    op, rpc,     \* the call under way and its next request
    wire,        \* the request on its way
    answer,      \* the daemon's answer, or "error"
    owned,       \* session: the profile it created
    enrolling,   \* session: whether that profile is still to be enrolled
    result,      \* how the last call ended
    since        \* what others changed since the call looked at it

daemonVars == <<version, name, active, up, enrolled, minted>>
callVars   == <<op, rpc, wire, answer>>
clientVars == <<owned, enrolling, result>>
vars == <<daemonVars, callVars, clientVars, since>>

Ops == {"version", "status", "create", "select", "enroll", "connect",
        "disconnect", "deregister", "remove"}
RPCs == {"Version", "Status", "ListProfiles", "AddProfile", "SwitchProfile",
         "SwitchDefault", "GetActiveProfile", "RemoveProfile", "Login", "Up",
         "Down", "Logout"}
Changing == RPCs \ {"Version", "Status", "ListProfiles", "GetActiveProfile"}

Existing == {i \in NewIDs \cup UserIDs : name[i] # Nil}
Answered == answer # Nil /\ answer.ok
Error    == [ok |-> FALSE, body |-> Nil]
NoResult == [op |-> "none", ok |-> FALSE, snapshot |-> EmptySnapshot, told |-> Nil]

\* What is on its way, by the request.
RequestsOf(r) ==
    CASE r \in {"Version", "Status"} -> StatusRequest
      [] r = "ListProfiles"          -> ListProfilesRequest
      [] r = "AddProfile"            -> AddProfileRequest
      [] r = "GetActiveProfile"      -> GetActiveProfileRequest
      [] r = "RemoveProfile"         -> RemoveProfileRequest
      [] r = "Login"                 -> LoginRequest
      [] r = "Up"                    -> UpRequest
      [] r = "Down"                  -> DownRequest
      [] r = "Logout"                -> LogoutRequest
      [] OTHER                       -> SwitchProfileRequest

ResponsesOf(r) ==
    CASE r \in {"Version", "Status"} -> StatusResponse
      [] r = "ListProfiles"          -> ListProfilesResponse
      [] r = "AddProfile"            -> AddProfileResponse
      [] r = "GetActiveProfile"      -> GetActiveProfileResponse
      [] r = "RemoveProfile"         -> RemoveProfileResponse
      [] r = "Login"                 -> LoginResponse
      [] r = "Up"                    -> UpResponse
      [] r = "Down"                  -> DownResponse
      [] r = "Logout"                -> LogoutResponse
      [] OTHER                       -> SwitchProfileResponse

TypeOK ==
    /\ version \in DaemonVersions
    /\ name \in [NewIDs \cup UserIDs -> Optional(ProfileNames)]
    /\ active \in Existing
    /\ up \in BOOLEAN
    /\ enrolled \subseteq Existing /\ minted \subseteq NewIDs
    /\ op \in Ops \cup {"none"} /\ rpc \in RPCs \cup {"none"}
    /\ wire # Nil => wire \in RequestsOf(rpc)
    /\ answer \in Optional(Answers)
    /\ Answered => answer.body \in ResponsesOf(rpc)
    /\ owned \in NewIDs \cup {""}
    /\ enrolling \in BOOLEAN
    /\ result.op \in Ops \cup {"none"} /\ result.ok \in BOOLEAN
    /\ since \subseteq {"version", "active", "profiles"}

Init ==
    /\ version \in DaemonVersions
    /\ name \in [NewIDs \cup UserIDs -> Optional(ProfileNames)]
    /\ \A i \in NewIDs : name[i] = Nil
    /\ name["default"] = OtherName
    /\ active = "default" /\ up \in BOOLEAN /\ enrolled = Existing /\ minted = {}
    /\ op = "none" /\ rpc = "none" /\ wire = Nil /\ answer = Nil
    /\ owned = "" /\ enrolling = FALSE /\ result = NoResult /\ since = {}

-----------------------------------------------------------------------------
(* VersionedAdapter *)

\* Mutant: one of the operations is handed on without requireCompatible.
FirstDeregisters(o) ==
    CASE o = "status" -> "Status" [] o = "deregister" -> "ListProfiles" [] OTHER -> "Version"

\* Every operation asks for the version first; Status reads it with the rest.
FirstRequest(o) == IF o = "status" THEN "Status" ELSE "Version"

\* The session creates a profile for an enrollment and enrolls it next, once; it
\* works on no other profile.  Its views read beside that.
Begin(o) ==
    /\ op = "none"
    /\ o = "create" => owned = ""
    /\ o \notin {"create", "version", "status"} => owned # ""
    /\ o = "enroll" => enrolling
    /\ enrolling => o \in {"enroll", "version", "status"}
    /\ op' = o
    /\ rpc' = FirstRequest(o)
    /\ enrolling' = (enrolling /\ o # "enroll")
    /\ result' = NoResult
    /\ since' = {}
    /\ UNCHANGED <<daemonVars, wire, answer, owned>>

-----------------------------------------------------------------------------
(* Requests *)

Named == [profileName |-> owned, username |-> Username]

Request(r) ==
    CASE r = "Version"          -> [getFullPeerStatus |-> FALSE]
      [] r = "Status"           -> [getFullPeerStatus |-> TRUE]
      [] r = "ListProfiles"     -> [username |-> Username]
      [] r = "AddProfile"       -> [username |-> Username, profileName |-> ManagedName]
      [] r = "SwitchDefault"    -> [Named EXCEPT !.profileName = "default"]
      [] r \in {"GetActiveProfile", "Down"} -> <<>>
      [] r = "Login"            -> [setupKey |-> "key", profileName |-> owned,
                                    username |-> Username]
      [] OTHER                  -> Named

Send ==
    /\ rpc # "none" /\ wire = Nil /\ answer = Nil
    /\ wire' = Request(rpc)
    /\ UNCHANGED <<daemonVars, op, rpc, answer, clientVars, since>>

-----------------------------------------------------------------------------
(* The daemon *)

Listing == [profiles |-> {[id |-> i, name |-> name[i], isActive |-> i = active] :
                              i \in Existing} \cup {Nil}]

\* The answer may be lost when the request is not.
Reply(body) ==
    answer' \in {[ok |-> TRUE, body |-> body]}
                    \cup IF "lost" \in Faults THEN {Error} ELSE {}

Reads ==
    /\ \/ /\ rpc \in {"Version", "Status"}
          /\ \E full \in IF wire.getFullPeerStatus THEN StatusBodies ELSE {Nil} :
                 Reply([status |-> IF up THEN "Connected"
                                   ELSE IF active \in enrolled THEN "Idle" ELSE "NeedsLogin",
                        daemonVersion |-> version, fullStatus |-> full])
       \/ rpc = "ListProfiles" /\ Reply(Listing)
       \/ rpc = "GetActiveProfile" /\ Reply([id |-> active])
    /\ UNCHANGED <<name, active, up, enrolled, minted>>

\* An engine runs for the selected profile only.
Selects(i) ==
    /\ active' = i
    /\ up' = (up /\ i = active)
    /\ UNCHANGED <<name, minted>>

Adds ==
    /\ rpc = "AddProfile"
    /\ \E i \in NewIDs \ minted :
           /\ name' = [name EXCEPT ![i] = wire.profileName]
           /\ minted' = minted \cup {i}
           /\ Reply([id |-> i])
    /\ UNCHANGED <<active, up, enrolled>>

Switches ==
    /\ rpc \in {"SwitchProfile", "SwitchDefault"}
    /\ wire.profileName \in Existing
    /\ Selects(wire.profileName)
    /\ Reply([id |-> wire.profileName])
    /\ UNCHANGED enrolled

Removes ==
    /\ rpc = "RemoveProfile"
    /\ wire.profileName \in Existing \ {active}
    /\ name' = [name EXCEPT ![wire.profileName] = Nil]
    /\ enrolled' = enrolled \ {wire.profileName}
    /\ Reply([id |-> wire.profileName])
    /\ UNCHANGED <<active, up, minted>>

LogsIn ==
    /\ rpc = "Login"
    /\ wire.profileName \in Existing
    /\ Selects(wire.profileName)
    /\ enrolled' = enrolled \cup {wire.profileName}
    /\ Reply(<<>>)

GoesUp ==
    /\ rpc = "Up"
    /\ wire.profileName \in Existing
    /\ active' = wire.profileName /\ up' = TRUE
    /\ Reply(<<>>)
    /\ UNCHANGED <<name, enrolled, minted>>

GoesDown ==
    /\ rpc = "Down"
    /\ up' = FALSE
    /\ Reply(<<>>)
    /\ UNCHANGED <<name, active, enrolled, minted>>

LogsOut ==
    /\ rpc = "Logout"
    /\ wire.profileName \in Existing
    /\ enrolled' = enrolled \ {wire.profileName}
    /\ up' = (up /\ wire.profileName # active)
    /\ Reply(<<>>)
    /\ UNCHANGED <<name, active, minted>>

\* The daemon is not there, or says no: to a profile it does not have, too.
Refuses ==
    /\ answer' = Error
    /\ UNCHANGED <<name, active, up, enrolled, minted>>

\* What a request looks at, or sets.
LooksAt(r) ==
    CASE r \in {"Version", "Status"}                               -> {"version"}
      [] r = "ListProfiles"                                        -> {"profiles"}
      [] r \in {"GetActiveProfile", "SwitchProfile", "SwitchDefault",
                "Login", "Up"}                                     -> {"active"}
      [] OTHER                                                     -> {}

Serve ==
    /\ wire # Nil
    /\ \/ Reads \/ Adds \/ Switches \/ Removes \/ LogsIn
       \/ GoesUp \/ GoesDown \/ LogsOut \/ Refuses
    /\ wire' = Nil
    /\ since' = since \ LooksAt(rpc)
    /\ UNCHANGED <<version, op, rpc, clientVars>>

-----------------------------------------------------------------------------
(* Answers *)

\* The session forgets the profile it has removed.
Ends(ok, id, snapshot, told) ==
    /\ op' = "none" /\ rpc' = "none"
    /\ owned' = IF ok THEN id ELSE owned
    /\ enrolling' = IF op = "create" THEN ok ELSE enrolling
    /\ result' = [op |-> op, ok |-> ok, snapshot |-> snapshot, told |-> told]

End(ok) == Ends(ok, owned, EmptySnapshot, Nil)

Continue(r) == rpc' = r /\ UNCHANGED <<op, clientVars>>

\* requireCompatible, and DaemonVersion itself
ReceiveVersion ==
    /\ rpc = "Version"
    /\ IF op = "version" THEN End(TRUE)
       ELSE IF answer.body.daemonVersion # Expected THEN End(FALSE)
       ELSE Continue("ListProfiles")

ReceiveStatus ==
    /\ rpc = "Status"
    /\ LET snapshot == NormalizeStatus(answer.body)
       IN  Ends(snapshot.daemonVersion = Expected, owned, snapshot, answer.body)

\* What an operation asks for once its profile is known to be there.
AfterValidate ==
    [select |-> "SwitchProfile", disconnect |-> "SwitchProfile", enroll |-> "Login",
     connect |-> "Up", deregister |-> "Logout", remove |-> "GetActiveProfile"]

\* Mutant: a profile that has the name is taken for the managed one.
EnsureByName ==
    /\ rpc = "ListProfiles" /\ op = "create"
    /\ LET found == {p \in NormalizeProfiles(answer.body) : p.name = ManagedName}
       IN  IF found # {} THEN \E p \in found : Ends(TRUE, p.id, EmptySnapshot, Nil)
           ELSE Continue("AddProfile")

\* Mutant: the name is not looked for.
EnsureAnyway ==
    /\ rpc = "ListProfiles" /\ op = "create"
    /\ Continue("AddProfile")

\* Ensure without an id: a name that is taken is a conflict, whoever took it.
Ensure ==
    /\ rpc = "ListProfiles" /\ op = "create"
    /\ IF \E p \in NormalizeProfiles(answer.body) : p.name = ManagedName
       THEN End(FALSE) ELSE Continue("AddProfile")

Validate ==
    /\ rpc = "ListProfiles" /\ op # "create"
    /\ IF \E p \in NormalizeProfiles(answer.body) : p.id = owned
       THEN Continue(AfterValidate[op]) ELSE End(FALSE)

ReceiveAdded ==
    /\ rpc = "AddProfile"
    /\ Ends(answer.body.id # "", answer.body.id, EmptySnapshot, Nil)

ReceiveSwitched ==
    /\ rpc = "SwitchProfile"
    /\ IF answer.body.id # owned THEN End(FALSE)
       ELSE IF op = "select" THEN End(TRUE) ELSE Continue("Down")

\* Mutant: a profile that is selected is taken for one that is in use.
ReceiveActiveInUse ==
    /\ rpc = "GetActiveProfile"
    /\ IF answer.body.id = owned THEN End(TRUE) ELSE Continue("RemoveProfile")

\* Mutant: "default" is selected whichever profile is active.
ReceiveActiveAnyway ==
    /\ rpc = "GetActiveProfile"
    /\ Continue("SwitchDefault")

\* The active profile is not removed: "default" takes its place.
ReceiveActive ==
    /\ rpc = "GetActiveProfile"
    /\ Continue(IF answer.body.id = owned THEN "SwitchDefault" ELSE "RemoveProfile")

ReceiveDefault ==
    /\ rpc = "SwitchDefault"
    /\ IF answer.body.id # "default" THEN End(FALSE) ELSE Continue("RemoveProfile")

ReceiveRemoved ==
    /\ rpc = "RemoveProfile"
    /\ Ends(answer.body.id = owned, "", EmptySnapshot, Nil)

ReceiveDone == rpc \in {"Login", "Up", "Down", "Logout"} /\ End(TRUE)

Receive ==
    /\ answer # Nil
    /\ IF ~answer.ok THEN End(FALSE)
       ELSE \/ ReceiveVersion \/ ReceiveStatus \/ Ensure \/ Validate \/ ReceiveAdded
            \/ ReceiveSwitched \/ ReceiveActive \/ ReceiveDefault \/ ReceiveRemoved
            \/ ReceiveDone
    /\ answer' = Nil
    /\ UNCHANGED <<daemonVars, wire, since>>

-----------------------------------------------------------------------------
(* What goes on beside a call *)

\* A compensation that failed gives the profile up; its id is kept nowhere.
Forget ==
    /\ op = "none" /\ owned # ""
    /\ owned' = "" /\ enrolling' = FALSE /\ result' = NoResult
    /\ UNCHANGED <<daemonVars, callVars, since>>

UserSelects(i) ==
    /\ "user" \in Faults
    /\ active' = i /\ up' \in BOOLEAN
    /\ since' = since \cup {"active"}
    /\ UNCHANGED <<version, name, enrolled, minted, callVars, clientVars>>

UserRemoves(i) ==
    /\ "user" \in Faults
    /\ i \notin {active, "default"}
    /\ name' = [name EXCEPT ![i] = Nil] /\ enrolled' = enrolled \ {i}
    /\ since' = since \cup {"profiles"}
    /\ UNCHANGED <<version, active, up, minted, callVars, clientVars>>

\* An installer stops the daemon and starts another.
Replaced ==
    /\ "replaced" \in Faults
    /\ version' \in DaemonVersions \ {version} /\ up' = FALSE
    /\ since' = since \cup {"version"}
    /\ UNCHANGED <<name, active, enrolled, minted, callVars, clientVars>>

Next ==
    \/ \E o \in Ops : Begin(o)
    \/ Send \/ Serve \/ Receive \/ Forget
    \/ \E i \in Existing : UserSelects(i) \/ UserRemoves(i)
    \/ Replaced

Spec == Init /\ [][Next]_vars

-----------------------------------------------------------------------------
(* Properties *)

\* A daemon of another version is not asked to change anything, unless it came
\* after the check of this very call; and what it says is not passed on.
ExactVersionOnly ==
    /\ wire # Nil /\ rpc \in Changing => version = Expected \/ "version" \in since
    /\ result.op = "status" /\ result.ok => result.told.daemonVersion = Expected

\* The user's profiles keep their names and their identities, and the client
\* selects no profile but its own and "default".
ForeignUntouched ==
    [][Serve =>
         /\ \A i \in UserIDs : name'[i] = name[i] /\ (i \in enrolled' <=> i \in enrolled)
         /\ active' \in {active, owned, "default"}]_vars

\* The engine of a user's profile is stopped by the client only where the client
\* puts its own profile in its place (Select, Disconnect, Enroll, Connect), or
\* where the user chose the profile after the client had looked which is active.
UserEngineYields ==
    [][Serve /\ up /\ active \in UserIDs /\ ~(up' /\ active' = active) =>
         active' = owned \/ "active" \in since]_vars

\* However often an enrollment is tried, and whatever answers are lost, the
\* client leaves at most one profile behind.
OneManaged == Cardinality(Existing \ UserIDs) <= 1

\* A call that succeeds has done what it is for, unless others undid it since.
Done(o) ==
    CASE o = "create"     -> owned' \in Existing \/ "profiles" \in since
      [] o = "select"     -> active = owned \/ "active" \in since
      [] o = "enroll"     -> owned \in enrolled \/ "profiles" \in since
      [] o = "connect"    -> (up /\ active = owned) \/ since \cap {"active", "version"} # {}
      [] o = "disconnect" -> ~up \/ "active" \in since
      [] o = "deregister" -> owned \notin enrolled
      [] o = "remove"     -> owned \notin Existing
      [] OTHER            -> TRUE

OkMeansDone == [][op # "none" /\ op' = "none" /\ result'.ok => Done(op)]_vars

\* A path is one the daemon reports of a connected peer; what it says of the
\* control plane, or of a peer that is not connected, is none.
PathIsReal ==
    result.op = "status" /\ result.ok =>
        LET told  == IF result.told.fullStatus = Nil THEN {}
                     ELSE result.told.fullStatus.peers \ {Nil}
            shown == {p.path : p \in result.snapshot.peers}
        IN  /\ "p2p" \in shown <=>
                   \E p \in told : p.connStatus = "Connected" /\ ~p.relayed
            /\ "relay" \in shown <=>
                   \E p \in told : p.connStatus = "Connected" /\ p.relayed

-----------------------------------------------------------------------------
(* The inductive invariant: what is known at each request of a call *)

StepsOf(o) ==
    CASE o = "none"       -> {"none"}
      [] o = "version"    -> {"Version"}
      [] o = "status"     -> {"Status"}
      [] o = "create"     -> {"Version", "ListProfiles", "AddProfile"}
      [] o = "select"     -> {"Version", "ListProfiles", "SwitchProfile"}
      [] o = "disconnect" -> {"Version", "ListProfiles", "SwitchProfile", "Down"}
      [] o = "enroll"     -> {"Version", "ListProfiles", "Login"}
      [] o = "connect"    -> {"Version", "ListProfiles", "Up"}
      [] o = "deregister" -> {"Version", "ListProfiles", "Logout"}
      [] o = "remove"     -> {"Version", "ListProfiles", "GetActiveProfile",
                              "SwitchDefault", "RemoveProfile"}

\* A request is one of its operation, and is on its way or answered, not both.
InPlace ==
    /\ rpc \in StepsOf(op)
    /\ op = "none" => wire = Nil /\ answer = Nil
    /\ wire # Nil => wire = Request(rpc) /\ answer = Nil
    /\ op \notin {"none", "create", "version", "status"} => owned # ""

\* Nothing is asked for, after the version, unless the version was the expected one.
VersionChecked ==
    /\ rpc \notin {"none", "Version", "Status"} => version = Expected \/ "version" \in since
    /\ rpc = "Version" /\ Answered =>
           answer.body.daemonVersion = version \/ "version" \in since

ReportIsWhole ==
    result.op = "status" /\ result.ok =>
        /\ result.told \in StatusResponse
        /\ result.told.daemonVersion = Expected
        /\ result.snapshot = NormalizeStatus(result.told)

Managed == {i \in NewIDs : name[i] # Nil}

\* A profile is only added after a list that had none of the name.
AddedAlone ==
    /\ \A i \in Managed : name[i] = ManagedName
    /\ \A i, j \in Managed : i = j
    /\ rpc = "ListProfiles" /\ Answered /\ Managed # {} =>
           \E p \in NormalizeProfiles(answer.body) : p.name = ManagedName
    /\ rpc = "AddProfile" /\ answer = Nil => Managed = {}

\* What each answer means, as long as it is not read.
Effect ==
    /\ rpc = "AddProfile" =>
           answer.body.id \in NewIDs /\ (answer.body.id \in Existing \/ "profiles" \in since)
    /\ rpc = "SwitchProfile" => active = owned \/ "active" \in since
    /\ rpc = "Login"         => owned \in enrolled \/ "profiles" \in since
    /\ rpc = "Up" => (up /\ active = owned) \/ since \cap {"active", "version"} # {}
    /\ rpc = "Down"          => ~up \/ "active" \in since
    /\ rpc = "Logout"        => owned \notin enrolled
    /\ rpc = "GetActiveProfile" => answer.body.id = active \/ "active" \in since
    /\ rpc = "RemoveProfile" => owned \notin Existing

Effective ==
    /\ Answered => Effect
    /\ rpc \in {"Down", "SwitchDefault"} /\ answer = Nil =>
           active = owned \/ "active" \in since

IInv ==
    /\ TypeOK /\ InPlace /\ VersionChecked
    /\ ReportIsWhole /\ AddedAlone /\ Effective
=============================================================================
