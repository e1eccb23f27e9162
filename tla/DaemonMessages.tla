--------------------------- MODULE DaemonMessages ---------------------------
(***************************************************************************)
(* The messages of the NetBird daemon that the client sends and reads, and *)
(* what netbird/normalize.go makes of the answers.                         *)
(*                                                                         *)
(* A message is the record of the fields that the client sets or reads.    *)
(* The generated getters answer for a nil message, and for an optional     *)
(* field that is not set, with the zero value of the field: GetFrom.  A    *)
(* repeated field is the set of its elements: no code looks at the order,  *)
(* and a nil message has none of them: GetAll.                             *)
(***************************************************************************)
CONSTANTS
    ProfileIDs, ProfileNames, Usernames,
    DaemonVersions,
    Nil     \* a nil pointer, an optional field that is not set

Optional(S) == S \cup {Nil}

GetFrom(message, field, zero) ==
    IF message = Nil \/ message[field] = Nil THEN zero ELSE message[field]
GetAll(message, field) == IF message = Nil THEN {} ELSE message[field]

-----------------------------------------------------------------------------
(* Status *)

\* The words of the daemon for itself and for a peer, and one unknown to us.
StatusWords == {"", "Idle", "Connecting", "Connected", "NeedsLogin",
                "LoginFailed", "SessionExpired", "Starting"}
ConnWords   == {"", "Idle", "Connecting", "Connected", "Disconnected"}

StatusRequest   == [getFullPeerStatus : BOOLEAN]
PeerState       == [connStatus : ConnWords, relayed : BOOLEAN]
LocalPeerState  == [IP : {"", "100.64.0.1"}]
SignalState     == [connected : BOOLEAN]
ManagementState == [connected : BOOLEAN]
FullStatus ==
    [managementState : Optional(ManagementState), signalState : Optional(SignalState),
     localPeerState : Optional(LocalPeerState), peers : SUBSET Optional(PeerState)]
StatusResponse ==
    [status : StatusWords, daemonVersion : DaemonVersions, fullStatus : Optional(FullStatus)]

\* Lower case, and the words a client of this version knows.
NormalDaemonState(word) ==
    CASE word = "Idle"           -> "idle"
      [] word = "Connecting"     -> "connecting"
      [] word = "Connected"      -> "connected"
      [] word = "NeedsLogin"     -> "needs_login"
      [] word = "LoginFailed"    -> "login_failed"
      [] word = "SessionExpired" -> "session_expired"
      [] OTHER                   -> "unknown"

NormalPeerState(word) ==
    CASE word = "Idle"       -> "idle"
      [] word = "Connecting" -> "connecting"
      [] word = "Connected"  -> "connected"
      [] OTHER               -> "unknown"

\* Mutant: what a peer said of a relay outlives the tunnel.
NormalPeerAnyState(p) ==
    [state |-> NormalPeerState(p.connStatus),
     path  |-> IF p.relayed THEN "relay" ELSE "p2p"]

NormalPeer(p) ==
    LET state == NormalPeerState(p.connStatus)
    IN  [state |-> state,
         path  |-> IF state # "connected" THEN "none"
                   ELSE IF p.relayed THEN "relay" ELSE "p2p"]

EmptySnapshot ==
    [daemonVersion |-> "", daemonState |-> "", managementConnected |-> FALSE,
     signalConnected |-> FALSE, localIP |-> "", peers |-> {}]

\* What the daemon leaves out is false, empty or no peer; nil peers are skipped.
NormalizeStatus(response) ==
    LET full == GetFrom(response, "fullStatus", Nil) IN
    IF response = Nil THEN EmptySnapshot
    ELSE [daemonVersion       |-> response.daemonVersion,
          daemonState         |-> NormalDaemonState(response.status),
          managementConnected |->
              GetFrom(GetFrom(full, "managementState", Nil), "connected", FALSE),
          signalConnected     |->
              GetFrom(GetFrom(full, "signalState", Nil), "connected", FALSE),
          localIP             |-> GetFrom(GetFrom(full, "localPeerState", Nil), "IP", ""),
          peers |-> {NormalPeer(p) : p \in GetAll(full, "peers") \ {Nil}}]

-----------------------------------------------------------------------------
(* Profiles.  A request names a profile by a handle, here always an id. *)

Profile == [id : ProfileIDs, name : ProfileNames, isActive : BOOLEAN]

ListProfilesRequest      == [username : Usernames]
ListProfilesResponse     == [profiles : SUBSET Optional(Profile)]
GetActiveProfileRequest  == {<<>>}
GetActiveProfileResponse == [id : ProfileIDs]
AddProfileRequest        == [username : Usernames, profileName : ProfileNames]
AddProfileResponse       == [id : ProfileIDs]
SwitchProfileRequest     == [profileName : Optional(ProfileIDs), username : Optional(Usernames)]
SwitchProfileResponse    == [id : ProfileIDs]
RemoveProfileRequest     == [username : Usernames, profileName : ProfileIDs]
RemoveProfileResponse    == [id : ProfileIDs]

NormalizeProfiles(response) == GetAll(response, "profiles") \ {Nil}

-----------------------------------------------------------------------------
(* The engine of a profile *)

LoginRequest  == [setupKey : {"key"}, profileName : Optional(ProfileIDs),
                  username : Optional(Usernames)]
UpRequest     == [profileName : Optional(ProfileIDs), username : Optional(Usernames)]
LogoutRequest == [profileName : Optional(ProfileIDs), username : Optional(Usernames)]
DownRequest   == {<<>>}

LoginResponse == {<<>>}
UpResponse == {<<>>}
LogoutResponse == {<<>>}
DownResponse == {<<>>}

-----------------------------------------------------------------------------
\* A nil pointer is told from a pointer to a message.
ASSUME NilIsNoMessage ==
    /\ Nil \notin StatusResponse /\ Nil \notin FullStatus /\ Nil \notin PeerState
    /\ Nil \notin ListProfilesResponse /\ Nil \notin Profile
=============================================================================
