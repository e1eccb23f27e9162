--------------------------- MODULE ConnectionState ---------------------------
(* The state the client derives from what it knows, session/state.go: the pure
   function Derive and the facts it reads. A daemon peer is the kind of path it
   has: "idle" has no tunnel, "relay" and "p2p" are connected. *)
EXTENDS Integers

PeerKinds == {"idle", "relay", "p2p"}
Paths == {"none", "relay", "p2p"}
ConnectionStates ==
    {"NoRoom", "Enrolling", "ControlPlaneConnected", "WaitingForPeer",
     "ConnectingPeer", "ConnectedP2P", "ConnectedRelay", "Reconnecting",
     "RecoverableError"}

(* The zero value of Facts; commands set the fields they know. *)
NoFacts ==
    [saved |-> FALSE, enrolling |-> FALSE, reconnecting |-> FALSE,
     disconnected |-> FALSE, failed |-> FALSE, ready |-> FALSE,
     membershipKnown |-> FALSE, others |-> 0, peers |-> {}]

(* One P2P tunnel is enough to prefer P2P, one relayed tunnel beats none. *)
PreferredPath(peers) ==
    CASE "p2p" \in peers -> "p2p"
      [] "p2p" \notin peers /\ "relay" \in peers -> "relay"
      [] OTHER -> "none"

Without(state) == [state |-> state, path |-> "none"]

(* A failure hides an enrollment, which hides a missing room, and so on; a
   tunnel counts even when the control plane is away. *)
Derive(f) ==
    LET path == PreferredPath(f.peers) IN
    IF f.failed THEN Without("RecoverableError")
    ELSE IF f.enrolling THEN Without("Enrolling")
    ELSE IF ~f.saved THEN Without("NoRoom")
    ELSE IF f.reconnecting THEN Without("Reconnecting")
    ELSE IF f.disconnected THEN Without("ControlPlaneConnected")
    ELSE IF path = "p2p" THEN [state |-> "ConnectedP2P", path |-> path]
    ELSE IF path = "relay" THEN [state |-> "ConnectedRelay", path |-> path]
    ELSE IF ~f.ready THEN Without("Reconnecting")
    ELSE IF ~f.membershipKnown THEN Without("ControlPlaneConnected")
    ELSE IF f.others <= 0 THEN Without("WaitingForPeer")
    ELSE Without("ConnectingPeer")
=============================================================================
