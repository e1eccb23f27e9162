----------------------------- MODULE RoomAccess -----------------------------
(***************************************************************************)
(* A room in service: rooms.Service.Join and Peers, asked for by whoever   *)
(* holds the room code, and rooms.Service.Disable, asked for by an         *)
(* administrator.  Requests run concurrently on the row of the room and    *)
(* the setup key and policy it names in NetBird; RoomProvisioning leaves a *)
(* room in the initial state of this module.                               *)
(*                                                                         *)
(* A guest that was given a setup key hands it to its NetBird client,      *)
(* which may enrol with it at any later time (external).                   *)
(***************************************************************************)
CONSTANTS
    Rooms,   \* rooms that were delivered
    Admins,  \* POST /rooms/{code}/disable requests
    Guests,  \* POST /rooms/join and GET /rooms/{code}/peers requests
    None,    \* no room
    Faults   \* a subset of {"fail", "lost"}

\* "fail": a call fails and changes nothing (SQLite, NetBird, a cancelled
\*         request; a request that dies with the process stops for good)
\* "lost": a NetBird call is applied and its answer lost
ASSUME NoneIsNoRoom == None \notin Rooms
ASSUME FaultsKnown == Faults \subseteq {"fail", "lost"}

VARIABLES
    status,         \* SQLite: rooms.status
    setupKey,       \* NetBird: is the key of a room valid or revoked?
    policies,       \* NetBird: the rooms whose policy exists
    apc, disables,  \* Disable: next call, and the room of the code
    gpc, asks,      \* Join and Peers: next call, and the room of the code
    late,           \* guests that asked after a Disable of the room succeeded
    given,          \* guests that were given the key
    shown,          \* guests that were given a list of peers
    enrolled        \* guests whose NetBird client is in the room's group

nbVars     == <<setupKey, policies>>
adminVars  == <<apc, disables>>
guestVars  == <<gpc, asks, late, given, shown, enrolled>>
accessVars == <<status, nbVars, adminVars, guestVars>>

AccessTypeOK ==
    /\ status \in [Rooms -> {"active", "disabled"}]
    /\ setupKey \in [Rooms -> {"valid", "revoked"}]
    /\ policies \subseteq Rooms
    /\ apc \in [Admins -> {"idle", "read", "revoke", "policy", "store",
                           "ok", "failed", "gone"}]
    /\ disables \in [Admins -> Rooms \cup {None}]
    /\ gpc \in [Guests -> {"idle", "join", "peers", "list", "done", "refused"}]
    /\ asks \in [Guests -> Rooms \cup {None}]
    /\ late \subseteq Guests /\ given \subseteq Guests
    /\ shown \subseteq Guests /\ enrolled \subseteq Guests

AccessInit ==
    /\ status = [x \in Rooms |-> "active"]
    /\ setupKey = [x \in Rooms |-> "valid"]
    /\ policies = Rooms
    /\ apc = [d \in Admins |-> "idle"]
    /\ disables = [d \in Admins |-> None]
    /\ gpc = [g \in Guests |-> "idle"]
    /\ asks = [g \in Guests |-> None]
    /\ late = {} /\ given = {} /\ shown = {} /\ enrolled = {}

-----------------------------------------------------------------------------
(* Disable *)

\* A call that may be applied without its answer coming back.
After(d, step) ==
    \/ apc' = [apc EXCEPT ![d] = step]
    \/ "lost" \in Faults /\ apc' = [apc EXCEPT ![d] = "failed"]

AskDisable(d, x) ==
    /\ apc[d] = "idle"
    /\ disables' = [disables EXCEPT ![d] = x]
    /\ apc' = [apc EXCEPT ![d] = "read"]
    /\ UNCHANGED <<status, nbVars, guestVars>>

ReadForDisable(d) ==
    /\ apc[d] = "read"
    /\ apc' = [apc EXCEPT ![d] = IF status[disables[d]] = "disabled"
                                 THEN "ok" ELSE "revoke"]
    /\ UNCHANGED <<status, nbVars, disables, guestVars>>

\* PUT revoked=true: revoking a key twice is no error.
RevokeSetupKey(d) ==
    /\ apc[d] = "revoke"
    /\ setupKey' = [setupKey EXCEPT ![disables[d]] = "revoked"]
    /\ After(d, "policy")
    /\ UNCHANGED <<status, policies, disables, guestVars>>

\* Mutant: the deletion of the policy is taken for the last step.
DeletePolicyLast(d) ==
    /\ apc[d] = "policy"
    /\ policies' = policies \ {disables[d]}
    /\ apc' = [apc EXCEPT ![d] = "gone"]
    /\ UNCHANGED <<status, setupKey, disables, guestVars>>

\* DELETE of a policy that is gone answers 404, which Disable returns.  (The
\* caller cannot tell it from other failures; "gone" tells the reader.)
DeletePolicy(d) ==
    /\ apc[d] = "policy"
    /\ \/ /\ disables[d] \in policies
          /\ policies' = policies \ {disables[d]}
          /\ After(d, "store")
       \/ /\ disables[d] \notin policies
          /\ apc' = [apc EXCEPT ![d] = "gone"]
          /\ UNCHANGED policies
    /\ UNCHANGED <<status, setupKey, disables, guestVars>>

StoreDisable(d) ==
    /\ apc[d] = "store"
    /\ status' = [status EXCEPT ![disables[d]] = "disabled"]
    /\ apc' = [apc EXCEPT ![d] = "ok"]
    /\ UNCHANGED <<nbVars, disables, guestVars>>

\* Mutant: NetBird's errors are logged and ignored.
DisableGoesOn(d) ==
    /\ apc[d] \in {"read", "revoke", "policy", "store"}
    /\ "fail" \in Faults
    /\ apc' = [apc EXCEPT ![d] = CASE apc[d] = "revoke" -> "policy"
                                   [] apc[d] = "policy" -> "store"
                                   [] OTHER -> "failed"]
    /\ UNCHANGED <<status, nbVars, disables, guestVars>>

DisableFails(d) ==
    /\ apc[d] \in {"read", "revoke", "policy", "store"}
    /\ "fail" \in Faults
    /\ apc' = [apc EXCEPT ![d] = "failed"]
    /\ UNCHANGED <<status, nbVars, disables, guestVars>>

Disable(d) ==
    \/ ReadForDisable(d) \/ RevokeSetupKey(d) \/ DeletePolicy(d)
    \/ StoreDisable(d) \/ DisableFails(d)

-----------------------------------------------------------------------------
(* Join and Peers *)

\* An administrator was told that room x is disabled.
ToldDisabled(x) == \E d \in Admins : apc[d] = "ok" /\ disables[d] = x

Ask(g, x, call) ==
    /\ gpc[g] = "idle"
    /\ gpc' = [gpc EXCEPT ![g] = call]
    /\ asks' = [asks EXCEPT ![g] = x]
    /\ late' = IF ToldDisabled(x) THEN late \cup {g} ELSE late
    /\ UNCHANGED <<status, nbVars, adminVars, given, shown, enrolled>>

\* Mutant: Join forgets to look at the status.
JoinAnyStatus(g) ==
    /\ gpc[g] = "join"
    /\ gpc' = [gpc EXCEPT ![g] = "done"]
    /\ given' = given \cup {g}
    /\ UNCHANGED <<status, nbVars, adminVars, asks, late, shown, enrolled>>

Join(g) ==
    /\ gpc[g] = "join"
    /\ status[asks[g]] = "active"
    /\ gpc' = [gpc EXCEPT ![g] = "done"]
    /\ given' = given \cup {g}
    /\ UNCHANGED <<status, nbVars, adminVars, asks, late, shown, enrolled>>

\* ErrInvalidRoom, for an inactive room and for a failed read alike.
Refuse(g) ==
    /\ gpc[g] \in {"join", "peers"}
    /\ status[asks[g]] # "active" \/ "fail" \in Faults
    /\ gpc' = [gpc EXCEPT ![g] = "refused"]
    /\ UNCHANGED <<status, nbVars, adminVars, asks, late, given, shown, enrolled>>

Peers(g) ==
    /\ gpc[g] = "peers"
    /\ status[asks[g]] = "active"
    /\ gpc' = [gpc EXCEPT ![g] = "list"]
    /\ UNCHANGED <<status, nbVars, adminVars, asks, late, given, shown, enrolled>>

ListPeers(g) ==
    /\ gpc[g] = "list"
    /\ \/ gpc' = [gpc EXCEPT ![g] = "done"] /\ shown' = shown \cup {g}
       \/ /\ "fail" \in Faults
          /\ gpc' = [gpc EXCEPT ![g] = "refused"]
          /\ UNCHANGED shown
    /\ UNCHANGED <<status, nbVars, adminVars, asks, late, given, enrolled>>

\* NetBird admits a client that shows a valid setup key.
Enrol(g) ==
    /\ g \in given
    /\ setupKey[asks[g]] = "valid"
    /\ enrolled' = enrolled \cup {g}
    /\ UNCHANGED <<status, nbVars, adminVars, gpc, asks, late, given, shown>>

-----------------------------------------------------------------------------
AccessNext ==
    \/ \E d \in Admins : (\E x \in Rooms : AskDisable(d, x)) \/ Disable(d)
    \/ \E g \in Guests :
          \/ \E x \in Rooms, call \in {"join", "peers"} : Ask(g, x, call)
          \/ Join(g) \/ Peers(g) \/ ListPeers(g) \/ Refuse(g) \/ Enrol(g)

AccessSpec     == AccessInit /\ [][AccessNext]_accessVars
AccessFairSpec == AccessSpec /\ \A d \in Admins : WF_accessVars(Disable(d))

-----------------------------------------------------------------------------
(* Properties *)

\* What Disable has achieved by the time it makes its next call.
Undone ==
    \A d \in Admins :
        /\ apc[d] # "idle" => disables[d] \in Rooms
        /\ apc[d] \in {"policy", "store"} => setupKey[disables[d]] = "revoked"
        /\ apc[d] = "store" => disables[d] \notin policies
        /\ apc[d] = "ok" => status[disables[d]] = "disabled"

\* A room recorded as disabled has lost its key and its policy, whichever
\* of several Disable requests recorded it and whatever calls failed.
DisabledIsDead ==
    \A x \in Rooms : status[x] = "disabled" =>
        setupKey[x] = "revoked" /\ x \notin policies

\* Join and Peers refuse a code whose room an administrator had been told
\* is disabled by the time they were asked.
DeadCodeRefused ==
    \A g \in late : g \notin given /\ g \notin shown

\* A guest that asked late finds the row disabled.
LateIsRefused ==
    \A g \in late : /\ asks[g] \in Rooms /\ status[asks[g]] = "disabled"
                    /\ gpc[g] \in {"join", "peers", "refused"}

\* The inductive invariant behind the properties below and above.
AccessInv ==
    /\ AccessTypeOK
    /\ Undone
    /\ \A g \in Guests : gpc[g] = "idle" => g \notin given /\ g \notin shown
    /\ \A g \in Guests : gpc[g] # "idle" => asks[g] \in Rooms
    /\ DisabledIsDead
    /\ LateIsRefused
    /\ DeadCodeRefused

\* Once an administrator has been told that a room is disabled, nobody
\* enrols in it any more, with a key given out earlier either.
NoEntryAfterDisable ==
    [][\A g \in Guests :
          g \in enrolled' \ enrolled => ~ToldDisabled(asks[g])]_accessVars

\* A room that somebody asks to disable is disabled, unless a call of one of
\* its Disable requests fails: also when several are under way at once and
\* the later find the policy gone.
DisableTakesEffect ==
    \A x \in Rooms :
        (\E d \in Admins : apc[d] # "idle" /\ disables[d] = x)
            ~> \/ status[x] = "disabled"
               \/ \E d \in Admins : apc[d] = "failed" /\ disables[d] = x

=============================================================================
