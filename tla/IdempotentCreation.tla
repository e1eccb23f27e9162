------------------------- MODULE IdempotentCreation -------------------------
(***************************************************************************)
(* What POST /rooms promises a client that repeats a request under one     *)
(* Idempotency-Key (room-control-api/spec.md, scenario "Duplicate creation *)
(* retry"): a key is bound to at most one room, once and for all, and      *)
(* whoever asks with that key and gets an answer gets that room.  A        *)
(* request without a key gets a room of its own.  How a room comes to be,  *)
(* and how often an attempt fails before one does, is left open.           *)
(***************************************************************************)
CONSTANTS Requests, Keys, None

VARIABLES
    bound,   \* the room a key stands for
    key,     \* the key of a request
    answer   \* the room a request was given

vars == <<bound, key, answer>>

Init ==
    /\ bound = [k \in Keys |-> None]
    /\ key = [r \in Requests |-> None]
    /\ answer = [r \in Requests |-> None]

Submit(r, k) ==
    /\ key[r] = None
    /\ answer[r] = None
    /\ key' = [key EXCEPT ![r] = k]
    /\ UNCHANGED <<bound, answer>>

\* The room that request r provisioned becomes the room of its key.
Bind(r) ==
    /\ key[r] # None
    /\ bound[key[r]] = None
    /\ bound' = [bound EXCEPT ![key[r]] = r]
    /\ UNCHANGED <<key, answer>>

Answer(r) ==
    /\ answer[r] = None
    /\ answer' = [answer EXCEPT ![r] = IF key[r] = None THEN r ELSE bound[key[r]]]
    /\ answer'[r] # None
    /\ UNCHANGED <<bound, key>>

Next == \E r \in Requests : (\E k \in Keys : Submit(r, k)) \/ Bind(r) \/ Answer(r)

Spec == Init /\ [][Next]_vars
=============================================================================
