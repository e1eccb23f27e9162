--------------------------- MODULE MCDaemonAdapter ---------------------------
(* A daemon with a user's profiles beside the client's, for the model checker. *)
EXTENDS DaemonAdapter

MCNewIDs     == {"p1", "p2"}
MCUserIDs    == {"default", "work"}
MCProfileIDs == MCNewIDs \cup MCUserIDs \cup {""}
MCNames      == {"sogame-room", "other"}

\* Every peer that matters, alone and together, with what may be left out.
MCStatusBodies ==
    LET peer(word, relayed) == [connStatus |-> word, relayed |-> relayed]
    IN  {Nil} \cup
        [managementState : {Nil, [connected |-> TRUE]},
         signalState     : {[connected |-> TRUE]},
         localPeerState  : {Nil},
         peers : SUBSET {Nil, peer("Connected", FALSE), peer("Connected", TRUE),
                         peer("Connecting", TRUE)}]
=============================================================================
