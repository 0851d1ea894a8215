-------------------------- MODULE MCGoRoutingTable --------------------------
(* Three-bit identifiers, every one of them offered, one at two addresses. *)
EXTENDS GoFindNode

CONSTANTS a1, a2

Id(x, y, z) == [i \in 0 .. 2 |-> CASE i = 0 -> x [] i = 1 -> y [] i = 2 -> z]

MCIdBits == 3
MCThisNodeId == Id(0, 1, 0)
MCAddresses == {a1, a2}

\* The second address of a node that moved.
MCOffered == [nodeId : NodeId, address : {a1}] \cup
             {[nodeId |-> Id(1, 0, 1), address |-> a2]}

=============================================================================
