---------------------------- MODULE MCDhtClient ----------------------------
(* Two-bit identifiers and buckets of size 1.  b1 and b2 are the addresses  *)
(* of two nodes that crowd one bucket.  A response of a node that was not   *)
(* asked may name one of them, or be of no use.  Two pings at a time, and   *)
(* meanwhile a query without a usable id or one of an unknown method.       *)
EXTENDS DhtClient

CONSTANTS b1, b2, t1, t2

MCIdBits == 2
MCId(x, y) == [i \in 0 .. 1 |-> IF i = 0 THEN x ELSE y]
MCThisNodeId == MCId(0, 0)

MCAddresses == {b1, b2}
MCNodeAt == [a \in MCAddresses |-> IF a = b1 THEN MCId(1, 0) ELSE MCId(1, 1)]
MCStrays == {MCId(1, 1), Invalid}

MCQueries ==
  {[from |-> b1, transactionId |-> t1, methodName |-> "ping", idArgument |-> FALSE],
   [from |-> b2, transactionId |-> t1, methodName |-> "find_node", idArgument |-> TRUE]}

=============================================================================
