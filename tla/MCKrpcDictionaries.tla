------------------------- MODULE MCKrpcDictionaries -------------------------
(* Identifiers of two bytes.  Under every key at least one value that a     *)
(* message may have there, one of another kind, and one of a wrong length.  *)
EXTENDS KrpcDictionaries

MCThisId == <<"i", "d">>

Id(n)   == String([k \in 1 .. n |-> "i"])
One     == Integer(1)
NoDict  == Dict([key \in {} |-> One])

MCEntries ==
  [t  |-> {String(<<"a">>), String(<<"a", "b">>), One},
   y  |-> {String(<<"q">>), String(<<"r">>), String(<<"e">>), String(<<"x">>), One},
   q  |-> {String(<<"ping">>), String(<<"find_node">>), One},
   a  |-> {NoDict, Dict([id |-> Id(2)]), Dict([id |-> Id(1)]),
           Dict([id |-> Id(2), target |-> Id(2)]), One},
   r  |-> {NoDict, Dict([id |-> Id(2)]), Dict([id |-> Id(2), nodes |-> Id(5)]),
           Dict([id |-> Id(3), nodes |-> Id(2)]), One},
   e  |-> {List(<<One, Id(1)>>), List(<<Id(1), One>>), List(<<One>>), One},
   id |-> {Id(2)}]

=============================================================================
