------------------------- MODULE MCRustRoutingTable -------------------------
(* Three-bit identifiers around the node 010 and small sets of contacts.   *)
EXTENDS RustFind

CONSTANT a1

Id(x, y, z) == [i \in 0 .. 2 |-> CASE i = 0 -> x [] i = 1 -> y [] i = 2 -> z]

At(id) == [id |-> id, address |-> a1]

MCIdBits == 3
MCReferenceId == Id(0, 1, 0)
MCAddresses == {a1}

\* Three contacts that differ from the node in the first bit, one more than
\* a bucket holds, and one that differs in the last bit.
MCAgingContacts ==
  {At(Id(1, 0, 0)), At(Id(1, 0, 1)), At(Id(1, 1, 0)), At(Id(0, 1, 1))}

\* Every identifier, the node's own included.
MCAllContacts == {At(id) : id \in NodeId}

MCAllSeenIn == AllSeenIn
MCReferrals == {"Referral"}

=============================================================================
