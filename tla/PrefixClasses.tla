--------------------------- MODULE PrefixClasses ---------------------------
(***************************************************************************)
(* What the Go routing table promises, without buckets: it remembers       *)
(* contacts forever, and admits a new identifier exactly as long as it     *)
(* knows fewer than bucketSize contacts that share a prefix of the same    *)
(* length with the node's own identifier.  GoRoutingTable implements this, *)
(* with bucket splits as steps nobody sees.                                *)
(***************************************************************************)
EXTENDS NodeIds

CONSTANTS bucketSize, thisNodeId, Addresses, Offered, NoEntry

VARIABLES
  known,      \* the contacts remembered
  adding      \* the contact being offered, or NoEntry

vars == <<known, adding>>

prefixLength(id) == commonPrefixLength(thisNodeId, id)

\* The contacts known that compete with a contact for the same places.
Class(entry) ==
  {c \in known : prefixLength(c.nodeId) = prefixLength(entry.nodeId)}

IsKnown(entry) == \E c \in known : c.nodeId = entry.nodeId

Init == known = {} /\ adding = NoEntry

Offer(entry) ==
  /\ adding = NoEntry
  /\ adding' = entry
  /\ UNCHANGED known

Admit ==
  /\ adding # NoEntry
  /\ ~ IsKnown(adding)
  /\ Cardinality(Class(adding)) < bucketSize
  /\ known' = known \cup {adding}
  /\ adding' = NoEntry

Ignore ==
  /\ adding # NoEntry
  /\ IsKnown(adding) \/ Cardinality(Class(adding)) >= bucketSize
  /\ adding' = NoEntry
  /\ UNCHANGED known

Next == (\E entry \in Offered : Offer(entry)) \/ Admit \/ Ignore

Spec == Init /\ [][Next]_vars /\ WF_vars(Admit \/ Ignore)

=============================================================================
