--------------------------- MODULE RatedContacts ---------------------------
(***************************************************************************)
(* What the Rust routing table promises, without buckets, slots or a loop: *)
(* contacts whose prefix lengths are below `depth` compete with those of   *)
(* the same prefix length, all others with each other, for BUCKET_SIZE     *)
(* places.  A contact gives its place up only when it has fallen silent.   *)
(* RustRoutingTable implements this; draining a bucket and putting the     *)
(* entries back are steps nobody sees.                                     *)
(***************************************************************************)
EXTENDS NodeIds, FiniteSets

CONSTANTS BUCKET_SIZE, reference_id, Contacts, SeenIn, StaleAge, Never

VARIABLES
  known,      \* the entries: a contact and the ages of its last signs of life
  depth       \* the prefix lengths below it are kept apart

vars == <<known, depth>>

prefixLength(id) == common_prefix_length(reference_id, id)

Share(id) == IF prefixLength(id) < depth THEN prefixLength(id) ELSE depth

\* The entries that compete with an identifier for the same places.
Rivals(id) == {e \in known : Share(e.node.id) = Share(id)}

Heard(e, seen_in) ==
  [e EXCEPT !.last_query    = IF seen_in = "Query" THEN 0 ELSE @,
            !.last_response = IF seen_in = "Response" THEN 0 ELSE @]

New(node, seen_in) ==
  Heard([node |-> node, last_query |-> Never, last_response |-> Never], seen_in)

Recent(age) == age # Never /\ age < StaleAge

\* Heard from, but it has never answered, or everything is long ago.
Silent(e) ==
  /\ e.last_query # Never \/ e.last_response # Never
  /\ \/ e.last_response = Never
     \/ ~ Recent(e.last_query) /\ ~ Recent(e.last_response)

IsStranger(node) ==
  node.id # reference_id /\ \A e \in known : e.node.id # node.id

IsCrowded(node) == Cardinality(Rivals(node.id)) = BUCKET_SIZE

Init == known = {} /\ depth = 0

Hear(e, seen_in) ==
  /\ known' = (known \ {e}) \cup {Heard(e, seen_in)}
  /\ UNCHANGED depth

Learn(node, seen_in) ==
  /\ IsStranger(node) /\ ~ IsCrowded(node)
  /\ known' = known \cup {New(node, seen_in)}
  /\ UNCHANGED depth

Replace(e, node, seen_in) ==
  /\ IsStranger(node) /\ IsCrowded(node)
  /\ e \in Rivals(node.id) /\ Silent(e)
  /\ known' = (known \ {e}) \cup {New(node, seen_in)}
  /\ UNCHANGED depth

\* One more prefix length is kept apart, which makes room for the contact.
Divide(node, seen_in) ==
  /\ IsStranger(node) /\ IsCrowded(node)
  /\ Share(node.id) = depth /\ depth < IdBits - 1
  /\ \A e \in Rivals(node.id) : ~ Silent(e)
  /\ known' = known \cup {New(node, seen_in)}
  /\ depth' = depth + 1
  /\ Cardinality(Rivals(node.id)') <= BUCKET_SIZE

Older(age) == IF age = Never \/ age = StaleAge THEN age ELSE age + 1

Pass ==
  /\ known' = {[e EXCEPT !.last_query = Older(@), !.last_response = Older(@)] :
                 e \in known}
  /\ UNCHANGED depth

Next ==
  \/ \E e \in known, seen_in \in SeenIn : Hear(e, seen_in)
  \/ \E node \in Contacts, seen_in \in SeenIn :
       \/ Learn(node, seen_in)
       \/ Divide(node, seen_in)
       \/ \E e \in known : Replace(e, node, seen_in)
  \/ Pass

Spec == Init /\ [][Next]_vars

=============================================================================
