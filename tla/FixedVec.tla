------------------------------ MODULE FixedVec ------------------------------
(***************************************************************************)
(* rust/src/fixed_vec.rs: an array of BUCKET_SIZE slots, of which the      *)
(* first `length` hold items.  A slot that was never written, or whose     *)
(* item was moved out, holds Uninit: the code reads such a slot as an item *)
(* only if `length` says so, and that read would be undefined behaviour.   *)
(*                                                                         *)
(* The asserts of the methods are the operators named after them with      *)
(* `Fits` and `IsItem`: a caller that violates one panics.                 *)
(***************************************************************************)
EXTENDS Integers, Sequences

CONSTANTS
  BUCKET_SIZE,      \* 8 in the code
  Uninit            \* what a slot without an item holds

ASSUME FixedVecAssumption == BUCKET_SIZE \in Nat \ {0}

Slot == 0 .. BUCKET_SIZE - 1

new == [data |-> [i \in Slot |-> Uninit], length |-> 0]

empty_slots(v) == BUCKET_SIZE - v.length

is_full(v) == v.length = BUCKET_SIZE

is_not_full(v) == v.length < BUCKET_SIZE

\* The items as the callers see them, first to last.
as_slice(v) == [i \in 1 .. v.length |-> v.data[i - 1]]

PushFits(v) == is_not_full(v)

push(v, item) ==
  [data |-> [v.data EXCEPT ![v.length] = item], length |-> v.length + 1]

IsItem(v, index) == index < v.length

\* The item removed, and the vector after the last item took its slot.
swap_remove(v, index) ==
  LET last == v.length - 1
  IN  [item |-> v.data[index],
       rest |-> [data   |-> [v.data EXCEPT ![index] = v.data[last],
                                           ![last]  = Uninit],
                 length |-> last]]

AppendFits(v, other) == empty_slots(v) >= other.length

\* Mutant: length keeps counting the copied items only.
append_forgetting(v, other) ==
  [data   |-> [i \in Slot |-> IF i < other.length THEN other.data[i] ELSE v.data[i]],
   length |-> other.length]

\* append writes the items of the other vector from slot 0 on, whatever this
\* one holds: it appends only if one of the two has no items, which it does not
\* assert.  append_vec, which only tests call, writes behind the items.
append(v, other) ==
  [data   |-> [i \in Slot |-> IF i < other.length THEN other.data[i] ELSE v.data[i]],
   length |-> v.length + other.length]

=============================================================================
