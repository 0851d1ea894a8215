---------------------------- MODULE Subsequences ----------------------------
(***************************************************************************)
(* The elements of a sequence at chosen positions, in their order.  The    *)
(* definition is explicit (no recursion), so that facts about it can be    *)
(* proved for sequences of every length: see GoRoutingTableProofs.         *)
(***************************************************************************)
EXTENDS Integers, Sequences, FiniteSets

\* How many of the chosen positions are not beyond position i.
Rank(positions, i) == Cardinality({k \in positions : k <= i})

\* The elements of s at the chosen positions, in their order.
Subsequence(s, positions) ==
  [j \in 1 .. Cardinality(positions) |->
      s[CHOOSE i \in positions : Rank(positions, i) = j]]

=============================================================================
