---------------------------- MODULE Subsequences ----------------------------
(* The part of a sequence at given positions, in the order of the sequence.   *)
(* SelectSeq of the module Sequences picks the same elements, but the prover  *)
(* has no definition of it; this one is stated without recursion.             *)
EXTENDS Integers, Sequences, FiniteSets

(* How many of the positions I come up to i.                                  *)
Rank(I, i) == Cardinality({k \in I : k <= i})

Picked(s, I) ==
  [n \in 1..Cardinality(I) |-> s[CHOOSE i \in I : Rank(I, i) = n]]
=============================================================================
