------------------------------ MODULE Orderings ------------------------------
(***************************************************************************)
(* A list comprehension with a condition and sorted(), as the engines use  *)
(* them, for the modules Stages and TreeSearch.  Both arrange some places  *)
(* of a sequence by a strict total order of places, a set of pairs, which  *)
(* says without recursion what SelectSeq and SortSeq compute.              *)
(***************************************************************************)
EXTENDS Integers, Sequences, FiniteSets

(* What s holds at the places I, the least place first. *)
UpTo(i, I, order) == {j \in I : j = i \/ <<j, i>> \in order}
Nth(k, I, order) == CHOOSE i \in I : Cardinality(UpTo(i, I, order)) = k
Arranged(s, I, order) ==
  [k \in 1..Cardinality(I) |-> s[Nth(k, I, order)]]

(* [x for x in s if ...]: the places I, which keep their order. *)
Before(I) == {p \in I \X I : p[1] < p[2]}
Keep(s, I) == Arranged(s, I, Before(I))
=============================================================================
