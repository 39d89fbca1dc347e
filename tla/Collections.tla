---------------------------- MODULE Collections ----------------------------
(***************************************************************************)
(* Parts of a sequence and totals of a function, defined by sets so that   *)
(* they can be reasoned about: Pick(s, I), with I the positions of the     *)
(* elements that pass a test, is SelectSeq, and Total(f, S) is the sum of  *)
(* f[x] over the elements x of S.                                          *)
(***************************************************************************)
EXTENDS Naturals, Sequences, FiniteSets

(* The elements of a finite set of numbers, in ascending order. *)
Ascending(I) ==
  CHOOSE e \in [1..Cardinality(I) -> I] :
    \A i, j \in 1..Cardinality(I) : i < j => e[i] < e[j]

(* The elements of s at the positions in I. *)
Pick(s, I) == [n \in 1..Cardinality(I) |-> s[Ascending(I)[n]]]

(* The elements of s that are not in C. *)
Drop(s, C) == Pick(s, {i \in 1..Len(s) : s[i] \notin C})

(* f[x] units for each x in S, and how many units that makes. *)
Units(f, S) == UNION {{x} \X (1..f[x]) : x \in S}

Total(f, S) == Cardinality(Units(f, S))
=============================================================================
