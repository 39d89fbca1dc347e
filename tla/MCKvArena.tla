----------------------------- MODULE MCKvArena -----------------------------
(***************************************************************************)
(* Small instances of KvArena.                                             *)
(***************************************************************************)
EXTENDS KvArena

CONSTANTS ra, rb

(* Pages of two tokens.  The prompt of ra ends inside a page; the prompt   *)
(* of rb continues what ra says ...                                        *)
MCTokens == [r \in Requests |-> IF r = ra THEN <<1, 1>> ELSE <<1, 1, 1>>]
(* ... or departs from it after the prompt of ra ...                       *)
MCDeparting == [r \in Requests |-> IF r = ra THEN <<1, 2>> ELSE <<1, 1, 1>>]
(* ... for two decode rounds.                                              *)
MCTwoRounds == [r \in Requests |-> IF r = ra THEN <<1, 2, 1>> ELSE <<1, 1, 1>>]
MCPrompt == [r \in Requests |-> IF r = ra THEN 1 ELSE 3]
MCTotal  == [r \in Requests |-> IF r = ra THEN 2 ELSE 4]
MCTwoRoundsTotal == [r \in Requests |-> IF r = ra THEN 3 ELSE 4]

SlotSymmetry == Permutations(Slots)
=============================================================================
