------------------------- MODULE MCEngineLifecycle -------------------------
(***************************************************************************)
(* Small instances of EngineLifecycle.                                     *)
(***************************************************************************)
EXTENDS EngineLifecycle, TLC

CONSTANTS r1, r2, r3, k1

(* Three requests: r1 and r2 fit together, one on each decode path; r3 has *)
(* the block-aligned prompt of r1 and needs all the pages.                 *)
MCNeed    == r1 :> 1 @@ r2 :> 1 @@ r3 :> 2
MCKey     == r1 :> k1 @@ r2 :> NoKey @@ r3 :> k1
MCSampled == {r2}

(* Two unrelated requests, one on each decode path. *)
MCNeed2    == r1 :> 1 @@ r2 :> 1
MCKey2     == r1 :> NoKey @@ r2 :> NoKey
MCSampled2 == {r2}

SlotSymmetry == Permutations(Slots)
=============================================================================
