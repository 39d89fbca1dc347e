------------------------ MODULE MCPrefixCheckpoints ------------------------
(* Instances of PrefixCheckpoints for TLC. *)
EXTENDS PrefixCheckpoints, TLC

(* Prompts off the block boundary and one on it.  The first, decoded by    *)
(* the plain path to the text, lists the second as its tokens.             *)
Mixed      == {<<1>>, <<1, 1, 1, 2>>, <<2, 1, 1>>}
MixedTexts == {<<1, 1, 2, 2>>, <<2, 1, 1, 1>>}
Refused    == {<<1, 1, 1, 2>>}
MixedPaths == [p \in Mixed |-> IF p = <<1>> THEN {"plain"} ELSE {"verify"}]

SameLength == {<<1>>, <<2, 2>>}
Ones       == {<<1, 1, 1, 1>>}

OnBlock    == {<<1>>, <<1, 1>>}

OffBlock        == {<<1>>, <<1, 1, 2>>, <<2, 1, 1>>}
OffBlockRefused == {<<2, 1, 1>>, <<1, 1, 2>>}

Long       == {<<1>>, <<1, 1, 1, 2, 1>>}

SlotSymmetry == Permutations(Slots)

AllPlain  == [p \in Prompts |-> {"plain"}]
AllVerify == [p \in Prompts |-> {"verify"}]
=============================================================================
