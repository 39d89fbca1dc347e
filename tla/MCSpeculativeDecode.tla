------------------------ MODULE MCSpeculativeDecode ------------------------
(* Instances of SpeculativeDecode for TLC: 1 opens a reasoning span, 2     *)
(* closes it, 3 is text, 4 ends the sequence.  A model is any map to a     *)
(* token from a digest of the context: its last token and its length.      *)
EXTENDS SpeculativeDecode

OneStart == <<1>>
OneEnd   == <<2>>
TwoEnd   == <<2, 3>>

Texts    == {<<3>>, <<3, 3, 1>>}

(* The prompt of a chat template that opens the span itself, and a model   *)
(* that opens no other.                                                    *)
OpenSpan == {<<3, 1>>}

AllModels == [0..2 -> Tok]
NoStart   == [0..4 -> Tok \ {1}]

DigestTarget(m, ctx) == m[(ctx[Len(ctx)] + Len(ctx)) % 3]

Script(m, ctx) == m[Len(ctx) % 5]
=============================================================================
