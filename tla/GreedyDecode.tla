---------------------------- MODULE GreedyDecode ----------------------------
(***************************************************************************)
(* What decoding promises a client, however the backend gets there: the    *)
(* tokens of a request are the target model's greedy continuation of the   *)
(* prompt, cut before the end-of-sequence token and at the requested       *)
(* length.  A request with a thinking budget may see tokens of the         *)
(* reasoning-end marker that the model did not choose; no other token is   *)
(* ever put in.                                                            *)
(*                                                                         *)
(* SpeculativeDecode is shown to implement this.                           *)
(***************************************************************************)
EXTENDS Naturals, Sequences

CONSTANTS
  Target(_, _),   \* the model's greedy next token after a context
  EndTokens,      \* the tokens of the reasoning-end marker
  Eos,
  MaxTokens

VARIABLES
  model,
  prompt,
  budget,   \* the thinking budget, 0 without one
  out,      \* the tokens the client has
  reason    \* "none", "running", "stop", "length" or "abort"

vars == <<model, prompt, budget, out, reason>>

(* The tokens that may come next after ctx. *)
Choices(ctx) == {Target(model, ctx)} \cup (IF budget = 0 THEN {} ELSE EndTokens)

Init == prompt = <<>> /\ budget = 0 /\ out = <<>> /\ reason = "none"

Start ==
  /\ reason # "running" /\ reason' = "running"
  /\ out' = <<>>
  /\ UNCHANGED model

(* Any number of tokens at once. *)
Extends ==
  /\ Len(out') >= Len(out)
  /\ \A i \in 1..Len(out) : out'[i] = out[i]
  /\ \A i \in Len(out) + 1 .. Len(out') :
       out'[i] # Eos /\ out'[i] \in Choices(prompt \o SubSeq(out', 1, i - 1))

Generate ==
  /\ reason = "running"
  /\ Extends
  /\ \/ reason' = "running" /\ Len(out') \in Len(out) + 1 .. MaxTokens - 1
     \/ reason' = "length" /\ Len(out') = MaxTokens
     \/ reason' = "stop" /\ Len(out') < MaxTokens /\ Eos \in Choices(prompt \o out')
  /\ UNCHANGED <<model, prompt, budget>>

Abort ==
  /\ reason = "running" /\ reason' = "abort"
  /\ UNCHANGED <<model, prompt, budget, out>>

Next == Start \/ Generate \/ Abort

Spec == Init /\ [][Next]_vars
=============================================================================
