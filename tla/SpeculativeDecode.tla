------------------------- MODULE SpeculativeDecode -------------------------
(***************************************************************************)
(* One slot of the Qwen3.6 backend decoding with multi-token prediction:   *)
(* runtime/backends/qwen36_mtp.py (verify, accept, commit, re-draft), with *)
(* the acceptance rule of runtime/mtp_accept.py, the thinking budget of    *)
(* runtime/thinking_budget.py, and the loop of server/engine.py that       *)
(* keeps, cuts and ends what a round commits.  Greedy requests.            *)
(*                                                                         *)
(* A recurrent state is the token sequence it has absorbed; the verify     *)
(* forward predicts from it.  What the draft head proposes is arbitrary.   *)
(* Which prefix a request may resume from is PrefixCheckpoints' matter:    *)
(* here it is any.                                                         *)
(***************************************************************************)
EXTENDS Naturals, Sequences, FiniteSets

CONSTANTS
  Tok,
  Eos,
  StartMarker, EndMarker,   \* of a reasoning span
  Prompts,
  Budgets,                  \* thinking budgets, 0 for none
  Models,
  Target(_, _),             \* a model's greedy next token after a context
  Sources,                  \* where restored prefixes come from
  K,                        \* drafts per round
  Chunk,                    \* prefill chunk
  MaxTokens

ASSUME SpeculativeAssumption ==
  /\ Eos \in Tok
  /\ StartMarker \in Seq(Tok) \ {<<>>} /\ EndMarker \in Seq(Tok) \ {<<>>}
  /\ Prompts \subseteq Seq(Tok) \ {<<>>}
  /\ Budgets \subseteq Nat
  /\ Sources \subseteq {"kept", "copied"}
  /\ K \in Nat \ {0} /\ Chunk \in Nat \ {0} /\ MaxTokens \in Nat \ {0}

VARIABLES
  model,      \* fixed: the loaded weights
  prompt, budget, out, reason,        \* the request, as in GreedyDecode
  phase,      \* of the slot: "free", "prefill" or "live"
  kv,         \* the tokens the target's KV holds
  rows, col,  \* the K+1 recurrent rows and the live one
  committed,  \* slot_committed_tokens
  drafts,     \* the engine's drafts for the next round
  sync, seqLen, \* _sync_len and the MTP cache's seq_len
  fault,      \* a consistency check raised
  lost        \* history: how many tokens of the slot's last restored prefix
              \* copy_prefix cleared from the recurrent state.  The code has
              \* no such counter and no guard reads it

vars == <<model, prompt, budget, out, reason, phase, kv, rows, col, committed,
          drafts, sync, seqLen, fault, lost>>

Drafts == [1..K -> Tok]

NoDrafts == <<>>

Prefix(s, n) == SubSeq(s, 1, n)

Maximum(S) == CHOOSE x \in S : \A y \in S : y <= x

-----------------------------------------------------------------------------
(* ThinkingBudgetState *)

(* _last_sequence_index, counting from 1; 0 when there is none *)
LastIndex(s, marker) ==
  Maximum({0} \cup {i \in 1..Len(s) : /\ i + Len(marker) - 1 <= Len(s)
                                      /\ SubSeq(s, i, i + Len(marker) - 1) = marker})

InSpan(s) ==
  LastIndex(s, StartMarker) > 0 /\ LastIndex(s, StartMarker) >= LastIndex(s, EndMarker)

(* Tokens since the start marker. *)
SpanCount(s) == Len(s) - (LastIndex(s, StartMarker) + Len(StartMarker) - 1)

(* _end_prefix_length *)
EndPrefixLength(s) ==
  Maximum({0} \cup {n \in 1..Len(EndMarker) - 1 :
                      n <= Len(s) /\ SubSeq(s, Len(s) - n + 1, Len(s)) = Prefix(EndMarker, n)})

NoForce == <<>>

(* Mutant: the position is not clamped at the budget's last token. *)
ForceLate(s, b, width) ==
  IF b = 0 \/ ~InSpan(s) THEN NoForce
  ELSE IF EndPrefixLength(s) > 0 THEN <<0, EndMarker[EndPrefixLength(s) + 1]>>
  ELSE LET position == IF SpanCount(s) >= b THEN 0 ELSE b - SpanCount(s) + 1
       IN  IF position >= width THEN NoForce ELSE <<position, EndMarker[1]>>

(* force_for: <<position, token>> in the next width positions, or NoForce *)
ForceFor(s, b, width) ==
  IF b = 0 \/ ~InSpan(s) THEN NoForce
  ELSE IF EndPrefixLength(s) > 0 THEN <<0, EndMarker[EndPrefixLength(s) + 1]>>
  ELSE LET position == IF SpanCount(s) >= b THEN 0 ELSE b - SpanCount(s)
       IN  IF position >= width THEN NoForce ELSE <<position, EndMarker[1]>>

(* What the target yields after ctx, p positions into a block with force f. *)
Predict(ctx, p, f) ==
  IF f # NoForce /\ f[1] = p THEN f[2] ELSE Target(model, ctx)

-----------------------------------------------------------------------------
(* Acceptance *)

(* Mutant: a mismatch does not end the accepted prefix. *)
AcceptMatches(d, pred) == Cardinality({p \in 0..K-1 : pred[p] = d[p + 1]})

(* determine_accept_reject_from_predictions: num_accepted *)
NumAccepted(d, pred) ==
  CHOOSE m \in 0..K : /\ \A p \in 0..K-1 : p < m => pred[p] = d[p + 1]
                      /\ m < K => pred[m] # d[m + 1]

(* determine_accept_reject_batch: the sum of a running conjunction *)
NumAcceptedBatch(d, pred) ==
  Cardinality({p \in 0..K-1 : \A q \in 0..p : pred[q] = d[q + 1]})

(* The accepted drafts and the recovery or bonus token. *)
Commit(d, pred, m) == Append(Prefix(d, m), pred[m])

-----------------------------------------------------------------------------
(* The engine's loop over the tokens of a round *)

(* How many of them the client gets. *)
Keep(toks) ==
  CHOOSE n \in 0..Len(toks) :
    /\ \A i \in 1..n : toks[i] # Eos
    /\ Len(out) + n <= MaxTokens
    /\ n = Len(toks) \/ Len(out) + n = MaxTokens \/ toks[n + 1] = Eos

ReasonAfter(toks) ==
  IF Len(out) + Keep(toks) >= MaxTokens THEN "length"
  ELSE IF Keep(toks) < Len(toks) THEN "stop" ELSE "running"

(* reset_slot; ok: the MTP cache is as long as the target's KV, or         *)
(* preserve_prefix raises.                                                 *)
Reset(ok) ==
  /\ phase' = "free"
  /\ kv' = <<>> /\ committed' = <<>> /\ drafts' = NoDrafts
  /\ rows' = [c \in 0..K |-> <<>>] /\ col' = 0
  /\ sync' = 0 /\ seqLen' = 0
  /\ fault' = (fault \/ ~ok)

(* What activation and a round do with the tokens they commit; live is     *)
(* what becomes of the slot if the request goes on, ok says that no check  *)
(* raises on the way to a reset.                                           *)
Deliver(toks, ok, live) ==
  /\ out' = out \o Prefix(toks, Keep(toks))
  /\ reason' = ReasonAfter(toks)
  /\ IF ReasonAfter(toks) = "running" THEN live ELSE Reset(ok)

-----------------------------------------------------------------------------
Init ==
  /\ model \in Models
  /\ prompt = <<>> /\ budget = 0 /\ out = <<>> /\ reason = "none"
  /\ phase = "free"
  /\ kv = <<>> /\ committed = <<>> /\ drafts = NoDrafts
  /\ rows = [c \in 0..K |-> <<>>] /\ col = 0
  /\ sync = 0 /\ seqLen = 0
  /\ fault = FALSE
  /\ lost = 0

(* The recurrent rows after a restore.  The checkpoint goes into column 0; *)
(* copy_prefix, for a rolling checkpoint of another slot, then clears the  *)
(* slot's speculative rows, column 0 with them.                            *)
Restored(state, source) ==
  IF source = "copied" THEN [c \in 0..K |-> <<>>] ELSE [rows EXCEPT ![0] = state]

(* prefill_chunked_begin: resume from n cached tokens of the prompt, kept  *)
(* by this slot or in the arena, or copied from another slot's checkpoint, *)
(* which is shorter than the prompt.                                       *)
Begin(p, b, n, source) ==
  /\ phase = "free" /\ phase' = "prefill"
  /\ source = "copied" => n \in 1..Len(p) - 1
  /\ prompt' = p /\ budget' = b /\ out' = <<>> /\ reason' = "running"
  /\ kv' = Prefix(p, n) /\ rows' = Restored(Prefix(p, n), source)
  /\ sync' = n /\ seqLen' = n
  /\ lost' = IF source = "copied" THEN n ELSE 0
  /\ UNCHANGED <<model, col, committed, drafts, fault>>

(* A chunk that is not the last. *)
PrefillChunk ==
  LET toks == SubSeq(prompt, Len(kv) + 1, Len(kv) + Chunk) IN
  /\ phase = "prefill" /\ Len(kv) + Chunk < Len(prompt)
  /\ kv' = kv \o toks /\ rows' = [rows EXCEPT ![col] = @ \o toks]
  /\ sync' = sync + Chunk /\ seqLen' = sync + Chunk
  /\ UNCHANGED <<model, prompt, budget, out, reason, phase, col, committed, drafts, fault, lost>>

(* Mutant: the restored tail row is synchronised a second time. *)
SyncedTwice == sync + (IF Len(kv) = Len(prompt) THEN 1 ELSE Len(prompt) - Len(kv))

(* The synchronised length after the last chunk; when the whole prompt was *)
(* restored its last row is synchronised again.                            *)
SyncedPrompt == IF Len(kv) = Len(prompt) THEN (sync - 1) + 1 ELSE sync + Len(prompt) - Len(kv)

(* The state after the prompt, and the token it predicts. *)
PromptRest == SubSeq(prompt, Len(kv) + 1, Len(prompt))

PromptState == rows[col] \o PromptRest

FirstToken == Predict(PromptState, 0, ForceFor(prompt, budget, 1))

(* The last chunk: the first token, its drafts, and the slot's activation. *)
PrefillLast ==
  /\ phase = "prefill" /\ Len(kv) + Chunk >= Len(prompt)
  /\ Deliver(<<FirstToken>>, col = 0 /\ SyncedPrompt = Len(prompt),
       /\ phase' = "live"
       /\ kv' = kv \o PromptRest /\ rows' = [rows EXCEPT ![col] = PromptState]
       /\ committed' = Append(prompt, FirstToken)
       /\ drafts' \in Drafts
       /\ sync' = SyncedPrompt /\ seqLen' = SyncedPrompt + K - 1
       /\ fault' = (fault \/ col # 0)
       /\ UNCHANGED col)
  /\ UNCHANGED <<model, prompt, budget, lost>>

(* The anchor, whose KV is still to be written, and its drafts. *)
VerifyTokens == <<committed[Len(committed)]>> \o drafts

(* The recurrent rows their verify leaves: row p after position p. *)
VerifyRows == [p \in 0..K |-> rows[col] \o Prefix(VerifyTokens, p + 1)]

Predictions ==
  LET force == ForceFor(prompt \o out, budget, K + 1) IN
  [p \in 0..K |-> Predict(VerifyRows[p], p, force)]

(* Mutant: the row before the accepted one stays live. *)
PreviousRow(m) == IF m = 0 THEN 0 ELSE m - 1

(* activate: the row after the anchor and m accepted drafts *)
LiveRow(m) == m

(* A round that accepts m drafts. *)
RoundWith(pred, m) ==
  /\ Deliver(Commit(drafts, pred, m), seqLen = sync + K - 1 /\ sync = Len(kv),
       /\ kv' = kv \o Prefix(VerifyTokens, m + 1)
       /\ rows' = VerifyRows /\ col' = LiveRow(m)
       /\ committed' = committed \o Commit(drafts, pred, m)
       /\ drafts' \in Drafts
       /\ sync' = sync + m + 1 /\ seqLen' = sync + m + K
       /\ fault' = (fault \/ seqLen # sync + K - 1)
       /\ UNCHANGED phase)
  /\ UNCHANGED <<model, prompt, budget, lost>>

(* One verify of the anchor and its drafts, by the eager or the batched    *)
(* path.                                                                   *)
Round ==
  /\ phase = "live"
  /\ \E pred \in {Predictions} :
       \E m \in {NumAccepted(drafts, pred), NumAcceptedBatch(drafts, pred)} : RoundWith(pred, m)

(* A client that went away, a timeout, an error of another request: the    *)
(* slot is reset in whatever state it is.  A prompt that was never         *)
(* committed is not preserved.                                             *)
Abort ==
  /\ phase # "free"
  /\ reason' = "abort"
  /\ Reset(phase = "live" => sync = Len(kv))
  /\ UNCHANGED <<model, prompt, budget, out, lost>>

Next ==
  \/ \E p \in Prompts, b \in Budgets, source \in Sources :
       \E n \in 0..Len(p) : Begin(p, b, n, source)
  \/ PrefillChunk \/ PrefillLast \/ Round \/ Abort

Spec == Init /\ [][Next]_vars

-----------------------------------------------------------------------------
(* Properties *)

(* What a client of greedy decoding sees of the request: all of it, or,    *)
(* when copy_prefix cleared part of its recurrent state, a request that    *)
(* yields nothing and is given up.                                         *)
SeenOut == IF lost = 0 THEN out ELSE <<>>

SeenReason == IF lost > 0 /\ phase = "free" THEN "abort" ELSE reason

Greedy == INSTANCE GreedyDecode WITH EndTokens <- {EndMarker[i] : i \in DOMAIN EndMarker},
                                     out <- SeenOut, reason <- SeenReason

(* Speculation is invisible: whatever the drafts, however many of them are *)
(* accepted, and wherever a round is cut, the client's tokens and its      *)
(* finish reason are those of greedy decoding by the target alone, and     *)
(* every round brings it at least one token or ends the request.  Only a   *)
(* request that itself resumed from a copied prefix is excepted; the ones  *)
(* the slot serves after it are not.                                       *)
GreedyImplemented == Greedy!Spec

(* Between rounds the live recurrent row has absorbed exactly the tokens   *)
(* in the KV, which are the committed ones but for the last.  After a      *)
(* copied prefix it lacks the tokens copy_prefix cleared and no other: no  *)
(* later round loses or repeats one.                                       *)
LiveRowIsKv ==
  phase = "live" =>
    /\ rows[col] = SubSeq(kv, lost + 1, Len(kv))
    /\ committed = prompt \o out
    /\ Len(committed) = Len(kv) + 1 /\ kv = Prefix(committed, Len(kv))

(* A copied prefix brings its recurrent state along.                       *)
CopyKeepsState == phase = "live" => rows[col] = kv

(* The draft head keeps step with the target through restores, partial     *)
(* acceptance and cut rounds: none of the checks that raise in round,      *)
(* sync_from_live and preserve_prefix ever does.                           *)
LockStep == ~fault /\ (phase = "live" => sync = Len(kv) /\ seqLen = sync + K - 1)

(* What force_for makes of a budget: a reasoning span of the output that   *)
(* was open when a round began ends at the budget, wherever in the         *)
(* speculative block that falls; a span that opens inside a block is not   *)
(* seen before the next, and may use up the K tokens of the block.  Of an  *)
(* end marker of several tokens only the first is sure to come.            *)
SpanWithinBudget ==
  budget > 0 /\ Len(EndMarker) = 1 => \A n \in 1..Len(out) :
    LET s == prompt \o Prefix(out, n) IN InSpan(s) => SpanCount(s) <= Maximum({budget, K})

(* A reasoning span of the output is never longer than its budget and the  *)
(* marker that ends it.                                                    *)
BudgetKept ==
  budget > 0 => \A n \in 1..Len(out) :
    LET s == prompt \o Prefix(out, n) IN InSpan(s) => SpanCount(s) <= budget + Len(EndMarker) - 1

(* A token forced inside a speculative block is the one plain decoding     *)
(* forces at that place: none is committed under the wrong context.        *)
ForcedInContext ==
  \A n \in 1..Len(out) :
    LET s == prompt \o Prefix(out, n - 1)
        f == ForceFor(s, budget, 1)
    IN  out[n] = IF f # NoForce THEN f[2] ELSE Target(model, s)

=============================================================================
