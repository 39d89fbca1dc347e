------------------------------ MODULE KvArena ------------------------------
(***************************************************************************)
(* The dynamic KV arena of the Qwen backend: the page-bundle allocator     *)
(* (runtime/model/qwen36_kv_arena.py), the slots' page tables over it      *)
(* (runtime/model/qwen36_slots.py) and the two prefix caches that revive   *)
(* its pages (runtime/backends/qwen36.py): persistent entries, which name  *)
(* bundles, and rolling per-slot checkpoints, which name hashes.           *)
(*                                                                         *)
(* A chained block hash stands for the whole token prefix up to its        *)
(* boundary, so a hash is modelled by that prefix (no collisions).  What a *)
(* bundle's KV bytes hold is modelled the same way: bytes[b] is the longest*)
(* token prefix whose last page those bytes are.  Bytes that nobody may    *)
(* rely on any more, those of a bundle freed without a hash or handed out  *)
(* for an empty page, are set to <<>>: whoever did rely on them would be   *)
(* found out by the properties.                                            *)
(*                                                                         *)
(* Everything here runs on the engine thread; the steps of different slots *)
(* interleave as admission waves, prefill chunks and decode rounds do.     *)
(***************************************************************************)
EXTENDS Naturals, Sequences, FiniteSets, SequencesExt, Collections

CONSTANTS
  Slots,
  NumBundles,   \* usable bundles (the null bundle 0 is not counted)
  PageSize,     \* page_size: tokens of one bundle
  BlockSize,    \* block_size: tokens of one hashed block
  MaxPages,     \* pages_per_slot
  Watermark,    \* watermark_bundles
  Requests,     \* kinds of request; each may come again and again
  NoReq,
  Tokens,       \* prompt and output of a request, per kind
  Prompt,       \* prompt length, per kind
  TotalTokens,  \* prompt + max_tokens + K, per kind
  Chunk,        \* chunk_size: tokens of a prefill chunk
  Plain,        \* kinds decoded by decode_batch_sampled; the others by verify
  Faults,       \* calls whose forward may raise a recoverable exception
  EntryBudget,  \* persistent checkpoints the byte budget allows
  Caches        \* "persistent", "rolling": the prefix caches in use

Bundles == 1..NumBundles
Pages   == 1..MaxPages

PagesFor(n) == (n + PageSize - 1) \div PageSize

ASSUME ArenaAssumption ==
  /\ IsFiniteSet(Slots) /\ NumBundles \in Nat \ {0} /\ MaxPages \in Nat \ {0}
  /\ BlockSize \in Nat \ {0} /\ PageSize \in Nat \ {0} /\ PageSize % BlockSize = 0
  /\ Watermark \in Nat /\ EntryBudget \in Nat /\ Chunk \in Nat \ {0}
  /\ NoReq \notin Requests
  /\ Tokens \in [Requests -> Seq(Nat)]
  /\ Prompt \in [Requests -> Nat] /\ TotalTokens \in [Requests -> Nat]
  /\ \A r \in Requests :
       /\ 0 < Prompt[r] /\ Prompt[r] <= Len(Tokens[r]) /\ Len(Tokens[r]) <= TotalTokens[r]
       /\ PagesFor(TotalTokens[r]) <= MaxPages
  /\ Plain \subseteq Requests /\ Faults \subseteq {"prefill", "plain", "verify"}
  /\ Caches \subseteq {"persistent", "rolling"}

VARIABLES
  (* QwenPageBundlePool *)
  ref,      \* ref_cnt, per bundle
  queue,    \* the free queue, head first
  pub,      \* published hashes, per bundle (_bundle_hashes, _hash_to_bundles)
  res,      \* _reservations, per slot (0: none)
  bytes,    \* what the KV bytes of a bundle hold
  (* Qwen36SlotPool *)
  row,      \* _page_table_host: 0 is the null bundle
  own,      \* the row under construction; its bundles are _slot_bundles
  len,      \* slot_kv_len
  pos,      \* positions whose KV is written: ahead of len during a prefill,
            \* behind it while a plain decode round runs
  (* Qwen36Backend *)
  entries,  \* _persistent_prefixes
  ckpt,     \* the rolling checkpoint of a slot: the prefix it was taken at
  cached,   \* _prefix_cache_tokens[:_prefix_cache_kv_len] of a slot
  (* the request a slot serves *)
  req, phase, want

poolVars  == <<ref, queue, pub, res, bytes>>
cacheVars == <<entries, ckpt, cached>>
vars == <<poolVars, row, own, len, pos, cacheVars, req, phase, want>>

-----------------------------------------------------------------------------
(* Helpers.                                                                *)

Prefix(r, n) == SubSeq(Tokens[r], 1, n)

Least(a, b) == IF a < b THEN a ELSE b

Reserved == Total(res, Slots)

(* _unreserved_free_bundles, for a free queue of n bundles *)
Unreserved(n) == IF n > Reserved + Watermark THEN n - Reserved - Watermark ELSE 0

(* The tests of allocate(1, owner=s), for a free queue of n bundles. *)
MayAllocate(s, n) == n > 0 /\ (res[s] > 0 \/ Unreserved(n) > 0)

(* Mutant: a page that was handed out stays promised. *)
ConsumeNone(s, n) == res

(* _consume_reservation: a request without a reservation consumes none. *)
Consume(s, n) == [res EXCEPT ![s] = IF @ = 0 THEN 0 ELSE @ - n]

(* _drop_hash: the hashes of a bundle leave the index.  Mutant: they stay. *)
KeepHash(b) == pub

DropHash(b) == [pub EXCEPT ![b] = {}]

(* Mutant: no callback. *)
EntriesKept(b) == entries

(* Entries left when the published content of b is evicted: its callback   *)
(* _on_dynamic_bundle_evicted drops every entry that names b.              *)
EntriesWithout(b) == {e \in entries : b \notin Range(e.bundles)}

Owned(s) == Range(own[s]) \ {0}

(* lookup: some bundle that published the prefix k (the list order of the  *)
(* index is abstracted). *)
Holders(k) == {b \in Bundles : k \in pub[b]}

(* Mutant: a shared bundle is freed with its first reference. *)
DecrefQueueShared(q, D, p) ==
  q \o Ascending(D)

(* decref of every bundle of D (once each): at zero a bundle with a hash   *)
(* goes to the tail, one without to the head, in the order of their ids.   *)
DecrefQueue(q, D, p) ==
  LET gone == {b \in D : ref[b] = 1}
  IN  Reverse(Ascending({b \in gone : p[b] = {}})) \o q \o Ascending({b \in gone : p[b] # {}})

(* slot_committed_tokens[:n], from which the caches take their keys.       *)
(* _commit_prefill lists the prompt and the first token; the first plain   *)
(* decode step appends that token again, so beyond it the list of a plain  *)
(* request is one token behind its KV.                                     *)
Listed(r, n) ==
  [i \in 1..n |-> Tokens[r][IF r \in Plain /\ i > Prompt[r] + 1 THEN i - 1 ELSE i]]

(* publish_committed_blocks: the listed tokens at the block boundaries up  *)
(* to n (and n itself, include_partial) are published on the bundles of    *)
(* the pages they end in.                                                  *)
Boundaries(n) == {m \in 1..n : m % BlockSize = 0}

Published(s, ends) ==
  [b \in Bundles |-> pub[b] \cup {Listed(req[s], m) : m \in {m \in ends : row[s][PagesFor(m)] = b}}]

-----------------------------------------------------------------------------
Init ==
  /\ ref = [b \in Bundles |-> 0] /\ queue = [b \in Bundles |-> b]
  /\ pub = [b \in Bundles |-> {}] /\ bytes = [b \in Bundles |-> <<>>]
  /\ res = [s \in Slots |-> 0]
  /\ row = [s \in Slots |-> [i \in Pages |-> 0]] /\ own = row /\ len = [s \in Slots |-> 0]
  /\ pos = [s \in Slots |-> 0]
  /\ entries = {} /\ ckpt = [s \in Slots |-> <<>>] /\ cached = [s \in Slots |-> <<>>]
  /\ req = [s \in Slots |-> NoReq] /\ phase = [s \in Slots |-> "idle"]
  /\ want = [s \in Slots |-> 0]

(* reserve_kv_capacity: the whole declared length, or the request waits.   *)
(* The engine admits a wave between forwards, with no prefill pending.     *)
ReserveKv(s, r) ==
  /\ phase[s] = "idle"
  /\ \A t \in Slots : phase[t] \notin {"prefill", "failed"} /\ want[t] = 0
  /\ PagesFor(TotalTokens[r]) + Reserved + Watermark <= Len(queue)
  /\ res' = [res EXCEPT ![s] = PagesFor(TotalTokens[r])]
  /\ req' = [req EXCEPT ![s] = r]
  /\ phase' = [phase EXCEPT ![s] = "reserved"]
  /\ UNCHANGED <<ref, queue, pub, bytes, row, own, len, pos, cacheVars, want>>

-----------------------------------------------------------------------------
(* _apply_prefix_hit.                                                      *)

StartPrefill(s, n) ==
  /\ len' = [len EXCEPT ![s] = n]
  /\ pos' = [pos EXCEPT ![s] = n]
  /\ phase' = [phase EXCEPT ![s] = IF n = Prompt[req[s]] THEN "decode" ELSE "prefill"]

(* No usable prefix, or one the speculative engine has no copy of. *)
RestoreMiss(s) ==
  /\ phase[s] = "reserved"
  /\ StartPrefill(s, 0)
  /\ UNCHANGED <<poolVars, row, own, cacheVars, req, want>>

(* _restore_cached_page_prefix: reference the source pages of the prefix   *)
(* of n tokens; a partial last page is copied to a private one.  forget:   *)
(* drop_prefix_cache was called on s first.                                *)
RestoreCached(s, n, src, forget) ==
  LET sources == Range(src)
      pages   == PagesFor(n)
      partial == n % PageSize # 0
      revived == Pick(src, {i \in 1..pages : ref[src[i]] = 0})
      q1      == Drop(queue, Range(revived))
      full    == IF partial THEN {src[i] : i \in 1..(pages - 1)} ELSE sources
      usable  == /\ \A b \in sources : ref[b] > 0 \/ pub[b] # {}
                 /\ res[s] = 0 \/ res[s] >= pages
                 /\ Len(revived) <= res[s] + Unreserved(Len(queue))
      fits    == ~partial \/ MayAllocate(s, Len(q1))
      last    == src[pages]
      tail    == Head(q1)
  IN  /\ ckpt' = IF forget THEN [ckpt EXCEPT ![s] = <<>>] ELSE ckpt
      /\ cached' = IF forget THEN [cached EXCEPT ![s] = <<>>] ELSE cached
      /\ \/ /\ ~(usable /\ fits)
            (* a safe miss; what was revived is parked again, at the tail *)
            /\ queue' = IF usable THEN q1 \o revived ELSE queue
            /\ StartPrefill(s, 0)
            /\ UNCHANGED <<ref, pub, res, bytes, row, entries>>
         \/ /\ usable /\ fits /\ ~partial
            /\ ref' = [b \in Bundles |-> IF b \in full THEN ref[b] + 1 ELSE ref[b]]
            /\ queue' = q1
            /\ res' = Consume(s, pages)
            /\ row' = [row EXCEPT ![s] = [i \in Pages |-> IF i <= pages THEN src[i] ELSE @[i]]]
            /\ StartPrefill(s, n)
            /\ UNCHANGED <<pub, bytes, entries>>
         \/ /\ usable /\ fits /\ partial
            /\ ref' = [b \in Bundles |-> IF b = tail THEN 1
                                         ELSE IF b \in full THEN ref[b] + 1 ELSE ref[b]]
            /\ queue' = Tail(q1) \o (IF ref[last] = 0 THEN <<last>> ELSE <<>>)
            /\ pub' = DropHash(tail)
            /\ entries' = IF pub[tail] = {} THEN entries ELSE EntriesWithout(tail)
            /\ bytes' = [bytes EXCEPT ![tail] = bytes[last]]
            /\ res' = Consume(s, pages)
            /\ row' = [row EXCEPT ![s] = [i \in Pages |->
                         IF i < pages THEN src[i] ELSE IF i = pages THEN tail ELSE @[i]]]
            /\ StartPrefill(s, n)
      /\ own' = row'
      /\ UNCHANGED <<req, want>>

(* _restore_persistent_prefix: an entry whose tokens begin the prompt. *)
RestorePersistent(s) ==
  /\ phase[s] = "reserved"
  /\ \E e \in entries :
       /\ IsPrefix(e.tokens, Prefix(req[s], Prompt[req[s]]))
       /\ RestoreCached(s, Len(e.tokens), e.bundles, TRUE)

(* The rolling checkpoint of a slot without a live sequence, matched by    *)
(* _prefix_hit_for_slot: block-aligned, shorter than the prompt, and a     *)
(* prefix both of the prompt and of what that slot last held.              *)
RollingHit(s, o) ==
  /\ len[o] = 0
  /\ ckpt[o] # <<>>
  /\ Len(ckpt[o]) < Prompt[req[s]]
  /\ IsPrefix(ckpt[o], Tokens[req[s]])
  /\ IsPrefix(ckpt[o], cached[o])

(* restore_prefix_from_arena: the block hashes of the prompt are looked up *)
(* until the first miss; the last hit that falls into a page names the     *)
(* bundle of that page.                                                    *)
RestoreRolling(s) ==
  /\ phase[s] = "reserved"
  /\ "rolling" \in Caches
  /\ \E o \in Slots :
       /\ RollingHit(s, o)
       /\ LET n      == Len(ckpt[o])
              hit(m) == \A k \in Boundaries(m) : Holders(Prefix(req[s], k)) # {}
              ends(i) == {m \in Boundaries(n) : hit(m) /\ PagesFor(m) = i}
              deepest(i) == Prefix(req[s], CHOOSE m \in ends(i) : \A k \in ends(i) : k <= m)
              pages  == 1..PagesFor(n)
          IN  IF \E i \in pages : ends(i) = {}
                THEN /\ ckpt' = IF o = s THEN ckpt ELSE [ckpt EXCEPT ![s] = <<>>]
                     /\ cached' = IF o = s THEN cached ELSE [cached EXCEPT ![s] = <<>>]
                     /\ StartPrefill(s, 0)
                     /\ UNCHANGED <<poolVars, row, own, entries, req, want>>
                ELSE \E src \in [pages -> Bundles] :
                       /\ \A i \in pages : src[i] \in Holders(deepest(i))
                       /\ RestoreCached(s, n, src, o # s)

-----------------------------------------------------------------------------
(* Writes: prefill chunks, decode steps and speculative verifies.          *)

(* The calls that write: prefill_chunked_step, decode_batch_sampled and the *)
(* speculative verify.  Each prepares and runs a batch of slots, and the    *)
(* next one begins when it is done.                                         *)
Call(s) == IF phase[s] = "prefill" THEN "prefill"
           ELSE IF req[s] \in Plain THEN "plain" ELSE "verify"

(* How far the call may write: a chunk, one token, or one token and drafts. *)
Reach(s) == CASE Call(s) = "prefill" -> {Least(pos[s] + Chunk, Prompt[req[s]])}
              [] Call(s) = "plain"   -> {pos[s] + 1}
              [] OTHER               -> (pos[s] + 1)..TotalTokens[req[s]]

Private(s, i) ==
  /\ own[s][i] # 0
  /\ ref[own[s][i]] = 1
  /\ pub[own[s][i]] = {}

Touched(s) == IF want[s] = 0 THEN {} ELSE PagesFor(pos[s] + 1)..PagesFor(want[s])

(* prepare_kv_writes is done with the slot, and the slot booked.            *)
Prepared(s) ==
  /\ \A i \in Touched(s) : Private(s, i)
  /\ Call(s) = "plain" => len[s] = want[s]

(* The slot joins the batch: it is about to write pos .. w - 1.  A wave's   *)
(* reservations and restores all precede its first chunk, and the slots of  *)
(* a batch are prepared one after the other.                                *)
BeginWrite(s) ==
  /\ phase[s] \in {"prefill", "decode"}
  /\ phase[s] = "decode" => pos[s] < Len(Tokens[req[s]])
  /\ want[s] = 0
  /\ \A t \in Slots : phase[t] \notin {"reserved", "failed"}
  /\ \A t \in Slots : want[t] # 0 => Call(t) = Call(s) /\ Prepared(t)
  /\ \E w \in Reach(s) : want' = [want EXCEPT ![s] = w]
  /\ UNCHANGED <<poolVars, row, own, len, pos, cacheVars, req, phase>>

(* The page prepare_kv_writes comes to next. *)
NextPage(s, i) ==
  /\ i \in Touched(s)
  /\ ~Private(s, i)
  /\ \A j \in Touched(s) : ~Private(s, j) => i <= j

(* One iteration of prepare_kv_writes: a null page gets a fresh bundle, a  *)
(* shared or published one is replaced by a fresh one, and the slot's      *)
(* reference to the source is dropped.  The bytes are copied and the page  *)
(* table changes when the last page is done.                               *)
PreparePage(s) ==
  /\ phase[s] # "failed"
  /\ MayAllocate(s, Len(queue))
  /\ \E i \in Pages :
       /\ NextPage(s, i)
       /\ LET old   == own[s][i]
              fresh == Head(queue)
              freed == old # 0 /\ ref[old] = 1
              last  == \A j \in Touched(s) \ {i} : Private(s, j)
              new   == {j \in Pages : own'[s][j] # row[s][j]}
              src(j) == IF row[s][j] = 0 THEN <<>> ELSE bytes[row[s][j]]
          IN  /\ queue' = IF freed THEN DecrefQueue(Tail(queue), {old}, pub) ELSE Tail(queue)
              /\ ref' = [b \in Bundles |-> IF b = fresh THEN 1
                                           ELSE IF b = old THEN ref[b] - 1 ELSE ref[b]]
              /\ pub' = DropHash(fresh)
              /\ entries' = IF pub[fresh] = {} THEN entries ELSE EntriesWithout(fresh)
              /\ own' = [own EXCEPT ![s][i] = fresh]
              /\ IF last
                   THEN /\ row' = [row EXCEPT ![s] = own'[s]]
                        /\ bytes' = [b \in Bundles |->
                             IF \E j \in new : own'[s][j] = b
                               THEN src(CHOOSE j \in new : own'[s][j] = b) ELSE bytes[b]]
                   ELSE UNCHANGED <<row, bytes>>
              /\ res' = Consume(s, 1)
  /\ UNCHANGED <<len, pos, ckpt, cached, req, phase, want>>

(* A call that raises.  A prefill call fails its wave; a decode call fails  *)
(* the round, and with it every active slot and the pending wave.           *)
CallFails(s) ==
  /\ phase' = [t \in Slots |-> IF phase[t] \in {"prefill", phase[s]} THEN "failed" ELSE phase[t]]
  /\ UNCHANGED <<poolVars, row, own, len, pos, cacheVars, req, want>>

(* The allocator refuses. *)
PrepareFails(s) ==
  /\ phase[s] # "failed"
  /\ ~MayAllocate(s, Len(queue))
  /\ \E i \in Pages : NextPage(s, i)
  /\ CallFails(s)

(* The KV of the touched pages after c of the written tokens are kept. *)
Written(s, c) ==
  [b \in Bundles |->
     IF \E i \in Touched(s) : row[s][i] = b
       THEN LET i == CHOOSE i \in Touched(s) : row[s][i] = b
            IN  IF (i - 1) * PageSize < pos[s] + c
                  THEN Prefix(req[s], Least(i * PageSize, pos[s] + c)) ELSE <<>>
       ELSE bytes[b]]

(* _maybe_checkpoint after a commit that reached n tokens: at a block      *)
(* boundary the slot's checkpoint is replaced, or dropped when a           *)
(* persistent entry already owns that boundary.  A checkpoint of that      *)
(* length, though left by an earlier request, is kept.                     *)
Checkpoint(s, n) ==
  LET k == Listed(req[s], n)
  IN  ckpt' = IF n % BlockSize # 0 \/ Len(ckpt[s]) = n THEN ckpt
              ELSE [ckpt EXCEPT ![s] = IF \E e \in entries : e.tokens = k THEN <<>> ELSE k]

(* _maybe_checkpoint and _store_persistent_prefix at the end of a prefill: *)
(* no store (disabled, or the entry exists); publish and store, evicting   *)
(* older entries for the budget; or publish and skip the store.  The slot  *)
(* keeps a rolling checkpoint at the prompt boundary only when an earlier  *)
(* request left one and the entry exists.                                  *)
StorePrompt(s) ==
  LET r == req[s]
      n == Prompt[r]
      e == [tokens  |-> Listed(r, n), bundles |-> [i \in 1..PagesFor(n) |-> row[s][i]]]
      stored == \E f \in entries : f.tokens = e.tokens
  IN  IF "persistent" \notin Caches
        THEN Checkpoint(s, n) /\ UNCHANGED <<pub, entries>>
        ELSE /\ ckpt' = IF stored /\ Len(ckpt[s]) = n THEN ckpt ELSE [ckpt EXCEPT ![s] = <<>>]
             /\ IF stored
                  THEN UNCHANGED <<pub, entries>>
                  ELSE /\ pub' = Published(s, Boundaries(n) \cup {n})
                       /\ entries' \in
                            IF EntryBudget = 0 THEN {entries}
                            ELSE {keep \cup {e} : keep \in
                                    {K \in SUBSET entries : Cardinality(K) < EntryBudget}}

(* The whole batch is prepared: the forward runs next. *)
Ready(s) ==
  /\ want[s] # 0 /\ phase[s] # "failed"
  /\ \A t \in Slots : want[t] # 0 => Prepared(t)

(* The forward of a prefill chunk ran.  slot_kv_len and the committed      *)
(* tokens change only with the last chunk (_commit_prefill).  (The batched *)
(* path moves slot_kv_len with each chunk; nothing reads it in between.)   *)
CommitPrefill(s) ==
  /\ phase[s] = "prefill" /\ Ready(s)
  /\ pos' = [pos EXCEPT ![s] = want[s]]
  /\ bytes' = Written(s, want[s] - pos[s])
  /\ IF want[s] = Prompt[req[s]]
       THEN /\ len' = [len EXCEPT ![s] = want[s]]
            /\ phase' = [phase EXCEPT ![s] = "decode"]
            /\ StorePrompt(s)
       ELSE UNCHANGED <<len, phase, pub, entries, ckpt>>
  /\ want' = [want EXCEPT ![s] = 0]
  /\ UNCHANGED <<ref, queue, res, row, own, cached, req>>

(* build_decode_batch: slot_kv_len and the committed tokens are advanced    *)
(* while the batch is prepared, before its forward.                         *)
BookPlain(s) ==
  /\ phase[s] = "decode" /\ want[s] # 0
  /\ Call(s) = "plain"
  /\ len[s] < want[s]
  /\ \A i \in Touched(s) : Private(s, i)
  /\ len' = [len EXCEPT ![s] = want[s]]
  /\ UNCHANGED <<poolVars, row, own, pos, cacheVars, req, phase, want>>

(* The forward raises before it has written. *)
ForwardRaises(s) ==
  /\ Ready(s)
  /\ Call(s) \in Faults
  /\ CallFails(s)

(* The forward of a plain decode ran, once every slot of the batch was      *)
(* booked; or that of a verify, which keeps at least one of its tokens.     *)
CommitDecode(s) ==
  /\ phase[s] = "decode" /\ Ready(s)
  /\ \E n \in (pos[s] + 1)..Least(want[s], Len(Tokens[req[s]])) :
       /\ pos' = [pos EXCEPT ![s] = n]
       /\ len' = [len EXCEPT ![s] = n]
       /\ bytes' = Written(s, n - pos[s])
       /\ Checkpoint(s, n)
  /\ want' = [want EXCEPT ![s] = 0]
  /\ UNCHANGED <<ref, queue, res, pub, row, own, entries, cached, req, phase>>

(* What reset_slot publishes: publish_committed_blocks refuses a row with a *)
(* null page, and stops at a bundle without a reference, which a call that  *)
(* failed half-way through its pages leaves in the row; reset_slot goes on. *)
Publishable(s) ==
  LET ends == Boundaries(len[s])
      at(m) == row[s][PagesFor(m)]
  IN  IF \E m \in ends : at(m) = 0 THEN {}
      ELSE {m \in ends : \A k \in ends : k <= m => ref[at(k)] > 0}

(* release_kv_reservation and reset_slot, when the request ends in any     *)
(* way: the full blocks of a sequence whose prompt was committed are       *)
(* published, then the slot's references dropped.                          *)
Committed(s) == req[s] # NoReq /\ len[s] >= Prompt[req[s]]

ResetSlot(s) ==
  /\ phase[s] # "idle"
  /\ phase[s] = "failed" \/ \A t \in Slots : want[t] = 0
  /\ LET p == IF Committed(s) THEN Published(s, Publishable(s)) ELSE pub
     IN  /\ pub' = p
         /\ queue' = DecrefQueue(queue, Owned(s), p)
         /\ bytes' = [b \in Bundles |-> IF b \in Owned(s) /\ ref[b] = 1 /\ p[b] = {}
                                          THEN <<>> ELSE bytes[b]]
  /\ ref' = [b \in Bundles |-> IF b \in Owned(s) THEN ref[b] - 1 ELSE ref[b]]
  /\ res' = [res EXCEPT ![s] = 0]
  /\ cached' = IF Committed(s) THEN [cached EXCEPT ![s] = Listed(req[s], len[s])] ELSE cached
  /\ row' = [row EXCEPT ![s] = [i \in Pages |-> 0]]
  /\ own' = [own EXCEPT ![s] = [i \in Pages |-> 0]]
  /\ len' = [len EXCEPT ![s] = 0]
  /\ pos' = [pos EXCEPT ![s] = 0]
  /\ req' = [req EXCEPT ![s] = NoReq]
  /\ phase' = [phase EXCEPT ![s] = "idle"]
  /\ want' = [want EXCEPT ![s] = 0]
  /\ UNCHANGED <<entries, ckpt>>

-----------------------------------------------------------------------------
Next ==
  \E s \in Slots :
    \/ \E r \in Requests : ReserveKv(s, r)
    \/ RestoreMiss(s) \/ RestorePersistent(s) \/ RestoreRolling(s)
    \/ BeginWrite(s) \/ PreparePage(s) \/ PrepareFails(s)
    \/ CommitPrefill(s) \/ BookPlain(s) \/ CommitDecode(s) \/ ForwardRaises(s)
    \/ ResetSlot(s)

Spec == Init /\ [][Next]_vars

-----------------------------------------------------------------------------
(* Properties.                                                             *)

TypeOK ==
  /\ ref \in [Bundles -> Nat] /\ queue \in Seq(Bundles)
  /\ pub \in [Bundles -> SUBSET Seq(Nat)] /\ bytes \in [Bundles -> Seq(Nat)]
  /\ res \in [Slots -> Nat]
  /\ {row, own} \subseteq [Slots -> [Pages -> Bundles \cup {0}]]
  /\ len \in [Slots -> Nat]
  /\ pos \in [Slots -> Nat]
  /\ entries \subseteq [tokens : Seq(Nat), bundles : Seq(Bundles)]
  /\ ckpt \in [Slots -> Seq(Nat)] /\ cached \in [Slots -> Seq(Nat)]
  /\ req \in [Slots -> Requests \cup {NoReq}]
  /\ phase \in [Slots -> {"idle", "reserved", "prefill", "decode", "failed"}]
  /\ want \in [Slots -> Nat]

(* INV1, INV2 and INV9 of the allocator, with the reference counts tied to *)
(* the slots: a bundle's ref_cnt is the number of slot pages that own it,  *)
(* and exactly the bundles at zero are in the free queue, once each.       *)
PoolConservation ==
  \A b \in Bundles :
    /\ ref[b] = Cardinality({si \in Slots \X Pages : own[si[1]][si[2]] = b})
    /\ Cardinality({j \in 1..Len(queue) : queue[j] = b}) = IF ref[b] = 0 THEN 1 ELSE 0

(* b holds the last page of the prefix k. *)
HoldsPage(b, k) == IsPrefix(k, bytes[b]) /\ PagesFor(Len(bytes[b])) = PagesFor(Len(k))

(* A published hash keeps telling the truth about the bytes of its bundle, *)
(* although slots go on writing after their pages were published.          *)
PublishedBytes == \A b \in Bundles : \A k \in pub[b] : HoldsPage(b, k)

(* Every page of a live sequence holds that sequence: no other slot's      *)
(* write, no eviction and no restore changes what a request attends to.    *)
(* (A slot whose call failed only waits for its reset.)                    *)
RowHoldsPrefix ==
  \A s \in {t \in Slots : phase[t] # "failed"} : \A i \in 1..PagesFor(pos[s]) :
    /\ row[s][i] # 0
    /\ HoldsPage(row[s][i], Prefix(req[s], Least(i * PageSize, pos[s])))

(* A persistent entry names bundles that still hold its tokens: eviction   *)
(* of a bundle drops the entry before the bundle is reused.                *)
EntriesBacked ==
  \A e \in entries : \A i \in 1..Len(e.bundles) :
    HoldsPage(e.bundles[i], SubSeq(e.tokens, 1, Least(i * PageSize, Len(e.tokens))))

(* "Copy on write": while a hash stays published its bundle keeps its      *)
(* bytes, and while an entry stays so do its bundles, whatever the slots   *)
(* write, copy, restore, evict and give up.                                *)
PublishedStable ==
  [][/\ \A b \in Bundles : pub[b] \cap pub'[b] # {} => bytes'[b] = bytes[b]
     /\ \A e \in entries \cap entries' : \A i \in 1..Len(e.bundles) :
          bytes'[e.bundles[i]] = bytes[e.bundles[i]]]_vars

(* What a request has written, or was given by a restore, is what it reads *)
(* back: a page of its row keeps its bytes, whichever bundle it moves to,  *)
(* until its own next write; a full page for as long as the request runs.  *)
RowsStable ==
  [][\A s \in Slots : phase[s] # "failed" /\ pos'[s] >= pos[s] =>
       \A i \in 1..PagesFor(pos[s]) :
         pos'[s] = pos[s] \/ i * PageSize <= pos[s] =>
           row'[s][i] # 0 /\ bytes'[row'[s][i]] = bytes[row[s][i]]]_vars

(* The pages promised to admitted requests are in the free queue. *)
PromisesCovered == Reserved <= Len(queue)

(* "Reserve every page a request may need before its first GPU write": an  *)
(* admitted request that stays within its declared length always gets its  *)
(* pages.                                                                  *)
AdmittedNeverFails == \A s \in Slots : phase[s] # "failed"
=============================================================================
