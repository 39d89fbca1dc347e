------------------------- MODULE PrefixCheckpoints -------------------------
(***************************************************************************)
(* The second cache family of the Qwen3.6 backend: checkpoints of the      *)
(* recurrent (GDN) state, in dynamic-arena mode, and what resuming from    *)
(* them means.                                                             *)
(*                                                                         *)
(* runtime/recurrent_state_pool.py keeps keys, a hash index and an LRU     *)
(* order under a budget; runtime/backends/qwen36.py keeps one rolling      *)
(* checkpoint per slot and the persistent prompt entries that any slot may *)
(* restore; runtime/slot_resource_manager.py ranks the free slots.         *)
(*                                                                         *)
(* A recurrent state is written as the token sequence it has absorbed, a   *)
(* hash as the prefix it identifies, and all checkpoints have one size, so *)
(* the byte budget counts checkpoints.  KV pages are KvArena's: here a     *)
(* restore of a slot's pages succeeds or not, and a source's draft rows    *)
(* are there or not.                                                       *)
(***************************************************************************)
EXTENDS Naturals, Sequences, FiniteSets, FiniteSetsExt, Collections

CONSTANTS
  Slots,
  Persistent,       \* the owner of persistent keys
  NoCkpt,           \* no checkpoint tensors
  Prompts,          \* token sequences clients send
  Texts,            \* bound: what a prompt may be continued to
  BlockSize,
  Budget,           \* checkpoint budget, in checkpoints
  Paths,            \* how requests of a prompt may be decoded
  Round,            \* most tokens a verify round appends, K + 1
  PublishFails      \* prompts whose pages publish_committed_blocks may refuse

ASSUME CheckpointAssumption ==
  /\ Persistent \notin Slots /\ NoCkpt \notin [len : Nat, state : Seq(Nat)]
  /\ Prompts \subseteq Seq(Nat) \ {<<>>} /\ Texts \subseteq Seq(Nat)
  /\ BlockSize \in Nat \ {0} /\ Budget \in Nat \ {0}
  /\ Paths \in [Prompts -> SUBSET {"plain", "verify"}] /\ Round \in Nat \ {0}
  /\ PublishFails \subseteq Prompts

VARIABLES
  phase,    \* of each slot: "free", "assigned", "applied", then "prefill"
            \* (chunk by chunk) or "batch" (with the wave), then its path
  prompt,   \* the prompt a slot is assigned
  kv,       \* the tokens its KV holds (slot_kv_len is their number)
  gdn,      \* its live recurrent state
  pending,  \* _pending_prefix_hits: the effective length, or 0
  cache,    \* the caches, see NoCache
  (* History: the pool's keys that stand for a state of other tokens, the   *)
  (* slots resumed from one, the entries stored over another slot's key.    *)
  mislabelled, misled, shadowed

slotVars == <<phase, prompt, kv, gdn, pending, misled>>
vars == <<slotVars, cache, mislabelled, shadowed>>

Rolling(s, h) == [slot |-> s, hash |-> h]
PersistentKey(h) == [slot |-> Persistent, hash |-> h]

(* lru: RecurrentStatePool's keys, oldest first; byHash: _by_hash; pinned: *)
(* _pinned; entry: _persistent_prefixes, the state each entry carries;     *)
(* ckpt: _checkpoint_len and _checkpoint_tensors; saved: the tokens of     *)
(* _prefix_cache_tokens up to _prefix_cache_kv_len.                        *)
NoCache ==
  [lru |-> <<>>, byHash |-> <<>>, pinned |-> {}, entry |-> <<>>,
   ckpt |-> [s \in Slots |-> NoCkpt], saved |-> [s \in Slots |-> <<>>]]

Prefix(p, n) == SubSeq(p, 1, n)

Floor(n) == (n \div BlockSize) * BlockSize

Live == {"plain", "verify"}

(* slot_committed_tokens up to the KV length.  The commit of the prompt     *)
(* lists the first token, and the first plain round lists it again.        *)
Listed(s, toks) ==
  [i \in 1..Len(toks) |->
     toks[IF phase[s] = "plain" /\ i > Len(prompt[s]) + 1 THEN i - 1 ELSE i]]

(* slot_kv_len is 0: nothing restored; chunks of the wave move it, those   *)
(* of a single slot do not.                                                *)
Fresh == {s \in Slots : phase[s] # "batch" /\ kv[s] = <<>>}

InPool(c, s, n) == \E i \in 1..Len(c.lru) : c.lru[i].slot = s /\ Len(c.lru[i].hash) = n

Finds(c, h, k) == h \in DOMAIN c.byHash /\ c.byHash[h] = k

Without(f, S) == [x \in DOMAIN f \ S |-> f[x]]

With(f, x, v) == [y \in DOMAIN f \cup {x} |-> IF y = x THEN v ELSE f[y]]

-----------------------------------------------------------------------------
(* RecurrentStatePool *)

Init ==
  /\ phase = [s \in Slots |-> "free"] /\ prompt = [s \in Slots |-> <<>>]
  /\ kv = [s \in Slots |-> <<>>] /\ gdn = [s \in Slots |-> <<>>]
  /\ pending = [s \in Slots |-> 0]
  /\ cache = NoCache
  /\ mislabelled = {} /\ misled = {} /\ shadowed = {}

Register(c, k) ==
  [c EXCEPT !.lru = Append(@, k), !.byHash = With(@, k.hash, k)]

Touch(c, k) ==
  [c EXCEPT !.lru = Append(Drop(@, {k}), k)]

(* unpin and evict each key of K, with the callbacks into the backend: a   *)
(* persistent key takes its entry along; a rolling one its slot's          *)
(* checkpoint and saved prefix, unless the slot is in use (fresh: the      *)
(* slots whose KV length is 0).  The hash goes whoever it points to.       *)
Evict(c, K, fresh) ==
  LET hashes == {k.hash : k \in K}
      dropped == {k.slot : k \in K} \cap fresh
  IN  [lru |-> Drop(c.lru, K),
       byHash |-> Without(c.byHash, hashes),
       pinned |-> c.pinned \ K,
       entry |-> Without(c.entry, {k.hash : k \in {x \in K : x.slot = Persistent}}),
       ckpt |-> [s \in Slots |-> IF s \in dropped THEN NoCkpt ELSE c.ckpt[s]],
       saved |-> [s \in Slots |-> IF s \in dropped THEN <<>> ELSE c.saved[s]]]

(* Oldest first, until one more fits or no evictable key is left. *)
EvictForBudget(c, evictable, fresh) ==
  LET victims == Pick(c.lru, {i \in 1..Len(c.lru) : c.lru[i] \in evictable})
      over == IF Len(c.lru) + 1 > Budget THEN Len(c.lru) + 1 - Budget ELSE 0
      n == Min({over, Len(victims)})
  IN  Evict(c, {victims[i] : i \in 1..n}, fresh)

(* Mutant: pinned keys are evictable too. *)
AllKeys(c) == Range(c.lru)

Unpinned(c) == Range(c.lru) \ c.pinned

-----------------------------------------------------------------------------
(* Checkpoints of the backend *)

(* Mutant: the backend forgets its checkpoint, the pool does not. *)
ForgetCheckpoint(c, s, fresh) == [c EXCEPT !.ckpt[s] = NoCkpt]

(* _evict_checkpoint *)
EvictCheckpoint(c, s, fresh) ==
  IF c.ckpt[s] = NoCkpt THEN c
  ELSE Evict([c EXCEPT !.ckpt[s] = NoCkpt],
             {k \in Range(c.lru) : k.slot = s /\ Len(k.hash) = c.ckpt[s].len}, fresh)

DropPrefixCache(c, s, fresh) == EvictCheckpoint([c EXCEPT !.saved[s] = <<>>], s, fresh)

(* Mutant: a rolling duplicate of a persistent entry is registered. *)
CheckpointAnyway(c, s, toks, st, force, fresh) ==
  LET n == Len(toks)
      c1 == EvictCheckpoint(c, s, fresh)
      c2 == EvictForBudget(c1, Unpinned(c1), fresh)
  IN  IF \/ ~force /\ n % BlockSize # 0
         \/ c.ckpt[s] # NoCkpt /\ c.ckpt[s].len = n
      THEN c
      ELSE [Register(c2, Rolling(s, toks)) EXCEPT !.ckpt[s] = [len |-> n, state |-> st]]

(* _maybe_checkpoint: toks the tokens listed for the KV, st the live state *)
MaybeCheckpoint(c, s, toks, st, force, fresh) ==
  LET n == Len(toks)
      c1 == EvictCheckpoint(c, s, fresh)
      c2 == EvictForBudget(c1, Unpinned(c1), fresh)
  IN  IF \/ ~force /\ n % BlockSize # 0
         \/ c.ckpt[s] # NoCkpt /\ c.ckpt[s].len = n
      THEN c
      ELSE IF Finds(c2, toks, PersistentKey(toks)) THEN c2
      ELSE [Register(c2, Rolling(s, toks)) EXCEPT !.ckpt[s] = [len |-> n, state |-> st]]

(* Mutant: a store evicts no older persistent entry. *)
StoreIfRoom(c, s, toks, published, fresh) ==
  LET k == PersistentKey(toks)
      c1 == EvictCheckpoint(c, s, fresh)
      c2 == EvictForBudget(c1, Unpinned(c1), fresh)
  IN  IF c.ckpt[s] = NoCkpt THEN c
      ELSE IF c.ckpt[s].len # Len(toks) \/ ~published THEN c
      ELSE IF toks \in DOMAIN c.entry THEN Touch(c, k)
      ELSE IF Len(c2.lru) + 1 > Budget THEN c2
      ELSE [Register(c2, k) EXCEPT !.pinned = @ \cup {k},
                                   !.entry = With(@, toks, c.ckpt[s].state)]

(* _store_persistent_prefix at the prompt boundary; published: the arena   *)
(* took the prompt's pages.                                                *)
StorePersistentPrefix(c, s, toks, published, fresh) ==
  LET k == PersistentKey(toks)
      c1 == EvictCheckpoint(c, s, fresh)
      c2 == EvictForBudget(c1, Range(c1.lru), fresh)
  IN  IF c.ckpt[s] = NoCkpt THEN c
      ELSE IF c.ckpt[s].len # Len(toks) THEN c
      ELSE IF toks \in DOMAIN c.entry THEN Touch(c, k)
      ELSE IF ~published THEN c
      ELSE IF Len(c2.lru) + 1 > Budget THEN c2
      ELSE [Register(c2, k) EXCEPT !.pinned = @ \cup {k},
                                   !.entry = With(@, toks, c.ckpt[s].state)]

-----------------------------------------------------------------------------
(* Lookup *)

(* _persistent_prefix_entry: length of the deepest entry found, or 0 *)
PersistentHit(c, p) ==
  Max({0} \cup {n \in 1..Len(p) : /\ Prefix(p, n) \in DOMAIN c.entry
                                  /\ Finds(c, Prefix(p, n), PersistentKey(Prefix(p, n)))})

(* _prefix_hit_for_slot *)
KvHit(c, p, s) ==
  LET match == Max({n \in 0..Min({Len(p), Len(c.saved[s])}) :
                      Prefix(p, n) = Prefix(c.saved[s], n)})
  IN  IF Floor(match) >= Len(p) THEN Floor(Len(p) - 1) ELSE Floor(match)

StateHit(c, p, s) ==
  IF /\ c.ckpt[s] # NoCkpt
     /\ c.ckpt[s].len \in 1..KvHit(c, p, s)
     /\ InPool(c, s, c.ckpt[s].len)
     /\ Finds(c, Prefix(p, c.ckpt[s].len), Rolling(s, Prefix(p, c.ckpt[s].len)))
  THEN c.ckpt[s].len ELSE 0

(* Hits are ranked by (effective, kv_hit). *)
Deeper(a, b) == a[1] > b[1] \/ (a[1] = b[1] /\ a[2] > b[2])

(* _best_prefix_source: the deepest rolling hit of the fresh slots (those  *)
(* of them whose draft rows are there)                                     *)
BestSources(c, p, fresh) ==
  LET hit(s) == <<StateHit(c, p, s), KvHit(c, p, s)>> IN
  {s \in fresh : hit(s)[1] > 0 /\ \A t \in fresh : ~Deeper(hit(t), hit(s))}

(* SlotResourceManager: the effective length rounded down to a block; a    *)
(* remote hit goes to any free slot.                                       *)
SlotHit(c, p, s) ==
  LET e == PersistentHit(c, p)
      local == StateHit(c, p, s)
  IN  IF e > local \/ (e = local /\ e > KvHit(c, p, s))
      THEN <<Floor(e), e>> ELSE <<Floor(local), KvHit(c, p, s)>>

FindBestSlot(c, p, free, fresh) ==
  LET best == {s \in free : \A t \in free : ~Deeper(SlotHit(c, p, t), SlotHit(c, p, s))}
      local == Max({SlotHit(c, p, s)[1] : s \in free})
      remote == Max({0, Floor(PersistentHit(c, p))}
                    \cup {Floor(StateHit(c, p, s)) : s \in BestSources(c, p, fresh)})
  IN  IF local = 0 /\ remote > 0 THEN free ELSE best

-----------------------------------------------------------------------------
(* Slots *)

Free == {s \in Slots : phase[s] = "free"}

(* No slot is in one of these phases.  One admission at a time: a wave of  *)
(* requests is assigned, then applied, before any of its chunks runs.      *)
None(phases) == \A s \in Slots : phase[s] \notin phases

(* Sources can_restore_prefix accepts: with a draft model, any may lack    *)
(* its draft rows.                                                         *)
Usable == IF \E p \in Prompts : "verify" \in Paths[p] THEN SUBSET Fresh ELSE {Fresh}

(* Keys and entries new in this step; wrong: its state is of other tokens  *)
(* than it is registered under.                                            *)
Remember(wrong) ==
  /\ mislabelled' = {k \in Range(cache'.lru) :
                        IF k \in Range(cache.lru) THEN k \in mislabelled ELSE wrong}
  /\ shadowed' = {h \in DOMAIN cache'.entry :
                     IF h \in DOMAIN cache.entry THEN h \in shadowed
                     ELSE \E s \in Slots : Rolling(s, h) \in Range(cache'.lru)}

(* Slot assignment and reconcile_prefix_hit, which leaves its advice under *)
(* the source slot, whichever slot the request was assigned.               *)
Admit(p) ==
  /\ Free # {} /\ None({"applied", "prefill", "batch"})
  /\ \E s \in FindBestSlot(cache, p, Free, Fresh) :
       /\ phase' = [phase EXCEPT ![s] = "assigned"]
       /\ prompt' = [prompt EXCEPT ![s] = p]
  /\ \E usable \in Usable :
       LET srcs == BestSources(cache, p, usable) IN
       IF srcs = {} THEN UNCHANGED pending
       ELSE \E src \in srcs :
              pending' = IF PersistentHit(cache, p) > StateHit(cache, p, src) THEN pending
                         ELSE [pending EXCEPT ![src] = StateHit(cache, p, src)]
  /\ UNCHANGED <<kv, gdn, cache, mislabelled, misled, shadowed>>

(* The slot resumes at length n with state st of key k *)
Resume(s, n, st, k) ==
  /\ phase' = [phase EXCEPT ![s] = "applied"]
  /\ kv' = [kv EXCEPT ![s] = Prefix(prompt[s], n)]
  /\ gdn' = [gdn EXCEPT ![s] = st]
  /\ pending' = [pending EXCEPT ![s] = 0]
  /\ misled' = IF k \in mislabelled THEN misled \cup {s} ELSE misled
  /\ UNCHANGED prompt

(* or starts from nothing. *)
StartOver(s) ==
  /\ phase' = [phase EXCEPT ![s] = "applied"]
  /\ pending' = [pending EXCEPT ![s] = 0]
  /\ UNCHANGED <<prompt, kv, gdn, misled>>

(* Which slot's rolling hit is used, and its length: a pending hit is      *)
(* taken at its word, otherwise the best source now, this slot preferred.  *)
Advice(s, usable) ==
  IF pending[s] > 0 THEN {<<s, pending[s]>>}
  ELSE LET b == BestSources(cache, prompt[s], usable) IN
       {<<src, StateHit(cache, prompt[s], src)>> :
          src \in IF s \in b THEN {s} ELSE b}

(* _restore_persistent_prefix; the arena may fail to give the pages back *)
ApplyPersistent(s) ==
  LET e == PersistentHit(cache, prompt[s])
      h == Prefix(prompt[s], e)
      c1 == DropPrefixCache(cache, s, Fresh)
  IN  /\ phase[s] = "assigned"
      /\ e > 0 /\ \E usable \in Usable : \A a \in Advice(s, usable) : e >= a[2]
      /\ \/ /\ Resume(s, e, cache.entry[h], PersistentKey(h))
            /\ cache' = Touch(c1, PersistentKey(h))
         \/ StartOver(s) /\ cache' = c1
      /\ Remember(FALSE)

(* Mutant: the advice is trusted when the checkpoint has the right length. *)
LengthMatches(s, src, n) ==
  n < Len(prompt[s]) /\ cache.ckpt[src] # NoCkpt /\ cache.ckpt[src].len = n

(* The checks _apply_prefix_hit repeats before it trusts the advice. *)
Authentic(s, src, n) ==
  /\ n < Len(prompt[s])
  /\ cache.ckpt[src] # NoCkpt /\ cache.ckpt[src].len = n
  /\ Finds(cache, Prefix(prompt[s], n), Rolling(src, Prefix(prompt[s], n)))

(* _apply_prefix_hit from a rolling checkpoint, of this or another slot *)
ApplyRolling(s) ==
  /\ phase[s] = "assigned"
  /\ \E usable \in Usable : \E a \in Advice(s, usable) :
       LET src == a[1]
           n == a[2]
           k == Rolling(src, Prefix(prompt[s], n))
           c1 == IF src = s THEN cache ELSE DropPrefixCache(cache, s, Fresh)
       IN  /\ PersistentHit(cache, prompt[s]) < n
           /\ IF ~Authentic(s, src, n)
              THEN StartOver(s) /\ UNCHANGED cache
              ELSE \/ Resume(s, n, cache.ckpt[src].state, k) /\ cache' = Touch(c1, k)
                   \/ StartOver(s) /\ cache' = c1
  /\ Remember(FALSE)

ApplyMiss(s) ==
  /\ phase[s] = "assigned"
  /\ PersistentHit(cache, prompt[s]) = 0 /\ \E usable \in Usable : Advice(s, usable) = {}
  /\ StartOver(s)
  /\ UNCHANGED cache /\ Remember(FALSE)

(* The first chunk of the suffix, in the same call as the restores; a      *)
(* prompt with no restored prefix may run with the rest of its wave.       *)
FirstChunk(s) ==
  /\ phase[s] = "applied" /\ None({"assigned"})
  /\ \E ph \in {"prefill"} \cup {x \in {"batch"} : kv[s] = <<>>} :
       phase' = [phase EXCEPT ![s] = ph]
  /\ UNCHANGED <<prompt, kv, gdn, pending, cache, mislabelled, misled, shadowed>>

(* The checkpoint _maybe_checkpoint keeps for its length is another's. *)
Foreign(s, p) ==
  /\ cache.ckpt[s] # NoCkpt /\ cache.ckpt[s].len = Len(p)
  /\ Rolling(s, p) \notin Range(cache.lru) \ mislabelled

(* The last chunk: the rest of the prompt is absorbed, _commit_prefill,    *)
(* and the prompt boundary is published.                                   *)
CommitPrefill(s) ==
  LET p == prompt[s]
      st == gdn[s] \o SubSeq(p, Len(kv[s]) + 1, Len(p))
      c1 == MaybeCheckpoint(cache, s, p, st, TRUE, Fresh \ {s})
  IN  /\ phase[s] \in {"prefill", "batch"} /\ None({"assigned"})
      /\ \E path \in Paths[p] : phase' = [phase EXCEPT ![s] = path]
      /\ kv' = [kv EXCEPT ![s] = p] /\ gdn' = [gdn EXCEPT ![s] = st]
      /\ \E published \in {TRUE, p \notin PublishFails} :
           cache' = StorePersistentPrefix(c1, s, p, published, Fresh \ {s})
      /\ Remember(s \in misled \/ Foreign(s, p))
      /\ UNCHANGED <<prompt, pending, misled>>

(* One decode round of one slot: one token, or as many as verify accepts *)
Decode(s) ==
  /\ phase[s] \in Live /\ None({"assigned", "applied"})
  /\ \E text \in Texts, n \in 1..(IF phase[s] = "plain" THEN 1 ELSE Round) :
       LET past == Len(kv[s])
           toks == Prefix(text, past + n)
           st == gdn[s] \o SubSeq(text, past + 1, past + n)
       IN  /\ past + n <= Len(text) /\ Prefix(text, past) = kv[s]
           /\ kv' = [kv EXCEPT ![s] = toks] /\ gdn' = [gdn EXCEPT ![s] = st]
           /\ cache' = MaybeCheckpoint(cache, s, Listed(s, toks), st, FALSE, Fresh)
           /\ Remember(s \in misled \/ Listed(s, toks) # toks)
  /\ UNCHANGED <<phase, prompt, pending, misled>>

(* reset_slot, after a request or in the middle of one.  The saved prefix  *)
(* is that of a committed prompt; the checkpoint stays.                    *)
ResetSlot(s) ==
  /\ phase[s] # "free"
  /\ phase[s] \in {"assigned", "applied"} \/ None({"assigned", "applied"})
  /\ phase' = [phase EXCEPT ![s] = "free"] /\ prompt' = [prompt EXCEPT ![s] = <<>>]
  /\ kv' = [kv EXCEPT ![s] = <<>>] /\ gdn' = [gdn EXCEPT ![s] = <<>>]
  /\ pending' = [pending EXCEPT ![s] = 0] /\ misled' = misled \ {s}
  /\ cache' = IF phase[s] \in Live THEN [cache EXCEPT !.saved[s] = Listed(s, kv[s])]
              ELSE cache
  /\ UNCHANGED <<mislabelled, shadowed>>

(* _on_dynamic_bundle_evicted: the arena recycled a page of the entry. *)
BundleEvicted(h) ==
  /\ h \in DOMAIN cache.entry
  /\ cache' = Evict(cache, {PersistentKey(h)}, Fresh)
  /\ Remember(FALSE)
  /\ UNCHANGED slotVars

Next ==
  \/ \E p \in Prompts : Admit(p) \/ BundleEvicted(p)
  \/ \E s \in Slots :
       \/ ApplyPersistent(s) \/ ApplyRolling(s) \/ ApplyMiss(s) \/ FirstChunk(s)
       \/ CommitPrefill(s) \/ Decode(s) \/ ResetSlot(s)

Spec == Init /\ [][Next]_vars

-----------------------------------------------------------------------------
(* Properties *)

(* A slot's recurrent state has absorbed exactly the tokens its KV holds,  *)
(* whichever checkpoint, of whichever slot, it was resumed from, with      *)
(* whatever advice, evictions and failed restores in between.  Not so in   *)
(* the code: a checkpoint kept for its length, or taken under the doubled  *)
(* token of the plain path, is resumed from as if it were the prompt's.    *)
StateMatchesKv == \A s \in Slots : gdn[s] = kv[s]

(* Only those two are wrong: any other slot has the state of its KV, for   *)
(* a hash never leads to the checkpoint of other tokens.                   *)
OnlyMisledDiffer == \A s \in Slots : gdn[s] = kv[s] \/ s \in misled

(* A persistent entry can be found: the hash index leads to it, its key is *)
(* in the pool and pinned there.  An entry that is present and cannot be   *)
(* found is never stored again: every repeat of its prompt is a miss.  Not *)
(* so in the code when another slot's checkpoint of the same tokens is in  *)
(* the pool: that one's eviction takes the hash away.                      *)
PersistentVisible ==
  \A h \in DOMAIN cache.entry :
    /\ Finds(cache, h, PersistentKey(h))
    /\ PersistentKey(h) \in Range(cache.lru) \cap cache.pinned

(* Only such an entry can be hidden, and every entry is pinned. *)
OnlyShadowedHidden ==
  \A h \in DOMAIN cache.entry :
    /\ Finds(cache, h, PersistentKey(h)) \/ h \in shadowed
    /\ PersistentKey(h) \in Range(cache.lru) \cap cache.pinned

(* Every rolling key in the pool is the checkpoint its slot has on record: *)
(* none takes budget unreachably, and register never meets a key that is   *)
(* already there.                                                          *)
RollingTracked ==
  /\ \A k \in Range(cache.lru) :
       k.slot \in Slots => cache.ckpt[k.slot] # NoCkpt /\ cache.ckpt[k.slot].len = Len(k.hash)
  /\ IsInjective(cache.lru)

(* Persistent entries yield to a new prompt, and to a recycled page, but   *)
(* never to a decode step's rolling checkpoint.                            *)
DecodeKeepsEntries ==
  [][(\E s \in Slots : Decode(s)) => DOMAIN cache.entry \subseteq DOMAIN cache'.entry]_vars

(* A prompt that committed with its pages published has an entry, however  *)
(* full the family was: a new store evicts older ones, and is not refused. *)
PromptStored ==
  [][\A s \in Slots :
       prompt[s] \notin PublishFails /\ phase[s] \in {"prefill", "batch"} /\ phase'[s] \in Live
         => prompt[s] \in DOMAIN cache'.entry /\ Cardinality(DOMAIN cache'.entry) <= Budget]_vars

=============================================================================
