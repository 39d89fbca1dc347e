---------------------- MODULE PrefixCheckpointsProofs ----------------------
(***************************************************************************)
(* Proofs about PrefixCheckpoints, for every set of slots and prompts,     *)
(* every block size and budget.                                            *)
(***************************************************************************)
EXTENDS PrefixCheckpoints, CollectionProofs, TLAPS

-----------------------------------------------------------------------------
(* What the caches are made of *)

Keys == [slot : Slots \cup {Persistent}, hash : Seq(Nat)]

Ckpts == [len : Nat, state : Seq(Nat)]

(* Recurrent states, by the tokens they have absorbed. *)
States == Seq(Nat)

(* The maps from some hashes to V. *)
Maps(V) == UNION {[D -> V] : D \in SUBSET Seq(Nat)}

CacheSet ==
  [lru : Seq(Keys), byHash : Maps(Keys), pinned : SUBSET Keys, entry : Maps(States),
   ckpt : [Slots -> Ckpts \cup {NoCkpt}], saved : [Slots -> Seq(Nat)]]

(* A map has hashes for its domain and values in V. *)
LEMMA MapFacts ==
  ASSUME NEW V, NEW f \in Maps(V)
  PROVE  DOMAIN f \subseteq Seq(Nat) /\ \A h \in DOMAIN f : f[h] \in V
  BY DEF Maps

(* Removing hashes from a map. *)
LEMMA WithoutFacts ==
  ASSUME NEW V, NEW f \in Maps(V), NEW S
  PROVE  /\ Without(f, S) \in Maps(V)
         /\ DOMAIN Without(f, S) = DOMAIN f \ S
         /\ \A h \in DOMAIN f \ S : Without(f, S)[h] = f[h]
<1>1. DOMAIN f \subseteq Seq(Nat) /\ \A h \in DOMAIN f : f[h] \in V
  BY MapFacts
<1>2. Without(f, S) \in [DOMAIN f \ S -> V] /\ DOMAIN f \ S \in SUBSET Seq(Nat)
  BY <1>1 DEF Without
<1> QED
  BY <1>2 DEF Maps, Without

(* Setting the value of a hash. *)
LEMMA WithFacts ==
  ASSUME NEW V, NEW f \in Maps(V), NEW x \in Seq(Nat), NEW v \in V
  PROVE  /\ With(f, x, v) \in Maps(V)
         /\ DOMAIN With(f, x, v) = DOMAIN f \cup {x}
         /\ With(f, x, v)[x] = v
         /\ \A h \in DOMAIN f : h # x => With(f, x, v)[h] = f[h]
<1>1. DOMAIN f \subseteq Seq(Nat) /\ \A h \in DOMAIN f : f[h] \in V
  BY MapFacts
<1>2. With(f, x, v) \in [DOMAIN f \cup {x} -> V] /\ DOMAIN f \cup {x} \in SUBSET Seq(Nat)
  BY <1>1 DEF With
<1> QED
  BY <1>2 DEF Maps, With

(* The parts of a cache. *)
LEMMA CacheTypes ==
  ASSUME NEW c \in CacheSet
  PROVE  /\ c.lru \in Seq(Keys) /\ c.byHash \in Maps(Keys) /\ c.pinned \subseteq Keys
         /\ c.entry \in Maps(States)
         /\ c.ckpt \in [Slots -> Ckpts \cup {NoCkpt}] /\ c.saved \in [Slots -> Seq(Nat)]
         /\ Range(c.lru) \subseteq Keys
<1>1. /\ c.lru \in Seq(Keys) /\ c.byHash \in Maps(Keys) /\ c.pinned \subseteq Keys
      /\ c.entry \in Maps(States)
      /\ c.ckpt \in [Slots -> Ckpts \cup {NoCkpt}] /\ c.saved \in [Slots -> Seq(Nat)]
  BY DEF CacheSet
<1>2. Range(c.lru) \subseteq Keys
  BY <1>1, RangeInSet
<1> QED
  BY <1>1, <1>2

(* A key is its slot and its hash. *)
LEMMA KeyFacts ==
  ASSUME NEW k \in Keys
  PROVE  /\ k = [slot |-> k.slot, hash |-> k.hash] /\ k.hash \in Seq(Nat)
         /\ k.slot \in Slots \/ k.slot = Persistent
         /\ k.slot = Persistent => k = PersistentKey(k.hash)
         /\ k = Rolling(k.slot, k.hash)
  BY DEF Keys, PersistentKey, Rolling

(* The two kinds of key. *)
LEMMA KeyKinds ==
  ASSUME NEW h \in Seq(Nat)
  PROVE  /\ PersistentKey(h) \in Keys /\ PersistentKey(h).slot = Persistent
         /\ PersistentKey(h).hash = h
         /\ \A s \in Slots : /\ Rolling(s, h) \in Keys /\ Rolling(s, h).slot = s
                             /\ Rolling(s, h).hash = h /\ s # Persistent
  BY CheckpointAssumption DEF Keys, PersistentKey, Rolling

-----------------------------------------------------------------------------
(* What the pool's operations change *)

(* register *)
LEMMA RegisterFacts ==
  ASSUME NEW c \in CacheSet, NEW k \in Keys
  PROVE  LET d == Register(c, k) IN
         /\ d \in CacheSet
         /\ d.lru = Append(c.lru, k) /\ d.byHash = With(c.byHash, k.hash, k)
         /\ d.pinned = c.pinned /\ d.entry = c.entry /\ d.ckpt = c.ckpt /\ d.saved = c.saved
<1>2. c.lru \in Seq(Keys) /\ c.byHash \in Maps(Keys) /\ k.hash \in Seq(Nat)
  BY CacheTypes, KeyFacts
<1>3. With(c.byHash, k.hash, k) \in Maps(Keys)
  BY <1>2, WithFacts
<1>1. Append(c.lru, k) \in Seq(Keys) /\ With(c.byHash, k.hash, k) \in Maps(Keys)
  BY <1>2, <1>3
<1> QED
  BY <1>1 DEF Register, CacheSet

(* touch *)
LEMMA TouchFacts ==
  ASSUME NEW c \in CacheSet, NEW k \in Keys
  PROVE  LET d == Touch(c, k) IN
         /\ d \in CacheSet
         /\ Range(d.lru) = Range(c.lru) \cup {k}
         /\ IsInjective(c.lru) => IsInjective(d.lru)
         /\ d.byHash = c.byHash
         /\ d.pinned = c.pinned /\ d.entry = c.entry /\ d.ckpt = c.ckpt /\ d.saved = c.saved
<1> DEFINE r == Drop(c.lru, {k})
<1>1. c.lru \in Seq(Keys)
  BY CacheTypes
<1>2. r \in Seq(Keys) /\ Range(r) = Range(c.lru) \ {k} /\ (IsInjective(c.lru) => IsInjective(r))
  BY <1>1, DropFacts
<1>3. Touch(c, k) = [c EXCEPT !.lru = Append(r, k)]
  BY DEF Touch
<1> HIDE DEF r
<1>4. /\ Append(r, k) \in Seq(Keys) /\ Range(Append(r, k)) = Range(r) \cup {k}
      /\ IsInjective(r) /\ k \notin Range(r) => IsInjective(Append(r, k))
  BY <1>2, RangeOfAppend
<1>5. /\ Touch(c, k) \in CacheSet /\ Touch(c, k).lru = Append(r, k)
      /\ Touch(c, k).byHash = c.byHash /\ Touch(c, k).pinned = c.pinned
      /\ Touch(c, k).entry = c.entry /\ Touch(c, k).ckpt = c.ckpt /\ Touch(c, k).saved = c.saved
  BY <1>3, <1>4 DEF CacheSet
<1> QED
  BY <1>2, <1>4, <1>5

(* The hashes of keys, of the persistent ones among them, and their slots. *)
Hashes(K) == {k.hash : k \in K}
EntryHashes(K) == {k.hash : k \in {x \in K : x.slot = Persistent}}
SlotsOf(K) == {k.slot : k \in K}

(* d is c without the keys of K. *)
Evicted(c, K, fresh, d) ==
  /\ d \in CacheSet
  /\ Range(d.lru) = Range(c.lru) \ K /\ (IsInjective(c.lru) => IsInjective(d.lru))
  /\ d.byHash = Without(c.byHash, Hashes(K))
  /\ d.pinned = c.pinned \ K
  /\ d.entry = Without(c.entry, EntryHashes(K))
  /\ \A s \in Slots : d.ckpt[s] = IF s \in SlotsOf(K) \cap fresh THEN NoCkpt ELSE c.ckpt[s]

(* unpin and evict, with the callbacks *)
LEMMA EvictFacts ==
  ASSUME NEW c \in CacheSet, NEW K, NEW fresh
  PROVE  Evicted(c, K, fresh, Evict(c, K, fresh))
<1> DEFINE H == Hashes(K)
           P == EntryHashes(K)
           D == SlotsOf(K) \cap fresh
           d == Evict(c, K, fresh)
<1>1. d = [lru |-> Drop(c.lru, K), byHash |-> Without(c.byHash, H), pinned |-> c.pinned \ K,
           entry |-> Without(c.entry, P),
           ckpt |-> [s \in Slots |-> IF s \in D THEN NoCkpt ELSE c.ckpt[s]],
           saved |-> [s \in Slots |-> IF s \in D THEN <<>> ELSE c.saved[s]]]
  BY DEF Evict, Hashes, EntryHashes, SlotsOf
<1> HIDE DEF H, P, D, d
<1>2. /\ c.lru \in Seq(Keys) /\ c.byHash \in Maps(Keys) /\ c.pinned \subseteq Keys
      /\ c.entry \in Maps(States)
      /\ c.ckpt \in [Slots -> Ckpts \cup {NoCkpt}] /\ c.saved \in [Slots -> Seq(Nat)]
  BY CacheTypes
<1>3. /\ Drop(c.lru, K) \in Seq(Keys) /\ Range(Drop(c.lru, K)) = Range(c.lru) \ K
      /\ IsInjective(c.lru) => IsInjective(Drop(c.lru, K))
  BY <1>2, DropFacts
<1>4. Without(c.byHash, H) \in Maps(Keys) /\ Without(c.entry, P) \in Maps(States)
  BY <1>2, WithoutFacts
<1>5. /\ [s \in Slots |-> IF s \in D THEN NoCkpt ELSE c.ckpt[s]] \in [Slots -> Ckpts \cup {NoCkpt}]
      /\ [s \in Slots |-> IF s \in D THEN <<>> ELSE c.saved[s]] \in [Slots -> Seq(Nat)]
  BY <1>2
<1>6. c.pinned \ K \subseteq Keys
  BY <1>2
<1>7. d \in CacheSet
  BY <1>1, <1>3, <1>4, <1>5, <1>6 DEF CacheSet
<1>8. /\ d.lru = Drop(c.lru, K) /\ d.byHash = Without(c.byHash, H) /\ d.pinned = c.pinned \ K
      /\ d.entry = Without(c.entry, P)
      /\ \A s \in Slots : d.ckpt[s] = IF s \in D THEN NoCkpt ELSE c.ckpt[s]
  BY <1>1
<1> QED
  BY <1>3, <1>7, <1>8 DEF H, P, D, d, Evicted

-----------------------------------------------------------------------------
(* The pool and the entries agree *)

(* The hash index leads to keys of the pool. *)
Indexed(c) ==
  \A h \in DOMAIN c.byHash : c.byHash[h] \in Range(c.lru) /\ c.byHash[h].hash = h

(* A slot has at most one rolling key. *)
OnePerSlot(c) ==
  \A k, l \in Range(c.lru) : k.slot \in Slots /\ k.slot = l.slot => k = l

(* The persistent keys of the pool are the entries', and pinned. *)
EntryKeys(c) ==
  /\ \A h \in DOMAIN c.entry : PersistentKey(h) \in Range(c.lru)
  /\ \A k \in Range(c.lru) : k.slot = Persistent => k.hash \in DOMAIN c.entry /\ k \in c.pinned

FewEntries(c) == IsFiniteSet(DOMAIN c.entry) /\ Cardinality(DOMAIN c.entry) <= Budget

Pool(c) ==
  /\ c \in CacheSet /\ IsInjective(c.lru)
  /\ Indexed(c) /\ OnePerSlot(c) /\ EntryKeys(c) /\ FewEntries(c)

(* A rolling key is the checkpoint its slot has on record. *)
TrackedKey(c, k) ==
  k.slot \in Slots => c.ckpt[k.slot] # NoCkpt /\ c.ckpt[k.slot].len = Len(k.hash)

Tracked(c) == \A k \in Range(c.lru) : TrackedKey(c, k)

(* Fewer entries are few. *)
LEMMA FewerEntries ==
  ASSUME NEW c, NEW d, FewEntries(c), DOMAIN d.entry \subseteq DOMAIN c.entry
  PROVE  FewEntries(d)
<1>1. /\ IsFiniteSet(DOMAIN d.entry) /\ Cardinality(DOMAIN d.entry) <= Cardinality(DOMAIN c.entry)
      /\ Cardinality(DOMAIN c.entry) \in Nat /\ Cardinality(DOMAIN d.entry) \in Nat
  BY FS_Subset, FS_CardinalityType DEF FewEntries
<1> QED
  BY <1>1, CheckpointAssumption DEF FewEntries

(* Evicting keys keeps pool, index and entries in agreement. *)
LEMMA EvictPool ==
  ASSUME NEW c, Pool(c), NEW K, K \subseteq Keys, NEW fresh
  PROVE  LET d == Evict(c, K, fresh) IN
         /\ Pool(d)
         /\ \A h \in DOMAIN c.entry : PersistentKey(h) \notin K => h \in DOMAIN d.entry
         /\ \A h \in DOMAIN d.entry : /\ h \in DOMAIN c.entry /\ d.entry[h] = c.entry[h]
                                      /\ PersistentKey(h) \notin K
<1> DEFINE H == Hashes(K)
           P == EntryHashes(K)
           d == Evict(c, K, fresh)
<1>0. c \in CacheSet /\ IsInjective(c.lru) /\ Indexed(c) /\ OnePerSlot(c) /\ EntryKeys(c) /\ FewEntries(c)
  BY DEF Pool
<1>1. /\ d \in CacheSet
      /\ Range(d.lru) = Range(c.lru) \ K /\ (IsInjective(c.lru) => IsInjective(d.lru))
      /\ d.byHash = Without(c.byHash, H) /\ d.pinned = c.pinned \ K
      /\ d.entry = Without(c.entry, P)
  BY <1>0, EvictFacts DEF Evicted
<1>2. /\ c.byHash \in Maps(Keys) /\ c.entry \in Maps(States) /\ Range(c.lru) \subseteq Keys
  BY <1>0, CacheTypes
<1> HIDE DEF d, H, P
<1>3. DOMAIN d.byHash = DOMAIN c.byHash \ H /\ \A h \in DOMAIN d.byHash : d.byHash[h] = c.byHash[h]
  BY <1>1 DEF Without
<1>4. DOMAIN d.entry = DOMAIN c.entry \ P /\ \A h \in DOMAIN d.entry : d.entry[h] = c.entry[h]
  BY <1>1 DEF Without
<1>5. DOMAIN c.entry \subseteq Seq(Nat)
  BY <1>2, MapFacts
<1>6. Indexed(d)
  <2> SUFFICES ASSUME NEW h \in DOMAIN d.byHash PROVE d.byHash[h] \in Range(d.lru) /\ d.byHash[h].hash = h
    BY DEF Indexed
  <2>1. c.byHash[h] \in Range(c.lru) /\ c.byHash[h].hash = h /\ h \notin H
    BY <1>0, <1>3 DEF Indexed
  <2>2. c.byHash[h] \notin K
    BY <2>1 DEF H, Hashes
  <2> QED
    BY <1>1, <1>3, <2>1, <2>2
<1>7. OnePerSlot(d)
  BY <1>0, <1>1 DEF OnePerSlot
<1>8. ASSUME NEW h \in DOMAIN c.entry PROVE (h \in P) <=> PersistentKey(h) \in K
  <2>1. h \in Seq(Nat)
    BY <1>5
  <2>2. PersistentKey(h).slot = Persistent /\ PersistentKey(h).hash = h
    BY <2>1, KeyKinds
  <2>3. ASSUME h \in P PROVE PersistentKey(h) \in K
    <3>1. PICK k \in K : k.slot = Persistent /\ k.hash = h
      BY <2>3 DEF P, EntryHashes
    <3>2. k = PersistentKey(k.hash)
      BY <3>1, KeyFacts
    <3> QED
      BY <3>1, <3>2
  <2>4. ASSUME PersistentKey(h) \in K PROVE h \in P
    BY <2>2, <2>4 DEF P, EntryHashes
  <2> QED
    BY <2>3, <2>4
<1>9. EntryKeys(d)
  <2>1. ASSUME NEW h \in DOMAIN d.entry PROVE PersistentKey(h) \in Range(d.lru)
    BY <1>0, <1>1, <1>4, <1>8 DEF EntryKeys
  <2>2. ASSUME NEW k \in Range(d.lru), k.slot = Persistent
        PROVE  k.hash \in DOMAIN d.entry /\ k \in d.pinned
    <3>1. k \in Range(c.lru) /\ k \notin K /\ k \in Keys
      BY <1>1, <1>2
    <3>2. k.hash \in DOMAIN c.entry /\ k \in c.pinned
      BY <1>0, <2>2, <3>1 DEF EntryKeys
    <3>3. k = PersistentKey(k.hash)
      BY <2>2, <3>1, KeyFacts
    <3>4. k.hash \notin P
      BY <1>8, <3>1, <3>2, <3>3
    <3> QED
      BY <1>1, <1>4, <3>1, <3>2, <3>4
  <2> QED
    BY <2>1, <2>2 DEF EntryKeys
<1>10. FewEntries(d)
  BY <1>0, <1>4, FewerEntries
<1>11. Pool(d)
  BY <1>0, <1>1, <1>6, <1>7, <1>9, <1>10 DEF Pool
<1> QED
  BY <1>4, <1>8, <1>11 DEF d

(* The checkpoints of keys that stay are not dropped. *)
LEMMA EvictKeeps ==
  ASSUME NEW c, Pool(c), NEW K, K \subseteq Range(c.lru), NEW fresh,
         NEW k \in Range(c.lru) \ K, k.slot \in Slots
  PROVE  Evict(c, K, fresh).ckpt[k.slot] = c.ckpt[k.slot]
<1>1. c \in CacheSet /\ OnePerSlot(c)
  BY DEF Pool
<1>2. k.slot \notin SlotsOf(K)
  BY <1>1 DEF OnePerSlot, SlotsOf
<1> QED
  BY <1>1, <1>2, EvictFacts DEF Evicted

(* The keys that stay are tracked if they were. *)
LEMMA EvictTracked ==
  ASSUME NEW c, Pool(c), NEW K, K \subseteq Range(c.lru), NEW fresh,
         \A k \in Range(c.lru) \ K : TrackedKey(c, k)
  PROVE  Tracked(Evict(c, K, fresh))
<1> SUFFICES ASSUME NEW k \in Range(Evict(c, K, fresh).lru) PROVE TrackedKey(Evict(c, K, fresh), k)
  BY DEF Tracked
<1>1. k \in Range(c.lru) \ K
  BY EvictFacts DEF Pool, Evicted
<1> QED
  BY <1>1, EvictKeeps DEF TrackedKey

(* The pool does not look at the checkpoints or the saved prefixes. *)
LEMMA SamePool ==
  ASSUME NEW c, Pool(c), NEW d \in CacheSet,
         d.lru = c.lru, d.byHash = c.byHash, d.pinned = c.pinned, d.entry = c.entry
  PROVE  Pool(d)
  BY DEF Pool, Indexed, OnePerSlot, EntryKeys, FewEntries

(* A hash that belongs to no evicted key is found as before. *)
LEMMA EvictFinds ==
  ASSUME NEW c \in CacheSet, NEW K, NEW fresh, NEW h, NEW k,
         Finds(c, h, k), \A l \in K : l.hash # h
  PROVE  Finds(Evict(c, K, fresh), h, k)
<1> DEFINE f == c.byHash
           H == Hashes(K)
<1>2. h \in DOMAIN f \ H /\ f[h] = k
  BY DEF Finds, Hashes
<1>3. Evict(c, K, fresh).byHash = Without(f, H)
  <2>1. Evicted(c, K, fresh, Evict(c, K, fresh))
    BY EvictFacts
  <2> QED
    BY <2>1 DEF Evicted
<1> HIDE DEF f, H
<1>4. DOMAIN Without(f, H) = DOMAIN f \ H /\ \A x \in DOMAIN f \ H : Without(f, H)[x] = f[x]
  BY DEF Without
<1> QED
  BY <1>2, <1>3, <1>4 DEF Finds

(* d is c without the checkpoint and the keys of slot s. *)
SlotEvicted(c, s, d) ==
  /\ Pool(d) /\ Tracked(d)
  /\ \A k : k \in Range(d.lru) <=> k \in Range(c.lru) /\ k.slot # s
  /\ d.ckpt[s] = NoCkpt /\ \A t \in Slots : t # s => d.ckpt[t] = c.ckpt[t]
  /\ DOMAIN d.entry = DOMAIN c.entry /\ \A h \in DOMAIN c.entry : d.entry[h] = c.entry[h]
  /\ \A h, x : /\ Finds(c, h, x)
               /\ \A k \in Range(c.lru) : k.slot = s => k.hash # h
               => Finds(d, h, x)

(* K is the set of the rolling keys of a slot. *)
AreKeysOf(K, c, s) == \A k : k \in K <=> k \in Range(c.lru) /\ k.slot = s

(* Evicting the keys of one slot whose checkpoint was forgotten. *)
LEMMA EvictSlotKeys ==
  ASSUME NEW c, Pool(c), Tracked(c), NEW s \in Slots, NEW fresh, NEW b \in CacheSet,
         b.lru = c.lru, b.byHash = c.byHash, b.pinned = c.pinned, b.entry = c.entry,
         b.ckpt[s] = NoCkpt, \A t \in Slots : t # s => b.ckpt[t] = c.ckpt[t],
         NEW K, AreKeysOf(K, c, s)
  PROVE  SlotEvicted(c, s, Evict(b, K, fresh))
<1> DEFINE d == Evict(b, K, fresh)
<1>0. \A k : k \in K <=> k \in Range(c.lru) /\ k.slot = s
  BY DEF AreKeysOf
<1>1. Pool(b)
  BY SamePool
<1>2. K \subseteq Range(b.lru) /\ K \subseteq Keys
  BY <1>0, CacheTypes
<1>3. /\ Pool(d)
      /\ \A h \in DOMAIN b.entry : PersistentKey(h) \notin K => h \in DOMAIN d.entry
      /\ \A h \in DOMAIN d.entry : /\ h \in DOMAIN b.entry /\ d.entry[h] = b.entry[h]
                                   /\ PersistentKey(h) \notin K
  BY <1>1, <1>2, EvictPool, Zenon
<1>4. /\ Range(d.lru) = Range(b.lru) \ K
      /\ \A t \in Slots : d.ckpt[t] = IF t \in SlotsOf(K) \cap fresh THEN NoCkpt ELSE b.ckpt[t]
  <2>1. Evicted(b, K, fresh, d)
    BY EvictFacts
  <2> HIDE DEF d
  <2> QED
    BY <2>1 DEF Evicted
<1>5. \A k \in Range(b.lru) \ K : TrackedKey(b, k)
  BY <1>0 DEF Tracked, TrackedKey
<1>6. Tracked(d)
  BY <1>1, <1>2, <1>5, EvictTracked
<1>7. \A t \in Slots : t \in SlotsOf(K) => t = s
  BY <1>0 DEF SlotsOf
<1>8. \A h \in DOMAIN c.entry : PersistentKey(h) \notin K
  BY <1>0, CheckpointAssumption DEF PersistentKey
<1>9. ASSUME NEW h, NEW x, Finds(c, h, x), \A k \in Range(c.lru) : k.slot = s => k.hash # h
      PROVE  Finds(d, h, x)
  <2>1. Finds(b, h, x) /\ \A l \in K : l.hash # h
    BY <1>0, <1>9 DEF Finds
  <2> QED
    BY <2>1, EvictFinds
<1> HIDE DEF d
<1>10. \A k : k \in Range(d.lru) <=> k \in Range(c.lru) /\ k.slot # s
  BY <1>0, <1>4
<1>11. d.ckpt[s] = NoCkpt /\ \A t \in Slots : t # s => d.ckpt[t] = c.ckpt[t]
  BY <1>4, <1>7
<1>12. DOMAIN d.entry = DOMAIN c.entry /\ \A h \in DOMAIN c.entry : d.entry[h] = c.entry[h]
  BY <1>3, <1>8
<1> QED
  BY <1>3, <1>6, <1>9, <1>10, <1>11, <1>12 DEF d, SlotEvicted

(* _evict_checkpoint leaves the slot without a checkpoint and without a    *)
(* key, and everything else as it was.                                     *)
LEMMA EvictCheckpointFacts ==
  ASSUME NEW c, Pool(c), Tracked(c), NEW s \in Slots, NEW fresh
  PROVE  SlotEvicted(c, s, EvictCheckpoint(c, s, fresh))
<1> DEFINE d == EvictCheckpoint(c, s, fresh)
<1>0. c \in CacheSet
  BY DEF Pool
<1>1. CASE c.ckpt[s] = NoCkpt
  <2>1. d = c
    BY <1>1 DEF EvictCheckpoint
  <2>2. \A k \in Range(c.lru) : k.slot # s
    BY <1>1 DEF Tracked, TrackedKey
  <2> QED
    BY <1>1, <2>1, <2>2 DEF SlotEvicted
<1>2. CASE c.ckpt[s] # NoCkpt
  <2>1. PICK b, K : /\ b = [c EXCEPT !.ckpt[s] = NoCkpt]
                    /\ K = {k \in Range(c.lru) : k.slot = s /\ Len(k.hash) = c.ckpt[s].len}
    OBVIOUS
  <2>2. d = Evict(b, K, fresh)
    BY <1>2, <2>1 DEF EvictCheckpoint
  <2>3. /\ b \in CacheSet /\ b.lru = c.lru /\ b.byHash = c.byHash /\ b.pinned = c.pinned
        /\ b.entry = c.entry /\ b.ckpt = [c.ckpt EXCEPT ![s] = NoCkpt]
    BY <1>0, <2>1 DEF CacheSet
  <2>4. AreKeysOf(K, c, s)
    BY <2>1 DEF Tracked, TrackedKey, AreKeysOf
  <2>5. b.ckpt[s] = NoCkpt /\ \A t \in Slots : t # s => b.ckpt[t] = c.ckpt[t]
    BY <1>0, <2>3, CacheTypes
  <2>6. SlotEvicted(c, s, Evict(b, K, fresh))
    BY <2>3, <2>4, <2>5, EvictSlotKeys
  <2> QED
    BY <2>2, <2>6
<1> QED
  BY <1>1, <1>2

-----------------------------------------------------------------------------
(* Making room *)

(* The smaller of two numbers. *)
LEMMA MinOfTwo ==
  ASSUME NEW a \in Nat, NEW b \in Nat
  PROVE  /\ Min({a, b}) \in Nat /\ Min({a, b}) <= a /\ Min({a, b}) <= b
         /\ a <= b => Min({a, b}) = a
<1> DEFINE m == Min({a, b})
<1>1. \E x \in {a, b} : \A y \in {a, b} : x =< y
  <2>1. CASE a <= b
    BY <2>1
  <2>2. CASE b <= a
    BY <2>2
  <2> QED
    BY <2>1, <2>2
<1>2. m \in {a, b} /\ \A y \in {a, b} : m =< y
  BY <1>1 DEF Min
<1> HIDE DEF m
<1>3. m \in Nat /\ m <= a /\ m <= b /\ (a <= b => m = a)
  BY <1>2
<1> QED
  BY <1>3 DEF m

(* How many keys are too many for one more. *)
Over(c) == IF Len(c.lru) + 1 > Budget THEN Len(c.lru) + 1 - Budget ELSE 0

(* Some evictable keys are evicted, as many as it takes if all are. *)
BudgetEvicted(c, evictable, fresh, d) ==
  \E K : /\ K \subseteq Range(c.lru) /\ K \subseteq evictable
         /\ d = Evict(c, K, fresh)
         /\ (evictable = Range(c.lru) /\ IsInjective(c.lru)) => IsFiniteSet(K) /\ Cardinality(K) = Over(c)

(* evict_for_budget evicts evictable keys only, and enough of them when    *)
(* every key is evictable.                                                 *)
LEMMA BudgetFacts ==
  ASSUME NEW c \in CacheSet, NEW evictable, NEW fresh
  PROVE  BudgetEvicted(c, evictable, fresh, EvictForBudget(c, evictable, fresh))
<1> DEFINE q == c.lru
           I == {i \in 1..Len(q) : q[i] \in evictable}
           v == Pick(q, I)
           n == Min({Over(c), Len(v)})
           K == {v[i] : i \in 1..n}
<1>0. q \in Seq(Keys)
  BY CacheTypes
<1>1. EvictForBudget(c, evictable, fresh) = Evict(c, K, fresh)
  BY DEF EvictForBudget, Over
<1>2. Budget \in Nat /\ Budget > 0 /\ Over(c) \in Nat /\ Len(q) \in Nat
  BY <1>0, CheckpointAssumption DEF Over
<1>3. I \subseteq 1..Len(q) /\ \A i \in I : q[i] \in evictable
  OBVIOUS
<1>8. evictable = Range(q) => I = 1..Len(q)
  BY <1>0 DEF Range
<1> HIDE DEF I
<1>4. Picks(Keys, q, I, v, Ascending(I))
  BY <1>0, <1>3, PickFacts
<1>5. /\ v \in Seq(Keys) /\ Len(v) \in Nat /\ Len(v) = Cardinality(I)
      /\ \A x \in Range(v) : \E i \in I : x = q[i]
  BY <1>4 DEF Picks
<1>9. IsInjective(q) => IsInjective(v)
  BY <1>0, <1>3, PickInjective
<1> HIDE DEF v
<1>6. n \in Nat /\ n <= Len(v) /\ (Over(c) <= Len(v) => n = Over(c))
  BY <1>2, <1>5, MinOfTwo
<1> HIDE DEF n
<1>7. K \subseteq Range(q) /\ K \subseteq evictable
  <2> SUFFICES ASSUME NEW i \in 1..n PROVE v[i] \in Range(q) /\ v[i] \in evictable
    OBVIOUS
  <2>1. v[i] \in Range(v)
    BY <1>5, <1>6 DEF Range
  <2>2. PICK j \in I : v[i] = q[j]
    BY <1>5, <2>1
  <2>3. j \in DOMAIN q /\ q[j] \in evictable
    BY <1>0, <1>3, <2>2
  <2> QED
    BY <2>2, <2>3 DEF Range
<1>10. ASSUME evictable = Range(q), IsInjective(q)
       PROVE  IsFiniteSet(K) /\ Cardinality(K) = Over(c)
  <2>4. Cardinality(1..Len(q)) = IF 1 > Len(q) THEN 0 ELSE Len(q) - 1 + 1
    <3>1. 1 \in Int /\ Len(q) \in Int
      BY <1>2
    <3> HIDE DEF q
    <3> QED
      BY <3>1, FS_Interval
  <2>5. Cardinality(1..Len(q)) = Len(q)
    BY <1>2, <2>4
  <2>1. Len(v) = Len(q)
    BY <1>5, <1>8, <1>10, <2>5
  <2>2. n = Over(c)
    BY <1>2, <1>6, <2>1 DEF Over
  <2>3. n \in 0..Len(v) /\ IsInjective(v)
    BY <1>6, <1>9, <1>10
  <2>7. v \in Seq(Keys)
    BY <1>5
  <2>6. IsFiniteSet({v[i] : i \in 1..n}) /\ Cardinality({v[i] : i \in 1..n}) = n
    BY <2>3, <2>7, FirstCount
  <2> QED
    BY <2>2, <2>6
<1> HIDE DEF K, q
<1>11. K \subseteq Range(c.lru) /\ (evictable = Range(c.lru) /\ IsInjective(c.lru) => IsFiniteSet(K) /\ Cardinality(K) = Over(c))
  BY <1>7, <1>10 DEF q
<1> QED
  BY <1>1, <1>7, <1>11 DEF BudgetEvicted

(* With every key evictable there is room for one more. *)
LEMMA BudgetRoom ==
  ASSUME NEW c \in CacheSet, IsInjective(c.lru), NEW fresh
  PROVE  LET d == EvictForBudget(c, Range(c.lru), fresh) IN
         Len(d.lru) \in Nat /\ Len(d.lru) + 1 <= Budget
<1>1. PICK K : /\ K \subseteq Range(c.lru)
               /\ EvictForBudget(c, Range(c.lru), fresh) = Evict(c, K, fresh)
               /\ IsFiniteSet(K) /\ Cardinality(K) = Over(c)
  <2>1. BudgetEvicted(c, Range(c.lru), fresh, EvictForBudget(c, Range(c.lru), fresh))
    BY BudgetFacts
  <2> QED
    BY <2>1 DEF BudgetEvicted
<1>2. PICK d : d = Evict(c, K, fresh)
  OBVIOUS
<1>3. Evicted(c, K, fresh, d)
  BY <1>2, EvictFacts
<1>4. d \in CacheSet /\ Range(d.lru) = Range(c.lru) \ K /\ IsInjective(d.lru)
  BY <1>3 DEF Evicted
<1>5. c.lru \in Seq(Keys) /\ d.lru \in Seq(Keys)
  BY <1>4, CacheTypes
<1>6. /\ IsFiniteSet(Range(c.lru)) /\ Cardinality(Range(c.lru)) = Len(c.lru)
      /\ Cardinality(Range(d.lru)) = Len(d.lru)
  BY <1>4, <1>5, InjectiveLength
<1>7. Range(c.lru) \cap K = K
  BY <1>1
<1>8. Cardinality(Range(c.lru) \ K) = Cardinality(Range(c.lru)) - Cardinality(Range(c.lru) \cap K)
  BY <1>6, FS_Difference
<1>9. Len(d.lru) = Len(c.lru) - Over(c)
  BY <1>1, <1>4, <1>6, <1>7, <1>8
<1>10. Len(d.lru) \in Nat /\ Len(c.lru) \in Nat /\ Budget \in Nat
  BY <1>5, CheckpointAssumption
<1>11. Len(d.lru) + 1 <= Budget
  BY <1>9, <1>10 DEF Over
<1> QED
  BY <1>1, <1>2, <1>10, <1>11

-----------------------------------------------------------------------------
(* Adding keys *)

(* d is c with a rolling checkpoint of slot s at toks. *)
RollingAdded(c, s, toks, st, d) ==
  /\ Pool(d) /\ Tracked(d)
  /\ Range(d.lru) = Range(c.lru) \cup {Rolling(s, toks)}
  /\ d.entry = c.entry
  /\ d.ckpt = [c.ckpt EXCEPT ![s] = [len |-> Len(toks), state |-> st]]
  /\ \A h, x : Finds(c, h, x) /\ h # toks => Finds(d, h, x)

(* d is c with an entry for toks. *)
EntryAdded(c, toks, st, d) ==
  /\ Pool(d) /\ Tracked(d)
  /\ Range(d.lru) = Range(c.lru) \cup {PersistentKey(toks)}
  /\ DOMAIN d.entry = DOMAIN c.entry \cup {toks} /\ d.entry[toks] = st
  /\ \A h \in DOMAIN c.entry : h # toks => d.entry[h] = c.entry[h]
  /\ d.ckpt = c.ckpt
  /\ Finds(d, toks, PersistentKey(toks))
  /\ \A h, x : Finds(c, h, x) /\ h # toks => Finds(d, h, x)

(* What register does to the LRU order and the index. *)
Registered(c, k, d) ==
  /\ Range(d.lru) = Range(c.lru) \cup {k} /\ IsInjective(d.lru)
  /\ Indexed(d) /\ Finds(d, k.hash, k)
  /\ \A h, x : Finds(c, h, x) /\ h # k.hash => Finds(d, h, x)

(* A key that is not in the pool is registered. *)
LEMMA RegisterIndex ==
  ASSUME NEW c, Pool(c), NEW k \in Keys, k \notin Range(c.lru), NEW d,
         d.lru = Append(c.lru, k), d.byHash = With(c.byHash, k.hash, k)
  PROVE  Registered(c, k, d)
<1>1. c \in CacheSet /\ IsInjective(c.lru) /\ Indexed(c)
  BY DEF Pool
<1>2. c.lru \in Seq(Keys) /\ c.byHash \in Maps(Keys) /\ k.hash \in Seq(Nat)
  BY <1>1, CacheTypes, KeyFacts
<1>3. Range(d.lru) = Range(c.lru) \cup {k} /\ IsInjective(d.lru)
  BY <1>1, <1>2, RangeOfAppend
<1>4. PICK f, x : f = c.byHash /\ x = k.hash
  OBVIOUS

<1>5. /\ DOMAIN With(f, x, k) = DOMAIN f \cup {x} /\ With(f, x, k)[x] = k
      /\ \A h \in DOMAIN f : h # x => With(f, x, k)[h] = f[h]
  BY DEF With
<1>6. /\ DOMAIN d.byHash = DOMAIN c.byHash \cup {k.hash} /\ d.byHash[k.hash] = k
      /\ \A h \in DOMAIN c.byHash : h # k.hash => d.byHash[h] = c.byHash[h]
  BY <1>4, <1>5
<1>7. Indexed(d)
  BY <1>1, <1>3, <1>6 DEF Indexed
<1> QED
  BY <1>3, <1>6, <1>7 DEF Registered, Finds

(* A slot without keys gets a rolling one. *)
LEMMA RollingFacts ==
  ASSUME NEW c, Pool(c), Tracked(c), NEW s \in Slots, \A k \in Range(c.lru) : k.slot # s,
         NEW toks \in Seq(Nat), NEW st \in Seq(Nat)
  PROVE  RollingAdded(c, s, toks, st,
           [Register(c, Rolling(s, toks)) EXCEPT !.ckpt[s] = [len |-> Len(toks), state |-> st]])
<1>1. PICK k, v, r : /\ k = Rolling(s, toks) /\ v = [len |-> Len(toks), state |-> st]
                     /\ r = Register(c, k)
  OBVIOUS
<1>2. PICK d : d = [r EXCEPT !.ckpt[s] = v]
  OBVIOUS
<1>3. c \in CacheSet /\ k \in Keys /\ k.slot = s /\ k.hash = toks /\ s # Persistent
  BY <1>1, KeyKinds DEF Pool
<1>4. v \in Ckpts /\ v # NoCkpt /\ v.len = Len(toks)
  BY <1>1, CheckpointAssumption DEF Ckpts
<1>5. /\ r \in CacheSet /\ r.lru = Append(c.lru, k) /\ r.byHash = With(c.byHash, k.hash, k)
      /\ r.pinned = c.pinned /\ r.entry = c.entry /\ r.ckpt = c.ckpt /\ r.saved = c.saved
  BY <1>1, <1>3, RegisterFacts
<1>6. /\ d \in CacheSet /\ d.lru = r.lru /\ d.byHash = r.byHash /\ d.pinned = r.pinned
      /\ d.entry = r.entry /\ d.ckpt = [r.ckpt EXCEPT ![s] = v]
  BY <1>2, <1>4, <1>5 DEF CacheSet
<1>7. k \notin Range(c.lru)
  BY <1>3
<1>8. Registered(c, k, d)
  BY <1>3, <1>5, <1>6, <1>7, RegisterIndex
<1>9. /\ Range(d.lru) = Range(c.lru) \cup {k} /\ IsInjective(d.lru) /\ Indexed(d)
      /\ \A h, x : Finds(c, h, x) /\ h # toks => Finds(d, h, x)
  BY <1>3, <1>8 DEF Registered
<1>10. OnePerSlot(d)
  BY <1>3, <1>9 DEF OnePerSlot, Pool
<1>11. EntryKeys(d)
  BY <1>3, <1>5, <1>6, <1>9 DEF EntryKeys, Pool
<1>12. FewEntries(d)
  BY <1>5, <1>6 DEF FewEntries, Pool
<1>13. d.ckpt = [c.ckpt EXCEPT ![s] = v] /\ c.ckpt \in [Slots -> Ckpts \cup {NoCkpt}]
  BY <1>3, <1>5, <1>6, CacheTypes
<1>14. Tracked(d)
  <2> SUFFICES ASSUME NEW l \in Range(d.lru), l.slot \in Slots
               PROVE  d.ckpt[l.slot] # NoCkpt /\ d.ckpt[l.slot].len = Len(l.hash)
    BY DEF Tracked, TrackedKey
  <2>1. CASE l = k
    BY <1>3, <1>4, <1>13, <2>1
  <2>2. CASE l \in Range(c.lru)
    BY <1>13, <2>2 DEF Tracked, TrackedKey
  <2> QED
    BY <1>9, <2>1, <2>2
<1>15. RollingAdded(c, s, toks, st, d)
  BY <1>1, <1>5, <1>6, <1>9, <1>10, <1>11, <1>12, <1>13, <1>14 DEF RollingAdded, Pool
<1> QED
  BY <1>1, <1>2, <1>15

(* An entry takes a key of the pool. *)
LEMMA EntryCount ==
  ASSUME NEW c, Pool(c)
  PROVE  /\ IsFiniteSet(DOMAIN c.entry) /\ Cardinality(DOMAIN c.entry) \in Nat
         /\ Len(c.lru) \in Nat /\ Cardinality(DOMAIN c.entry) <= Len(c.lru)
<1>1. /\ c \in CacheSet /\ IsInjective(c.lru) /\ EntryKeys(c) /\ IsFiniteSet(DOMAIN c.entry)
  BY DEF Pool, FewEntries
<1>2. c.lru \in Seq(Keys) /\ c.entry \in Maps(States)
  BY <1>1, CacheTypes
<1>3. IsFiniteSet(Range(c.lru)) /\ Cardinality(Range(c.lru)) = Len(c.lru)
  BY <1>1, <1>2, InjectiveLength
<1>4. PICK D, R : D = DOMAIN c.entry /\ R = Range(c.lru)
  OBVIOUS
<1>5. \A h \in D : PersistentKey(h) \in R /\ PersistentKey(h).hash = h
  BY <1>1, <1>4 DEF EntryKeys, PersistentKey
<1>6. [h \in D |-> PersistentKey(h)] \in Injection(D, R)
  BY <1>5 DEF Injection, IsInjective
<1>7. Cardinality(D) <= Cardinality(R)
  BY <1>1, <1>3, <1>4, <1>6, FS_Injection
<1> QED
  BY <1>1, <1>2, <1>3, <1>4, <1>7, FS_CardinalityType

(* Where one more key fits, a new prompt gets its entry. *)
LEMMA EntryFacts ==
  ASSUME NEW c, Pool(c), Tracked(c), NEW toks \in Seq(Nat), toks \notin DOMAIN c.entry,
         NEW st \in Seq(Nat), Len(c.lru) + 1 <= Budget
  PROVE  EntryAdded(c, toks, st,
           [Register(c, PersistentKey(toks)) EXCEPT !.pinned = @ \cup {PersistentKey(toks)},
                                                    !.entry = With(@, toks, st)])
<1>1. PICK k, r : k = PersistentKey(toks) /\ r = Register(c, k)
  OBVIOUS
<1>2. PICK d : d = [r EXCEPT !.pinned = @ \cup {k}, !.entry = With(@, toks, st)]
  OBVIOUS
<1>3. c \in CacheSet /\ k \in Keys /\ k.slot = Persistent /\ k.hash = toks /\ EntryKeys(c)
  BY <1>1, KeyKinds DEF Pool
<1>4. /\ r \in CacheSet /\ r.lru = Append(c.lru, k) /\ r.byHash = With(c.byHash, k.hash, k)
      /\ r.pinned = c.pinned /\ r.entry = c.entry /\ r.ckpt = c.ckpt /\ r.saved = c.saved
  BY <1>1, <1>3, RegisterFacts
<1>5. c.entry \in Maps(States) /\ c.pinned \subseteq Keys /\ Range(c.lru) \subseteq Keys
  BY <1>3, CacheTypes
<1>6. PICK e : e = With(c.entry, toks, st)
  OBVIOUS
<1>7. e \in Maps(States)
  BY <1>5, <1>6, WithFacts DEF States
<1>8. /\ DOMAIN e = DOMAIN c.entry \cup {toks} /\ e[toks] = st
      /\ \A h \in DOMAIN c.entry : h # toks => e[h] = c.entry[h]
  BY <1>6 DEF With
<1>9. /\ d \in CacheSet /\ d.lru = r.lru /\ d.byHash = r.byHash /\ d.pinned = c.pinned \cup {k}
      /\ d.entry = e /\ d.ckpt = c.ckpt
  <2>1. d = [r EXCEPT !.pinned = c.pinned \cup {k}, !.entry = e]
    BY <1>2, <1>4, <1>6
  <2>2. c.pinned \cup {k} \in SUBSET Keys
    BY <1>3, <1>5
  <2> QED
    BY <1>4, <1>7, <2>1, <2>2 DEF CacheSet
<1>10. k \notin Range(c.lru)
  BY <1>3 DEF EntryKeys
<1>11. Registered(c, k, d)
  BY <1>3, <1>4, <1>9, <1>10, RegisterIndex
<1>12. /\ Range(d.lru) = Range(c.lru) \cup {k} /\ IsInjective(d.lru) /\ Indexed(d)
       /\ Finds(d, toks, k) /\ \A h, x : Finds(c, h, x) /\ h # toks => Finds(d, h, x)
  BY <1>3, <1>11 DEF Registered
<1>13. OnePerSlot(d)
  BY <1>3, <1>12, CheckpointAssumption DEF OnePerSlot, Pool
<1>14. EntryKeys(d)
  BY <1>1, <1>3, <1>8, <1>9, <1>12 DEF EntryKeys
<1>15. FewEntries(d)
  <2>1. /\ IsFiniteSet(DOMAIN c.entry) /\ Cardinality(DOMAIN c.entry) \in Nat
        /\ Len(c.lru) \in Nat /\ Cardinality(DOMAIN c.entry) <= Len(c.lru)
    BY EntryCount
  <2>2. /\ IsFiniteSet(DOMAIN c.entry \cup {toks})
        /\ Cardinality(DOMAIN c.entry \cup {toks}) = Cardinality(DOMAIN c.entry) + 1
    BY <2>1, FS_AddElement
  <2>3. Cardinality(DOMAIN c.entry) + 1 <= Budget
    BY <2>1, CheckpointAssumption
  <2> QED
    BY <1>8, <1>9, <2>2, <2>3 DEF FewEntries
<1>16. Tracked(d)
  BY <1>3, <1>9, <1>12, CheckpointAssumption DEF Tracked, TrackedKey
<1>17. EntryAdded(c, toks, st, d)
  BY <1>1, <1>8, <1>9, <1>12, <1>13, <1>14, <1>15, <1>16 DEF EntryAdded, Pool
<1> QED
  BY <1>1, <1>2, <1>17

(* d differs from c in the order of its keys and the saved prefixes. *)
SameKeys(c, d) ==
  /\ Pool(d) /\ Tracked(d)
  /\ Range(d.lru) = Range(c.lru) /\ d.byHash = c.byHash
  /\ d.entry = c.entry /\ d.ckpt = c.ckpt

(* Touching a key of the pool. *)
LEMMA TouchPool ==
  ASSUME NEW c, Pool(c), Tracked(c), NEW k \in Range(c.lru)
  PROVE  SameKeys(c, Touch(c, k))
<1>1. PICK d : d = Touch(c, k)
  OBVIOUS
<1>2. c \in CacheSet /\ k \in Keys
  BY CacheTypes DEF Pool
<1>3. /\ d \in CacheSet
      /\ Range(d.lru) = Range(c.lru) \cup {k} /\ (IsInjective(c.lru) => IsInjective(d.lru))
      /\ d.byHash = c.byHash
      /\ d.pinned = c.pinned /\ d.entry = c.entry /\ d.ckpt = c.ckpt
  BY <1>1, <1>2, TouchFacts
<1>4. Range(d.lru) = Range(c.lru)
  BY <1>3
<1>5. Pool(d)
  BY <1>3, <1>4 DEF Pool, Indexed, OnePerSlot, EntryKeys, FewEntries
<1>6. Tracked(d)
  BY <1>3, <1>4 DEF Tracked, TrackedKey
<1> QED
  BY <1>1, <1>3, <1>4, <1>5, <1>6 DEF SameKeys

(* Saving a slot's prefix. *)
LEMMA SavePool ==
  ASSUME NEW c, Pool(c), Tracked(c), NEW s \in Slots, NEW p \in Seq(Nat)
  PROVE  SameKeys(c, [c EXCEPT !.saved[s] = p])
<1>1. PICK d : d = [c EXCEPT !.saved[s] = p]
  OBVIOUS
<1>2. c \in CacheSet
  BY DEF Pool
<1>3. /\ d \in CacheSet /\ d.lru = c.lru /\ d.byHash = c.byHash
      /\ d.pinned = c.pinned /\ d.entry = c.entry /\ d.ckpt = c.ckpt
  BY <1>1, <1>2 DEF CacheSet
<1>4. Pool(d)
  BY <1>3, SamePool
<1>5. Tracked(d)
  BY <1>3 DEF Tracked, TrackedKey
<1> QED
  BY <1>1, <1>3, <1>4, <1>5 DEF SameKeys

(* d is c after some evictions. *)
RoomMade(c, d) ==
  /\ Pool(d) /\ Tracked(d)
  /\ Range(d.lru) \subseteq Range(c.lru)
  /\ DOMAIN d.entry \subseteq DOMAIN c.entry
  /\ \A t \in Slots : c.ckpt[t] = NoCkpt => d.ckpt[t] = NoCkpt

(* Making room keeps pool, index, entries and checkpoints in agreement. *)
LEMMA BudgetPool ==
  ASSUME NEW c, Pool(c), Tracked(c), NEW evictable, NEW fresh
  PROVE  RoomMade(c, EvictForBudget(c, evictable, fresh))
<1>1. c \in CacheSet
  BY DEF Pool
<1>2. PICK K : /\ K \subseteq Range(c.lru)
               /\ EvictForBudget(c, evictable, fresh) = Evict(c, K, fresh)
  BY <1>1, BudgetFacts DEF BudgetEvicted
<1>3. PICK d : d = Evict(c, K, fresh)
  OBVIOUS
<1>4. K \subseteq Keys
  BY <1>1, <1>2, CacheTypes
<1>5. Pool(d) /\ \A h \in DOMAIN d.entry : h \in DOMAIN c.entry
  BY <1>3, <1>4, EvictPool
<1>6. Tracked(d)
  BY <1>2, <1>3, EvictTracked DEF Tracked
<1>7. Evicted(c, K, fresh, d)
  BY <1>1, <1>3, EvictFacts
<1>8. /\ Range(d.lru) \subseteq Range(c.lru)
      /\ \A t \in Slots : c.ckpt[t] = NoCkpt => d.ckpt[t] = NoCkpt
  BY <1>7 DEF Evicted
<1> QED
  BY <1>2, <1>3, <1>5, <1>6, <1>8 DEF RoomMade

(* Evicting unpinned keys evicts no entry. *)
LEMMA UnpinnedKeepsEntries ==
  ASSUME NEW c, Pool(c), NEW fresh
  PROVE  DOMAIN c.entry \subseteq DOMAIN EvictForBudget(c, Unpinned(c), fresh).entry
<1>1. c \in CacheSet /\ EntryKeys(c)
  BY DEF Pool
<1>2. PICK K : /\ K \subseteq Range(c.lru) /\ K \subseteq Unpinned(c)
               /\ EvictForBudget(c, Unpinned(c), fresh) = Evict(c, K, fresh)
  BY <1>1, BudgetFacts DEF BudgetEvicted
<1>3. K \subseteq Keys
  BY <1>1, <1>2, CacheTypes
<1>4. \A h \in DOMAIN c.entry : PersistentKey(h) \notin K => h \in DOMAIN Evict(c, K, fresh).entry
  BY <1>3, EvictPool
<1>5. ASSUME NEW h \in DOMAIN c.entry PROVE PersistentKey(h) \notin K
  <2>1. PersistentKey(h) \in Range(c.lru) /\ PersistentKey(h).slot = Persistent
    BY <1>1 DEF EntryKeys, PersistentKey
  <2>2. PersistentKey(h) \in c.pinned
    BY <1>1, <2>1 DEF EntryKeys
  <2> QED
    BY <1>2, <2>2 DEF Unpinned
<1> QED
  BY <1>2, <1>4, <1>5

-----------------------------------------------------------------------------
(* Taking a checkpoint, storing an entry *)

(* d is c with room for one more key, and nothing of slot s. *)
SlotRoom(c, s, evict(_), fresh, d) ==
  \E b : /\ SlotEvicted(c, s, b) /\ d = EvictForBudget(b, evict(b), fresh)
         /\ Pool(d) /\ Tracked(d)
         /\ d.ckpt[s] = NoCkpt /\ \A k \in Range(d.lru) : k.slot # s
         /\ DOMAIN d.entry \subseteq DOMAIN c.entry

AllOf(c) == Range(c.lru)

(* d is c after _maybe_checkpoint of slot s: not due, the slot's old       *)
(* checkpoint replaced by nothing, or by a new one.                        *)
MaybeOutcome(c, s, toks, st, force, fresh, d) ==
  \/ /\ d = c
     /\ \/ ~force /\ Len(toks) % BlockSize # 0
        \/ c.ckpt[s] # NoCkpt /\ c.ckpt[s].len = Len(toks)
  \/ /\ force \/ Len(toks) % BlockSize = 0
     /\ ~(c.ckpt[s] # NoCkpt /\ c.ckpt[s].len = Len(toks))
     /\ \E b : /\ SlotRoom(c, s, Unpinned, fresh, b)
               /\ DOMAIN b.entry = DOMAIN c.entry
               /\ \/ d = b /\ Finds(b, toks, PersistentKey(toks))
                  \/ RollingAdded(b, s, toks, st, d) /\ ~Finds(b, toks, PersistentKey(toks))

(* _maybe_checkpoint has one of these outcomes. *)
LEMMA MaybeFacts ==
  ASSUME NEW c, Pool(c), Tracked(c), NEW s \in Slots, NEW toks \in Seq(Nat), NEW st \in Seq(Nat),
         NEW force \in BOOLEAN, NEW fresh
  PROVE  MaybeOutcome(c, s, toks, st, force, fresh, MaybeCheckpoint(c, s, toks, st, force, fresh))
<1>1. PICK b1, b, d : /\ b1 = EvictCheckpoint(c, s, fresh)
                      /\ b = EvictForBudget(b1, Unpinned(b1), fresh)
                      /\ d = [Register(b, Rolling(s, toks))
                                EXCEPT !.ckpt[s] = [len |-> Len(toks), state |-> st]]
  OBVIOUS
<1>2. SlotEvicted(c, s, b1)
  BY <1>1, EvictCheckpointFacts
<1>3. Pool(b1) /\ Tracked(b1) /\ b1.ckpt[s] = NoCkpt /\ DOMAIN b1.entry = DOMAIN c.entry
  BY <1>2 DEF SlotEvicted
<1>4. RoomMade(b1, b)
  BY <1>1, <1>3, BudgetPool
<1>5. DOMAIN b1.entry \subseteq DOMAIN b.entry
  BY <1>1, <1>3, UnpinnedKeepsEntries
<1>6. /\ Pool(b) /\ Tracked(b) /\ b.ckpt[s] = NoCkpt /\ DOMAIN b.entry = DOMAIN c.entry
      /\ \A k \in Range(b.lru) : k.slot # s
  BY <1>2, <1>3, <1>4, <1>5 DEF RoomMade, SlotEvicted
<1>7. SlotRoom(c, s, Unpinned, fresh, b)
  BY <1>1, <1>2, <1>6 DEF SlotRoom
<1>8. RollingAdded(b, s, toks, st, d)
  BY <1>1, <1>6, RollingFacts
<1>9. MaybeCheckpoint(c, s, toks, st, force, fresh)
        = IF (~force /\ Len(toks) % BlockSize # 0) \/ (c.ckpt[s] # NoCkpt /\ c.ckpt[s].len = Len(toks))
          THEN c ELSE IF Finds(b, toks, PersistentKey(toks)) THEN b ELSE d
  BY <1>1 DEF MaybeCheckpoint
<1> QED
  BY <1>6, <1>7, <1>8, <1>9 DEF MaybeOutcome

(* d is c after _store_persistent_prefix of slot s. *)
StoreOutcome(c, s, toks, published, fresh, d) ==
  \/ d = c /\ (c.ckpt[s] = NoCkpt \/ (c.ckpt[s].len # Len(toks)) \/ ~published)
  \/ /\ c.ckpt[s] # NoCkpt /\ c.ckpt[s].len = Len(toks)
     /\ toks \in DOMAIN c.entry /\ SameKeys(c, d)
  \/ /\ c.ckpt[s] # NoCkpt /\ c.ckpt[s].len = Len(toks)
     /\ toks \notin DOMAIN c.entry
     /\ \E b : SlotRoom(c, s, AllOf, fresh, b) /\ EntryAdded(b, toks, c.ckpt[s].state, d)

(* _store_persistent_prefix has one of these outcomes: once the older keys *)
(* may go, a published prompt is always stored.                            *)
LEMMA StoreFacts ==
  ASSUME NEW c, Pool(c), Tracked(c), NEW s \in Slots, NEW toks \in Seq(Nat),
         NEW published \in BOOLEAN, NEW fresh
  PROVE  StoreOutcome(c, s, toks, published, fresh,
                      StorePersistentPrefix(c, s, toks, published, fresh))
<1>1. PICK b1, b, k, d, v :
        /\ b1 = EvictCheckpoint(c, s, fresh) /\ b = EvictForBudget(b1, Range(b1.lru), fresh)
        /\ k = PersistentKey(toks) /\ v = c.ckpt[s].state
        /\ d = [Register(b, k) EXCEPT !.pinned = @ \cup {k}, !.entry = With(@, toks, v)]
  OBVIOUS
<1>2. SlotEvicted(c, s, b1)
  BY <1>1, EvictCheckpointFacts
<1>3. /\ Pool(b1) /\ Tracked(b1) /\ b1.ckpt[s] = NoCkpt /\ DOMAIN b1.entry = DOMAIN c.entry
      /\ b1 \in CacheSet /\ IsInjective(b1.lru) /\ c \in CacheSet
  BY <1>2 DEF SlotEvicted, Pool
<1>4. RoomMade(b1, b)
  BY <1>1, <1>3, BudgetPool
<1>5. Len(b.lru) + 1 <= Budget /\ Len(b.lru) \in Nat /\ Budget \in Nat
  BY <1>1, <1>3, BudgetRoom, CheckpointAssumption
<1>6. /\ Pool(b) /\ Tracked(b) /\ b.ckpt[s] = NoCkpt /\ DOMAIN b.entry \subseteq DOMAIN c.entry
      /\ \A l \in Range(b.lru) : l.slot # s
  BY <1>2, <1>3, <1>4 DEF RoomMade, SlotEvicted
<1>7. SlotRoom(c, s, AllOf, fresh, b)
  BY <1>1, <1>2, <1>6 DEF SlotRoom, AllOf
<1>8. c.ckpt[s] # NoCkpt /\ toks \notin DOMAIN c.entry => EntryAdded(b, toks, v, d)
  <2> SUFFICES ASSUME c.ckpt[s] # NoCkpt, toks \notin DOMAIN c.entry
               PROVE  EntryAdded(b, toks, v, d)
    OBVIOUS
  <2>1. c.ckpt[s] \in Ckpts
    BY <1>3, CacheTypes
  <2>2. v \in Seq(Nat)
    BY <1>1, <2>1 DEF Ckpts
  <2>3. toks \notin DOMAIN b.entry
    BY <1>6
  <2> QED
    BY <1>1, <1>5, <1>6, <2>2, <2>3, EntryFacts
<1>9. toks \in DOMAIN c.entry => SameKeys(c, Touch(c, k))
  BY <1>1, TouchPool DEF Pool, EntryKeys
<1>10. StorePersistentPrefix(c, s, toks, published, fresh)
        = IF c.ckpt[s] = NoCkpt THEN c
          ELSE IF c.ckpt[s].len # Len(toks) THEN c
          ELSE IF toks \in DOMAIN c.entry THEN Touch(c, k)
          ELSE IF ~published THEN c
          ELSE IF Len(b.lru) + 1 > Budget THEN b ELSE d
  BY <1>1 DEF StorePersistentPrefix
<1>11. ~(Len(b.lru) + 1 > Budget)
  BY <1>5
<1> QED
  BY <1>1, <1>7, <1>8, <1>9, <1>10, <1>11 DEF StoreOutcome

(* A hash that leads to a persistent key has an entry. *)
LEMMA FoundEntry ==
  ASSUME NEW c, Pool(c), NEW h \in Seq(Nat), Finds(c, h, PersistentKey(h))
  PROVE  h \in DOMAIN c.entry
<1>1. PersistentKey(h) \in Range(c.lru)
  BY DEF Pool, Indexed, Finds
<1>2. PersistentKey(h).slot = Persistent /\ PersistentKey(h).hash = h
  BY KeyKinds
<1> QED
  BY <1>1, <1>2 DEF Pool, EntryKeys

(* d is c after a checkpoint that cost no entry; a forced one is there.    *)
MaybeKept(c, s, toks, force, d) ==
  /\ Pool(d) /\ Tracked(d) /\ DOMAIN d.entry = DOMAIN c.entry
  /\ force => \/ d.ckpt[s] # NoCkpt /\ d.ckpt[s].len = Len(toks)
              \/ d.ckpt[s] = NoCkpt /\ toks \in DOMAIN d.entry

(* A decode step's checkpoint costs no entry; a forced one leaves the      *)
(* slot with a checkpoint, unless the prompt has an entry already.         *)
LEMMA MaybePool ==
  ASSUME NEW c, Pool(c), Tracked(c), NEW s \in Slots, NEW toks \in Seq(Nat), NEW st \in Seq(Nat),
         NEW force \in BOOLEAN, NEW fresh
  PROVE  MaybeKept(c, s, toks, force, MaybeCheckpoint(c, s, toks, st, force, fresh))
<1>1. PICK d : d = MaybeCheckpoint(c, s, toks, st, force, fresh)
  OBVIOUS
<1>2. MaybeOutcome(c, s, toks, st, force, fresh, d)
  BY <1>1, MaybeFacts
<1>3. CASE /\ d = c
           /\ \/ ~force /\ Len(toks) % BlockSize # 0
              \/ c.ckpt[s] # NoCkpt /\ c.ckpt[s].len = Len(toks)
  BY <1>1, <1>3 DEF MaybeKept
<1>4. ASSUME NEW b, SlotRoom(c, s, Unpinned, fresh, b), DOMAIN b.entry = DOMAIN c.entry,
             d = b, Finds(b, toks, PersistentKey(toks))
      PROVE  Pool(d) /\ Tracked(d) /\ DOMAIN d.entry = DOMAIN c.entry
             /\ d.ckpt[s] = NoCkpt /\ toks \in DOMAIN d.entry
  BY <1>4, FoundEntry DEF SlotRoom
<1>5. ASSUME NEW b, SlotRoom(c, s, Unpinned, fresh, b), DOMAIN b.entry = DOMAIN c.entry,
             RollingAdded(b, s, toks, st, d)
      PROVE  Pool(d) /\ Tracked(d) /\ DOMAIN d.entry = DOMAIN c.entry
             /\ d.ckpt[s] # NoCkpt /\ d.ckpt[s].len = Len(toks)
  <2>1. /\ Pool(d) /\ Tracked(d) /\ d.entry = b.entry
        /\ d.ckpt = [b.ckpt EXCEPT ![s] = [len |-> Len(toks), state |-> st]]
    BY <1>5 DEF RollingAdded
  <2>2. Pool(b)
    BY <1>5 DEF SlotRoom
  <2>3. b.ckpt \in [Slots -> Ckpts \cup {NoCkpt}]
    BY <2>2, CacheTypes DEF Pool
  <2>4. [len |-> Len(toks), state |-> st] # NoCkpt
    BY CheckpointAssumption
  <2> QED
    BY <1>5, <2>1, <2>3, <2>4
<1> QED
  BY <1>1, <1>2, <1>3, <1>4, <1>5 DEF MaybeOutcome, MaybeKept

(* A prompt whose checkpoint the slot holds gets its entry. *)
LEMMA StorePool ==
  ASSUME NEW c, Pool(c), Tracked(c), NEW s \in Slots, NEW toks \in Seq(Nat),
         NEW published \in BOOLEAN, NEW fresh
  PROVE  LET d == StorePersistentPrefix(c, s, toks, published, fresh) IN
         /\ Pool(d) /\ Tracked(d)
         /\ published /\ c.ckpt[s] # NoCkpt /\ c.ckpt[s].len = Len(toks) => toks \in DOMAIN d.entry
         /\ c.ckpt[s] = NoCkpt => d = c
<1>1. PICK d : d = StorePersistentPrefix(c, s, toks, published, fresh)
  OBVIOUS
<1>2. StoreOutcome(c, s, toks, published, fresh, d)
  BY <1>1, StoreFacts
<1>3. Pool(d) /\ Tracked(d)
  BY <1>2 DEF StoreOutcome, SameKeys, EntryAdded
<1>4. published /\ c.ckpt[s] # NoCkpt /\ c.ckpt[s].len = Len(toks) => toks \in DOMAIN d.entry
  BY <1>2 DEF StoreOutcome, SameKeys, EntryAdded
<1>5. c.ckpt[s] = NoCkpt => d = c
  BY <1>2 DEF StoreOutcome
<1> QED
  BY <1>1, <1>3, <1>4, <1>5

-----------------------------------------------------------------------------
(* Lookup *)

(* Max is what it says on a bounded set of naturals. *)
LEMMA MaxOfBounded ==
  ASSUME NEW n \in Nat, NEW S, S \subseteq 0..n, S # {}
  PROVE  Max(S) \in S /\ \A y \in S : Max(S) >= y
<1>1. PICK T : T = {i \in 0..n : n - i \in S}
  OBVIOUS
<1>2. \A y \in S : n - y \in T
  BY <1>1
<1>3. T \subseteq Nat /\ T # {}
  <2>1. T \subseteq Nat
    BY <1>1
  <2>2. PICK y \in S : TRUE
    OBVIOUS
  <2>3. n - y \in T
    BY <1>2
  <2> QED
    BY <2>1, <2>3
<1>4. PICK t \in T : \A y \in T : t <= y
  BY <1>3, LeastElement
<1>5. n - t \in S
  BY <1>1
<1>6. \A y \in S : n - t >= y
  <2> TAKE y \in S
  <2>1. t <= n - y /\ y \in 0..n /\ t \in 0..n
    BY <1>1, <1>2, <1>4
  <2> QED
    BY <2>1
<1> QED
  BY <1>5, <1>6 DEF Max

(* Prefixes of a sequence. *)
LEMMA PrefixFacts ==
  ASSUME NEW p \in Seq(Nat), NEW n \in 0..Len(p)
  PROVE  /\ Prefix(p, n) \in Seq(Nat) /\ Len(Prefix(p, n)) = n
         /\ n = 0 => Prefix(p, n) = <<>>
         /\ SubSeq(p, n + 1, Len(p)) \in Seq(Nat)
         /\ Prefix(p, n) \o SubSeq(p, n + 1, Len(p)) = p
<1>1. PICK a, z : a = SubSeq(p, 1, n) /\ z = SubSeq(p, n + 1, Len(p))
  OBVIOUS
<1>2. a \in Seq(Nat) /\ Len(a) = n /\ \A i \in 1..n : a[i] = p[i]
  BY <1>1
<1>3. /\ z \in Seq(Nat) /\ Len(z) = Len(p) - n
      /\ \A i \in 1..(Len(p) - n) : z[i] = p[n + i]
  BY <1>1
<1>4. n = 0 => a = <<>>
  BY <1>2
<1>0. n \in Nat /\ Len(p) \in Nat /\ n <= Len(p)
  OBVIOUS
<1>8. /\ a \o z \in Seq(Nat) /\ Len(a \o z) = Len(a) + Len(z)
      /\ \A i \in 1..(Len(a) + Len(z)) : (a \o z)[i] = IF i <= Len(a) THEN a[i] ELSE z[i - Len(a)]
  <2>1. a \in Seq(Nat) /\ z \in Seq(Nat)
    BY <1>2, <1>3
  <2> QED
    BY <2>1, ConcatProperties
<1>5. Len(a) + Len(z) = Len(p)
  BY <1>0, <1>2, <1>3
<1>6. ASSUME NEW i \in 1..Len(p) PROVE (a \o z)[i] = p[i]
  <2>3. i \in 1..(Len(a) + Len(z))
    BY <1>5
  <2>4. (a \o z)[i] = IF i <= Len(a) THEN a[i] ELSE z[i - Len(a)]
    BY <1>8, <2>3
  <2>0. i \in Nat /\ (a \o z)[i] = IF i <= n THEN a[i] ELSE z[i - n]
    BY <1>2, <2>4
  <2>1. CASE i <= n
    BY <1>2, <2>0, <2>1
  <2>2. CASE i > n
    <3>1. i - n \in 1..(Len(p) - n) /\ n + (i - n) = i
      BY <2>2
    <3>2. (a \o z)[i] = z[i - n]
      BY <1>0, <2>0, <2>2
    <3> QED
      BY <1>3, <3>1, <3>2
  <2> QED
    BY <1>0, <2>0, <2>1, <2>2
<1>7. a \o z = p
  BY <1>5, <1>6, <1>8, SeqEqual
<1> QED
  BY <1>1, <1>2, <1>3, <1>4, <1>7 DEF Prefix

(* _persistent_prefix_entry: what it returns has an entry. *)
LEMMA PersistentHitFacts ==
  ASSUME NEW c, NEW p \in Seq(Nat)
  PROVE  /\ PersistentHit(c, p) \in 0..Len(p)
         /\ PersistentHit(c, p) > 0 => Prefix(p, PersistentHit(c, p)) \in DOMAIN c.entry
<1>1. PICK S : S = {0} \cup {n \in 1..Len(p) : /\ Prefix(p, n) \in DOMAIN c.entry
                                               /\ Finds(c, Prefix(p, n), PersistentKey(Prefix(p, n)))}
  OBVIOUS
<1>2. PersistentHit(c, p) = Max(S)
  BY <1>1 DEF PersistentHit
<1>3. S \subseteq 0..Len(p) /\ S # {} /\ Len(p) \in Nat
  BY <1>1
<1>4. Max(S) \in S
  BY <1>3, MaxOfBounded
<1>5. PICK e : e = PersistentHit(c, p)
  OBVIOUS
<1>6. e \in S
  BY <1>2, <1>4, <1>5
<1>7. e \in 0..Len(p) /\ (e = 0 \/ Prefix(p, e) \in DOMAIN c.entry)
  BY <1>1, <1>3, <1>6
<1> QED
  BY <1>5, <1>7

(* Advice names a slot. *)
LEMMA AdviceFacts ==
  ASSUME NEW s \in Slots, NEW usable \in Usable, NEW a \in Advice(s, usable)
  PROVE  a[1] \in Slots
<1>1. usable \subseteq Slots
  BY DEF Usable, Fresh
<1>2. BestSources(cache, prompt[s], usable) \subseteq Slots
  BY <1>1 DEF BestSources
<1> QED
  BY <1>2 DEF Advice

(* The tokens listed for a KV are as many as it holds. *)
LEMMA ListedFacts ==
  ASSUME NEW s \in Slots, prompt[s] \in Seq(Nat), NEW toks \in Seq(Nat)
  PROVE  Listed(s, toks) \in Seq(Nat) /\ Len(Listed(s, toks)) = Len(toks)
<1>1. Len(prompt[s]) \in Nat /\ Len(toks) \in Nat
  OBVIOUS
<1>2. ASSUME NEW i \in 1..Len(toks)
      PROVE  toks[IF phase[s] = "plain" /\ i > Len(prompt[s]) + 1 THEN i - 1 ELSE i] \in Nat
  <2>1. CASE phase[s] = "plain" /\ i > Len(prompt[s]) + 1
    <3>1. i - 1 \in 1..Len(toks)
      BY <1>1, <2>1
    <3> QED
      BY <2>1, <3>1
  <2>2. CASE ~(phase[s] = "plain" /\ i > Len(prompt[s]) + 1)
    BY <2>2
  <2> QED
    BY <2>1, <2>2
<1>3. PICK n : n = Len(toks)
  OBVIOUS
<1>4. Listed(s, toks) \in [1..n -> Nat] /\ n \in Nat
  BY <1>1, <1>2, <1>3 DEF Listed
<1> QED
  BY <1>3, <1>4

-----------------------------------------------------------------------------
(* The inductive invariant of pool, index, entries and checkpoints *)

Phases == {"free", "assigned", "applied", "prefill", "batch"} \cup Live

(* The phases before the prompt is absorbed. *)
Early == {"applied", "prefill", "batch"}

SlotTypes ==
  /\ phase \in [Slots -> Phases]
  /\ prompt \in [Slots -> Seq(Nat)] /\ kv \in [Slots -> Seq(Nat)] /\ gdn \in [Slots -> Seq(Nat)]
  /\ \A s \in Slots :
       /\ phase[s] # "free" => prompt[s] \in Prompts
       /\ phase[s] \in {"free", "assigned"} => kv[s] = <<>>
       /\ phase[s] \in Early => Len(kv[s]) <= Len(prompt[s])

CheckpointInv == SlotTypes /\ Pool(cache) /\ Tracked(cache)

(* st is the state key k of the pool stands for. *)
StateOf(c, k, st) ==
  /\ k \in Range(c.lru)
  /\ \/ k.slot \in Slots /\ st = c.ckpt[k.slot].state
     \/ k.slot = Persistent /\ st = c.entry[k.hash]

(* A slot resumes at n with the state of key k, an entry or a rolling      *)
(* checkpoint, or from nothing, and its own checkpoint may go: b.          *)
ApplyOutcome(s, n, st, k, b) ==
  /\ phase[s] = "assigned" /\ Remember(FALSE)
  /\ b = cache \/ SlotEvicted(cache, s, b)
  /\ cache' = b \/ SameKeys(b, cache')
  /\ \/ StartOver(s)
     \/ /\ Resume(s, n, st, k) /\ n \in 0..Len(prompt[s]) /\ st \in Seq(Nat)
        /\ StateOf(cache, k, st) /\ k.hash = Prefix(prompt[s], n)

(* _drop_prefix_cache leaves nothing of the slot. *)
LEMMA DropPrefixFacts ==
  ASSUME NEW c, Pool(c), Tracked(c), NEW s \in Slots, NEW fresh
  PROVE  SlotEvicted(c, s, DropPrefixCache(c, s, fresh))
<1>1. PICK b : b = [c EXCEPT !.saved[s] = <<>>]
  OBVIOUS
<1>2. <<>> \in Seq(Nat)
  OBVIOUS
<1>3. SameKeys(c, b)
  BY <1>1, <1>2, SavePool
<1>4. Pool(b) /\ Tracked(b)
  BY <1>3 DEF SameKeys
<1>5. PICK d : d = EvictCheckpoint(b, s, fresh)
  OBVIOUS
<1>6. SlotEvicted(b, s, d)
  BY <1>4, <1>5, EvictCheckpointFacts
<1>7. SlotEvicted(c, s, d)
  BY <1>3, <1>6 DEF SlotEvicted, SameKeys, Finds
<1> QED
  BY <1>1, <1>5, <1>7 DEF DropPrefixCache

(* _restore_persistent_prefix *)
LEMMA ApplyPersistentFacts ==
  ASSUME CheckpointInv, NEW s \in Slots, ApplyPersistent(s)
  PROVE  \E n, st, k, b : ApplyOutcome(s, n, st, k, b)
<1>1. PICK e, h, b, k : /\ e = PersistentHit(cache, prompt[s]) /\ h = Prefix(prompt[s], e)
                        /\ b = DropPrefixCache(cache, s, Fresh) /\ k = PersistentKey(h)
  OBVIOUS
<1>2. prompt[s] \in Seq(Nat) /\ Pool(cache) /\ Tracked(cache)
  BY DEF CheckpointInv, SlotTypes
<1>3. e \in 0..Len(prompt[s]) /\ (e > 0 => h \in DOMAIN cache.entry)
  BY <1>1, <1>2, PersistentHitFacts
<1>4. /\ e > 0 /\ phase[s] = "assigned" /\ Remember(FALSE)
      /\ \/ Resume(s, e, cache.entry[h], k) /\ cache' = Touch(b, k)
         \/ StartOver(s) /\ cache' = b
  BY <1>1 DEF ApplyPersistent
<1>5. SlotEvicted(cache, s, b)
  BY <1>1, <1>2, DropPrefixFacts
<1>6. Pool(b) /\ Tracked(b) /\ DOMAIN b.entry = DOMAIN cache.entry
  BY <1>5 DEF SlotEvicted
<1>7. k \in Range(b.lru) /\ k \in Range(cache.lru)
  BY <1>1, <1>2, <1>3, <1>4, <1>6 DEF Pool, EntryKeys
<1>8. SameKeys(b, Touch(b, k))
  BY <1>6, <1>7, TouchPool
<1>9. cache.entry[h] \in Seq(Nat)
  <2>1. cache.entry \in Maps(States)
    BY <1>2, CacheTypes DEF Pool
  <2>2. cache.entry[h] \in States
    BY <1>3, <1>4, <2>1, MapFacts
  <2> QED
    BY <2>2 DEF States
<1>10. CASE Resume(s, e, cache.entry[h], k) /\ cache' = Touch(b, k)
  <2>1. k.slot = Persistent /\ k.hash = h
    BY <1>1 DEF PersistentKey
  <2>2. StateOf(cache, k, cache.entry[h])
    BY <1>7, <2>1 DEF StateOf
  <2>3. ApplyOutcome(s, e, cache.entry[h], k, b)
    BY <1>1, <1>3, <1>4, <1>5, <1>8, <1>9, <1>10, <2>1, <2>2 DEF ApplyOutcome
  <2> QED
    BY <2>3
<1>11. CASE StartOver(s) /\ cache' = b
  <2>1. ApplyOutcome(s, 0, <<>>, k, b)
    BY <1>4, <1>5, <1>11 DEF ApplyOutcome
  <2> QED
    BY <2>1
<1> QED
  BY <1>4, <1>10, <1>11

(* _apply_prefix_hit from a rolling checkpoint *)
LEMMA ApplyRollingFacts ==
  ASSUME CheckpointInv, NEW s \in Slots, ApplyRolling(s)
  PROVE  \E n, st, k, b : ApplyOutcome(s, n, st, k, b)
<1>0. phase[s] = "assigned" /\ Remember(FALSE)
  BY DEF ApplyRolling
<1>1. PICK usable \in Usable : \E a \in Advice(s, usable) :
        IF ~Authentic(s, a[1], a[2])
        THEN StartOver(s) /\ UNCHANGED cache
        ELSE LET k == Rolling(a[1], Prefix(prompt[s], a[2]))
                 b == IF a[1] = s THEN cache ELSE DropPrefixCache(cache, s, Fresh) IN
             \/ Resume(s, a[2], cache.ckpt[a[1]].state, k) /\ cache' = Touch(b, k)
             \/ StartOver(s) /\ cache' = b
  BY DEF ApplyRolling
<1>2. PICK a \in Advice(s, usable) :
        IF ~Authentic(s, a[1], a[2])
        THEN StartOver(s) /\ UNCHANGED cache
        ELSE LET k == Rolling(a[1], Prefix(prompt[s], a[2]))
                 b == IF a[1] = s THEN cache ELSE DropPrefixCache(cache, s, Fresh) IN
             \/ Resume(s, a[2], cache.ckpt[a[1]].state, k) /\ cache' = Touch(b, k)
             \/ StartOver(s) /\ cache' = b
  BY <1>1
<1>3. PICK src, n, h, k, b :
        /\ src = a[1] /\ n = a[2] /\ h = Prefix(prompt[s], n) /\ k = Rolling(src, h)
        /\ b = IF src = s THEN cache ELSE DropPrefixCache(cache, s, Fresh)
  OBVIOUS
<1>4. \/ ~Authentic(s, src, n) /\ StartOver(s) /\ cache' = cache
      \/ /\ Authentic(s, src, n)
         /\ \/ Resume(s, n, cache.ckpt[src].state, k) /\ cache' = Touch(b, k)
            \/ StartOver(s) /\ cache' = b
  BY <1>2, <1>3
<1>5. src \in Slots
  BY <1>3, AdviceFacts
<1>6. prompt[s] \in Seq(Nat) /\ Pool(cache) /\ Tracked(cache)
  BY DEF CheckpointInv, SlotTypes
<1>7. CASE ~Authentic(s, src, n)
  <2>1. ApplyOutcome(s, 0, <<>>, k, cache)
    BY <1>0, <1>4, <1>7 DEF ApplyOutcome
  <2> QED
    BY <2>1
<1>8. CASE Authentic(s, src, n)
  <2>1. (b = cache /\ src = s) \/ (SlotEvicted(cache, s, b) /\ src # s)
    BY <1>3, <1>6, DropPrefixFacts
  <2>3. /\ n < Len(prompt[s]) /\ cache.ckpt[src] # NoCkpt /\ cache.ckpt[src].len = n
        /\ Finds(cache, h, k)
    BY <1>3, <1>8 DEF Authentic
  <2>4. cache.ckpt[src] \in Ckpts
    BY <1>5, <1>6, <2>3, CacheTypes DEF Pool
  <2>5. n \in 0..Len(prompt[s]) /\ cache.ckpt[src].state \in Seq(Nat)
    BY <1>6, <2>3, <2>4 DEF Ckpts
  <2>6. k \in Range(cache.lru)
    BY <1>6, <2>3 DEF Pool, Indexed, Finds
  <2>7. k.slot = src /\ k.hash = h
    BY <1>3 DEF Rolling
  <2>8. Pool(b) /\ Tracked(b) /\ k \in Range(b.lru)
    BY <1>6, <2>1, <2>6, <2>7 DEF SlotEvicted
  <2>9. SameKeys(b, Touch(b, k))
    BY <2>8, TouchPool
  <2>10. b = cache \/ SlotEvicted(cache, s, b)
    BY <2>1
  <2>11. CASE Resume(s, n, cache.ckpt[src].state, k) /\ cache' = Touch(b, k)
    <3>1. StateOf(cache, k, cache.ckpt[src].state)
      BY <1>5, <2>6, <2>7 DEF StateOf
    <3>2. ApplyOutcome(s, n, cache.ckpt[src].state, k, b)
      BY <1>0, <1>3, <2>5, <2>7, <2>9, <2>10, <2>11, <3>1 DEF ApplyOutcome
    <3> QED
      BY <3>2
  <2>12. CASE StartOver(s) /\ cache' = b
    <3>1. ApplyOutcome(s, 0, <<>>, k, b)
      BY <1>0, <2>10, <2>12 DEF ApplyOutcome
    <3> QED
      BY <3>1
  <2> QED
    BY <1>4, <1>8, <2>11, <2>12
<1> QED
  BY <1>7, <1>8

(* No hit *)
LEMMA ApplyMissFacts ==
  ASSUME CheckpointInv, NEW s \in Slots, ApplyMiss(s)
  PROVE  \E n, st, k, b : ApplyOutcome(s, n, st, k, b)
<1>1. ApplyOutcome(s, 0, <<>>, 0, cache)
  BY DEF ApplyMiss, ApplyOutcome
<1> QED
  BY <1>1

(* Nothing is cached at first. *)
LEMMA EmptyPool == Pool(NoCache) /\ Tracked(NoCache)
<1>1. PICK z : z = <<>>
  OBVIOUS
<1>2. z \in Seq(Keys) /\ z \in Seq(Nat) /\ Range(z) = {} /\ IsInjective(z) /\ DOMAIN z = {}
  BY <1>1, EmptyRange
<1>3. z \in Maps(Keys) /\ z \in Maps(States)
  <2>1. z = [x \in {} |-> x]
    BY <1>1
  <2>2. \A V : z \in [{} -> V] /\ {} \in SUBSET Seq(Nat)
    BY <2>1
  <2> QED
    BY <2>2 DEF Maps
<1>4. PICK c : c = [lru |-> z, byHash |-> z, pinned |-> {}, entry |-> z,
                    ckpt |-> [s \in Slots |-> NoCkpt], saved |-> [s \in Slots |-> z]]
  OBVIOUS
<1>5. c \in CacheSet /\ c.lru = z /\ c.byHash = z /\ c.entry = z
  BY <1>2, <1>3, <1>4 DEF CacheSet
<1>6. Indexed(c) /\ OnePerSlot(c) /\ EntryKeys(c) /\ Tracked(c)
  BY <1>2, <1>5 DEF Indexed, OnePerSlot, EntryKeys, Tracked
<1>7. FewEntries(c)
  BY <1>2, <1>5, FS_EmptySet, CheckpointAssumption DEF FewEntries
<1> QED
  BY <1>1, <1>2, <1>4, <1>5, <1>6, <1>7 DEF NoCache, Pool

(* What happens to the slot when it resumes. *)
LEMMA ResumeTypes ==
  ASSUME SlotTypes, NEW s \in Slots, phase[s] = "assigned", NEW n, NEW st, NEW k,
         StartOver(s) \/ (Resume(s, n, st, k) /\ n \in 0..Len(prompt[s]) /\ st \in Seq(Nat))
  PROVE  SlotTypes'
<1>1. /\ phase \in [Slots -> Phases] /\ prompt \in [Slots -> Seq(Nat)]
      /\ kv \in [Slots -> Seq(Nat)] /\ gdn \in [Slots -> Seq(Nat)]
      /\ \A t \in Slots :
           /\ phase[t] # "free" => prompt[t] \in Prompts
           /\ phase[t] \in {"free", "assigned"} => kv[t] = <<>>
           /\ phase[t] \in Early => Len(kv[t]) <= Len(prompt[t])
  BY DEF SlotTypes
<1>2. PICK v, g : /\ v \in Seq(Nat) /\ Len(v) <= Len(prompt[s]) /\ g \in Seq(Nat)
                  /\ kv' = [kv EXCEPT ![s] = v] /\ gdn' = [gdn EXCEPT ![s] = g]
  <2>1. CASE StartOver(s)
    <3>1. kv' = [kv EXCEPT ![s] = kv[s]] /\ gdn' = [gdn EXCEPT ![s] = gdn[s]]
      BY <1>1, <2>1 DEF StartOver
    <3>2. kv[s] = <<>> /\ Len(kv[s]) <= Len(prompt[s])
      BY <1>1
    <3> QED
      BY <1>1, <3>1, <3>2
  <2>2. CASE Resume(s, n, st, k) /\ n \in 0..Len(prompt[s]) /\ st \in Seq(Nat)
    <3>1. PICK v : v = Prefix(prompt[s], n)
      OBVIOUS
    <3>2. v \in Seq(Nat) /\ Len(v) = n /\ n <= Len(prompt[s])
      BY <1>1, <2>2, <3>1, PrefixFacts
    <3>3. kv' = [kv EXCEPT ![s] = v] /\ gdn' = [gdn EXCEPT ![s] = st]
      BY <2>2, <3>1 DEF Resume
    <3> QED
      BY <2>2, <3>2, <3>3
  <2> QED
    BY <2>1, <2>2
<1>4. phase' = [phase EXCEPT ![s] = "applied"] /\ prompt' = prompt
  BY DEF Resume, StartOver
<1>5. phase' \in [Slots -> Phases]
  BY <1>1, <1>4 DEF Phases
<1>6. kv' \in [Slots -> Seq(Nat)] /\ gdn' \in [Slots -> Seq(Nat)] /\ prompt' \in [Slots -> Seq(Nat)]
  BY <1>1, <1>2, <1>4
<1>7. ASSUME NEW t \in Slots
      PROVE  /\ phase'[t] # "free" => prompt'[t] \in Prompts
             /\ phase'[t] \in {"free", "assigned"} => kv'[t] = <<>>
             /\ phase'[t] \in Early => Len(kv'[t]) <= Len(prompt'[t])
  <2>1. CASE t = s
    BY <1>1, <1>2, <1>4, <2>1
  <2>2. CASE t # s
    BY <1>1, <1>2, <1>4, <2>2
  <2> QED
    BY <2>1, <2>2
<1> QED
  BY <1>5, <1>6, <1>7 DEF SlotTypes

(* Applying a hit keeps the caches in agreement. *)
LEMMA ApplyPool ==
  ASSUME CheckpointInv, NEW s \in Slots, NEW n, NEW st, NEW k, NEW b, ApplyOutcome(s, n, st, k, b)
  PROVE  CheckpointInv'
<1>1. SlotTypes'
  BY ResumeTypes DEF ApplyOutcome, CheckpointInv
<1>2. Pool(b) /\ Tracked(b)
  BY DEF ApplyOutcome, CheckpointInv, SlotEvicted
<1>3. Pool(cache') /\ Tracked(cache')
  BY <1>2 DEF ApplyOutcome, SameKeys
<1> QED
  BY <1>1, <1>3 DEF CheckpointInv

(* CheckpointInv holds at first. *)
LEMMA CheckpointInitial == Init => CheckpointInv
<1> SUFFICES ASSUME Init PROVE CheckpointInv
  OBVIOUS
<1>1. SlotTypes
  BY DEF Init, SlotTypes, Phases
<1> QED
  BY <1>1, EmptyPool DEF Init, CheckpointInv

(* The next tokens of a text. *)
LEMMA NextTokens ==
  ASSUME NEW t \in Seq(Nat), NEW a \in Nat, NEW n \in Nat, a + n <= Len(t)
  PROVE  /\ SubSeq(t, a + 1, a + n) \in Seq(Nat)
         /\ Prefix(t, a + n) \in Seq(Nat) /\ Len(Prefix(t, a + n)) = a + n
         /\ Prefix(t, a) \o SubSeq(t, a + 1, a + n) = Prefix(t, a + n)
<1>1. PICK p : p = Prefix(t, a + n)
  OBVIOUS
<1>2. a + n \in 0..Len(t) /\ a \in 0..Len(t) /\ Len(t) \in Nat
  OBVIOUS
<1>3. p \in Seq(Nat) /\ Len(p) = a + n
  BY <1>1, <1>2, PrefixFacts
<1>4. \A i \in 1..(a + n) : p[i] = t[i]
  BY <1>1, <1>2 DEF Prefix
<1>5. PICK x, y : x = Prefix(t, a) /\ y = Prefix(p, a)
  OBVIOUS
<1>6. /\ x \in Seq(Nat) /\ Len(x) = a /\ \A i \in 1..a : x[i] = t[i]
      /\ y \in Seq(Nat) /\ Len(y) = a /\ \A i \in 1..a : y[i] = p[i]
  <2>1. a \in 0..Len(p)
    BY <1>3
  <2>2. x \in Seq(Nat) /\ Len(x) = a /\ y \in Seq(Nat) /\ Len(y) = a
    BY <1>2, <1>3, <1>5, <2>1, PrefixFacts
  <2>3. \A i \in 1..a : x[i] = t[i]
    BY <1>2, <1>5 DEF Prefix
  <2>4. \A i \in 1..a : y[i] = p[i]
    BY <1>3, <1>5, <2>1 DEF Prefix
  <2> QED
    BY <2>2, <2>3, <2>4
<1>7. x = y
  <2>1. \A i \in 1..Len(x) : x[i] = y[i]
    BY <1>4, <1>6
  <2> QED
    BY <1>6, <2>1, SeqEqual
<1>8. PICK v, w : v = SubSeq(t, a + 1, a + n) /\ w = SubSeq(p, a + 1, a + n)
  OBVIOUS
<1>9. /\ v \in Seq(Nat) /\ Len(v) = n /\ \A i \in 1..n : v[i] = t[a + i]
      /\ w \in Seq(Nat) /\ Len(w) = n /\ \A i \in 1..n : w[i] = p[a + i]
  <2>1. PICK l, h : l = a + 1 /\ h = a + n
    OBVIOUS
  <2>2. l \in Int /\ h \in Int /\ h - l + 1 = n /\ (l <= h \/ n = 0) /\ (l <= h => n > 0)
    BY <2>1
  <2>3. \A i \in l..h : t[i] \in Nat
    BY <1>2, <2>1
  <2>7. \A i \in l..h : p[i] \in Nat
    BY <1>3, <2>1
  <2>8. v = SubSeq(t, l, h) /\ w = SubSeq(p, l, h)
    BY <1>8, <2>1
  <2>4. \A i \in 1..n : l + i - 1 = a + i
    BY <2>1
  <2>5. /\ v \in Seq(Nat) /\ Len(v) = (IF l <= h THEN h - l + 1 ELSE 0)
        /\ \A i \in 1..h - l + 1 : v[i] = t[l + i - 1]
    <3>1. l \in Int /\ h \in Int
      BY <2>2
    <3> QED
      BY <2>3, <2>8, <3>1, SubSeqProperties
  <2>6. /\ w \in Seq(Nat) /\ Len(w) = (IF l <= h THEN h - l + 1 ELSE 0)
        /\ \A i \in 1..h - l + 1 : w[i] = p[l + i - 1]
    <3>1. l \in Int /\ h \in Int
      BY <2>2
    <3> QED
      BY <2>7, <2>8, <3>1, SubSeqProperties
  <2> QED
    BY <2>2, <2>4, <2>5, <2>6
<1>10. v = w
  <2>1. ASSUME NEW i \in 1..Len(v) PROVE v[i] = w[i]
    <3>1. a + i \in 1..(a + n) /\ i \in 1..n
      BY <1>9
    <3>2. p[a + i] = t[a + i]
      BY <1>4, <3>1
    <3> QED
      BY <1>9, <3>1, <3>2
  <2> QED
    BY <1>9, <2>1, SeqEqual
<1>11. Prefix(p, a) \o SubSeq(p, a + 1, Len(p)) = p
  <2>1. a \in 0..Len(p)
    BY <1>3
  <2> QED
    BY <1>3, <2>1, PrefixFacts
<1>12. x \o v = p
  BY <1>3, <1>5, <1>7, <1>8, <1>10, <1>11
<1> QED
  BY <1>1, <1>3, <1>5, <1>8, <1>9, <1>12

(* What the commit of prompt p with state st does to its slot, and to the  *)
(* caches once its checkpoint is taken: b.                                 *)
Committed(s, p, st, b) ==
  /\ phase[s] \in {"prefill", "batch"} /\ p \in Prompts /\ p \in Seq(Nat) /\ st \in Seq(Nat)
  /\ Len(kv[s]) \in 0..Len(p)
  /\ \E path \in Live : phase' = [phase EXCEPT ![s] = path]
  /\ kv' = [kv EXCEPT ![s] = p] /\ gdn' = [gdn EXCEPT ![s] = st]
  /\ UNCHANGED <<prompt, misled>> /\ Remember(s \in misled \/ Foreign(s, p))
  /\ \E published \in BOOLEAN :
       /\ cache' = StorePersistentPrefix(b, s, p, published, Fresh \ {s})
       /\ p \notin PublishFails => published

(* A commit is of this kind. *)
LEMMA CommitFacts ==
  ASSUME CheckpointInv, NEW s \in Slots, CommitPrefill(s),
         NEW p, NEW st, NEW b, p = prompt[s], st = gdn[s] \o SubSeq(p, Len(kv[s]) + 1, Len(p)),
         b = MaybeCheckpoint(cache, s, p, st, TRUE, Fresh \ {s})
  PROVE  Committed(s, p, st, b)
<1>1. /\ phase[s] \in {"prefill", "batch"} /\ kv' = [kv EXCEPT ![s] = p] /\ gdn' = [gdn EXCEPT ![s] = st]
      /\ UNCHANGED <<prompt, misled>> /\ Remember(s \in misled \/ Foreign(s, p))
  BY DEF CommitPrefill
<1>2. \E path \in Paths[p] : phase' = [phase EXCEPT ![s] = path]
  BY DEF CommitPrefill
<1>3. \E published \in {TRUE, p \notin PublishFails} :
        cache' = StorePersistentPrefix(b, s, p, published, Fresh \ {s})
  BY DEF CommitPrefill
<1>4. /\ p \in Prompts /\ p \in Seq(Nat) /\ kv[s] \in Seq(Nat) /\ gdn[s] \in Seq(Nat)
      /\ Len(kv[s]) <= Len(p)
  BY <1>1 DEF CheckpointInv, SlotTypes, Early
<1>5. Len(kv[s]) \in 0..Len(p)
  BY <1>4
<1>6. Paths[p] \subseteq Live
  BY <1>4, CheckpointAssumption DEF Live
<1>7. st \in Seq(Nat)
  <2>1. SubSeq(p, Len(kv[s]) + 1, Len(p)) \in Seq(Nat)
    BY <1>4, <1>5, PrefixFacts
  <2> QED
    BY <1>4, <2>1, ConcatProperties
<1>8. \E published \in BOOLEAN :
        /\ cache' = StorePersistentPrefix(b, s, p, published, Fresh \ {s})
        /\ p \notin PublishFails => published
  <2>1. PICK published \in {TRUE, p \notin PublishFails} :
          cache' = StorePersistentPrefix(b, s, p, published, Fresh \ {s})
    BY <1>3
  <2>2. published \in BOOLEAN /\ (p \notin PublishFails => published)
    OBVIOUS
  <2> QED
    BY <2>1, <2>2
<1> QED
  BY <1>1, <1>2, <1>4, <1>5, <1>6, <1>7, <1>8 DEF Committed

(* A commit leaves caches in agreement, and the prompt with an entry when  *)
(* its pages were published.                                               *)
LEMMA CommitPool ==
  ASSUME CheckpointInv, NEW s \in Slots, CommitPrefill(s)
  PROVE  /\ CheckpointInv'
         /\ prompt[s] \notin PublishFails => prompt[s] \in DOMAIN cache'.entry
<1>1. PICK p, st, b : /\ p = prompt[s] /\ st = gdn[s] \o SubSeq(p, Len(kv[s]) + 1, Len(p))
                      /\ b = MaybeCheckpoint(cache, s, p, st, TRUE, Fresh \ {s})
  OBVIOUS
<1>2. SlotTypes /\ Pool(cache) /\ Tracked(cache)
  BY DEF CheckpointInv
<1>3. /\ p \in Prompts /\ p \in Seq(Nat) /\ st \in Seq(Nat)
      /\ \E path \in Live : phase' = [phase EXCEPT ![s] = path]
      /\ kv' = [kv EXCEPT ![s] = p] /\ gdn' = [gdn EXCEPT ![s] = st] /\ prompt' = prompt
      /\ \E published \in BOOLEAN :
           /\ cache' = StorePersistentPrefix(b, s, p, published, Fresh \ {s})
           /\ p \notin PublishFails => published
  <2>1. Committed(s, p, st, b)
    BY <1>1, CommitFacts
  <2> QED
    BY <2>1 DEF Committed
<1>4. PICK published \in BOOLEAN :
        /\ cache' = StorePersistentPrefix(b, s, p, published, Fresh \ {s})
        /\ p \notin PublishFails => published
  BY <1>3
<1>7. /\ Pool(b) /\ Tracked(b)
      /\ \/ b.ckpt[s] # NoCkpt /\ b.ckpt[s].len = Len(p)
         \/ b.ckpt[s] = NoCkpt /\ p \in DOMAIN b.entry
  <2>1. TRUE \in BOOLEAN
    OBVIOUS
  <2>2. MaybeKept(cache, s, p, TRUE, b)
    BY <1>1, <1>2, <1>3, <2>1, MaybePool
  <2> QED
    BY <2>2 DEF MaybeKept
<1>8. /\ Pool(cache') /\ Tracked(cache')
      /\ published /\ b.ckpt[s] # NoCkpt /\ b.ckpt[s].len = Len(p) => p \in DOMAIN cache'.entry
      /\ b.ckpt[s] = NoCkpt => cache' = b
  BY <1>3, <1>4, <1>7, StorePool
<1>9. p \notin PublishFails => p \in DOMAIN cache'.entry
  BY <1>4, <1>7, <1>8
<1>10. SlotTypes'
  <2>1. PICK path \in Live : phase' = [phase EXCEPT ![s] = path]
    BY <1>3
  <2>2. phase' \in [Slots -> Phases]
    BY <1>2, <2>1 DEF SlotTypes, Phases
  <2>3. kv' \in [Slots -> Seq(Nat)] /\ gdn' \in [Slots -> Seq(Nat)] /\ prompt' \in [Slots -> Seq(Nat)]
    BY <1>2, <1>3 DEF SlotTypes
  <2>4. ASSUME NEW t \in Slots
        PROVE  /\ phase'[t] # "free" => prompt'[t] \in Prompts
               /\ phase'[t] \in {"free", "assigned"} => kv'[t] = <<>>
               /\ phase'[t] \in Early => Len(kv'[t]) <= Len(prompt'[t])
    <3>1. CASE t = s
      BY <1>1, <1>2, <1>3, <2>1, <3>1 DEF SlotTypes, Live, Early
    <3>2. CASE t # s
      BY <1>2, <1>3, <2>1, <3>2 DEF SlotTypes
    <3> QED
      BY <3>1, <3>2
  <2> QED
    BY <2>2, <2>3, <2>4 DEF SlotTypes
<1> QED
  BY <1>1, <1>8, <1>9, <1>10 DEF CheckpointInv

(* What a decode round does to its slot: the KV and the state get the same *)
(* tokens, the checkpoint the listed ones.                                 *)
Decoded(s, t, n) ==
  LET past == Len(kv[s])
      toks == Prefix(t, past + n)
      st == gdn[s] \o SubSeq(t, past + 1, past + n)
  IN  /\ past + n <= Len(t) /\ Prefix(t, past) = kv[s]
      /\ kv' = [kv EXCEPT ![s] = toks] /\ gdn' = [gdn EXCEPT ![s] = st]
      /\ cache' = MaybeCheckpoint(cache, s, Listed(s, toks), st, FALSE, Fresh)
      /\ Remember(s \in misled \/ Listed(s, toks) # toks)

(* A decode round and the types of its tokens. *)
LEMMA DecodeFacts ==
  ASSUME CheckpointInv, NEW s \in Slots, Decode(s)
  PROVE  /\ phase[s] \in Live /\ UNCHANGED <<phase, prompt, misled>>
         /\ \E toks, st \in Seq(Nat) :
              /\ kv' = [kv EXCEPT ![s] = toks] /\ gdn' = [gdn EXCEPT ![s] = st]
              /\ gdn[s] = kv[s] => st = toks
              /\ Listed(s, toks) \in Seq(Nat) /\ Len(Listed(s, toks)) = Len(toks)
              /\ cache' = MaybeCheckpoint(cache, s, Listed(s, toks), st, FALSE, Fresh)
              /\ Remember(s \in misled \/ Listed(s, toks) # toks)
<1>1. phase[s] \in Live /\ UNCHANGED <<phase, prompt, misled>>
  BY DEF Decode
<1>2. PICK t \in Texts, n \in 1..(IF phase[s] = "plain" THEN 1 ELSE Round) : Decoded(s, t, n)
  BY DEF Decode, Decoded
<1>3. n \in Nat /\ t \in Seq(Nat)
  BY CheckpointAssumption
<1>4. prompt[s] \in Seq(Nat) /\ kv[s] \in Seq(Nat) /\ gdn[s] \in Seq(Nat)
  BY DEF CheckpointInv, SlotTypes
<1>5. PICK past, more, toks, st :
        /\ past = Len(kv[s]) /\ more = SubSeq(t, past + 1, past + n)
        /\ toks = Prefix(t, past + n) /\ st = gdn[s] \o more
  OBVIOUS
<1>6. /\ past + n <= Len(t) /\ Prefix(t, past) = kv[s]
      /\ kv' = [kv EXCEPT ![s] = toks] /\ gdn' = [gdn EXCEPT ![s] = st]
      /\ cache' = MaybeCheckpoint(cache, s, Listed(s, toks), st, FALSE, Fresh)
      /\ Remember(s \in misled \/ Listed(s, toks) # toks)
  BY <1>2, <1>5 DEF Decoded
<1>7. past \in Nat
  BY <1>4, <1>5
<1>8. more \in Seq(Nat) /\ toks \in Seq(Nat) /\ Prefix(t, past) \o more = toks
  BY <1>3, <1>5, <1>6, <1>7, NextTokens
<1>9. st \in Seq(Nat) /\ (gdn[s] = kv[s] => st = toks)
  <2>1. gdn[s] \o more \in Seq(Nat)
    BY <1>4, <1>8, ConcatProperties
  <2> QED
    BY <1>5, <1>6, <1>8, <2>1
<1>10. Listed(s, toks) \in Seq(Nat) /\ Len(Listed(s, toks)) = Len(toks)
  BY <1>4, <1>8, ListedFacts
<1> QED
  BY <1>1, <1>6, <1>8, <1>9, <1>10

(* A decode step keeps the entries. *)
LEMMA DecodePool ==
  ASSUME CheckpointInv, NEW s \in Slots, Decode(s)
  PROVE  CheckpointInv' /\ DOMAIN cache.entry \subseteq DOMAIN cache'.entry
<1>1. PICK toks, st \in Seq(Nat) :
        /\ kv' = [kv EXCEPT ![s] = toks] /\ gdn' = [gdn EXCEPT ![s] = st]
        /\ Listed(s, toks) \in Seq(Nat)
        /\ cache' = MaybeCheckpoint(cache, s, Listed(s, toks), st, FALSE, Fresh)
  BY DecodeFacts
<1>2. phase[s] \in Live /\ phase' = phase /\ prompt' = prompt
  BY DecodeFacts
<1>3. SlotTypes /\ Pool(cache) /\ Tracked(cache)
  BY DEF CheckpointInv
<1>4. Pool(cache') /\ Tracked(cache') /\ DOMAIN cache'.entry = DOMAIN cache.entry
  <2>1. FALSE \in BOOLEAN
    OBVIOUS
  <2>2. PICK l : l = Listed(s, toks)
    OBVIOUS
  <2>3. MaybeKept(cache, s, l, FALSE, cache')
    BY <1>1, <1>3, <2>1, <2>2, MaybePool
  <2> QED
    BY <2>3 DEF MaybeKept
<1>5. SlotTypes'
  <2>1. kv' \in [Slots -> Seq(Nat)] /\ gdn' \in [Slots -> Seq(Nat)]
    BY <1>1, <1>3 DEF SlotTypes
  <2>2. ASSUME NEW x \in Slots
        PROVE  /\ phase'[x] # "free" => prompt'[x] \in Prompts
               /\ phase'[x] \in {"free", "assigned"} => kv'[x] = <<>>
               /\ phase'[x] \in Early => Len(kv'[x]) <= Len(prompt'[x])
    <3>1. CASE x = s
      BY <1>2, <1>3, <3>1 DEF SlotTypes, Live, Early
    <3>2. CASE x # s
      BY <1>1, <1>2, <1>3, <3>2 DEF SlotTypes
    <3> QED
      BY <3>1, <3>2
  <2> QED
    BY <1>2, <1>3, <2>1, <2>2 DEF SlotTypes
<1> QED
  BY <1>4, <1>5 DEF CheckpointInv

(* A recycled page takes one entry with its key. *)
LEMMA BundlePool ==
  ASSUME Pool(cache), Tracked(cache), NEW h, BundleEvicted(h)
  PROVE  Pool(cache') /\ Tracked(cache') /\ {PersistentKey(h)} \subseteq Range(cache.lru)
<1>1. h \in DOMAIN cache.entry /\ cache' = Evict(cache, {PersistentKey(h)}, Fresh)
  BY DEF BundleEvicted
<1>2. PICK K : K = {PersistentKey(h)}
  OBVIOUS
<1>3. K \subseteq Range(cache.lru)
  BY <1>1, <1>2 DEF Pool, EntryKeys
<1>4. K \subseteq Keys
  BY <1>3, CacheTypes DEF Pool
<1>5. Pool(Evict(cache, K, Fresh))
  BY <1>4, EvictPool
<1>6. Tracked(Evict(cache, K, Fresh))
  BY <1>3, EvictTracked DEF Tracked
<1> QED
  BY <1>1, <1>2, <1>3, <1>5, <1>6

(* The saved prefix of a slot that is reset. *)
LEMMA ResetSame ==
  ASSUME CheckpointInv, NEW s \in Slots, ResetSlot(s)
  PROVE  SameKeys(cache, cache')
<1>1. cache' = IF phase[s] \in Live THEN [cache EXCEPT !.saved[s] = Listed(s, kv[s])] ELSE cache
  BY DEF ResetSlot
<1>2. /\ Pool(cache) /\ Tracked(cache) /\ prompt[s] \in Seq(Nat) /\ kv[s] \in Seq(Nat)
  BY DEF CheckpointInv, SlotTypes
<1>3. PICK l : l = Listed(s, kv[s])
  OBVIOUS
<1>4. l \in Seq(Nat)
  BY <1>2, <1>3, ListedFacts
<1>5. SameKeys(cache, [cache EXCEPT !.saved[s] = l])
  BY <1>2, <1>4, SavePool
<1>6. SameKeys(cache, cache)
  BY <1>2 DEF SameKeys
<1> QED
  BY <1>1, <1>3, <1>5, <1>6

(* Every step keeps it. *)
LEMMA CheckpointStep == CheckpointInv /\ [Next]_vars => CheckpointInv'
<1> SUFFICES ASSUME CheckpointInv, [Next]_vars PROVE CheckpointInv'
  OBVIOUS
<1>0. /\ phase \in [Slots -> Phases] /\ prompt \in [Slots -> Seq(Nat)]
      /\ kv \in [Slots -> Seq(Nat)] /\ gdn \in [Slots -> Seq(Nat)]
      /\ \A x \in Slots :
           /\ phase[x] # "free" => prompt[x] \in Prompts
           /\ phase[x] \in {"free", "assigned"} => kv[x] = <<>>
           /\ phase[x] \in Early => Len(kv[x]) <= Len(prompt[x])
      /\ Pool(cache) /\ Tracked(cache) /\ SlotTypes
  BY DEF CheckpointInv, SlotTypes
<1>1. ASSUME NEW p \in Prompts, Admit(p) PROVE CheckpointInv'
  <2>1. PICK s : /\ s \in Slots /\ phase[s] = "free" /\ phase' = [phase EXCEPT ![s] = "assigned"]
                 /\ prompt' = [prompt EXCEPT ![s] = p]
    BY <1>1 DEF Admit, FindBestSlot, Free
  <2>2. kv' = kv /\ gdn' = gdn /\ cache' = cache /\ p \in Seq(Nat)
    BY <1>1, CheckpointAssumption DEF Admit
  <2>3. phase' \in [Slots -> Phases]
    BY <1>0, <2>1 DEF Phases
  <2>4. prompt' \in [Slots -> Seq(Nat)]
    BY <1>0, <2>1, <2>2
  <2>5. ASSUME NEW x \in Slots
        PROVE  /\ phase'[x] # "free" => prompt'[x] \in Prompts
               /\ phase'[x] \in {"free", "assigned"} => kv'[x] = <<>>
               /\ phase'[x] \in Early => Len(kv'[x]) <= Len(prompt'[x])
    <3>1. CASE x = s
      BY <1>0, <2>1, <2>2, <3>1 DEF Early
    <3>2. CASE x # s
      BY <1>0, <2>1, <2>2, <3>2
    <3> QED
      BY <3>1, <3>2
  <2>6. SlotTypes'
    BY <1>0, <2>2, <2>3, <2>4, <2>5 DEF SlotTypes
  <2> QED
    BY <1>0, <2>2, <2>6 DEF CheckpointInv
<1>2. ASSUME NEW h \in Prompts, BundleEvicted(h) PROVE CheckpointInv'
  <2>1. Pool(cache') /\ Tracked(cache')
    BY <1>0, <1>2, BundlePool
  <2>2. UNCHANGED <<phase, prompt, kv, gdn>>
    BY <1>2 DEF BundleEvicted, slotVars
  <2>3. SlotTypes'
    BY <1>0, <2>2 DEF SlotTypes
  <2> QED
    BY <2>1, <2>3 DEF CheckpointInv
<1>3. ASSUME NEW s \in Slots, ApplyPersistent(s) \/ ApplyRolling(s) \/ ApplyMiss(s)
      PROVE  CheckpointInv'
  <2>1. PICK n, st, k, b : ApplyOutcome(s, n, st, k, b)
    BY <1>3, ApplyPersistentFacts, ApplyRollingFacts, ApplyMissFacts
  <2> QED
    BY <2>1, ApplyPool
<1>4. ASSUME NEW s \in Slots, FirstChunk(s) PROVE CheckpointInv'
  <2>1. PICK ph \in {"prefill", "batch"} : phase' = [phase EXCEPT ![s] = ph]
    BY <1>4 DEF FirstChunk
  <2>2. phase[s] = "applied" /\ UNCHANGED <<prompt, kv, gdn, cache>>
    BY <1>4 DEF FirstChunk
  <2>3. phase' \in [Slots -> Phases]
    BY <1>0, <2>1 DEF Phases
  <2>4. ASSUME NEW x \in Slots
        PROVE  /\ phase'[x] # "free" => prompt'[x] \in Prompts
               /\ phase'[x] \in {"free", "assigned"} => kv'[x] = <<>>
               /\ phase'[x] \in Early => Len(kv'[x]) <= Len(prompt'[x])
    <3>1. CASE x = s
      BY <1>0, <2>1, <2>2, <3>1 DEF Early
    <3>2. CASE x # s
      BY <1>0, <2>1, <2>2, <3>2
    <3> QED
      BY <3>1, <3>2
  <2>5. SlotTypes'
    BY <1>0, <2>2, <2>3, <2>4 DEF SlotTypes
  <2> QED
    BY <1>0, <2>2, <2>5 DEF CheckpointInv
<1>5. ASSUME NEW s \in Slots, ResetSlot(s) PROVE CheckpointInv'
  <2>1. /\ phase' = [phase EXCEPT ![s] = "free"] /\ prompt' = [prompt EXCEPT ![s] = <<>>]
        /\ kv' = [kv EXCEPT ![s] = <<>>] /\ gdn' = [gdn EXCEPT ![s] = <<>>]
    BY <1>5 DEF ResetSlot
  <2>2. phase' \in [Slots -> Phases]
    BY <1>0, <2>1 DEF Phases
  <2>3. prompt' \in [Slots -> Seq(Nat)] /\ kv' \in [Slots -> Seq(Nat)] /\ gdn' \in [Slots -> Seq(Nat)]
    BY <1>0, <2>1
  <2>4. ASSUME NEW x \in Slots
        PROVE  /\ phase'[x] # "free" => prompt'[x] \in Prompts
               /\ phase'[x] \in {"free", "assigned"} => kv'[x] = <<>>
               /\ phase'[x] \in Early => Len(kv'[x]) <= Len(prompt'[x])
    <3>1. CASE x = s
      BY <1>0, <2>1, <3>1 DEF Early
    <3>2. CASE x # s
      BY <1>0, <2>1, <3>2
    <3> QED
      BY <3>1, <3>2
  <2>5. SlotTypes'
    BY <1>0, <2>2, <2>3, <2>4 DEF SlotTypes
  <2>8. Pool(cache') /\ Tracked(cache')
    BY <1>5, ResetSame DEF SameKeys
  <2> QED
    BY <2>5, <2>8 DEF CheckpointInv
<1>6. CASE UNCHANGED vars
  BY <1>0, <1>6 DEF vars, slotVars, CheckpointInv, SlotTypes
<1>7. ASSUME NEW s \in Slots, CommitPrefill(s) \/ Decode(s) PROVE CheckpointInv'
  BY <1>7, CommitPool, DecodePool
<1> QED
  BY <1>1, <1>2, <1>3, <1>4, <1>5, <1>6, <1>7 DEF Next

(* Reachable states have the agreement of pool, index, entries and         *)
(* checkpoints.                                                            *)
LEMMA CheckpointInvariant == Spec => []CheckpointInv
  BY CheckpointInitial, CheckpointStep, PTL DEF Spec

-----------------------------------------------------------------------------
(* Theorems *)

(* RollingTracked: in every reachable state, a rolling key of the pool is  *)
(* the checkpoint its slot has on record, and no key is there twice,       *)
(* whatever is evicted, forgotten or fails.                                *)
THEOREM RollingKeysTracked == Spec => []RollingTracked
<1>1. CheckpointInv => RollingTracked
  BY DEF CheckpointInv, RollingTracked, Pool, Tracked, TrackedKey
<1> QED
  BY <1>1, CheckpointInvariant, PTL

(* DecodeKeepsEntries: a decode step's checkpoint never costs an entry,    *)
(* because the keys of entries are pinned and its victims are not.         *)
THEOREM EntriesOutliveDecode == Spec => DecodeKeepsEntries
<1>1. CheckpointInv /\ [Next]_vars
        => [(\E s \in Slots : Decode(s)) => DOMAIN cache.entry \subseteq DOMAIN cache'.entry]_vars
  BY DecodePool
<1> QED
  BY <1>1, CheckpointInvariant, PTL DEF Spec, DecodeKeepsEntries

(* PromptStored: a prompt that commits with its pages published has an     *)
(* entry afterwards, and the entries stay within the budget.               *)
THEOREM PromptsStored == Spec => PromptStored
<1> DEFINE Stored ==
      \A s \in Slots :
        prompt[s] \notin PublishFails /\ phase[s] \in {"prefill", "batch"} /\ phase'[s] \in Live
          => prompt[s] \in DOMAIN cache'.entry /\ Cardinality(DOMAIN cache'.entry) <= Budget
<1>1. ASSUME CheckpointInv, Next PROVE Stored
  <2> SUFFICES ASSUME NEW s \in Slots, prompt[s] \notin PublishFails,
                      phase[s] \in {"prefill", "batch"}, phase'[s] \in Live
               PROVE  prompt[s] \in DOMAIN cache'.entry /\ Cardinality(DOMAIN cache'.entry) <= Budget
    OBVIOUS
  <2>0. phase \in [Slots -> Phases]
    BY <1>1 DEF CheckpointInv, SlotTypes
  <2>1. CommitPrefill(s)
    <3>1. \A p : Admit(p) => FALSE
      BY <2>0 DEF Admit, None, Live
    <3>2. \A p : BundleEvicted(p) => FALSE
      BY DEF BundleEvicted, slotVars, Live
    <3>3. \A t \in Slots : ApplyPersistent(t) \/ ApplyRolling(t) \/ ApplyMiss(t) => FALSE
      <4>1. \A t \in Slots : \A n, st, k : ~Resume(t, n, st, k) /\ ~StartOver(t)
        BY <2>0 DEF Resume, StartOver, Live
      <4>2. \A t \in Slots : ~ApplyPersistent(t) /\ ~ApplyMiss(t)
        BY <4>1 DEF ApplyPersistent, ApplyMiss
      <4>3. \A t \in Slots : ~ApplyRolling(t)
        BY <4>1 DEF ApplyRolling
      <4> QED
        BY <4>2, <4>3
    <3>4. \A t \in Slots : FirstChunk(t) \/ Decode(t) \/ ResetSlot(t) => FALSE
      BY <2>0 DEF FirstChunk, Decode, ResetSlot, Live
    <3>5. \A t \in Slots : CommitPrefill(t) => t = s
      BY <2>0 DEF CommitPrefill, Live
    <3> QED
      BY <1>1, <3>1, <3>2, <3>3, <3>4, <3>5 DEF Next
  <2>2. prompt[s] \in DOMAIN cache'.entry /\ CheckpointInv'
    BY <1>1, <2>1, CommitPool
  <2> QED
    BY <2>2 DEF CheckpointInv, Pool, FewEntries
<1>2. CheckpointInv /\ [Next]_vars => [Stored]_vars
  BY <1>1
<1> QED
  BY <1>2, CheckpointInvariant, PTL DEF Spec, PromptStored


-----------------------------------------------------------------------------
(* States and hashes                                                       *)
(*                                                                         *)
(* M: the keys whose state may be of other tokens; H: the entries that     *)
(* another key may hide.  Everything else is honest, and stays so through  *)
(* every change of the caches.                                             *)

(* The state of a key is the one its hash names. *)
Exact(c, M) ==
  \A k \in Range(c.lru) \ M :
    /\ k.slot \in Slots => c.ckpt[k.slot].state = k.hash
    /\ k.slot = Persistent => c.entry[k.hash] = k.hash

(* An entry is found, and no rolling key has its hash. *)
Visible(c, H) ==
  \A h \in DOMAIN c.entry \ H :
    /\ Finds(c, h, PersistentKey(h))
    /\ \A s \in Slots : Rolling(s, h) \notin Range(c.lru)

Honest(c, M, H) == Exact(c, M) /\ Visible(c, H)

(* Only the keys and the entries that are there matter. *)
LEMMA HonestCast ==
  ASSUME NEW c, NEW M, NEW H, Honest(c, M, H), NEW N, NEW G,
         \A k \in Range(c.lru) : k \in M => k \in N,
         \A h \in DOMAIN c.entry : h \in H => h \in G
  PROVE  Honest(c, N, G)
  BY DEF Honest, Exact, Visible

(* Evicting keys hides no entry that stays. *)
LEMMA EvictHonest ==
  ASSUME NEW c, Pool(c), NEW M, NEW H, Honest(c, M, H), NEW K, K \subseteq Range(c.lru), NEW fresh
  PROVE  Honest(Evict(c, K, fresh), M, H)
<1>1. PICK d : d = Evict(c, K, fresh)
  OBVIOUS
<1>2. c \in CacheSet /\ Range(c.lru) \subseteq Keys /\ EntryKeys(c)
  BY CacheTypes DEF Pool
<1>3. Evicted(c, K, fresh, d)
  BY <1>1, <1>2, EvictFacts
<1>4. Range(d.lru) = Range(c.lru) \ K
  BY <1>3 DEF Evicted
<1>5. K \subseteq Keys
  BY <1>2
<1>6. /\ EntryKeys(d)
      /\ \A h \in DOMAIN d.entry : /\ h \in DOMAIN c.entry /\ d.entry[h] = c.entry[h]
                                   /\ PersistentKey(h) \notin K
  <2>1. Pool(d)
    BY <1>1, <1>5, EvictPool
  <2>2. \A h \in DOMAIN d.entry : /\ h \in DOMAIN c.entry /\ d.entry[h] = c.entry[h]
                                  /\ PersistentKey(h) \notin K
    BY <1>1, <1>5, EvictPool
  <2> QED
    BY <2>1, <2>2 DEF Pool
<1>7. Exact(d, M)
  <2> SUFFICES ASSUME NEW k \in Range(d.lru) \ M
               PROVE  /\ k.slot \in Slots => d.ckpt[k.slot].state = k.hash
                      /\ k.slot = Persistent => d.entry[k.hash] = k.hash
    BY DEF Exact
  <2>1. k \in Range(c.lru) \ K /\ k \in Range(c.lru) \ M
    BY <1>4
  <2>2. /\ k.slot \in Slots => c.ckpt[k.slot].state = k.hash
        /\ k.slot = Persistent => c.entry[k.hash] = k.hash
    BY <2>1 DEF Honest, Exact
  <2>3. k.slot \in Slots => d.ckpt[k.slot] = c.ckpt[k.slot]
    BY <1>1, <2>1, EvictKeeps
  <2>4. k.slot = Persistent => d.entry[k.hash] = c.entry[k.hash]
    BY <1>6 DEF EntryKeys
  <2> QED
    BY <2>2, <2>3, <2>4
<1>8. Visible(d, H)
  <2> SUFFICES ASSUME NEW h \in DOMAIN d.entry \ H
               PROVE  /\ Finds(d, h, PersistentKey(h))
                      /\ \A s \in Slots : Rolling(s, h) \notin Range(d.lru)
    BY DEF Visible
  <2>1. h \in DOMAIN c.entry \ H /\ PersistentKey(h) \notin K
    BY <1>6
  <2>2. Finds(c, h, PersistentKey(h)) /\ \A s \in Slots : Rolling(s, h) \notin Range(c.lru)
    BY <2>1 DEF Honest, Visible
  <2>3. ASSUME NEW l \in K PROVE l.hash # h
    <3>1. l \in Range(c.lru) /\ l \in Keys
      BY <1>5
    <3>2. l.slot \in Slots => l.hash # h
      BY <2>2, <3>1, KeyFacts
    <3>3. l.slot = Persistent => l.hash # h
      BY <2>1, <3>1, KeyFacts
    <3> QED
      BY <3>1, <3>2, <3>3, KeyFacts
  <2>4. Finds(d, h, PersistentKey(h))
    BY <1>1, <1>2, <2>2, <2>3, EvictFinds
  <2> QED
    BY <1>4, <2>2, <2>4
<1> QED
  BY <1>1, <1>7, <1>8 DEF Honest

(* So does making room. *)
LEMMA BudgetHonest ==
  ASSUME NEW c, Pool(c), NEW M, NEW H, Honest(c, M, H), NEW evictable, NEW fresh
  PROVE  Honest(EvictForBudget(c, evictable, fresh), M, H)
<1>1. PICK K : /\ K \subseteq Range(c.lru)
               /\ EvictForBudget(c, evictable, fresh) = Evict(c, K, fresh)
  BY BudgetFacts DEF BudgetEvicted, Pool
<1>2. Honest(Evict(c, K, fresh), M, H)
  BY <1>1, EvictHonest
<1> QED
  BY <1>1, <1>2

(* And forgetting the checkpoint of a slot. *)
LEMMA SlotHonest ==
  ASSUME NEW c, Pool(c), NEW M, NEW H, Honest(c, M, H), NEW s \in Slots, NEW d, SlotEvicted(c, s, d)
  PROVE  Honest(d, M, H)
<1>1. /\ \A k : k \in Range(d.lru) <=> k \in Range(c.lru) /\ k.slot # s
      /\ \A t \in Slots : t # s => d.ckpt[t] = c.ckpt[t]
      /\ DOMAIN d.entry = DOMAIN c.entry /\ \A h \in DOMAIN c.entry : d.entry[h] = c.entry[h]
      /\ \A h, x : /\ Finds(c, h, x)
                   /\ \A k \in Range(c.lru) : k.slot = s => k.hash # h
                   => Finds(d, h, x)
      /\ Pool(d)
  BY DEF SlotEvicted
<1>2. Range(c.lru) \subseteq Keys
  BY CacheTypes DEF Pool
<1>3. Exact(d, M)
  <2> SUFFICES ASSUME NEW k \in Range(d.lru) \ M
               PROVE  /\ k.slot \in Slots => d.ckpt[k.slot].state = k.hash
                      /\ k.slot = Persistent => d.entry[k.hash] = k.hash
    BY DEF Exact
  <2>1. k \in Range(c.lru) \ M /\ k.slot # s
    BY <1>1
  <2>2. /\ k.slot \in Slots => c.ckpt[k.slot].state = k.hash
        /\ k.slot = Persistent => c.entry[k.hash] = k.hash
    BY <2>1 DEF Honest, Exact
  <2>3. k.slot = Persistent => k.hash \in DOMAIN c.entry
    BY <2>1 DEF Pool, EntryKeys
  <2> QED
    BY <1>1, <2>1, <2>2, <2>3
<1>4. Visible(d, H)
  <2> SUFFICES ASSUME NEW h \in DOMAIN d.entry \ H
               PROVE  /\ Finds(d, h, PersistentKey(h))
                      /\ \A t \in Slots : Rolling(t, h) \notin Range(d.lru)
    BY DEF Visible
  <2>1. Finds(c, h, PersistentKey(h)) /\ \A t \in Slots : Rolling(t, h) \notin Range(c.lru)
    BY <1>1 DEF Honest, Visible
  <2>2. \A k \in Range(c.lru) : k.slot = s => k.hash # h
    BY <1>2, <2>1, KeyFacts
  <2> QED
    BY <1>1, <2>1, <2>2
<1> QED
  BY <1>3, <1>4 DEF Honest

(* Room for one more key, nothing of slot s. *)
LEMMA RoomHonest ==
  ASSUME NEW c, Pool(c), NEW M, NEW H, Honest(c, M, H), NEW s \in Slots, NEW fresh, NEW d
  PROVE  /\ SlotRoom(c, s, Unpinned, fresh, d) => Honest(d, M, H)
         /\ SlotRoom(c, s, AllOf, fresh, d) => Honest(d, M, H)
<1>1. ASSUME NEW b, NEW V, SlotEvicted(c, s, b), d = EvictForBudget(b, V, fresh)
      PROVE  Honest(d, M, H)
  <2>1. Honest(b, M, H)
    BY <1>1, SlotHonest
  <2>2. Pool(b)
    BY <1>1 DEF SlotEvicted
  <2> QED
    BY <1>1, <2>1, <2>2, BudgetHonest
<1> QED
  BY <1>1 DEF SlotRoom

(* Order and saved prefixes do not matter. *)
LEMMA SameHonest ==
  ASSUME NEW c, NEW M, NEW H, Honest(c, M, H), NEW d, SameKeys(c, d)
  PROVE  Honest(d, M, H)
  BY DEF SameKeys, Honest, Exact, Visible, Finds

(* A rolling checkpoint that a visible entry does not make redundant. *)
LEMMA RollingHonest ==
  ASSUME NEW c, Pool(c), NEW M, NEW H, Honest(c, M, H), NEW s \in Slots, NEW toks \in Seq(Nat), NEW st,
         \A k \in Range(c.lru) : k.slot # s, ~Finds(c, toks, PersistentKey(toks)),
         st = toks \/ Rolling(s, toks) \in M,
         NEW d, RollingAdded(c, s, toks, st, d)
  PROVE  Honest(d, M, H)
<1>1. /\ Range(d.lru) = Range(c.lru) \cup {Rolling(s, toks)} /\ d.entry = c.entry
      /\ d.ckpt = [c.ckpt EXCEPT ![s] = [len |-> Len(toks), state |-> st]]
      /\ \A h, x : Finds(c, h, x) /\ h # toks => Finds(d, h, x)
  BY DEF RollingAdded
<1>2. PICK k, v : k = Rolling(s, toks) /\ v = [len |-> Len(toks), state |-> st]
  OBVIOUS
<1>3. k.slot = s /\ k.hash = toks /\ v.state = st /\ s # Persistent
  BY <1>2, KeyKinds
<1>4. c.ckpt \in [Slots -> Ckpts \cup {NoCkpt}]
  BY CacheTypes DEF Pool
<1>5. d.ckpt[s] = v /\ \A t \in Slots : t # s => d.ckpt[t] = c.ckpt[t]
  BY <1>1, <1>2, <1>4
<1>6. Exact(d, M)
  BY <1>1, <1>2, <1>3, <1>5 DEF Honest, Exact
<1>7. \A h \in DOMAIN c.entry \ H : h # toks
  BY DEF Honest, Visible
<1>8. \A h, t : Rolling(t, h) = k => h = toks
  BY <1>2 DEF Rolling
<1>9. Visible(d, H)
  BY <1>1, <1>2, <1>7, <1>8 DEF Honest, Visible
<1> QED
  BY <1>6, <1>9 DEF Honest

(* A new entry. *)
LEMMA EntryHonest ==
  ASSUME NEW c, Pool(c), NEW M, NEW H, Honest(c, M, H), NEW p \in Seq(Nat), NEW st,
         p \notin DOMAIN c.entry, st = p \/ PersistentKey(p) \in M,
         NEW d, EntryAdded(c, p, st, d),
         (\E s \in Slots : Rolling(s, p) \in Range(d.lru)) => p \in H
  PROVE  Honest(d, M, H)
<1>1. /\ Range(d.lru) = Range(c.lru) \cup {PersistentKey(p)}
      /\ DOMAIN d.entry = DOMAIN c.entry \cup {p} /\ d.entry[p] = st
      /\ \A h \in DOMAIN c.entry : h # p => d.entry[h] = c.entry[h]
      /\ d.ckpt = c.ckpt /\ Finds(d, p, PersistentKey(p))
      /\ \A h, x : Finds(c, h, x) /\ h # p => Finds(d, h, x)
  BY DEF EntryAdded
<1>2. /\ PersistentKey(p).slot \notin Slots /\ PersistentKey(p).hash = p
      /\ \A h : \A s \in Slots : Rolling(s, h) # PersistentKey(p)
  BY CheckpointAssumption DEF PersistentKey, Rolling
<1>3. \A k \in Range(c.lru) : k.slot = Persistent => k.hash \in DOMAIN c.entry
  BY DEF Pool, EntryKeys
<1>4. Exact(d, M)
  BY <1>1, <1>2, <1>3 DEF Honest, Exact
<1>5. Visible(d, H)
  BY <1>1, <1>2 DEF Honest, Visible
<1> QED
  BY <1>4, <1>5 DEF Honest

(* _maybe_checkpoint, where a new key has the state of its tokens or is    *)
(* among the excepted ones.                                                *)
LEMMA MaybeHonest ==
  ASSUME NEW c, Pool(c), Tracked(c), NEW M, NEW H, Honest(c, M, H), NEW s \in Slots,
         NEW toks \in Seq(Nat), NEW st \in Seq(Nat), NEW force \in BOOLEAN, NEW fresh,
         Rolling(s, toks) \notin Range(c.lru) => st = toks \/ Rolling(s, toks) \in M,
         NEW d, d = MaybeCheckpoint(c, s, toks, st, force, fresh)
  PROVE  Honest(d, M, H)
<1>1. MaybeOutcome(c, s, toks, st, force, fresh, d)
  BY MaybeFacts
<1>2. SUFFICES ASSUME ~(c.ckpt[s] # NoCkpt /\ c.ckpt[s].len = Len(toks)),
                      NEW b, SlotRoom(c, s, Unpinned, fresh, b),
                      \/ d = b
                      \/ RollingAdded(b, s, toks, st, d) /\ ~Finds(b, toks, PersistentKey(toks))
               PROVE  Honest(d, M, H)
  BY <1>1 DEF MaybeOutcome
<1>3. Honest(b, M, H)
  BY <1>2, RoomHonest
<1>4. Pool(b) /\ \A k \in Range(b.lru) : k.slot # s
  BY <1>2 DEF SlotRoom
<1>5. Rolling(s, toks) \notin Range(c.lru)
  <2>1. Rolling(s, toks).slot = s /\ Rolling(s, toks).hash = toks
    BY KeyKinds
  <2> QED
    BY <1>2, <2>1 DEF Tracked, TrackedKey
<1> QED
  BY <1>2, <1>3, <1>4, <1>5, RollingHonest

(* The checkpoint of toks is one kept for its length, or has state st. *)
KeptOrNew(c, s, toks, st, d) ==
  \/ d = c /\ c.ckpt[s].len = Len(toks)
  \/ d.ckpt[s].state = st

(* The checkpoint that a forced _maybe_checkpoint leaves. *)
LEMMA MaybeState ==
  ASSUME NEW c, Pool(c), Tracked(c), NEW s \in Slots, NEW toks \in Seq(Nat), NEW st \in Seq(Nat),
         NEW force \in BOOLEAN, force,
         NEW fresh, NEW d, d = MaybeCheckpoint(c, s, toks, st, force, fresh), d.ckpt[s] # NoCkpt
  PROVE  KeptOrNew(c, s, toks, st, d)
<1>1. MaybeOutcome(c, s, toks, st, force, fresh, d)
  BY MaybeFacts
<1>2. SUFFICES ASSUME NEW b, SlotRoom(c, s, Unpinned, fresh, b), RollingAdded(b, s, toks, st, d)
               PROVE  d.ckpt[s].state = st
  BY <1>1 DEF MaybeOutcome, SlotRoom, KeptOrNew
<1>3. b.ckpt \in [Slots -> Ckpts \cup {NoCkpt}]
  BY <1>2, CacheTypes DEF SlotRoom, Pool
<1>4. PICK v : v = [len |-> Len(toks), state |-> st]
  OBVIOUS
<1>5. d.ckpt = [b.ckpt EXCEPT ![s] = v] /\ v.state = st
  BY <1>2, <1>4 DEF RollingAdded
<1> QED
  BY <1>3, <1>5

(* _store_persistent_prefix, where the checkpoint has the state of the     *)
(* prompt or the entry's key is excepted.                                  *)
LEMMA StoreHonest ==
  ASSUME NEW c, Pool(c), Tracked(c), NEW M, NEW H, Honest(c, M, H), NEW s \in Slots, NEW p \in Seq(Nat),
         NEW published \in BOOLEAN, NEW fresh,
         c.ckpt[s] # NoCkpt /\ c.ckpt[s].len = Len(p) /\ p \notin DOMAIN c.entry
           => c.ckpt[s].state = p \/ PersistentKey(p) \in M,
         NEW d, d = StorePersistentPrefix(c, s, p, published, fresh),
         p \notin DOMAIN c.entry /\ (\E t \in Slots : Rolling(t, p) \in Range(d.lru)) => p \in H
  PROVE  Honest(d, M, H)
<1>1. StoreOutcome(c, s, p, published, fresh, d)
  BY StoreFacts
<1>2. CASE SameKeys(c, d)
  BY <1>2, SameHonest
<1>3. ASSUME c.ckpt[s] # NoCkpt, c.ckpt[s].len = Len(p), p \notin DOMAIN c.entry,
             NEW b, SlotRoom(c, s, AllOf, fresh, b), EntryAdded(b, p, c.ckpt[s].state, d)
      PROVE  Honest(d, M, H)
  <2>1. Honest(b, M, H)
    BY <1>3, RoomHonest
  <2>2. Pool(b) /\ p \notin DOMAIN b.entry
    BY <1>3 DEF SlotRoom
  <2> QED
    BY <1>3, <2>1, <2>2, EntryHonest
<1> QED
  BY <1>1, <1>2, <1>3 DEF StoreOutcome

-----------------------------------------------------------------------------
(* The inductive invariant of states and hashes *)

(* In a step: the keys whose state may be of other tokens, and the entries *)
(* that may be hidden, the new ones included.                              *)
Marked(wrong) == {k \in Keys : IF k \in Range(cache.lru) THEN k \in mislabelled ELSE wrong}

Hidden ==
  {h \in Seq(Nat) : IF h \in DOMAIN cache.entry THEN h \in shadowed
                    ELSE \E s \in Slots : Rolling(s, h) \in Range(cache'.lru)}

HonestNow == Honest(cache, mislabelled, shadowed)

(* What is remembered before a step is excepted in it. *)
LEMMA RememberedBefore ==
  ASSUME Pool(cache), HonestNow, NEW wrong
  PROVE  Honest(cache, Marked(wrong), Hidden)
<1>1. Range(cache.lru) \subseteq Keys /\ cache.entry \in Maps(States)
  BY CacheTypes DEF Pool
<1>2. DOMAIN cache.entry \subseteq Seq(Nat)
  BY <1>1, MapFacts
<1>3. \A k \in Range(cache.lru) : k \in mislabelled => k \in Marked(wrong)
  BY <1>1 DEF Marked
<1>4. \A h \in DOMAIN cache.entry : h \in shadowed => h \in Hidden
  BY <1>2 DEF Hidden
<1> QED
  BY <1>3, <1>4, HonestCast DEF HonestNow

(* What is excepted in a step is remembered after it. *)
LEMMA RememberedAfter ==
  ASSUME NEW wrong, Remember(wrong), Honest(cache', Marked(wrong), Hidden)
  PROVE  HonestNow'
<1>1. \A k \in Range(cache'.lru) : k \in Marked(wrong) => k \in mislabelled'
  BY DEF Remember, Marked
<1>2. \A h \in DOMAIN cache'.entry : h \in Hidden => h \in shadowed'
  BY DEF Remember, Hidden
<1>3. Honest(cache', mislabelled', shadowed')
  BY <1>1, <1>2, HonestCast
<1> QED
  BY <1>3 DEF HonestNow, Honest, Exact, Visible, Finds, PersistentKey, Rolling

(* A slot that was not misled has the state of its KV, which is a prefix   *)
(* of its prompt until the prompt is absorbed.                             *)
SlotFaithful(s) ==
  /\ s \notin misled => gdn[s] = kv[s]
  /\ phase[s] \in Early => kv[s] = Prefix(prompt[s], Len(kv[s]))

FaithfulInv == CheckpointInv /\ HonestNow /\ \A s \in Slots : SlotFaithful(s)

(* Nothing is restored: the empty prefix. *)
LEMMA EmptyPrefix ==
  ASSUME NEW p \in Seq(Nat)
  PROVE  Prefix(p, 0) = <<>> /\ Len(<<>>) = 0
<1>1. 0 \in 0..Len(p)
  OBVIOUS
<1> QED
  BY <1>1, PrefixFacts

(* A hit gives the slot the state of the prefix it resumes, unless it is a *)
(* mislabelled one.                                                        *)
LEMMA ApplyFaithful ==
  ASSUME FaithfulInv, NEW s \in Slots,
         NEW n, NEW st, NEW k, NEW b, ApplyOutcome(s, n, st, k, b)
  PROVE  HonestNow' /\ \A t \in Slots : SlotFaithful(t)'
<1>0. SlotTypes /\ Pool(cache) /\ Tracked(cache) /\ HonestNow /\ \A t \in Slots : SlotFaithful(t)
  BY DEF FaithfulInv, CheckpointInv
<1>1. HonestNow'
  <2>1. Honest(cache, Marked(FALSE), Hidden)
    BY <1>0, RememberedBefore
  <2>2. Honest(b, Marked(FALSE), Hidden)
    BY <1>0, <2>1, SlotHonest DEF ApplyOutcome
  <2>3. Honest(cache', Marked(FALSE), Hidden)
    BY <2>2, SameHonest DEF ApplyOutcome
  <2>4. Remember(FALSE)
    BY DEF ApplyOutcome
  <2> QED
    BY <2>3, <2>4, RememberedAfter
<1>2. /\ phase[s] = "assigned" /\ phase' = [phase EXCEPT ![s] = "applied"] /\ prompt' = prompt
      /\ phase \in [Slots -> Phases] /\ kv \in [Slots -> Seq(Nat)] /\ gdn \in [Slots -> Seq(Nat)]
      /\ prompt[s] \in Seq(Nat) /\ kv[s] = <<>>
  BY <1>0 DEF ApplyOutcome, Resume, StartOver, SlotTypes
<1>3. CASE StartOver(s)
  <2>1. UNCHANGED <<prompt, kv, gdn, misled>>
    BY <1>3 DEF StartOver
  <2>2. kv[s] = Prefix(prompt[s], Len(kv[s]))
    BY <1>2, EmptyPrefix
  <2>3. ASSUME NEW t \in Slots PROVE SlotFaithful(t)'
    <3>1. CASE t = s
      BY <1>0, <1>2, <2>1, <2>2, <3>1 DEF SlotFaithful
    <3>2. CASE t # s
      BY <1>0, <1>2, <2>1, <3>2 DEF SlotFaithful
    <3> QED
      BY <3>1, <3>2
  <2> QED
    BY <1>1, <2>3
<1>4. CASE /\ Resume(s, n, st, k) /\ n \in 0..Len(prompt[s]) /\ st \in Seq(Nat)
           /\ StateOf(cache, k, st) /\ k.hash = Prefix(prompt[s], n)
  <2>1. PICK h : h = Prefix(prompt[s], n)
    OBVIOUS
  <2>2. h \in Seq(Nat) /\ Len(h) = n
    BY <1>2, <1>4, <2>1, PrefixFacts
  <2>3. /\ kv' = [kv EXCEPT ![s] = h] /\ gdn' = [gdn EXCEPT ![s] = st]
        /\ misled' = IF k \in mislabelled THEN misled \cup {s} ELSE misled
    BY <1>4, <2>1 DEF Resume
  <2>4. k \notin mislabelled => st = h
    BY <1>0, <1>4, <2>1 DEF StateOf, HonestNow, Honest, Exact
  <2>5. ASSUME NEW t \in Slots PROVE SlotFaithful(t)'
    <3>1. CASE t = s
      <4>1. kv'[s] = h /\ gdn'[s] = st /\ prompt'[s] = prompt[s]
        BY <1>2, <2>3
      <4>2. s \notin misled' => gdn'[s] = kv'[s]
        BY <2>3, <2>4, <4>1
      <4>3. kv'[s] = Prefix(prompt'[s], Len(kv'[s]))
        BY <2>1, <2>2, <4>1
      <4> QED
        BY <3>1, <4>2, <4>3 DEF SlotFaithful, Prefix
    <3>2. CASE t # s
      <4>1. kv'[t] = kv[t] /\ gdn'[t] = gdn[t] /\ prompt'[t] = prompt[t] /\ phase'[t] = phase[t]
        BY <1>2, <2>3, <3>2
      <4>2. t \notin misled' => t \notin misled
        BY <2>3
      <4> QED
        BY <1>0, <4>1, <4>2 DEF SlotFaithful, Prefix
    <3> QED
      BY <3>1, <3>2
  <2> QED
    BY <1>1, <2>5
<1> QED
  BY <1>3, <1>4 DEF ApplyOutcome

(* The last chunk absorbs the rest of the prompt; where the slot was not   *)
(* misled and its checkpoint is not another's, the entry is exact.         *)
LEMMA CommitFaithful ==
  ASSUME FaithfulInv, NEW s \in Slots, CommitPrefill(s)
  PROVE  HonestNow' /\ \A t \in Slots : SlotFaithful(t)'
<1>0. /\ SlotTypes /\ Pool(cache) /\ Tracked(cache) /\ HonestNow /\ CheckpointInv
      /\ \A t \in Slots : SlotFaithful(t)
  BY DEF FaithfulInv, CheckpointInv
<1>1. PICK p, st, F, b, wrong :
        /\ p = prompt[s] /\ st = gdn[s] \o SubSeq(p, Len(kv[s]) + 1, Len(p))
        /\ F = Fresh \ {s} /\ b = MaybeCheckpoint(cache, s, p, st, TRUE, F)
        /\ wrong = (s \in misled \/ Foreign(s, p))
  OBVIOUS
<1>2. Committed(s, p, st, b)
  BY <1>0, <1>1, CommitFacts
<1>3. /\ phase[s] \in {"prefill", "batch"} /\ p \in Seq(Nat) /\ st \in Seq(Nat)
      /\ Len(kv[s]) \in 0..Len(p)
      /\ \E path \in Live : phase' = [phase EXCEPT ![s] = path]
      /\ kv' = [kv EXCEPT ![s] = p] /\ gdn' = [gdn EXCEPT ![s] = st]
      /\ UNCHANGED <<prompt, misled>> /\ Remember(wrong)
  BY <1>1, <1>2 DEF Committed
<1>4. PICK published \in BOOLEAN : cache' = StorePersistentPrefix(b, s, p, published, F)
  BY <1>1, <1>2 DEF Committed
<1>5. s \notin misled => st = p
  <2> SUFFICES ASSUME s \notin misled PROVE st = p
    OBVIOUS
  <2>1. PICK n : n = Len(kv[s])
    OBVIOUS
  <2>2. gdn[s] = Prefix(p, n)
    BY <1>0, <1>1, <1>3, <2>1 DEF SlotFaithful, Early
  <2>3. Prefix(p, n) \o SubSeq(p, n + 1, Len(p)) = p
    BY <1>3, <2>1, PrefixFacts
  <2> QED
    BY <1>1, <2>1, <2>2, <2>3
<1>6. TRUE \in BOOLEAN /\ wrong \in BOOLEAN
  BY <1>1
<1>7. Pool(b) /\ Tracked(b) /\ DOMAIN b.entry = DOMAIN cache.entry
  <2>1. MaybeKept(cache, s, p, TRUE, b)
    BY <1>0, <1>1, <1>3, <1>6, MaybePool
  <2> QED
    BY <2>1 DEF MaybeKept
<1>8. /\ Rolling(s, p) \in Keys /\ PersistentKey(p) \in Keys
      /\ Rolling(s, p).slot = s /\ Rolling(s, p).hash = p
      /\ PersistentKey(p).slot = Persistent /\ PersistentKey(p).hash = p
  BY <1>3, KeyKinds
<1>9. Honest(b, Marked(wrong), Hidden)
  <2>1. Honest(cache, Marked(wrong), Hidden)
    BY <1>0, RememberedBefore
  <2>2. Rolling(s, p) \notin Range(cache.lru) => st = p \/ Rolling(s, p) \in Marked(wrong)
    BY <1>1, <1>5, <1>8 DEF Marked
  <2> QED
    BY <1>0, <1>1, <1>3, <1>6, <2>1, <2>2, MaybeHonest
<1>10. ASSUME b.ckpt[s] # NoCkpt, p \notin DOMAIN b.entry
       PROVE  b.ckpt[s].state = p \/ PersistentKey(p) \in Marked(wrong)
  <2>1. PersistentKey(p) \notin Range(cache.lru)
    BY <1>0, <1>7, <1>8, <1>10 DEF Pool, EntryKeys
  <2>2. CASE wrong
    BY <1>8, <2>1, <2>2 DEF Marked
  <2>3. CASE ~wrong
    <3>1. s \notin misled /\ ~Foreign(s, p) /\ st = p
      BY <1>1, <1>5, <2>3
    <3>4. (b = cache /\ cache.ckpt[s].len = Len(p)) \/ b.ckpt[s].state = st
      <4>1. /\ Pool(cache) /\ Tracked(cache) /\ p \in Seq(Nat) /\ st \in Seq(Nat)
            /\ b.ckpt[s] # NoCkpt /\ b = MaybeCheckpoint(cache, s, p, st, TRUE, F)
        BY <1>0, <1>1, <1>3, <1>10
      <4>2. KeptOrNew(cache, s, p, st, b)
        BY <1>6, <4>1, MaybeState
      <4> QED
        BY <4>2 DEF KeptOrNew
    <3>2. CASE b = cache /\ cache.ckpt[s].len = Len(p)
      <4>1. Rolling(s, p) \in Range(cache.lru) \ mislabelled
        BY <1>10, <3>1, <3>2 DEF Foreign
      <4>2. cache.ckpt[s].state = p
        BY <1>0, <1>8, <4>1 DEF HonestNow, Honest, Exact
      <4> QED
        BY <3>2, <4>2
    <3>3. CASE b.ckpt[s].state = st
      BY <3>1, <3>3
    <3> QED
      BY <3>2, <3>3, <3>4
  <2> QED
    BY <1>6, <2>2, <2>3
<1>11. HonestNow'
  <2>1. p \notin DOMAIN b.entry /\ (\E t \in Slots : Rolling(t, p) \in Range(cache'.lru)) => p \in Hidden
    BY <1>3, <1>7 DEF Hidden
  <2>2. Honest(cache', Marked(wrong), Hidden)
    BY <1>3, <1>4, <1>7, <1>9, <1>10, <2>1, StoreHonest
  <2> QED
    BY <1>3, <2>2, RememberedAfter
<1>12. ASSUME NEW t \in Slots PROVE SlotFaithful(t)'
  <2>1. PICK path \in Live : phase' = [phase EXCEPT ![s] = path]
    BY <1>3
  <2>2. CASE t = s
    BY <1>0, <1>3, <1>5, <2>1, <2>2 DEF SlotFaithful, SlotTypes, Early, Live
  <2>3. CASE t # s
    BY <1>0, <1>3, <2>1, <2>3 DEF SlotFaithful, SlotTypes
  <2> QED
    BY <2>2, <2>3
<1> QED
  BY <1>11, <1>12

(* Decode appends the same tokens to both; a checkpoint under other tokens *)
(* than those is mislabelled.                                              *)
LEMMA DecodeFaithful ==
  ASSUME FaithfulInv, NEW s \in Slots, Decode(s)
  PROVE  HonestNow' /\ \A t \in Slots : SlotFaithful(t)'
<1>0. /\ SlotTypes /\ Pool(cache) /\ Tracked(cache) /\ HonestNow /\ CheckpointInv
      /\ \A t \in Slots : SlotFaithful(t)
  BY DEF FaithfulInv, CheckpointInv
<1>1. phase[s] \in Live /\ UNCHANGED <<phase, prompt, misled>>
  BY <1>0, DecodeFacts
<1>2. PICK toks, st \in Seq(Nat) :
        /\ kv' = [kv EXCEPT ![s] = toks] /\ gdn' = [gdn EXCEPT ![s] = st]
        /\ gdn[s] = kv[s] => st = toks
        /\ Listed(s, toks) \in Seq(Nat)
        /\ cache' = MaybeCheckpoint(cache, s, Listed(s, toks), st, FALSE, Fresh)
        /\ Remember(s \in misled \/ Listed(s, toks) # toks)
  BY <1>0, DecodeFacts
<1>3. PICK l, wrong : l = Listed(s, toks) /\ wrong = (s \in misled \/ l # toks)
  OBVIOUS
<1>4. /\ l \in Seq(Nat) /\ Remember(wrong) /\ FALSE \in BOOLEAN
      /\ cache' = MaybeCheckpoint(cache, s, l, st, FALSE, Fresh)
  BY <1>2, <1>3
<1>5. Rolling(s, l) \notin Range(cache.lru) => st = l \/ Rolling(s, l) \in Marked(wrong)
  <2>1. Rolling(s, l) \in Keys
    BY <1>4, KeyKinds
  <2>2. ~wrong => st = l
    BY <1>0, <1>2, <1>3 DEF SlotFaithful
  <2> QED
    BY <1>3, <2>1, <2>2 DEF Marked
<1>6. HonestNow'
  <2>1. Honest(cache, Marked(wrong), Hidden)
    BY <1>0, RememberedBefore
  <2>2. Honest(cache', Marked(wrong), Hidden)
    BY <1>0, <1>2, <1>4, <1>5, <2>1, MaybeHonest
  <2> QED
    BY <1>4, <2>2, RememberedAfter
<1>7. ASSUME NEW t \in Slots PROVE SlotFaithful(t)'
  <2>1. CASE t = s
    BY <1>0, <1>1, <1>2, <2>1 DEF SlotFaithful, SlotTypes, Early, Live
  <2>2. CASE t # s
    BY <1>0, <1>1, <1>2, <2>2 DEF SlotFaithful, SlotTypes
  <2> QED
    BY <2>1, <2>2
<1> QED
  BY <1>6, <1>7

(* Every step keeps states and hashes in agreement. *)
LEMMA FaithfulStep == FaithfulInv /\ [Next]_vars => FaithfulInv'
<1> SUFFICES ASSUME FaithfulInv, [Next]_vars PROVE FaithfulInv'
  OBVIOUS
<1>0. /\ SlotTypes /\ Pool(cache) /\ Tracked(cache) /\ HonestNow /\ CheckpointInv
      /\ \A s \in Slots : SlotFaithful(s)
  BY DEF FaithfulInv, CheckpointInv
<1>t. /\ phase \in [Slots -> Phases] /\ prompt \in [Slots -> Seq(Nat)]
      /\ kv \in [Slots -> Seq(Nat)] /\ gdn \in [Slots -> Seq(Nat)]
  BY <1>0 DEF SlotTypes
<1>a. CheckpointInv'
  BY <1>0, CheckpointStep
<1>b. SUFFICES HonestNow' /\ \A t \in Slots : SlotFaithful(t)'
  BY <1>a DEF FaithfulInv
<1>1. ASSUME NEW p \in Prompts, Admit(p) PROVE HonestNow' /\ \A t \in Slots : SlotFaithful(t)'
  <2>1. PICK s : /\ phase' = [phase EXCEPT ![s] = "assigned"]
                 /\ prompt' = [prompt EXCEPT ![s] = p]
    BY <1>1 DEF Admit
  <2>2. UNCHANGED <<kv, gdn, cache, mislabelled, misled, shadowed>>
    BY <1>1 DEF Admit
  <2>3. ASSUME NEW t \in Slots PROVE SlotFaithful(t)'
    <3>1. CASE t = s
      BY <1>0, <1>t, <2>1, <2>2, <3>1 DEF SlotFaithful, Early
    <3>2. CASE t # s
      BY <1>0, <1>t, <2>1, <2>2, <3>2 DEF SlotFaithful
    <3> QED
      BY <3>1, <3>2
  <2> QED
    BY <1>0, <2>2, <2>3 DEF HonestNow
<1>2. ASSUME NEW h \in Prompts, BundleEvicted(h) PROVE HonestNow' /\ \A t \in Slots : SlotFaithful(t)'
  <2>1. {PersistentKey(h)} \subseteq Range(cache.lru)
    BY <1>0, <1>2, BundlePool
  <2>2. /\ cache' = Evict(cache, {PersistentKey(h)}, Fresh) /\ Remember(FALSE)
        /\ UNCHANGED <<phase, prompt, kv, gdn, misled>>
    BY <1>2 DEF BundleEvicted, slotVars
  <2>3. Honest(cache, Marked(FALSE), Hidden)
    BY <1>0, RememberedBefore
  <2>4. Honest(cache', Marked(FALSE), Hidden)
    BY <1>0, <2>1, <2>2, <2>3, EvictHonest
  <2>5. HonestNow'
    BY <2>2, <2>4, RememberedAfter
  <2> QED
    BY <1>0, <2>2, <2>5 DEF SlotFaithful
<1>3. ASSUME NEW s \in Slots, ApplyPersistent(s) \/ ApplyRolling(s) \/ ApplyMiss(s)
      PROVE  HonestNow' /\ \A t \in Slots : SlotFaithful(t)'
  <2>1. PICK n, st, k, b : ApplyOutcome(s, n, st, k, b)
    BY <1>0, <1>3, ApplyPersistentFacts, ApplyRollingFacts, ApplyMissFacts
  <2> QED
    BY <2>1, ApplyFaithful
<1>4. ASSUME NEW s \in Slots, FirstChunk(s) PROVE HonestNow' /\ \A t \in Slots : SlotFaithful(t)'
  <2>1. PICK ph \in {"prefill", "batch"} : phase' = [phase EXCEPT ![s] = ph]
    BY <1>4 DEF FirstChunk
  <2>2. phase[s] = "applied" /\ UNCHANGED <<prompt, kv, gdn, cache, mislabelled, misled, shadowed>>
    BY <1>4 DEF FirstChunk
  <2>3. \A t \in Slots : phase'[t] \in Early => phase[t] \in Early
    BY <1>t, <2>1, <2>2 DEF Early
  <2> QED
    BY <1>0, <2>2, <2>3 DEF SlotFaithful, HonestNow
<1>5. ASSUME NEW s \in Slots, ResetSlot(s) PROVE HonestNow' /\ \A t \in Slots : SlotFaithful(t)'
  <2>1. /\ phase' = [phase EXCEPT ![s] = "free"] /\ prompt' = [prompt EXCEPT ![s] = <<>>]
        /\ kv' = [kv EXCEPT ![s] = <<>>] /\ gdn' = [gdn EXCEPT ![s] = <<>>]
        /\ misled' = misled \ {s} /\ UNCHANGED <<mislabelled, shadowed>>
    BY <1>5 DEF ResetSlot
  <2>2. Honest(cache', mislabelled, shadowed)
    BY <1>0, <1>5, ResetSame, SameHonest DEF HonestNow
  <2>3. HonestNow'
    BY <2>1, <2>2 DEF HonestNow, Honest, Exact, Visible, Finds, PersistentKey, Rolling
  <2>4. ASSUME NEW t \in Slots PROVE SlotFaithful(t)'
    <3>1. CASE t = s
      BY <1>t, <2>1, <3>1 DEF SlotFaithful, Early
    <3>2. CASE t # s
      BY <1>0, <1>t, <2>1, <3>2 DEF SlotFaithful
    <3> QED
      BY <3>1, <3>2
  <2> QED
    BY <2>3, <2>4
<1>6. CASE UNCHANGED vars
  BY <1>0, <1>6 DEF vars, slotVars, SlotFaithful, HonestNow
<1>7. ASSUME NEW s \in Slots, CommitPrefill(s) \/ Decode(s)
      PROVE  HonestNow' /\ \A t \in Slots : SlotFaithful(t)'
  BY <1>7, CommitFaithful, DecodeFaithful
<1> QED
  BY <1>1, <1>2, <1>3, <1>4, <1>5, <1>6, <1>7 DEF Next

(* At first there is nothing to disagree. *)
LEMMA FaithfulInitial == Init => FaithfulInv
<1> SUFFICES ASSUME Init PROVE FaithfulInv
  OBVIOUS
<1>1. CheckpointInv
  BY CheckpointInitial
<1>2. HonestNow
  <2>1. cache.lru = <<>> /\ cache.entry = <<>>
    BY DEF Init, NoCache
  <2>2. Range(cache.lru) = {} /\ DOMAIN cache.entry = {}
    BY <2>1, EmptyRange
  <2> QED
    BY <2>2 DEF HonestNow, Honest, Exact, Visible
<1>3. \A s \in Slots : SlotFaithful(s)
  BY DEF Init, SlotFaithful, Early
<1> QED
  BY <1>1, <1>2, <1>3 DEF FaithfulInv

(* Reachable states have the agreement of states and hashes. *)
LEMMA FaithfulInvariant == Spec => []FaithfulInv
  BY FaithfulInitial, FaithfulStep, PTL DEF Spec

(* OnlyMisledDiffer: in every reachable state, a slot that did not resume  *)
(* from a mislabelled checkpoint has a recurrent state that has absorbed   *)
(* exactly the tokens of its KV.                                           *)
THEOREM StatesMatch == Spec => []OnlyMisledDiffer
<1>1. FaithfulInv => OnlyMisledDiffer
  BY DEF FaithfulInv, SlotFaithful, OnlyMisledDiffer
<1> QED
  BY <1>1, FaithfulInvariant, PTL

(* OnlyShadowedHidden: in every reachable state, an entry that was not     *)
(* stored over another slot's key can be found, and every entry's key is   *)
(* in the pool and pinned.                                                 *)
THEOREM EntriesVisible == Spec => []OnlyShadowedHidden
<1>1. FaithfulInv => OnlyShadowedHidden
  <2> SUFFICES ASSUME FaithfulInv, NEW h \in DOMAIN cache.entry
               PROVE  /\ Finds(cache, h, PersistentKey(h)) \/ h \in shadowed
                      /\ PersistentKey(h) \in Range(cache.lru) \cap cache.pinned
    BY DEF OnlyShadowedHidden
  <2>1. Finds(cache, h, PersistentKey(h)) \/ h \in shadowed
    BY DEF FaithfulInv, HonestNow, Honest, Visible
  <2>2. PersistentKey(h) \in Range(cache.lru) /\ PersistentKey(h).slot = Persistent
    BY DEF FaithfulInv, CheckpointInv, Pool, EntryKeys, PersistentKey
  <2>3. PersistentKey(h) \in cache.pinned
    BY <2>2 DEF FaithfulInv, CheckpointInv, Pool, EntryKeys
  <2> QED
    BY <2>1, <2>2, <2>3
<1> QED
  BY <1>1, FaithfulInvariant, PTL
=============================================================================
