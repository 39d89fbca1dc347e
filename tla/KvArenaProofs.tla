--------------------------- MODULE KvArenaProofs ---------------------------
(***************************************************************************)
(* Proofs about KvArena, for every number of slots, bundles and pages,     *)
(* every page and block size, every set of requests and caches: first the  *)
(* pool, the page tables and the reservations, then what the bundles hold. *)
(***************************************************************************)
EXTENDS KvArena, CollectionProofs, TLAPS

-----------------------------------------------------------------------------
(* Pages *)

(* A product grows with its factor. *)
LEMMA LessProduct ==
  ASSUME NEW p \in Nat \ {0}, NEW a \in Nat, NEW b \in Nat, p * a <= p * b
  PROVE  a <= b
<1>1. CASE b < a
  <2>1. a - b \in Nat /\ a - b >= 1 /\ a = b + (a - b)
    BY <1>1
  <2>2. p * a = p * b + p * (a - b)
    BY <2>1
  <2>3. p * (a - b) >= 1 /\ p * b \in Nat
    BY <2>1
  <2> QED
    BY <2>2, <2>3
<1> QED
  BY <1>1

(* PagesFor rounds up: it is the number of pages that n tokens begin. *)
LEMMA PagesForFacts ==
  ASSUME NEW n \in Nat
  PROVE  /\ PagesFor(n) \in Nat
         /\ n <= PageSize * PagesFor(n) /\ PageSize * PagesFor(n) < n + PageSize
<1>1. PageSize \in Nat \ {0}
  BY ArenaAssumption
<1> DEFINE m == n + PageSize - 1
           q == m \div PageSize
<1>2. m \in Nat
  BY <1>1
<1> HIDE DEF m
<1>3. q \in Nat /\ PageSize * q <= m /\ m < PageSize * q + PageSize
  BY <1>1, <1>2
<1> QED
  BY <1>1, <1>3 DEF PagesFor, m

(* More tokens need no fewer pages; one more token needs at most one more. *)
LEMMA PagesForOrder ==
  ASSUME NEW m \in Nat, NEW n \in Nat, m <= n
  PROVE  /\ PagesFor(m) \in Nat /\ PagesFor(n) \in Nat /\ PagesFor(m) <= PagesFor(n)
         /\ PagesFor(m + 1) \in Nat /\ PagesFor(m + 1) <= PagesFor(m) + 1
         /\ 0 < m => 1 <= PagesFor(m)
<1>1. PageSize \in Nat \ {0}
  BY ArenaAssumption
<1> DEFINE a == PagesFor(m)
           b == PagesFor(n)
           c == PagesFor(m + 1)
<1>2. /\ a \in Nat /\ m <= PageSize * a /\ PageSize * a < m + PageSize
      /\ b \in Nat /\ n <= PageSize * b /\ PageSize * b < n + PageSize
      /\ c \in Nat /\ m + 1 <= PageSize * c /\ PageSize * c < m + 1 + PageSize
  BY PagesForFacts
<1> HIDE DEF a, b, c
<1>3. a <= b
  <2>1. PageSize * a < PageSize * b + PageSize
    <3>1. PageSize * a \in Nat /\ PageSize * b \in Nat
      BY <1>1, <1>2
    <3> QED
      BY <1>1, <1>2, <3>1
  <2>2. PageSize * (b + 1) = PageSize * b + PageSize
    BY <1>1, <1>2
  <2>3. CASE b + 1 <= a
    <3>1. PageSize * (b + 1) <= PageSize * a
      <4>1. PICK d \in Nat : a = b + 1 + d
        <5>1. a - (b + 1) \in Nat /\ a = b + 1 + (a - (b + 1))
          BY <1>2, <2>3
        <5> QED
          BY <5>1
      <4>2. PageSize * a = PageSize * (b + 1) + PageSize * d /\ PageSize * d \in Nat
        BY <1>1, <1>2, <4>1
      <4>3. PageSize * (b + 1) \in Nat
        BY <1>1, <1>2
      <4> QED
        BY <4>2, <4>3
    <3>2. PageSize * a \in Nat /\ PageSize * b \in Nat
      BY <1>1, <1>2
    <3> QED
      BY <1>1, <2>1, <2>2, <3>1, <3>2
  <2> QED
    BY <1>2, <2>3
<1>4. c <= a + 1
  <2>1. PageSize * (a + 1) = PageSize * a + PageSize
    BY <1>1, <1>2
  <2>2. PageSize * a \in Nat /\ PageSize * c \in Nat
    BY <1>1, <1>2
  <2>3. PageSize * c <= PageSize * (a + 1)
    BY <1>1, <1>2, <2>1, <2>2
  <2> QED
    BY <1>1, <1>2, <2>3, LessProduct
<1>5. 0 < m => 1 <= a
  <2>1. a = 0 => PageSize * a = 0
    BY <1>1
  <2> QED
    BY <1>2, <2>1
<1> QED
  BY <1>2, <1>3, <1>4, <1>5 DEF a, b, c

(* No tokens need no page. *)
LEMMA PagesForNone == PagesFor(0) = 0
<1>1. PageSize \in Nat \ {0}
  BY ArenaAssumption
<1> DEFINE q == PagesFor(0)
<1>2. q \in Nat /\ PageSize * q < PageSize
  BY <1>1, PagesForFacts
<1> HIDE DEF q
<1>3. CASE q >= 1
  <2>1. PageSize * q >= PageSize
    <3>1. PICK d \in Nat : q = 1 + d
      <4>1. q - 1 \in Nat /\ q = 1 + (q - 1)
        BY <1>2, <1>3
      <4> QED
        BY <4>1
    <3>2. PageSize * q = PageSize + PageSize * d /\ PageSize * d \in Nat
      BY <1>1, <3>1
    <3> QED
      BY <1>1, <3>2
  <2>2. PageSize * q \in Nat
    BY <1>1, <1>2
  <2> QED
    BY <1>1, <1>2, <2>1, <2>2
<1> QED
  BY <1>2, <1>3 DEF q

(* The prefix of a request's tokens has the length it should. *)
LEMMA PrefixFacts ==
  ASSUME NEW r \in Requests, NEW n \in 0..Len(Tokens[r])
  PROVE  Prefix(r, n) \in Seq(Nat) /\ Len(Prefix(r, n)) = n
<1>1. Tokens[r] \in Seq(Nat) /\ Len(Tokens[r]) \in Nat
  BY ArenaAssumption
<1> QED
  BY <1>1, SMTT(30) DEF Prefix

(* So has the list of its committed tokens. *)
LEMMA ListedFacts ==
  ASSUME NEW r \in Requests, NEW n \in 0..Len(Tokens[r])
  PROVE  Listed(r, n) \in Seq(Nat) /\ Len(Listed(r, n)) = n
<1> DEFINE at(i) == IF r \in Plain /\ i > Prompt[r] + 1 THEN i - 1 ELSE i
<1>1. Tokens[r] \in Seq(Nat) /\ Len(Tokens[r]) \in Nat /\ Prompt[r] \in Nat /\ n \in Nat
  BY ArenaAssumption
<1>2. \A i \in 1..n : at(i) \in 1..Len(Tokens[r])
  BY <1>1
<1>3. Listed(r, n) = [i \in 1..n |-> Tokens[r][at(i)]]
  BY DEF Listed
<1> HIDE DEF at
<1>4. \A i \in 1..n : Tokens[r][at(i)] \in Nat
  BY <1>1, <1>2
<1>5. Listed(r, n) \in [1..n -> Nat]
  BY <1>3, <1>4
<1> QED
  BY <1>1, <1>5

(* Reversing keeps the elements. *)
LEMMA ReverseFacts ==
  ASSUME NEW S, NEW s \in Seq(S), IsInjective(s)
  PROVE  Reverse(s) \in Seq(S) /\ Range(Reverse(s)) = Range(s) /\ IsInjective(Reverse(s))
<1> DEFINE t == Reverse(s)
           n == Len(s)
<1>1. n \in Nat /\ DOMAIN s = 1..n /\ \A i \in 1..n : s[i] \in S
  OBVIOUS
<1>2. t = [i \in 1..n |-> s[(n - i) + 1]]
  BY DEF Reverse
<1> HIDE DEF t, n
<1>3. \A i \in 1..n : (n - i) + 1 \in 1..n /\ (n - ((n - i) + 1)) + 1 = i
  BY <1>1
<1>4. DOMAIN t = 1..n /\ \A i \in 1..n : t[i] = s[(n - i) + 1]
  BY <1>2
<1>5. t \in Seq(S)
  BY <1>1, <1>2, <1>3
<1>6. Range(t) = Range(s)
  <2>1. \A x \in Range(t) : x \in Range(s)
    BY <1>1, <1>3, <1>4 DEF Range
  <2>2. ASSUME NEW i \in 1..n PROVE s[i] \in Range(t)
    <3>1. (n - i) + 1 \in 1..n /\ t[(n - i) + 1] = s[i]
      BY <1>3, <1>4
    <3> QED
      BY <1>4, <3>1 DEF Range
  <2> QED
    BY <1>1, <2>1, <2>2 DEF Range
<1>7. IsInjective(t)
  <2> SUFFICES ASSUME NEW i \in 1..n, NEW j \in 1..n, t[i] = t[j] PROVE i = j
    BY <1>4 DEF IsInjective
  <2>1. (n - i) + 1 = (n - j) + 1
    BY <1>1, <1>3, <1>4 DEF IsInjective
  <2> QED
    BY <1>1, <2>1
<1> QED
  BY <1>5, <1>6, <1>7 DEF t

-----------------------------------------------------------------------------
(* The inductive invariant *)

(* The slot pages that own a bundle. *)
Places(b) == {si \in Slots \X Pages : own[si[1]][si[2]] = b}

(* A bundle has a reference for each page that owns it. *)
Counted == \A b \in Bundles : ref[b] = Cardinality(Places(b))

(* The free queue holds the bundles without a reference, once each. *)
Pool ==
  /\ IsInjective(queue)
  /\ \A b \in Bundles : b \in Range(queue) <=> ref[b] = 0
  /\ Counted

(* The call of the slot did not fail. *)
Live(s) == phase[s] # "failed"

(* Every page the slot is about to write is prepared. *)
AllPrivate(s) == \A i \in Touched(s) : Private(s, i)

(* The calls of the engine thread: a wave is restored while nobody writes,  *)
(* the slots of a batch are in one phase and prepared one by one, and a     *)
(* failed call leaves no live slot behind in the middle of its write.       *)
Calls ==
  /\ \A s \in Slots : phase[s] = "reserved" => \A t \in Slots : Live(t) /\ want[t] = 0
  /\ \A s, t \in Slots : ~ Live(s) /\ Live(t) => want[t] = 0
  /\ \A s, t \in Slots : Live(s) /\ Live(t) /\ want[s] # 0 /\ want[t] # 0 => phase[s] = phase[t]
  /\ \A s, t \in Slots : s # t /\ Live(s) /\ Live(t) => AllPrivate(s) \/ AllPrivate(t)
  /\ \A s \in Slots : phase[s] \in {"idle", "reserved"} =>
       want[s] = 0 /\ row[s] = [i \in Pages |-> 0] /\ len[s] = 0 /\ pos[s] = 0
  /\ \A s \in Slots : phase[s] = "idle" <=> req[s] = NoReq

(* Only the slot whose pages are being prepared, or were when its call      *)
(* failed, owns pages that are not in its row yet; those are fresh.         *)
Settled ==
  /\ \A s \in Slots : Live(s) /\ AllPrivate(s) => own[s] = row[s]
  /\ \A s, t \in Slots : own[s] # row[s] /\ own[t] # row[t] => s = t
  /\ \A s \in Slots : \A i \in Pages : own[s][i] # row[s][i] => Private(s, i)

(* A bundle serves one page number: in every page table, for every hash     *)
(* published on it and in every persistent entry.                           *)
Numbered ==
  /\ \A s, t \in Slots : \A i, j \in Pages : own[s][i] # 0 /\ own[s][i] = own[t][j] => i = j
  /\ \A s, t \in Slots : \A i, j \in Pages : row[s][i] # 0 /\ row[s][i] = row[t][j] => i = j
  /\ \A s \in Slots : \A i \in Pages :
       row[s][i] # 0 => \A k \in pub[row[s][i]] : PagesFor(Len(k)) = i
  /\ \A b \in Bundles : \A k, l \in pub[b] : PagesFor(Len(k)) = PagesFor(Len(l))

(* The bundle serves page number i for a hash published on it. *)
ServesPage(b, i) == \E k \in pub[b] : PagesFor(Len(k)) = i

(* An entry names a bundle for each of its pages, which still serves that   *)
(* page.                                                                    *)
EntriesNumbered ==
  \A e \in entries :
    /\ Len(e.bundles) = PagesFor(Len(e.tokens))
    /\ \A i \in 1..Len(e.bundles) : ServesPage(e.bundles[i], i)

(* A slot stays within the declared length of its request, and every page   *)
(* it has written is in its row.                                            *)
Bounded(s) ==
  /\ phase[s] = "prefill" => want[s] <= Prompt[req[s]]
  /\ phase[s] # "idle" => /\ pos[s] <= Len(Tokens[req[s]]) /\ len[s] <= Len(Tokens[req[s]])
                          /\ want[s] <= TotalTokens[req[s]]
  /\ want[s] # 0 /\ Live(s) /\ Call(s) = "plain" => want[s] <= Len(Tokens[req[s]])
  /\ Live(s) => \A i \in 1..PagesFor(pos[s]) : row[s][i] # 0

(* Every slot stays within its bounds. *)
Bounds == \A s \in Slots : Bounded(s)

(* The inductive invariant. *)
Inv == /\ TypeOK /\ Pool /\ PromisesCovered /\ Calls /\ Settled
       /\ Numbered /\ EntriesNumbered /\ Bounds

-----------------------------------------------------------------------------
(* Facts of every state *)

(* The variables, one by one. *)
LEMMA Types ==
  ASSUME TypeOK
  PROVE  /\ ref \in [Bundles -> Nat] /\ queue \in Seq(Bundles)
         /\ pub \in [Bundles -> SUBSET Seq(Nat)] /\ bytes \in [Bundles -> Seq(Nat)]
         /\ res \in [Slots -> Nat]
         /\ row \in [Slots -> [Pages -> Bundles \cup {0}]]
         /\ own \in [Slots -> [Pages -> Bundles \cup {0}]]
         /\ len \in [Slots -> Nat] /\ pos \in [Slots -> Nat] /\ want \in [Slots -> Nat]
         /\ entries \subseteq [tokens : Seq(Nat), bundles : Seq(Bundles)]
         /\ ckpt \in [Slots -> Seq(Nat)] /\ cached \in [Slots -> Seq(Nat)]
         /\ req \in [Slots -> Requests \cup {NoReq}]
         /\ phase \in [Slots -> {"idle", "reserved", "prefill", "decode", "failed"}]
  BY DEF TypeOK

(* The places of a bundle are finitely many. *)
LEMMA PlacesFinite ==
  ASSUME NEW b
  PROVE  IsFiniteSet(Places(b)) /\ Cardinality(Places(b)) \in Nat
<1>1. IsFiniteSet(Slots) /\ IsFiniteSet(Pages)
  BY ArenaAssumption, FS_Interval DEF Pages
<1>2. IsFiniteSet(Slots \X Pages)
  BY <1>1, FS_Product
<1>3. Places(b) \in SUBSET (Slots \X Pages)
  BY DEF Places
<1> QED
  BY <1>2, <1>3, FS_Subset, FS_CardinalityType

(* A place of a bundle is a page of a slot that owns it. *)
LEMMA PlaceOf ==
  ASSUME NEW b, NEW s \in Slots, NEW i \in Pages
  PROVE  <<s, i>> \in Places(b) <=> own[s][i] = b
  BY DEF Places

(* A page that owns a bundle holds one of its references; the only one is   *)
(* nobody else's.                                                           *)
Referenced ==
  /\ \A s \in Slots : \A i \in Pages : own[s][i] # 0 => ref[own[s][i]] >= 1
  /\ \A s, t \in Slots : \A i, j \in Pages :
       own[s][i] # 0 /\ own[s][i] = own[t][j] /\ ref[own[s][i]] = 1 => s = t /\ i = j

(* A bundle with as many references as pages has one for every page that    *)
(* owns it.                                                                 *)
LEMMA CountedReferenced == TypeOK /\ Counted => Referenced
<1> SUFFICES ASSUME TypeOK, Counted PROVE Referenced
  OBVIOUS
<1>1. ASSUME NEW s \in Slots, NEW i \in Pages, own[s][i] # 0
      PROVE  ref[own[s][i]] >= 1
  <2> DEFINE b == own[s][i]
  <2>1. b \in Bundles
    BY <1>1, Types
  <2>2. <<s, i>> \in Places(b)
    BY PlaceOf
  <2> HIDE DEF b
  <2>3. Cardinality(Places(b)) \in Nat /\ Cardinality(Places(b)) # 0
    BY <2>2, PlacesFinite, FS_EmptySet
  <2>4. ref[b] >= 1
    BY <2>1, <2>3 DEF Counted
  <2> QED
    BY <2>4 DEF b
<1>2. ASSUME NEW s \in Slots, NEW t \in Slots, NEW i \in Pages, NEW j \in Pages,
             own[s][i] # 0, own[s][i] = own[t][j], ref[own[s][i]] = 1
      PROVE  s = t /\ i = j
  <2> DEFINE b == own[s][i]
  <2>1. b \in Bundles
    BY <1>2, Types
  <2>2. <<s, i>> \in Places(b) /\ <<t, j>> \in Places(b)
    BY <1>2, PlaceOf
  <2>3. ref[b] = 1
    BY <1>2
  <2> HIDE DEF b
  <2>4. Cardinality(Places(b)) = 1
    BY <2>1, <2>3 DEF Counted
  <2>5. PICK x : Places(b) = {x}
    BY <2>4, PlacesFinite, FS_Singleton
  <2>6. <<s, i>> = <<t, j>>
    BY <2>2, <2>5
  <2> QED
    BY <2>6
<1>3. \A s \in Slots : \A i \in Pages : own[s][i] # 0 => ref[own[s][i]] >= 1
  BY <1>1
<1>4. \A s, t \in Slots : \A i, j \in Pages :
        own[s][i] # 0 /\ own[s][i] = own[t][j] /\ ref[own[s][i]] = 1 => s = t /\ i = j
  BY <1>2
<1> QED
  BY <1>3, <1>4 DEF Referenced

(* The pages a slot may write are pages of its row. *)
LEMMA TouchedPages == TypeOK /\ Bounds => \A s \in Slots : phase[s] # "idle" /\ req[s] # NoReq => Touched(s) \subseteq Pages
<1> SUFFICES ASSUME TypeOK, Bounds, NEW s \in Slots, phase[s] # "idle", req[s] # NoReq, NEW i \in Touched(s)
             PROVE  i \in Pages
  OBVIOUS
<1>1. /\ pos[s] \in Nat /\ want[s] \in Nat /\ req[s] \in Requests /\ want[s] <= TotalTokens[req[s]]
      /\ TotalTokens[req[s]] \in Nat /\ PagesFor(TotalTokens[req[s]]) <= MaxPages
  BY Types, ArenaAssumption DEF Bounds, Bounded
<1>2. i \in PagesFor(pos[s] + 1)..PagesFor(want[s])
  BY DEF Touched
<1>3. PagesFor(pos[s] + 1) \in Nat /\ 1 <= PagesFor(pos[s] + 1)
  BY <1>1, PagesForOrder
<1>4. PagesFor(want[s]) \in Nat /\ PagesFor(want[s]) <= PagesFor(TotalTokens[req[s]]) /\ PagesFor(TotalTokens[req[s]]) \in Nat
  BY <1>1, PagesForOrder
<1> QED
  BY <1>1, <1>2, <1>3, <1>4, ArenaAssumption DEF Pages

(* The invariant of the pool is what PoolConservation says. *)
LEMMA PoolConserved == TypeOK /\ Pool => PoolConservation
<1> SUFFICES ASSUME TypeOK, Pool, NEW b \in Bundles
             PROVE  /\ ref[b] = Cardinality(Places(b))
                    /\ Cardinality({j \in 1..Len(queue) : queue[j] = b}) = IF ref[b] = 0 THEN 1 ELSE 0
  BY DEF PoolConservation, Places
<1> DEFINE J == {j \in 1..Len(queue) : queue[j] = b}
<1>1. queue \in Seq(Bundles) /\ IsInjective(queue) /\ (b \in Range(queue) <=> ref[b] = 0)
  BY Types DEF Pool
<1>2. CASE b \in Range(queue)
  <2>1. PICK j \in 1..Len(queue) : queue[j] = b
    BY <1>1, <1>2, RangeInSet
  <2>2. J = {j}
    BY <1>1, <2>1 DEF IsInjective
  <2> QED
    BY <1>1, <1>2, <2>2, FS_Singleton DEF Pool, Counted
<1>3. CASE b \notin Range(queue)
  <2>1. J = {}
    BY <1>1, <1>3 DEF Range
  <2> QED
    BY <1>1, <1>3, <2>1, FS_EmptySet DEF Pool, Counted
<1> QED
  BY <1>2, <1>3

-----------------------------------------------------------------------------
(* The pool *)

(* decref adds to the free queue the bundles that lost their last reference. *)
LEMMA DecrefFacts ==
  ASSUME NEW q \in Seq(Bundles), IsInjective(q), NEW D, D \subseteq Bundles, NEW p,
         \A b \in D : ref[b] = 1 => b \notin Range(q)
  PROVE  /\ DecrefQueue(q, D, p) \in Seq(Bundles) /\ IsInjective(DecrefQueue(q, D, p))
         /\ Range(DecrefQueue(q, D, p)) = Range(q) \cup {b \in D : ref[b] = 1}
<1> DEFINE gone == {b \in D : ref[b] = 1}
           I == {b \in gone : p[b] = {}}
           J == {b \in gone : p[b] # {}}
           a == Reverse(Ascending(I))
           c == Ascending(J)
<1>1. I \subseteq 1..NumBundles /\ J \subseteq 1..NumBundles /\ NumBundles \in Nat
  BY ArenaAssumption DEF Bundles
<1>2. I \cap J = {} /\ I \cup J = gone /\ gone \cap Range(q) = {}
  OBVIOUS
<1>3. DecrefQueue(q, D, p) = a \o q \o c
  BY DEF DecrefQueue
<1> HIDE DEF I, J
<1>4. a \in Seq(Bundles) /\ Range(a) = I /\ IsInjective(a)
  BY <1>1, AscendingSeq, ReverseFacts DEF Bundles
<1>5. c \in Seq(Bundles) /\ Range(c) = J /\ IsInjective(c)
  BY <1>1, AscendingSeq DEF Bundles
<1> HIDE DEF a, c, gone
<1>6. a \o q \in Seq(Bundles) /\ Range(a \o q) = I \cup Range(q) /\ IsInjective(a \o q)
  <2>1. Range(a) \cap Range(q) = {}
    BY <1>2, <1>4
  <2> QED
    BY <1>4, <2>1, RangeOfConcat
<1>7. /\ a \o q \o c \in Seq(Bundles) /\ Range(a \o q \o c) = I \cup Range(q) \cup J
      /\ IsInjective(a \o q \o c)
  <2> DEFINE u == a \o q
  <2>1. u \in Seq(Bundles) /\ Range(u) = I \cup Range(q) /\ IsInjective(u)
    BY <1>6
  <2> HIDE DEF u
  <2>2. Range(u) \cap Range(c) = {}
    BY <1>2, <1>5, <2>1
  <2>3. u \o c \in Seq(Bundles) /\ Range(u \o c) = Range(u) \cup Range(c) /\ IsInjective(u \o c)
    BY <1>5, <2>1, <2>2, RangeOfConcat
  <2> QED
    BY <1>5, <2>1, <2>3 DEF u
<1> QED
  BY <1>2, <1>3, <1>7 DEF gone

(* The places of a bundle, and with them its references, change one by one. *)
PlacesStep(b) ==
  \/ Places(b)' = Places(b) /\ ref'[b] = ref[b]
  \/ \E x : x \notin Places(b) /\ Places(b)' = Places(b) \cup {x} /\ ref'[b] = ref[b] + 1
  \/ \E x : x \in Places(b) /\ Places(b)' = Places(b) \ {x} /\ ref'[b] = ref[b] - 1

(* A step that adds or removes one place and one reference of a bundle      *)
(* keeps the count.                                                         *)
LEMMA CountedStep ==
  ASSUME Counted, \A b \in Bundles : PlacesStep(b)
  PROVE  Counted'
<1> SUFFICES ASSUME NEW b \in Bundles PROVE ref'[b] = Cardinality(Places(b)')
  BY DEF Counted
<1>1. ref[b] = Cardinality(Places(b)) /\ IsFiniteSet(Places(b))
  BY PlacesFinite DEF Counted
<1>2. PlacesStep(b)
  OBVIOUS
<1> QED
  BY <1>1, <1>2, FS_AddElement, FS_RemoveElement DEF PlacesStep

(* The length of the free queue is the number of bundles without a          *)
(* reference.                                                               *)
LEMMA QueueLength ==
  ASSUME NEW q \in Seq(Bundles), IsInjective(q)
  PROVE  Len(q) = Cardinality(Range(q)) /\ Len(q) \in Nat /\ IsFiniteSet(Range(q))
  BY InjectiveLength

(* Consuming a reservation. *)
LEMMA ConsumeFacts ==
  ASSUME TypeOK, NEW s \in Slots, NEW n \in Nat, res[s] = 0 \/ n <= res[s],
         res' = Consume(s, n)
  PROVE  /\ res' \in [Slots -> Nat] /\ Reserved \in Nat /\ Reserved' \in Nat
         /\ res[s] = 0 => Reserved' = Reserved
         /\ res[s] # 0 => Reserved' = Reserved - n
<1> DEFINE v == IF res[s] = 0 THEN 0 ELSE res[s] - n
<1>1. res \in [Slots -> Nat] /\ v \in Nat /\ IsFiniteSet(Slots)
  BY Types, ArenaAssumption
<1>2. res' = [res EXCEPT ![s] = v]
  BY <1>1 DEF Consume
<1> HIDE DEF v
<1>3. /\ Total([res EXCEPT ![s] = v], Slots) + res[s] = Total(res, Slots) + v
      /\ Total([res EXCEPT ![s] = v], Slots) \in Nat /\ Total(res, Slots) \in Nat
  BY <1>1, TotalExcept
<1>4. Reserved = Total(res, Slots) /\ Reserved' = Total([res EXCEPT ![s] = v], Slots)
  BY <1>2 DEF Reserved
<1>5. Reserved' + res[s] = Reserved + v /\ Reserved \in Nat /\ Reserved' \in Nat
  BY <1>3, <1>4
<1>6. res' \in [Slots -> Nat]
  BY <1>1, <1>2
<1>7. res[s] \in Nat
  BY <1>1
<1> QED
  BY <1>5, <1>6, <1>7 DEF v

-----------------------------------------------------------------------------
(* One page is prepared *)

(* The pages of the new row that differ from the old one, what the bundle   *)
(* of a page held, and the copies made when the last page is done.          *)
Renewed(s) == {j \in Pages : own'[s][j] # row[s][j]}

OldBytes(s, j) == IF row[s][j] = 0 THEN <<>> ELSE bytes[row[s][j]]

PagesCopied(s) ==
  bytes' = [b \in Bundles |->
              IF \E j \in Renewed(s) : own'[s][j] = b
                THEN OldBytes(s, CHOOSE j \in Renewed(s) : own'[s][j] = b) ELSE bytes[b]]

(* What PreparePage does to page i of slot s with the fresh bundle f. *)
PageStep(s, i, f) ==
  /\ Live(s) /\ want[s] # 0 /\ phase[s] \notin {"idle", "reserved"} /\ req[s] \in Requests
  /\ i \in Touched(s) /\ ~ Private(s, i)
  /\ queue # <<>> /\ f = Head(queue) /\ f \in Range(queue) /\ ref[f] = 0
  /\ res[s] # 0 \/ Len(queue) > Reserved + Watermark
  /\ queue' = IF own[s][i] # 0 /\ ref[own[s][i]] = 1
                THEN DecrefQueue(Tail(queue), {own[s][i]}, pub) ELSE Tail(queue)
  /\ ref' = [b \in Bundles |-> IF b = f THEN 1 ELSE IF b = own[s][i] THEN ref[b] - 1 ELSE ref[b]]
  /\ pub' = [pub EXCEPT ![f] = {}]
  /\ entries' = IF pub[f] = {} THEN entries ELSE EntriesWithout(f)
  /\ own' = [own EXCEPT ![s][i] = f]
  /\ row' = IF \A j \in Touched(s) \ {i} : Private(s, j) THEN [row EXCEPT ![s] = own'[s]] ELSE row
  /\ IF \A j \in Touched(s) \ {i} : Private(s, j) THEN PagesCopied(s) ELSE bytes' = bytes
  /\ bytes' \in [Bundles -> Seq(Nat)]
  /\ res' = Consume(s, 1)
  /\ UNCHANGED <<len, pos, ckpt, cached, req, phase, want>>

(* PreparePage prepares one page. *)
LEMMA PreparePageSteps ==
  ASSUME Inv, NEW s \in Slots, PreparePage(s)
  PROVE  \E i \in Pages : \E f \in Bundles : PageStep(s, i, f)
<1> DEFINE f == Head(queue)
           old(i) == own[s][i]
           freed(i) == old(i) # 0 /\ ref[old(i)] = 1
           last(i) == \A j \in Touched(s) \ {i} : Private(s, j)
           new   == {j \in Pages : own'[s][j] # row[s][j]}
           src(j) == IF row[s][j] = 0 THEN <<>> ELSE bytes[row[s][j]]
<1>1. PICK i \in Pages :
        /\ NextPage(s, i)
        /\ queue' = IF freed(i) THEN DecrefQueue(Tail(queue), {old(i)}, pub) ELSE Tail(queue)
        /\ ref' = [b \in Bundles |-> IF b = f THEN 1 ELSE IF b = old(i) THEN ref[b] - 1 ELSE ref[b]]
        /\ pub' = DropHash(f)
        /\ entries' = IF pub[f] = {} THEN entries ELSE EntriesWithout(f)
        /\ own' = [own EXCEPT ![s][i] = f]
        /\ IF last(i)
             THEN /\ row' = [row EXCEPT ![s] = own'[s]]
                  /\ bytes' = [b \in Bundles |->
                       IF \E j \in new : own'[s][j] = b
                         THEN src(CHOOSE j \in new : own'[s][j] = b) ELSE bytes[b]]
             ELSE UNCHANGED <<row, bytes>>
        /\ res' = Consume(s, 1)
  BY DEF PreparePage
<1>2. /\ phase[s] # "failed" /\ MayAllocate(s, Len(queue))
      /\ UNCHANGED <<len, pos, ckpt, cached, req, phase, want>>
  BY DEF PreparePage
<1>3. TypeOK /\ Pool /\ Calls
  BY DEF Inv
<1>4. i \in Touched(s) /\ ~ Private(s, i) /\ want[s] # 0
  BY <1>1 DEF NextPage, Touched
<1>5. phase[s] \notin {"idle", "reserved"} /\ req[s] \in Requests
  BY <1>3, <1>4, Types DEF Calls
<1>6. queue # <<>> /\ f \in Range(queue) /\ f \in Bundles /\ ref[f] = 0
  <2>1. queue \in Seq(Bundles) /\ IsInjective(queue) /\ queue # <<>>
    BY <1>2, <1>3, Types DEF MayAllocate, Pool
  <2>2. f \in Range(queue) /\ f \in Bundles
    BY <2>1, HeadTail, RangeInSet
  <2> QED
    BY <1>3, <2>1, <2>2 DEF Pool
<1>7. res[s] # 0 \/ Len(queue) > Reserved + Watermark
  <2>1. res[s] \in Nat /\ Len(queue) \in Nat /\ Watermark \in Nat /\ Reserved \in Nat
    <3>1. res \in [Slots -> Nat] /\ queue \in Seq(Bundles)
      BY <1>3, Types
    <3> QED
      BY <3>1, TotalIsNat, ArenaAssumption DEF Reserved
  <2> QED
    BY <1>2, <2>1 DEF MayAllocate, Unreserved
<1>8. bytes' \in [Bundles -> Seq(Nat)]
  <2>1. CASE last(i)
    <3>1. bytes' = [b \in Bundles |->
                       IF \E j \in new : own'[s][j] = b
                         THEN src(CHOOSE j \in new : own'[s][j] = b) ELSE bytes[b]]
      BY <1>1, <2>1
    <3>2. \A j \in Pages : src(j) \in Seq(Nat)
      BY <1>3, Types
    <3>3. \A j \in new : j \in Pages
      OBVIOUS
    <3>4. \A b \in Bundles : bytes[b] \in Seq(Nat)
      BY <1>3, Types
    <3> HIDE DEF src, new
    <3>5. ASSUME NEW b \in Bundles, \E j \in new : own'[s][j] = b
          PROVE  src(CHOOSE j \in new : own'[s][j] = b) \in Seq(Nat)
      <4>1. (CHOOSE j \in new : own'[s][j] = b) \in new
        BY <3>5
      <4> QED
        BY <3>2, <3>3, <4>1
    <3> QED
      BY <3>1, <3>4, <3>5
  <2>2. CASE ~ last(i)
    BY <1>1, <1>3, <2>2, Types
  <2> QED
    BY <2>1, <2>2
<1>9. row' = IF last(i) THEN [row EXCEPT ![s] = own'[s]] ELSE row
  BY <1>1
<1>11. IF last(i) THEN PagesCopied(s) ELSE bytes' = bytes
  BY <1>1 DEF PagesCopied, Renewed, OldBytes
<1>10. PageStep(s, i, f)
  <2> HIDE DEF f
  <2> QED
    BY <1>1, <1>2, <1>4, <1>5, <1>6, <1>7, <1>8, <1>9, <1>11 DEF PageStep, Live, DropHash, f
<1> QED
  BY <1>6, <1>10

(* While a page is prepared, everybody is live, the other slots are settled *)
(* and nobody owns the fresh bundle.                                        *)
LEMMA PageFacts ==
  ASSUME Inv, NEW s \in Slots, NEW i \in Pages, NEW f \in Bundles, PageStep(s, i, f)
  PROVE  /\ \A t \in Slots : Live(t)
         /\ \A t \in Slots \ {s} : AllPrivate(t) /\ own[t] = row[t]
         /\ \A t \in Slots : \A j \in Pages : own[t][j] # f
         /\ \A t \in Slots : \A j \in Pages :
              own'[t][j] = IF t = s /\ j = i THEN f ELSE own[t][j]
         /\ \A t \in Slots \ {s} : own'[t] = own[t] /\ row'[t] = row[t]
         /\ own' \in [Slots -> [Pages -> Bundles \cup {0}]]
         /\ row' \in [Slots -> [Pages -> Bundles \cup {0}]]
<1>1. TypeOK /\ Counted /\ Calls /\ Settled
  BY DEF Inv, Pool
<1>2. Live(s) /\ want[s] # 0 /\ i \in Touched(s) /\ ~ Private(s, i) /\ ref[f] = 0
  BY DEF PageStep
<1>3. \A t \in Slots : Live(t)
  BY <1>1, <1>2 DEF Calls
<1>4. \A t \in Slots \ {s} : AllPrivate(t)
  <2>1. ~ AllPrivate(s)
    BY <1>2 DEF AllPrivate
  <2> QED
    BY <1>1, <1>3, <2>1 DEF Calls
<1>5. \A t \in Slots \ {s} : own[t] = row[t]
  BY <1>1, <1>3, <1>4 DEF Settled
<1>6. \A t \in Slots : \A j \in Pages : own[t][j] # f
  <2>1. Referenced
    BY <1>1, CountedReferenced
  <2>2. f # 0
    BY DEF Bundles
  <2> QED
    BY <1>2, <2>1, <2>2 DEF Referenced
<1>7. own \in [Slots -> [Pages -> Bundles \cup {0}]] /\ row \in [Slots -> [Pages -> Bundles \cup {0}]]
  BY <1>1, Types
<1>8. own' = [own EXCEPT ![s][i] = f] /\ (row' = [row EXCEPT ![s] = own'[s]] \/ row' = row)
  BY DEF PageStep
<1>9. /\ \A t \in Slots : \A j \in Pages : own'[t][j] = IF t = s /\ j = i THEN f ELSE own[t][j]
      /\ own' \in [Slots -> [Pages -> Bundles \cup {0}]]
      /\ \A t \in Slots \ {s} : own'[t] = own[t]
  BY <1>7, <1>8
<1>10. row' \in [Slots -> [Pages -> Bundles \cup {0}]] /\ \A t \in Slots \ {s} : row'[t] = row[t]
  BY <1>7, <1>8, <1>9
<1> QED
  BY <1>3, <1>4, <1>5, <1>6, <1>9, <1>10

(* The places of the bundles after a page was prepared. *)
LEMMA PageCounted ==
  ASSUME Inv, NEW s \in Slots, NEW i \in Pages, NEW f \in Bundles, PageStep(s, i, f)
  PROVE  Counted'
<1>1. TypeOK /\ Counted
  BY DEF Inv, Pool
<1>2. /\ \A t \in Slots : \A j \in Pages : own[t][j] # f
      /\ \A t \in Slots : \A j \in Pages : own'[t][j] = IF t = s /\ j = i THEN f ELSE own[t][j]
  BY PageFacts
<1>3. ref' = [b \in Bundles |-> IF b = f THEN 1 ELSE IF b = own[s][i] THEN ref[b] - 1 ELSE ref[b]]
      /\ ref[f] = 0
  BY DEF PageStep
<1>4. ASSUME NEW b \in Bundles PROVE PlacesStep(b)
  <2>1. ASSUME NEW t \in Slots, NEW j \in Pages
        PROVE  <<t, j>> \in Places(b)' <=> (IF t = s /\ j = i THEN f ELSE own[t][j]) = b
    BY <1>2 DEF Places
  <2>2. ASSUME NEW t \in Slots, NEW j \in Pages
        PROVE  <<t, j>> \in Places(b) <=> own[t][j] = b
    BY PlaceOf
  <2>3. Places(b) \subseteq Slots \X Pages /\ Places(b)' \subseteq Slots \X Pages
    BY DEF Places
  <2>4. CASE b = f
    <3>1. <<s, i>> \notin Places(b)
      BY <1>2, <2>2, <2>4
    <3>2. Places(b)' = Places(b) \cup {<<s, i>>}
      BY <1>2, <2>1, <2>2, <2>3, <2>4
    <3>3. ref'[b] = ref[b] + 1
      BY <1>3, <2>4
    <3> QED
      BY <3>1, <3>2, <3>3 DEF PlacesStep
  <2>5. CASE b # f /\ b = own[s][i]
    <3>1. <<s, i>> \in Places(b)
      BY <2>2, <2>5
    <3>2. Places(b)' = Places(b) \ {<<s, i>>}
      BY <1>2, <2>1, <2>2, <2>3, <2>5
    <3>3. ref'[b] = ref[b] - 1
      BY <1>3, <2>5
    <3> QED
      BY <3>1, <3>2, <3>3 DEF PlacesStep
  <2>6. CASE b # f /\ b # own[s][i]
    <3>1. Places(b)' = Places(b)
      BY <1>2, <2>1, <2>2, <2>3, <2>6
    <3>2. ref'[b] = ref[b]
      BY <1>3, <2>6
    <3> QED
      BY <3>1, <3>2 DEF PlacesStep
  <2> QED
    BY <2>4, <2>5, <2>6
<1> QED
  BY <1>1, <1>4, CountedStep

(* The free queue loses the fresh bundle and may gain the replaced one. *)
LEMMA PageQueue ==
  ASSUME Inv, NEW s \in Slots, NEW i \in Pages, NEW f \in Bundles, PageStep(s, i, f)
  PROVE  /\ queue' \in Seq(Bundles) /\ IsInjective(queue') /\ ref' \in [Bundles -> Nat]
         /\ \A b \in Bundles : b \in Range(queue') <=> ref'[b] = 0
         /\ Range(queue) \ {f} \subseteq Range(queue')
<1>1. TypeOK /\ Pool /\ Referenced
  BY CountedReferenced DEF Inv, Pool
<1>2. /\ queue \in Seq(Bundles) /\ IsInjective(queue) /\ ref \in [Bundles -> Nat]
      /\ own[s][i] \in Bundles \cup {0} /\ own[s][i] # f
      /\ \A b \in Bundles : b \in Range(queue) <=> ref[b] = 0
      /\ own[s][i] # 0 => ref[own[s][i]] >= 1
  BY <1>1, Types, PageFacts DEF Pool, Referenced
<1>3. /\ queue # <<>> /\ f = Head(queue) /\ ref[f] = 0
      /\ queue' = IF own[s][i] # 0 /\ ref[own[s][i]] = 1
                    THEN DecrefQueue(Tail(queue), {own[s][i]}, pub) ELSE Tail(queue)
      /\ ref' = [b \in Bundles |-> IF b = f THEN 1 ELSE IF b = own[s][i] THEN ref[b] - 1 ELSE ref[b]]
  BY DEF PageStep
<1> DEFINE q == Tail(queue)
           o == own[s][i]
<1>4. q \in Seq(Bundles) /\ IsInjective(q) /\ Range(q) = Range(queue) \ {f}
  BY <1>2, <1>3, HeadTail
<1>5. ref' \in [Bundles -> Nat]
  <2>1. \A b \in Bundles : b # 0 /\ ref[b] \in Nat
    BY <1>2 DEF Bundles
  <2>2. \A b \in Bundles : (IF b = f THEN 1 ELSE IF b = own[s][i] THEN ref[b] - 1 ELSE ref[b]) \in Nat
    BY <1>2, <2>1
  <2> QED
    BY <1>3, <2>2
<1>8. \A b \in Bundles : /\ b # 0 /\ ref[b] \in Nat
                         /\ ref'[b] = IF b = f THEN 1 ELSE IF b = o THEN ref[b] - 1 ELSE ref[b]
  BY <1>2, <1>3 DEF Bundles
<1> HIDE DEF q
<1>6. CASE o # 0 /\ ref[o] = 1
  <2>1. o \in Bundles /\ o \notin Range(q)
    BY <1>2, <1>4, <1>6
  <2>2. queue' = DecrefQueue(q, {o}, pub)
    BY <1>3, <1>6 DEF q
  <2> HIDE DEF o
  <2> DEFINE D == {o}
  <2>6. D \subseteq Bundles /\ \A b \in D : ref[b] = 1 => b \notin Range(q)
    BY <2>1
  <2> HIDE DEF D
  <2>7. /\ DecrefQueue(q, D, pub) \in Seq(Bundles) /\ IsInjective(DecrefQueue(q, D, pub))
        /\ Range(DecrefQueue(q, D, pub)) = Range(q) \cup {b \in D : ref[b] = 1}
    BY <1>4, <2>6, DecrefFacts
  <2>3. /\ DecrefQueue(q, {o}, pub) \in Seq(Bundles) /\ IsInjective(DecrefQueue(q, {o}, pub))
        /\ Range(DecrefQueue(q, {o}, pub)) = Range(q) \cup {b \in {o} : ref[b] = 1}
    BY <2>7 DEF D
  <2>4. queue' \in Seq(Bundles) /\ IsInjective(queue') /\ Range(queue') = (Range(queue) \ {f}) \cup {o}
    BY <1>4, <1>6, <2>2, <2>3
  <2>5. \A b \in Bundles : b \in Range(queue') <=> ref'[b] = 0
    <3> SUFFICES ASSUME NEW b \in Bundles PROVE b \in Range(queue') <=> ref'[b] = 0
      OBVIOUS
    <3>1. (b \in Range(queue) <=> ref[b] = 0) /\ ref[f] = 0
      BY <1>2, <1>3
    <3> QED
      BY <1>6, <1>8, <2>4, <3>1
  <2> QED
    BY <1>5, <2>4, <2>5
<1>7. CASE ~ (o # 0 /\ ref[o] = 1)
  <2>1. queue' = q
    BY <1>3, <1>7 DEF q
  <2>2. \A b \in Bundles : b \in Range(queue') <=> ref'[b] = 0
    <3> SUFFICES ASSUME NEW b \in Bundles PROVE b \in Range(queue') <=> ref'[b] = 0
      OBVIOUS
    <3>1. (b \in Range(queue) <=> ref[b] = 0) /\ (o # 0 => ref[o] >= 1)
      BY <1>2
    <3>2. o # 0 => ref[o] \in Nat /\ ref[o] # 1
      BY <1>2, <1>7
    <3> HIDE DEF o
    <3>3. b \in Range(queue') <=> b \in Range(queue) /\ b # f
      BY <1>4, <2>1
    <3> QED
      BY <1>8, <3>1, <3>2, <3>3
  <2> QED
    BY <1>4, <1>5, <2>1, <2>2
<1> QED
  BY <1>6, <1>7

(* Every touched page is a page of the row. *)
LEMMA TouchedInPages ==
  ASSUME Inv, NEW s \in Slots
  PROVE  Touched(s) \subseteq Pages
<1>1. TypeOK /\ Bounds /\ Calls
  BY DEF Inv
<1>2. CASE want[s] = 0
  BY <1>2 DEF Touched
<1>3. CASE want[s] # 0
  <2>1. phase[s] # "idle" /\ req[s] # NoReq
    BY <1>1, <1>3 DEF Calls
  <2> QED
    BY <1>1, <2>1, TouchedPages
<1> QED
  BY <1>2, <1>3

(* Preparing a page leaves the other pages as private as they were. *)
LEMMA PagePrivate ==
  ASSUME Inv, NEW s \in Slots, NEW i \in Pages, NEW f \in Bundles, PageStep(s, i, f)
  PROVE  /\ \A t \in Slots : \A j \in Pages :
              Private(t, j) /\ ~ (t = s /\ j = i) => Private(t, j)'
         /\ \A j \in Pages : j # i /\ Private(s, j)' => Private(s, j)
         /\ Private(s, i)'
<1>1. TypeOK /\ Pool /\ Numbered /\ Referenced
  BY CountedReferenced DEF Inv, Pool
<1>2. /\ \A t \in Slots : \A j \in Pages : own[t][j] # f
      /\ \A t \in Slots : \A j \in Pages : own'[t][j] = IF t = s /\ j = i THEN f ELSE own[t][j]
  BY PageFacts
<1>3. /\ ref' = [b \in Bundles |-> IF b = f THEN 1 ELSE IF b = own[s][i] THEN ref[b] - 1 ELSE ref[b]]
      /\ pub' = [pub EXCEPT ![f] = {}] /\ ~ Private(s, i)
  BY DEF PageStep
<1>4. \A t \in Slots : \A j \in Pages : own[t][j] \in Bundles \cup {0}
  BY <1>1, Types
<1>5. pub \in [Bundles -> SUBSET Seq(Nat)] /\ f # 0
  BY <1>1, Types DEF Bundles
<1>6. \A b \in Bundles : b # f /\ b # own[s][i] => ref'[b] = ref[b] /\ pub'[b] = pub[b]
  BY <1>3, <1>5
<1>7. ASSUME NEW t \in Slots, NEW j \in Pages, Private(t, j), ~ (t = s /\ j = i)
      PROVE  Private(t, j)'
  <2>1. own[t][j] # 0 /\ ref[own[t][j]] = 1 /\ pub[own[t][j]] = {} /\ own[t][j] \in Bundles
    BY <1>4, <1>7 DEF Private
  <2>2. own[t][j] # f /\ own[t][j] # own[s][i]
    BY <1>1, <1>2, <1>7, <2>1 DEF Referenced
  <2>3. own'[t][j] = own[t][j]
    BY <1>2, <1>7
  <2> QED
    BY <1>6, <2>1, <2>2, <2>3 DEF Private
<1>8. ASSUME NEW j \in Pages, j # i, Private(s, j)' PROVE Private(s, j)
  <2>1. own'[s][j] = own[s][j] /\ own[s][j] # f /\ own[s][j] # 0 /\ own[s][j] \in Bundles
    BY <1>2, <1>4, <1>8 DEF Private
  <2>2. own[s][j] # own[s][i]
    BY <1>1, <1>8, <2>1 DEF Numbered
  <2> QED
    BY <1>6, <1>8, <2>1, <2>2 DEF Private
<1>9. Private(s, i)'
  <2>1. own'[s][i] = f
    BY <1>2
  <2>2. ref'[f] = 1 /\ pub'[f] = {}
    BY <1>3, <1>5
  <2> QED
    BY <1>5, <2>1, <2>2 DEF Private
<1> QED
  BY <1>7, <1>8, <1>9

(* The batch is still prepared slot by slot. *)
LEMMA PageCalls ==
  ASSUME Inv, NEW s \in Slots, NEW i \in Pages, NEW f \in Bundles, PageStep(s, i, f)
  PROVE  Calls'
<1>1. Calls /\ UNCHANGED <<len, pos, req, phase, want>> /\ phase[s] \notin {"idle", "reserved"}
  BY DEF Inv, PageStep
<1>2. \A t \in Slots \ {s} : AllPrivate(t) /\ row'[t] = row[t]
  BY PageFacts
<1>3. ASSUME NEW t \in Slots \ {s} PROVE AllPrivate(t)'
  <2>1. Touched(t)' = Touched(t) /\ Touched(t) \subseteq Pages
    BY <1>1, TouchedInPages DEF Touched
  <2>2. ASSUME NEW j \in Touched(t) PROVE Private(t, j)'
    <3>1. Private(t, j) /\ j \in Pages
      BY <1>2, <2>1 DEF AllPrivate
    <3> QED
      BY <3>1, PagePrivate
  <2> QED
    BY <2>1, <2>2 DEF AllPrivate
<1>4. \A t \in Slots : Live(t)' <=> Live(t)
  BY <1>1 DEF Live
<1>5. \A t, u \in Slots : t # u /\ Live(t)' /\ Live(u)' => AllPrivate(t)' \/ AllPrivate(u)'
  BY <1>3
<1>6. \A t \in Slots : phase'[t] \in {"idle", "reserved"} =>
        want'[t] = 0 /\ row'[t] = [j \in Pages |-> 0] /\ len'[t] = 0 /\ pos'[t] = 0
  BY <1>1, <1>2 DEF Calls
<1>7. /\ \A t \in Slots : phase'[t] = "reserved" => \A u \in Slots : Live(u)' /\ want'[u] = 0
      /\ \A t, u \in Slots : ~ Live(t)' /\ Live(u)' => want'[u] = 0
      /\ \A t, u \in Slots : Live(t)' /\ Live(u)' /\ want'[t] # 0 /\ want'[u] # 0 => phase'[t] = phase'[u]
      /\ \A t \in Slots : phase'[t] = "idle" <=> req'[t] = NoReq
  BY <1>1, <1>4 DEF Calls
<1> QED
  BY <1>5, <1>6, <1>7 DEF Calls

(* Only the slot at work owns pages that are not in its row. *)
LEMMA PageSettled ==
  ASSUME Inv, NEW s \in Slots, NEW i \in Pages, NEW f \in Bundles, PageStep(s, i, f)
  PROVE  Settled'
<1>1. Settled /\ TypeOK
  BY DEF Inv
<1>2. /\ \A t \in Slots \ {s} : own[t] = row[t] /\ own'[t] = own[t] /\ row'[t] = row[t]
      /\ own' \in [Slots -> [Pages -> Bundles \cup {0}]]
      /\ \A j \in Pages : own'[s][j] = IF j = i THEN f ELSE own[s][j]
  BY PageFacts
<1>3. /\ row' = IF \A j \in Touched(s) \ {i} : Private(s, j) THEN [row EXCEPT ![s] = own'[s]] ELSE row
      /\ i \in Touched(s)
  BY DEF PageStep
<1>4. Touched(s)' = Touched(s) /\ Touched(s) \subseteq Pages
  BY TouchedInPages DEF Touched, PageStep
<1>5. AllPrivate(s)' => own'[s] = row'[s]
  <2>1. SUFFICES ASSUME AllPrivate(s)' PROVE own'[s] = row'[s]
    OBVIOUS
  <2>2. \A j \in Touched(s) \ {i} : Private(s, j)
    BY <1>4, <2>1, PagePrivate DEF AllPrivate
  <2>3. row \in [Slots -> [Pages -> Bundles \cup {0}]]
    BY <1>1, Types
  <2> QED
    BY <1>3, <2>2, <2>3
<1>6. ASSUME NEW j \in Pages, own'[s][j] # row'[s][j] PROVE Private(s, j)'
  <2>1. row' = row
    <3>1. row \in [Slots -> [Pages -> Bundles \cup {0}]]
      BY <1>1, Types
    <3> QED
      BY <1>3, <1>6, <3>1
  <2>2. CASE j = i
    BY <2>2, PagePrivate
  <2>3. CASE j # i
    <3>1. own[s][j] # row[s][j]
      BY <1>2, <1>6, <2>1, <2>3
    <3>2. Private(s, j)
      BY <1>1, <3>1 DEF Settled
    <3> QED
      BY <2>3, <3>2, PagePrivate
  <2> QED
    BY <2>2, <2>3
<1>7. \A t \in Slots : Live(t)' /\ AllPrivate(t)' => own'[t] = row'[t]
  BY <1>2, <1>5
<1>8. \A t, u \in Slots : own'[t] # row'[t] /\ own'[u] # row'[u] => t = u
  BY <1>2
<1>9. \A t \in Slots : \A j \in Pages : own'[t][j] # row'[t][j] => Private(t, j)'
  BY <1>2, <1>6
<1> QED
  BY <1>7, <1>8, <1>9 DEF Settled

(* Handing out a bundle drops its hashes, and the entries that name it. *)
LEMMA EntriesAfterDrop ==
  ASSUME TypeOK, EntriesNumbered, NEW f \in Bundles, pub' = [pub EXCEPT ![f] = {}],
         entries' = IF pub[f] = {} THEN entries ELSE EntriesWithout(f)
  PROVE  EntriesNumbered' /\ entries' \subseteq entries
<1>1. entries' \subseteq entries
  BY DEF EntriesWithout
<1>2. pub \in [Bundles -> SUBSET Seq(Nat)] /\ entries \subseteq [tokens : Seq(Nat), bundles : Seq(Bundles)]
  BY Types
<1>3. ASSUME NEW e \in entries', NEW i \in 1..Len(e.bundles) PROVE ServesPage(e.bundles[i], i)'
  <2>1. e \in entries /\ e.bundles \in Seq(Bundles) /\ e.bundles[i] \in Bundles
    BY <1>1, <1>2
  <2>2. ServesPage(e.bundles[i], i)
    BY <2>1 DEF EntriesNumbered
  <2>3. e.bundles[i] # f
    <3>1. CASE pub[f] = {}
      BY <2>2, <3>1 DEF ServesPage
    <3>2. CASE pub[f] # {}
      <4>1. f \notin Range(e.bundles)
        BY <3>2 DEF EntriesWithout
      <4>2. e.bundles[i] \in Range(e.bundles)
        BY <2>1, RangeInSet
      <4> QED
        BY <4>1, <4>2
    <3> QED
      BY <3>1, <3>2
  <2>4. pub'[e.bundles[i]] = pub[e.bundles[i]]
    BY <1>2, <2>1, <2>3
  <2> QED
    BY <2>2, <2>4 DEF ServesPage
<1>4. \A e \in entries' : Len(e.bundles) = PagesFor(Len(e.tokens))
  BY <1>1 DEF EntriesNumbered
<1> QED
  BY <1>1, <1>3, <1>4 DEF EntriesNumbered

(* The fresh bundle served no page any more when it was handed out. *)
LEMMA PageNumbered ==
  ASSUME Inv, NEW s \in Slots, NEW i \in Pages, NEW f \in Bundles, PageStep(s, i, f)
  PROVE  Numbered' /\ EntriesNumbered'
<1>1. TypeOK /\ Settled /\ Numbered /\ EntriesNumbered
  BY DEF Inv
<1>2. /\ \A t \in Slots \ {s} : own[t] = row[t] /\ own'[t] = own[t] /\ row'[t] = row[t]
      /\ \A t \in Slots : \A j \in Pages : own[t][j] # f
      /\ \A t \in Slots : \A j \in Pages : own'[t][j] = IF t = s /\ j = i THEN f ELSE own[t][j]
      /\ own' \in [Slots -> [Pages -> Bundles \cup {0}]]
  BY PageFacts
<1>3. /\ row' = IF \A j \in Touched(s) \ {i} : Private(s, j) THEN [row EXCEPT ![s] = own'[s]] ELSE row
      /\ pub' = [pub EXCEPT ![f] = {}]
      /\ entries' = IF pub[f] = {} THEN entries ELSE EntriesWithout(f)
  BY DEF PageStep
<1>4. pub \in [Bundles -> SUBSET Seq(Nat)] /\ row \in [Slots -> [Pages -> Bundles \cup {0}]]
  BY <1>1, Types
<1>5. \A t, u \in Slots : \A j, k \in Pages : own'[t][j] # 0 /\ own'[t][j] = own'[u][k] => j = k
  <2> SUFFICES ASSUME NEW t \in Slots, NEW u \in Slots, NEW j \in Pages, NEW k \in Pages,
                      own'[t][j] # 0, own'[t][j] = own'[u][k]
               PROVE  j = k
    OBVIOUS
  <2>1. CASE own'[t][j] = f
    <3>1. own[t][j] # f /\ own[u][k] # f /\ own'[u][k] = f
      BY <1>2, <2>1
    <3>2. j = i
      BY <1>2, <2>1, <3>1
    <3>3. k = i
      BY <1>2, <3>1
    <3> QED
      BY <3>2, <3>3
  <2>2. CASE own'[t][j] # f
    <3>1. own[t][j] # 0 /\ own[t][j] = own[u][k]
      BY <1>2, <2>2
    <3> QED
      BY <1>1, <3>1 DEF Numbered
  <2> QED
    BY <2>1, <2>2
<1>6. \A b \in Bundles : pub'[b] = IF b = f THEN {} ELSE pub[b]
  BY <1>3, <1>4
<1>7. \A b \in Bundles : \A k, l \in pub'[b] : PagesFor(Len(k)) = PagesFor(Len(l))
  BY <1>1, <1>6 DEF Numbered
<1>8. ASSUME NEW t \in Slots, NEW j \in Pages, own'[t][j] # 0, NEW k \in pub'[own'[t][j]]
      PROVE  PagesFor(Len(k)) = j
  <2>1. own'[t][j] # f /\ own'[t][j] = own[t][j] /\ k \in pub[own[t][j]]
    <3>1. own'[t][j] \in Bundles
      BY <1>2, <1>8
    <3> QED
      BY <1>2, <1>6, <1>8, <3>1
  <2>2. own[t][j] = row[t][j]
    <3>1. CASE own[t][j] # row[t][j]
      <4>1. pub[own[t][j]] = {}
        BY <1>1, <3>1 DEF Settled, Private
      <4> QED
        BY <2>1, <4>1
    <3> QED
      BY <3>1
  <2> QED
    BY <1>1, <1>8, <2>1, <2>2 DEF Numbered
<1>9. CASE row' = row
  <2>1. ASSUME NEW t \in Slots, NEW j \in Pages, row[t][j] # 0, NEW k \in pub'[row[t][j]]
        PROVE  PagesFor(Len(k)) = j
    <3>1. row[t][j] \in Bundles
      BY <1>4, <2>1
    <3>2. k \in pub[row[t][j]]
      BY <1>6, <2>1, <3>1
    <3> QED
      BY <1>1, <2>1, <3>2 DEF Numbered
  <2>2. \A t, u \in Slots : \A j, k \in Pages : row'[t][j] # 0 /\ row'[t][j] = row'[u][k] => j = k
    BY <1>1, <1>9 DEF Numbered
  <2>3. \A t \in Slots : \A j \in Pages : row'[t][j] # 0 => \A k \in pub'[row'[t][j]] : PagesFor(Len(k)) = j
    BY <1>9, <2>1
  <2>4. Numbered'
    BY <1>5, <1>7, <2>2, <2>3 DEF Numbered
  <2> QED
    BY <1>1, <1>3, <2>4, EntriesAfterDrop
<1>10. CASE row' = [row EXCEPT ![s] = own'[s]]
  <2>1. \A t \in Slots : row'[t] = own'[t]
    BY <1>2, <1>4, <1>10
  <2>2. \A t, u \in Slots : \A j, k \in Pages : row'[t][j] # 0 /\ row'[t][j] = row'[u][k] => j = k
    BY <1>5, <2>1
  <2>3. \A t \in Slots : \A j \in Pages : row'[t][j] # 0 => \A k \in pub'[row'[t][j]] : PagesFor(Len(k)) = j
    BY <1>8, <2>1
  <2>4. Numbered'
    BY <1>5, <1>7, <2>2, <2>3 DEF Numbered
  <2> QED
    BY <1>1, <1>3, <2>4, EntriesAfterDrop
<1> QED
  BY <1>3, <1>9, <1>10

(* The page comes out of the slot's own reservation, or out of what nobody  *)
(* reserved.                                                                *)
LEMMA PagePromises ==
  ASSUME Inv, NEW s \in Slots, NEW i \in Pages, NEW f \in Bundles, PageStep(s, i, f)
  PROVE  PromisesCovered' /\ res' \in [Slots -> Nat]
<1>1. TypeOK /\ Pool /\ Reserved <= Len(queue) /\ queue \in Seq(Bundles) /\ res \in [Slots -> Nat]
  BY Types DEF Inv, PromisesCovered
<1>2. /\ res' = Consume(s, 1) /\ f \in Range(queue)
      /\ res[s] # 0 \/ Len(queue) > Reserved + Watermark
  BY DEF PageStep
<1>3. res[s] = 0 \/ 1 <= res[s]
  BY <1>1
<1>4. /\ res' \in [Slots -> Nat] /\ Reserved \in Nat /\ Reserved' \in Nat
      /\ res[s] = 0 => Reserved' = Reserved
      /\ res[s] # 0 => Reserved' = Reserved - 1
  BY <1>1, <1>2, <1>3, ConsumeFacts
<1>5. Len(queue') >= Len(queue) - 1 /\ Len(queue) \in Nat /\ Len(queue') \in Nat
  <2>1. /\ Len(queue) = Cardinality(Range(queue)) /\ IsFiniteSet(Range(queue)) /\ Len(queue) \in Nat
    BY <1>1, QueueLength DEF Pool
  <2>2. queue' \in Seq(Bundles) /\ IsInjective(queue') /\ Range(queue) \ {f} \subseteq Range(queue')
    BY PageQueue
  <2>3. Len(queue') = Cardinality(Range(queue')) /\ IsFiniteSet(Range(queue')) /\ Len(queue') \in Nat
    BY <2>2, QueueLength
  <2>4. Cardinality(Range(queue) \ {f}) = Cardinality(Range(queue)) - 1
    BY <1>2, <2>1, FS_RemoveElement
  <2>5. Cardinality(Range(queue) \ {f}) <= Cardinality(Range(queue'))
    BY <2>2, <2>3, FS_Subset
  <2> QED
    BY <2>1, <2>3, <2>4, <2>5
<1>6. Watermark \in Nat
  BY ArenaAssumption
<1>7. Reserved' <= Len(queue')
  BY <1>1, <1>2, <1>4, <1>5, <1>6
<1> QED
  BY <1>4, <1>7 DEF PromisesCovered

(* A slot's written pages are pages of its row. *)
LEMMA WrittenPages ==
  ASSUME Inv, NEW s \in Slots
  PROVE  1..PagesFor(pos[s]) \subseteq Pages
<1>1. TypeOK /\ Bounds /\ Calls /\ pos[s] \in Nat
  BY Types DEF Inv
<1>2. CASE phase[s] = "idle"
  <2>1. pos[s] = 0
    BY <1>1, <1>2 DEF Calls
  <2> QED
    BY <2>1, PagesForNone
<1>3. CASE phase[s] # "idle"
  <2> DEFINE r == req[s]
  <2>1. r \in Requests /\ pos[s] <= Len(Tokens[r])
    BY <1>1, <1>3, Types DEF Calls, Bounds, Bounded
  <2>2. /\ TotalTokens[r] \in Nat /\ Len(Tokens[r]) \in Nat /\ Len(Tokens[r]) <= TotalTokens[r]
        /\ PagesFor(TotalTokens[r]) <= MaxPages /\ MaxPages \in Nat
    BY <2>1, ArenaAssumption
  <2>3. pos[s] <= TotalTokens[r]
    BY <1>1, <2>1, <2>2
  <2>4. PagesFor(pos[s]) <= PagesFor(TotalTokens[r]) /\ PagesFor(pos[s]) \in Nat /\ PagesFor(TotalTokens[r]) \in Nat
    BY <1>1, <2>2, <2>3, PagesForOrder
  <2> QED
    BY <2>2, <2>4 DEF Pages
<1> QED
  BY <1>2, <1>3

(* No page that was written leaves the row. *)
LEMMA PageBounds ==
  ASSUME Inv, NEW s \in Slots, NEW i \in Pages, NEW f \in Bundles, PageStep(s, i, f)
  PROVE  Bounds'
<1>1. Bounds /\ Settled /\ UNCHANGED <<len, pos, req, phase, want>>
  BY DEF Inv, PageStep
<1>2. /\ \A t \in Slots \ {s} : row'[t] = row[t]
      /\ \A j \in Pages : own'[s][j] = IF j = i THEN f ELSE own[s][j]
  BY PageFacts
<1>3. row' = [row EXCEPT ![s] = own'[s]] \/ row' = row
  BY DEF PageStep
<1>4. ASSUME NEW t \in Slots, Live(t), NEW j \in 1..PagesFor(pos[t]) PROVE row'[t][j] # 0
  <2>1. row[t][j] # 0 /\ j \in Pages
    BY <1>1, <1>4, WrittenPages DEF Bounds, Bounded
  <2>2. own[t][j] # 0
    <3>1. CASE own[t][j] # row[t][j]
      BY <1>1, <2>1, <3>1 DEF Settled, Private
    <3> QED
      BY <2>1, <3>1
  <2>3. row \in [Slots -> [Pages -> Bundles \cup {0}]] /\ f # 0
    <3>1. TypeOK
      BY DEF Inv
    <3>2. f # 0
      BY DEF Bundles
    <3> QED
      BY <3>1, <3>2, Types
  <2> QED
    BY <1>2, <1>3, <2>1, <2>2, <2>3
<1>5. ASSUME NEW t \in Slots PROVE Bounded(t)'
  <2>1. Bounded(t) /\ (Live(t)' <=> Live(t)) /\ Call(t)' = Call(t)
    BY <1>1 DEF Bounds, Live, Call
  <2>2. Live(t)' => \A j \in 1..PagesFor(pos'[t]) : row'[t][j] # 0
    BY <1>1, <1>4, <2>1
  <2> QED
    BY <1>1, <2>1, <2>2 DEF Bounded
<1> QED
  BY <1>5 DEF Bounds

(* PreparePage keeps the invariant. *)
LEMMA PreparePageInv ==
  ASSUME Inv, NEW s \in Slots, PreparePage(s)
  PROVE  Inv'
<1>1. PICK i \in Pages, f \in Bundles : PageStep(s, i, f)
  BY PreparePageSteps
<1>2. Pool' /\ queue' \in Seq(Bundles) /\ ref' \in [Bundles -> Nat]
  BY <1>1, PageQueue, PageCounted DEF Pool
<1>3. PromisesCovered' /\ res' \in [Slots -> Nat]
  BY <1>1, PagePromises
<1>4. Calls' /\ Settled'
  BY <1>1, PageCalls, PageSettled
<1>5. Numbered' /\ EntriesNumbered'
  BY <1>1, PageNumbered
<1>6. Bounds'
  BY <1>1, PageBounds
<1>7. TypeOK'
  <2>1. TypeOK
    BY DEF Inv
  <2>2. /\ own' \in [Slots -> [Pages -> Bundles \cup {0}]]
        /\ row' \in [Slots -> [Pages -> Bundles \cup {0}]]
    BY <1>1, PageFacts
  <2>3. /\ bytes' \in [Bundles -> Seq(Nat)] /\ pub' = [pub EXCEPT ![f] = {}]
        /\ entries' = IF pub[f] = {} THEN entries ELSE EntriesWithout(f)
        /\ UNCHANGED <<len, pos, ckpt, cached, req, phase, want>>
    BY <1>1 DEF PageStep
  <2>4. pub' \in [Bundles -> SUBSET Seq(Nat)]
    BY <2>1, <2>3, Types
  <2>5. entries' \subseteq [tokens : Seq(Nat), bundles : Seq(Bundles)]
    BY <2>1, <2>3, Types DEF EntriesWithout
  <2> QED
    BY <1>2, <1>3, <2>1, <2>2, <2>3, <2>4, <2>5 DEF TypeOK
<1> QED
  BY <1>2, <1>3, <1>4, <1>5, <1>6, <1>7 DEF Inv

-----------------------------------------------------------------------------
(* A prefix is restored *)

(* The page table after a restore of n tokens, whatever became of it. *)
Restores(s, n) ==
  /\ phase[s] = "reserved" /\ req[s] \in Requests
  /\ n \in Nat /\ n <= Prompt[req[s]]
  /\ StartPrefill(s, n)
  /\ UNCHANGED <<req, want>>
  /\ own' = row' /\ row' \in [Slots -> [Pages -> Bundles \cup {0}]]
  /\ \A t \in Slots \ {s} : row'[t] = row[t]
  /\ \A j \in 1..PagesFor(n) : row'[s][j] # 0

(* A wave is restored while everybody is live, settled and writes nothing. *)
LEMMA RestoreFacts ==
  ASSUME Inv, NEW s \in Slots, phase[s] = "reserved"
  PROVE  /\ \A t \in Slots : Live(t) /\ want[t] = 0 /\ AllPrivate(t)
         /\ own = row /\ row[s] = [i \in Pages |-> 0] /\ req[s] \in Requests
         /\ len[s] = 0 /\ pos[s] = 0
<1>1. TypeOK /\ Calls /\ Settled
  BY DEF Inv
<1>2. \A t \in Slots : Live(t) /\ want[t] = 0
  BY <1>1 DEF Calls
<1>3. \A t \in Slots : AllPrivate(t)
  BY <1>2 DEF AllPrivate, Touched
<1>4. \A t \in Slots : own[t] = row[t]
  BY <1>1, <1>2, <1>3 DEF Settled
<1>5. own = row
  BY <1>1, <1>4, Types
<1>6. row[s] = [i \in Pages |-> 0] /\ req[s] # NoReq /\ len[s] = 0 /\ pos[s] = 0
  BY <1>1 DEF Calls
<1> QED
  BY <1>1, <1>2, <1>3, <1>5, <1>6, Types

(* A restore leaves the other slots alone, and the slot with the pages of   *)
(* its prefix.                                                              *)
LEMMA RestoresKeep ==
  ASSUME Inv, NEW s \in Slots, NEW n, Restores(s, n)
  PROVE  /\ Calls' /\ Settled' /\ Bounds'
         /\ len' \in [Slots -> Nat] /\ pos' \in [Slots -> Nat]
         /\ phase' \in [Slots -> {"idle", "reserved", "prefill", "decode", "failed"}]
<1>1. TypeOK /\ Calls /\ Bounds
  BY DEF Inv
<1>2. \A t \in Slots : Live(t) /\ want[t] = 0
  BY RestoreFacts DEF Restores
<1>3. /\ len' = [len EXCEPT ![s] = n] /\ pos' = [pos EXCEPT ![s] = n]
      /\ phase' = [phase EXCEPT ![s] = IF n = Prompt[req[s]] THEN "decode" ELSE "prefill"]
      /\ UNCHANGED <<req, want>> /\ own' = row' /\ n \in Nat /\ n <= Prompt[req[s]]
      /\ phase[s] = "reserved" /\ req[s] \in Requests
  BY DEF Restores, StartPrefill
<1>4. /\ len' \in [Slots -> Nat] /\ pos' \in [Slots -> Nat]
      /\ phase' \in [Slots -> {"idle", "reserved", "prefill", "decode", "failed"}]
      /\ phase'[s] \in {"prefill", "decode"} /\ len'[s] = n /\ pos'[s] = n
      /\ \A t \in Slots \ {s} : phase'[t] = phase[t] /\ len'[t] = len[t] /\ pos'[t] = pos[t]
  BY <1>1, <1>3, Types
<1>5. \A t \in Slots : Live(t)' /\ want'[t] = 0
  BY <1>2, <1>3, <1>4 DEF Live
<1>6. \A t \in Slots : AllPrivate(t)'
  BY <1>5 DEF AllPrivate, Touched
<1>7. \A t \in Slots \ {s} : row'[t] = row[t]
  BY DEF Restores
<1>8. Calls'
  <2>1. \A t \in Slots : phase'[t] \in {"idle", "reserved"} =>
          want'[t] = 0 /\ row'[t] = [i \in Pages |-> 0] /\ len'[t] = 0 /\ pos'[t] = 0
    BY <1>1, <1>4, <1>5, <1>7 DEF Calls
  <2>2. \A t \in Slots : phase'[t] = "idle" <=> req'[t] = NoReq
    BY <1>1, <1>3, <1>4 DEF Calls
  <2> QED
    BY <1>5, <1>6, <2>1, <2>2 DEF Calls
<1>9. Settled'
  BY <1>3 DEF Settled
<1>10. Bounds'
  <2>1. Bounded(s)'
    <3>1. /\ Prompt[req[s]] \in Nat /\ Len(Tokens[req[s]]) \in Nat /\ TotalTokens[req[s]] \in Nat
          /\ Prompt[req[s]] <= Len(Tokens[req[s]])
      BY <1>3, ArenaAssumption
    <3>2. n <= Len(Tokens[req[s]])
      BY <1>3, <3>1
    <3>3. \A j \in 1..PagesFor(pos'[s]) : row'[s][j] # 0
      BY <1>4 DEF Restores
    <3> QED
      BY <1>3, <1>4, <1>5, <3>1, <3>2, <3>3 DEF Bounded
  <2>2. ASSUME NEW t \in Slots \ {s} PROVE Bounded(t)'
    <3>1. Bounded(t) /\ Live(t)
      BY <1>1, <1>2 DEF Bounds
    <3> QED
      BY <1>3, <1>4, <1>5, <1>7, <3>1 DEF Bounded
  <2> QED
    BY <2>1, <2>2 DEF Bounds
<1> QED
  BY <1>4, <1>8, <1>9, <1>10

(* The pages that hold a cached prefix of n tokens. *)
Sources(n, src) ==
  /\ n \in Nat
  /\ src \in Seq(Bundles) /\ Len(src) = PagesFor(n)
  /\ \A i \in 1..Len(src) : ServesPage(src[i], i)

(* The source pages without a reference, and the free queue without them. *)
Revived(n, src) == Pick(src, {i \in 1..PagesFor(n) : ref[src[i]] = 0})

(* What is left of the free queue when they are taken out. *)
LeftFree(n, src) == Drop(queue, Range(Revived(n, src)))

(* The parked sources leave the free queue, and nothing else does. *)
RevivedOK(n, src) ==
  /\ PagesFor(n) \in Nat /\ IsInjective(src)
  /\ Revived(n, src) \in Seq(Bundles) /\ IsInjective(Revived(n, src))
  /\ \A b \in Bundles : b \in Range(Revived(n, src)) <=> b \in Range(src) /\ ref[b] = 0
  /\ LeftFree(n, src) \in Seq(Bundles) /\ IsInjective(LeftFree(n, src))
  /\ \A b \in Bundles : b \in Range(LeftFree(n, src)) <=> ref[b] = 0 /\ b \notin Range(src)
  /\ Len(Revived(n, src)) \in Nat /\ Len(LeftFree(n, src)) \in Nat
  /\ Len(LeftFree(n, src)) = Len(queue) - Len(Revived(n, src))
  /\ Len(Revived(n, src)) <= PagesFor(n)
  /\ PagesFor(n) > 0 /\ ref[src[PagesFor(n)]] # 0 => Len(Revived(n, src)) <= PagesFor(n) - 1

(* The parked sources are in the free queue, one by one; taking them out    *)
(* leaves the rest.                                                         *)
LEMMA RevivedFacts ==
  ASSUME Inv, NEW n, NEW src, Sources(n, src)
  PROVE  RevivedOK(n, src)
<1> DEFINE p == PagesFor(n)
           I == {i \in 1..p : ref[src[i]] = 0}
           v == Pick(src, I)
           q == Drop(queue, Range(v))
<1>1. p \in Nat /\ src \in Seq(Bundles) /\ Len(src) = p /\ \A i \in 1..p : ServesPage(src[i], i)
  BY PagesForFacts DEF Sources
<1>2. /\ TypeOK /\ Numbered /\ queue \in Seq(Bundles) /\ IsInjective(queue)
      /\ \A b \in Bundles : b \in Range(queue) <=> ref[b] = 0
  BY Types DEF Inv, Pool
<1>3. v = Revived(n, src) /\ q = LeftFree(n, src)
  BY DEF Revived, LeftFree
<1> HIDE DEF p
<1>4. IsInjective(src)
  <2> SUFFICES ASSUME NEW i \in 1..p, NEW j \in 1..p, src[i] = src[j] PROVE i = j
    BY <1>1 DEF IsInjective
  <2>1. ServesPage(src[i], i) /\ ServesPage(src[i], j) /\ src[i] \in Bundles
    BY <1>1
  <2>2. PICK k \in pub[src[i]] : PagesFor(Len(k)) = i
    BY <2>1 DEF ServesPage
  <2>3. PICK l \in pub[src[i]] : PagesFor(Len(l)) = j
    BY <2>1 DEF ServesPage
  <2> QED
    BY <1>2, <2>1, <2>2, <2>3 DEF Numbered
<1>5. I \subseteq 1..Len(src) /\ \A i \in 1..p : i \in I <=> ref[src[i]] = 0
  BY <1>1
<1>6. IsFiniteSet(1..p) /\ Cardinality(1..p) = p /\ Cardinality(I) <= p
  <2>1. IsFiniteSet(1..p) /\ Cardinality(1..p) = p
    BY <1>1, FS_Interval
  <2> QED
    BY <1>1, <1>5, <2>1, FS_Subset
<1>7. p > 0 /\ ref[src[p]] # 0 => Cardinality(I) <= p - 1
  <2>1. SUFFICES ASSUME p > 0, ref[src[p]] # 0 PROVE Cardinality(I) <= p - 1
    OBVIOUS
  <2>2. p - 1 \in Nat /\ I \subseteq 1..(p - 1)
    BY <1>1, <2>1
  <2>3. IsFiniteSet(1..(p - 1)) /\ Cardinality(1..(p - 1)) = p - 1
    BY <2>2, FS_Interval
  <2> QED
    BY <2>2, <2>3, FS_Subset
<1> HIDE DEF I
<1>8. Picks(Bundles, src, I, v, Ascending(I)) /\ IsInjective(v)
  BY <1>1, <1>4, <1>5, PickFacts, PickInjective
<1>9. v \in Seq(Bundles) /\ Len(v) = Cardinality(I)
  BY <1>8 DEF Picks
<1>10. \A b \in Bundles : b \in Range(v) <=> b \in Range(src) /\ ref[b] = 0
  <2>1. (\A x \in Range(v) : \E i \in I : x = src[i]) /\ (\A i \in I : src[i] \in Range(v))
    BY <1>8 DEF Picks
  <2>2. Range(src) = {src[i] : i \in 1..p}
    BY <1>1, RangeInSet
  <2> HIDE DEF v
  <2> QED
    BY <1>1, <1>5, <2>1, <2>2
<1> HIDE DEF v
<1>11. q \in Seq(Bundles) /\ Range(q) = Range(queue) \ Range(v) /\ IsInjective(q)
  BY <1>2, DropFacts
<1> HIDE DEF q
<1>12. Range(v) \subseteq Range(queue)
  <2>1. \A b \in Range(v) : b \in Bundles
    BY <1>9, RangeInSet
  <2> QED
    BY <1>2, <1>10, <2>1
<1>13. Len(q) = Len(queue) - Len(v) /\ Len(q) \in Nat /\ Len(v) \in Nat
  <2>1. /\ Len(q) = Cardinality(Range(q)) /\ Len(q) \in Nat /\ IsFiniteSet(Range(q))
        /\ Len(v) = Cardinality(Range(v)) /\ Len(v) \in Nat /\ IsFiniteSet(Range(v))
        /\ Len(queue) = Cardinality(Range(queue))
    BY <1>2, <1>8, <1>9, <1>11, QueueLength
  <2>2. Range(queue) = Range(q) \cup Range(v) /\ Range(q) \cap Range(v) = {}
    BY <1>11, <1>12
  <2>3. Cardinality(Range(queue)) = Cardinality(Range(q)) + Cardinality(Range(v))
    <3> DEFINE A == Range(q)
               B == Range(v)
    <3>1. IsFiniteSet(A) /\ IsFiniteSet(B) /\ A \cap B = {} /\ Range(queue) = A \cup B
          /\ Cardinality(A) \in Nat /\ Cardinality(B) \in Nat
      BY <2>1, <2>2
    <3> HIDE DEF A, B
    <3>2. Cardinality(A \cup B) = Cardinality(A) + Cardinality(B) - Cardinality(A \cap B)
      BY <3>1, FS_Union
    <3>3. Cardinality(A \cup B) = Cardinality(A) + Cardinality(B)
      <4>1. Cardinality(A \cap B) = 0
        BY <3>1, FS_EmptySet
      <4> QED
        BY <3>1, <3>2, <4>1
    <3> QED
      BY <3>1, <3>3 DEF A, B
  <2> QED
    BY <2>1, <2>3
<1>14. \A b \in Bundles : b \in Range(q) <=> ref[b] = 0 /\ b \notin Range(src)
  BY <1>2, <1>10, <1>11
<1> QED
  BY <1>1, <1>3, <1>4, <1>6, <1>7, <1>8, <1>9, <1>10, <1>11, <1>13, <1>14 DEF RevivedOK, p

(* The bundles dst become the row of s: shared pages of published prefixes, *)
(* or a fresh page.                                                         *)
PutRow(s, dst) ==
  /\ dst \in Seq(Bundles) /\ IsInjective(dst) /\ Len(dst) <= MaxPages
  /\ \A j \in Pages : row'[s][j] = IF j <= Len(dst) THEN dst[j] ELSE 0
  /\ ref' \in [Bundles -> Nat]
  /\ \A b \in Bundles : ref'[b] = IF b \in Range(dst) THEN ref[b] + 1 ELSE ref[b]
  /\ \A b \in Bundles : pub'[b] \subseteq pub[b]
  /\ \A j \in 1..Len(dst) :
       ServesPage(dst[j], j) \/ (ref[dst[j]] = 0 /\ pub'[dst[j]] = {})

(* Every bundle of the restored row gained the reference of its new page. *)
LEMMA PutCounted ==
  ASSUME Inv, NEW s \in Slots, NEW n, Restores(s, n), NEW dst, PutRow(s, dst)
  PROVE  Counted'
<1>1. TypeOK /\ Counted /\ own' = row' /\ own = row /\ row[s] = [i \in Pages |-> 0]
      /\ \A t \in Slots \ {s} : row'[t] = row[t]
  BY RestoreFacts DEF Inv, Pool, Restores
<1>2. /\ dst \in Seq(Bundles) /\ IsInjective(dst) /\ Len(dst) \in Nat /\ Len(dst) <= MaxPages
      /\ DOMAIN dst = 1..Len(dst) /\ MaxPages \in Nat
      /\ \A j \in Pages : row'[s][j] = IF j <= Len(dst) THEN dst[j] ELSE 0
      /\ \A b \in Bundles : ref'[b] = IF b \in Range(dst) THEN ref[b] + 1 ELSE ref[b]
  BY ArenaAssumption DEF PutRow
<1>3. ASSUME NEW b \in Bundles PROVE PlacesStep(b)
  <2>0. b # 0
    BY DEF Bundles
  <2>1. ASSUME NEW t \in Slots, NEW j \in Pages
        PROVE  <<t, j>> \in Places(b)' <=> row'[t][j] = b
    BY <1>1 DEF Places
  <2>2. ASSUME NEW t \in Slots, NEW j \in Pages
        PROVE  <<t, j>> \in Places(b) <=> row[t][j] = b
    BY <1>1 DEF Places
  <2>3. Places(b) \subseteq Slots \X Pages /\ Places(b)' \subseteq Slots \X Pages
    BY DEF Places
  <2>4. \A j \in Pages : row[s][j] = 0
    BY <1>1
  <2>5. CASE b \in Range(dst)
    <3>1. PICK i \in 1..Len(dst) : dst[i] = b
      BY <1>2, <2>5, RangeInSet
    <3>2. i \in Pages
      BY <1>2, <3>1 DEF Pages
    <3>3. \A j \in Pages : row'[s][j] = b <=> j = i
      <4> SUFFICES ASSUME NEW j \in Pages PROVE row'[s][j] = b <=> j = i
        OBVIOUS
      <4>1. j <= Len(dst) => j \in 1..Len(dst)
        BY <1>2 DEF Pages
      <4>2. i <= Len(dst)
        BY <1>2, <3>1
      <4> QED
        BY <1>2, <2>0, <3>1, <4>1, <4>2 DEF IsInjective
    <3>4. <<s, i>> \notin Places(b)
      BY <2>0, <2>2, <2>4, <3>2
    <3>5. Places(b)' = Places(b) \cup {<<s, i>>}
      <4>1. ASSUME NEW t \in Slots, NEW j \in Pages
            PROVE  <<t, j>> \in Places(b)' <=> <<t, j>> \in Places(b) \/ <<t, j>> = <<s, i>>
        <5>1. CASE t = s
          BY <2>0, <2>1, <2>2, <2>4, <3>3, <5>1
        <5>2. CASE t # s
          BY <1>1, <2>1, <2>2, <5>2
        <5> QED
          BY <5>1, <5>2
      <4>2. <<s, i>> \in Places(b)'
        BY <3>2, <4>1
      <4>3. ASSUME NEW x \in Slots \X Pages
            PROVE  x \in Places(b)' <=> x \in Places(b) \/ x = <<s, i>>
        <5>1. PICK t \in Slots, j \in Pages : x = <<t, j>>
          OBVIOUS
        <5> QED
          BY <4>1, <5>1
      <4> QED
        BY <2>3, <4>2, <4>3
    <3>6. ref'[b] = ref[b] + 1
      BY <1>2, <2>5
    <3> QED
      BY <3>4, <3>5, <3>6 DEF PlacesStep
  <2>6. CASE b \notin Range(dst)
    <3>1. \A j \in Pages : row'[s][j] # b
      <4> SUFFICES ASSUME NEW j \in Pages PROVE row'[s][j] # b
        OBVIOUS
      <4>1. j <= Len(dst) => j \in 1..Len(dst) /\ dst[j] \in Range(dst)
        BY <1>2, RangeInSet DEF Pages
      <4> QED
        BY <1>2, <2>0, <2>6, <4>1
    <3>2. Places(b)' = Places(b)
      <4>1. ASSUME NEW t \in Slots, NEW j \in Pages
            PROVE  <<t, j>> \in Places(b)' <=> <<t, j>> \in Places(b)
        <5>1. CASE t = s
          BY <2>0, <2>1, <2>2, <2>4, <3>1, <5>1
        <5>2. CASE t # s
          BY <1>1, <2>1, <2>2, <5>2
        <5> QED
          BY <5>1, <5>2
      <4> QED
        BY <2>3, <4>1
    <3>3. ref'[b] = ref[b]
      BY <1>2, <2>6
    <3> QED
      BY <3>2, <3>3 DEF PlacesStep
  <2> QED
    BY <2>5, <2>6
<1> QED
  BY <1>1, <1>3, CountedStep

(* The restored row keeps to the page numbers of its bundles. *)
LEMMA PutNumbered ==
  ASSUME Inv, NEW s \in Slots, NEW n, Restores(s, n), NEW dst, PutRow(s, dst)
  PROVE  Numbered'
<1>1. /\ TypeOK /\ Numbered /\ Referenced /\ own' = row' /\ own = row
      /\ \A t \in Slots \ {s} : row'[t] = row[t]
  BY RestoreFacts, CountedReferenced DEF Inv, Pool, Restores
<1>2. /\ dst \in Seq(Bundles) /\ IsInjective(dst) /\ Len(dst) \in Nat /\ DOMAIN dst = 1..Len(dst)
      /\ \A j \in Pages : row'[s][j] = IF j <= Len(dst) THEN dst[j] ELSE 0
      /\ \A b \in Bundles : pub'[b] \subseteq pub[b]
      /\ \A j \in 1..Len(dst) : ServesPage(dst[j], j) \/ (ref[dst[j]] = 0 /\ pub'[dst[j]] = {})
  BY DEF PutRow
<1>3. row \in [Slots -> [Pages -> Bundles \cup {0}]]
  BY <1>1, Types
<1>4. ASSUME NEW j \in Pages, row'[s][j] # 0
      PROVE  j \in 1..Len(dst) /\ row'[s][j] = dst[j] /\ dst[j] \in Bundles
  BY <1>2, <1>4 DEF Pages
<1>5. ASSUME NEW t \in Slots \ {s}, NEW j \in Pages, NEW k \in Pages,
             row'[s][j] # 0, row'[s][j] = row'[t][k]
      PROVE  j = k
  <2>1. j \in 1..Len(dst) /\ row[t][k] = dst[j] /\ dst[j] # 0
    BY <1>1, <1>4, <1>5
  <2>2. ref[dst[j]] # 0
    BY <1>1, <2>1 DEF Referenced
  <2>3. PICK l \in pub[dst[j]] : PagesFor(Len(l)) = j
    BY <1>2, <2>1, <2>2 DEF ServesPage
  <2> QED
    BY <1>1, <2>1, <2>3 DEF Numbered
<1>6. ASSUME NEW t \in Slots, NEW u \in Slots, NEW j \in Pages, NEW k \in Pages,
             row'[t][j] # 0, row'[t][j] = row'[u][k]
      PROVE  j = k
  <2>1. CASE t = s /\ u = s
    <3>1. j \in 1..Len(dst) /\ k \in 1..Len(dst) /\ dst[j] = dst[k]
      BY <1>4, <1>6, <2>1
    <3> QED
      BY <1>2, <3>1 DEF IsInjective
  <2>2. CASE t = s /\ u # s
    BY <1>5, <1>6, <2>2
  <2>3. CASE t # s /\ u = s
    BY <1>5, <1>6, <2>3
  <2>4. CASE t # s /\ u # s
    BY <1>1, <1>6, <2>4 DEF Numbered
  <2> QED
    BY <2>1, <2>2, <2>3, <2>4
<1>7. ASSUME NEW t \in Slots, NEW j \in Pages, row'[t][j] # 0, NEW k \in pub'[row'[t][j]]
      PROVE  PagesFor(Len(k)) = j
  <2>1. CASE t = s
    <3>1. j \in 1..Len(dst) /\ row'[s][j] = dst[j] /\ dst[j] \in Bundles /\ k \in pub'[dst[j]]
      BY <1>4, <1>7, <2>1
    <3>2. ServesPage(dst[j], j) /\ k \in pub[dst[j]]
      BY <1>2, <3>1
    <3>3. PICK l \in pub[dst[j]] : PagesFor(Len(l)) = j
      BY <3>2 DEF ServesPage
    <3> QED
      BY <1>1, <3>1, <3>2, <3>3 DEF Numbered
  <2>2. CASE t # s
    <3>1. row'[t][j] = row[t][j] /\ row[t][j] \in Bundles
      BY <1>1, <1>3, <1>7, <2>2
    <3>2. k \in pub[row[t][j]]
      BY <1>2, <1>7, <3>1
    <3> QED
      BY <1>1, <1>7, <3>1, <3>2 DEF Numbered
  <2> QED
    BY <2>1, <2>2
<1>8. \A b \in Bundles : \A k, l \in pub'[b] : PagesFor(Len(k)) = PagesFor(Len(l))
  BY <1>1, <1>2 DEF Numbered
<1>9. \A t, u \in Slots : \A j, k \in Pages : row'[t][j] # 0 /\ row'[t][j] = row'[u][k] => j = k
  BY <1>6
<1>10. \A t \in Slots : \A j \in Pages : row'[t][j] # 0 => \A k \in pub'[row'[t][j]] : PagesFor(Len(k)) = j
  BY <1>7
<1> QED
  BY <1>1, <1>8, <1>9, <1>10 DEF Numbered

(* The reservation of s covers the pages of a restore of n tokens. *)
Enough(s, n, src) ==
  /\ res[s] = 0 \/ res[s] >= PagesFor(n)
  /\ Len(Revived(n, src)) <= res[s] + Unreserved(Len(queue))

(* The three outcomes of _restore_cached_page_prefix: a safe miss, a prefix *)
(* of whole pages, and one whose last page is copied to a fresh bundle.     *)
MissStep(s) ==
  /\ Restores(s, 0) /\ row' = row
  /\ queue' \in Seq(Bundles) /\ IsInjective(queue') /\ Range(queue') = Range(queue)
  /\ UNCHANGED <<ref, pub, res, bytes, entries>>

(* Every source gains a reference. *)
FullStep(s, n, src) ==
  /\ phase[s] = "reserved" /\ Enough(s, n, src)
  /\ ref' = [b \in Bundles |-> IF b \in Range(src) THEN ref[b] + 1 ELSE ref[b]]
  /\ queue' = LeftFree(n, src)
  /\ res' = Consume(s, PagesFor(n))
  /\ row' = [row EXCEPT ![s] = [i \in Pages |-> IF i <= PagesFor(n) THEN src[i] ELSE @[i]]]
  /\ own' = row'
  /\ StartPrefill(s, n)
  /\ UNCHANGED <<pub, bytes, entries, req, want>>

(* The last source is copied to the head of what is left of the queue. *)
PartialStep(s, n, src) ==
  LET p == PagesFor(n)
      f == Head(LeftFree(n, src))
  IN  /\ phase[s] = "reserved" /\ Enough(s, n, src)
      /\ n % PageSize # 0 /\ MayAllocate(s, Len(LeftFree(n, src)))
      /\ ref' = [b \in Bundles |-> IF b = f THEN 1
                                   ELSE IF b \in {src[i] : i \in 1..(p - 1)} THEN ref[b] + 1 ELSE ref[b]]
      /\ queue' = Tail(LeftFree(n, src)) \o (IF ref[src[p]] = 0 THEN <<src[p]>> ELSE <<>>)
      /\ pub' = [pub EXCEPT ![f] = {}]
      /\ entries' = IF pub[f] = {} THEN entries ELSE EntriesWithout(f)
      /\ bytes' = [bytes EXCEPT ![f] = bytes[src[p]]]
      /\ res' = Consume(s, p)
      /\ row' = [row EXCEPT ![s] = [i \in Pages |->
                   IF i < p THEN src[i] ELSE IF i = p THEN f ELSE @[i]]]
      /\ own' = row'
      /\ StartPrefill(s, n)
      /\ UNCHANGED <<req, want>>

(* A step that changes nothing but the request's phase is a safe miss. *)
LEMMA MissSteps ==
  ASSUME Inv, NEW s \in Slots, phase[s] = "reserved", StartPrefill(s, 0),
         queue' \in Seq(Bundles), IsInjective(queue'), Range(queue') = Range(queue),
         row' = row, own' = row', UNCHANGED <<ref, pub, res, bytes, entries, req, want>>
  PROVE  MissStep(s)
<1>1. TypeOK /\ req[s] \in Requests
  BY RestoreFacts DEF Inv
<1>2. 0 <= Prompt[req[s]]
  BY <1>1, ArenaAssumption
<1>3. row \in [Slots -> [Pages -> Bundles \cup {0}]]
  BY <1>1, Types
<1>4. \A j \in 1..PagesFor(0) : row'[s][j] # 0
  BY PagesForNone
<1> QED
  BY <1>1, <1>2, <1>3, <1>4 DEF MissStep, Restores

(* _restore_cached_page_prefix has one of the three outcomes. *)
LEMMA RestoreCachedSteps ==
  ASSUME Inv, NEW s \in Slots, phase[s] = "reserved", NEW n, NEW src, Sources(n, src),
         NEW forget, RestoreCached(s, n, src, forget)
  PROVE  /\ MissStep(s) \/ FullStep(s, n, src) \/ PartialStep(s, n, src)
         /\ ckpt' \in [Slots -> Seq(Nat)] /\ cached' \in [Slots -> Seq(Nat)]
<1> DEFINE p  == PagesFor(n)
           v  == Revived(n, src)
           q1 == LeftFree(n, src)
           partial == n % PageSize # 0
           full == IF partial THEN {src[i] : i \in 1..(p - 1)} ELSE Range(src)
           usable == /\ \A b \in Range(src) : ref[b] > 0 \/ pub[b] # {}
                     /\ res[s] = 0 \/ res[s] >= p
                     /\ Len(v) <= res[s] + Unreserved(Len(queue))
           fits == ~ partial \/ MayAllocate(s, Len(q1))
           f == Head(q1)
<1>1. TypeOK /\ Pool
  BY DEF Inv
<1>2. /\ ckpt' = IF forget THEN [ckpt EXCEPT ![s] = <<>>] ELSE ckpt
      /\ cached' = IF forget THEN [cached EXCEPT ![s] = <<>>] ELSE cached
      /\ own' = row' /\ UNCHANGED <<req, want>>
  BY DEF RestoreCached
<1>3. ckpt' \in [Slots -> Seq(Nat)] /\ cached' \in [Slots -> Seq(Nat)]
  <2>1. ckpt \in [Slots -> Seq(Nat)] /\ cached \in [Slots -> Seq(Nat)] /\ <<>> \in Seq(Nat)
    BY <1>1, Types
  <2> QED
    BY <1>2, <2>1
<1>4. \/ /\ ~ (usable /\ fits)
         /\ queue' = IF usable THEN q1 \o v ELSE queue
         /\ StartPrefill(s, 0)
         /\ UNCHANGED <<ref, pub, res, bytes, row, entries>>
      \/ /\ usable /\ fits /\ ~ partial
         /\ ref' = [b \in Bundles |-> IF b \in full THEN ref[b] + 1 ELSE ref[b]]
         /\ queue' = q1
         /\ res' = Consume(s, p)
         /\ row' = [row EXCEPT ![s] = [i \in Pages |-> IF i <= p THEN src[i] ELSE @[i]]]
         /\ StartPrefill(s, n)
         /\ UNCHANGED <<pub, bytes, entries>>
      \/ /\ usable /\ fits /\ partial
         /\ ref' = [b \in Bundles |-> IF b = f THEN 1 ELSE IF b \in full THEN ref[b] + 1 ELSE ref[b]]
         /\ queue' = Tail(q1) \o (IF ref[src[p]] = 0 THEN <<src[p]>> ELSE <<>>)
         /\ pub' = DropHash(f)
         /\ entries' = IF pub[f] = {} THEN entries ELSE EntriesWithout(f)
         /\ bytes' = [bytes EXCEPT ![f] = bytes[src[p]]]
         /\ res' = Consume(s, p)
         /\ row' = [row EXCEPT ![s] = [i \in Pages |->
                      IF i < p THEN src[i] ELSE IF i = p THEN f ELSE @[i]]]
         /\ StartPrefill(s, n)
  BY DEF RestoreCached, Revived, LeftFree
<1>5. CASE /\ queue' = IF usable THEN q1 \o v ELSE queue
           /\ StartPrefill(s, 0)
           /\ UNCHANGED <<ref, pub, res, bytes, row, entries>>
  <2>1. queue' \in Seq(Bundles) /\ IsInjective(queue') /\ Range(queue') = Range(queue)
    <3>1. queue \in Seq(Bundles) /\ IsInjective(queue) /\ \A b \in Bundles : b \in Range(queue) <=> ref[b] = 0
      BY <1>1, Types DEF Pool
    <3>2. RevivedOK(n, src)
      BY RevivedFacts
    <3>3. /\ q1 \in Seq(Bundles) /\ IsInjective(q1) /\ v \in Seq(Bundles) /\ IsInjective(v)
          /\ \A b \in Bundles : b \in Range(v) <=> b \in Range(src) /\ ref[b] = 0
          /\ \A b \in Bundles : b \in Range(q1) <=> ref[b] = 0 /\ b \notin Range(src)
      BY <3>2 DEF RevivedOK
    <3> HIDE DEF q1, v
    <3>4. Range(q1) \subseteq Bundles /\ Range(v) \subseteq Bundles /\ Range(queue) \subseteq Bundles
      BY <3>1, <3>3, RangeInSet
    <3>5. Range(q1) \cap Range(v) = {} /\ Range(q1) \cup Range(v) = Range(queue)
      BY <3>1, <3>3, <3>4
    <3>6. q1 \o v \in Seq(Bundles) /\ IsInjective(q1 \o v) /\ Range(q1 \o v) = Range(queue)
      BY <3>3, <3>5, RangeOfConcat
    <3> QED
      BY <1>5, <3>1, <3>6
  <2>2. MissStep(s)
    BY <1>2, <1>5, <2>1, MissSteps
  <2> QED
    BY <1>3, <2>2
<1>6. CASE /\ usable /\ fits /\ ~ partial
           /\ ref' = [b \in Bundles |-> IF b \in full THEN ref[b] + 1 ELSE ref[b]]
           /\ queue' = q1
           /\ res' = Consume(s, p)
           /\ row' = [row EXCEPT ![s] = [i \in Pages |-> IF i <= p THEN src[i] ELSE @[i]]]
           /\ StartPrefill(s, n)
           /\ UNCHANGED <<pub, bytes, entries>>
  <2>1. Enough(s, n, src) /\ full = Range(src)
    BY <1>6 DEF Enough
  <2> HIDE DEF usable, fits, v
  <2>2. FullStep(s, n, src)
    BY <1>2, <1>6, <2>1 DEF FullStep
  <2> QED
    BY <1>3, <2>2
<1>7. CASE /\ usable /\ fits /\ partial
           /\ ref' = [b \in Bundles |-> IF b = f THEN 1 ELSE IF b \in full THEN ref[b] + 1 ELSE ref[b]]
           /\ queue' = Tail(q1) \o (IF ref[src[p]] = 0 THEN <<src[p]>> ELSE <<>>)
           /\ pub' = DropHash(f)
           /\ entries' = IF pub[f] = {} THEN entries ELSE EntriesWithout(f)
           /\ bytes' = [bytes EXCEPT ![f] = bytes[src[p]]]
           /\ res' = Consume(s, p)
           /\ row' = [row EXCEPT ![s] = [i \in Pages |->
                        IF i < p THEN src[i] ELSE IF i = p THEN f ELSE @[i]]]
           /\ StartPrefill(s, n)
  <2>1. /\ Enough(s, n, src) /\ full = {src[i] : i \in 1..(p - 1)} /\ n % PageSize # 0
        /\ MayAllocate(s, Len(q1))
    BY <1>7 DEF Enough
  <2> HIDE DEF usable, fits, v
  <2>2. PartialStep(s, n, src)
    BY <1>2, <1>7, <2>1 DEF PartialStep, DropHash
  <2> QED
    BY <1>3, <2>2
<1> HIDE DEF p, v, q1, partial, full, usable, fits, f
<1> QED
  BY <1>4, <1>5, <1>6, <1>7

(* A prefix of a prompt fits into a row. *)
LEMMA PromptPages ==
  ASSUME NEW r \in Requests, NEW n \in Nat, n <= TotalTokens[r]
  PROVE  PagesFor(n) \in Nat /\ PagesFor(n) <= MaxPages /\ 1..PagesFor(n) \subseteq Pages
<1>1. TotalTokens[r] \in Nat /\ PagesFor(TotalTokens[r]) <= MaxPages /\ MaxPages \in Nat
  BY ArenaAssumption
<1>2. PagesFor(n) \in Nat /\ PagesFor(n) <= PagesFor(TotalTokens[r]) /\ PagesFor(TotalTokens[r]) \in Nat
  BY <1>1, PagesForOrder
<1> QED
  BY <1>1, <1>2 DEF Pages

(* The lengths a request declares. *)
LEMMA Declared ==
  ASSUME NEW r \in Requests
  PROVE  /\ Prompt[r] \in Nat /\ Len(Tokens[r]) \in Nat /\ TotalTokens[r] \in Nat
         /\ 0 < Prompt[r] /\ Prompt[r] <= Len(Tokens[r]) /\ Len(Tokens[r]) <= TotalTokens[r]
         /\ Prompt[r] <= TotalTokens[r]
<1>1. /\ Prompt[r] \in Nat /\ Tokens[r] \in Seq(Nat) /\ TotalTokens[r] \in Nat
      /\ 0 < Prompt[r] /\ Prompt[r] <= Len(Tokens[r]) /\ Len(Tokens[r]) <= TotalTokens[r]
  BY ArenaAssumption
<1>2. Len(Tokens[r]) \in Nat
  BY <1>1
<1> QED
  BY <1>1, <1>2

(* After a restore only the pool is left to look at. *)
LEMMA RestoreDone ==
  ASSUME Inv, NEW s \in Slots, NEW n, Restores(s, n), NEW dst, PutRow(s, dst),
         queue' \in Seq(Bundles), IsInjective(queue'),
         \A b \in Bundles : b \in Range(queue') <=> ref'[b] = 0,
         PromisesCovered', res' \in [Slots -> Nat], EntriesNumbered',
         pub' \in [Bundles -> SUBSET Seq(Nat)], bytes' \in [Bundles -> Seq(Nat)],
         entries' \subseteq entries,
         ckpt' \in [Slots -> Seq(Nat)], cached' \in [Slots -> Seq(Nat)]
  PROVE  Inv'
<1>1. Counted' /\ Numbered'
  BY PutCounted, PutNumbered
<1>2. /\ Calls' /\ Settled' /\ Bounds'
      /\ len' \in [Slots -> Nat] /\ pos' \in [Slots -> Nat]
      /\ phase' \in [Slots -> {"idle", "reserved", "prefill", "decode", "failed"}]
  BY RestoresKeep
<1>3. TypeOK'
  <2>1. /\ TypeOK /\ UNCHANGED <<req, want>> /\ own' = row'
        /\ row' \in [Slots -> [Pages -> Bundles \cup {0}]] /\ ref' \in [Bundles -> Nat]
    BY DEF Inv, Restores, PutRow
  <2>2. entries' \subseteq [tokens : Seq(Nat), bundles : Seq(Bundles)]
    BY <2>1, Types
  <2> QED
    BY <1>2, <2>1, <2>2 DEF TypeOK
<1> QED
  BY <1>1, <1>2, <1>3 DEF Inv, Pool

(* A prefix of whole pages is restored. *)
LEMMA FullStepInv ==
  ASSUME Inv, NEW s \in Slots, NEW n, NEW src, Sources(n, src), n <= Prompt[req[s]],
         FullStep(s, n, src), ckpt' \in [Slots -> Seq(Nat)], cached' \in [Slots -> Seq(Nat)]
  PROVE  Inv'
<1> DEFINE p == PagesFor(n)
<1>1. TypeOK /\ Pool /\ EntriesNumbered /\ PromisesCovered
  BY DEF Inv
<1>2. /\ phase[s] = "reserved" /\ Enough(s, n, src)
      /\ ref' = [b \in Bundles |-> IF b \in Range(src) THEN ref[b] + 1 ELSE ref[b]]
      /\ queue' = LeftFree(n, src)
      /\ res' = Consume(s, p)
      /\ row' = [row EXCEPT ![s] = [i \in Pages |-> IF i <= p THEN src[i] ELSE @[i]]]
      /\ own' = row' /\ StartPrefill(s, n)
      /\ UNCHANGED <<pub, bytes, entries, req, want>>
  BY DEF FullStep
<1>3. req[s] \in Requests /\ row[s] = [i \in Pages |-> 0]
  BY <1>2, RestoreFacts
<1>4. /\ n \in Nat /\ src \in Seq(Bundles) /\ Len(src) = p
      /\ \A i \in 1..p : ServesPage(src[i], i) /\ src[i] \in Bundles
  BY DEF Sources
<1>5. p \in Nat /\ p <= MaxPages /\ 1..p \subseteq Pages
  <2>1. n <= TotalTokens[req[s]]
    BY <1>3, <1>4, Declared
  <2> QED
    BY <1>3, <1>4, <2>1, PromptPages
<1>6. RevivedOK(n, src)
  BY RevivedFacts
<1> HIDE DEF p
<1>7. /\ row' \in [Slots -> [Pages -> Bundles \cup {0}]]
      /\ \A t \in Slots \ {s} : row'[t] = row[t]
      /\ \A j \in Pages : row'[s][j] = IF j <= p THEN src[j] ELSE 0
  <2>1. row \in [Slots -> [Pages -> Bundles \cup {0}]]
    BY <1>1, Types
  <2>2. \A j \in Pages : j <= p => src[j] \in Bundles
    BY <1>4, <1>5 DEF Pages
  <2> QED
    BY <1>2, <1>3, <2>1, <2>2
<1>8. \A j \in 1..p : row'[s][j] # 0
  BY <1>4, <1>5, <1>7 DEF Bundles
<1>9. Restores(s, n)
  BY <1>2, <1>3, <1>4, <1>7, <1>8 DEF Restores, p
<1>10. ref' \in [Bundles -> Nat] /\ \A b \in Bundles : ref'[b] = IF b \in Range(src) THEN ref[b] + 1 ELSE ref[b]
  <2>1. ref \in [Bundles -> Nat]
    BY <1>1, Types
  <2> QED
    BY <1>2, <2>1
<1>11. PutRow(s, src)
  <2>1. IsInjective(src)
    BY <1>6 DEF RevivedOK
  <2>2. \A b \in Bundles : pub'[b] \subseteq pub[b]
    BY <1>2
  <2> QED
    <3>1. \A j \in Pages : row'[s][j] = IF j <= Len(src) THEN src[j] ELSE 0
      BY <1>4, <1>7
    <3>2. Len(src) <= MaxPages /\ src \in Seq(Bundles) /\ \A j \in 1..Len(src) : ServesPage(src[j], j)
      BY <1>4, <1>5
    <3>3. \A j \in 1..Len(src) : ServesPage(src[j], j) \/ (ref[src[j]] = 0 /\ pub'[src[j]] = {})
      BY <3>2 DEF ServesPage
    <3> QED
      BY <1>10, <2>1, <2>2, <3>1, <3>2, <3>3 DEF PutRow
<1>12. /\ queue' \in Seq(Bundles) /\ IsInjective(queue')
       /\ \A b \in Bundles : b \in Range(queue') <=> ref'[b] = 0
  <2>1. \A b \in Bundles : b \in Range(queue') <=> ref[b] = 0 /\ b \notin Range(src)
    BY <1>2, <1>6 DEF RevivedOK
  <2>2. \A b \in Bundles : ref[b] \in Nat
    BY <1>1, Types
  <2>3. \A b \in Bundles : ref'[b] = 0 <=> ref[b] = 0 /\ b \notin Range(src)
    BY <1>10, <2>2
  <2> QED
    BY <1>2, <1>6, <2>1, <2>3 DEF RevivedOK
<1>13. PromisesCovered' /\ res' \in [Slots -> Nat]
  <2>1. res[s] \in Nat /\ (res[s] = 0 \/ p <= res[s])
    BY <1>1, <1>2, Types DEF Enough, p
  <2>2. /\ res' \in [Slots -> Nat] /\ Reserved \in Nat /\ Reserved' \in Nat
        /\ res[s] = 0 => Reserved' = Reserved
        /\ res[s] # 0 => Reserved' = Reserved - p
    BY <1>1, <1>2, <1>5, <2>1, ConsumeFacts
  <2>3. /\ Len(queue') = Len(queue) - Len(Revived(n, src)) /\ Len(Revived(n, src)) <= p
        /\ Len(Revived(n, src)) \in Nat /\ Len(queue) \in Nat /\ Reserved <= Len(queue)
    BY <1>1, <1>2, <1>6, Types DEF RevivedOK, p, PromisesCovered
  <2>4. Len(Revived(n, src)) <= res[s] + (IF Len(queue) > Reserved + Watermark
                                          THEN Len(queue) - Reserved - Watermark ELSE 0)
    BY <1>2 DEF Enough, Unreserved
  <2>5. Watermark \in Nat
    BY ArenaAssumption
  <2>6. Reserved' <= Len(queue')
    <3>1. \A a, q, v, w, x \in Nat :
            a <= q /\ v <= x + (IF q > a + w THEN q - a - w ELSE 0) /\ x = 0 => a <= q - v
      OBVIOUS
    <3>2. \A a, q, v \in Nat : a <= q /\ v <= p => a - p <= q - v
      BY <1>5
    <3> DEFINE v == Len(Revived(n, src))
    <3>3. v \in Nat /\ v <= p /\ Len(queue') = Len(queue) - v
      BY <2>3
    <3> HIDE DEF v, p
    <3>4. CASE res[s] = 0
      BY <2>1, <2>2, <2>3, <2>4, <2>5, <3>1, <3>3, <3>4 DEF v
    <3>5. CASE res[s] # 0
      BY <2>2, <2>3, <3>2, <3>3, <3>5
    <3> QED
      BY <3>4, <3>5
  <2> QED
    BY <2>2, <2>6 DEF PromisesCovered
<1>14. EntriesNumbered'
  BY <1>1, <1>2 DEF EntriesNumbered, ServesPage
<1>15. pub' \in [Bundles -> SUBSET Seq(Nat)] /\ bytes' \in [Bundles -> Seq(Nat)]
  BY <1>1, <1>2, Types
<1> QED
  BY <1>2, <1>9, <1>11, <1>12, <1>13, <1>14, <1>15, RestoreDone

(* The last of the source pages, and the pages before it. *)
LEMMA LastPage ==
  ASSUME NEW p \in Nat, p > 0, NEW src \in Seq(Bundles), Len(src) = p, IsInjective(src)
  PROVE  /\ src[p] \in Bundles /\ src[p] \notin {src[i] : i \in 1..(p - 1)}
         /\ Range(src) = {src[i] : i \in 1..(p - 1)} \cup {src[p]}
         /\ \A i \in 1..(p - 1) : src[i] \in Bundles
<1>1. DOMAIN src = 1..p /\ p \in 1..p /\ \A i \in 1..(p - 1) : i \in 1..p /\ i # p
  OBVIOUS
<1>2. \A i \in 1..p : i \in 1..(p - 1) \/ i = p
  OBVIOUS
<1>3. src[p] \notin {src[i] : i \in 1..(p - 1)}
  BY <1>1 DEF IsInjective
<1>4. Range(src) = {src[i] : i \in 1..p}
  BY RangeInSet
<1>5. {src[i] : i \in 1..p} = {src[i] : i \in 1..(p - 1)} \cup {src[p]}
  BY <1>1, <1>2
<1>6. \A i \in 1..p : src[i] \in Bundles
  OBVIOUS
<1> QED
  BY <1>1, <1>3, <1>4, <1>5, <1>6

(* The free queue after the last page was copied to the fresh bundle f. *)
LEMMA PartialQueue ==
  ASSUME NEW q \in Seq(Bundles), IsInjective(q), q # <<>>, NEW l \in Bundles, l \notin Range(q),
         NEW back \in BOOLEAN
  PROVE  LET r == Tail(q) \o (IF back THEN <<l>> ELSE <<>>)
         IN  /\ r \in Seq(Bundles) /\ IsInjective(r)
             /\ Range(r) = (Range(q) \ {Head(q)}) \cup (IF back THEN {l} ELSE {})
             /\ Len(r) = Len(q) - (IF back THEN 0 ELSE 1)
<1> DEFINE t == Tail(q)
           e == <<>>
           u == <<l>>
<1>1. t \in Seq(Bundles) /\ IsInjective(t) /\ Range(t) = Range(q) \ {Head(q)} /\ Len(t) = Len(q) - 1
      /\ Len(q) \in Nat
  BY HeadTail
<1>2. CASE back
  <2>1. u \in Seq(Bundles) /\ Len(u) = 1 /\ Range(u) = {l} /\ IsInjective(u)
    <3>1. u \in Seq(Bundles) /\ Len(u) = 1 /\ DOMAIN u = {1} /\ u[1] = l
      OBVIOUS
    <3> QED
      BY <3>1 DEF Range, IsInjective
  <2> HIDE DEF t, u
  <2>2. Range(t) \cap Range(u) = {}
    BY <1>1, <2>1
  <2>3. t \o u \in Seq(Bundles) /\ IsInjective(t \o u) /\ Range(t \o u) = Range(t) \cup Range(u)
    BY <1>1, <2>1, <2>2, RangeOfConcat
  <2>4. Len(t \o u) = Len(t) + 1
    <3>1. \A x, y \in Seq(Bundles) : Len(x \o y) = Len(x) + Len(y)
      OBVIOUS
    <3> QED
      BY <1>1, <2>1, <3>1
  <2> DEFINE r == Tail(q) \o (IF back THEN <<l>> ELSE <<>>)
  <2>5. r = t \o u
    BY <1>2 DEF t, u
  <2> HIDE DEF r
  <2>6. Range(r) = (Range(q) \ {Head(q)}) \cup {l} /\ Len(r) = Len(q)
    BY <1>1, <2>1, <2>3, <2>4, <2>5
  <2>7. /\ r \in Seq(Bundles) /\ IsInjective(r)
        /\ Range(r) = (Range(q) \ {Head(q)}) \cup (IF back THEN {l} ELSE {})
        /\ Len(r) = Len(q) - (IF back THEN 0 ELSE 1)
    BY <1>1, <1>2, <2>3, <2>5, <2>6
  <2> QED
    BY <2>7 DEF r
<1>3. CASE ~ back
  <2>1. Tail(q) \o (IF back THEN <<l>> ELSE <<>>) = t
    BY <1>1, <1>3
  <2> HIDE DEF t
  <2> QED
    BY <1>1, <1>3, <2>1
<1> QED
  BY <1>2, <1>3

(* A prefix is restored whose last page is copied. *)
LEMMA PartialStepInv ==
  ASSUME Inv, NEW s \in Slots, NEW n, NEW src, Sources(n, src), n <= Prompt[req[s]],
         PartialStep(s, n, src), ckpt' \in [Slots -> Seq(Nat)], cached' \in [Slots -> Seq(Nat)]
  PROVE  Inv'
<1> DEFINE p == PagesFor(n)
           q == LeftFree(n, src)
           f == Head(q)
           l == src[p]
           before == {src[i] : i \in 1..(p - 1)}
           dst == [i \in 1..p |-> IF i < p THEN src[i] ELSE f]
<1>1. TypeOK /\ Pool /\ EntriesNumbered /\ PromisesCovered
  BY DEF Inv
<1>2. /\ phase[s] = "reserved" /\ Enough(s, n, src) /\ n % PageSize # 0 /\ MayAllocate(s, Len(q))
      /\ ref' = [b \in Bundles |-> IF b = f THEN 1 ELSE IF b \in before THEN ref[b] + 1 ELSE ref[b]]
      /\ queue' = Tail(q) \o (IF ref[l] = 0 THEN <<l>> ELSE <<>>)
      /\ pub' = [pub EXCEPT ![f] = {}]
      /\ entries' = IF pub[f] = {} THEN entries ELSE EntriesWithout(f)
      /\ bytes' = [bytes EXCEPT ![f] = bytes[l]]
      /\ res' = Consume(s, p)
      /\ row' = [row EXCEPT ![s] = [i \in Pages |-> IF i < p THEN src[i] ELSE IF i = p THEN f ELSE @[i]]]
      /\ own' = row' /\ StartPrefill(s, n) /\ UNCHANGED <<req, want>>
  BY DEF PartialStep
<1>3. req[s] \in Requests /\ row[s] = [i \in Pages |-> 0]
  BY <1>2, RestoreFacts
<1>4. /\ n \in Nat /\ src \in Seq(Bundles) /\ Len(src) = p
      /\ \A i \in 1..p : ServesPage(src[i], i) /\ src[i] \in Bundles
  BY DEF Sources
<1>5. p \in Nat /\ p <= MaxPages /\ 1..p \subseteq Pages /\ p > 0
  <2>1. n <= TotalTokens[req[s]]
    BY <1>3, <1>4, Declared
  <2>2. n > 0
    <3>1. 0 % PageSize = 0
      BY ArenaAssumption
    <3> QED
      BY <1>2, <1>4, <3>1
  <2>3. 1 <= p
    BY <1>4, <2>2, PagesForOrder
  <2>4. p \in Nat /\ p <= MaxPages /\ 1..p \subseteq Pages
    BY <1>3, <1>4, <2>1, PromptPages
  <2> QED
    BY <2>3, <2>4
<1>6. RevivedOK(n, src)
  BY RevivedFacts
<1>7. /\ q \in Seq(Bundles) /\ IsInjective(q) /\ IsInjective(src) /\ Len(q) \in Nat
      /\ \A b \in Bundles : b \in Range(q) <=> ref[b] = 0 /\ b \notin Range(src)
      /\ Len(Revived(n, src)) \in Nat /\ Len(q) = Len(queue) - Len(Revived(n, src))
      /\ Len(Revived(n, src)) <= p /\ (ref[l] # 0 => Len(Revived(n, src)) <= p - 1)
  BY <1>5, <1>6 DEF RevivedOK
<1> HIDE DEF p, q
<1>8. /\ l \in Bundles /\ l \notin before /\ Range(src) = before \cup {l}
      /\ \A i \in 1..(p - 1) : src[i] \in Bundles
  BY <1>4, <1>5, <1>7, LastPage
<1>9. q # <<>> /\ f \in Range(q) /\ f \in Bundles /\ ref[f] = 0 /\ f \notin Range(src)
  <2>1. q # <<>>
    BY <1>2, <1>7 DEF MayAllocate
  <2>2. f \in Range(q) /\ f \in Bundles
    BY <1>7, <2>1, HeadTail, RangeInSet
  <2> QED
    BY <1>7, <2>1, <2>2
<1> HIDE DEF f, l, before
<1>10. /\ row' \in [Slots -> [Pages -> Bundles \cup {0}]]
       /\ \A t \in Slots \ {s} : row'[t] = row[t]
       /\ \A j \in Pages : row'[s][j] = IF j < p THEN src[j] ELSE IF j = p THEN f ELSE 0
  <2>1. row \in [Slots -> [Pages -> Bundles \cup {0}]]
    BY <1>1, Types
  <2>2. \A j \in Pages : j < p => src[j] \in Bundles
    BY <1>4, <1>5 DEF Pages
  <2> QED
    BY <1>2, <1>3, <1>9, <2>1, <2>2
<1>11. \A j \in 1..p : row'[s][j] # 0
  <2>1. \A j \in 1..p : j \in Pages /\ (j < p \/ j = p) /\ src[j] \in Bundles
    BY <1>4, <1>5
  <2>2. ASSUME NEW j \in 1..p PROVE row'[s][j] \in Bundles
    <3>1. row'[s][j] = IF j < p THEN src[j] ELSE IF j = p THEN f ELSE 0
      BY <1>10, <2>1
    <3> QED
      BY <1>9, <2>1, <3>1
  <2>3. 0 \notin Bundles
    BY DEF Bundles
  <2> QED
    BY <2>2, <2>3
<1>12. Restores(s, n)
  BY <1>2, <1>3, <1>4, <1>10, <1>11 DEF Restores, p
<1>13. dst \in Seq(Bundles) /\ Len(dst) = p /\ IsInjective(dst) /\ Range(dst) = before \cup {f}
  <2>1. \A i \in 1..p : dst[i] \in Bundles
    BY <1>4, <1>9
  <2>2. dst \in Seq(Bundles) /\ Len(dst) = p /\ DOMAIN dst = 1..p
    BY <1>5, <2>1
  <2>3. \A i \in 1..p : src[i] \in Range(src) /\ src[i] # f
    BY <1>4, <1>9, RangeInSet
  <2>4. DOMAIN src = 1..p
    BY <1>4
  <2>5. IsInjective(dst)
    <3> SUFFICES ASSUME NEW i \in 1..p, NEW j \in 1..p, dst[i] = dst[j] PROVE i = j
      BY <2>2 DEF IsInjective
    <3>1. src[i] = src[j] => i = j
      BY <1>7, <2>4 DEF IsInjective
    <3>2. src[i] # f /\ src[j] # f
      BY <2>3
    <3>3. (dst[i] = IF i < p THEN src[i] ELSE f) /\ (dst[j] = IF j < p THEN src[j] ELSE f)
      OBVIOUS
    <3>4. (i < p \/ i = p) /\ (j < p \/ j = p)
      BY <1>5
    <3> HIDE DEF dst
    <3> QED
      BY <3>1, <3>2, <3>3, <3>4
  <2>6. ASSUME NEW b PROVE b \in Range(dst) <=> b \in before \cup {f}
    <3>1. b \in Range(dst) <=> \E i \in 1..p : dst[i] = b
      BY <2>2 DEF Range
    <3>2. b \in before <=> \E i \in 1..(p - 1) : src[i] = b
      BY DEF before
    <3>3. \A i \in 1..(p - 1) : i \in 1..p /\ i < p /\ dst[i] = src[i]
      BY <1>5
    <3>4. \A i \in 1..p : (i \in 1..(p - 1) /\ dst[i] = src[i]) \/ (i = p /\ dst[i] = f)
      BY <1>5
    <3>5. p \in 1..p /\ dst[p] = f
      BY <1>5
    <3> HIDE DEF dst
    <3> QED
      BY <3>1, <3>2, <3>3, <3>4, <3>5
  <2> QED
    BY <2>2, <2>5, <2>6
<1>14. /\ ref' \in [Bundles -> Nat] /\ (\A b \in Bundles : ref[b] \in Nat)
       /\ \A b \in Bundles : ref'[b] = IF b \in before \cup {f} THEN ref[b] + 1 ELSE ref[b]
  <2>1. ref \in [Bundles -> Nat]
    BY <1>1, Types
  <2> QED
    BY <1>2, <1>9, <2>1
<1>15. pub' \in [Bundles -> SUBSET Seq(Nat)] /\ (\A b \in Bundles : pub'[b] = IF b = f THEN {} ELSE pub[b])
  BY <1>1, <1>2, <1>9, Types
<1>16. PutRow(s, dst)
  <2>1. \A j \in Pages : row'[s][j] = IF j <= Len(dst) THEN dst[j] ELSE 0
    <3> SUFFICES ASSUME NEW j \in Pages PROVE row'[s][j] = IF j <= p THEN dst[j] ELSE 0
      BY <1>13
    <3>1. j <= p => j \in 1..p /\ dst[j] = IF j < p THEN src[j] ELSE f
      BY <1>5 DEF Pages
    <3>2. (row'[s][j] = IF j < p THEN src[j] ELSE IF j = p THEN f ELSE 0) /\ j \in Nat
      BY <1>10 DEF Pages
    <3> HIDE DEF dst
    <3> QED
      BY <1>5, <3>1, <3>2
  <2>2. \A j \in 1..Len(dst) : ServesPage(dst[j], j) \/ (ref[dst[j]] = 0 /\ pub'[dst[j]] = {})
    <3> SUFFICES ASSUME NEW j \in 1..p
                 PROVE  ServesPage(dst[j], j) \/ (ref[dst[j]] = 0 /\ pub'[dst[j]] = {})
      BY <1>13
    <3>1. CASE j < p
      BY <1>4, <3>1
    <3>2. CASE ~ (j < p)
      BY <1>9, <1>15, <3>2
    <3> QED
      BY <3>1, <3>2
  <2>3. \A b \in Bundles : pub'[b] \subseteq pub[b]
    BY <1>15
  <2> HIDE DEF dst
  <2>4. \A b \in Bundles : ref'[b] = IF b \in Range(dst) THEN ref[b] + 1 ELSE ref[b]
    BY <1>13, <1>14
  <2>5. Len(dst) <= MaxPages
    BY <1>5, <1>13
  <2> QED
    BY <1>13, <1>14, <2>1, <2>2, <2>3, <2>4, <2>5 DEF PutRow
<1>17. /\ queue' \in Seq(Bundles) /\ IsInjective(queue')
       /\ Range(queue') = (Range(q) \ {f}) \cup (IF ref[l] = 0 THEN {l} ELSE {})
       /\ Len(queue') = Len(q) - (IF ref[l] = 0 THEN 0 ELSE 1)
  <2>1. l \notin Range(q)
    BY <1>7, <1>8
  <2> DEFINE back == ref[l] = 0
             r == Tail(q) \o (IF back THEN <<l>> ELSE <<>>)
  <2>2. back \in BOOLEAN /\ queue' = r
    BY <1>2
  <2> HIDE DEF back
  <2>3. /\ r \in Seq(Bundles) /\ IsInjective(r)
        /\ Range(r) = (Range(q) \ {Head(q)}) \cup (IF back THEN {l} ELSE {})
        /\ Len(r) = Len(q) - (IF back THEN 0 ELSE 1)
    BY <1>7, <1>8, <1>9, <2>1, <2>2, PartialQueue
  <2> QED
    BY <2>2, <2>3 DEF back, f
<1>18. \A b \in Bundles : b \in Range(queue') <=> ref'[b] = 0
  <2> SUFFICES ASSUME NEW b \in Bundles PROVE b \in Range(queue') <=> ref'[b] = 0
    OBVIOUS
  <2>1. /\ b \in Range(q) <=> ref[b] = 0 /\ b \notin before /\ b # l
        /\ ref'[b] = (IF b \in before \cup {f} THEN ref[b] + 1 ELSE ref[b]) /\ ref[b] \in Nat
    BY <1>7, <1>8, <1>14
  <2>2. b \in Range(queue') <=> (b \in Range(q) /\ b # f) \/ (ref[l] = 0 /\ b = l)
    BY <1>17
  <2>3. ref'[b] = 0 <=> ref[b] = 0 /\ b \notin before /\ b # f
    BY <2>1
  <2>4. l # f /\ l \notin before
    BY <1>8, <1>9
  <2> QED
    BY <2>1, <2>2, <2>3, <2>4
<1>19. PromisesCovered' /\ res' \in [Slots -> Nat]
  <2>1. res[s] \in Nat /\ (res[s] = 0 \/ p <= res[s])
    BY <1>1, <1>2, Types DEF Enough, p
  <2>2. /\ res' \in [Slots -> Nat] /\ Reserved \in Nat /\ Reserved' \in Nat
        /\ res[s] = 0 => Reserved' = Reserved
        /\ res[s] # 0 => Reserved' = Reserved - p
    BY <1>1, <1>2, <1>5, <2>1, ConsumeFacts
  <2>3. Len(queue) \in Nat /\ Reserved <= Len(queue) /\ Watermark \in Nat
    BY <1>1, Types, ArenaAssumption DEF PromisesCovered
  <2>4. res[s] > 0 \/ Len(q) > Reserved + Watermark
    BY <1>2, <1>7, <2>2, <2>3 DEF MayAllocate, Unreserved
  <2> DEFINE v == Len(Revived(n, src))
  <2>6. /\ v \in Nat /\ Len(q) = Len(queue) - v /\ v <= p /\ (ref[l] # 0 => v <= p - 1)
        /\ Len(queue') = Len(q) - (IF ref[l] = 0 THEN 0 ELSE 1)
    BY <1>7, <1>17
  <2> HIDE DEF v
  <2>5. Reserved' <= Len(queue')
    <3>1. CASE res[s] = 0
      BY <2>2, <2>3, <2>4, <2>6, <3>1
    <3>2. CASE res[s] # 0 /\ ref[l] = 0
      BY <1>5, <2>1, <2>2, <2>3, <2>6, <3>2
    <3>3. CASE res[s] # 0 /\ ref[l] # 0
      BY <1>5, <2>1, <2>2, <2>3, <2>6, <3>3
    <3> QED
      BY <3>1, <3>2, <3>3
  <2> QED
    BY <2>2, <2>5 DEF PromisesCovered
<1>20. EntriesNumbered' /\ entries' \subseteq entries
  BY <1>1, <1>2, <1>9, EntriesAfterDrop
<1>21. bytes' \in [Bundles -> Seq(Nat)]
  BY <1>1, <1>2, <1>8, Types
<1> HIDE DEF dst
<1> QED
  BY <1>12, <1>15, <1>16, <1>17, <1>18, <1>19, <1>20, <1>21, RestoreDone

(* A safe miss. *)
LEMMA MissStepInv ==
  ASSUME Inv, NEW s \in Slots, MissStep(s),
         ckpt' \in [Slots -> Seq(Nat)], cached' \in [Slots -> Seq(Nat)]
  PROVE  Inv'
<1> DEFINE dst == <<>>
<1>1. TypeOK /\ Pool /\ EntriesNumbered /\ PromisesCovered
  BY DEF Inv
<1>2. /\ Restores(s, 0) /\ row' = row
      /\ queue' \in Seq(Bundles) /\ IsInjective(queue') /\ Range(queue') = Range(queue)
      /\ UNCHANGED <<ref, pub, res, bytes, entries>>
  BY DEF MissStep
<1>3. row[s] = [i \in Pages |-> 0]
  BY <1>2, RestoreFacts DEF Restores
<1>4. PutRow(s, dst)
  <2>1. dst \in Seq(Bundles) /\ IsInjective(dst) /\ Len(dst) = 0 /\ Range(dst) = {}
    BY EmptyRange
  <2>2. Len(dst) <= MaxPages
    BY <2>1, ArenaAssumption
  <2>3. ref \in [Bundles -> Nat]
    BY <1>1, Types
  <2>4. \A j \in Pages : row'[s][j] = IF j <= Len(dst) THEN dst[j] ELSE 0
    BY <1>2, <1>3, <2>1 DEF Pages
  <2>5. \A j \in 1..Len(dst) : ServesPage(dst[j], j) \/ (ref[dst[j]] = 0 /\ pub'[dst[j]] = {})
    BY <2>1
  <2> HIDE DEF dst
  <2> QED
    BY <1>2, <2>1, <2>2, <2>3, <2>4, <2>5 DEF PutRow
<1>5. \A b \in Bundles : b \in Range(queue') <=> ref'[b] = 0
  BY <1>1, <1>2 DEF Pool
<1>6. PromisesCovered' /\ res' \in [Slots -> Nat]
  <2>1. queue \in Seq(Bundles) /\ IsInjective(queue) /\ res \in [Slots -> Nat]
    BY <1>1, Types DEF Pool
  <2>2. Len(queue) = Cardinality(Range(queue)) /\ Len(queue') = Cardinality(Range(queue'))
    BY <1>2, <2>1, QueueLength
  <2>3. Reserved' = Reserved
    BY <1>2 DEF Reserved
  <2> QED
    BY <1>1, <1>2, <2>1, <2>2, <2>3 DEF PromisesCovered
<1>7. EntriesNumbered' /\ entries' \subseteq entries
  BY <1>1, <1>2 DEF EntriesNumbered, ServesPage
<1>8. pub' \in [Bundles -> SUBSET Seq(Nat)] /\ bytes' \in [Bundles -> Seq(Nat)]
  BY <1>1, <1>2, Types
<1> HIDE DEF dst
<1> QED
  BY <1>2, <1>4, <1>5, <1>6, <1>7, <1>8, RestoreDone

(* _restore_cached_page_prefix keeps the invariant. *)
LEMMA RestoreCachedInv ==
  ASSUME Inv, NEW s \in Slots, phase[s] = "reserved", NEW n, NEW src, Sources(n, src),
         n <= Prompt[req[s]], NEW forget, RestoreCached(s, n, src, forget)
  PROVE  Inv'
<1>1. /\ MissStep(s) \/ FullStep(s, n, src) \/ PartialStep(s, n, src)
      /\ ckpt' \in [Slots -> Seq(Nat)] /\ cached' \in [Slots -> Seq(Nat)]
  BY RestoreCachedSteps
<1>2. CASE MissStep(s)
  BY <1>1, <1>2, MissStepInv
<1>3. CASE FullStep(s, n, src)
  BY <1>1, <1>3, FullStepInv
<1>4. CASE PartialStep(s, n, src)
  BY <1>1, <1>4, PartialStepInv
<1> QED
  BY <1>1, <1>2, <1>3, <1>4

(* A restore that leaves the pool alone keeps the invariant. *)
LEMMA UntouchedInv ==
  ASSUME Inv, NEW s \in Slots, phase[s] = "reserved", StartPrefill(s, 0),
         UNCHANGED <<poolVars, row, own, entries, req, want>>,
         ckpt' \in [Slots -> Seq(Nat)], cached' \in [Slots -> Seq(Nat)]
  PROVE  Inv'
<1>1. queue' = queue /\ row' = row /\ own' = own /\ UNCHANGED <<ref, pub, res, bytes, entries, req, want>>
  BY DEF poolVars
<1>2. queue \in Seq(Bundles) /\ IsInjective(queue) /\ own = row
  BY Types, RestoreFacts DEF Inv, Pool
<1>3. MissStep(s)
  BY <1>1, <1>2, MissSteps
<1> QED
  BY <1>3, MissStepInv

(* A request without a usable prefix. *)
LEMMA RestoreMissInv ==
  ASSUME Inv, NEW s \in Slots, RestoreMiss(s)
  PROVE  Inv'
<1>1. /\ phase[s] = "reserved" /\ StartPrefill(s, 0)
      /\ UNCHANGED <<poolVars, row, own, entries, req, want>> /\ UNCHANGED <<ckpt, cached>>
  BY DEF RestoreMiss, cacheVars
<1>2. ckpt \in [Slots -> Seq(Nat)] /\ cached \in [Slots -> Seq(Nat)]
  BY Types DEF Inv
<1>3. ckpt' \in [Slots -> Seq(Nat)] /\ cached' \in [Slots -> Seq(Nat)]
  BY <1>1, <1>2
<1> QED
  BY <1>1, <1>3, UntouchedInv

(* A hit in the persistent cache. *)
LEMMA RestorePersistentInv ==
  ASSUME Inv, NEW s \in Slots, RestorePersistent(s)
  PROVE  Inv'
<1>1. PICK e \in entries :
        /\ IsPrefix(e.tokens, Prefix(req[s], Prompt[req[s]]))
        /\ RestoreCached(s, Len(e.tokens), e.bundles, TRUE)
  BY DEF RestorePersistent
<1>2. phase[s] = "reserved" /\ TypeOK /\ EntriesNumbered
  BY DEF RestorePersistent, Inv
<1>3. e.tokens \in Seq(Nat) /\ e.bundles \in Seq(Bundles)
  BY <1>2, Types
<1>4. Sources(Len(e.tokens), e.bundles)
  BY <1>2, <1>3 DEF Sources, EntriesNumbered
<1>5. Len(e.tokens) <= Prompt[req[s]]
  <2>1. req[s] \in Requests
    BY <1>2, RestoreFacts
  <2>2. Prompt[req[s]] \in 0..Len(Tokens[req[s]])
    BY <2>1, Declared
  <2>3. Len(Prefix(req[s], Prompt[req[s]])) = Prompt[req[s]]
    BY <2>1, <2>2, PrefixFacts
  <2> QED
    BY <1>1, <2>3 DEF IsPrefix
<1> QED
  BY <1>1, <1>2, <1>4, <1>5, RestoreCachedInv

(* A nonempty set of bounded numbers has a greatest element. *)
LEMMA GreatestElement ==
  ASSUME NEW n \in Nat, NEW T, T \subseteq 1..n, T # {}
  PROVE  \E x \in T : \A y \in T : y <= x
<1> DEFINE U == {n - x : x \in T}
<1>1. U \subseteq Nat /\ U # {}
  OBVIOUS
<1>2. PICK u \in U : \A y \in U : u <= y
  <2> HIDE DEF U
  <2> QED
    BY <1>1, LeastElement
<1>3. PICK x \in T : u = n - x
  BY <1>2
<1>4. ASSUME NEW y \in T PROVE y <= x
  <2>1. n - y \in U
    OBVIOUS
  <2>2. n - x <= n - y /\ x \in Nat /\ y \in Nat
    BY <1>2, <1>3, <2>1
  <2> QED
    BY <2>2
<1> QED
  BY <1>3, <1>4



(* A hit on a rolling checkpoint: the lookup misses, or finds such sources. *)
LEMMA RollingSteps ==
  ASSUME Inv, NEW s \in Slots, RestoreRolling(s)
  PROVE  /\ phase[s] = "reserved" /\ "rolling" \in Caches
         /\ \/ /\ StartPrefill(s, 0) /\ UNCHANGED <<poolVars, row, own, entries, req, want>>
               /\ ckpt' \in [Slots -> Seq(Nat)] /\ cached' \in [Slots -> Seq(Nat)]
            \/ \E n \in Nat : \E src \in Seq(Bundles) : \E forget \in BOOLEAN :
                 /\ Sources(n, src) /\ n < Prompt[req[s]]
                 /\ RestoreCached(s, n, src, forget)
<1>1. phase[s] = "reserved" /\ "rolling" \in Caches /\ TypeOK /\ req[s] \in Requests
  <2>1. phase[s] = "reserved" /\ "rolling" \in Caches /\ TypeOK
    BY DEF RestoreRolling, Inv
  <2> QED
    BY <2>1, RestoreFacts
<1> DEFINE n(o) == Len(ckpt[o])
           hit(m) == \A k \in Boundaries(m) : Holders(Prefix(req[s], k)) # {}
           ends(o, i) == {m \in Boundaries(n(o)) : hit(m) /\ PagesFor(m) = i}
           deepest(o, i) == Prefix(req[s], CHOOSE m \in ends(o, i) : \A k \in ends(o, i) : k <= m)
           pages(o) == 1..PagesFor(n(o))
<1>2. PICK o \in Slots :
        /\ RollingHit(s, o)
        /\ IF \E i \in pages(o) : ends(o, i) = {}
             THEN /\ ckpt' = IF o = s THEN ckpt ELSE [ckpt EXCEPT ![s] = <<>>]
                  /\ cached' = IF o = s THEN cached ELSE [cached EXCEPT ![s] = <<>>]
                  /\ StartPrefill(s, 0)
                  /\ UNCHANGED <<poolVars, row, own, entries, req, want>>
             ELSE \E src \in [pages(o) -> Bundles] :
                    /\ \A i \in pages(o) : src[i] \in Holders(deepest(o, i))
                    /\ RestoreCached(s, n(o), src, o # s)
  BY DEF RestoreRolling
<1>3. n(o) \in Nat /\ n(o) < Prompt[req[s]]
  <2>1. ckpt[o] \in Seq(Nat)
    BY <1>1, Types
  <2> QED
    BY <1>2, <2>1 DEF RollingHit
<1>4. CASE \E i \in pages(o) : ends(o, i) = {}
  <2>1. /\ ckpt' = IF o = s THEN ckpt ELSE [ckpt EXCEPT ![s] = <<>>]
        /\ cached' = IF o = s THEN cached ELSE [cached EXCEPT ![s] = <<>>]
        /\ StartPrefill(s, 0)
        /\ UNCHANGED <<poolVars, row, own, entries, req, want>>
    BY <1>2, <1>4
  <2>2. ckpt \in [Slots -> Seq(Nat)] /\ cached \in [Slots -> Seq(Nat)] /\ <<>> \in Seq(Nat)
    BY <1>1, Types
  <2>3. ckpt' \in [Slots -> Seq(Nat)] /\ cached' \in [Slots -> Seq(Nat)]
    BY <2>1, <2>2
  <2> QED
    BY <1>1, <2>1, <2>3
<1>5. CASE ~ \E i \in pages(o) : ends(o, i) = {}
  <2>1. PICK src \in [pages(o) -> Bundles] :
          /\ \A i \in pages(o) : src[i] \in Holders(deepest(o, i))
          /\ RestoreCached(s, n(o), src, o # s)
    BY <1>2, <1>5
  <2>2. PagesFor(n(o)) \in Nat
    BY <1>3, PagesForFacts
  <2>3. src \in Seq(Bundles) /\ Len(src) = PagesFor(n(o))
    BY <2>1, <2>2
  <2>4. ASSUME NEW i \in pages(o)
        PROVE  ServesPage(src[i], i)
    <3> DEFINE E == ends(o, i)
               m == CHOOSE x \in E : \A k \in E : k <= x
    <3>1. E \subseteq Boundaries(n(o)) /\ E \subseteq 1..n(o) /\ E # {} /\ \A x \in E : PagesFor(x) = i
      BY <1>5 DEF Boundaries
    <3>2. src[i] \in Bundles /\ Prefix(req[s], m) \in pub[src[i]]
      BY <2>1 DEF Holders
    <3> HIDE DEF E
    <3>3. \E x \in E : \A k \in E : k <= x
      BY <1>3, <3>1, GreatestElement
    <3>4. m \in E
      BY <3>3
    <3> HIDE DEF m
    <3>5. m \in 0..Len(Tokens[req[s]])
      BY <1>1, <1>3, <3>1, <3>4, Declared
    <3>6. Len(Prefix(req[s], m)) = m
      BY <1>1, <3>5, PrefixFacts
    <3>7. PagesFor(Len(Prefix(req[s], m))) = i
      BY <3>1, <3>4, <3>6
    <3> HIDE DEF n
    <3> QED
      BY <3>2, <3>7 DEF ServesPage
  <2>5. Sources(n(o), src)
    BY <1>3, <2>3, <2>4 DEF Sources
  <2>6. (o # s) \in BOOLEAN
    OBVIOUS
  <2> HIDE DEF n
  <2> QED
    BY <1>1, <1>3, <2>1, <2>3, <2>5, <2>6
<1> QED
  BY <1>4, <1>5

LEMMA RestoreRollingInv ==
  ASSUME Inv, NEW s \in Slots, RestoreRolling(s)
  PROVE  Inv'
<1>1. phase[s] = "reserved"
  BY RollingSteps
<1>2. CASE /\ StartPrefill(s, 0) /\ UNCHANGED <<poolVars, row, own, entries, req, want>>
           /\ ckpt' \in [Slots -> Seq(Nat)] /\ cached' \in [Slots -> Seq(Nat)]
  BY <1>1, <1>2, UntouchedInv
<1>3. ASSUME NEW n \in Nat, NEW src \in Seq(Bundles), NEW forget \in BOOLEAN,
             Sources(n, src), n < Prompt[req[s]], RestoreCached(s, n, src, forget)
      PROVE  Inv'
  <2>1. req[s] \in Requests
    BY <1>1, RestoreFacts
  <2>2. n <= Prompt[req[s]]
    BY <1>3, <2>1, Declared
  <2> QED
    BY <1>1, <1>3, <2>2, RestoreCachedInv
<1> QED
  BY <1>2, <1>3, RollingSteps

-----------------------------------------------------------------------------
(* Steps that leave the pool and the page tables alone *)

(* A step that leaves the pool, the page tables and the entries alone. *)
LEMMA SamePool ==
  ASSUME Inv, UNCHANGED <<ref, queue, pub, row, own, entries>>
  PROVE  /\ Pool' /\ Numbered' /\ EntriesNumbered'
         /\ \A t \in Slots : \A j : Private(t, j)' <=> Private(t, j)
<1>1. Pool /\ Numbered /\ EntriesNumbered
  BY DEF Inv
<1>2. Counted'
  BY <1>1 DEF Pool, Counted, Places
<1>3. Pool'
  BY <1>1, <1>2 DEF Pool
<1>4. Numbered'
  BY <1>1 DEF Numbered
<1>5. EntriesNumbered'
  BY <1>1 DEF EntriesNumbered, ServesPage
<1>6. \A t \in Slots : \A j : Private(t, j)' <=> Private(t, j)
  BY DEF Private
<1> QED
  BY <1>3, <1>4, <1>5, <1>6

(* Nobody writes: every slot is settled. *)
LEMMA AllSettled ==
  ASSUME Inv, \A t \in Slots : Live(t) /\ AllPrivate(t)
  PROVE  own = row
<1>1. TypeOK /\ Settled
  BY DEF Inv
<1>2. \A t \in Slots : own[t] = row[t]
  BY <1>1 DEF Settled
<1> QED
  BY <1>1, <1>2, Types

(* A request is admitted: what it reserves was promised to nobody. *)
LEMMA ReserveKvInv ==
  ASSUME Inv, NEW s \in Slots, NEW r \in Requests, ReserveKv(s, r)
  PROVE  Inv'
<1>1. /\ phase[s] = "idle"
      /\ \A t \in Slots : phase[t] \notin {"prefill", "failed"} /\ want[t] = 0
      /\ PagesFor(TotalTokens[r]) + Reserved + Watermark <= Len(queue)
      /\ res' = [res EXCEPT ![s] = PagesFor(TotalTokens[r])]
      /\ req' = [req EXCEPT ![s] = r]
      /\ phase' = [phase EXCEPT ![s] = "reserved"]
      /\ UNCHANGED <<ref, queue, pub, bytes, row, own, len, pos, entries, ckpt, cached, want>>
  BY DEF ReserveKv, cacheVars
<1>2. TypeOK /\ Calls /\ Bounds
  BY DEF Inv
<1>3. \A t \in Slots : Live(t) /\ AllPrivate(t)
  BY <1>1 DEF Live, AllPrivate, Touched
<1>4. own = row
  BY <1>3, AllSettled
<1>5. PagesFor(TotalTokens[r]) \in Nat
  BY Declared, PagesForFacts
<1>6. TypeOK' /\ res' \in [Slots -> Nat]
  <2>1. res' \in [Slots -> Nat]
    BY <1>1, <1>2, <1>5, Types
  <2>2. req' \in [Slots -> Requests \cup {NoReq}]
        /\ phase' \in [Slots -> {"idle", "reserved", "prefill", "decode", "failed"}]
    BY <1>1, <1>2, Types
  <2> QED
    BY <1>1, <1>2, <2>1, <2>2 DEF TypeOK
<1>7. PromisesCovered'
  <2> DEFINE v == PagesFor(TotalTokens[r])
  <2>1. res \in [Slots -> Nat] /\ v \in Nat /\ IsFiniteSet(Slots) /\ res[s] \in Nat
    BY <1>2, <1>5, Types, ArenaAssumption
  <2>2. v + Reserved + Watermark <= Len(queue) /\ res' = [res EXCEPT ![s] = v]
    BY <1>1
  <2> HIDE DEF v
  <2>3. /\ Total([res EXCEPT ![s] = v], Slots) + res[s] = Total(res, Slots) + v
        /\ Total([res EXCEPT ![s] = v], Slots) \in Nat /\ Total(res, Slots) \in Nat
    BY <2>1, TotalExcept
  <2>4. Reserved' = Total([res EXCEPT ![s] = v], Slots) /\ Reserved = Total(res, Slots)
    BY <2>2 DEF Reserved
  <2>5. Len(queue) \in Nat /\ Watermark \in Nat /\ queue' = queue
    BY <1>1, <1>2, Types, ArenaAssumption
  <2>6. Reserved' + res[s] = Reserved + v /\ Reserved' \in Nat /\ Reserved \in Nat
    BY <2>3, <2>4
  <2>7. Reserved' <= Len(queue)
    BY <2>1, <2>2, <2>5, <2>6
  <2> QED
    BY <2>5, <2>7 DEF PromisesCovered
<1>8. /\ phase'[s] = "reserved" /\ req'[s] = r /\ r # NoReq
      /\ \A t \in Slots \ {s} : phase'[t] = phase[t] /\ req'[t] = req[t]
  BY <1>1, <1>2, Types, ArenaAssumption
<1>9. \A t \in Slots : Live(t)' /\ want'[t] = 0 /\ AllPrivate(t)'
  BY <1>1, <1>3, <1>8 DEF Live, AllPrivate, Touched
<1>10. Calls'
  <2>1. \A t \in Slots : phase'[t] \in {"idle", "reserved"} =>
          want'[t] = 0 /\ row'[t] = [i \in Pages |-> 0] /\ len'[t] = 0 /\ pos'[t] = 0
    BY <1>1, <1>2, <1>8 DEF Calls
  <2>2. \A t \in Slots : phase'[t] = "idle" <=> req'[t] = NoReq
    BY <1>2, <1>8 DEF Calls
  <2> QED
    BY <1>9, <2>1, <2>2 DEF Calls
<1>11. Settled'
  BY <1>1, <1>4 DEF Settled
<1>12. Bounds'
  <2>1. Bounded(s)'
    <3>1. pos[s] = 0 /\ len[s] = 0
      BY <1>1, <1>2 DEF Calls
    <3>2. Len(Tokens[r]) \in Nat /\ TotalTokens[r] \in Nat
      BY Declared
    <3> QED
      BY <1>1, <1>8, <1>9, <3>1, <3>2, PagesForNone DEF Bounded
  <2>2. ASSUME NEW t \in Slots \ {s} PROVE Bounded(t)'
    BY <1>1, <1>2, <1>3, <1>8, <1>9 DEF Bounds, Bounded
  <2> QED
    BY <2>1, <2>2 DEF Bounds
<1> QED
  BY <1>1, <1>6, <1>7, <1>10, <1>11, <1>12, SamePool DEF Inv

(* A slot joins the batch: the slots before it are prepared. *)
LEMMA BeginWriteInv ==
  ASSUME Inv, NEW s \in Slots, BeginWrite(s)
  PROVE  Inv'
<1>1. PICK w \in Reach(s) : want' = [want EXCEPT ![s] = w]
  BY DEF BeginWrite
<1>2. /\ phase[s] \in {"prefill", "decode"}
      /\ phase[s] = "decode" => pos[s] < Len(Tokens[req[s]])
      /\ \A t \in Slots : phase[t] \notin {"reserved", "failed"}
      /\ \A t \in Slots : want[t] # 0 => Call(t) = Call(s) /\ Prepared(t)
      /\ UNCHANGED <<ref, queue, pub, res, bytes, row, own, len, pos, entries, ckpt, cached, req, phase>>
  BY DEF BeginWrite, poolVars, cacheVars
<1>3. TypeOK /\ Calls /\ Bounds /\ PromisesCovered
  BY DEF Inv
<1>4. \A t \in Slots : Live(t) /\ AllPrivate(t)
  <2>1. ASSUME NEW t \in Slots PROVE AllPrivate(t)
    <3>1. CASE want[t] = 0
      BY <3>1 DEF AllPrivate, Touched
    <3>2. CASE want[t] # 0
      BY <1>2, <3>2 DEF AllPrivate, Prepared
    <3> QED
      BY <3>1, <3>2
  <2> QED
    BY <1>2, <2>1 DEF Live
<1>5. own = row
  BY <1>4, AllSettled
<1>6. req[s] \in Requests /\ pos[s] \in Nat
  BY <1>2, <1>3, Types DEF Calls
<1>7. /\ w \in Nat /\ w <= TotalTokens[req[s]]
      /\ phase[s] = "prefill" => w <= Prompt[req[s]]
      /\ Call(s) = "plain" => w <= Len(Tokens[req[s]])
  <2>1. /\ Prompt[req[s]] \in Nat /\ Len(Tokens[req[s]]) \in Nat /\ TotalTokens[req[s]] \in Nat
        /\ Prompt[req[s]] <= TotalTokens[req[s]] /\ Len(Tokens[req[s]]) <= TotalTokens[req[s]]
    BY <1>6, Declared
  <2>2. CASE phase[s] = "prefill"
    <3>1. Call(s) = "prefill"
      BY <2>2 DEF Call
    <3>2. w = Least(pos[s] + Chunk, Prompt[req[s]])
      BY <1>1, <3>1 DEF Reach
    <3>3. Chunk \in Nat
      BY ArenaAssumption
    <3>4. \A a, b \in Nat : Least(a, b) \in Nat /\ Least(a, b) <= b
      BY DEF Least
    <3> DEFINE a == pos[s] + Chunk
               b == Prompt[req[s]]
    <3>6. a \in Nat /\ b \in Nat /\ w = Least(a, b)
      BY <1>6, <2>1, <3>2, <3>3
    <3> HIDE DEF a
    <3>5. w \in Nat /\ w <= b
      BY <3>4, <3>6
    <3> QED
      BY <2>1, <3>1, <3>5
  <2>3. CASE phase[s] = "decode" /\ Call(s) = "plain"
    <3>1. w = pos[s] + 1
      BY <1>1, <2>3 DEF Reach
    <3> QED
      BY <1>2, <1>6, <2>1, <2>3, <3>1
  <2>4. CASE phase[s] = "decode" /\ Call(s) # "plain"
    <3>1. Call(s) = "verify"
      BY <2>4 DEF Call
    <3>2. w \in (pos[s] + 1)..TotalTokens[req[s]]
      BY <1>1, <3>1 DEF Reach
    <3> QED
      BY <1>6, <2>1, <2>4, <3>2
  <2> QED
    BY <1>2, <2>2, <2>3, <2>4
<1>8. want' \in [Slots -> Nat] /\ want'[s] = w /\ \A t \in Slots \ {s} : want'[t] = want[t]
  BY <1>1, <1>3, <1>7, Types
<1>9. TypeOK'
  BY <1>2, <1>3, <1>8 DEF TypeOK
<1>10. Calls'
  <2>1. \A t \in Slots : Live(t)' /\ Call(t)' = Call(t)
    BY <1>2, <1>4 DEF Live, Call
  <2>2. ASSUME NEW t \in Slots \ {s} PROVE AllPrivate(t)'
    BY <1>2, <1>4, <1>8, SamePool DEF AllPrivate, Touched
  <2>3. ASSUME NEW t \in Slots, want'[t] # 0 PROVE phase[t] = phase[s]
    <3>1. t = s \/ (want[t] # 0 /\ Call(t) = Call(s))
      BY <1>2, <1>8, <2>3
    <3>2. want[t] # 0 => phase[t] \in {"prefill", "decode"}
      BY <1>2, <1>3, Types DEF Calls
    <3> QED
      BY <1>2, <3>1, <3>2 DEF Call
  <2>4. \A t, u \in Slots : Live(t)' /\ Live(u)' /\ want'[t] # 0 /\ want'[u] # 0 => phase'[t] = phase'[u]
    BY <1>2, <2>3
  <2>5. \A t, u \in Slots : t # u /\ Live(t)' /\ Live(u)' => AllPrivate(t)' \/ AllPrivate(u)'
    BY <2>2
  <2>6. \A t \in Slots : phase'[t] \in {"idle", "reserved"} =>
          want'[t] = 0 /\ row'[t] = [i \in Pages |-> 0] /\ len'[t] = 0 /\ pos'[t] = 0
    BY <1>2, <1>3, <1>8 DEF Calls
  <2>7. \A t \in Slots : phase'[t] = "idle" <=> req'[t] = NoReq
    BY <1>2, <1>3 DEF Calls
  <2>8. \A t \in Slots : phase'[t] # "reserved"
    BY <1>2
  <2> QED
    BY <2>1, <2>4, <2>5, <2>6, <2>7, <2>8 DEF Calls
<1>11. Settled'
  BY <1>2, <1>5 DEF Settled
<1>12. Bounds'
  <2>1. Bounded(s)'
    <3>1. Bounded(s) /\ Live(s) /\ Call(s)' = Call(s)
      BY <1>2, <1>3, <1>4 DEF Bounds, Call
    <3> QED
      BY <1>2, <1>7, <1>8, <3>1 DEF Bounded
  <2>2. ASSUME NEW t \in Slots \ {s} PROVE Bounded(t)'
    <3>1. Bounded(t) /\ Live(t) /\ Call(t)' = Call(t)
      BY <1>2, <1>3, <1>4 DEF Bounds, Call
    <3> QED
      BY <1>2, <1>8, <3>1 DEF Bounded
  <2> QED
    BY <2>1, <2>2 DEF Bounds
<1>13. PromisesCovered'
  BY <1>2, <1>3 DEF PromisesCovered, Reserved
<1> QED
  BY <1>2, <1>9, <1>10, <1>11, <1>12, <1>13, SamePool DEF Inv

(* A call that raises keeps the invariant. *)
LEMMA CallFailsInv ==
  ASSUME Inv, NEW s \in Slots, Live(s), want[s] # 0, CallFails(s)
  PROVE  Inv'
<1>1. /\ phase' = [t \in Slots |-> IF phase[t] \in {"prefill", phase[s]} THEN "failed" ELSE phase[t]]
      /\ UNCHANGED <<ref, queue, pub, res, bytes, row, own, len, pos, entries, ckpt, cached, req, want>>
  BY DEF CallFails, poolVars, cacheVars
<1>2. TypeOK /\ Calls /\ Settled /\ Bounds /\ PromisesCovered
  BY DEF Inv
<1>3. phase[s] \in {"prefill", "decode"}
  BY <1>2, Types DEF Calls, Live
<1>4. /\ phase' \in [Slots -> {"idle", "reserved", "prefill", "decode", "failed"}]
      /\ \A t \in Slots : Live(t)' => Live(t) /\ phase'[t] = phase[t] /\ phase[t] # phase[s]
      /\ \A t \in Slots : phase'[t] # "failed" => phase'[t] = phase[t]
      /\ \A t \in Slots : phase'[t] = "idle" <=> phase[t] = "idle"
  BY <1>1, <1>2, <1>3, Types DEF Live
<1>5. \A t \in Slots : Live(t)' => want[t] = 0
  BY <1>2, <1>4 DEF Calls
<1>6. \A t \in Slots : Live(t)' => AllPrivate(t)'
  BY <1>1, <1>5 DEF AllPrivate, Touched
<1>7. TypeOK'
  BY <1>1, <1>2, <1>4 DEF TypeOK
<1>8. Calls'
  <2>1. \A t \in Slots : phase'[t] # "reserved"
    BY <1>2, <1>4 DEF Calls
  <2>2. \A t \in Slots : phase'[t] \in {"idle", "reserved"} =>
          want'[t] = 0 /\ row'[t] = [i \in Pages |-> 0] /\ len'[t] = 0 /\ pos'[t] = 0
    BY <1>1, <1>2, <1>4, <2>1 DEF Calls
  <2>3. \A t \in Slots : phase'[t] = "idle" <=> req'[t] = NoReq
    BY <1>1, <1>2, <1>4 DEF Calls
  <2>4. \A t \in Slots : Live(t)' => want'[t] = 0
    BY <1>1, <1>5
  <2> QED
    BY <1>6, <2>1, <2>2, <2>3, <2>4 DEF Calls
<1>9. Settled'
  <2>1. \A t \in Slots : \A j : Private(t, j)' <=> Private(t, j)
    BY <1>1, SamePool
  <2>2. \A t \in Slots : AllPrivate(t)' <=> AllPrivate(t)
    BY <1>1, <2>1 DEF AllPrivate, Touched
  <2>3. \A t \in Slots : Live(t)' /\ AllPrivate(t)' => own'[t] = row'[t]
    BY <1>1, <1>2, <1>4, <2>2 DEF Settled
  <2>4. \A t, u \in Slots : own'[t] # row'[t] /\ own'[u] # row'[u] => t = u
    BY <1>1, <1>2 DEF Settled
  <2>5. \A t \in Slots : \A j \in Pages : own'[t][j] # row'[t][j] => Private(t, j)'
    BY <1>1, <1>2, <2>1 DEF Settled
  <2> QED
    BY <2>3, <2>4, <2>5 DEF Settled
<1>10. Bounds'
  <2>1. ASSUME NEW t \in Slots PROVE Bounded(t)'
    <3>1. Bounded(t)
      BY <1>2 DEF Bounds
    <3>2. phase'[t] = "prefill" => phase[t] = "prefill"
      BY <1>4
    <3>3. Live(t)' => want'[t] = 0
      BY <1>1, <1>5
    <3> QED
      BY <1>1, <1>4, <3>1, <3>2, <3>3 DEF Bounded
  <2> QED
    BY <2>1 DEF Bounds
<1>11. PromisesCovered'
  BY <1>1, <1>2 DEF PromisesCovered, Reserved
<1> QED
  BY <1>1, <1>7, <1>8, <1>9, <1>10, <1>11, SamePool DEF Inv

(* The allocator refuses a page. *)
LEMMA PrepareFailsInv ==
  ASSUME Inv, NEW s \in Slots, PrepareFails(s)
  PROVE  Inv'
<1>1. PICK i \in Pages : NextPage(s, i)
  BY DEF PrepareFails
<1>2. want[s] # 0 /\ Live(s) /\ CallFails(s)
  BY <1>1 DEF PrepareFails, NextPage, Touched, Live
<1> QED
  BY <1>2, CallFailsInv

(* The forward raises. *)
LEMMA ForwardRaisesInv ==
  ASSUME Inv, NEW s \in Slots, ForwardRaises(s)
  PROVE  Inv'
<1>1. want[s] # 0 /\ Live(s) /\ CallFails(s)
  BY DEF ForwardRaises, Ready, Live
<1> QED
  BY <1>1, CallFailsInv

(* A slot of a plain decode is booked. *)
LEMMA BookPlainInv ==
  ASSUME Inv, NEW s \in Slots, BookPlain(s)
  PROVE  Inv'
<1>1. /\ phase[s] = "decode" /\ want[s] # 0 /\ Call(s) = "plain"
      /\ len' = [len EXCEPT ![s] = want[s]]
      /\ UNCHANGED <<ref, queue, pub, res, bytes, row, own, pos, entries, ckpt, cached, req, phase, want>>
  BY DEF BookPlain, poolVars, cacheVars
<1>2. TypeOK /\ Calls /\ Settled /\ Bounds /\ PromisesCovered
  BY DEF Inv
<1>3. len' \in [Slots -> Nat] /\ len'[s] = want[s] /\ \A t \in Slots \ {s} : len'[t] = len[t]
  BY <1>1, <1>2, Types
<1>4. TypeOK'
  BY <1>1, <1>2, <1>3 DEF TypeOK
<1>5. \A t \in Slots : /\ Live(t)' <=> Live(t)
                       /\ AllPrivate(t)' <=> AllPrivate(t)
  BY <1>1, SamePool DEF Live, AllPrivate, Touched
<1>6. Calls'
  <2>1. \A t \in Slots : phase'[t] \in {"idle", "reserved"} =>
          want'[t] = 0 /\ row'[t] = [i \in Pages |-> 0] /\ len'[t] = 0 /\ pos'[t] = 0
    BY <1>1, <1>2, <1>3 DEF Calls
  <2>2. /\ \A t \in Slots : phase'[t] = "reserved" => \A u \in Slots : Live(u)' /\ want'[u] = 0
        /\ \A t, u \in Slots : ~ Live(t)' /\ Live(u)' => want'[u] = 0
        /\ \A t, u \in Slots : Live(t)' /\ Live(u)' /\ want'[t] # 0 /\ want'[u] # 0 => phase'[t] = phase'[u]
        /\ \A t, u \in Slots : t # u /\ Live(t)' /\ Live(u)' => AllPrivate(t)' \/ AllPrivate(u)'
        /\ \A t \in Slots : phase'[t] = "idle" <=> req'[t] = NoReq
    BY <1>1, <1>2, <1>5 DEF Calls
  <2> QED
    BY <2>1, <2>2 DEF Calls
<1>7. Settled'
  <2>1. \A t \in Slots : \A j : Private(t, j)' <=> Private(t, j)
    BY <1>1, SamePool
  <2> QED
    BY <1>1, <1>2, <1>5, <2>1 DEF Settled
<1>8. Bounds'
  <2>1. ASSUME NEW t \in Slots PROVE Bounded(t)'
    <3>1. Bounded(t) /\ Call(t)' = Call(t)
      BY <1>1, <1>2 DEF Bounds, Call
    <3>2. t = s => want[t] <= Len(Tokens[req[t]])
      BY <1>1, <3>1 DEF Bounded, Live
    <3> QED
      BY <1>1, <1>3, <1>5, <3>1, <3>2 DEF Bounded
  <2> QED
    BY <2>1 DEF Bounds
<1>9. PromisesCovered'
  BY <1>1, <1>2 DEF PromisesCovered, Reserved
<1> QED
  BY <1>1, <1>4, <1>6, <1>7, <1>8, <1>9, SamePool DEF Inv

-----------------------------------------------------------------------------
(* A forward ran *)

(* Before a forward the whole batch is prepared, and with it every slot.    *)
LEMMA ReadyFacts ==
  ASSUME Inv, NEW s \in Slots, Ready(s)
  PROVE  /\ \A t \in Slots : Live(t) /\ AllPrivate(t)
         /\ own = row /\ req[s] \in Requests
         /\ \A i \in 1..PagesFor(want[s]) : i \in Pages /\ row[s][i] \in Bundles
<1>1. TypeOK /\ Calls /\ Bounds /\ want[s] # 0 /\ Live(s)
  BY DEF Inv, Ready, Live
<1>2. ASSUME NEW t \in Slots PROVE Live(t) /\ AllPrivate(t)
  <2>1. Live(t)
    BY <1>1 DEF Calls
  <2>2. CASE want[t] = 0
    BY <2>1, <2>2 DEF AllPrivate, Touched
  <2>3. CASE want[t] # 0
    BY <2>1, <2>3 DEF Ready, Prepared, AllPrivate
  <2> QED
    BY <2>2, <2>3
<1>3. own = row
  BY <1>2, AllSettled
<1>4. req[s] \in Requests /\ phase[s] # "idle"
  BY <1>1, Types DEF Calls
<1>5. want[s] \in Nat /\ pos[s] \in Nat /\ want[s] <= TotalTokens[req[s]]
  BY <1>1, <1>4, Types DEF Bounds, Bounded
<1>6. ASSUME NEW i \in 1..PagesFor(want[s]) PROVE i \in Pages /\ row[s][i] \in Bundles
  <2>1. i \in Pages
    BY <1>4, <1>5, PromptPages
  <2>2. PagesFor(pos[s]) \in Nat /\ PagesFor(pos[s] + 1) <= PagesFor(pos[s]) + 1 /\ PagesFor(pos[s] + 1) \in Nat
    BY <1>5, PagesForOrder
  <2>3. PagesFor(want[s]) \in Nat
    BY <1>5, PagesForFacts
  <2>4. row[s][i] # 0
    <3>1. CASE i <= PagesFor(pos[s])
      <4>1. i \in 1..PagesFor(pos[s])
        BY <2>2, <3>1
      <4> QED
        BY <1>1, <4>1 DEF Bounds, Bounded
    <3>2. CASE ~ (i <= PagesFor(pos[s]))
      <4>1. i \in PagesFor(pos[s] + 1)..PagesFor(want[s])
        BY <2>2, <2>3, <3>2
      <4>2. i \in Touched(s)
        BY <1>1, <4>1 DEF Touched
      <4>3. own[s][i] # 0
        BY <1>2, <4>2 DEF AllPrivate, Private
      <4> QED
        BY <1>3, <4>3
    <3> QED
      BY <3>1, <3>2
  <2> QED
    BY <1>1, <2>1, <2>4, Types
<1> QED
  BY <1>2, <1>3, <1>4, <1>6

(* The bytes of written pages are prefixes of the request's tokens. *)
LEMMA WrittenType ==
  ASSUME TypeOK, NEW s \in Slots, req[s] \in Requests, NEW c, pos[s] + c \in 0..Len(Tokens[req[s]]),
         Touched(s) \subseteq Nat \ {0}
  PROVE  Written(s, c) \in [Bundles -> Seq(Nat)]
<1> DEFINE n == pos[s] + c
           page(b) == CHOOSE i \in Touched(s) : row[s][i] = b
           part(i) == IF (i - 1) * PageSize < n
                        THEN Prefix(req[s], Least(i * PageSize, n)) ELSE <<>>
<1>1. Written(s, c) = [b \in Bundles |-> IF \E i \in Touched(s) : row[s][i] = b
                                           THEN part(page(b)) ELSE bytes[b]]
  BY DEF Written
<1>2. PageSize \in Nat /\ Len(Tokens[req[s]]) \in Nat /\ n \in 0..Len(Tokens[req[s]])
  BY Declared, ArenaAssumption
<1> HIDE DEF n
<1>3. ASSUME NEW i \in Nat \ {0} PROVE part(i) \in Seq(Nat)
  <2>1. i * PageSize \in Nat
    BY <1>2
  <2>2. Least(i * PageSize, n) \in 0..Len(Tokens[req[s]])
    BY <1>2, <2>1 DEF Least
  <2>3. Prefix(req[s], Least(i * PageSize, n)) \in Seq(Nat)
    BY <2>2, PrefixFacts
  <2> QED
    BY <2>3
<1> HIDE DEF part
<1>4. ASSUME NEW b \in Bundles, \E i \in Touched(s) : row[s][i] = b
      PROVE  part(page(b)) \in Seq(Nat)
  <2>1. page(b) \in Touched(s)
    BY <1>4
  <2> HIDE DEF page
  <2> QED
    BY <1>3, <2>1
<1>5. \A b \in Bundles : bytes[b] \in Seq(Nat)
  BY Types
<1> HIDE DEF page
<1> QED
  BY <1>1, <1>4, <1>5

(* The block boundary at the end of a page. *)
LEMMA PageBoundary ==
  ASSUME NEW i \in Nat \ {0}, NEW n \in Nat, i < PagesFor(n)
  PROVE  i * PageSize \in Boundaries(n) /\ PagesFor(i * PageSize) = i
<1>1. PageSize \in Nat \ {0} /\ BlockSize \in Nat \ {0} /\ PageSize % BlockSize = 0
  BY ArenaAssumption
<1> DEFINE m == i * PageSize
           x == PagesFor(m)
           y == PagesFor(n)
<1>2. m \in Nat /\ m = PageSize * i /\ m >= 1
  BY <1>1
<1>3. x \in Nat /\ m <= PageSize * x /\ PageSize * x < m + PageSize
  BY <1>2, PagesForFacts
<1>4. y \in Nat /\ PageSize * y < n + PageSize /\ i + 1 <= y
  BY PagesForFacts
<1> HIDE DEF m, x, y
<1>5. m <= n
  <2>1. PICK d \in Nat : y = (i + 1) + d
    <3>1. y - (i + 1) \in Nat /\ y = (i + 1) + (y - (i + 1))
      BY <1>4
    <3> QED
      BY <3>1
  <2>2. PageSize * y = PageSize * (i + 1) + PageSize * d /\ PageSize * d \in Nat
    BY <1>1, <2>1
  <2>3. PageSize * (i + 1) = m + PageSize
    BY <1>1, <1>2
  <2> QED
    BY <1>1, <1>2, <1>4, <2>2, <2>3
<1>6. m % BlockSize = 0
  <2> DEFINE q == PageSize \div BlockSize
  <2>1. q \in Nat /\ PageSize = BlockSize * q
    BY <1>1
  <2> HIDE DEF q
  <2>2. m = BlockSize * (q * i) /\ q * i \in Nat
    <3>1. \A a, b, c \in Nat : (a * b) * c = a * (b * c) /\ b * c \in Nat
      OBVIOUS
    <3>2. (BlockSize * q) * i = BlockSize * (q * i) /\ q * i \in Nat
      BY <1>1, <2>1, <3>1
    <3> QED
      BY <1>2, <2>1, <3>2
  <2>3. \A k \in Nat : (BlockSize * k) % BlockSize = 0
    BY <1>1
  <2> QED
    BY <2>2, <2>3
<1>7. x = i
  <2>1. i <= x
    BY <1>1, <1>2, <1>3, LessProduct
  <2>2. PageSize * x <= PageSize * i + PageSize
    BY <1>1, <1>2, <1>3
  <2>3. CASE i + 1 <= x
    <3>1. PICK d \in Nat : x = (i + 1) + d
      <4>1. x - (i + 1) \in Nat /\ x = (i + 1) + (x - (i + 1))
        BY <1>3, <2>3
      <4> QED
        BY <4>1
    <3>2. PageSize * x = PageSize * (i + 1) + PageSize * d /\ PageSize * d \in Nat
      BY <1>1, <3>1
    <3>3. PageSize * (i + 1) = m + PageSize
      BY <1>1, <1>2
    <3> QED
      BY <1>1, <1>2, <1>3, <3>2, <3>3
  <2> QED
    BY <1>3, <2>1, <2>3
<1> QED
  BY <1>2, <1>5, <1>6, <1>7 DEF Boundaries, m, x

(* What is published on a bundle is what was, and the prefixes that end in  *)
(* the page of the row that the bundle serves.                              *)
PublishedOn(s, ends, b) ==
  /\ pub[b] \subseteq Published(s, ends)[b]
  /\ \A k \in Published(s, ends)[b] :
       k \in pub[b] \/ \E m \in ends : row[s][PagesFor(m)] = b /\ PagesFor(Len(k)) = PagesFor(m)
  /\ \A m \in ends : row[s][PagesFor(m)] = b =>
       \E k \in Published(s, ends)[b] : PagesFor(Len(k)) = PagesFor(m)

(* Published adds hashes of pages of the row, and no other. *)
LEMMA PublishedFacts ==
  ASSUME TypeOK, NEW s \in Slots, req[s] \in Requests, NEW ends, ends \subseteq 0..Len(Tokens[req[s]])
  PROVE  /\ Published(s, ends) \in [Bundles -> SUBSET Seq(Nat)]
         /\ \A b \in Bundles : PublishedOn(s, ends, b)
<1> DEFINE at(b) == {m \in ends : row[s][PagesFor(m)] = b}
           new(b) == {Listed(req[s], m) : m \in at(b)}
           P == Published(s, ends)
<1>1. P = [b \in Bundles |-> pub[b] \cup new(b)]
  BY DEF Published
<1>2. \A m \in ends : Listed(req[s], m) \in Seq(Nat) /\ Len(Listed(req[s], m)) = m
  BY ListedFacts
<1>3. pub \in [Bundles -> SUBSET Seq(Nat)]
  BY Types
<1>4. P \in [Bundles -> SUBSET Seq(Nat)]
  BY <1>1, <1>2, <1>3
<1>5. ASSUME NEW b \in Bundles PROVE PublishedOn(s, ends, b)
  <2>1. P[b] = pub[b] \cup new(b)
    BY <1>1
  <2>2. ASSUME NEW k \in new(b)
        PROVE  \E m \in ends : row[s][PagesFor(m)] = b /\ PagesFor(Len(k)) = PagesFor(m)
    <3>1. PICK m \in at(b) : k = Listed(req[s], m)
      OBVIOUS
    <3>2. m \in ends /\ row[s][PagesFor(m)] = b /\ Len(k) = m
      BY <1>2, <3>1
    <3> QED
      BY <3>2
  <2>3. ASSUME NEW m \in ends, row[s][PagesFor(m)] = b
        PROVE  \E k \in P[b] : PagesFor(Len(k)) = PagesFor(m)
    <3>1. Listed(req[s], m) \in P[b] /\ Len(Listed(req[s], m)) = m
      BY <1>2, <2>1, <2>3
    <3> QED
      BY <3>1
  <2> HIDE DEF new
  <2>4. \A k \in P[b] : k \in pub[b] \/ \E m \in ends : row[s][PagesFor(m)] = b /\ PagesFor(Len(k)) = PagesFor(m)
    BY <2>1, <2>2
  <2> QED
    BY <2>1, <2>3, <2>4 DEF PublishedOn
<1> QED
  BY <1>4, <1>5

(* Publishing keeps to the page numbers. *)
PublishKeeps(P) ==
  /\ \A b \in Bundles : \A k, l \in P[b] : PagesFor(Len(k)) = PagesFor(Len(l))
  /\ \A t \in Slots : \A j \in Pages :
       row[t][j] # 0 => \A k \in P[row[t][j]] : PagesFor(Len(k)) = j

(* A hash published on the bundle of a page has the number of that page. *)
LEMMA PublishNumbers ==
  ASSUME TypeOK, Numbered, NEW s \in Slots, NEW ends,
         \A m \in ends : PagesFor(m) \in Pages,
         \A b \in Bundles : PublishedOn(s, ends, b)
  PROVE  PublishKeeps(Published(s, ends))
<1> DEFINE P == Published(s, ends)
<1>1. \A t \in Slots : \A j \in Pages : row[t][j] \in Bundles \cup {0}
  BY Types
<1>2. 0 \notin Bundles
  BY DEF Bundles
<1>3. ASSUME NEW b \in Bundles, NEW k \in P[b], NEW t \in Slots, NEW j \in Pages, row[t][j] = b
      PROVE  PagesFor(Len(k)) = j
  <2>1. CASE k \in pub[b]
    BY <1>2, <1>3, <2>1 DEF Numbered
  <2>2. CASE k \notin pub[b]
    <3>1. PICK m \in ends : row[s][PagesFor(m)] = b /\ PagesFor(Len(k)) = PagesFor(m)
      BY <2>2 DEF PublishedOn
    <3>2. PagesFor(m) = j
      BY <1>2, <1>3, <3>1 DEF Numbered
    <3> QED
      BY <3>1, <3>2
  <2> QED
    BY <2>1, <2>2
<1>4. ASSUME NEW b \in Bundles, NEW k \in P[b], NEW l \in P[b]
      PROVE  PagesFor(Len(k)) = PagesFor(Len(l))
  <2>1. CASE k \in pub[b] /\ l \in pub[b]
    BY <2>1 DEF Numbered
  <2>2. CASE ~ (k \in pub[b] /\ l \in pub[b])
    <3>1. \E m \in ends : row[s][PagesFor(m)] = b
      BY <2>2 DEF PublishedOn
    <3>2. PICK m \in ends : row[s][PagesFor(m)] = b
      BY <3>1
    <3>3. PagesFor(Len(k)) = PagesFor(m) /\ PagesFor(Len(l)) = PagesFor(m)
      BY <1>3, <3>2
    <3> QED
      BY <3>3
  <2> QED
    BY <2>1, <2>2
<1>5. \A t \in Slots : \A j \in Pages : row[t][j] # 0 => \A k \in P[row[t][j]] : PagesFor(Len(k)) = j
  BY <1>1, <1>3
<1>6. \A b \in Bundles : \A k, l \in P[b] : PagesFor(Len(k)) = PagesFor(Len(l))
  BY <1>4
<1> QED
  BY <1>5, <1>6 DEF PublishKeeps

(* What prefill chunks and decode rounds have in common when they commit    *)
(* up to position n.                                                        *)
Commits(s, n) ==
  /\ Ready(s)
  /\ n \in Nat /\ n <= want[s] /\ n <= Len(Tokens[req[s]])
  /\ pos' = [pos EXCEPT ![s] = n]
  /\ len' \in [Slots -> Nat] /\ len'[s] <= Len(Tokens[req[s]])
  /\ phase' \in [Slots -> {"idle", "reserved", "prefill", "decode", "failed"}]
  /\ phase'[s] \in {"prefill", "decode"}
  /\ \A t \in Slots \ {s} : phase'[t] = phase[t] /\ len'[t] = len[t]
  /\ want' = [want EXCEPT ![s] = 0]
  /\ UNCHANGED <<ref, queue, res, row, own, cached, req>>
  /\ \A t \in Slots \ {s} : \A j \in Pages : Private(t, j) => pub'[own[t][j]] = {}

(* A commit leaves the pool and the page tables as they were. *)
LEMMA CommitsKeep ==
  ASSUME Inv, NEW s \in Slots, NEW n, Commits(s, n)
  PROVE  /\ Pool' /\ PromisesCovered' /\ Calls' /\ Settled' /\ Bounds'
         /\ pos' \in [Slots -> Nat] /\ want' \in [Slots -> Nat]
<1>1. TypeOK /\ Pool /\ PromisesCovered /\ Calls /\ Bounds
  BY DEF Inv
<1>2. /\ \A t \in Slots : Live(t) /\ AllPrivate(t)
      /\ own = row /\ req[s] \in Requests
      /\ \A i \in 1..PagesFor(want[s]) : i \in Pages /\ row[s][i] \in Bundles
  BY ReadyFacts DEF Commits
<1>3. /\ want[s] # 0 /\ n \in Nat /\ n <= want[s] /\ n <= Len(Tokens[req[s]])
      /\ pos' = [pos EXCEPT ![s] = n] /\ want' = [want EXCEPT ![s] = 0]
      /\ len'[s] <= Len(Tokens[req[s]]) /\ phase'[s] \in {"prefill", "decode"}
      /\ \A t \in Slots \ {s} : phase'[t] = phase[t] /\ len'[t] = len[t]
      /\ UNCHANGED <<ref, queue, res, row, own, req>>
  BY DEF Commits, Ready
<1>4. /\ pos' \in [Slots -> Nat] /\ want' \in [Slots -> Nat] /\ pos'[s] = n /\ want'[s] = 0
      /\ \A t \in Slots \ {s} : pos'[t] = pos[t] /\ want'[t] = want[t]
  BY <1>1, <1>3, Types
<1>5. Pool'
  <2>1. Counted'
    BY <1>1, <1>3 DEF Pool, Counted, Places
  <2> QED
    BY <1>1, <1>3, <2>1 DEF Pool
<1>6. PromisesCovered'
  BY <1>1, <1>3 DEF PromisesCovered, Reserved
<1>7. \A t \in Slots : Live(t)'
  BY <1>2, <1>3 DEF Live
<1>8. ASSUME NEW t \in Slots PROVE AllPrivate(t)'
  <2>1. CASE t = s
    BY <1>4, <2>1 DEF AllPrivate, Touched
  <2>2. CASE t # s
    <3>1. Touched(t)' = Touched(t) /\ Touched(t) \subseteq Pages
      BY <1>4, <2>2, TouchedInPages DEF Touched
    <3>2. ASSUME NEW j \in Touched(t) PROVE Private(t, j)'
      <4>1. Private(t, j) /\ j \in Pages
        BY <1>2, <3>1 DEF AllPrivate
      <4>2. pub'[own[t][j]] = {}
        BY <2>2, <4>1 DEF Commits
      <4> QED
        BY <1>3, <4>1, <4>2 DEF Private
    <3> QED
      BY <3>1, <3>2 DEF AllPrivate
  <2> QED
    BY <2>1, <2>2
<1>9. Calls'
  <2>1. \A t \in Slots : phase'[t] # "reserved"
    BY <1>1, <1>3 DEF Calls
  <2>2. \A t \in Slots : phase'[t] \in {"idle", "reserved"} =>
          want'[t] = 0 /\ row'[t] = [i \in Pages |-> 0] /\ len'[t] = 0 /\ pos'[t] = 0
    BY <1>1, <1>3, <1>4 DEF Calls
  <2>3. \A t \in Slots : phase'[t] = "idle" <=> req'[t] = NoReq
    BY <1>1, <1>2, <1>3, ArenaAssumption DEF Calls
  <2>4. \A t, u \in Slots : want'[t] # 0 /\ want'[u] # 0 => phase'[t] = phase'[u]
    BY <1>1, <1>2, <1>3, <1>4 DEF Calls
  <2> QED
    BY <1>7, <1>8, <2>1, <2>2, <2>3, <2>4 DEF Calls
<1>10. Settled'
  BY <1>2, <1>3 DEF Settled
<1>11. Bounds'
  <2>1. Bounded(s)'
    <3>1. \A i \in 1..PagesFor(n) : row[s][i] # 0
      <4>1. PagesFor(n) \in Nat /\ PagesFor(want[s]) \in Nat /\ PagesFor(n) <= PagesFor(want[s])
        BY <1>1, <1>3, Types, PagesForOrder
      <4>2. 0 \notin Bundles /\ \A i \in 1..PagesFor(n) : i \in 1..PagesFor(want[s])
        BY <4>1 DEF Bundles
      <4> QED
        BY <1>2, <4>2
    <3>2. Prompt[req[s]] \in Nat /\ TotalTokens[req[s]] \in Nat
      BY <1>2, Declared
    <3> QED
      BY <1>3, <1>4, <3>1, <3>2 DEF Bounded
  <2>2. ASSUME NEW t \in Slots \ {s} PROVE Bounded(t)'
    <3>1. Bounded(t) /\ Live(t) /\ Call(t)' = Call(t)
      BY <1>1, <1>2, <1>3 DEF Bounds, Call
    <3> QED
      BY <1>3, <1>4, <1>7, <3>1 DEF Bounded
  <2> QED
    BY <2>1, <2>2 DEF Bounds
<1> QED
  BY <1>4, <1>5, <1>6, <1>9, <1>10, <1>11

(* A rolling checkpoint is a list of tokens. *)
LEMMA CheckpointType ==
  ASSUME TypeOK, NEW s \in Slots, req[s] \in Requests, NEW n \in 0..Len(Tokens[req[s]]), Checkpoint(s, n)
  PROVE  ckpt' \in [Slots -> Seq(Nat)]
<1>1. ckpt \in [Slots -> Seq(Nat)] /\ <<>> \in Seq(Nat)
  BY Types
<1>2. Listed(req[s], n) \in Seq(Nat)
  BY ListedFacts
<1>3. \/ ckpt' = ckpt \/ ckpt' = [ckpt EXCEPT ![s] = <<>>]
      \/ ckpt' = [ckpt EXCEPT ![s] = Listed(req[s], n)]
  BY DEF Checkpoint
<1> QED
  BY <1>1, <1>2, <1>3

(* A decode round commits. *)
LEMMA CommitDecodeInv ==
  ASSUME Inv, NEW s \in Slots, CommitDecode(s)
  PROVE  Inv'
<1>1. PICK n \in (pos[s] + 1)..Least(want[s], Len(Tokens[req[s]])) :
        /\ pos' = [pos EXCEPT ![s] = n] /\ len' = [len EXCEPT ![s] = n]
        /\ bytes' = Written(s, n - pos[s]) /\ Checkpoint(s, n)
  BY DEF CommitDecode
<1>2. /\ Ready(s) /\ phase[s] = "decode" /\ want' = [want EXCEPT ![s] = 0]
      /\ UNCHANGED <<ref, queue, res, pub, row, own, entries, cached, req, phase>>
  BY DEF CommitDecode
<1>3. TypeOK /\ Numbered /\ EntriesNumbered
  BY DEF Inv
<1>4. req[s] \in Requests /\ want[s] \in Nat /\ pos[s] \in Nat /\ Len(Tokens[req[s]]) \in Nat
  BY <1>2, <1>3, Types, ReadyFacts, Declared
<1>5. n \in Nat /\ n <= want[s] /\ n <= Len(Tokens[req[s]]) /\ pos[s] + (n - pos[s]) = n
  BY <1>1, <1>4 DEF Least
<1>6. Commits(s, n)
  <2>1. len' \in [Slots -> Nat] /\ len'[s] = n /\ \A t \in Slots \ {s} : len'[t] = len[t]
    BY <1>1, <1>3, <1>5, Types
  <2>2. \A t \in Slots \ {s} : \A j \in Pages : Private(t, j) => pub'[own[t][j]] = {}
    BY <1>2 DEF Private
  <2>3. phase' \in [Slots -> {"idle", "reserved", "prefill", "decode", "failed"}]
    BY <1>2, <1>3, Types
  <2> QED
    BY <1>1, <1>2, <1>5, <2>1, <2>2, <2>3 DEF Commits
<1>7. /\ Pool' /\ PromisesCovered' /\ Calls' /\ Settled' /\ Bounds'
      /\ pos' \in [Slots -> Nat] /\ want' \in [Slots -> Nat]
  BY <1>6, CommitsKeep
<1>8. Numbered' /\ EntriesNumbered'
  BY <1>2, <1>3 DEF Numbered, EntriesNumbered, ServesPage
<1>9. bytes' \in [Bundles -> Seq(Nat)]
  <2>1. Touched(s) \subseteq Nat \ {0}
    BY TouchedInPages DEF Pages
  <2>2. pos[s] + (n - pos[s]) \in 0..Len(Tokens[req[s]])
    BY <1>4, <1>5
  <2> QED
    BY <1>1, <1>3, <1>4, <2>1, <2>2, WrittenType
<1>10. ckpt' \in [Slots -> Seq(Nat)]
  BY <1>1, <1>3, <1>4, <1>5, CheckpointType
<1>11. TypeOK'
  <2>1. len' \in [Slots -> Nat] /\ phase' \in [Slots -> {"idle", "reserved", "prefill", "decode", "failed"}]
    BY <1>6 DEF Commits
  <2> QED
    BY <1>2, <1>3, <1>7, <1>9, <1>10, <2>1 DEF TypeOK
<1> QED
  BY <1>7, <1>8, <1>11 DEF Inv

(* What a step that publishes owes the rest of the invariant. *)
PublishOK(s) ==
  /\ pub' \in [Bundles -> SUBSET Seq(Nat)]
  /\ entries' \subseteq [tokens : Seq(Nat), bundles : Seq(Bundles)]
  /\ Numbered' /\ EntriesNumbered'
  /\ \A t \in Slots \ {s} : \A j \in Pages : Private(t, j) => pub'[own[t][j]] = {}

(* Nothing is published. *)
LEMMA PublishNothing ==
  ASSUME Inv, NEW s \in Slots, UNCHANGED <<pub, entries, row, own>>
  PROVE  PublishOK(s)
<1>1. TypeOK /\ Numbered /\ EntriesNumbered
  BY DEF Inv
<1>2. Numbered' /\ EntriesNumbered'
  BY <1>1 DEF Numbered, EntriesNumbered, ServesPage
<1>3. pub' \in [Bundles -> SUBSET Seq(Nat)] /\ entries' \subseteq [tokens : Seq(Nat), bundles : Seq(Bundles)]
  BY <1>1, Types
<1>4. \A t \in Slots \ {s} : \A j \in Pages : Private(t, j) => pub'[own[t][j]] = {}
  BY DEF Private
<1> QED
  BY <1>2, <1>3, <1>4 DEF PublishOK

(* The prompt is published on the slot's row, and an entry for it stored. *)
LEMMA PublishPrompt ==
  ASSUME Inv, NEW s \in Slots, Ready(s), want[s] = Prompt[req[s]], UNCHANGED <<row, own>>,
         pub' = Published(s, Boundaries(Prompt[req[s]]) \cup {Prompt[req[s]]}),
         \A e \in entries' : e \in entries \/
           e = [tokens  |-> Listed(req[s], Prompt[req[s]]),
                bundles |-> [i \in 1..PagesFor(Prompt[req[s]]) |-> row[s][i]]]
  PROVE  PublishOK(s)
<1> DEFINE n == Prompt[req[s]]
           ends == Boundaries(n) \cup {n}
           bs == [i \in 1..PagesFor(n) |-> row[s][i]]
           new == [tokens |-> Listed(req[s], n), bundles |-> bs]
<1>1. TypeOK /\ Pool /\ Numbered /\ EntriesNumbered /\ Referenced
  BY CountedReferenced DEF Inv, Pool
<1>2. /\ own = row /\ req[s] \in Requests
      /\ \A i \in 1..PagesFor(n) : i \in Pages /\ row[s][i] \in Bundles
  BY ReadyFacts
<1>3. n \in Nat /\ n > 0 /\ n <= Len(Tokens[req[s]]) /\ Len(Tokens[req[s]]) \in Nat /\ n <= TotalTokens[req[s]]
  BY <1>2, Declared
<1>4. ends \subseteq 1..n /\ ends \subseteq 0..Len(Tokens[req[s]])
  BY <1>3 DEF Boundaries
<1>5. /\ Published(s, ends) \in [Bundles -> SUBSET Seq(Nat)]
      /\ \A b \in Bundles : PublishedOn(s, ends, b)
  <2> HIDE DEF ends
  <2> QED
    BY <1>1, <1>2, <1>4, PublishedFacts
<1>6. \A m \in ends : PagesFor(m) \in 1..PagesFor(n) /\ PagesFor(m) \in Pages
  <2> SUFFICES ASSUME NEW m \in ends PROVE PagesFor(m) \in 1..PagesFor(n)
    BY <1>2
  <2>1. m \in Nat /\ m > 0 /\ m <= n
    BY <1>3, <1>4
  <2>2. PagesFor(m) \in Nat /\ PagesFor(n) \in Nat /\ PagesFor(m) <= PagesFor(n) /\ 1 <= PagesFor(m)
    BY <1>3, <2>1, PagesForOrder
  <2> QED
    BY <2>2
<1> HIDE DEF n, ends
<1>7. pub' = Published(s, ends) /\ PublishKeeps(pub')
  <2>1. pub' = Published(s, ends)
    BY DEF n, ends
  <2>2. PublishKeeps(Published(s, ends))
    BY <1>1, <1>5, <1>6, PublishNumbers
  <2> QED
    BY <2>1, <2>2 DEF PublishKeeps
<1>8. Numbered'
  <2>1. /\ \A t, u \in Slots : \A i, j \in Pages : own'[t][i] # 0 /\ own'[t][i] = own'[u][j] => i = j
        /\ \A t, u \in Slots : \A i, j \in Pages : row'[t][i] # 0 /\ row'[t][i] = row'[u][j] => i = j
    BY <1>1 DEF Numbered
  <2>2. \A t \in Slots : \A j \in Pages : row'[t][j] # 0 => \A k \in pub'[row'[t][j]] : PagesFor(Len(k)) = j
    BY <1>7 DEF PublishKeeps
  <2>3. \A b \in Bundles : \A k, l \in pub'[b] : PagesFor(Len(k)) = PagesFor(Len(l))
    BY <1>7 DEF PublishKeeps
  <2> QED
    BY <2>1, <2>2, <2>3 DEF Numbered
<1>9. ASSUME NEW e \in entries, NEW i \in 1..Len(e.bundles) PROVE ServesPage(e.bundles[i], i)'
  <2>1. ServesPage(e.bundles[i], i)
    BY <1>1 DEF EntriesNumbered
  <2>2. e.bundles[i] \in Bundles
    BY <1>1, Types
  <2>3. pub[e.bundles[i]] \subseteq pub'[e.bundles[i]]
    BY <1>5, <1>7, <2>2 DEF PublishedOn
  <2> QED
    BY <2>1, <2>3 DEF ServesPage
<1>10. PagesFor(n) \in Nat
  BY <1>3, PagesForFacts
<1>11. ASSUME NEW i \in 1..PagesFor(n) PROVE \E k \in pub'[row[s][i]] : PagesFor(Len(k)) = i
  <2>1. PICK m \in ends : PagesFor(m) = i
    <3>1. CASE i = PagesFor(n)
      BY <3>1 DEF ends
    <3>2. CASE i # PagesFor(n)
      <4>1. i \in Nat \ {0} /\ i < PagesFor(n)
        BY <1>10, <3>2
      <4>2. i * PageSize \in Boundaries(n) /\ PagesFor(i * PageSize) = i
        BY <1>3, <4>1, PageBoundary
      <4> QED
        BY <4>2 DEF ends
    <3> QED
      BY <3>1, <3>2
  <2>2. row[s][i] \in Bundles
    BY <1>2
  <2>3. \E k \in pub'[row[s][i]] : PagesFor(Len(k)) = i
    BY <1>5, <1>7, <2>1, <2>2 DEF PublishedOn
  <2> QED
    BY <2>3
<1>12. bs \in Seq(Bundles) /\ Len(bs) = PagesFor(n)
  BY <1>2, <1>10
<1>13. Listed(req[s], n) \in Seq(Nat) /\ Len(Listed(req[s], n)) = n
  BY <1>2, <1>3, ListedFacts
<1>14. new.tokens = Listed(req[s], n) /\ new.bundles = bs /\ new \in [tokens : Seq(Nat), bundles : Seq(Bundles)]
  BY <1>12, <1>13
<1>15. \A e \in entries' : e \in entries \/ e = new
  BY DEF n
<1>16. entries' \subseteq [tokens : Seq(Nat), bundles : Seq(Bundles)]
  BY <1>1, <1>14, <1>15, Types
<1>17. EntriesNumbered'
  <2>1. ASSUME NEW e \in entries'
        PROVE  /\ Len(e.bundles) = PagesFor(Len(e.tokens))
               /\ \A i \in 1..Len(e.bundles) : ServesPage(e.bundles[i], i)'
    <3>1. CASE e \in entries
      BY <1>1, <1>9, <3>1 DEF EntriesNumbered
    <3>2. CASE e = new
      <4>1. e.bundles = bs /\ e.tokens = Listed(req[s], n)
        BY <1>14, <3>2
      <4>2. \A i \in 1..PagesFor(n) : bs[i] = row[s][i]
        OBVIOUS
      <4> HIDE DEF bs
      <4>3. ASSUME NEW i \in 1..Len(bs) PROVE \E k \in pub'[bs[i]] : PagesFor(Len(k)) = i
        BY <1>11, <1>12, <4>2
      <4>4. ASSUME NEW i \in 1..Len(e.bundles) PROVE ServesPage(e.bundles[i], i)'
        <5>1. \E k \in pub'[e.bundles[i]] : PagesFor(Len(k)) = i
          BY <4>1, <4>3
        <5> QED
          BY <5>1 DEF ServesPage
      <4>5. Len(e.bundles) = PagesFor(Len(e.tokens))
        BY <1>12, <1>13, <4>1
      <4> QED
        BY <4>4, <4>5
    <3> QED
      BY <1>15, <3>1, <3>2
  <2> QED
    BY <2>1 DEF EntriesNumbered
<1>18. ASSUME NEW t \in Slots \ {s}, NEW j \in Pages, Private(t, j) PROVE pub'[own[t][j]] = {}
  <2>1. own[t][j] # 0 /\ ref[own[t][j]] = 1 /\ pub[own[t][j]] = {} /\ own[t][j] \in Bundles
    BY <1>1, <1>18, Types DEF Private
  <2>2. \A i \in Pages : row[s][i] # own[t][j]
    BY <1>1, <1>2, <2>1 DEF Referenced
  <2>3. \A k \in pub'[own[t][j]] : FALSE
    BY <1>5, <1>6, <1>7, <2>1, <2>2 DEF PublishedOn
  <2> QED
    BY <2>3
<1> QED
  BY <1>5, <1>7, <1>8, <1>16, <1>17, <1>18 DEF PublishOK

(* _store_persistent_prefix publishes the prompt, stores an entry, or       *)
(* neither.                                                                 *)
LEMMA StorePromptOK ==
  ASSUME Inv, NEW s \in Slots, Ready(s), want[s] = Prompt[req[s]], UNCHANGED <<row, own>>, StorePrompt(s)
  PROVE  PublishOK(s) /\ ckpt' \in [Slots -> Seq(Nat)]
<1> DEFINE r == req[s]
           n == Prompt[r]
           e == [tokens |-> Listed(r, n), bundles |-> [i \in 1..PagesFor(n) |-> row[s][i]]]
<1>1. TypeOK /\ r \in Requests
  BY ReadyFacts DEF Inv
<1>2. n \in 0..Len(Tokens[r]) /\ <<>> \in Seq(Nat) /\ ckpt \in [Slots -> Seq(Nat)]
  BY <1>1, Declared, Types
<1>3. CASE "persistent" \notin Caches
  <2>1. Checkpoint(s, n) /\ UNCHANGED <<pub, entries>>
    BY <1>3 DEF StorePrompt
  <2>2. ckpt' \in [Slots -> Seq(Nat)]
    BY <1>1, <1>2, <2>1, CheckpointType
  <2> QED
    BY <2>1, <2>2, PublishNothing
<1>4. CASE "persistent" \in Caches
  <2>1. /\ ckpt' = ckpt \/ ckpt' = [ckpt EXCEPT ![s] = <<>>]
        /\ IF \E f \in entries : f.tokens = e.tokens
             THEN UNCHANGED <<pub, entries>>
             ELSE /\ pub' = Published(s, Boundaries(n) \cup {n})
                  /\ entries' \in
                       IF EntryBudget = 0 THEN {entries}
                       ELSE {keep \cup {e} : keep \in {K \in SUBSET entries : Cardinality(K) < EntryBudget}}
    BY <1>4 DEF StorePrompt
  <2>2. ckpt' \in [Slots -> Seq(Nat)]
    BY <1>2, <2>1
  <2>3. CASE \E f \in entries : f.tokens = e.tokens
    BY <2>1, <2>2, <2>3, PublishNothing
  <2>4. CASE ~ \E f \in entries : f.tokens = e.tokens
    <3>1. pub' = Published(s, Boundaries(n) \cup {n})
      BY <2>1, <2>4
    <3>2. \A d \in entries' : d \in entries \/ d = e
      <4>1. entries' \in
              IF EntryBudget = 0 THEN {entries}
              ELSE {keep \cup {e} : keep \in {K \in SUBSET entries : Cardinality(K) < EntryBudget}}
        BY <2>1, <2>4
      <4> HIDE DEF e
      <4> QED
        BY <4>1
    <3> QED
      BY <2>2, <3>1, <3>2, PublishPrompt
  <2> QED
    BY <2>3, <2>4
<1> QED
  BY <1>3, <1>4

(* A prefill chunk commits; the last one publishes the prompt. *)
LEMMA CommitPrefillInv ==
  ASSUME Inv, NEW s \in Slots, CommitPrefill(s)
  PROVE  Inv'
<1>1. /\ phase[s] = "prefill" /\ Ready(s)
      /\ pos' = [pos EXCEPT ![s] = want[s]]
      /\ bytes' = Written(s, want[s] - pos[s])
      /\ want' = [want EXCEPT ![s] = 0]
      /\ UNCHANGED <<ref, queue, res, row, own, cached, req>>
      /\ IF want[s] = Prompt[req[s]]
           THEN /\ len' = [len EXCEPT ![s] = want[s]]
                /\ phase' = [phase EXCEPT ![s] = "decode"]
                /\ StorePrompt(s)
           ELSE UNCHANGED <<len, phase, pub, entries, ckpt>>
  BY DEF CommitPrefill
<1>2. TypeOK /\ Bounds
  BY DEF Inv
<1>3. /\ req[s] \in Requests /\ want[s] \in Nat /\ pos[s] \in Nat /\ Len(Tokens[req[s]]) \in Nat
      /\ want[s] <= Len(Tokens[req[s]])
  <2>1. req[s] \in Requests
    BY <1>1, ReadyFacts
  <2>2. want[s] <= Prompt[req[s]] /\ want[s] \in Nat /\ pos[s] \in Nat
    BY <1>1, <1>2, Types DEF Bounds, Bounded
  <2>3. Prompt[req[s]] \in Nat /\ Prompt[req[s]] <= Len(Tokens[req[s]]) /\ Len(Tokens[req[s]]) \in Nat
    BY <2>1, Declared
  <2> QED
    BY <2>1, <2>2, <2>3
<1>4. PublishOK(s) /\ ckpt' \in [Slots -> Seq(Nat)]
  <2>1. CASE want[s] = Prompt[req[s]]
    BY <1>1, <2>1, StorePromptOK
  <2>2. CASE want[s] # Prompt[req[s]]
    BY <1>1, <1>2, <2>2, PublishNothing, Types
  <2> QED
    BY <2>1, <2>2
<1>5. /\ len' \in [Slots -> Nat] /\ len'[s] <= Len(Tokens[req[s]])
      /\ phase' \in [Slots -> {"idle", "reserved", "prefill", "decode", "failed"}]
      /\ phase'[s] \in {"prefill", "decode"}
      /\ \A t \in Slots \ {s} : phase'[t] = phase[t] /\ len'[t] = len[t]
  <2>1. /\ len \in [Slots -> Nat] /\ len[s] <= Len(Tokens[req[s]])
        /\ phase \in [Slots -> {"idle", "reserved", "prefill", "decode", "failed"}]
    BY <1>1, <1>2, Types DEF Bounds, Bounded
  <2> QED
    BY <1>1, <1>3, <2>1
<1>6. Commits(s, want[s])
  BY <1>1, <1>3, <1>4, <1>5 DEF Commits, PublishOK
<1>7. /\ Pool' /\ PromisesCovered' /\ Calls' /\ Settled' /\ Bounds'
      /\ pos' \in [Slots -> Nat] /\ want' \in [Slots -> Nat]
  BY <1>6, CommitsKeep
<1>8. bytes' \in [Bundles -> Seq(Nat)]
  <2>1. Touched(s) \subseteq Nat \ {0}
    BY TouchedInPages DEF Pages
  <2>2. pos[s] + (want[s] - pos[s]) \in 0..Len(Tokens[req[s]])
    BY <1>3
  <2> QED
    BY <1>1, <1>2, <1>3, <2>1, <2>2, WrittenType
<1>9. TypeOK'
  BY <1>1, <1>2, <1>4, <1>5, <1>7, <1>8 DEF TypeOK, PublishOK
<1> QED
  BY <1>4, <1>7, <1>9 DEF Inv, PublishOK

-----------------------------------------------------------------------------
(* The end of a request *)

(* What reset_slot publishes keeps to the page numbers, and spares the      *)
(* fresh pages of another slot whose call failed half-way.                  *)
ResetPub(s) == IF Committed(s) THEN Published(s, Publishable(s)) ELSE pub

(* The hashes p that the reset leaves behind. *)
ResetPublishes(s, p) ==
  /\ p \in [Bundles -> SUBSET Seq(Nat)]
  /\ \A b \in Bundles : pub[b] \subseteq p[b]
  /\ PublishKeeps(p)
  /\ \A t \in Slots \ {s} : \A j \in Pages : own[t][j] # row[t][j] => p[own[t][j]] = {}

(* The boundaries lie within the committed tokens, and a page in the row of *)
(* a settled slot is nobody else's private page.                            *)
LEMMA ResetPublished ==
  ASSUME Inv, NEW s \in Slots, phase[s] # "idle"
  PROVE  ResetPublishes(s, ResetPub(s))
<1>1. TypeOK /\ Calls /\ Settled /\ Numbered /\ Bounds /\ Referenced
  BY CountedReferenced DEF Inv, Pool
<1>2. CASE ~ Committed(s)
  <2>1. ResetPub(s) = pub
    BY <1>2 DEF ResetPub
  <2>2. PublishKeeps(pub)
    BY <1>1 DEF PublishKeeps, Numbered
  <2>3. \A t \in Slots : \A j \in Pages : own[t][j] # row[t][j] => pub[own[t][j]] = {}
    BY <1>1 DEF Settled, Private
  <2> QED
    BY <1>1, <2>1, <2>2, <2>3, Types DEF ResetPublishes
<1>3. CASE Committed(s)
  <2> DEFINE ends == Publishable(s)
             P == Published(s, ends)
  <2>1. req[s] \in Requests /\ len[s] \in Nat /\ len[s] <= Len(Tokens[req[s]])
    BY <1>1, <1>3, Types DEF Committed, Bounds, Bounded
  <2>2. /\ Len(Tokens[req[s]]) \in Nat /\ TotalTokens[req[s]] \in Nat
        /\ Len(Tokens[req[s]]) <= TotalTokens[req[s]] /\ PagesFor(TotalTokens[req[s]]) <= MaxPages
    BY <2>1, Declared, ArenaAssumption
  <2>3. \A m \in ends : m \in 1..len[s]
    BY DEF Publishable, Boundaries
  <2> HIDE DEF ends
  <2>4. ends \subseteq 0..Len(Tokens[req[s]])
    BY <2>1, <2>2, <2>3
  <2>5. ASSUME NEW m \in ends PROVE PagesFor(m) \in Pages
    <3>1. m \in Nat /\ 0 < m /\ m <= TotalTokens[req[s]]
      BY <2>1, <2>2, <2>3
    <3>2. /\ PagesFor(m) \in Nat /\ PagesFor(TotalTokens[req[s]]) \in Nat
          /\ PagesFor(m) <= PagesFor(TotalTokens[req[s]]) /\ 1 <= PagesFor(m)
      BY <2>2, <3>1, PagesForOrder
    <3> QED
      BY <2>2, <3>2, ArenaAssumption DEF Pages
  <2>6. P \in [Bundles -> SUBSET Seq(Nat)] /\ \A b \in Bundles : PublishedOn(s, ends, b)
    BY <1>1, <2>1, <2>4, PublishedFacts
  <2>7. PublishKeeps(P)
    BY <1>1, <2>5, <2>6, PublishNumbers
  <2>8. \A b \in Bundles : pub[b] \subseteq P[b]
    BY <2>6 DEF PublishedOn
  <2>9. ASSUME NEW t \in Slots \ {s}, NEW j \in Pages, own[t][j] # row[t][j]
        PROVE  P[own[t][j]] = {}
    <3>1. own[s] = row[s]
      BY <1>1, <2>9 DEF Settled
    <3>2. own[t][j] # 0 /\ ref[own[t][j]] = 1 /\ pub[own[t][j]] = {} /\ own[t][j] \in Bundles
      BY <1>1, <2>9, Types DEF Settled, Private
    <3>3. \A i \in Pages : row[s][i] # own[t][j]
      BY <1>1, <3>1, <3>2 DEF Referenced
    <3>4. \A k \in P[own[t][j]] : FALSE
      BY <2>5, <2>6, <3>2, <3>3 DEF PublishedOn
    <3> QED
      BY <3>4
  <2>10. ResetPub(s) = P
    BY <1>3 DEF ResetPub, ends
  <2> QED
    BY <2>6, <2>7, <2>8, <2>9, <2>10 DEF ResetPublishes
<1> QED
  BY <1>2, <1>3

(* What ResetSlot does to the slot s. *)
ResetStep(s) ==
  /\ phase[s] # "idle"
  /\ \A t \in Slots \ {s} : Live(t) => want[t] = 0
  /\ ResetPublishes(s, pub')
  /\ queue' = DecrefQueue(queue, Owned(s), pub')
  /\ ref' = [b \in Bundles |-> IF b \in Owned(s) THEN ref[b] - 1 ELSE ref[b]]
  /\ res' = [res EXCEPT ![s] = 0]
  /\ row' = [row EXCEPT ![s] = [i \in Pages |-> 0]]
  /\ own' = [own EXCEPT ![s] = [i \in Pages |-> 0]]
  /\ len' = [len EXCEPT ![s] = 0] /\ pos' = [pos EXCEPT ![s] = 0]
  /\ req' = [req EXCEPT ![s] = NoReq]
  /\ phase' = [phase EXCEPT ![s] = "idle"]
  /\ want' = [want EXCEPT ![s] = 0]
  /\ bytes' \in [Bundles -> Seq(Nat)] /\ cached' \in [Slots -> Seq(Nat)]
  /\ UNCHANGED <<entries, ckpt>>

(* ResetSlot ends the request of the slot. *)
LEMMA ResetSlotSteps ==
  ASSUME Inv, NEW s \in Slots, ResetSlot(s)
  PROVE  ResetStep(s)
<1>1. /\ phase[s] # "idle"
      /\ phase[s] = "failed" \/ \A t \in Slots : want[t] = 0
      /\ pub' = ResetPub(s)
      /\ queue' = DecrefQueue(queue, Owned(s), pub')
      /\ bytes' = [b \in Bundles |-> IF b \in Owned(s) /\ ref[b] = 1 /\ pub'[b] = {}
                                          THEN <<>> ELSE bytes[b]]
      /\ ref' = [b \in Bundles |-> IF b \in Owned(s) THEN ref[b] - 1 ELSE ref[b]]
      /\ res' = [res EXCEPT ![s] = 0]
      /\ cached' = IF Committed(s) THEN [cached EXCEPT ![s] = Listed(req[s], len[s])] ELSE cached
      /\ row' = [row EXCEPT ![s] = [i \in Pages |-> 0]]
      /\ own' = [own EXCEPT ![s] = [i \in Pages |-> 0]]
      /\ len' = [len EXCEPT ![s] = 0] /\ pos' = [pos EXCEPT ![s] = 0]
      /\ req' = [req EXCEPT ![s] = NoReq]
      /\ phase' = [phase EXCEPT ![s] = "idle"]
      /\ want' = [want EXCEPT ![s] = 0]
      /\ UNCHANGED <<entries, ckpt>>
  BY DEF ResetSlot, ResetPub
<1>2. TypeOK /\ Calls /\ Bounds
  BY DEF Inv
<1>3. \A t \in Slots \ {s} : Live(t) => want[t] = 0
  BY <1>1, <1>2 DEF Calls, Live
<1>4. ResetPublishes(s, pub')
  BY <1>1, ResetPublished
<1>5. bytes' \in [Bundles -> Seq(Nat)]
  BY <1>1, <1>2, Types
<1>6. cached' \in [Slots -> Seq(Nat)]
  <2>1. CASE Committed(s)
    <3>1. req[s] \in Requests /\ len[s] \in Nat /\ len[s] <= Len(Tokens[req[s]])
      BY <1>1, <1>2, <2>1, Types DEF Committed, Bounds, Bounded
    <3>2. Len(Tokens[req[s]]) \in Nat
      BY <3>1, Declared
    <3>3. Listed(req[s], len[s]) \in Seq(Nat)
      BY <3>1, <3>2, ListedFacts
    <3> QED
      BY <1>1, <1>2, <2>1, <3>3, Types
  <2>2. CASE ~ Committed(s)
    BY <1>1, <1>2, <2>2, Types
  <2> QED
    BY <2>1, <2>2
<1> QED
  BY <1>1, <1>3, <1>4, <1>5, <1>6 DEF ResetStep

(* The slot's pages give their references back. *)
LEMMA ResetPool ==
  ASSUME Inv, NEW s \in Slots, ResetStep(s)
  PROVE  /\ queue' \in Seq(Bundles) /\ ref' \in [Bundles -> Nat] /\ Pool' /\ PromisesCovered'
         /\ res' \in [Slots -> Nat]
<1>1. TypeOK /\ Pool /\ Counted /\ Referenced /\ Numbered /\ PromisesCovered
  BY CountedReferenced DEF Inv, Pool
<1>2. /\ queue' = DecrefQueue(queue, Owned(s), pub')
      /\ ref' = [b \in Bundles |-> IF b \in Owned(s) THEN ref[b] - 1 ELSE ref[b]]
      /\ res' = [res EXCEPT ![s] = 0]
      /\ own' = [own EXCEPT ![s] = [i \in Pages |-> 0]]
  BY DEF ResetStep
<1>3. /\ queue \in Seq(Bundles) /\ IsInjective(queue) /\ ref \in [Bundles -> Nat]
      /\ own \in [Slots -> [Pages -> Bundles \cup {0}]] /\ res \in [Slots -> Nat]
      /\ \A b \in Bundles : b \in Range(queue) <=> ref[b] = 0
  BY <1>1, Types DEF Pool
<1>4. 0 \notin Bundles
  BY DEF Bundles
<1>5. \A b : b \in Owned(s) <=> b # 0 /\ \E i \in Pages : own[s][i] = b
  BY <1>3 DEF Owned, Range
<1>6. Owned(s) \subseteq Bundles /\ \A b \in Owned(s) : ref[b] >= 1
  BY <1>1, <1>3, <1>5 DEF Referenced
<1>7. ref' \in [Bundles -> Nat]
  <2>1. \A b \in Bundles : (IF b \in Owned(s) THEN ref[b] - 1 ELSE ref[b]) \in Nat
    BY <1>3, <1>6
  <2> QED
    BY <1>2, <2>1
<1> DEFINE D == Owned(s)
<1>8. D \subseteq Bundles /\ \A b \in D : ref[b] = 1 => b \notin Range(queue)
  BY <1>3, <1>6
<1>9. /\ queue' \in Seq(Bundles) /\ IsInjective(queue')
      /\ Range(queue') = Range(queue) \cup {b \in D : ref[b] = 1}
  <2> HIDE DEF D
  <2>1. queue' = DecrefQueue(queue, D, pub')
    BY <1>2 DEF D
  <2> QED
    BY <1>3, <1>8, <2>1, DecrefFacts
<1>10. ASSUME NEW b \in Bundles PROVE b \in Range(queue') <=> ref'[b] = 0
  <2>1. ref'[b] = (IF b \in D THEN ref[b] - 1 ELSE ref[b]) /\ ref[b] \in Nat
    BY <1>2, <1>3
  <2>2. b \in Range(queue) <=> ref[b] = 0
    BY <1>3
  <2>3. b \in D => ref[b] >= 1
    BY <1>6
  <2>4. b \in Range(queue') <=> b \in Range(queue) \/ (b \in D /\ ref[b] = 1)
    BY <1>9
  <2> HIDE DEF D
  <2> QED
    BY <2>1, <2>2, <2>3, <2>4
<1>11. Counted'
  <2>1. ASSUME NEW b \in Bundles PROVE PlacesStep(b)
    <3>1. \A t \in Slots : \A j \in Pages : own'[t][j] = IF t = s THEN 0 ELSE own[t][j]
      BY <1>2, <1>3
    <3>2. ASSUME NEW t \in Slots, NEW j \in Pages
          PROVE  <<t, j>> \in Places(b)' <=> t # s /\ own[t][j] = b
      <4>1. <<t, j>> \in Places(b)' <=> own'[t][j] = b
        BY DEF Places
      <4>2. b # 0
        BY <1>4
      <4> QED
        BY <3>1, <4>1, <4>2
    <3>3. ASSUME NEW t \in Slots, NEW j \in Pages PROVE <<t, j>> \in Places(b) <=> own[t][j] = b
      BY PlaceOf
    <3>4. Places(b) \subseteq Slots \X Pages /\ Places(b)' \subseteq Slots \X Pages
      BY DEF Places
    <3>5. CASE b \in Owned(s)
      <4>1. PICK i \in Pages : own[s][i] = b
        BY <1>5, <3>5
      <4>2. \A j \in Pages : own[s][j] = b => j = i
        BY <1>1, <1>4, <4>1 DEF Numbered
      <4>3. <<s, i>> \in Places(b)
        BY <3>3, <4>1
      <4>4. Places(b)' = Places(b) \ {<<s, i>>}
        BY <3>2, <3>3, <3>4, <4>1, <4>2
      <4>5. ref'[b] = ref[b] - 1
        BY <1>2, <3>5
      <4> QED
        BY <4>3, <4>4, <4>5 DEF PlacesStep
    <3>6. CASE b \notin Owned(s)
      <4>1. \A i \in Pages : own[s][i] # b
        BY <1>4, <1>5, <3>6
      <4>2. Places(b)' = Places(b)
        BY <3>2, <3>3, <3>4, <4>1
      <4>3. ref'[b] = ref[b]
        BY <1>2, <3>6
      <4> QED
        BY <4>2, <4>3 DEF PlacesStep
    <3> QED
      BY <3>5, <3>6
  <2> QED
    BY <1>1, <2>1, CountedStep
<1>12. Pool'
  BY <1>9, <1>10, <1>11 DEF Pool
<1>13. PromisesCovered'
  <2>1. Len(queue) <= Len(queue') /\ Len(queue) \in Nat /\ Len(queue') \in Nat
    <3> DEFINE A == Range(queue)
               B == Range(queue')
    <3>1. /\ Len(queue) = Cardinality(A) /\ Len(queue) \in Nat
          /\ Len(queue') = Cardinality(B) /\ Len(queue') \in Nat /\ IsFiniteSet(B)
      BY <1>3, <1>9, QueueLength
    <3>2. A \subseteq B
      BY <1>9
    <3> HIDE DEF A, B
    <3>3. Cardinality(A) <= Cardinality(B)
      BY <3>1, <3>2, FS_Subset
    <3> QED
      BY <3>1, <3>3
  <2>2. Reserved' + res[s] = Reserved + 0 /\ Reserved' \in Nat /\ Reserved \in Nat
    <3>1. IsFiniteSet(Slots) /\ 0 \in Nat
      BY ArenaAssumption
    <3> DEFINE v == 0
    <3>2. v \in Nat /\ v = 0
      OBVIOUS
    <3> HIDE DEF v
    <3>3. /\ Total([res EXCEPT ![s] = v], Slots) + res[s] = Total(res, Slots) + v
          /\ Total([res EXCEPT ![s] = v], Slots) \in Nat /\ Total(res, Slots) \in Nat
      BY <1>3, <3>1, <3>2, TotalExcept
    <3> QED
      BY <1>2, <3>2, <3>3 DEF Reserved
  <2>3. res[s] \in Nat
    BY <1>3
  <2> QED
    BY <1>1, <2>1, <2>2, <2>3 DEF PromisesCovered
<1>14. res' \in [Slots -> Nat]
  BY <1>2, <1>3
<1> QED
  BY <1>7, <1>9, <1>12, <1>13, <1>14

(* A slot is reset. *)
LEMMA ResetSlotInv ==
  ASSUME Inv, NEW s \in Slots, ResetSlot(s)
  PROVE  Inv'
<1>1. ResetStep(s)
  BY ResetSlotSteps
<1>2. /\ TypeOK /\ Calls /\ Settled /\ Numbered /\ EntriesNumbered /\ Bounds /\ Referenced
  BY CountedReferenced DEF Inv, Pool
<1>3. /\ queue' \in Seq(Bundles) /\ ref' \in [Bundles -> Nat] /\ Pool' /\ PromisesCovered'
      /\ res' \in [Slots -> Nat]
  BY <1>1, ResetPool
<1>4. /\ ResetPublishes(s, pub') /\ \A t \in Slots \ {s} : Live(t) => want[t] = 0
      /\ bytes' \in [Bundles -> Seq(Nat)] /\ cached' \in [Slots -> Seq(Nat)]
      /\ UNCHANGED <<entries, ckpt>>
      /\ ref' = [b \in Bundles |-> IF b \in Owned(s) THEN ref[b] - 1 ELSE ref[b]]
  BY <1>1 DEF ResetStep
<1>5. /\ row' = [row EXCEPT ![s] = [i \in Pages |-> 0]]
      /\ own' = [own EXCEPT ![s] = [i \in Pages |-> 0]]
      /\ len' = [len EXCEPT ![s] = 0] /\ pos' = [pos EXCEPT ![s] = 0]
      /\ req' = [req EXCEPT ![s] = NoReq]
      /\ phase' = [phase EXCEPT ![s] = "idle"]
      /\ want' = [want EXCEPT ![s] = 0]
  BY <1>1 DEF ResetStep
<1>6. /\ row' \in [Slots -> [Pages -> Bundles \cup {0}]] /\ own' \in [Slots -> [Pages -> Bundles \cup {0}]]
      /\ len' \in [Slots -> Nat] /\ pos' \in [Slots -> Nat] /\ want' \in [Slots -> Nat]
      /\ req' \in [Slots -> Requests \cup {NoReq}]
      /\ phase' \in [Slots -> {"idle", "reserved", "prefill", "decode", "failed"}]
  <2>1. [i \in Pages |-> 0] \in [Pages -> Bundles \cup {0}]
    OBVIOUS
  <2> QED
    BY <1>2, <1>5, <2>1, Types
<1>7. TypeOK'
  BY <1>2, <1>3, <1>4, <1>6 DEF TypeOK, ResetPublishes
<1>8. /\ row'[s] = [i \in Pages |-> 0] /\ own'[s] = row'[s] /\ len'[s] = 0 /\ pos'[s] = 0
      /\ req'[s] = NoReq /\ phase'[s] = "idle" /\ want'[s] = 0
      /\ \A t \in Slots \ {s} :
           /\ row'[t] = row[t] /\ own'[t] = own[t] /\ len'[t] = len[t] /\ pos'[t] = pos[t]
           /\ req'[t] = req[t] /\ phase'[t] = phase[t] /\ want'[t] = want[t]
  BY <1>2, <1>5, Types
<1>9. \A t \in Slots : Live(t)' => want'[t] = 0 /\ AllPrivate(t)'
  <2>1. \A t \in Slots : Live(t)' => want'[t] = 0
    BY <1>4, <1>8 DEF Live
  <2> QED
    BY <2>1 DEF AllPrivate, Touched
<1>10. Calls'
  <2>1. ASSUME NEW u \in Slots, phase'[u] = "reserved", NEW t \in Slots PROVE Live(t)' /\ want'[t] = 0
    BY <1>2, <1>8, <2>1 DEF Calls, Live
  <2>2. \A t \in Slots : phase'[t] \in {"idle", "reserved"} =>
          want'[t] = 0 /\ row'[t] = [i \in Pages |-> 0] /\ len'[t] = 0 /\ pos'[t] = 0
    BY <1>2, <1>8 DEF Calls
  <2>3. \A t \in Slots : phase'[t] = "idle" <=> req'[t] = NoReq
    BY <1>2, <1>8 DEF Calls
  <2> QED
    BY <1>9, <2>1, <2>2, <2>3 DEF Calls
<1>11. Settled'
  <2>1. ASSUME NEW t \in Slots, Live(t)' PROVE own'[t] = row'[t]
    <3>1. CASE t = s
      BY <1>8, <3>1
    <3>2. CASE t # s
      <4>1. Live(t) /\ want[t] = 0
        BY <1>4, <1>8, <2>1, <3>2 DEF Live
      <4>2. AllPrivate(t)
        BY <4>1 DEF AllPrivate, Touched
      <4> QED
        BY <1>2, <1>8, <3>2, <4>1, <4>2 DEF Settled
    <3> QED
      BY <3>1, <3>2
  <2>2. \A t, u \in Slots : own'[t] # row'[t] /\ own'[u] # row'[u] => t = u
    BY <1>2, <1>8 DEF Settled
  <2>3. ASSUME NEW t \in Slots, NEW j \in Pages, own'[t][j] # row'[t][j] PROVE Private(t, j)'
    <3>1. t # s /\ own[t][j] # row[t][j] /\ own'[t][j] = own[t][j]
      BY <1>8, <2>3
    <3>2. own[t][j] # 0 /\ ref[own[t][j]] = 1 /\ own[t][j] \in Bundles
      BY <1>2, <3>1, Types DEF Settled, Private
    <3>3. own[t][j] \notin Owned(s)
      <4>1. \A i \in Pages : own[s][i] # own[t][j]
        BY <1>2, <3>1, <3>2 DEF Referenced
      <4>2. DOMAIN own[s] = Pages
        BY <1>2, Types
      <4> QED
        BY <4>1, <4>2 DEF Owned, Range
    <3>4. ref'[own[t][j]] = 1
      BY <1>4, <3>2, <3>3
    <3>5. pub'[own[t][j]] = {}
      BY <1>4, <3>1 DEF ResetPublishes
    <3> QED
      BY <3>1, <3>2, <3>4, <3>5 DEF Private
  <2> QED
    BY <2>1, <2>2, <2>3 DEF Settled
<1>12. \A t \in Slots : \A j \in Pages :
         /\ row'[t][j] # 0 => t # s /\ row'[t][j] = row[t][j]
         /\ own'[t][j] # 0 => t # s /\ own'[t][j] = own[t][j]
  BY <1>8
<1>13. Numbered'
  <2>1. \A t, u \in Slots : \A i, j \in Pages : own'[t][i] # 0 /\ own'[t][i] = own'[u][j] => i = j
    BY <1>2, <1>12 DEF Numbered
  <2>2. \A t, u \in Slots : \A i, j \in Pages : row'[t][i] # 0 /\ row'[t][i] = row'[u][j] => i = j
    BY <1>2, <1>12 DEF Numbered
  <2>3. \A t \in Slots : \A j \in Pages : row'[t][j] # 0 => \A k \in pub'[row'[t][j]] : PagesFor(Len(k)) = j
    <3>1. \A t \in Slots : \A j \in Pages : row[t][j] # 0 => \A k \in pub'[row[t][j]] : PagesFor(Len(k)) = j
      BY <1>4 DEF ResetPublishes, PublishKeeps
    <3> QED
      BY <1>12, <3>1
  <2>4. \A b \in Bundles : \A k, l \in pub'[b] : PagesFor(Len(k)) = PagesFor(Len(l))
    BY <1>4 DEF ResetPublishes, PublishKeeps
  <2> QED
    BY <2>1, <2>2, <2>3, <2>4 DEF Numbered
<1>14. EntriesNumbered'
  <2>1. ASSUME NEW e \in entries, NEW i \in 1..Len(e.bundles) PROVE ServesPage(e.bundles[i], i)'
    <3>1. ServesPage(e.bundles[i], i)
      BY <1>2 DEF EntriesNumbered
    <3>2. e.bundles[i] \in Bundles
      BY <1>2, Types
    <3>3. pub[e.bundles[i]] \subseteq pub'[e.bundles[i]]
      BY <1>4, <3>2 DEF ResetPublishes
    <3> QED
      BY <3>1, <3>3 DEF ServesPage
  <2> QED
    BY <1>2, <1>4, <2>1 DEF EntriesNumbered
<1>15. Bounds'
  <2>1. ASSUME NEW t \in Slots PROVE Bounded(t)'
    <3>1. CASE t = s
      <4>1. 1..PagesFor(pos'[t]) = {}
        BY <1>8, <3>1, PagesForNone
      <4> QED
        BY <1>8, <3>1, <4>1 DEF Bounded
    <3>2. CASE t # s
      <4>1. Bounded(t)
        BY <1>2 DEF Bounds
      <4>2. Live(t)' => want'[t] = 0
        BY <1>9
      <4> QED
        BY <1>8, <3>2, <4>1, <4>2 DEF Bounded, Live
    <3> QED
      BY <3>1, <3>2
  <2> QED
    BY <2>1 DEF Bounds
<1> QED
  BY <1>3, <1>7, <1>10, <1>11, <1>13, <1>14, <1>15 DEF Inv

-----------------------------------------------------------------------------
(* The theorems *)

(* The arena starts empty: every bundle is free, no page is owned. *)
LEMMA InitInv == Init => Inv
<1> SUFFICES ASSUME Init PROVE Inv
  OBVIOUS
<1>1. NumBundles \in Nat /\ IsFiniteSet(Slots) /\ 0 \notin Bundles
  BY ArenaAssumption DEF Bundles
<1>2. queue \in Seq(Bundles) /\ IsInjective(queue) /\ Range(queue) = Bundles /\ Len(queue) \in Nat
  <2>1. queue = [b \in 1..NumBundles |-> b]
    BY DEF Init, Bundles
  <2>2. queue \in Seq(Bundles) /\ Len(queue) \in Nat
    BY <1>1, <2>1 DEF Bundles
  <2>3. DOMAIN queue = 1..NumBundles
    BY <2>1
  <2> QED
    BY <2>1, <2>2, <2>3 DEF Range, IsInjective, Bundles
<1>3. TypeOK
  <2>1. <<>> \in Seq(Nat) /\ {} \in SUBSET Seq(Nat) /\ [i \in Pages |-> 0] \in [Pages -> Bundles \cup {0}]
    OBVIOUS
  <2> QED
    BY <1>2, <2>1 DEF Init, TypeOK
<1>4. Counted
  <2> SUFFICES ASSUME NEW b \in Bundles PROVE ref[b] = Cardinality(Places(b))
    BY DEF Counted
  <2>1. Places(b) = {}
    BY <1>1 DEF Init, Places
  <2> QED
    BY <2>1, FS_EmptySet DEF Init
<1>5. Pool
  BY <1>2, <1>4 DEF Init, Pool
<1>6. PromisesCovered
  <2>1. Units(res, Slots) = {}
    <3>1. \A x \in Slots : 1..res[x] = {}
      BY DEF Init
    <3> QED
      BY <3>1, UnitsMember
  <2>2. Reserved = 0
    BY <2>1, FS_EmptySet DEF Reserved, Total
  <2> QED
    BY <1>2, <2>2 DEF PromisesCovered
<1>7. Calls
  BY DEF Init, Calls, Live, AllPrivate, Touched
<1>8. Settled /\ Numbered /\ EntriesNumbered
  BY DEF Init, Settled, Numbered, EntriesNumbered
<1>9. Bounds
  <2>1. ASSUME NEW s \in Slots PROVE Bounded(s)
    <3>1. 1..PagesFor(pos[s]) = {}
      BY PagesForNone DEF Init
    <3> QED
      BY <3>1 DEF Init, Bounded
  <2> QED
    BY <2>1 DEF Bounds
<1> QED
  BY <1>3, <1>5, <1>6, <1>7, <1>8, <1>9 DEF Inv

(* Every step keeps the invariant. *)
LEMMA NextInv == Inv /\ [Next]_vars => Inv'
<1> SUFFICES ASSUME Inv, [Next]_vars PROVE Inv'
  OBVIOUS
<1>1. ASSUME NEW s \in Slots, NEW r \in Requests, ReserveKv(s, r) PROVE Inv'
  BY <1>1, ReserveKvInv
<1>2. ASSUME NEW s \in Slots, RestoreMiss(s) PROVE Inv'
  BY <1>2, RestoreMissInv
<1>3. ASSUME NEW s \in Slots, RestorePersistent(s) PROVE Inv'
  BY <1>3, RestorePersistentInv
<1>4. ASSUME NEW s \in Slots, RestoreRolling(s) PROVE Inv'
  BY <1>4, RestoreRollingInv
<1>5. ASSUME NEW s \in Slots, BeginWrite(s) PROVE Inv'
  BY <1>5, BeginWriteInv
<1>6. ASSUME NEW s \in Slots, PreparePage(s) PROVE Inv'
  BY <1>6, PreparePageInv
<1>7. ASSUME NEW s \in Slots, PrepareFails(s) PROVE Inv'
  BY <1>7, PrepareFailsInv
<1>8. ASSUME NEW s \in Slots, CommitPrefill(s) PROVE Inv'
  BY <1>8, CommitPrefillInv
<1>9. ASSUME NEW s \in Slots, BookPlain(s) PROVE Inv'
  BY <1>9, BookPlainInv
<1>10. ASSUME NEW s \in Slots, CommitDecode(s) PROVE Inv'
  BY <1>10, CommitDecodeInv
<1>11. ASSUME NEW s \in Slots, ForwardRaises(s) PROVE Inv'
  BY <1>11, ForwardRaisesInv
<1>12. ASSUME NEW s \in Slots, ResetSlot(s) PROVE Inv'
  BY <1>12, ResetSlotInv
<1>13. CASE UNCHANGED vars
  <2>1. UNCHANGED <<ref, queue, pub, res, bytes, row, own, len, pos, entries, ckpt, cached, req, phase, want>>
    BY <1>13 DEF vars, poolVars, cacheVars
  <2>2. Pool' /\ Numbered' /\ EntriesNumbered' /\ \A t \in Slots : \A j : Private(t, j)' <=> Private(t, j)
    BY <2>1, SamePool
  <2>3. \A t \in Slots : AllPrivate(t)' <=> AllPrivate(t)
    BY <2>1, <2>2 DEF AllPrivate, Touched
  <2>4. TypeOK /\ Calls /\ Settled /\ Bounds /\ PromisesCovered
    BY DEF Inv
  <2>5. TypeOK'
    BY <2>1, <2>4 DEF TypeOK
  <2>6. Calls'
    BY <2>1, <2>3, <2>4 DEF Calls, Live
  <2>7. Settled'
    BY <2>1, <2>2, <2>3, <2>4 DEF Settled, Live
  <2>8. Bounds'
    BY <2>1, <2>4 DEF Bounds, Bounded, Live, Call
  <2>9. PromisesCovered'
    BY <2>1, <2>4 DEF PromisesCovered, Reserved
  <2> QED
    BY <2>2, <2>5, <2>6, <2>7, <2>8, <2>9 DEF Inv
<1>14. CASE Next
  BY <1>1, <1>2, <1>3, <1>4, <1>5, <1>6, <1>7, <1>8, <1>9, <1>10, <1>11, <1>12, <1>14 DEF Next
<1> QED
  BY <1>13, <1>14

(* Every reachable state of the arena satisfies the invariant. *)
LEMMA InvHolds == Spec => []Inv
<1>1. Init => Inv
  BY InitInv
<1>2. Inv /\ [Next]_vars => Inv'
  BY NextInv
<1> QED
  BY <1>1, <1>2, PTL DEF Spec

(* The allocator, the page tables and the prefix caches keep their types:   *)
(* page ids stay within the pool, lengths and reservations never go below   *)
(* zero, a persistent entry names bundles.                                  *)
THEOREM ArenaTyping == Spec => []TypeOK
<1>1. Inv => TypeOK
  BY DEF Inv
<1> QED
  BY <1>1, InvHolds, PTL

(* No bundle leaks and none is handed out twice: the ref_cnt of a bundle is *)
(* the number of slot pages that own it, and exactly the bundles at zero    *)
(* are in the free queue, once each, after any interleaving of admissions,  *)
(* restores, page preparations, failed calls and resets.                    *)
THEOREM ArenaPool == Spec => []PoolConservation
<1>1. Inv => PoolConservation
  BY PoolConserved DEF Inv
<1> QED
  BY <1>1, InvHolds, PTL

(* The pages reserve_kv_capacity promised to the admitted requests are in   *)
(* the free queue, although restores take bundles out of it and copies on   *)
(* write allocate beyond what a restore has consumed.                       *)
THEOREM ArenaPromises == Spec => []PromisesCovered
<1>1. Inv => PromisesCovered
  BY DEF Inv
<1> QED
  BY <1>1, InvHolds, PTL

-----------------------------------------------------------------------------
(* Nobody's bytes are changed under it.                                     *)

(* A call writes beyond what is written, and a prefill within its prompt. *)
Advancing ==
  \A s \in Slots : /\ phase[s] = "prefill" => pos[s] < Prompt[req[s]]
                   /\ want[s] # 0 => pos[s] < want[s]

(* Only a published bundle is shared. *)
Shared == \A b \in Bundles : ref[b] >= 2 => pub[b] # {}

(* A bundle that a slot has replaced and that its row still names is        *)
(* published, or the slot was given it again for another page.              *)
Released ==
  \A s \in Slots : \A i \in Pages :
    row[s][i] # 0 /\ row[s][i] # own[s][i] =>
      pub[row[s][i]] # {} \/ \E j \in Pages : own[s][j] = row[s][i]

(* With these, the isolation of the slots is inductive. *)
Isolation == Advancing /\ Shared /\ Released

(* A step spares the bytes of the bundles that stay published. *)
Spares == \A b \in Bundles : pub[b] # {} /\ pub'[b] # {} => bytes'[b] = bytes[b]

(* A step leaves the slot what it had written: the page's bytes may move to *)
(* another bundle of the row, and only the slot's own write changes them.   *)
RowSpared(s) ==
  phase[s] # "failed" /\ pos'[s] >= pos[s] =>
    \A i \in 1..PagesFor(pos[s]) :
      pos'[s] = pos[s] \/ i * PageSize <= pos[s] =>
        row'[s][i] # 0 /\ bytes'[row'[s][i]] = bytes[row[s][i]]

(* Both, and the invariant again. *)
Isolates == Isolation' /\ Spares /\ \A s \in Slots : RowSpared(s)

(* A step that spares the bytes of the row. *)
LEMMA KeptRow ==
  ASSUME Inv, NEW t \in Slots, row'[t] = row[t],
         \A i \in Pages : i <= PagesFor(pos[t]) /\ row[t][i] # 0 => bytes'[row[t][i]] = bytes[row[t][i]]
  PROVE  RowSpared(t)
<1> SUFFICES ASSUME phase[t] # "failed", NEW i \in 1..PagesFor(pos[t])
             PROVE  row[t][i] # 0 /\ bytes'[row[t][i]] = bytes[row[t][i]]
  BY DEF RowSpared
<1>1. row[t][i] # 0
  BY DEF Inv, Bounds, Bounded, Live
<1>2. i \in Pages /\ i <= PagesFor(pos[t])
  BY WrittenPages
<1> QED
  BY <1>1, <1>2

(* A slot that has written nothing. *)
LEMMA EmptyRow ==
  ASSUME NEW t \in Slots, pos[t] = 0
  PROVE  RowSpared(t)
  BY PagesForNone DEF RowSpared

(* A slot that is reset. *)
LEMMA ClearedRow ==
  ASSUME TypeOK, NEW t \in Slots, pos'[t] = 0
  PROVE  RowSpared(t)
<1>1. pos[t] \in Nat
  BY Types
<1> QED
  BY <1>1, EmptyRow DEF RowSpared

(* A step that leaves the bundles and the page tables alone. *)
LEMMA SameContents ==
  ASSUME Inv, Isolation, UNCHANGED <<ref, pub, bytes, row, own>>, Advancing'
  PROVE  Isolates
<1>1. Shared' /\ Released'
  BY DEF Isolation, Shared, Released
<1>2. Spares
  BY DEF Spares
<1>3. \A t \in Slots : RowSpared(t)
  BY KeptRow
<1> QED
  BY <1>1, <1>2, <1>3 DEF Isolates, Isolation

(* The slots other than s are where they were. *)
LEMMA OthersProgress ==
  ASSUME Isolation, NEW s \in Slots,
         \A t \in Slots \ {s} : /\ pos'[t] = pos[t] /\ want'[t] = want[t]
                                /\ req'[t] = req[t] /\ phase'[t] = phase[t],
         phase'[s] = "prefill" => pos'[s] < Prompt[req'[s]],
         want'[s] # 0 => pos'[s] < want'[s]
  PROVE  Advancing'
  BY DEF Isolation, Advancing

-----------------------------------------------------------------------------
(* Admission, booking and failure *)

(* A request is admitted. *)
LEMMA ReserveKvContents ==
  ASSUME Inv, Isolation, NEW s \in Slots, NEW r \in Requests, ReserveKv(s, r)
  PROVE  Isolates
<1>1. /\ phase[s] = "idle" /\ want[s] = 0
      /\ req' = [req EXCEPT ![s] = r] /\ phase' = [phase EXCEPT ![s] = "reserved"]
      /\ UNCHANGED <<ref, pub, bytes, row, own, pos, want>>
  BY DEF ReserveKv
<1>2. TypeOK
  BY DEF Inv
<1>3. /\ phase'[s] = "reserved" /\ req'[s] = r
      /\ \A t \in Slots \ {s} : req'[t] = req[t] /\ phase'[t] = phase[t]
  BY <1>1, <1>2, Types
<1>4. Advancing'
  BY <1>1, <1>3, OthersProgress
<1> QED
  BY <1>1, <1>4, SameContents

(* A slot joins the batch. *)
LEMMA BeginWriteContents ==
  ASSUME Inv, Isolation, NEW s \in Slots, BeginWrite(s)
  PROVE  Isolates
<1>1. PICK w \in Reach(s) : want' = [want EXCEPT ![s] = w]
  BY DEF BeginWrite
<1>2. /\ phase[s] \in {"prefill", "decode"} /\ want[s] = 0
      /\ UNCHANGED <<ref, pub, bytes, row, own, pos, req, phase>>
  BY DEF BeginWrite, poolVars
<1>3. TypeOK /\ Calls
  BY DEF Inv
<1>4. req[s] \in Requests /\ pos[s] \in Nat /\ Prompt[req[s]] \in Nat /\ TotalTokens[req[s]] \in Nat
  <2>1. req[s] \in Requests
    BY <1>2, <1>3, Types DEF Calls
  <2> QED
    BY <1>3, <2>1, Types, Declared
<1>5. pos[s] < w
  <2>1. CASE Call(s) = "prefill"
    <3>1. w = Least(pos[s] + Chunk, Prompt[req[s]])
      BY <1>1, <2>1 DEF Reach
    <3>2. phase[s] = "prefill"
      BY <2>1 DEF Call
    <3>3. pos[s] < Prompt[req[s]]
      BY <3>2 DEF Isolation, Advancing
    <3>4. Chunk \in Nat \ {0}
      BY ArenaAssumption
    <3> QED
      BY <1>4, <3>1, <3>3, <3>4 DEF Least
  <2>2. CASE Call(s) = "plain"
    <3>1. w = pos[s] + 1
      BY <1>1, <2>2 DEF Reach
    <3> QED
      BY <1>4, <3>1
  <2>3. CASE Call(s) \notin {"prefill", "plain"}
    <3>1. w \in (pos[s] + 1)..TotalTokens[req[s]]
      BY <1>1, <2>3 DEF Reach
    <3> QED
      BY <1>4, <3>1
  <2> QED
    BY <2>1, <2>2, <2>3
<1>6. want'[s] = w /\ \A t \in Slots \ {s} : want'[t] = want[t]
  BY <1>1, <1>3, Types
<1>7. Advancing'
  <2>1. phase'[s] = "prefill" => pos'[s] < Prompt[req'[s]]
    BY <1>2 DEF Isolation, Advancing
  <2> QED
    BY <1>2, <1>5, <1>6, <2>1, OthersProgress
<1> QED
  BY <1>2, <1>7, SameContents

(* A call fails. *)
LEMMA CallFailsContents ==
  ASSUME Inv, Isolation, NEW s \in Slots, CallFails(s)
  PROVE  Isolates
<1>1. /\ phase' = [t \in Slots |-> IF phase[t] \in {"prefill", phase[s]} THEN "failed" ELSE phase[t]]
      /\ UNCHANGED <<ref, pub, bytes, row, own, pos, req, want>>
  BY DEF CallFails, poolVars
<1>2. \A t \in Slots : phase'[t] = "failed" \/ phase'[t] = phase[t]
  BY <1>1
<1>3. Advancing'
  BY <1>1, <1>2 DEF Isolation, Advancing
<1> QED
  BY <1>1, <1>3, SameContents

(* A slot of a plain decode is booked. *)
LEMMA BookPlainContents ==
  ASSUME Inv, Isolation, NEW s \in Slots, BookPlain(s)
  PROVE  Isolates
<1>1. UNCHANGED <<ref, pub, bytes, row, own, pos, req, phase, want>>
  BY DEF BookPlain, poolVars
<1>2. Advancing'
  BY <1>1 DEF Isolation, Advancing
<1> QED
  BY <1>1, <1>2, SameContents

-----------------------------------------------------------------------------
(* A page is prepared *)

(* The bytes of a page follow it into the new row, and only the slot's      *)
(* private pages get other bytes.                                           *)
PageMoves(s) ==
  /\ \A j \in Pages : row[s][j] # 0 => bytes'[row'[s][j]] = bytes[row[s][j]]
  /\ \A b \in Bundles : bytes'[b] # bytes[b] => \E j \in Pages : own'[s][j] = b /\ Private(s, j)'

(* The copies made when the last page is done read the old row; a bundle    *)
(* that was released and given out again in the same call is read before    *)
(* it is written.                                                           *)
LEMMA PageCopies ==
  ASSUME Inv, NEW s \in Slots, NEW i \in Pages, NEW f \in Bundles, PageStep(s, i, f)
  PROVE  PageMoves(s)
<1>1. TypeOK /\ Settled
  BY DEF Inv
<1>2. row \in [Slots -> [Pages -> Bundles \cup {0}]] /\ 0 \notin Bundles
  BY <1>1, Types DEF Bundles
<1>3. /\ \A j \in Pages : own'[s][j] = IF j = i THEN f ELSE own[s][j]
      /\ own' \in [Slots -> [Pages -> Bundles \cup {0}]]
  BY PageFacts
<1> DEFINE last == \A j \in Touched(s) \ {i} : Private(s, j)
<1>4. /\ row' = IF last THEN [row EXCEPT ![s] = own'[s]] ELSE row
      /\ IF last THEN PagesCopied(s) ELSE bytes' = bytes
  BY DEF PageStep
<1> HIDE DEF last
<1>5. CASE ~ last
  BY <1>4, <1>5 DEF PageMoves
<1>6. CASE last
  <2>1. row'[s] = own'[s] /\ PagesCopied(s)
    BY <1>2, <1>4, <1>6
  <2> DEFINE new == Renewed(s)
             at(b) == CHOOSE j \in new : own'[s][j] = b
  <2>2. \A j \in new : j \in Pages /\ own'[s][j] # row[s][j]
    BY DEF Renewed
  <2>3. \A j \in Pages : j \notin new => own'[s][j] = row[s][j]
    BY DEF Renewed
  <2>4. \A b \in Bundles : bytes'[b] = IF \E j \in new : own'[s][j] = b
                                         THEN OldBytes(s, at(b)) ELSE bytes[b]
    BY <2>1 DEF PagesCopied
  <2> HIDE DEF new
  <2>5. \A b : (\E j \in new : own'[s][j] = b) => at(b) \in new /\ own'[s][at(b)] = b
    OBVIOUS
  <2> HIDE DEF at
  <2>6. \A j, k \in Pages : own'[s][j] # 0 /\ own'[s][j] = own'[s][k] => j = k
    <3>1. Numbered'
      BY PageNumbered
    <3> QED
      BY <3>1 DEF Numbered
  <2>7. \A j \in new : Private(s, j)'
    <3> SUFFICES ASSUME NEW j \in new PROVE Private(s, j)'
      OBVIOUS
    <3>1. CASE j = i
      BY <3>1, PagePrivate
    <3>2. CASE j # i
      <4>1. own[s][j] # row[s][j] /\ j \in Pages
        BY <1>3, <2>2, <3>2
      <4>2. Private(s, j)
        BY <1>1, <4>1 DEF Settled
      <4> QED
        BY <3>2, <4>1, <4>2, PagePrivate
    <3> QED
      BY <3>1, <3>2
  <2>8. ASSUME NEW j \in Pages, row[s][j] # 0 PROVE bytes'[own'[s][j]] = bytes[row[s][j]]
    <3>1. CASE j \in new
      <4>1. own'[s][j] # 0
        BY <2>7, <3>1 DEF Private
      <4>2. own'[s][j] \in Bundles
        BY <1>3, <4>1
      <4>3. at(own'[s][j]) \in new /\ own'[s][at(own'[s][j])] = own'[s][j]
        BY <2>5, <3>1
      <4>4. at(own'[s][j]) = j
        BY <2>2, <2>6, <4>1, <4>3
      <4>5. bytes'[own'[s][j]] = OldBytes(s, j)
        BY <2>4, <3>1, <4>2, <4>4
      <4> QED
        BY <2>8, <4>5 DEF OldBytes
    <3>2. CASE j \notin new
      <4>1. own'[s][j] = row[s][j] /\ row[s][j] \in Bundles
        BY <1>2, <2>3, <2>8, <3>2
      <4>2. ~ \E k \in new : own'[s][k] = row[s][j]
        BY <2>2, <2>6, <2>8, <3>2, <4>1
      <4> QED
        BY <2>4, <4>1, <4>2
    <3> QED
      BY <3>1, <3>2
  <2>9. ASSUME NEW b \in Bundles, bytes'[b] # bytes[b]
        PROVE  \E j \in Pages : own'[s][j] = b /\ Private(s, j)'
    <3>1. PICK j \in new : own'[s][j] = b
      BY <2>4, <2>9
    <3> QED
      BY <2>2, <2>7, <3>1
  <2> QED
    BY <2>1, <2>8, <2>9 DEF PageMoves
<1> QED
  BY <1>5, <1>6

(* The pages of the other slots, and those the slot keeps, are spared. *)
LEMMA PageRows ==
  ASSUME Inv, Inv', NEW s \in Slots, NEW i \in Pages, NEW f \in Bundles, PageStep(s, i, f)
  PROVE  Spares /\ \A t \in Slots : RowSpared(t)
<1>1. PageMoves(s)
  BY PageCopies
<1>2. UNCHANGED <<pos, req, phase>> /\ Live(s)
  BY DEF PageStep
<1>3. Spares
  BY <1>1 DEF PageMoves, Private, Spares
<1>4. Referenced' /\ TypeOK /\ TypeOK' /\ Bounds /\ Bounds'
  <2>1. TypeOK' /\ Counted' /\ Bounds' /\ Bounds /\ TypeOK
    BY DEF Inv, Pool
  <2>2. TypeOK' /\ Counted' => Referenced'
    BY CountedReferenced, PTL
  <2> QED
    BY <2>1, <2>2
<1>5. RowSpared(s)
  <2> SUFFICES ASSUME NEW j \in 1..PagesFor(pos[s])
               PROVE  row'[s][j] # 0 /\ bytes'[row'[s][j]] = bytes[row[s][j]]
    BY DEF RowSpared
  <2>1. row[s][j] # 0 /\ row'[s][j] # 0
    BY <1>2, <1>4 DEF Bounds, Bounded, Live
  <2>2. j \in Pages
    BY WrittenPages
  <2> QED
    BY <1>1, <2>1, <2>2 DEF PageMoves
<1>6. ASSUME NEW t \in Slots \ {s} PROVE RowSpared(t)
  <2>1. row'[t] = row[t] /\ own'[t] = own[t] /\ own[t] = row[t]
    BY PageFacts
  <2>2. ASSUME NEW j \in Pages, row[t][j] # 0 PROVE bytes'[row[t][j]] = bytes[row[t][j]]
    <3>1. row[t][j] \in Bundles
      BY <1>4, <2>2, Types
    <3>2. ASSUME NEW k \in Pages, own'[s][k] = row[t][j], Private(s, k)' PROVE FALSE
      <4>1. own'[s][k] # 0 /\ ref'[own'[s][k]] = 1 /\ own'[s][k] = own'[t][j]
        BY <2>1, <3>2 DEF Private
      <4>2. s = t
        BY <1>4, <4>1 DEF Referenced
      <4> QED
        BY <4>2
    <3> QED
      BY <1>1, <3>1, <3>2 DEF PageMoves
  <2> QED
    BY <2>1, <2>2, KeptRow
<1> QED
  BY <1>3, <1>5, <1>6

(* The bundle that the page gave up is published. *)
LEMMA PageReleased ==
  ASSUME Inv, Isolation, NEW s \in Slots, NEW i \in Pages, NEW f \in Bundles, PageStep(s, i, f)
  PROVE  Shared' /\ Released'
<1>1. TypeOK /\ Settled /\ Numbered /\ Referenced /\ Shared /\ Released
  BY CountedReferenced DEF Inv, Pool, Isolation
<1>2. /\ \A t \in Slots \ {s} : own[t] = row[t] /\ own'[t] = own[t] /\ row'[t] = row[t]
      /\ \A t \in Slots : \A j \in Pages : own[t][j] # f
      /\ \A j \in Pages : own'[s][j] = IF j = i THEN f ELSE own[s][j]
  BY PageFacts
<1>3. /\ row' = [row EXCEPT ![s] = own'[s]] \/ row' = row
      /\ pub' = [pub EXCEPT ![f] = {}] /\ ~ Private(s, i)
      /\ ref' = [b \in Bundles |-> IF b = f THEN 1 ELSE IF b = own[s][i] THEN ref[b] - 1 ELSE ref[b]]
  BY DEF PageStep
<1>4. /\ pub \in [Bundles -> SUBSET Seq(Nat)] /\ ref \in [Bundles -> Nat]
      /\ row \in [Slots -> [Pages -> Bundles \cup {0}]] /\ own \in [Slots -> [Pages -> Bundles \cup {0}]]
  BY <1>1, Types
<1>5. \A b \in Bundles : pub'[b] = IF b = f THEN {} ELSE pub[b]
  BY <1>3, <1>4
<1>6. Shared'
  <2> SUFFICES ASSUME NEW b \in Bundles, ref'[b] >= 2 PROVE pub'[b] # {}
    BY DEF Shared
  <2>1. ref[b] \in Nat /\ ref'[b] = IF b = f THEN 1 ELSE IF b = own[s][i] THEN ref[b] - 1 ELSE ref[b]
    BY <1>3, <1>4
  <2>2. b # f /\ ref[b] >= 2
    BY <2>1
  <2> QED
    BY <1>1, <1>5, <2>2 DEF Shared
<1>7. ASSUME NEW t \in Slots, NEW j \in Pages, row'[t][j] # 0, row'[t][j] # own'[t][j]
      PROVE  pub'[row'[t][j]] # {} \/ \E k \in Pages : own'[t][k] = row'[t][j]
  <2>1. t = s /\ row' = row
    BY <1>2, <1>3, <1>4, <1>7
  <2> DEFINE b == row[s][j]
  <2>2. b \in Bundles /\ b # 0 /\ own'[s][j] # b
    BY <1>4, <1>7, <2>1
  <2> SUFFICES ASSUME b # f PROVE pub[b] # {} \/ \E k \in Pages : own'[s][k] = b
    <3>1. own'[s][i] = f
      BY <1>2
    <3> QED
      BY <1>5, <2>1, <2>2, <3>1
  <2>3. CASE j = i
    <3>1. own[s][i] = b
      BY <1>1, <1>3, <2>3 DEF Settled
    <3>2. ref[b] >= 1 /\ ref[b] \in Nat
      BY <1>1, <1>4, <2>2, <3>1 DEF Referenced
    <3>3. ref[b] # 1 \/ pub[b] # {}
      BY <1>3, <2>2, <3>1 DEF Private
    <3>4. CASE ref[b] # 1
      <4>1. ref[b] >= 2
        BY <3>2, <3>4
      <4> QED
        BY <1>1, <2>2, <4>1 DEF Shared
    <3> QED
      BY <3>3, <3>4
  <2>4. CASE j # i
    <3>1. own[s][j] # b
      BY <1>2, <2>2, <2>4
    <3>2. pub[b] # {} \/ \E k \in Pages : own[s][k] = b
      BY <1>1, <2>2, <3>1 DEF Released
    <3>3. ASSUME NEW k \in Pages, own[s][k] = b PROVE own'[s][k] = b
      <4>1. row[s][k] # b
        BY <1>1, <2>2, <3>1, <3>3 DEF Numbered
      <4>2. Private(s, k)
        BY <1>1, <3>3, <4>1 DEF Settled
      <4>3. k # i
        BY <1>3, <4>2
      <4> QED
        BY <1>2, <3>3, <4>3
    <3> QED
      BY <3>2, <3>3
  <2> QED
    BY <2>3, <2>4
<1>8. Released'
  BY <1>7 DEF Released
<1> QED
  BY <1>6, <1>8

(* PreparePage isolates the slots. *)
LEMMA PreparePageContents ==
  ASSUME Inv, Isolation, NEW s \in Slots, PreparePage(s)
  PROVE  Isolates
<1>1. PICK i \in Pages, f \in Bundles : PageStep(s, i, f)
  BY PreparePageSteps
<1>2. Inv'
  BY PreparePageInv
<1>3. Spares /\ \A t \in Slots : RowSpared(t)
  BY <1>1, <1>2, PageRows
<1>4. Shared' /\ Released'
  BY <1>1, PageReleased
<1>5. UNCHANGED <<pos, req, phase, want>>
  BY <1>1 DEF PageStep
<1>6. Advancing'
  BY <1>5 DEF Isolation, Advancing
<1> QED
  BY <1>3, <1>4, <1>6 DEF Isolates, Isolation

-----------------------------------------------------------------------------
(* A prefix is restored *)

(* A restore starts the prefill at the length of the prefix. *)
LEMMA RestoresProgress ==
  ASSUME Inv, Isolation, NEW s \in Slots, phase[s] = "reserved", NEW n \in Nat, n <= Prompt[req[s]],
         StartPrefill(s, n), UNCHANGED <<req, want>>
  PROVE  Advancing' /\ pos[s] = 0
<1>1. TypeOK /\ want[s] = 0 /\ pos[s] = 0 /\ req[s] \in Requests
  BY RestoreFacts DEF Inv, Calls
<1>2. /\ pos' = [pos EXCEPT ![s] = n]
      /\ phase' = [phase EXCEPT ![s] = IF n = Prompt[req[s]] THEN "decode" ELSE "prefill"]
  BY DEF StartPrefill
<1>3. /\ pos'[s] = n /\ want'[s] = 0
      /\ phase'[s] = IF n = Prompt[req[s]] THEN "decode" ELSE "prefill"
      /\ \A t \in Slots \ {s} : /\ pos'[t] = pos[t] /\ want'[t] = want[t]
                                /\ req'[t] = req[t] /\ phase'[t] = phase[t]
  BY <1>1, <1>2, Types
<1>4. phase'[s] = "prefill" => pos'[s] < Prompt[req'[s]]
  <2>1. Prompt[req[s]] \in Nat
    BY <1>1, Declared
  <2> QED
    BY <1>3, <2>1
<1>5. Advancing'
  BY <1>3, <1>4, OthersProgress
<1> QED
  BY <1>1, <1>5

(* A safe miss. *)
LEMMA MissContents ==
  ASSUME Inv, Isolation, NEW s \in Slots, MissStep(s)
  PROVE  Isolates
<1>1. /\ phase[s] = "reserved" /\ req[s] \in Requests /\ StartPrefill(s, 0) /\ UNCHANGED <<req, want>>
      /\ row' = row /\ own' = row' /\ UNCHANGED <<ref, pub, bytes>>
  BY DEF MissStep, Restores
<1>2. 0 \in Nat /\ 0 <= Prompt[req[s]]
  BY <1>1, Declared
<1>3. Advancing'
  BY <1>1, <1>2, RestoresProgress
<1>4. own' = own
  BY <1>1, RestoreFacts
<1> QED
  BY <1>1, <1>3, <1>4, SameContents

(* A prefix of whole pages is restored. *)
LEMMA FullContents ==
  ASSUME Inv, Isolation, NEW s \in Slots, NEW n, NEW src, Sources(n, src), n <= Prompt[req[s]],
         FullStep(s, n, src)
  PROVE  Isolates
<1> DEFINE p == PagesFor(n)
<1>1. /\ phase[s] = "reserved" /\ StartPrefill(s, n)
      /\ ref' = [b \in Bundles |-> IF b \in Range(src) THEN ref[b] + 1 ELSE ref[b]]
      /\ row' = [row EXCEPT ![s] = [i \in Pages |-> IF i <= p THEN src[i] ELSE @[i]]]
      /\ own' = row' /\ UNCHANGED <<pub, bytes, req, want>>
  BY DEF FullStep
<1>2. /\ n \in Nat /\ src \in Seq(Bundles) /\ Len(src) = p
      /\ \A i \in 1..p : ServesPage(src[i], i)
  BY DEF Sources
<1>3. Advancing' /\ pos[s] = 0
  BY <1>1, <1>2, RestoresProgress
<1> HIDE DEF p
<1>4. \A t \in Slots \ {s} : row'[t] = row[t]
  <2>1. row \in [Slots -> [Pages -> Bundles \cup {0}]]
    BY Types DEF Inv
  <2> QED
    BY <1>1, <2>1
<1>5. ASSUME NEW t \in Slots PROVE RowSpared(t)
  <2>1. CASE t = s
    BY <1>3, <2>1, EmptyRow
  <2>2. CASE t # s
    BY <1>1, <1>4, <2>2, KeptRow
  <2> QED
    BY <2>1, <2>2
<1>6. Spares
  BY <1>1 DEF Spares
<1>7. Shared'
  <2> SUFFICES ASSUME NEW b \in Bundles, ref'[b] >= 2 PROVE pub[b] # {}
    BY <1>1 DEF Shared
  <2>1. CASE b \in Range(src)
    <3>1. PICK i \in 1..p : src[i] = b
      BY <1>2, <2>1, RangeInSet
    <3> QED
      BY <1>2, <3>1 DEF ServesPage
  <2>2. CASE b \notin Range(src)
    BY <1>1, <2>2 DEF Isolation, Shared
  <2> QED
    BY <2>1, <2>2
<1>8. Released'
  BY <1>1 DEF Released
<1> QED
  BY <1>3, <1>5, <1>6, <1>7, <1>8 DEF Isolates, Isolation

(* A prefix is restored whose last page is copied. *)
LEMMA PartialContents ==
  ASSUME Inv, Isolation, NEW s \in Slots, NEW n, NEW src, Sources(n, src), n <= Prompt[req[s]],
         PartialStep(s, n, src)
  PROVE  Isolates
<1> DEFINE p == PagesFor(n)
           f == Head(LeftFree(n, src))
<1>1. /\ phase[s] = "reserved" /\ StartPrefill(s, n) /\ UNCHANGED <<req, want>>
      /\ MayAllocate(s, Len(LeftFree(n, src)))
      /\ ref' = [b \in Bundles |-> IF b = f THEN 1
                                   ELSE IF b \in {src[i] : i \in 1..(p - 1)} THEN ref[b] + 1 ELSE ref[b]]
      /\ pub' = [pub EXCEPT ![f] = {}]
      /\ bytes' = [bytes EXCEPT ![f] = bytes[src[p]]]
      /\ row' = [row EXCEPT ![s] = [i \in Pages |->
                   IF i < p THEN src[i] ELSE IF i = p THEN f ELSE @[i]]]
      /\ own' = row'
  BY DEF PartialStep
<1>2. /\ n \in Nat /\ p \in Nat /\ src \in Seq(Bundles) /\ Len(src) = p
      /\ \A i \in 1..p : ServesPage(src[i], i)
  BY PagesForFacts DEF Sources
<1>3. TypeOK /\ own = row /\ Referenced
  BY <1>1, RestoreFacts, CountedReferenced DEF Inv, Pool
<1>4. Advancing' /\ pos[s] = 0
  BY <1>1, <1>2, RestoresProgress
<1>5. f \in Bundles /\ f # 0 /\ ref[f] = 0
  <2> DEFINE q == LeftFree(n, src)
  <2>1. /\ q \in Seq(Bundles)
        /\ \A b \in Bundles : b \in Range(q) <=> ref[b] = 0 /\ b \notin Range(src)
    BY RevivedFacts DEF RevivedOK
  <2>2. q # <<>>
    BY <1>1 DEF MayAllocate
  <2> HIDE DEF q
  <2>3. Head(q) \in Range(q) /\ Head(q) \in Bundles
    BY <2>1, <2>2, HeadTail, RangeInSet
  <2>4. f = Head(q)
    BY DEF q
  <2>5. f # 0
    BY <2>3, <2>4 DEF Bundles
  <2> QED
    BY <2>1, <2>3, <2>4, <2>5
<1> HIDE DEF p, f
<1>6. /\ pub'[f] = {} /\ \A b \in Bundles : b # f => bytes'[b] = bytes[b] /\ pub'[b] = pub[b]
  <2>1. bytes \in [Bundles -> Seq(Nat)] /\ pub \in [Bundles -> SUBSET Seq(Nat)]
    BY <1>3, Types
  <2> QED
    BY <1>1, <1>5, <2>1
<1>7. ASSUME NEW t \in Slots PROVE RowSpared(t)
  <2>1. CASE t = s
    BY <1>4, <2>1, EmptyRow
  <2>2. CASE t # s
    <3>1. row'[t] = row[t]
      BY <1>1, <1>3, <2>2, Types
    <3>2. ASSUME NEW j \in Pages, row[t][j] # 0 PROVE bytes'[row[t][j]] = bytes[row[t][j]]
      <4>1. row[t][j] \in Bundles /\ ref[row[t][j]] >= 1
        BY <1>3, <3>2, Types DEF Referenced
      <4>2. row[t][j] # f
        BY <1>5, <4>1
      <4> QED
        BY <1>6, <4>1, <4>2
    <3> QED
      BY <3>1, <3>2, KeptRow
  <2> QED
    BY <2>1, <2>2
<1>8. Spares
  BY <1>6 DEF Spares
<1>9. Shared'
  <2> SUFFICES ASSUME NEW b \in Bundles, ref'[b] >= 2 PROVE pub'[b] # {}
    BY DEF Shared
  <2>1. b # f
    BY <1>1
  <2>2. CASE \E i \in 1..(p - 1) : src[i] = b
    <3>1. PICK i \in 1..(p - 1) : src[i] = b
      BY <2>2
    <3>2. i \in 1..p
      BY <1>2
    <3> QED
      BY <1>2, <1>6, <2>1, <3>1, <3>2 DEF ServesPage
  <2>3. CASE ~ \E i \in 1..(p - 1) : src[i] = b
    <3>1. ref'[b] = ref[b]
      BY <1>1, <2>1, <2>3
    <3> QED
      BY <1>6, <2>1, <3>1 DEF Isolation, Shared
  <2> QED
    BY <2>2, <2>3
<1>10. Released'
  BY <1>1 DEF Released
<1> QED
  BY <1>4, <1>7, <1>8, <1>9, <1>10 DEF Isolates, Isolation

(* A restore from source pages. *)
LEMMA RestoreCachedContents ==
  ASSUME Inv, Isolation, NEW s \in Slots, phase[s] = "reserved", NEW n, NEW src, Sources(n, src),
         n <= Prompt[req[s]], NEW forget, RestoreCached(s, n, src, forget)
  PROVE  Isolates
<1>1. MissStep(s) \/ FullStep(s, n, src) \/ PartialStep(s, n, src)
  BY RestoreCachedSteps
<1> QED
  BY <1>1, MissContents, FullContents, PartialContents

(* A restore that leaves the pool alone. *)
LEMMA UntouchedContents ==
  ASSUME Inv, Isolation, NEW s \in Slots, phase[s] = "reserved", StartPrefill(s, 0),
         UNCHANGED <<poolVars, row, own, entries, req, want>>
  PROVE  Isolates
<1>1. UNCHANGED <<ref, pub, bytes, row, own, req, want>>
  BY DEF poolVars
<1>2. 0 \in Nat /\ 0 <= Prompt[req[s]]
  BY RestoreFacts, Declared DEF Inv
<1>3. Advancing'
  BY <1>1, <1>2, RestoresProgress
<1> QED
  BY <1>1, <1>3, SameContents

(* A hit in the persistent cache. *)
LEMMA RestorePersistentContents ==
  ASSUME Inv, Isolation, NEW s \in Slots, RestorePersistent(s)
  PROVE  Isolates
<1>1. PICK e \in entries :
        /\ IsPrefix(e.tokens, Prefix(req[s], Prompt[req[s]]))
        /\ RestoreCached(s, Len(e.tokens), e.bundles, TRUE)
  BY DEF RestorePersistent
<1>2. phase[s] = "reserved" /\ TypeOK /\ EntriesNumbered
  BY DEF RestorePersistent, Inv
<1>3. e.tokens \in Seq(Nat) /\ e.bundles \in Seq(Bundles)
  BY <1>2, Types
<1>4. Sources(Len(e.tokens), e.bundles)
  BY <1>2, <1>3 DEF Sources, EntriesNumbered
<1>5. Len(e.tokens) <= Prompt[req[s]]
  <2>1. req[s] \in Requests
    BY <1>2, RestoreFacts
  <2>2. Prompt[req[s]] \in 0..Len(Tokens[req[s]])
    BY <2>1, Declared
  <2>3. Len(Prefix(req[s], Prompt[req[s]])) = Prompt[req[s]]
    BY <2>1, <2>2, PrefixFacts
  <2> QED
    BY <1>1, <2>3 DEF IsPrefix
<1> QED
  BY <1>1, <1>2, <1>4, <1>5, RestoreCachedContents

(* A hit on a rolling checkpoint. *)
LEMMA RestoreRollingContents ==
  ASSUME Inv, Isolation, NEW s \in Slots, RestoreRolling(s)
  PROVE  Isolates
<1>1. phase[s] = "reserved"
  BY RollingSteps
<1>2. CASE StartPrefill(s, 0) /\ UNCHANGED <<poolVars, row, own, entries, req, want>>
  BY <1>1, <1>2, UntouchedContents
<1>3. ASSUME NEW n \in Nat, NEW src \in Seq(Bundles), NEW forget \in BOOLEAN, Sources(n, src),
             n < Prompt[req[s]], RestoreCached(s, n, src, forget)
      PROVE  Isolates
  <2>1. req[s] \in Requests /\ Prompt[req[s]] \in Nat
    BY <1>1, RestoreFacts, Declared
  <2>2. n <= Prompt[req[s]]
    BY <1>3, <2>1
  <2> QED
    BY <1>1, <1>3, <2>2, RestoreCachedContents
<1> QED
  BY <1>2, <1>3, RollingSteps

-----------------------------------------------------------------------------
(* A forward has run *)

(* A larger factor makes a larger product. *)
LEMMA ProductGrows ==
  ASSUME NEW p \in Nat, NEW a \in Nat, NEW b \in Nat, a <= b
  PROVE  p * a \in Nat /\ p * b \in Nat /\ p * a <= p * b
<1>1. PICK d \in Nat : b = a + d
  <2>1. b - a \in Nat /\ b = a + (b - a)
    OBVIOUS
  <2> QED
    BY <2>1
<1>2. p * b = p * a + p * d /\ p * d \in Nat /\ p * a \in Nat
  BY <1>1
<1> QED
  BY <1>2

(* The forward wrote the positions of s up to n. *)
Writes(s, n) ==
  /\ Ready(s) /\ n \in Nat /\ pos[s] < n
  /\ bytes' = Written(s, n - pos[s])
  /\ pos' = [pos EXCEPT ![s] = n]
  /\ UNCHANGED <<ref, row, own, req>>

(* Only the touched pages, which are private, get other bytes. *)
LEMMA WrittenBytes ==
  ASSUME Inv, NEW s \in Slots, NEW n, Writes(s, n)
  PROVE  \A b \in Bundles : bytes'[b] # bytes[b] =>
           \E i \in Touched(s) : i \in Pages /\ row[s][i] = b /\ Private(s, i) /\ own[s][i] = b
<1> SUFFICES ASSUME NEW b \in Bundles, bytes'[b] # bytes[b]
             PROVE  \E i \in Touched(s) : i \in Pages /\ row[s][i] = b /\ Private(s, i) /\ own[s][i] = b
  OBVIOUS
<1>1. PICK i \in Touched(s) : row[s][i] = b
  BY DEF Writes, Written
<1>2. own = row /\ AllPrivate(s) /\ i \in Pages
  BY ReadyFacts, TouchedInPages DEF Writes
<1> QED
  BY <1>1, <1>2 DEF AllPrivate

(* Nobody else reads the pages that a forward writes, and the slot's own    *)
(* full pages are behind them.                                              *)
LEMMA WrittenRows ==
  ASSUME Inv, NEW s \in Slots, NEW n, Writes(s, n)
  PROVE  \A t \in Slots : RowSpared(t)
<1>1. TypeOK /\ Numbered /\ Referenced /\ Bounds
  BY CountedReferenced DEF Inv, Pool
<1>2. /\ n \in Nat /\ pos[s] < n /\ pos' = [pos EXCEPT ![s] = n] /\ UNCHANGED <<ref, row, own, req>>
  BY DEF Writes
<1>3. /\ pos[s] \in Nat /\ want[s] \in Nat
      /\ row \in [Slots -> [Pages -> Bundles \cup {0}]]
      /\ pos'[s] = n /\ \A t \in Slots \ {s} : pos'[t] = pos[t]
  <2>1. pos \in [Slots -> Nat] /\ want \in [Slots -> Nat] /\ row \in [Slots -> [Pages -> Bundles \cup {0}]]
    BY <1>1, Types
  <2> QED
    BY <1>2, <2>1
<1>4. own = row
  BY ReadyFacts DEF Writes
<1>5. ASSUME NEW t \in Slots \ {s} PROVE RowSpared(t)
  <2>1. ASSUME NEW j \in Pages, row[t][j] # 0 PROVE bytes'[row[t][j]] = bytes[row[t][j]]
    <3>1. row[t][j] \in Bundles
      BY <1>3, <2>1
    <3>2. ASSUME NEW i \in Pages, own[s][i] = row[t][j], Private(s, i) PROVE FALSE
      BY <1>1, <1>4, <2>1, <3>2 DEF Referenced, Private
    <3> QED
      BY <3>1, <3>2, WrittenBytes
  <2> QED
    BY <1>2, <2>1, KeptRow
<1>6. RowSpared(s)
  <2> SUFFICES ASSUME phase[s] # "failed", NEW j \in 1..PagesFor(pos[s]), j * PageSize <= pos[s]
               PROVE  row[s][j] # 0 /\ bytes'[row[s][j]] = bytes[row[s][j]]
    BY <1>2, <1>3 DEF RowSpared
  <2>1. row[s][j] # 0 /\ j \in Pages
    BY <1>1, WrittenPages DEF Bounds, Bounded, Live
  <2>2. row[s][j] \in Bundles
    BY <1>3, <2>1
  <2>3. ASSUME NEW i \in Touched(s), i \in Pages, row[s][i] = row[s][j] PROVE FALSE
    <3>1. i = j
      BY <1>1, <2>1, <2>3 DEF Numbered
    <3>2. PagesFor(pos[s] + 1) <= j
      <4>1. PagesFor(pos[s] + 1) \in Nat /\ PagesFor(want[s]) \in Nat
        BY <1>3, PagesForFacts
      <4>2. j \in PagesFor(pos[s] + 1)..PagesFor(want[s])
        BY <2>3, <3>1 DEF Touched
      <4> QED
        BY <4>1, <4>2
    <3>3. pos[s] + 1 <= PageSize * PagesFor(pos[s] + 1) /\ PagesFor(pos[s] + 1) \in Nat /\ PageSize \in Nat
      <4>1. pos[s] + 1 \in Nat
        BY <1>3
      <4> QED
        BY <4>1, PagesForFacts, ArenaAssumption
    <3>4. j \in Nat
      OBVIOUS
    <3> DEFINE f == PagesFor(pos[s] + 1)
               a == PageSize * f
               b == PageSize * j
    <3>5. pos[s] + 1 <= a /\ f \in Nat /\ f <= j
      BY <3>2, <3>3
    <3> HIDE DEF f
    <3>6. a \in Nat /\ b \in Nat /\ a <= b
      BY <3>3, <3>4, <3>5, ProductGrows
    <3>7. b = j * PageSize
      BY <3>3, <3>4
    <3>8. b <= pos[s]
      BY <3>7
    <3> HIDE DEF a, b
    <3> QED
      BY <1>3, <3>5, <3>6, <3>8
  <2> QED
    BY <2>1, <2>2, <2>3, WrittenBytes
<1> QED
  BY <1>5, <1>6

(* A forward isolates the slots, whatever is published with it. *)
LEMMA WritesContents ==
  ASSUME Inv, Isolation, NEW s \in Slots, NEW n, Writes(s, n), Advancing',
         \A b \in Bundles : pub[b] \subseteq pub'[b]
  PROVE  Isolates
<1>1. \A t \in Slots : RowSpared(t)
  BY WrittenRows
<1>2. TypeOK /\ UNCHANGED <<ref, row, own>>
  BY DEF Inv, Writes
<1>3. Spares
  BY WrittenBytes DEF Private, Spares
<1>4. Shared'
  <2> SUFFICES ASSUME NEW b \in Bundles, ref[b] >= 2 PROVE pub'[b] # {}
    BY <1>2 DEF Shared
  <2>1. pub[b] # {}
    BY DEF Isolation, Shared
  <2> QED
    BY <2>1
<1>5. Released'
  <2> SUFFICES ASSUME NEW t \in Slots, NEW i \in Pages, row[t][i] # 0, row[t][i] # own[t][i]
               PROVE  pub'[row[t][i]] # {} \/ \E j \in Pages : own[t][j] = row[t][i]
    BY <1>2 DEF Released
  <2>1. row[t][i] \in Bundles
    BY <1>2, Types
  <2>2. pub[row[t][i]] # {} \/ \E j \in Pages : own[t][j] = row[t][i]
    BY DEF Isolation, Released
  <2> QED
    BY <2>1, <2>2
<1> QED
  BY <1>1, <1>3, <1>4, <1>5 DEF Isolates, Isolation

(* A decode is committed. *)
LEMMA CommitDecodeContents ==
  ASSUME Inv, Isolation, NEW s \in Slots, CommitDecode(s)
  PROVE  Isolates
<1>1. PICK n \in (pos[s] + 1)..Least(want[s], Len(Tokens[req[s]])) :
        /\ pos' = [pos EXCEPT ![s] = n] /\ bytes' = Written(s, n - pos[s])
  BY DEF CommitDecode
<1>2. /\ phase[s] = "decode" /\ Ready(s) /\ want' = [want EXCEPT ![s] = 0]
      /\ UNCHANGED <<ref, pub, row, own, entries, req, phase>>
  BY DEF CommitDecode
<1>3. /\ TypeOK /\ req[s] \in Requests
  BY <1>2, ReadyFacts DEF Inv
<1>4. pos[s] \in Nat /\ want[s] \in Nat /\ Len(Tokens[req[s]]) \in Nat
  BY <1>3, Types, Declared
<1>5. n \in Nat /\ pos[s] < n
  BY <1>4 DEF Least
<1>6. Writes(s, n)
  BY <1>1, <1>2, <1>5 DEF Writes
<1>7. want'[s] = 0 /\ \A t \in Slots \ {s} : pos'[t] = pos[t] /\ want'[t] = want[t]
  BY <1>1, <1>2, <1>3, Types
<1>8. Advancing'
  BY <1>2, <1>7, OthersProgress
<1> QED
  BY <1>2, <1>6, <1>8, WritesContents

(* A chunk of a prefill is committed. *)
LEMMA CommitPrefillContents ==
  ASSUME Inv, Isolation, NEW s \in Slots, CommitPrefill(s)
  PROVE  Isolates
<1> DEFINE n == want[s]
<1>1. /\ phase[s] = "prefill" /\ Ready(s) /\ n # 0
      /\ pos' = [pos EXCEPT ![s] = n] /\ bytes' = Written(s, n - pos[s])
      /\ want' = [want EXCEPT ![s] = 0] /\ UNCHANGED <<ref, row, own, req>>
  BY DEF CommitPrefill, Ready
<1>2. IF n = Prompt[req[s]]
        THEN phase' = [phase EXCEPT ![s] = "decode"] /\ StorePrompt(s)
        ELSE UNCHANGED <<phase, pub>>
  BY DEF CommitPrefill
<1>3. TypeOK /\ req[s] \in Requests
  BY <1>1, ReadyFacts DEF Inv
<1>4. pos[s] \in Nat /\ n \in Nat /\ Prompt[req[s]] \in Nat
  BY <1>3, Types, Declared
<1>5. pos[s] < n /\ n <= Prompt[req[s]]
  BY <1>1 DEF Isolation, Advancing, Inv, Bounds, Bounded
<1>6. Writes(s, n)
  BY <1>1, <1>4, <1>5 DEF Writes
<1>7. /\ pos'[s] = n /\ want'[s] = 0
      /\ \A t \in Slots \ {s} : pos'[t] = pos[t] /\ want'[t] = want[t] /\ req'[t] = req[t]
  BY <1>1, <1>3, Types
<1> HIDE DEF n
<1>8. CASE n = Prompt[req[s]]
  <2>1. phase'[s] = "decode" /\ \A t \in Slots \ {s} : phase'[t] = phase[t]
    BY <1>2, <1>3, <1>8, Types
  <2>2. Advancing'
    BY <1>7, <2>1, OthersProgress
  <2>3. \A b \in Bundles : pub[b] \subseteq pub'[b]
    BY <1>2, <1>8 DEF StorePrompt, Published
  <2> QED
    BY <1>6, <2>2, <2>3, WritesContents
<1>9. CASE n # Prompt[req[s]]
  <2>1. UNCHANGED <<phase, pub>> /\ n < Prompt[req[s]]
    BY <1>2, <1>4, <1>5, <1>9
  <2>2. Advancing'
    BY <1>1, <1>7, <2>1, OthersProgress
  <2> QED
    BY <1>6, <2>1, <2>2, WritesContents
<1> QED
  BY <1>8, <1>9

-----------------------------------------------------------------------------
(* A slot is reset *)

(* The bytes that reset_slot gives up are nobody else's. *)
LEMMA ResetSlotContents ==
  ASSUME Inv, Isolation, NEW s \in Slots, ResetSlot(s)
  PROVE  Isolates
<1>1. /\ phase[s] # "idle" /\ ResetPublishes(s, pub')
      /\ ref' = [b \in Bundles |-> IF b \in Owned(s) THEN ref[b] - 1 ELSE ref[b]]
      /\ row' = [row EXCEPT ![s] = [i \in Pages |-> 0]]
      /\ own' = [own EXCEPT ![s] = [i \in Pages |-> 0]]
      /\ pos' = [pos EXCEPT ![s] = 0]
      /\ req' = [req EXCEPT ![s] = NoReq] /\ phase' = [phase EXCEPT ![s] = "idle"]
      /\ want' = [want EXCEPT ![s] = 0]
  BY ResetSlotSteps DEF ResetStep
<1>2. bytes' = [b \in Bundles |-> IF b \in Owned(s) /\ ref[b] = 1 /\ pub'[b] = {} THEN <<>> ELSE bytes[b]]
  BY DEF ResetSlot
<1>3. TypeOK /\ Referenced
  BY CountedReferenced DEF Inv, Pool
<1>4. \A b \in Bundles : pub[b] \subseteq pub'[b]
  BY <1>1 DEF ResetPublishes
<1>5. Spares
  BY <1>2 DEF Spares
<1>6. /\ pos'[s] = 0 /\ want'[s] = 0 /\ phase'[s] = "idle"
      /\ row'[s] = [i \in Pages |-> 0]
      /\ \A t \in Slots \ {s} : /\ pos'[t] = pos[t] /\ want'[t] = want[t]
                                /\ req'[t] = req[t] /\ phase'[t] = phase[t]
                                /\ row'[t] = row[t] /\ own'[t] = own[t]
  BY <1>1, <1>3, Types
<1>7. Advancing'
  BY <1>6, OthersProgress
<1>8. ASSUME NEW t \in Slots \ {s} PROVE RowSpared(t)
  <2>1. ASSUME NEW j \in Pages, row[t][j] # 0 PROVE bytes'[row[t][j]] = bytes[row[t][j]]
    <3> DEFINE b == row[t][j]
    <3>1. b \in Bundles /\ b # 0
      BY <1>3, <2>1, Types
    <3> HIDE DEF b
    <3> SUFFICES ASSUME b \in Owned(s), ref[b] = 1, pub'[b] = {} PROVE FALSE
      BY <1>2, <3>1 DEF b
    <3>2. PICK i \in Pages : own[s][i] = b
      <4>1. own[s] \in [Pages -> Bundles \cup {0}]
        BY <1>3, Types
      <4> QED
        BY <4>1 DEF Owned, Range
    <3>3. \A k \in Pages : own[t][k] # b
      BY <1>3, <3>1, <3>2 DEF Referenced
    <3>4. pub[b] # {}
      BY <3>1, <3>3 DEF Isolation, Released, b
    <3> QED
      BY <1>4, <3>1, <3>4
  <2> QED
    BY <1>6, <2>1, KeptRow
<1>9. RowSpared(s)
  BY <1>3, <1>6, ClearedRow
<1>10. Shared'
  <2> SUFFICES ASSUME NEW b \in Bundles, ref'[b] >= 2 PROVE pub'[b] # {}
    BY DEF Shared
  <2>1. ref[b] \in Nat /\ ref'[b] = IF b \in Owned(s) THEN ref[b] - 1 ELSE ref[b]
    BY <1>1, <1>3, Types
  <2>2. ref[b] >= 2
    BY <2>1
  <2>3. pub[b] # {}
    BY <2>2 DEF Isolation, Shared
  <2> QED
    BY <1>4, <2>3
<1>11. Released'
  <2> SUFFICES ASSUME NEW t \in Slots, NEW i \in Pages, row'[t][i] # 0, row'[t][i] # own'[t][i]
               PROVE  pub'[row'[t][i]] # {} \/ \E j \in Pages : own'[t][j] = row'[t][i]
    BY DEF Released
  <2>1. t # s
    BY <1>6
  <2>2. row'[t] = row[t] /\ own'[t] = own[t]
    BY <1>6, <2>1
  <2>3. row[t][i] \in Bundles
    BY <1>3, <2>2, Types
  <2>4. pub[row[t][i]] # {} \/ \E j \in Pages : own[t][j] = row[t][i]
    BY <2>2 DEF Isolation, Released
  <2> QED
    BY <1>4, <2>2, <2>3, <2>4
<1> QED
  BY <1>5, <1>7, <1>8, <1>9, <1>10, <1>11 DEF Isolates, Isolation

-----------------------------------------------------------------------------
(* The theorems about isolation *)

(* The arena starts with nothing written or shared. *)
LEMMA InitIsolation == Init => Isolation
  BY DEF Init, Isolation, Advancing, Shared, Released

(* Every step isolates the slots. *)
LEMMA NextContents ==
  ASSUME Inv, Isolation, [Next]_vars
  PROVE  Isolates
<1>1. ASSUME NEW s \in Slots, NEW r \in Requests, ReserveKv(s, r) PROVE Isolates
  BY <1>1, ReserveKvContents
<1>2. ASSUME NEW s \in Slots, RestoreMiss(s) PROVE Isolates
  <2>1. /\ phase[s] = "reserved" /\ StartPrefill(s, 0)
        /\ UNCHANGED <<poolVars, row, own, entries, req, want>>
    BY <1>2 DEF RestoreMiss, cacheVars
  <2> QED
    BY <2>1, UntouchedContents
<1>3. ASSUME NEW s \in Slots, RestorePersistent(s) PROVE Isolates
  BY <1>3, RestorePersistentContents
<1>4. ASSUME NEW s \in Slots, RestoreRolling(s) PROVE Isolates
  BY <1>4, RestoreRollingContents
<1>5. ASSUME NEW s \in Slots, BeginWrite(s) PROVE Isolates
  BY <1>5, BeginWriteContents
<1>6. ASSUME NEW s \in Slots, PreparePage(s) PROVE Isolates
  BY <1>6, PreparePageContents
<1>7. ASSUME NEW s \in Slots, PrepareFails(s) \/ ForwardRaises(s) PROVE Isolates
  BY <1>7, CallFailsContents DEF PrepareFails, ForwardRaises
<1>8. ASSUME NEW s \in Slots, CommitPrefill(s) PROVE Isolates
  BY <1>8, CommitPrefillContents
<1>9. ASSUME NEW s \in Slots, BookPlain(s) PROVE Isolates
  BY <1>9, BookPlainContents
<1>10. ASSUME NEW s \in Slots, CommitDecode(s) PROVE Isolates
  BY <1>10, CommitDecodeContents
<1>11. ASSUME NEW s \in Slots, ResetSlot(s) PROVE Isolates
  BY <1>11, ResetSlotContents
<1>12. CASE UNCHANGED vars
  <2>1. UNCHANGED <<ref, pub, bytes, row, own, pos, req, phase, want>>
    BY <1>12 DEF vars, poolVars
  <2>2. Advancing'
    BY <2>1 DEF Isolation, Advancing
  <2> QED
    BY <2>1, <2>2, SameContents
<1>13. CASE Next
  BY <1>1, <1>2, <1>3, <1>4, <1>5, <1>6, <1>7, <1>8, <1>9, <1>10, <1>11, <1>13 DEF Next
<1> QED
  BY <1>12, <1>13

(* Every reachable state of the arena isolates the slots. *)
LEMMA IsolationHolds == Spec => [](Inv /\ Isolation)
<1>1. Init => Inv /\ Isolation
  BY InitInv, InitIsolation
<1>2. Inv /\ Isolation /\ [Next]_vars => (Inv /\ Isolation)'
  BY NextInv, NextContents DEF Isolates
<1> QED
  BY <1>1, <1>2, PTL DEF Spec

(* "Copy on write", for any slots and any of the block and page sizes that  *)
(* ArenaAssumption allows: a bundle keeps its bytes while a hash of it stays *)
(* published, and the bundles of a persistent entry keep theirs while the   *)
(* entry stays, through the writes, private copies, restores, evictions,    *)
(* failed calls and resets of every slot.  Whether the bytes are those the  *)
(* hash was taken from is another question (see PublishedBytes).            *)
THEOREM ArenaPublishedStable == Spec => PublishedStable
<1> DEFINE A == /\ \A b \in Bundles : pub[b] \cap pub'[b] # {} => bytes'[b] = bytes[b]
                /\ \A e \in entries \cap entries' : \A i \in 1..Len(e.bundles) :
                     bytes'[e.bundles[i]] = bytes[e.bundles[i]]
<1>1. ASSUME Inv, Isolation, Inv', [Next]_vars PROVE A
  <2>1. Spares
    BY <1>1, NextContents DEF Isolates
  <2>2. \A b \in Bundles : pub[b] \cap pub'[b] # {} => bytes'[b] = bytes[b]
    BY <2>1 DEF Spares
  <2>3. ASSUME NEW e \in entries \cap entries', NEW i \in 1..Len(e.bundles)
        PROVE  bytes'[e.bundles[i]] = bytes[e.bundles[i]]
    <3>1. TypeOK /\ EntriesNumbered /\ EntriesNumbered'
      BY <1>1 DEF Inv
    <3>2. e.bundles \in Seq(Bundles)
      BY <3>1, Types
    <3>3. e.bundles[i] \in Bundles
      BY <3>2
    <3>4. pub[e.bundles[i]] # {} /\ pub'[e.bundles[i]] # {}
      BY <3>1 DEF EntriesNumbered, ServesPage
    <3> QED
      BY <2>1, <3>3, <3>4 DEF Spares
  <2> QED
    BY <2>2, <2>3
<1>2. Inv /\ Isolation /\ (Inv /\ Isolation)' /\ [Next]_vars => [A]_vars
  BY <1>1
<1> QED
  BY <1>2, IsolationHolds, PTL DEF Spec, PublishedStable

(* What a request has in its row is what it reads back, however its pages   *)
(* are shared, replaced, evicted and given out around it.                   *)
THEOREM ArenaRowsStable == Spec => RowsStable
<1> DEFINE A == \A s \in Slots : phase[s] # "failed" /\ pos'[s] >= pos[s] =>
                  \A i \in 1..PagesFor(pos[s]) :
                    pos'[s] = pos[s] \/ i * PageSize <= pos[s] =>
                      row'[s][i] # 0 /\ bytes'[row'[s][i]] = bytes[row[s][i]]
<1>1. Inv /\ Isolation /\ [Next]_vars => [A]_vars
  BY NextContents DEF Isolates, RowSpared
<1> QED
  BY <1>1, IsolationHolds, PTL DEF Spec, RowsStable

=============================================================================
