---------------------- MODULE SpeculativeDecodeProofs ----------------------
(***************************************************************************)
(* Proofs about SpeculativeDecode, for any model, any number of drafts,    *)
(* any prompts, budgets and markers.                                       *)
(***************************************************************************)
EXTENDS SpeculativeDecode, SequenceTheorems, FiniteSetTheorems, WellFoundedInduction, TLAPS

(* The target model yields tokens of its vocabulary. *)
TargetTyped == \A m \in Models, c \in Seq(Tok) : Target(m, c) \in Tok

EndTokens == {EndMarker[i] : i \in DOMAIN EndMarker}

-----------------------------------------------------------------------------
(* Numbers and sequences *)

(* A non-empty set of naturals has a least element. *)
LEMMA LeastNatural ==
  ASSUME NEW T, T \subseteq Nat, T # {}
  PROVE  \E x \in T : \A y \in T : x <= y
<1>1. PICK x \in T : \A y \in T : ~ (<<y, x>> \in OpToRel(<, Nat))
  BY NatLessThanWellFounded, WFMin
<1>2. \A y \in T : ~ (y < x)
  BY <1>1 DEF OpToRel
<1> QED
  BY <1>2

(* Maximum is what it says on a bounded set of naturals. *)
LEMMA MaximumOfBounded ==
  ASSUME NEW n \in Nat, NEW S, S \subseteq 0..n, S # {}
  PROVE  Maximum(S) \in S /\ \A y \in S : y <= Maximum(S)
<1> DEFINE T == {i \in 0..n : n - i \in S}
<1>1. T \subseteq Nat /\ T # {}
  <2>1. PICK x \in S : TRUE
    OBVIOUS
  <2>2. x \in 0..n
    BY <2>1
  <2>3. n - x \in 0..n /\ n - (n - x) = x
    BY <2>2
  <2>4. n - x \in T
    BY <2>1, <2>3
  <2>5. T \subseteq Nat
    OBVIOUS
  <2> HIDE DEF T
  <2> QED
    BY <2>4, <2>5
<1>2. PICK t \in T : \A y \in T : t <= y
  <2> HIDE DEF T
  <2> QED BY <1>1, LeastNatural
<1>3. \A y \in S : y <= n - t
  <2> TAKE y \in S
  <2>1. y \in 0..n
    OBVIOUS
  <2>2. n - (n - y) = y /\ n - y \in 0..n
    BY <2>1
  <2>3. n - y \in T
    BY <2>2
  <2>4. t <= n - y /\ t \in 0..n
    BY <1>2, <2>3
  <2> QED
    BY <2>1, <2>4
<1>4. n - t \in S
  BY <1>2
<1> QED
  BY <1>3, <1>4 DEF Maximum

(* The tokens of a concatenation. *)
LEMMA ConcatFacts ==
  ASSUME NEW s \in Seq(Tok), NEW t \in Seq(Tok)
  PROVE  /\ s \o t \in Seq(Tok)
         /\ Len(s \o t) = Len(s) + Len(t)
         /\ \A i \in 1..Len(s) : (s \o t)[i] = s[i]
         /\ \A i \in 1..Len(t) : (s \o t)[Len(s) + i] = t[i]
<1>1. s \o t \in Seq(Tok) /\ Len(s \o t) = Len(s) + Len(t)
  OBVIOUS
<1>2. \A i \in 1..Len(s) : (s \o t)[i] = s[i]
  OBVIOUS
<1>3. \A i \in 1..Len(t) : (s \o t)[Len(s) + i] = t[i]
  OBVIOUS
<1> QED
  BY <1>1, <1>2, <1>3

(* The tokens of a prefix. *)
LEMMA PrefixFacts ==
  ASSUME NEW s \in Seq(Tok), NEW n \in 0..Len(s)
  PROVE  /\ Prefix(s, n) \in Seq(Tok)
         /\ Len(Prefix(s, n)) = n
         /\ \A i \in 1..n : Prefix(s, n)[i] = s[i]
  BY DEF Prefix

(* Sequences with the same tokens are equal. *)
LEMMA SameSequence ==
  ASSUME NEW s \in Seq(Tok), NEW t \in Seq(Tok), Len(s) = Len(t),
         \A i \in 1..Len(s) : s[i] = t[i]
  PROVE  s = t
  OBVIOUS

(* Concatenation is associative. *)
LEMMA ConcatAssoc ==
  ASSUME NEW s \in Seq(Tok), NEW t \in Seq(Tok), NEW u \in Seq(Tok)
  PROVE  (s \o t) \o u = s \o (t \o u)
  OBVIOUS

(* A prefix that reaches into the second part. *)
LEMMA PrefixOfConcat ==
  ASSUME NEW s \in Seq(Tok), NEW t \in Seq(Tok), NEW n \in 0..Len(t)
  PROVE  Prefix(s \o t, Len(s) + n) = s \o Prefix(t, n)
  BY DEF Prefix

(* A prefix of a prefix is a prefix. *)
LEMMA PrefixOfPrefix ==
  ASSUME NEW s \in Seq(Tok), NEW n \in 0..Len(s), NEW i \in 0..n
  PROVE  Prefix(Prefix(s, n), i) = Prefix(s, i)
  BY DEF Prefix

(* What follows the first n tokens of s. *)
After(s, n) == SubSeq(s, n + 1, Len(s))

(* What is appended to a sequence is appended to what follows its first    *)
(* tokens.                                                                 *)
LEMMA AfterConcat ==
  ASSUME NEW s \in Seq(Tok), NEW t \in Seq(Tok), NEW n \in 0..Len(s)
  PROVE  After(s \o t, n) = After(s, n) \o t
<1> DEFINE c == s \o t
           a == After(s, n)
           u == After(c, n)
<1>0. n \in Nat /\ Len(s) \in Nat /\ Len(t) \in Nat /\ n <= Len(s)
  OBVIOUS
<1>1. /\ c \in Seq(Tok) /\ Len(c) = Len(s) + Len(t)
      /\ \A i \in 1..Len(s) : c[i] = s[i]
      /\ \A i \in 1..Len(t) : c[Len(s) + i] = t[i]
  BY ConcatFacts
<1>2. /\ a \in Seq(Tok) /\ Len(a) = Len(s) - n
      /\ \A i \in 1..Len(a) : a[i] = s[n + i]
  BY <1>0 DEF After
<1> HIDE DEF c, a
<1>3. /\ u \in Seq(Tok) /\ Len(u) = Len(c) - n
      /\ \A i \in 1..Len(u) : u[i] = c[n + i]
  BY <1>0, <1>1 DEF After
<1> HIDE DEF u
<1>4. /\ a \o t \in Seq(Tok) /\ Len(a \o t) = Len(a) + Len(t)
      /\ \A i \in 1..Len(a) : (a \o t)[i] = a[i]
      /\ \A i \in 1..Len(t) : (a \o t)[Len(a) + i] = t[i]
  BY <1>2, ConcatFacts
<1>5. Len(u) = Len(a \o t)
  BY <1>0, <1>1, <1>2, <1>3, <1>4
<1>6. \A i \in 1..Len(u) : u[i] = (a \o t)[i]
  <2> TAKE i \in 1..Len(u)
  <2>1. CASE i <= Len(a)
    <3>1. i \in 1..Len(a) /\ n + i \in 1..Len(s)
      BY <1>0, <1>2, <2>1
    <3> QED BY <1>1, <1>2, <1>3, <1>4, <3>1
  <2>2. CASE i > Len(a)
    <3> DEFINE j == i - Len(a)
    <3>a. Len(a) = Len(s) - n /\ Len(u) = Len(a) + Len(t) /\ i \in 1..Len(u)
      BY <1>2, <1>4, <1>5
    <3>1. j \in 1..Len(t) /\ n + i = Len(s) + j /\ i = Len(a) + j
      BY <1>0, <2>2, <3>a
    <3> HIDE DEF j
    <3>2. u[i] = c[Len(s) + j] /\ (a \o t)[Len(a) + j] = t[j]
      BY <1>3, <1>4, <3>1
    <3> QED BY <1>1, <3>1, <3>2
  <2>3. i <= Len(a) \/ i > Len(a)
    BY <1>2
  <2> QED BY <2>1, <2>2, <2>3
<1>7. u = a \o t
  BY <1>3, <1>4, <1>5, <1>6, SameSequence
<1> QED
  BY <1>7 DEF u, a, c

(* What follows the first tokens is a sequence, empty after all of them    *)
(* and everything after none.                                              *)
LEMMA AfterFacts ==
  ASSUME NEW s \in Seq(Tok), NEW n \in 0..Len(s)
  PROVE  After(s, n) \in Seq(Tok) /\ After(s, 0) = s /\ After(s, Len(s)) = <<>>
<1>1. After(s, n) \in Seq(Tok)
  BY DEF After
<1>2. After(s, 0) = s
  BY DEF After
<1>3. After(s, Len(s)) = <<>>
  BY DEF After
<1> QED
  BY <1>1, <1>2, <1>3

(* The KV and the pending anchor together are the committed sequence. *)
LEMMA KvAndAnchor ==
  ASSUME NEW k \in Seq(Tok), NEW c \in Seq(Tok), Len(c) = Len(k) + 1, k = Prefix(c, Len(k))
  PROVE  /\ <<c[Len(c)]>> \in Seq(Tok) /\ Len(<<c[Len(c)]>>) = 1
         /\ k \o <<c[Len(c)]>> = c
<1> DEFINE a == <<c[Len(c)]>>
<1>1. a \in Seq(Tok) /\ Len(a) = 1 /\ a[1] = c[Len(k) + 1]
  OBVIOUS
<1>2. \A i \in 1..Len(k) : k[i] = c[i]
  <2>1. Len(k) \in 0..Len(c)
    OBVIOUS
  <2>2. \A i \in 1..Len(k) : Prefix(c, Len(k))[i] = c[i]
    BY <2>1, PrefixFacts
  <2> QED BY <2>2
<1> HIDE DEF a
<1>3. /\ k \o a \in Seq(Tok) /\ Len(k \o a) = Len(k) + 1
      /\ \A i \in 1..Len(k) : (k \o a)[i] = k[i]
      /\ (k \o a)[Len(k) + 1] = a[1]
  <2>1. /\ k \o a \in Seq(Tok) /\ Len(k \o a) = Len(k) + Len(a)
        /\ \A i \in 1..Len(k) : (k \o a)[i] = k[i]
        /\ \A i \in 1..Len(a) : (k \o a)[Len(k) + i] = a[i]
    BY <1>1, ConcatFacts
  <2>2. 1 \in 1..Len(a)
    BY <1>1
  <2> QED BY <1>1, <2>1, <2>2
<1>4. \A i \in 1..Len(k) + 1 : (k \o a)[i] = c[i]
  <2> TAKE i \in 1..Len(k) + 1
  <2>1. i \in 1..Len(k) \/ i = Len(k) + 1
    OBVIOUS
  <2> QED BY <1>1, <1>2, <1>3, <2>1
<1>5. k \o a = c
  BY <1>3, <1>4, SameSequence
<1> QED
  BY <1>1, <1>5 DEF a

(* What the verify forward has absorbed at position p is the KV, the       *)
(* anchor and the first p drafts.                                          *)
LEMMA VerifyContext ==
  ASSUME NEW s \in Seq(Tok), NEW a \in Seq(Tok), Len(a) = 1,
         NEW d \in Seq(Tok), NEW p \in 0..Len(d)
  PROVE  s \o Prefix(a \o d, p + 1) = (s \o a) \o Prefix(d, p)
<1> DEFINE t == Prefix(d, p)
<1>1. t \in Seq(Tok)
  BY PrefixFacts
<1>2. Prefix(a \o d, Len(a) + p) = a \o t
  BY PrefixOfConcat
<1>3. Len(a) + p = p + 1
  OBVIOUS
<1> HIDE DEF t
<1>4. (s \o a) \o t = s \o (a \o t)
  BY <1>1, ConcatAssoc, ZenonT(30)
<1> QED
  BY <1>2, <1>3, <1>4 DEF t

-----------------------------------------------------------------------------
(* The thinking budget *)

(* The end marker is made of tokens. *)
LEMMA MarkerFacts == EndTokens \subseteq Tok /\ EndMarker[1] \in EndTokens
  BY SpeculativeAssumption DEF EndTokens

(* Only a request with a budget is forced, and only to a token of the end  *)
(* marker.                                                                 *)
LEMMA ForceToken ==
  ASSUME NEW s \in Seq(Tok), NEW b \in Nat, NEW w \in Nat, ForceFor(s, b, w) # NoForce
  PROVE  b # 0 /\ ForceFor(s, b, w)[2] \in EndTokens
<1> DEFINE E == {0} \cup {n \in 1..Len(EndMarker) - 1 :
                      n <= Len(s) /\ SubSeq(s, Len(s) - n + 1, Len(s)) = Prefix(EndMarker, n)}
<1>1. Len(EndMarker) \in Nat /\ Len(EndMarker) > 0 /\ DOMAIN EndMarker = 1..Len(EndMarker)
  BY SpeculativeAssumption
<1>2. E \subseteq 0..Len(EndMarker) - 1 /\ E # {}
  BY <1>1
<1>3. EndPrefixLength(s) = Maximum(E)
  BY DEF EndPrefixLength
<1>4. EndPrefixLength(s) \in 0..Len(EndMarker) - 1
  <2> HIDE DEF E
  <2>1. Len(EndMarker) - 1 \in Nat
    BY <1>1
  <2>2. Maximum(E) \in E
    BY <1>2, <2>1, MaximumOfBounded
  <2> QED BY <1>2, <1>3, <2>2
<1>5. EndPrefixLength(s) + 1 \in DOMAIN EndMarker
  BY <1>1, <1>4
<1>6. EndMarker[EndPrefixLength(s) + 1] \in EndTokens
  BY <1>5 DEF EndTokens
<1> QED
  BY <1>6, MarkerFacts DEF ForceFor, NoForce

(* A prediction is the target's token or one of the end marker. *)
LEMMA PredictChoice ==
  ASSUME TargetTyped, model \in Models, budget \in Nat,
         NEW s \in Seq(Tok), NEW w \in Nat, NEW ctx \in Seq(Tok), NEW p \in Nat
  PROVE  /\ Predict(ctx, p, ForceFor(s, budget, w)) \in Tok
         /\ Predict(ctx, p, ForceFor(s, budget, w)) \in Greedy!Choices(ctx)
<1> SUFFICES ASSUME NEW f, f # NoForce => budget # 0 /\ f[2] \in EndTokens
             PROVE  Predict(ctx, p, f) \in Tok /\ Predict(ctx, p, f) \in Greedy!Choices(ctx)
  BY ForceToken
<1>2. Target(model, ctx) \in Tok
  BY DEF TargetTyped
<1>3. CASE f # NoForce /\ f[1] = p
  BY <1>3, MarkerFacts DEF Predict, Greedy!Choices, EndTokens
<1>4. CASE ~(f # NoForce /\ f[1] = p)
  BY <1>2, <1>4 DEF Predict, Greedy!Choices
<1> QED
  BY <1>3, <1>4

-----------------------------------------------------------------------------
(* Acceptance *)

(* The sequential rule finds the first mismatch, and the batched rule, a   *)
(* sum over a running conjunction, the same number.                        *)
LEMMA AcceptFacts ==
  ASSUME NEW d \in [1..K -> Tok], NEW pred \in [0..K -> Tok]
  PROVE  /\ NumAccepted(d, pred) \in 0..K
         /\ \A p \in 0..K-1 : p < NumAccepted(d, pred) => pred[p] = d[p + 1]
         /\ NumAcceptedBatch(d, pred) = NumAccepted(d, pred)
<1> DEFINE T == {p \in 0..K-1 : pred[p] # d[p + 1]} \cup {K}
           m == NumAccepted(d, pred)
<1>1. K \in Nat /\ K > 0
  BY SpeculativeAssumption
<1>2. T \subseteq Nat /\ T # {} /\ K \in T
  BY <1>1
<1>3. PICK t \in T : \A y \in T : t <= y
  <2> HIDE DEF T
  <2> QED BY <1>2, LeastNatural
<1>4. t \in 0..K
  BY <1>1, <1>3
<1>5. \A p \in 0..K-1 : p < t => pred[p] = d[p + 1]
  <2> TAKE p \in 0..K-1
  <2> HAVE p < t
  <2>1. p \notin T
    <3> HIDE DEF T
    <3> QED BY <1>1, <1>3, <1>4
  <2> QED BY <2>1
<1>6. t < K => pred[t] # d[t + 1]
  BY <1>1, <1>3
<1> HIDE DEF T
<1>7. /\ m \in 0..K
      /\ \A p \in 0..K-1 : p < m => pred[p] = d[p + 1]
      /\ m < K => pred[m] # d[m + 1]
  BY <1>4, <1>5, <1>6 DEF NumAccepted
<1> HIDE DEF m
<1>8. {p \in 0..K-1 : \A q \in 0..p : pred[q] = d[q + 1]} = 0..m-1
  <2>1. ASSUME NEW p \in 0..K-1, \A q \in 0..p : pred[q] = d[q + 1]
        PROVE  p \in 0..m-1
    <3>1. p < m
      <4> SUFFICES ASSUME m <= p PROVE FALSE
        BY <1>7
      <4>1. m \in 0..p /\ m < K
        BY <1>1, <1>7
      <4> QED BY <1>7, <2>1, <4>1
    <3> QED BY <1>7, <3>1
  <2>2. ASSUME NEW p \in 0..m-1
        PROVE  p \in 0..K-1 /\ \A q \in 0..p : pred[q] = d[q + 1]
    <3>1. p \in 0..K-1 /\ p < m
      BY <1>1, <1>7
    <3>2. \A q \in 0..p : q \in 0..K-1 /\ q < m
      BY <1>1, <1>7, <3>1
    <3> QED BY <1>7, <3>1, <3>2
  <2> QED BY <2>1, <2>2
<1>9. Cardinality(0..m-1) = m
  <2>1. 0 \in Int /\ m - 1 \in Int /\ m \in Nat
    BY <1>1, <1>7
  <2>2. Cardinality(0..m-1) = IF 0 > m - 1 THEN 0 ELSE (m - 1) - 0 + 1
    BY <2>1, FS_Interval
  <2> QED BY <2>1, <2>2
<1> QED
  BY <1>7, <1>8, <1>9 DEF m, NumAcceptedBatch

(* The tokens a round commits: each is the prediction after the ones       *)
(* before it.                                                              *)
LEMMA CommitFacts ==
  ASSUME NEW d \in Seq(Tok), NEW m \in 0..Len(d), NEW pred \in [0..Len(d) -> Tok],
         \A p \in 0..Len(d)-1 : p < m => pred[p] = d[p + 1]
  PROVE  /\ Commit(d, pred, m) \in Seq(Tok)
         /\ Len(Commit(d, pred, m)) = m + 1
         /\ \A i \in 1..m+1 : Commit(d, pred, m)[i] = pred[i - 1]
         /\ \A i \in 0..m : Prefix(Commit(d, pred, m), i) = Prefix(d, i)
<1> DEFINE u == Prefix(d, m)
           c == Append(u, pred[m])
<1>1. u \in Seq(Tok) /\ Len(u) = m /\ \A i \in 1..m : u[i] = d[i]
  BY PrefixFacts
<1>2. pred[m] \in Tok
  OBVIOUS
<1> HIDE DEF u
<1>3. /\ c \in Seq(Tok) /\ Len(c) = m + 1 /\ c[m + 1] = pred[m]
      /\ \A i \in 1..m : c[i] = d[i]
  BY <1>1, <1>2
<1> HIDE DEF c
<1>4. \A i \in 1..m+1 : c[i] = pred[i - 1]
  <2> TAKE i \in 1..m+1
  <2>1. CASE i = m + 1
    BY <1>3, <2>1
  <2>2. CASE i \in 1..m
    <3>1. i - 1 \in 0..Len(d)-1 /\ i - 1 < m /\ (i - 1) + 1 = i
      BY <2>2
    <3> QED BY <1>3, <2>2, <3>1
  <2> QED BY <2>1, <2>2
<1>5. \A i \in 0..m : Prefix(c, i) = Prefix(d, i)
  <2> TAKE i \in 0..m
  <2>1. i \in 0..Len(c) /\ i \in 0..Len(d)
    BY <1>3
  <2>2. /\ Prefix(c, i) \in Seq(Tok) /\ Len(Prefix(c, i)) = i
        /\ \A j \in 1..i : Prefix(c, i)[j] = c[j]
    BY <1>3, <2>1, PrefixFacts
  <2>3. /\ Prefix(d, i) \in Seq(Tok) /\ Len(Prefix(d, i)) = i
        /\ \A j \in 1..i : Prefix(d, i)[j] = d[j]
    BY <2>1, PrefixFacts
  <2>4. \A j \in 1..i : Prefix(c, i)[j] = Prefix(d, i)[j]
    <3> TAKE j \in 1..i
    <3>1. j \in 1..m
      OBVIOUS
    <3> QED BY <1>3, <2>2, <2>3, <3>1
  <2> QED BY <2>2, <2>3, <2>4, SameSequence
<1> QED
  BY <1>3, <1>4, <1>5 DEF Commit, c, u

(* What the engine keeps: everything up to the first end-of-sequence token *)
(* or the requested length, whichever comes first.                         *)
LEMMA KeepFacts ==
  ASSUME out \in Seq(Tok), Len(out) <= MaxTokens, NEW toks \in Seq(Tok)
  PROVE  /\ Keep(toks) \in 0..Len(toks)
         /\ \A i \in 1..Keep(toks) : toks[i] # Eos
         /\ Len(out) + Keep(toks) <= MaxTokens
         /\ \/ Keep(toks) = Len(toks)
            \/ Len(out) + Keep(toks) = MaxTokens
            \/ toks[Keep(toks) + 1] = Eos
<1> DEFINE T == {n \in 0..Len(toks) : \/ n = Len(toks)
                                      \/ Len(out) + n = MaxTokens
                                      \/ toks[n + 1] = Eos}
<1>1. MaxTokens \in Nat /\ Len(toks) \in Nat /\ Len(out) \in Nat
  BY SpeculativeAssumption
<1>2. T \subseteq Nat /\ Len(toks) \in T
  BY <1>1
<1>3. PICK t \in T : \A y \in T : t <= y
  <2> HIDE DEF T
  <2> QED BY <1>2, LeastNatural
<1>4. t \in 0..Len(toks)
  BY <1>3
<1>5. \A i \in 1..t : toks[i] # Eos
  <2> TAKE i \in 1..t
  <2>1. i - 1 \in 0..Len(toks) /\ ~(t <= i - 1) /\ (i - 1) + 1 = i
    BY <1>1, <1>4
  <2>2. i - 1 \notin T
    <3> HIDE DEF T
    <3> QED BY <1>3, <2>1
  <2> QED BY <2>1, <2>2
<1>6. Len(out) + t <= MaxTokens
  <2> SUFFICES ASSUME Len(out) + t > MaxTokens PROVE FALSE
    BY <1>1, <1>4
  <2> DEFINE n == MaxTokens - Len(out)
  <2>1. n \in 0..Len(toks) /\ Len(out) + n = MaxTokens /\ ~(t <= n)
    BY <1>1, <1>4
  <2> HIDE DEF n
  <2>2. n \in T
    BY <2>1
  <2> HIDE DEF T
  <2> QED BY <1>3, <2>1, <2>2
<1>7. t = Len(toks) \/ Len(out) + t = MaxTokens \/ toks[t + 1] = Eos
  BY <1>3
<1> QED
  BY <1>4, <1>5, <1>6, <1>7 DEF Keep

-----------------------------------------------------------------------------
(* Delivering a block *)

(* A block is right when each of its tokens may follow the ones before. *)
RightBlock(toks) ==
  \A i \in 1..Len(toks) : toks[i] \in Greedy!Choices((prompt \o out) \o Prefix(toks, i - 1))

(* What a client has after the first n tokens of a block, and the context  *)
(* it makes.                                                               *)
LEMMA OutFacts ==
  ASSUME prompt \in Seq(Tok), out \in Seq(Tok), NEW toks \in Seq(Tok), NEW n \in 0..Len(toks)
  PROVE  LET o == out \o Prefix(toks, n) IN
         /\ o \in Seq(Tok) /\ Len(o) = Len(out) + n
         /\ \A i \in 1..Len(out) : o[i] = out[i]
         /\ \A j \in 1..n : o[Len(out) + j] = toks[j]
         /\ \A j \in 0..n : prompt \o Prefix(o, Len(out) + j)
                               = (prompt \o out) \o Prefix(toks, j)
<1> DEFINE u == Prefix(toks, n)
<1>1. u \in Seq(Tok) /\ Len(u) = n /\ \A i \in 1..n : u[i] = toks[i]
  BY PrefixFacts
<1>2. \A j \in 0..n : Prefix(u, j) = Prefix(toks, j) /\ Prefix(toks, j) \in Seq(Tok)
  BY PrefixOfPrefix, PrefixFacts
<1> HIDE DEF u
<1>3. /\ out \o u \in Seq(Tok) /\ Len(out \o u) = Len(out) + Len(u)
      /\ \A i \in 1..Len(out) : (out \o u)[i] = out[i]
      /\ \A j \in 1..Len(u) : (out \o u)[Len(out) + j] = u[j]
  BY <1>1, ConcatFacts
<1>4. ASSUME NEW j \in 0..n
      PROVE  prompt \o Prefix(out \o u, Len(out) + j) = (prompt \o out) \o Prefix(toks, j)
  <2>1. j \in 0..Len(u)
    BY <1>1
  <2>2. Prefix(out \o u, Len(out) + j) = out \o Prefix(u, j)
    BY <1>1, <2>1, PrefixOfConcat
  <2> DEFINE v == Prefix(toks, j)
  <2>3. v \in Seq(Tok) /\ Prefix(u, j) = v
    BY <1>2
  <2> HIDE DEF v
  <2>4. (prompt \o out) \o v = prompt \o (out \o v)
    BY <2>3, ConcatAssoc, ZenonT(30)
  <2> QED BY <2>2, <2>3, <2>4 DEF v
<1> QED
  BY <1>1, <1>3, <1>4 DEF u

(* Delivering a right block is a step of greedy decoding. *)
LEMMA DeliverGenerates ==
  ASSUME prompt \in Seq(Tok), out \in Seq(Tok), Len(out) < MaxTokens, reason = "running",
         lost = 0, lost' = 0,
         NEW toks \in Seq(Tok), Len(toks) > 0, RightBlock(toks),
         out' = out \o Prefix(toks, Keep(toks)), reason' = ReasonAfter(toks),
         UNCHANGED <<model, prompt, budget>>
  PROVE  Greedy!Generate
<1> DEFINE n == Keep(toks)
           o == out \o Prefix(toks, n)
<1>0. MaxTokens \in Nat /\ Len(out) \in Nat /\ Len(toks) \in Nat /\ Len(out) <= MaxTokens
  BY SpeculativeAssumption
<1>1. /\ n \in 0..Len(toks)
      /\ \A i \in 1..n : toks[i] # Eos
      /\ Len(out) + n <= MaxTokens
      /\ n = Len(toks) \/ Len(out) + n = MaxTokens \/ toks[n + 1] = Eos
  BY <1>0, KeepFacts
<1> HIDE DEF n
<1>2. /\ o \in Seq(Tok) /\ Len(o) = Len(out) + n
      /\ \A i \in 1..Len(out) : o[i] = out[i]
      /\ \A j \in 1..n : o[Len(out) + j] = toks[j]
      /\ \A j \in 0..n : prompt \o Prefix(o, Len(out) + j) = (prompt \o out) \o Prefix(toks, j)
  BY <1>1, OutFacts
<1>3. out' = o
  BY DEF n
<1> HIDE DEF o
<1>4. \A i \in Len(out) + 1 .. Len(o) :
        o[i] # Eos /\ o[i] \in Greedy!Choices(prompt \o SubSeq(o, 1, i - 1))
  <2> TAKE i \in Len(out) + 1 .. Len(o)
  <2> DEFINE j == i - Len(out)
  <2>1. /\ j \in 1..n /\ j - 1 \in 0..n /\ j \in 1..Len(toks)
        /\ Len(out) + j = i /\ Len(out) + (j - 1) = i - 1
    BY <1>0, <1>1, <1>2
  <2> HIDE DEF j
  <2>2. o[i] = toks[j]
    BY <1>2, <2>1
  <2>3. prompt \o Prefix(o, i - 1) = (prompt \o out) \o Prefix(toks, j - 1)
    <3>1. prompt \o Prefix(o, Len(out) + (j - 1)) = (prompt \o out) \o Prefix(toks, j - 1)
      BY <1>2, <2>1
    <3> QED BY <2>1, <3>1
  <2>4. toks[j] \in Greedy!Choices((prompt \o out) \o Prefix(toks, j - 1))
    BY <2>1 DEF RightBlock
  <2> QED BY <1>1, <2>1, <2>2, <2>3, <2>4 DEF Prefix
<1>s. SeenOut = out /\ SeenOut' = out' /\ SeenReason = reason /\ SeenReason' = reason'
  BY DEF SeenOut, SeenReason
<1>5. Greedy!Extends
  BY <1>0, <1>1, <1>2, <1>3, <1>4, <1>s DEF Greedy!Extends
<1>6. \/ reason' = "running" /\ Len(o) \in Len(out) + 1 .. MaxTokens - 1
      \/ reason' = "length" /\ Len(o) = MaxTokens
      \/ reason' = "stop" /\ Len(o) < MaxTokens /\ Eos \in Greedy!Choices(prompt \o o)
  <2>1. CASE Len(out) + n >= MaxTokens
    <3>1. reason' = "length"
      BY <2>1 DEF ReasonAfter, n
    <3>2. Len(o) = MaxTokens
      <4>1. n \in Nat /\ Len(out) + n <= MaxTokens
        BY <1>1
      <4>2. Len(out) + n = MaxTokens
        <5>1. \A a, b \in Nat : a <= b /\ a >= b => a = b
          OBVIOUS
        <5>2. Len(out) + n \in Nat
          BY <1>0, <4>1
        <5> QED BY <1>0, <2>1, <4>1, <5>1, <5>2, Zenon
      <4> QED BY <1>2, <4>2
    <3> QED BY <3>1, <3>2
  <2>2. CASE ~(Len(out) + n >= MaxTokens) /\ n < Len(toks)
    <3>1. reason' = "stop"
      BY <2>2 DEF ReasonAfter, n
    <3>2. toks[n + 1] = Eos /\ n + 1 \in 1..Len(toks) /\ (n + 1) - 1 = n /\ n \in 0..n
      BY <1>0, <1>1, <2>2
    <3>3. Eos \in Greedy!Choices((prompt \o out) \o Prefix(toks, n))
      BY <3>2 DEF RightBlock
    <3>4. prompt \o Prefix(o, Len(o)) = (prompt \o out) \o Prefix(toks, n)
      BY <1>2, <3>2
    <3>5. Prefix(o, Len(o)) = o
      BY <1>2 DEF Prefix
    <3>6. Len(o) < MaxTokens
      BY <1>0, <1>1, <1>2, <2>2
    <3>7. Eos \in Greedy!Choices(prompt \o o)
      BY <3>3, <3>4, <3>5
    <3> QED BY <3>1, <3>6, <3>7
  <2>3. CASE ~(Len(out) + n >= MaxTokens) /\ ~(n < Len(toks))
    <3>1. reason' = "running"
      BY <2>3 DEF ReasonAfter, n
    <3>2. Len(o) \in Len(out) + 1 .. MaxTokens - 1
      BY <1>0, <1>1, <1>2, <2>3
    <3> QED BY <3>1, <3>2
  <2> QED BY <2>1, <2>2, <2>3
<1> QED
  BY <1>3, <1>5, <1>6, <1>s DEF Greedy!Generate

-----------------------------------------------------------------------------
(* The inductive invariant *)

TypeInv ==
  /\ model \in Models /\ prompt \in Seq(Tok) /\ budget \in Nat /\ out \in Seq(Tok)
  /\ phase \in {"free", "prefill", "live"}
  /\ kv \in Seq(Tok) /\ committed \in Seq(Tok)
  /\ rows \in [0..K -> Seq(Tok)] /\ col \in 0..K
  /\ sync \in Nat /\ lost \in Nat

(* During prefill the KV, the recurrent state and the MTP cache stand at   *)
(* the same place of the prompt.                                           *)
PrefillInv ==
  phase = "prefill" =>
    /\ prompt # <<>> /\ out = <<>>
    /\ Len(kv) <= Len(prompt) /\ kv = Prefix(prompt, Len(kv))
    /\ rows[col] = After(kv, lost) /\ sync = Len(kv)

PhaseInv ==
  /\ phase # "free" => lost <= Len(kv)
  /\ phase = "free" <=> reason # "running"
  /\ phase # "live" => col = 0
  /\ phase = "live" => Len(out) < MaxTokens /\ drafts \in Drafts

Inv == TypeInv /\ PhaseInv /\ PrefillInv /\ LiveRowIsKv /\ LockStep

(* A prefix and what follows it make a longer prefix. *)
LEMMA SplitPrefix ==
  ASSUME NEW s \in Seq(Tok), NEW q \in 0..Len(s), NEW n \in 0..q
  PROVE  /\ SubSeq(s, n + 1, q) \in Seq(Tok)
         /\ Prefix(s, n) \o SubSeq(s, n + 1, q) = Prefix(s, q)
<1> DEFINE u == Prefix(s, n)
           t == SubSeq(s, n + 1, q)
           v == Prefix(s, q)
<1>0. n \in 0..Len(s) /\ n \in Nat /\ q \in Nat
  OBVIOUS
<1>1. u \in Seq(Tok) /\ Len(u) = n /\ \A i \in 1..n : u[i] = s[i]
  BY <1>0, PrefixFacts
<1>2. t \in Seq(Tok) /\ Len(t) = q - n /\ \A i \in 1..q - n : t[i] = s[n + i]
  BY <1>0
<1>3. v \in Seq(Tok) /\ Len(v) = q /\ \A i \in 1..q : v[i] = s[i]
  BY PrefixFacts
<1> HIDE DEF u, t, v
<1>4. /\ u \o t \in Seq(Tok) /\ Len(u \o t) = Len(u) + Len(t)
      /\ \A i \in 1..Len(u) : (u \o t)[i] = u[i]
      /\ \A i \in 1..Len(t) : (u \o t)[Len(u) + i] = t[i]
  BY <1>1, <1>2, ConcatFacts
<1>5. \A i \in 1..q : (u \o t)[i] = s[i]
  <2> TAKE i \in 1..q
  <2>1. CASE i <= n
    BY <1>0, <1>1, <1>4, <2>1
  <2>2. CASE i > n
    <3> DEFINE j == i - n
    <3>1. j \in 1..q - n /\ n + j = i
      BY <1>0, <2>2
    <3> HIDE DEF j
    <3>2. j \in 1..Len(t) /\ t[j] = s[i]
      BY <1>2, <3>1
    <3>3. (u \o t)[Len(u) + j] = t[j]
      BY <1>4, <3>2
    <3> QED BY <1>1, <3>1, <3>2, <3>3, Zenon
  <2>3. i \in Nat /\ (i <= n \/ i > n)
    BY <1>0
  <2> QED BY <2>1, <2>2, <2>3
<1>6. Len(u \o t) = Len(v)
  BY <1>0, <1>1, <1>2, <1>3, <1>4
<1>7. \A i \in 1..Len(u \o t) : (u \o t)[i] = v[i]
  BY <1>3, <1>5, <1>6
<1>8. u \o t = v
  BY <1>3, <1>4, <1>6, <1>7, SameSequence
<1> QED
  BY <1>2, <1>8 DEF u, t, v

(* A draft is K tokens. *)
LEMMA DraftsAreSequences ==
  ASSUME NEW d \in Drafts
  PROVE  d \in Seq(Tok) /\ Len(d) = K
  BY SpeculativeAssumption DEF Drafts

(* The last chunk absorbs the rest of the prompt; with nothing lost, the   *)
(* first token is the one the whole prompt predicts.                       *)
LEMMA PrefillBlock ==
  ASSUME TargetTyped, Inv, phase = "prefill"
  PROVE  /\ PromptState = After(prompt, lost) /\ PromptState \in Seq(Tok)
         /\ kv \o PromptRest = prompt /\ lost <= Len(prompt)
         /\ <<FirstToken>> \in Seq(Tok) /\ Len(<<FirstToken>>) = 1
         /\ lost = 0 => RightBlock(<<FirstToken>>)
         /\ SyncedPrompt = Len(prompt) /\ Len(prompt) > 0
<1>1. PICK n \in 0..Len(prompt) : kv = Prefix(prompt, n) /\ Len(kv) = n
  BY DEF Inv, PrefillInv, TypeInv
<1>2. /\ prompt \in Seq(Tok) /\ prompt # <<>> /\ out = <<>> /\ rows[col] = After(kv, lost) /\ sync = n
      /\ budget \in Nat /\ model \in Models /\ kv \in Seq(Tok) /\ lost \in 0..Len(kv)
  BY <1>1 DEF Inv, PrefillInv, TypeInv, PhaseInv
<1> DEFINE rest == SubSeq(prompt, n + 1, Len(prompt))
<1>3. Prefix(prompt, n) \o rest = prompt /\ rest \in Seq(Tok)
  <2>1. Len(prompt) \in 0..Len(prompt) /\ n \in 0..Len(prompt)
    BY <1>2
  <2>2. rest \in Seq(Tok) /\ Prefix(prompt, n) \o rest = Prefix(prompt, Len(prompt))
    BY <1>2, <2>1, SplitPrefix
  <2>3. Prefix(prompt, Len(prompt)) = prompt
    BY <1>2 DEF Prefix
  <2> QED BY <2>2, <2>3
<1>4. PromptRest = rest /\ PromptState = After(kv, lost) \o rest
  BY <1>1, <1>2 DEF PromptRest, PromptState
<1> HIDE DEF rest
<1>5. kv \o PromptRest = prompt /\ PromptState = After(prompt, lost)
  <2>1. kv \o rest = prompt
    BY <1>1, <1>3
  <2>2. After(kv \o rest, lost) = After(kv, lost) \o rest
    BY <1>2, <1>3, AfterConcat
  <2> QED BY <1>4, <2>1, <2>2
<1>6. lost \in 0..Len(prompt) /\ lost <= Len(prompt)
  BY <1>1, <1>2
<1>7. PromptState \in Seq(Tok) /\ (lost = 0 => PromptState = prompt)
  BY <1>2, <1>5, <1>6, AfterFacts
<1>8. FirstToken \in Tok /\ FirstToken \in Greedy!Choices(PromptState)
  BY <1>2, <1>7, PredictChoice DEF FirstToken
<1>9. SyncedPrompt = Len(prompt) /\ Len(prompt) > 0
  BY <1>1, <1>2 DEF SyncedPrompt
<1>10. ASSUME lost = 0 PROVE RightBlock(<<FirstToken>>)
  <2> SUFFICES FirstToken \in Greedy!Choices((prompt \o out) \o Prefix(<<FirstToken>>, 0))
    BY DEF RightBlock
  <2>1. (prompt \o out) \o Prefix(<<FirstToken>>, 0) = prompt
    BY <1>2 DEF Prefix
  <2> QED BY <1>7, <1>8, <1>10, <2>1
<1> QED
  BY <1>5, <1>6, <1>7, <1>8, <1>9, <1>10

(* A round commits a block of tokens, a right one with nothing lost, and   *)
(* the row it makes live has absorbed the committed sequence and the       *)
(* accepted drafts, all but what was lost.                                 *)
LEMMA RoundBlock ==
  ASSUME TargetTyped, Inv, phase = "live",
         NEW m \in {NumAccepted(drafts, Predictions), NumAcceptedBatch(drafts, Predictions)}
  PROVE  LET new == Commit(drafts, Predictions, m)
             k == kv \o Prefix(VerifyTokens, m + 1)
         IN  /\ m \in 0..K
             /\ new \in Seq(Tok) /\ Len(new) = m + 1
             /\ lost = 0 => RightBlock(new)
             /\ \A i \in 1..m+1 : new[i] = Predictions[i - 1]
             /\ VerifyRows \in [0..K -> Seq(Tok)] /\ VerifyRows[m] = After(k, lost)
             /\ k \in Seq(Tok) /\ Len(k) = Len(kv) + m + 1
             /\ k = Prefix(committed \o new, Len(k))
<1> DEFINE new == Commit(drafts, Predictions, m)
           force == ForceFor(prompt \o out, budget, K + 1)
<1>1. /\ kv \in Seq(Tok) /\ committed \in Seq(Tok) /\ prompt \in Seq(Tok) /\ out \in Seq(Tok)
      /\ rows[col] = After(kv, lost) /\ committed = prompt \o out /\ Len(committed) = Len(kv) + 1
      /\ budget \in Nat /\ model \in Models /\ K \in Nat /\ K > 0
      /\ lost \in Nat /\ lost <= Len(kv)
  <2>1. K \in Nat /\ K > 0
    BY SpeculativeAssumption
  <2>2. lost <= Len(kv)
    BY Zenon DEF Inv, PhaseInv
  <2> QED BY <2>1, <2>2, Zenon DEF Inv, TypeInv, LiveRowIsKv, After
<1>2. drafts \in [1..K -> Tok] /\ drafts \in Seq(Tok) /\ Len(drafts) = K
  BY DraftsAreSequences DEF Inv, PhaseInv, Drafts
<1>3. /\ <<committed[Len(committed)]>> \in Seq(Tok) /\ Len(<<committed[Len(committed)]>>) = 1
      /\ kv \o <<committed[Len(committed)]>> = committed
  <2>1. \A k, c \in Seq(Tok) : Len(c) = Len(k) + 1 /\ k = Prefix(c, Len(k)) =>
          <<c[Len(c)]>> \in Seq(Tok) /\ Len(<<c[Len(c)]>>) = 1 /\ k \o <<c[Len(c)]>> = c
    BY KvAndAnchor, Zenon
  <2>2. kv = Prefix(committed, Len(kv))
    BY DEF Inv, LiveRowIsKv
  <2> QED BY <1>1, <2>1, <2>2, Zenon
<1>4. \A p \in 0..K : /\ kv \o Prefix(VerifyTokens, p + 1) = committed \o Prefix(drafts, p)
                      /\ committed \o Prefix(drafts, p) \in Seq(Tok)
                      /\ Len(committed \o Prefix(drafts, p)) = Len(kv) + p + 1
                      /\ VerifyRows[p] = After(kv \o Prefix(VerifyTokens, p + 1), lost)
  <2> TAKE p \in 0..K
  <2>1. Prefix(drafts, p) \in Seq(Tok) /\ Len(Prefix(drafts, p)) = p
    BY <1>2, PrefixFacts
  <2> DEFINE a == <<committed[Len(committed)]>>
             v == Prefix(VerifyTokens, p + 1)
  <2>2. VerifyTokens = a \o drafts
    BY DEF VerifyTokens
  <2>3. a \in Seq(Tok) /\ Len(a) = 1 /\ kv \in Seq(Tok) /\ drafts \in Seq(Tok)
    BY <1>1, <1>2, <1>3
  <2>4. kv \o a = committed
    BY <1>3
  <2> HIDE DEF a
  <2>5. p \in 0..Len(drafts) /\ p \in Nat
    BY <1>1, <1>2
  <2>6. kv \o Prefix(a \o drafts, p + 1) = (kv \o a) \o Prefix(drafts, p)
    BY <2>3, <2>5, VerifyContext, ZenonT(30)
  <2>7. kv \o v = committed \o Prefix(drafts, p)
    BY <2>2, <2>4, <2>6, Zenon
  <2>8. /\ committed \o Prefix(drafts, p) \in Seq(Tok)
        /\ Len(committed \o Prefix(drafts, p)) = Len(committed) + Len(Prefix(drafts, p))
    BY <1>1, <2>1, ConcatFacts
  <2>9. Len(committed) + Len(Prefix(drafts, p)) = Len(kv) + p + 1
    BY <1>1, <2>1
  <2>10. v \in Seq(Tok)
    <3>1. a \o drafts \in Seq(Tok) /\ Len(a \o drafts) = K + 1
      <4>1. a \o drafts \in Seq(Tok) /\ Len(a \o drafts) = Len(a) + Len(drafts)
        BY <2>3, ConcatFacts
      <4> QED BY <1>1, <1>2, <2>3, <4>1
    <3>2. p + 1 \in 0..Len(a \o drafts)
      BY <1>1, <3>1
    <3> HIDE DEF v
    <3>3. Prefix(a \o drafts, p + 1) \in Seq(Tok)
      BY <3>1, <3>2, PrefixFacts
    <3> QED BY <2>2, <3>3 DEF v
  <2>11. VerifyRows[p] = After(kv, lost) \o v
    BY <1>1 DEF VerifyRows
  <2> HIDE DEF v
  <2>12. After(kv \o v, lost) = After(kv, lost) \o v
    BY <1>1, <2>10, AfterConcat
  <2> QED BY <2>7, <2>8, <2>9, <2>11, <2>12 DEF v
<1>5. \A p \in 0..K : /\ VerifyRows[p] = After(committed \o Prefix(drafts, p), lost)
                      /\ VerifyRows[p] \in Seq(Tok)
                      /\ lost = 0 => VerifyRows[p] = committed \o Prefix(drafts, p)
  <2> TAKE p \in 0..K
  <2> DEFINE c == committed \o Prefix(drafts, p)
  <2>1. VerifyRows[p] = After(c, lost) /\ c \in Seq(Tok) /\ Len(c) = Len(kv) + p + 1
    BY <1>4
  <2> HIDE DEF c
  <2>2. lost \in 0..Len(c)
    BY <1>1, <2>1
  <2>3. After(c, lost) \in Seq(Tok) /\ After(c, 0) = c
    BY <2>1, <2>2, AfterFacts
  <2>4. lost = 0 => VerifyRows[p] = c
    BY <2>1, <2>3
  <2> QED BY <2>1, <2>3, <2>4 DEF c
<1>6. VerifyRows \in [0..K -> Seq(Tok)]
  BY <1>5 DEF VerifyRows
<1>7. \A p \in 0..K : /\ Predictions[p] \in Tok
                      /\ Predictions[p] \in Greedy!Choices(VerifyRows[p])
  <2> TAKE p \in 0..K
  <2> DEFINE ctx == VerifyRows[p]
             s == prompt \o out
  <2>1. Predictions[p] = Predict(ctx, p, ForceFor(s, budget, K + 1))
    BY DEF Predictions
  <2>2. s \in Seq(Tok) /\ K + 1 \in Nat /\ p \in Nat /\ ctx \in Seq(Tok)
    BY <1>1, <1>5
  <2> HIDE DEF ctx, s
  <2>3. /\ Predict(ctx, p, ForceFor(s, budget, K + 1)) \in Tok
        /\ Predict(ctx, p, ForceFor(s, budget, K + 1)) \in Greedy!Choices(ctx)
    BY <1>1, <2>2, PredictChoice
  <2> QED BY <2>1, <2>3 DEF ctx
<1>8. Predictions \in [0..K -> Tok]
  BY <1>7 DEF Predictions
<1>9. m \in 0..K /\ \A p \in 0..K-1 : p < m => Predictions[p] = drafts[p + 1]
  BY <1>2, <1>8, AcceptFacts
<1>10. /\ new \in Seq(Tok) /\ Len(new) = m + 1
       /\ \A i \in 1..m+1 : new[i] = Predictions[i - 1]
       /\ \A i \in 0..m : Prefix(new, i) = Prefix(drafts, i)
  BY <1>2, <1>8, <1>9, CommitFacts
<1> HIDE DEF new
<1>11. ASSUME lost = 0 PROVE RightBlock(new)
  <2> SUFFICES ASSUME NEW i \in 1..m+1
               PROVE  new[i] \in Greedy!Choices(committed \o Prefix(new, i - 1))
    BY <1>1, <1>10, Zenon DEF RightBlock
  <2>1. i - 1 \in 0..m /\ i - 1 \in 0..K
    <3>1. K \in Nat /\ m \in 0..K
      BY <1>1, <1>9
    <3> QED BY <3>1
  <2>2. VerifyRows[i - 1] = committed \o Prefix(new, i - 1)
    BY <1>5, <1>10, <1>11, <2>1
  <2> QED BY <1>7, <1>10, <2>1, <2>2
<1>12. kv \o Prefix(VerifyTokens, m + 1) = Prefix(committed \o new, Len(kv) + m + 1)
  <2>1. m \in 0..Len(new) /\ Len(committed) + m = Len(kv) + m + 1
    BY <1>1, <1>9, <1>10
  <2>2. Prefix(committed \o new, Len(committed) + m) = committed \o Prefix(new, m)
    BY <1>1, <1>10, <2>1, PrefixOfConcat
  <2>3. Prefix(new, m) = Prefix(drafts, m)
    BY <1>9, <1>10
  <2> QED BY <1>4, <1>9, <2>1, <2>2, <2>3
<1> DEFINE k == kv \o Prefix(VerifyTokens, m + 1)
<1>13. k \in Seq(Tok) /\ Len(k) = Len(kv) + m + 1 /\ VerifyRows[m] = After(k, lost)
  BY <1>4, <1>9
<1>14. k = Prefix(committed \o new, Len(k))
  BY <1>12, <1>13, Zenon
<1> QED
  BY <1>6, <1>9, <1>10, <1>11, <1>13, <1>14 DEF new

-----------------------------------------------------------------------------
(* The invariant is inductive *)

(* An idle slot satisfies the invariant. *)
LEMMA InitInv == Init => Inv
<1> SUFFICES ASSUME Init PROVE Inv
  OBVIOUS
<1>1. K \in Nat /\ 0 \in 0..K /\ <<>> \in Seq(Tok)
  BY SpeculativeAssumption
<1>2. rows \in [0..K -> Seq(Tok)]
  BY <1>1 DEF Init
<1>3. TypeInv
  BY <1>1, <1>2 DEF Init, TypeInv
<1>4. PhaseInv /\ PrefillInv /\ LiveRowIsKv /\ LockStep
  BY DEF Init, PhaseInv, PrefillInv, LiveRowIsKv, LockStep
<1> QED
  BY <1>3, <1>4 DEF Inv

(* A reset during which no check raises. *)
LEMMA ResetInv ==
  ASSUME Inv, NEW ok, ok, Reset(ok), reason' # "running",
         model' = model, prompt' \in Seq(Tok), budget' \in Nat, out' \in Seq(Tok), lost' = lost
  PROVE  Inv'
<1>1. K \in Nat /\ 0 \in 0..K /\ <<>> \in Seq(Tok)
  BY SpeculativeAssumption
<1>2. rows' \in [0..K -> Seq(Tok)]
  BY <1>1 DEF Reset
<1>3. ~fault'
  BY Zenon DEF Inv, LockStep, Reset
<1>4. phase' = "free" /\ kv' = <<>> /\ committed' = <<>> /\ col' = 0 /\ sync' = 0
  BY DEF Reset
<1>5. model' \in Models /\ lost' \in Nat
  BY DEF Inv, TypeInv
<1>6. TypeInv'
  BY <1>1, <1>2, <1>3, <1>4, <1>5 DEF TypeInv
<1>7. PhaseInv' /\ PrefillInv' /\ LiveRowIsKv' /\ LockStep'
  BY <1>3, <1>4 DEF PhaseInv, PrefillInv, LiveRowIsKv, LockStep
<1> QED
  BY <1>6, <1>7 DEF Inv

(* A request begins, with or without a restored prefix. *)
LEMMA BeginInv ==
  ASSUME Inv, NEW p \in Prompts, NEW b \in Budgets, NEW source \in Sources,
         NEW n \in 0..Len(p), Begin(p, b, n, source)
  PROVE  Inv'
<1>1. p \in Seq(Tok) /\ p # <<>> /\ b \in Nat /\ K \in Nat /\ 0 \in 0..K
  BY SpeculativeAssumption
<1> DEFINE u == Prefix(p, n)
<1>2. u \in Seq(Tok) /\ Len(u) = n /\ n <= Len(p) /\ n \in Nat
  BY <1>1, PrefixFacts
<1>3. /\ phase = "free" /\ phase' = "prefill" /\ prompt' = p /\ budget' = b /\ out' = <<>>
      /\ reason' = "running" /\ kv' = u /\ rows' = Restored(u, source) /\ sync' = n
      /\ lost' = (IF source = "copied" THEN n ELSE 0)
      /\ model' = model /\ col' = col /\ committed' = committed /\ fault' = fault
  BY DEF Begin
<1>4. u = Prefix(p, Len(u))
  BY <1>2
<1>a. After(u, 0) = u /\ After(u, n) = <<>>
  <2> HIDE DEF u
  <2> QED BY <1>2, AfterFacts
<1> HIDE DEF u
<1>5. /\ col = 0 /\ rows \in [0..K -> Seq(Tok)] /\ model \in Models
      /\ committed \in Seq(Tok) /\ ~fault
  BY <1>3, Zenon DEF Inv, TypeInv, PhaseInv, LockStep
<1>6. rows' \in [0..K -> Seq(Tok)] /\ rows'[0] = After(u, lost')
  <2>1. CASE source = "copied"
    BY <1>1, <1>3, <1>a, <2>1 DEF Restored
  <2>2. CASE source # "copied"
    BY <1>1, <1>2, <1>3, <1>5, <1>a, <2>2 DEF Restored
  <2> QED BY <2>1, <2>2
<1>b. lost' \in Nat /\ lost' <= Len(kv')
  BY <1>2, <1>3
<1>7. TypeInv'
  BY <1>1, <1>2, <1>3, <1>5, <1>6, <1>b DEF TypeInv
<1>8. PrefillInv'
  BY <1>1, <1>2, <1>3, <1>4, <1>5, <1>6 DEF PrefillInv
<1>9. PhaseInv' /\ LiveRowIsKv' /\ LockStep'
  BY <1>3, <1>5, <1>b DEF PhaseInv, LiveRowIsKv, LockStep
<1> QED
  BY <1>7, <1>8, <1>9 DEF Inv

(* A prefill chunk that is not the last. *)
LEMMA ChunkInv ==
  ASSUME Inv, PrefillChunk
  PROVE  Inv'
<1>1. PICK n \in 0..Len(prompt) : kv = Prefix(prompt, n) /\ Len(kv) = n
  BY DEF Inv, PrefillInv, TypeInv, PrefillChunk
<1> DEFINE t == SubSeq(prompt, n + 1, n + Chunk)
           q == n + Chunk
           w == Prefix(prompt, q)
<1>2. /\ prompt \in Seq(Tok) /\ prompt # <<>> /\ out = <<>> /\ rows[col] = After(kv, lost) /\ sync = n
      /\ budget \in Nat /\ model \in Models /\ committed \in Seq(Tok)
      /\ rows \in [0..K -> Seq(Tok)] /\ col \in 0..K /\ kv \in Seq(Tok) /\ lost \in Nat
  BY <1>1 DEF Inv, PrefillInv, TypeInv, PrefillChunk
<1>3. ~fault /\ reason = "running" /\ col = 0 /\ lost <= Len(kv)
  BY Zenon DEF Inv, PhaseInv, LockStep, PrefillChunk
<1>4. Chunk \in Nat /\ q \in 0..Len(prompt) /\ n \in 0..q /\ q <= Len(prompt) /\ q \in Nat
  BY <1>1, <1>2, SpeculativeAssumption DEF PrefillChunk
<1>5. Prefix(prompt, n) \o t = w /\ t \in Seq(Tok)
  BY <1>2, <1>4, SplitPrefix
<1>6. w \in Seq(Tok) /\ Len(w) = q
  BY <1>2, <1>4, PrefixFacts
<1>7. /\ kv' = kv \o t /\ rows' = [rows EXCEPT ![col] = rows[col] \o t]
      /\ sync' = q /\ phase = "prefill" /\ phase' = phase /\ prompt' = prompt /\ out' = out
      /\ reason' = reason /\ col' = col /\ committed' = committed /\ fault' = fault
      /\ model' = model /\ budget' = budget /\ lost' = lost
  BY <1>1, <1>2 DEF PrefillChunk
<1>8. kv' = w /\ rows' = [rows EXCEPT ![col] = After(w, lost)] /\ After(w, lost) \in Seq(Tok)
  <2>a. kv \o t = w
    BY <1>1, <1>5
  <2>b. Len(kv) = n /\ Len(w) = q /\ lost \in Nat /\ lost <= Len(kv)
    BY <1>1, <1>2, <1>3, <1>6
  <2>1. kv \o t = w /\ lost \in 0..Len(kv) /\ lost \in 0..Len(w)
    <3> HIDE DEF w, t
    <3> QED BY <1>4, <2>a, <2>b
  <2> HIDE DEF t, w
  <2>2. After(w, lost) = After(kv, lost) \o t
    BY <1>2, <1>5, <2>1, AfterConcat
  <2>3. After(w, lost) \in Seq(Tok)
    BY <1>6, <2>1, AfterFacts
  <2> QED BY <1>2, <1>7, <2>1, <2>2, <2>3
<1>9. w = Prefix(prompt, Len(w))
  BY <1>6
<1> HIDE DEF w, t, q
<1>10. rows' \in [0..K -> Seq(Tok)] /\ rows'[col] = After(w, lost)
  BY <1>2, <1>6, <1>8
<1>11. TypeInv'
  BY <1>2, <1>3, <1>4, <1>6, <1>7, <1>8, <1>10 DEF TypeInv
<1>12. PrefillInv'
  BY <1>2, <1>4, <1>6, <1>7, <1>8, <1>9, <1>10 DEF PrefillInv
<1>a. lost' <= Len(kv')
  BY <1>1, <1>2, <1>3, <1>4, <1>6, <1>7, <1>8
<1>13. PhaseInv' /\ LiveRowIsKv' /\ LockStep'
  BY <1>3, <1>7, <1>a DEF PhaseInv, LiveRowIsKv, LockStep
<1> QED
  BY <1>11, <1>12, <1>13 DEF Inv

(* A block the request outlives is delivered whole. *)
LEMMA DeliveredOut ==
  ASSUME prompt \in Seq(Tok), out \in Seq(Tok), Len(out) <= MaxTokens, NEW toks \in Seq(Tok),
         out' = out \o Prefix(toks, Keep(toks))
  PROVE  /\ out' \in Seq(Tok)
         /\ ReasonAfter(toks) = "running" => out' = out \o toks /\ Len(out') < MaxTokens
<1> DEFINE n == Keep(toks)
<1>1. n \in 0..Len(toks) /\ Len(out) \in Nat /\ MaxTokens \in Nat /\ n \in Nat
  BY KeepFacts, SpeculativeAssumption
<1>2. out' \in Seq(Tok) /\ Len(out') = Len(out) + n
  BY <1>1, OutFacts
<1>3. ASSUME ReasonAfter(toks) = "running"
      PROVE  out' = out \o toks /\ Len(out') < MaxTokens
  <2>1. ~(Len(out) + n >= MaxTokens) /\ ~(n < Len(toks))
    BY <1>3 DEF ReasonAfter
  <2> HIDE DEF n
  <2>2. n = Len(toks) /\ Len(out) + n < MaxTokens
    BY <1>1, <2>1
  <2>3. Prefix(toks, Len(toks)) = toks
    BY DEF Prefix
  <2> QED BY <1>2, <2>2, <2>3 DEF n
<1> QED
  BY <1>2, <1>3

(* The last prefill chunk, which samples the first token. *)
LEMMA LastInv ==
  ASSUME TargetTyped, Inv, PrefillLast
  PROVE  Inv'
<1> DEFINE toks == <<FirstToken>>
           ok == col = 0 /\ SyncedPrompt = Len(prompt)
<1>1. /\ PromptState = After(prompt, lost) /\ PromptState \in Seq(Tok) /\ lost <= Len(prompt)
      /\ kv \o PromptRest = prompt
      /\ toks \in Seq(Tok) /\ SyncedPrompt = Len(prompt) /\ Len(prompt) > 0
  BY PrefillBlock DEF PrefillLast
<1>2. /\ prompt \in Seq(Tok) /\ out = <<>> /\ out \in Seq(Tok) /\ model \in Models /\ budget \in Nat
      /\ rows \in [0..K -> Seq(Tok)] /\ col \in 0..K /\ col = 0 /\ reason = "running"
      /\ phase = "prefill" /\ lost \in Nat
  BY DEF Inv, TypeInv, PhaseInv, PrefillInv, PrefillLast
<1>3. ~fault
  BY DEF Inv, LockStep
<1>4. /\ model' = model /\ prompt' = prompt /\ budget' = budget
      /\ out' = out \o Prefix(toks, Keep(toks)) /\ reason' = ReasonAfter(toks)
      /\ lost' = lost
  BY DEF PrefillLast, Deliver
<1>5. Len(out) <= MaxTokens /\ MaxTokens \in Nat /\ K \in Nat /\ K > 0
  BY <1>2, SpeculativeAssumption
<1>6. /\ out' \in Seq(Tok)
      /\ ReasonAfter(toks) = "running" => out' = out \o toks /\ Len(out') < MaxTokens
  <2> HIDE DEF toks
  <2> QED BY <1>1, <1>2, <1>4, <1>5, DeliveredOut
<1>7. CASE ReasonAfter(toks) # "running"
  <2>1. Reset(ok)
    BY <1>7 DEF PrefillLast, Deliver
  <2>2. ok
    BY <1>1, <1>2
  <2> HIDE DEF ok, toks
  <2> QED BY <1>2, <1>4, <1>6, <1>7, <2>1, <2>2, ResetInv
<1>8. CASE ReasonAfter(toks) = "running"
  <2>1. /\ phase' = "live" /\ kv' = kv \o PromptRest
        /\ rows' = [rows EXCEPT ![col] = PromptState]
        /\ committed' = Append(prompt, FirstToken) /\ drafts' \in Drafts
        /\ sync' = SyncedPrompt /\ seqLen' = SyncedPrompt + K - 1
        /\ fault' = (fault \/ col # 0) /\ col' = col
    BY <1>8 DEF PrefillLast, Deliver
  <2>2. kv' = prompt /\ rows' \in [0..K -> Seq(Tok)] /\ rows'[col'] = After(kv', lost')
    BY <1>1, <1>2, <1>4, <2>1
  <2>3. FirstToken \in Tok
    BY <1>1
  <2>4. /\ committed' \in Seq(Tok) /\ Len(committed') = Len(prompt) + 1
        /\ Prefix(committed', Len(prompt)) = prompt
    BY <1>2, <2>1, <2>3 DEF Prefix
  <2>5. committed' = prompt \o out'
    <3>1. out' = <<FirstToken>>
      BY <1>2, <1>6, <1>8, <2>3
    <3>2. prompt \o <<FirstToken>> = Append(prompt, FirstToken)
      BY <1>2, <2>3
    <3> QED BY <2>1, <3>1, <3>2
  <2>6. ~fault' /\ sync' = Len(prompt) /\ seqLen' = sync' + K - 1
    BY <1>1, <1>2, <1>3, <2>1
  <2>7. TypeInv'
    BY <1>2, <1>4, <1>6, <2>1, <2>2, <2>4, <2>6 DEF TypeInv
  <2>8. PhaseInv' /\ PrefillInv'
    BY <1>1, <1>2, <1>4, <1>6, <1>8, <2>1, <2>2 DEF PhaseInv, PrefillInv
  <2>9. LiveRowIsKv'
    BY <1>4, <2>2, <2>4, <2>5 DEF LiveRowIsKv, After
  <2>10. LockStep'
    BY <2>2, <2>6 DEF LockStep
  <2> QED BY <2>7, <2>8, <2>9, <2>10 DEF Inv
<1> QED
  BY <1>7, <1>8

(* A round of drafting, verifying and accepting. *)
LEMMA RoundInv ==
  ASSUME TargetTyped, Inv, Round
  PROVE  Inv'
<1>0. phase = "live"
  BY DEF Round
<1>1. PICK m \in {NumAccepted(drafts, Predictions), NumAcceptedBatch(drafts, Predictions)} :
        RoundWith(Predictions, m)
  BY DEF Round
<1> DEFINE toks == Commit(drafts, Predictions, m)
           k == kv \o Prefix(VerifyTokens, m + 1)
           ok == seqLen = sync + K - 1 /\ sync = Len(kv)
<1>2. /\ m \in 0..K
      /\ toks \in Seq(Tok) /\ Len(toks) = m + 1
      /\ VerifyRows \in [0..K -> Seq(Tok)] /\ VerifyRows[m] = After(k, lost)
      /\ k \in Seq(Tok) /\ Len(k) = Len(kv) + m + 1
      /\ k = Prefix(committed \o toks, Len(k))
  BY <1>0, <1>1, RoundBlock
<1>3. /\ prompt \in Seq(Tok) /\ out \in Seq(Tok) /\ model \in Models /\ budget \in Nat
      /\ kv \in Seq(Tok) /\ committed \in Seq(Tok) /\ committed = prompt \o out
      /\ Len(committed) = Len(kv) + 1
      /\ reason = "running" /\ Len(out) < MaxTokens
      /\ ~fault /\ sync = Len(kv) /\ seqLen = sync + K - 1
      /\ lost \in Nat /\ lost <= Len(kv)
  BY <1>0, Zenon DEF Inv, TypeInv, PhaseInv, LiveRowIsKv, LockStep
<1>4. Len(out) <= MaxTokens /\ MaxTokens \in Nat /\ K \in Nat /\ K > 0
  BY <1>3, SpeculativeAssumption
<1>5. /\ model' = model /\ prompt' = prompt /\ budget' = budget
      /\ out' = out \o Prefix(toks, Keep(toks)) /\ reason' = ReasonAfter(toks)
      /\ lost' = lost
  BY <1>1 DEF RoundWith, Deliver
<1>6. /\ out' \in Seq(Tok)
      /\ ReasonAfter(toks) = "running" => out' = out \o toks /\ Len(out') < MaxTokens
  <2> HIDE DEF toks
  <2> QED BY <1>2, <1>3, <1>4, <1>5, DeliveredOut
<1>7. CASE ReasonAfter(toks) # "running"
  <2>1. Reset(ok)
    BY <1>1, <1>7 DEF RoundWith, Deliver
  <2>2. ok
    BY <1>3
  <2> HIDE DEF ok, toks
  <2> QED BY <1>3, <1>5, <1>6, <1>7, <2>1, <2>2, ResetInv
<1>8. CASE ReasonAfter(toks) = "running"
  <2>1. /\ kv' = k /\ rows' = VerifyRows /\ col' = m
        /\ committed' = committed \o toks /\ drafts' \in Drafts
        /\ sync' = sync + m + 1 /\ seqLen' = sync + m + K
        /\ fault' = (fault \/ seqLen # sync + K - 1) /\ phase' = phase
    BY <1>1, <1>8 DEF RoundWith, Deliver, LiveRow
  <2> HIDE DEF toks, k
  <2>2. rows' \in [0..K -> Seq(Tok)] /\ rows'[col'] = After(kv', lost') /\ kv' \in Seq(Tok) /\ col' \in 0..K
    BY <1>2, <1>5, <2>1
  <2>3. committed' \in Seq(Tok) /\ Len(committed') = Len(committed) + Len(toks)
    BY <1>2, <1>3, <2>1, ConcatFacts
  <2>4. Len(committed') = Len(kv') + 1
    <3>1. Len(kv) \in Nat /\ m \in Nat
      BY <1>2, <1>3
    <3>2. Len(kv') = Len(kv) + m + 1
      BY <1>2, <2>1, Zenon
    <3>3. Len(committed') = (Len(kv) + 1) + (m + 1)
      BY <1>2, <1>3, <2>3, Zenon
    <3> QED BY <3>1, <3>2, <3>3
  <2>5. committed' = prompt' \o out'
    <3>0. prompt \in Seq(Tok) /\ out \in Seq(Tok) /\ toks \in Seq(Tok)
      BY <1>2, <1>3
    <3>1. (prompt \o out) \o toks = prompt \o (out \o toks)
      BY <3>0, ConcatAssoc
    <3> QED BY <1>3, <1>5, <1>6, <1>8, <2>1, <3>1, Zenon
  <2>6. kv' = Prefix(committed', Len(kv'))
    BY <1>2, <2>1, Zenon
  <2>7. ~fault'
    BY <1>3, <2>1, Zenon
  <2>8. sync' = Len(kv') /\ seqLen' = sync' + K - 1 /\ sync' \in Nat
    <3>1. Len(kv) \in Nat /\ m \in Nat
      BY <1>2, <1>3
    <3> QED BY <1>2, <1>3, <1>4, <2>1, <3>1
  <2>9. TypeInv'
    BY <1>0, <1>3, <1>5, <1>6, <2>1, <2>2, <2>3, <2>8 DEF TypeInv
  <2>a. lost' <= Len(kv')
    <3>1. Len(kv) \in Nat /\ m \in Nat
      BY <1>2, <1>3
    <3> QED BY <1>2, <1>3, <1>5, <2>1, <3>1
  <2>10. PhaseInv' /\ PrefillInv'
    BY <2>a, <1>0, <1>3, <1>5, <1>6, <1>8, <2>1 DEF PhaseInv, PrefillInv
  <2>11. LiveRowIsKv'
    BY <2>2, <2>4, <2>5, <2>6, Zenon DEF LiveRowIsKv, After
  <2>12. LockStep'
    BY <2>7, <2>8 DEF LockStep
  <2> QED BY <2>9, <2>10, <2>11, <2>12 DEF Inv
<1> QED
  BY <1>7, <1>8

(* The request is aborted. *)
LEMMA AbortInv ==
  ASSUME Inv, Abort
  PROVE  Inv'
<1> DEFINE ok == phase = "live" => sync = Len(kv)
<1>1. ok
  BY DEF Inv, LockStep
<1>2. Reset(ok)
  BY DEF Abort
<1>3. /\ reason' # "running" /\ model' = model /\ prompt' \in Seq(Tok)
      /\ budget' \in Nat /\ out' \in Seq(Tok) /\ lost' = lost
  BY DEF Abort, Inv, TypeInv
<1> HIDE DEF ok
<1> QED
  BY <1>1, <1>2, <1>3, ResetInv

(* Nothing changes. *)
LEMMA StutterInv ==
  ASSUME Inv, UNCHANGED vars
  PROVE  Inv'
<1>1. TypeInv' /\ PhaseInv'
  BY DEF Inv, vars, TypeInv, PhaseInv
<1>2. PrefillInv'
  BY Zenon DEF Inv, vars, PrefillInv
<1>3. LiveRowIsKv' /\ LockStep'
  BY Zenon DEF Inv, vars, LiveRowIsKv, LockStep
<1> QED
  BY <1>1, <1>2, <1>3 DEF Inv

(* Every step keeps the invariant. *)
LEMMA NextInv ==
  ASSUME TargetTyped, Inv, [Next]_vars
  PROVE  Inv'
  BY BeginInv, ChunkInv, LastInv, RoundInv, AbortInv, StutterInv DEF Next

-----------------------------------------------------------------------------
(* The results *)

(* For a model that yields tokens of its vocabulary the inductive          *)
(* invariant holds in every state of a slot.                               *)
THEOREM InvHolds ==
  ASSUME TargetTyped
  PROVE  Spec => []Inv
<1>1. Init => Inv
  BY InitInv
<1>2. Inv /\ [Next]_vars => Inv'
  BY NextInv
<1> QED
  BY <1>1, <1>2, PTL DEF Spec

(* The live recurrent row always matches the KV (activate, commit_verify   *)
(* and the restores), for any number of drafts; after copy_prefix it lacks *)
(* exactly the tokens that were cleared.                                   *)
THEOREM LiveRowAlwaysKv ==
  ASSUME TargetTyped
  PROVE  Spec => []LiveRowIsKv
<1>1. Inv => LiveRowIsKv
  BY DEF Inv
<1> QED
  BY <1>1, InvHolds, PTL

(* The draft head keeps step with the target, and no consistency check of  *)
(* round, sync_from_live or preserve_prefix raises.                        *)
THEOREM AlwaysLockStep ==
  ASSUME TargetTyped
  PROVE  Spec => []LockStep
<1>1. Inv => LockStep
  BY DEF Inv
<1> QED
  BY <1>1, InvHolds, PTL

(* After a copied prefix every step is seen as a stutter or as the end.    *)
LEMMA LostStep ==
  ASSUME Inv, Inv', lost \in Nat, lost # 0, phase # "free",
         UNCHANGED <<model, prompt, budget, lost>>
  PROVE  [Greedy!Next]_(Greedy!vars)
<1>1. SeenOut = <<>> /\ SeenOut' = <<>> /\ SeenReason = "running"
  BY DEF SeenOut, SeenReason, Inv, PhaseInv
<1>2. CASE phase' = "free"
  <2>1. SeenReason' = "abort"
    BY <1>2 DEF SeenReason
  <2>2. Greedy!Abort
    BY <1>1, <2>1 DEF Greedy!Abort
  <2> QED BY <2>2 DEF Greedy!Next
<1>3. CASE phase' # "free"
  <2>1. SeenReason' = "running"
    BY <1>3 DEF SeenReason, Inv, PhaseInv
  <2> QED BY <1>1, <2>1 DEF Greedy!vars
<1> QED
  BY <1>2, <1>3

(* Whatever the draft head proposes, the tokens a client gets are those    *)
(* of greedy decoding: every step of a slot is a step of GreedyDecode or   *)
(* leaves what the client sees alone.  A request that resumed from a       *)
(* copied prefix stands for one that is given up.                          *)
THEOREM SpeculationIsGreedy ==
  ASSUME TargetTyped
  PROVE  Spec => GreedyImplemented
<1>1. Init => Greedy!Init
  BY DEF Init, Greedy!Init, SeenOut, SeenReason
<1>2. ASSUME Inv, [Next]_vars
      PROVE  [Greedy!Next]_(Greedy!vars)
  <2>0. Inv' /\ lost \in Nat
    BY <1>2, NextInv DEF Inv, TypeInv
  <2>1. CASE \E p \in Prompts, b \in Budgets, source \in Sources :
               \E n \in 0..Len(p) : Begin(p, b, n, source)
    <3>1. PICK p \in Prompts, b \in Budgets, source \in Sources :
            \E n \in 0..Len(p) : Begin(p, b, n, source)
      BY <2>1
    <3>2. PICK n \in 0..Len(p) : Begin(p, b, n, source)
      BY <3>1
    <3>3. SeenReason # "running"
      BY <1>2, <3>2 DEF Inv, PhaseInv, Begin, SeenReason
    <3>4. SeenReason' = "running" /\ SeenOut' = <<>> /\ model' = model
      BY <3>2 DEF Begin, SeenReason, SeenOut
    <3>5. Greedy!Start
      BY <3>3, <3>4 DEF Greedy!Start
    <3> QED BY <3>5 DEF Greedy!Next
  <2>2. CASE PrefillChunk
    BY <2>2 DEF PrefillChunk, Greedy!vars, SeenOut, SeenReason
  <2>3. CASE PrefillLast /\ lost = 0
    <3> DEFINE toks == <<FirstToken>>
    <3>1. phase = "prefill"
      BY <2>3 DEF PrefillLast
    <3>2. toks \in Seq(Tok) /\ Len(toks) = 1 /\ RightBlock(toks)
      BY <1>2, <3>1, PrefillBlock, <2>3
    <3>3. /\ UNCHANGED <<model, prompt, budget>> /\ lost' = 0
          /\ out' = out \o Prefix(toks, Keep(toks)) /\ reason' = ReasonAfter(toks)
      BY <2>3 DEF PrefillLast, Deliver
    <3>4. /\ prompt \in Seq(Tok) /\ out \in Seq(Tok) /\ reason = "running" /\ out = <<>>
      BY <1>2, <3>1 DEF Inv, TypeInv, PhaseInv, PrefillInv
    <3>5. Len(out) < MaxTokens
      BY <3>4, SpeculativeAssumption
    <3> HIDE DEF toks
    <3>6. Len(toks) > 0
      BY <3>2
    <3>7. Greedy!Generate
      BY <2>3, <3>2, <3>3, <3>4, <3>5, <3>6, DeliverGenerates
    <3> QED BY <3>7 DEF Greedy!Next
  <2>4. CASE Round /\ lost = 0
    <3>1. phase = "live"
      BY <2>4 DEF Round
    <3>2. PICK m \in {NumAccepted(drafts, Predictions), NumAcceptedBatch(drafts, Predictions)} :
            RoundWith(Predictions, m)
      BY <2>4 DEF Round
    <3> DEFINE toks == Commit(drafts, Predictions, m)
    <3>3. m \in 0..K /\ toks \in Seq(Tok) /\ Len(toks) = m + 1 /\ RightBlock(toks)
      BY <1>2, <2>4, <3>1, RoundBlock
    <3>4. /\ UNCHANGED <<model, prompt, budget>> /\ lost' = 0
          /\ out' = out \o Prefix(toks, Keep(toks)) /\ reason' = ReasonAfter(toks)
      BY <2>4, <3>2 DEF RoundWith, Deliver
    <3>5. /\ prompt \in Seq(Tok) /\ out \in Seq(Tok) /\ reason = "running"
          /\ Len(out) < MaxTokens
      BY <1>2, <3>1 DEF Inv, TypeInv, PhaseInv
    <3> HIDE DEF toks
    <3>6. Len(toks) > 0 /\ toks \in Seq(Tok) /\ RightBlock(toks)
      BY <3>3, SpeculativeAssumption
    <3>7. Greedy!Generate
      BY <2>4, <3>4, <3>5, <3>6, DeliverGenerates
    <3> QED BY <3>7 DEF Greedy!Next
  <2>5. CASE Abort /\ lost = 0
    <3>1. reason = "running" /\ lost' = 0
      BY <1>2, <2>5 DEF Inv, PhaseInv, Abort
    <3>2. SeenReason = "running" /\ SeenReason' = "abort" /\ SeenOut' = SeenOut
      BY <2>5, <3>1 DEF Abort, SeenReason, SeenOut
    <3>3. Greedy!Abort
      BY <2>5, <3>2 DEF Abort, Greedy!Abort
    <3> QED BY <3>3 DEF Greedy!Next
  <2>6. CASE (PrefillLast \/ Round \/ Abort) /\ lost # 0
    <3>1. UNCHANGED <<model, prompt, budget, lost>>
      BY <2>6 DEF PrefillLast, Round, RoundWith, Abort
    <3>2. phase # "free"
      BY <2>6 DEF PrefillLast, Round, Abort
    <3> QED BY <1>2, <2>0, <2>6, <3>1, <3>2, LostStep
  <2>7. CASE UNCHANGED vars
    BY <2>7 DEF vars, Greedy!vars, SeenOut, SeenReason
  <2> QED BY <1>2, <2>1, <2>2, <2>3, <2>4, <2>5, <2>6, <2>7 DEF Next
<1>3. Inv /\ [Next]_vars => [Greedy!Next]_(Greedy!vars)
  BY <1>2
<1> QED
  BY <1>1, <1>3, InvHolds, PTL DEF Spec, GreedyImplemented, Greedy!Spec

-----------------------------------------------------------------------------
(* The length of a reasoning span *)

(* The end of a span is marked by a single token. *)
SingleEnd == Len(EndMarker) = 1

(* The longest a span may get.                                             *)
Limit(b) == Maximum({b, K})

LEMMA LimitFacts ==
  ASSUME NEW b \in Nat
  PROVE  Limit(b) \in Nat /\ b <= Limit(b) /\ K <= Limit(b)
<1>1. K \in Nat
  BY SpeculativeAssumption
<1> DEFINE n == b + K
           S == {b, K}
<1>2. n \in Nat /\ S \subseteq 0..n /\ S # {} /\ b \in S /\ K \in S
  BY <1>1
<1>3. Limit(b) = Maximum(S)
  BY DEF Limit
<1> HIDE DEF n, S
<1>4. Maximum(S) \in S /\ \A y \in S : y <= Maximum(S)
  BY <1>2, MaximumOfBounded
<1>5. Maximum(S) \in 0..n /\ b <= Maximum(S) /\ K <= Maximum(S)
  BY <1>2, <1>4, Zenon
<1> QED
  BY <1>2, <1>3, <1>5

(* A marker at place i of a sequence. *)
Occurs(s, marker, i) == /\ i + Len(marker) - 1 <= Len(s)
                        /\ SubSeq(s, i, i + Len(marker) - 1) = marker

(* A marker occurs where its tokens are. *)
LEMMA OccursTokens ==
  ASSUME NEW s \in Seq(Tok), NEW marker \in Seq(Tok), marker # <<>>, NEW i \in 1..Len(s)
  PROVE  Occurs(s, marker, i) <=>
           /\ i + Len(marker) - 1 <= Len(s)
           /\ \A n \in 1..Len(marker) : s[i + n - 1] = marker[n]
<1> DEFINE e == i + Len(marker) - 1
           u == SubSeq(s, i, e)
<1>1. Len(marker) \in Nat /\ Len(marker) > 0 /\ Len(s) \in Nat /\ i \in Nat /\ i >= 1
  OBVIOUS
<1>2. ASSUME e <= Len(s)
      PROVE  (u = marker) <=> \A n \in 1..Len(marker) : s[i + n - 1] = marker[n]
  <2>1. u \in Seq(Tok) /\ Len(u) = Len(marker) /\ \A n \in 1..Len(marker) : u[n] = s[i + n - 1]
    <3>1. i..e \subseteq 1..Len(s) /\ e \in Nat
      BY <1>1, <1>2
    <3>2. e - i + 1 = Len(marker)
      BY <1>1
    <3> QED
      BY <1>1, <1>2, <3>1, <3>2
  <2> HIDE DEF u
  <2>2. ASSUME \A n \in 1..Len(marker) : s[i + n - 1] = marker[n] PROVE u = marker
    BY <2>1, <2>2, SameSequence
  <2> QED
    BY <2>1, <2>2
<1> QED
  BY <1>2 DEF Occurs

(* The last index of a marker is the last place it occurs at. *)
LEMMA LastIndexFacts ==
  ASSUME NEW s \in Seq(Tok), NEW marker \in Seq(Tok)
  PROVE  /\ LastIndex(s, marker) \in 0..Len(s)
         /\ LastIndex(s, marker) > 0 => Occurs(s, marker, LastIndex(s, marker))
         /\ \A i \in 1..Len(s) : Occurs(s, marker, i) => i <= LastIndex(s, marker)
<1> DEFINE P == {i \in 1..Len(s) : Occurs(s, marker, i)}
           S == {0} \cup P
<1>1. LastIndex(s, marker) = Maximum(S)
  BY DEF LastIndex, Occurs
<1>2. Len(s) \in Nat /\ S \subseteq 0..Len(s) /\ S # {}
  OBVIOUS
<1> HIDE DEF S
<1>3. Maximum(S) \in S /\ \A y \in S : y <= Maximum(S)
  BY <1>2, MaximumOfBounded
<1> QED
  BY <1>1, <1>2, <1>3 DEF S

(* What follows a sequence does not change where a marker occurs in it. *)
LEMMA OccursInPrefix ==
  ASSUME NEW c \in Seq(Tok), NEW t \in Seq(Tok), NEW marker \in Seq(Tok), marker # <<>>,
         NEW i \in 1..Len(c), i + Len(marker) - 1 <= Len(c)
  PROVE  Occurs(c, marker, i) <=> Occurs(c \o t, marker, i)
<1> DEFINE s == c \o t
<1>1. s \in Seq(Tok) /\ Len(s) = Len(c) + Len(t) /\ \A n \in 1..Len(c) : s[n] = c[n]
  BY ConcatFacts
<1> HIDE DEF s
<1>2. Len(c) \in Nat /\ Len(t) \in Nat /\ Len(marker) \in Nat
  OBVIOUS
<1>3. i \in 1..Len(s) /\ i + Len(marker) - 1 <= Len(s)
  BY <1>1, <1>2
<1>4. \A n \in 1..Len(marker) : i + n - 1 \in 1..Len(c)
  BY <1>2
<1>5. \A n \in 1..Len(marker) : s[i + n - 1] = c[i + n - 1]
  BY <1>1, <1>4
<1>6. Occurs(c, marker, i) <=> \A n \in 1..Len(marker) : c[i + n - 1] = marker[n]
  BY OccursTokens
<1>7. Occurs(s, marker, i) <=> \A n \in 1..Len(marker) : s[i + n - 1] = marker[n]
  BY <1>1, <1>3, OccursTokens
<1> QED
  BY <1>5, <1>6, <1>7 DEF s

(* A span whose start marker lies in c was open after c. *)
LEMMA SpanCarried ==
  ASSUME NEW c \in Seq(Tok), NEW t \in Seq(Tok), InSpan(c \o t),
         LastIndex(c \o t, StartMarker) + Len(StartMarker) - 1 <= Len(c)
  PROVE  /\ InSpan(c)
         /\ SpanCount(c \o t) = SpanCount(c) + Len(t)
<1> DEFINE s == c \o t
           j == LastIndex(s, StartMarker)
           k == LastIndex(c, StartMarker)
           e == LastIndex(s, EndMarker)
           g == LastIndex(c, EndMarker)
<1>1. s \in Seq(Tok) /\ Len(s) = Len(c) + Len(t)
  BY ConcatFacts
<1>2. j > 0 /\ j >= e /\ j + Len(StartMarker) - 1 <= Len(c)
  BY DEF InSpan
<1>3. /\ StartMarker \in Seq(Tok) /\ StartMarker # <<>> /\ EndMarker \in Seq(Tok) /\ EndMarker # <<>>
      /\ Len(StartMarker) \in Nat /\ Len(StartMarker) > 0 /\ Len(c) \in Nat /\ Len(t) \in Nat
  BY SpeculativeAssumption
<1>4. /\ j \in 0..Len(s) /\ (j > 0 => Occurs(s, StartMarker, j))
      /\ \A i \in 1..Len(s) : Occurs(s, StartMarker, i) => i <= j
  BY <1>1, <1>3, LastIndexFacts
<1>5. /\ k \in 0..Len(c) /\ (k > 0 => Occurs(c, StartMarker, k))
      /\ \A i \in 1..Len(c) : Occurs(c, StartMarker, i) => i <= k
  BY <1>3, LastIndexFacts
<1>6. /\ e \in 0..Len(s)
      /\ \A i \in 1..Len(s) : Occurs(s, EndMarker, i) => i <= e
  BY <1>1, <1>3, LastIndexFacts
<1>7. g \in 0..Len(c) /\ (g > 0 => Occurs(c, EndMarker, g))
  BY <1>3, LastIndexFacts
<1>8. SpanCount(s) = Len(s) - (j + Len(StartMarker) - 1) /\ SpanCount(c) = Len(c) - (k + Len(StartMarker) - 1)
  BY DEF SpanCount
<1>9. InSpan(c) <=> k > 0 /\ k >= g
  BY DEF InSpan
<1> HIDE DEF j, k, e, g
<1>10. j <= k
  <2>1. j \in 1..Len(c)
    BY <1>2, <1>3, <1>4, <1>1
  <2>2. Occurs(c, StartMarker, j)
    BY <1>2, <1>3, <1>4, <2>1, OccursInPrefix
  <2> QED
    BY <1>5, <2>1, <2>2
<1>11. k > 0 => k <= j
  <2> HAVE k > 0
  <2>1. k \in 1..Len(c) /\ k \in 1..Len(s) /\ k + Len(StartMarker) - 1 <= Len(c)
    BY <1>1, <1>3, <1>5 DEF Occurs
  <2>2. Occurs(s, StartMarker, k)
    BY <1>3, <1>5, <2>1, OccursInPrefix
  <2> QED
    BY <1>4, <2>1, <2>2
<1>12. g > 0 => g <= e
  <2> HAVE g > 0
  <2>1. g \in 1..Len(c) /\ g \in 1..Len(s) /\ g + Len(EndMarker) - 1 <= Len(c)
    BY <1>1, <1>3, <1>7 DEF Occurs
  <2>2. Occurs(s, EndMarker, g)
    BY <1>3, <1>7, <2>1, OccursInPrefix
  <2> QED
    BY <1>6, <2>1, <2>2
<1>13. j = k
  BY <1>2, <1>4, <1>5, <1>10, <1>11
<1>14. k > 0 /\ k >= g
  BY <1>2, <1>4, <1>6, <1>7, <1>12, <1>13
<1>15. SpanCount(s) = SpanCount(c) + Len(t)
  BY <1>1, <1>3, <1>5, <1>8, <1>13
<1> QED
  BY <1>9, <1>14, <1>15 DEF s

(* Where the end of an open span is forced, with a one-token end marker. *)
LEMMA ForceAt ==
  ASSUME SingleEnd, NEW c \in Seq(Tok), NEW b \in Nat, b # 0, NEW w \in Nat, InSpan(c),
         NEW p, p = IF SpanCount(c) >= b THEN 0 ELSE b - SpanCount(c), ~ (p >= w)
  PROVE  ForceFor(c, b, w) = <<p, EndMarker[1]>> /\ ForceFor(c, b, w) # NoForce
<1>1. EndPrefixLength(c) = 0
  <2> DEFINE S == {0} \cup {n \in 1..Len(EndMarker) - 1 :
                      n <= Len(c) /\ SubSeq(c, Len(c) - n + 1, Len(c)) = Prefix(EndMarker, n)}
  <2>1. S = {0}
    BY DEF SingleEnd
  <2>2. EndPrefixLength(c) = Maximum(S)
    BY DEF EndPrefixLength
  <2> HIDE DEF S
  <2>3. Maximum(S) \in S
    BY <2>1, MaximumOfBounded
  <2> QED
    BY <2>1, <2>2, <2>3
<1>2. ForceFor(c, b, w) = <<p, EndMarker[1]>>
  BY <1>1 DEF ForceFor
<1> QED
  BY <1>2 DEF NoForce

(* A block takes the token a force puts at its place. *)
Follows(toks, f) ==
  f # NoForce => \A p \in 0..Len(toks) - 1 : f[1] = p => toks[p + 1] = f[2]

(* The block of a round, or the first token of a request, keeps the span   *)
(* within its limit: a span that was open is closed at its last token, a   *)
(* span that opens inside the block is shorter than the block.             *)
LEMMA SpanBlock ==
  ASSUME SingleEnd, NEW c \in Seq(Tok), NEW b \in Nat, b # 0, NEW w \in Nat, w <= K + 1,
         NEW toks \in Seq(Tok), Len(toks) <= w, Follows(toks, ForceFor(c, b, w)),
         NEW i \in 1..Len(toks), InSpan(c \o Prefix(toks, i))
  PROVE  SpanCount(c \o Prefix(toks, i)) <= Limit(b)
<1> DEFINE t == Prefix(toks, i)
           s == c \o t
           j == LastIndex(s, StartMarker)
           q == IF SpanCount(c) >= b THEN 0 ELSE b - SpanCount(c)
<1>1. t \in Seq(Tok) /\ Len(t) = i /\ \A n \in 1..i : t[n] = toks[n]
  BY PrefixFacts
<1>2. Len(c) \in Nat /\ Len(toks) \in Nat /\ i \in Nat /\ i >= 1 /\ i <= Len(toks) /\ i <= w
  OBVIOUS
<1> HIDE DEF t
<1>3. /\ s \in Seq(Tok) /\ Len(s) = Len(c) + i
      /\ \A n \in 1..i : s[Len(c) + n] = t[n]
  BY <1>1, ConcatFacts
<1>4. /\ StartMarker \in Seq(Tok) /\ EndMarker \in Seq(Tok) /\ EndMarker # <<>>
      /\ Len(StartMarker) \in Nat /\ Len(StartMarker) > 0
  BY SpeculativeAssumption
<1>5. j \in 0..Len(s) /\ j > 0 /\ j >= LastIndex(s, EndMarker)
  BY <1>3, <1>4, LastIndexFacts DEF t, InSpan
<1>6. SpanCount(s) = Len(s) - (j + Len(StartMarker) - 1)
  BY DEF SpanCount
<1> HIDE DEF j
<1>a. Limit(b) \in Nat /\ b <= Limit(b) /\ K <= Limit(b) /\ K \in Nat
  BY LimitFacts, SpeculativeAssumption
<1>7. CASE j + Len(StartMarker) - 1 > Len(c)
  <2>1. SpanCount(s) <= K
    BY <1>a, <1>2, <1>3, <1>4, <1>5, <1>6, <1>7
  <2>2. SpanCount(s) \in Int
    BY <1>3, <1>4, <1>5, <1>6, <1>2
  <2> QED BY <1>a, <2>1, <2>2 DEF t
<1>8. CASE j + Len(StartMarker) - 1 <= Len(c)
  <2>1. InSpan(c) /\ SpanCount(s) = SpanCount(c) + i
    BY <1>1, <1>8, SpanCarried DEF j, t
  <2>2. SpanCount(c) \in Int
    <3>1. LastIndex(c, StartMarker) \in 0..Len(c)
      BY <1>4, LastIndexFacts
    <3> QED
      BY <1>2, <1>4, <3>1 DEF SpanCount
  <2>3. q \in Nat
    BY <2>2
  <2>4. i <= q
    <3> SUFFICES ASSUME i > q PROVE FALSE
      BY <1>2, <2>3
    <3>1. ~ (q >= w)
      BY <1>2, <2>3
    <3>2. ForceFor(c, b, w) = <<q, EndMarker[1]>> /\ ForceFor(c, b, w) # NoForce
      BY <2>1, <3>1, ForceAt
    <3> HIDE DEF q
    <3>3. q \in 0..Len(toks) - 1 /\ q + 1 \in 1..i
      BY <1>2, <2>3
    <3>4. toks[q + 1] = EndMarker[1]
      BY <3>2, <3>3 DEF Follows
    <3>5. s[Len(c) + (q + 1)] = EndMarker[1]
      BY <1>1, <1>3, <3>3, <3>4
    <3> DEFINE x == Len(c) + (q + 1)
    <3>6. x \in 1..Len(s) /\ x > Len(c)
      BY <1>2, <1>3, <2>3, <3>3
    <3>7. s[x] = EndMarker[1]
      BY <3>5
    <3> HIDE DEF x
    <3>8. Occurs(s, EndMarker, x)
      <4>1. x + Len(EndMarker) - 1 <= Len(s)
        BY <1>3, <3>6 DEF SingleEnd
      <4>2. \A n \in 1..Len(EndMarker) : s[x + n - 1] = EndMarker[n]
        BY <3>6, <3>7 DEF SingleEnd
      <4> QED
        BY <1>3, <1>4, <3>6, <4>1, <4>2, OccursTokens
    <3>9. x <= LastIndex(s, EndMarker) /\ LastIndex(s, EndMarker) \in 0..Len(s)
      BY <1>3, <1>4, <3>6, <3>8, LastIndexFacts
    <3> QED
      BY <1>2, <1>4, <1>5, <1>8, <3>6, <3>9
  <2>5. SpanCount(c) + i <= b
    BY <1>2, <2>2, <2>4
  <2>6. SpanCount(s) <= Limit(b)
    BY <1>a, <1>2, <2>1, <2>2, <2>5
  <2> QED
    BY <2>6 DEF t
<1> QED
  BY <1>2, <1>4, <1>5, <1>7, <1>8

(* The first token of a request is the forced one, if there is one. *)
LEMMA FirstFollows == Follows(<<FirstToken>>, ForceFor(prompt, budget, 1))
<1>1. ASSUME NEW f PROVE Follows(<<Predict(PromptState, 0, f)>>, f)
  <2> SUFFICES ASSUME f # NoForce, f[1] = 0 PROVE Predict(PromptState, 0, f) = f[2]
    BY DEF Follows
  <2> QED
    BY DEF Predict
<1> QED
  BY <1>1 DEF FirstToken

(* A round commits the forced token at its place, if the block reaches it. *)
LEMMA RoundFollows ==
  ASSUME TargetTyped, Inv, phase = "live",
         NEW m \in {NumAccepted(drafts, Predictions), NumAcceptedBatch(drafts, Predictions)}
  PROVE  Follows(Commit(drafts, Predictions, m), ForceFor(prompt \o out, budget, K + 1))
<1> DEFINE new == Commit(drafts, Predictions, m)
           f == ForceFor(prompt \o out, budget, K + 1)
<1>1. m \in 0..K /\ Len(new) = m + 1 /\ \A i \in 1..m+1 : new[i] = Predictions[i - 1]
  BY RoundBlock
<1>2. \A p \in 0..K : Predictions[p] = Predict(VerifyRows[p], p, f)
  BY DEF Predictions
<1> HIDE DEF new, f
<1>3. ASSUME f # NoForce, NEW p \in 0..Len(new) - 1, f[1] = p PROVE new[p + 1] = f[2]
  <2>1. K \in Nat /\ m \in 0..K
    BY <1>1, SpeculativeAssumption
  <2>2. p \in 0..K /\ p + 1 \in 1..m+1 /\ (p + 1) - 1 = p
    BY <1>1, <2>1
  <2>3. new[p + 1] = Predictions[p]
    BY <1>1, <2>2
  <2> QED
    BY <1>2, <1>3, <2>2, <2>3 DEF Predict
<1>4. Follows(new, f)
  BY <1>3 DEF Follows
<1> QED
  BY <1>4 DEF new, f

(* Delivering a block that takes its force keeps every span of the output  *)
(* within its limit.                                                       *)
LEMMA DeliverSpan ==
  ASSUME prompt \in Seq(Tok), out \in Seq(Tok), Len(out) <= MaxTokens, budget \in Nat,
         NEW toks \in Seq(Tok), NEW w \in Nat, Len(toks) <= w, w <= K + 1,
         Follows(toks, ForceFor(prompt \o out, budget, w)), SpanWithinBudget,
         out' = out \o Prefix(toks, Keep(toks)), prompt' = prompt, budget' = budget
  PROVE  SpanWithinBudget'
<1> DEFINE h == Keep(toks)
           c == prompt \o out
<1>1. h \in 0..Len(toks) /\ Len(out) \in Nat /\ Len(toks) \in Nat
  BY KeepFacts
<1>2. /\ out' \in Seq(Tok) /\ Len(out') = Len(out) + h
      /\ \A i \in 1..Len(out) : out'[i] = out[i]
      /\ \A j \in 0..h : prompt \o Prefix(out', Len(out) + j) = c \o Prefix(toks, j)
  BY <1>1, OutFacts
<1>3. c \in Seq(Tok)
  BY ConcatFacts
<1> HIDE DEF h
<1>4. ASSUME budget > 0, SingleEnd, NEW n \in 1..Len(out'), InSpan(prompt \o Prefix(out', n))
      PROVE  SpanCount(prompt \o Prefix(out', n)) <= Limit(budget)
  <2>2. CASE n <= Len(out)
    <3>1. n \in 0..Len(out) /\ n \in 0..Len(out') /\ n \in 1..Len(out)
      BY <1>1, <1>2, <2>2
    <3>2. /\ Prefix(out, n) \in Seq(Tok) /\ Len(Prefix(out, n)) = n
          /\ \A i \in 1..n : Prefix(out, n)[i] = out[i]
      BY <3>1, PrefixFacts
    <3>3. /\ Prefix(out', n) \in Seq(Tok) /\ Len(Prefix(out', n)) = n
          /\ \A i \in 1..n : Prefix(out', n)[i] = out'[i]
      BY <1>2, <3>1, PrefixFacts
    <3>4. \A i \in 1..n : Prefix(out', n)[i] = Prefix(out, n)[i]
      <4> TAKE i \in 1..n
      <4>1. i \in 1..Len(out)
        BY <1>1, <3>1
      <4> QED
        BY <1>2, <3>2, <3>3, <4>1
    <3>5. Prefix(out', n) = Prefix(out, n)
      BY <3>2, <3>3, <3>4, SameSequence
    <3> QED
      BY <1>4, <3>1, <3>5 DEF SpanWithinBudget, SingleEnd, Limit
  <2>3. CASE n > Len(out)
    <3> DEFINE j == n - Len(out)
    <3>1. j \in 0..h /\ Len(out) + j = n /\ j \in 1..Len(toks)
      BY <1>1, <1>2, <2>3
    <3> HIDE DEF j
    <3>2. prompt \o Prefix(out', n) = c \o Prefix(toks, j)
      BY <1>2, <3>1
    <3> HIDE DEF c
    <3>3. budget # 0 /\ Follows(toks, ForceFor(c, budget, w))
      BY <1>4 DEF c
    <3>4. InSpan(c \o Prefix(toks, j))
      BY <1>4, <3>2
    <3>5. SpanCount(c \o Prefix(toks, j)) <= Limit(budget)
      BY <1>4, <1>3, <3>1, <3>3, <3>4, SpanBlock
    <3> QED
      BY <3>2, <3>5
  <2> QED
    BY <1>1, <2>2, <2>3
<1> QED
  BY <1>4 DEF SpanWithinBudget, SingleEnd, Limit

(* Every step keeps the spans within their limit. *)
LEMMA NextSpan ==
  ASSUME TargetTyped, Inv, SpanWithinBudget, [Next]_vars
  PROVE  SpanWithinBudget'
<1>0. /\ prompt \in Seq(Tok) /\ out \in Seq(Tok) /\ budget \in Nat /\ K \in Nat /\ K > 0
  BY SpeculativeAssumption DEF Inv, TypeInv
<1>1. CASE \E p \in Prompts, b \in Budgets, source \in Sources :
             \E n \in 0..Len(p) : Begin(p, b, n, source)
  <2>1. PICK p \in Prompts, b \in Budgets, source \in Sources :
          \E n \in 0..Len(p) : Begin(p, b, n, source)
    BY <1>1
  <2>2. out' = <<>> /\ budget' = b
    BY <2>1 DEF Begin
  <2>3. 1..Len(out') = {}
    BY <2>2
  <2> QED
    BY <2>1, <2>2, <2>3 DEF SpanWithinBudget
<1>2. CASE PrefillChunk \/ Abort \/ UNCHANGED vars
  <2>1. prompt' = prompt /\ out' = out /\ budget' = budget
    BY <1>2 DEF PrefillChunk, Abort, vars
  <2> QED
    BY <1>0, <2>1 DEF SpanWithinBudget
<1>3. CASE PrefillLast
  <2> DEFINE toks == <<FirstToken>>
  <2>1. phase = "prefill"
    BY <1>3 DEF PrefillLast
  <2>2. toks \in Seq(Tok) /\ Len(toks) = 1
    BY <2>1, PrefillBlock
  <2>3. /\ UNCHANGED <<prompt, budget>> /\ out' = out \o Prefix(toks, Keep(toks))
    BY <1>3 DEF PrefillLast, Deliver
  <2>4. out = <<>> /\ Len(out) <= MaxTokens /\ prompt \o out = prompt
    BY <1>0, <2>1, SpeculativeAssumption DEF Inv, PrefillInv
  <2>5. Follows(toks, ForceFor(prompt \o out, budget, 1))
    BY <2>4, FirstFollows
  <2> HIDE DEF toks
  <2>6. Len(toks) <= 1 /\ 1 <= K + 1
    BY <1>0, <2>2
  <2> QED
    BY <1>0, <2>2, <2>3, <2>4, <2>5, <2>6, DeliverSpan
<1>4. CASE Round
  <2>1. phase = "live"
    BY <1>4 DEF Round
  <2>2. PICK m \in {NumAccepted(drafts, Predictions), NumAcceptedBatch(drafts, Predictions)} :
          RoundWith(Predictions, m)
    BY <1>4 DEF Round
  <2> DEFINE toks == Commit(drafts, Predictions, m)
  <2>3. m \in 0..K /\ toks \in Seq(Tok) /\ Len(toks) = m + 1
    BY <2>1, RoundBlock
  <2>4. UNCHANGED <<prompt, budget>> /\ out' = out \o Prefix(toks, Keep(toks))
    BY <2>2 DEF RoundWith, Deliver
  <2>5. Follows(toks, ForceFor(prompt \o out, budget, K + 1))
    BY <2>1, RoundFollows
  <2>6. Len(out) <= MaxTokens
    BY <1>0, <2>1, SpeculativeAssumption DEF Inv, PhaseInv
  <2> HIDE DEF toks
  <2>7. PICK w \in Nat : w = K + 1
    BY <1>0
  <2>8. Len(toks) <= w /\ w <= K + 1 /\ toks \in Seq(Tok)
    BY <1>0, <2>3, <2>7
  <2>9. Follows(toks, ForceFor(prompt \o out, budget, w))
    BY <2>5, <2>7
  <2> QED
    BY <1>0, <2>4, <2>6, <2>8, <2>9, DeliverSpan
<1> QED
  BY <1>1, <1>2, <1>3, <1>4 DEF Next

(* Whatever the budget and wherever in a speculative block it runs out,    *)
(* force_for with a one-token end marker keeps a reasoning span within the *)
(* larger of its budget and the number of drafts.                          *)
THEOREM SpansBounded ==
  ASSUME TargetTyped
  PROVE  Spec => []SpanWithinBudget
<1>1. Init => SpanWithinBudget
  BY DEF Init, SpanWithinBudget
<1>2. Inv /\ SpanWithinBudget /\ [Next]_vars => SpanWithinBudget'
  BY NextSpan
<1> QED
  BY <1>1, <1>2, InvHolds, PTL DEF Spec
=============================================================================
