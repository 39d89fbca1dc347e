-------------------------- MODULE CollectionProofs --------------------------
(***************************************************************************)
(* Facts about Collections and about the ranges of sequences.              *)
(***************************************************************************)
EXTENDS Collections, Functions, FiniteSetTheorems, SequenceTheorems,
        WellFoundedInduction, TLAPS

(* A non-empty set of naturals has a least element: the form in which the  *)
(* proofs here use induction.                                              *)
LEMMA LeastElement ==
  ASSUME NEW T, T \subseteq Nat, T # {}
  PROVE  \E x \in T : \A y \in T : x <= y
<1>1. PICK x \in T : \A y \in T : ~ (<<y, x>> \in OpToRel(<, Nat))
  BY NatLessThanWellFounded, WFMin
<1>2. \A y \in T : ~ (y < x)
  BY <1>1 DEF OpToRel
<1> QED
  BY <1>2

(* e enumerates the elements of I up to k, in ascending order. *)
Enumerates(e, m, I, k) ==
  /\ e \in [1..m -> 1..k]
  /\ \A i, j \in 1..m : i < j => e[i] < e[j]
  /\ \A x \in 1..k : x \in I <=> \E i \in 1..m : e[i] = x

(* Any set of positions can be enumerated in ascending order. *)
LEMMA EnumerationExists ==
  ASSUME NEW n \in Nat, NEW I, I \subseteq 1..n
  PROVE  \E m \in Nat : \E e \in [1..m -> 1..n] : Enumerates(e, m, I, n)
<1> DEFINE P(k) == \E m \in Nat : \E e \in [1..m -> 1..k] : Enumerates(e, m, I, k)
           T == {k \in Nat : ~ P(k)}
<1>1. SUFFICES ASSUME T # {} PROVE FALSE
  OBVIOUS
<1>2. PICK k \in T : \A y \in T : k <= y
  BY <1>1, LeastElement
<1>3. P(0)
  <2>1. <<>> \in [1..0 -> 1..0] /\ Enumerates(<<>>, 0, I, 0)
    BY DEF Enumerates
  <2> QED
    BY <2>1
<1>4. k \in Nat \ {0} /\ k - 1 \in Nat /\ P(k - 1)
  <2>1. k \in Nat /\ ~ P(k)
    OBVIOUS
  <2> HIDE DEF P
  <2>2. k # 0
    BY <1>3, <2>1
  <2>3. k - 1 \in Nat /\ k - 1 \notin T
    BY <1>2, <2>1, <2>2
  <2> QED
    BY <2>1, <2>2, <2>3
<1>5. PICK m \in Nat : \E e \in [1..m -> 1..(k - 1)] : Enumerates(e, m, I, k - 1)
  BY <1>4
<1>6. PICK e \in [1..m -> 1..(k - 1)] : Enumerates(e, m, I, k - 1)
  BY <1>5
<1>7. CASE k \notin I
  <2>1. e \in [1..m -> 1..k] /\ Enumerates(e, m, I, k)
    BY <1>4, <1>6, <1>7 DEF Enumerates
  <2> QED
    BY <1>2, <2>1
<1>8. CASE k \in I
  <2> DEFINE f == [i \in 1..(m + 1) |-> IF i = m + 1 THEN k ELSE e[i]]
  <2>1. f \in [1..(m + 1) -> 1..k]
    BY <1>4, <1>6 DEF Enumerates
  <2>2. \A i, j \in 1..(m + 1) : i < j => f[i] < f[j]
    BY <1>4, <1>6 DEF Enumerates
  <2>3. ASSUME NEW x \in 1..k PROVE x \in I <=> \E i \in 1..(m + 1) : f[i] = x
    <3>1. CASE x = k
      <4>1. f[m + 1] = k /\ m + 1 \in 1..(m + 1)
        OBVIOUS
      <4> QED
        BY <1>8, <3>1, <4>1
    <3>2. CASE x # k
      <4>1. x \in 1..(k - 1)
        BY <1>4, <3>2
      <4>2. \A i \in 1..m : f[i] = e[i] /\ i \in 1..(m + 1)
        OBVIOUS
      <4>3. f[m + 1] = k
        OBVIOUS
      <4>4. \A i \in 1..(m + 1) : i = m + 1 \/ i \in 1..m
        OBVIOUS
      <4>5. x \in I <=> \E i \in 1..m : e[i] = x
        BY <1>6, <4>1 DEF Enumerates
      <4> HIDE DEF f
      <4> QED
        BY <3>2, <4>2, <4>3, <4>4, <4>5
    <3> QED
      BY <3>1, <3>2
  <2>4. Enumerates(f, m + 1, I, k)
    BY <2>1, <2>2, <2>3 DEF Enumerates
  <2>5. P(k)
    <3> HIDE DEF f
    <3>1. \E d \in [1..(m + 1) -> 1..k] : Enumerates(d, m + 1, I, k)
      BY <2>1, <2>4
    <3>2. m + 1 \in Nat
      OBVIOUS
    <3> QED
      BY <3>1, <3>2
  <2>6. ~ P(k)
    OBVIOUS
  <2> HIDE DEF P
  <2> QED
    BY <2>5, <2>6
<1> QED
  BY <1>7, <1>8

(* Ascending is what it says on a set of positions. *)
LEMMA AscendingFacts ==
  ASSUME NEW n \in Nat, NEW I, I \subseteq 1..n
  PROVE  /\ Cardinality(I) \in Nat
         /\ Ascending(I) \in [1..Cardinality(I) -> I]
         /\ \A i, j \in 1..Cardinality(I) : i < j => Ascending(I)[i] < Ascending(I)[j]
         /\ \A x \in I : \E i \in 1..Cardinality(I) : Ascending(I)[i] = x
<1>1. PICK m \in Nat : \E e \in [1..m -> 1..n] : Enumerates(e, m, I, n)
  BY EnumerationExists
<1>2. PICK e \in [1..m -> 1..n] : Enumerates(e, m, I, n)
  BY <1>1
<1>3. e \in [1..m -> I]
  BY <1>2 DEF Enumerates
<1>4. \A i, j \in 1..m : e[i] = e[j] => i = j
  BY <1>2 DEF Enumerates
<1>5. e \in Bijection(1..m, I)
  BY <1>2, <1>3, <1>4 DEF Bijection, Injection, Surjection, IsInjective, Enumerates
<1>6. Cardinality(I) = m
  BY <1>5, FS_CountingElements DEF ExistsBijection
<1>7. \E f \in [1..Cardinality(I) -> I] :
        \A i, j \in 1..Cardinality(I) : i < j => f[i] < f[j]
  BY <1>2, <1>3, <1>6 DEF Enumerates
<1> DEFINE a == Ascending(I)
<1>8. /\ a \in [1..m -> I]
      /\ \A i, j \in 1..m : i < j => a[i] < a[j]
  BY <1>6, <1>7 DEF Ascending
<1>9. \A x \in I : \E i \in 1..m : a[i] = x
  <2>1. IsFiniteSet(1..m) /\ Cardinality(1..m) = m
    BY FS_Interval
  <2>2. IsFiniteSet(I)
    BY <1>5, FS_NatBijection DEF ExistsBijection
  <2>3. \A i, j \in 1..m : a[i] = a[j] => i = j
    <3> SUFFICES ASSUME NEW i \in 1..m, NEW j \in 1..m, a[i] = a[j] PROVE i = j
      OBVIOUS
    <3> HIDE DEF a
    <3>1. a[i] \in I /\ a[j] \in I /\ \A x \in I : x \in Nat
      BY <1>8
    <3>2. a[i] \in Nat
      BY <3>1
    <3>3. ~ (a[i] < a[j]) /\ ~ (a[j] < a[i])
      BY <3>2
    <3> QED
      BY <1>8, <3>3
  <2>4. a \in Injection(1..m, I)
    BY <1>8, <2>3 DEF Injection, IsInjective
  <2>5. a \in Surjection(1..m, I)
    BY <1>6, <2>1, <2>2, <2>4, FS_Injection
  <2> QED
    BY <2>5 DEF Surjection
<1> QED
  BY <1>6, <1>8, <1>9

(* t is the part of s at the positions I, which a lists in order. *)
Picks(S, s, I, t, a) ==
  /\ t \in Seq(S)
  /\ Len(t) = Cardinality(I)
  /\ a \in [1..Len(t) -> I]
  /\ \A n \in 1..Len(t) : t[n] = s[a[n]]
  /\ \A i, j \in 1..Len(t) : i < j => a[i] < a[j]
  /\ \A i, j \in 1..Len(t) : a[i] = a[j] => i = j
  /\ \A x \in I : \E i \in 1..Len(t) : a[i] = x
  /\ \A x \in Range(t) : \E i \in I : x = s[i]
  /\ \A i \in I : s[i] \in Range(t)

(* Pick keeps exactly the elements at the given positions, in order. *)
LEMMA PickFacts ==
  ASSUME NEW S, NEW s \in Seq(S), NEW I, I \subseteq 1..Len(s)
  PROVE  Picks(S, s, I, Pick(s, I), Ascending(I))
<1> DEFINE m == Cardinality(I)
           a == Ascending(I)
           t == Pick(s, I)
<1>1. /\ m \in Nat /\ a \in [1..m -> I]
      /\ \A i, j \in 1..m : i < j => a[i] < a[j]
      /\ \A x \in I : \E i \in 1..m : a[i] = x
  <2>1. Len(s) \in Nat
    OBVIOUS
  <2> QED
    BY <2>1, AscendingFacts
<1>2. t = [n \in 1..m |-> s[a[n]]]
  BY DEF Pick
<1> HIDE DEF m, a, t
<1>3. t \in Seq(S) /\ Len(t) = m /\ DOMAIN t = 1..m
  <2>1. \A n \in 1..m : s[a[n]] \in S
    <3>1. \A n \in 1..m : a[n] \in 1..Len(s)
      BY <1>1
    <3> QED
      BY <3>1
  <2> QED
    BY <1>1, <1>2, <2>1
<1>4. \A n \in 1..m : t[n] = s[a[n]]
  BY <1>2
<1>5. /\ \A x \in Range(t) : \E i \in I : x = s[i]
      /\ \A i \in I : s[i] \in Range(t)
  <2>1. ASSUME NEW x \in Range(t) PROVE \E i \in I : x = s[i]
    <3>1. PICK n \in 1..m : x = t[n]
      BY <1>3 DEF Range
    <3>2. a[n] \in I /\ x = s[a[n]]
      BY <1>1, <1>4, <3>1
    <3> QED
      BY <3>2
  <2>2. ASSUME NEW i \in I PROVE s[i] \in Range(t)
    <3>1. PICK n \in 1..m : a[n] = i
      BY <1>1
    <3> QED
      BY <1>3, <1>4, <3>1 DEF Range
  <2> QED
    BY <2>1, <2>2
<1>6. \A i, j \in 1..m : a[i] = a[j] => i = j
  <2> SUFFICES ASSUME NEW i \in 1..m, NEW j \in 1..m, a[i] = a[j] PROVE i = j
    OBVIOUS
  <2>1. a[i] \in I /\ a[j] \in I /\ \A x \in I : x \in Nat
    BY <1>1
  <2>2. a[i] \in Nat
    BY <2>1
  <2>3. ~ (a[i] < a[j]) /\ ~ (a[j] < a[i])
    BY <2>2
  <2> QED
    BY <1>1, <2>3
<1> QED
  BY <1>1, <1>3, <1>4, <1>5, <1>6 DEF m, a, t, Picks

(* Picking from an injective sequence gives an injective one. *)
LEMMA PickInjective ==
  ASSUME NEW S, NEW s \in Seq(S), NEW I, I \subseteq 1..Len(s), IsInjective(s)
  PROVE  IsInjective(Pick(s, I))
<1> DEFINE t == Pick(s, I)
<1>1. /\ t \in Seq(S)
      /\ Ascending(I) \in [1..Len(t) -> I]
      /\ \A n \in 1..Len(t) : t[n] = s[Ascending(I)[n]]
      /\ \A i, j \in 1..Len(t) : Ascending(I)[i] = Ascending(I)[j] => i = j
  <2>1. Picks(S, s, I, t, Ascending(I))
    BY PickFacts
  <2> QED
    BY <2>1 DEF Picks
<1> HIDE DEF t
<1> SUFFICES ASSUME NEW i \in 1..Len(t), NEW j \in 1..Len(t), t[i] = t[j] PROVE i = j
  BY <1>1 DEF IsInjective, t
<1>2. Ascending(I)[i] \in 1..Len(s) /\ Ascending(I)[j] \in 1..Len(s)
  BY <1>1
<1>3. s[Ascending(I)[i]] = s[Ascending(I)[j]]
  BY <1>1
<1>4. Ascending(I)[i] = Ascending(I)[j]
  BY <1>2, <1>3 DEF IsInjective
<1> QED
  BY <1>1, <1>4

(* Two complementary sets of positions share out the elements. *)
LEMMA PartitionFacts ==
  ASSUME NEW S, NEW s \in Seq(S), NEW I, NEW J,
         I \subseteq 1..Len(s), J \subseteq 1..Len(s),
         \A i \in 1..Len(s) : i \in I \/ i \in J,
         \A i \in I : i \notin J
  PROVE  /\ Pick(s, I) \in Seq(S) /\ Pick(s, J) \in Seq(S)
         /\ Range(Pick(s, I)) \cup Range(Pick(s, J)) = Range(s)
         /\ IsInjective(s) => /\ IsInjective(Pick(s, I)) /\ IsInjective(Pick(s, J))
                              /\ Range(Pick(s, I)) \cap Range(Pick(s, J)) = {}
<1>1. /\ Pick(s, I) \in Seq(S) /\ Pick(s, J) \in Seq(S)
      /\ \A x \in Range(Pick(s, I)) : \E i \in I : x = s[i]
      /\ \A i \in I : s[i] \in Range(Pick(s, I))
      /\ \A x \in Range(Pick(s, J)) : \E i \in J : x = s[i]
      /\ \A i \in J : s[i] \in Range(Pick(s, J))
  <2>1. Picks(S, s, I, Pick(s, I), Ascending(I)) /\ Picks(S, s, J, Pick(s, J), Ascending(J))
    BY PickFacts
  <2> QED
    BY <2>1 DEF Picks
<1>2. \A x : x \in Range(s) <=> \E i \in 1..Len(s) : x = s[i]
  BY DEF Range
<1>3. \A x : x \in Range(s) <=> x \in Range(Pick(s, I)) \/ x \in Range(Pick(s, J))
  BY <1>1, <1>2
<1>4. ASSUME IsInjective(s)
      PROVE  \A x : ~ (x \in Range(Pick(s, I)) /\ x \in Range(Pick(s, J)))
  BY <1>1, <1>4 DEF IsInjective
<1> QED
  BY <1>1, <1>3, <1>4, PickInjective

(* Drop keeps the elements outside C, and an injective sequence injective. *)
LEMMA DropFacts ==
  ASSUME NEW S, NEW s \in Seq(S), NEW C
  PROVE  /\ Drop(s, C) \in Seq(S)
         /\ Range(Drop(s, C)) = Range(s) \ C
         /\ IsInjective(s) => IsInjective(Drop(s, C))
<1> DEFINE I == {i \in 1..Len(s) : s[i] \notin C}
           t == Pick(s, I)
<1>1. I \subseteq 1..Len(s) /\ \A i : i \in I <=> i \in 1..Len(s) /\ s[i] \notin C
  OBVIOUS
<1> HIDE DEF I
<1>2. /\ t \in Seq(S)
      /\ Ascending(I) \in [1..Len(t) -> I]
      /\ \A n \in 1..Len(t) : t[n] = s[Ascending(I)[n]]
      /\ \A i, j \in 1..Len(t) : Ascending(I)[i] = Ascending(I)[j] => i = j
      /\ \A x \in Range(t) : \E i \in I : x = s[i]
      /\ \A i \in I : s[i] \in Range(t)
  <2>1. Picks(S, s, I, t, Ascending(I))
    BY <1>1, PickFacts
  <2> QED
    BY <2>1 DEF Picks
<1> HIDE DEF t
<1>3. Range(t) = Range(s) \ C
  <2>1. \A x : x \in Range(s) <=> \E i \in 1..Len(s) : x = s[i]
    BY DEF Range
  <2>2. \A x : x \in Range(t) <=> x \in Range(s) /\ x \notin C
    BY <1>1, <1>2, <2>1
  <2> QED
    BY <2>2
<1>4. ASSUME IsInjective(s) PROVE IsInjective(t)
  BY <1>1, <1>4, PickInjective DEF t
<1> QED
  BY <1>2, <1>3, <1>4 DEF Drop, t, I

-----------------------------------------------------------------------------
(* Ranges of sequences *)

(* Concatenation joins the ranges; it is injective when the parts are and  *)
(* share no element.                                                       *)
LEMMA RangeOfConcat ==
  ASSUME NEW S, NEW s \in Seq(S), NEW t \in Seq(S)
  PROVE  /\ s \o t \in Seq(S)
         /\ Range(s \o t) = Range(s) \cup Range(t)
         /\ (IsInjective(s) /\ IsInjective(t) /\ Range(s) \cap Range(t) = {})
              => IsInjective(s \o t)
<1> DEFINE u == s \o t
<1>1. /\ u \in Seq(S) /\ Len(u) = Len(s) + Len(t) /\ Len(s) \in Nat /\ Len(t) \in Nat
      /\ \A i \in 1..Len(u) : u[i] = IF i <= Len(s) THEN s[i] ELSE t[i - Len(s)]
  OBVIOUS
<1>2. /\ DOMAIN u = 1..Len(u) /\ DOMAIN s = 1..Len(s) /\ DOMAIN t = 1..Len(t)
  BY <1>1
<1> HIDE DEF u
<1>3. \A i \in 1..Len(s) : i \in 1..Len(u) /\ u[i] = s[i]
  BY <1>1
<1>4. ASSUME NEW i \in 1..Len(t)
      PROVE  Len(s) + i \in 1..Len(u) /\ u[Len(s) + i] = t[i]
  <2>1. Len(s) + i \in 1..Len(u) /\ ~ (Len(s) + i <= Len(s)) /\ (Len(s) + i) - Len(s) = i
    BY <1>1
  <2> QED
    BY <1>1, <2>1
<1>5. \A i \in 1..Len(u) : \/ i \in 1..Len(s) /\ u[i] = s[i]
                           \/ i - Len(s) \in 1..Len(t) /\ u[i] = t[i - Len(s)]
  BY <1>1
<1>6. Range(u) = Range(s) \cup Range(t)
  <2>1. \A x \in Range(u) : x \in Range(s) \cup Range(t)
    BY <1>2, <1>5 DEF Range
  <2>2. \A x \in Range(s) : x \in Range(u)
    BY <1>2, <1>3 DEF Range
  <2>3. \A x \in Range(t) : x \in Range(u)
    BY <1>2, <1>4 DEF Range
  <2> QED
    BY <2>1, <2>2, <2>3
<1>7. ASSUME IsInjective(s), IsInjective(t), Range(s) \cap Range(t) = {}
      PROVE  IsInjective(u)
  <2> SUFFICES ASSUME NEW i \in 1..Len(u), NEW j \in 1..Len(u), u[i] = u[j] PROVE i = j
    BY <1>2 DEF IsInjective
  <2>1. i \in Nat /\ j \in Nat
    BY <1>1
  <2>2. CASE i \in 1..Len(s) /\ j \in 1..Len(s)
    BY <1>2, <1>3, <1>7, <2>2 DEF IsInjective
  <2>3. CASE i - Len(s) \in 1..Len(t) /\ j - Len(s) \in 1..Len(t)
    <3>1. t[i - Len(s)] = t[j - Len(s)]
      BY <1>5, <2>3, <1>1
    <3>2. i - Len(s) = j - Len(s)
      BY <1>2, <1>7, <2>3, <3>1 DEF IsInjective
    <3> QED
      BY <1>1, <2>1, <3>2
  <2>4. CASE i \in 1..Len(s) /\ j - Len(s) \in 1..Len(t)
    <3>1. u[i] = s[i] /\ u[j] = t[j - Len(s)]
      BY <1>1, <1>3, <1>4, <1>5, <2>4
    <3>2. u[i] \in Range(s) /\ u[j] \in Range(t)
      BY <1>2, <3>1, <2>4 DEF Range
    <3> QED
      BY <1>7, <3>2
  <2>5. CASE j \in 1..Len(s) /\ i - Len(s) \in 1..Len(t)
    <3>1. u[j] = s[j] /\ u[i] = t[i - Len(s)]
      BY <1>1, <1>3, <1>4, <1>5, <2>5
    <3>2. u[j] \in Range(s) /\ u[i] \in Range(t)
      BY <1>2, <3>1, <2>5 DEF Range
    <3> QED
      BY <1>7, <3>2
  <2> QED
    BY <1>5, <2>2, <2>3, <2>4, <2>5
<1> QED
  BY <1>1, <1>6, <1>7 DEF u

(* The same for one more element. *)
LEMMA RangeOfAppend ==
  ASSUME NEW S, NEW s \in Seq(S), NEW x \in S
  PROVE  /\ Append(s, x) \in Seq(S)
         /\ Range(Append(s, x)) = Range(s) \cup {x}
         /\ IsInjective(s) /\ x \notin Range(s) => IsInjective(Append(s, x))
<1> DEFINE u == Append(s, x)
<1>1. /\ u \in Seq(S) /\ Len(s) \in Nat /\ Len(u) = Len(s) + 1
      /\ \A i \in 1..Len(s) : i \in 1..Len(u) /\ u[i] = s[i]
      /\ u[Len(s) + 1] = x
      /\ DOMAIN u = 1..Len(u) /\ DOMAIN s = 1..Len(s)
  OBVIOUS
<1> HIDE DEF u
<1>2. \A i \in 1..Len(u) : i \in 1..Len(s) \/ i = Len(s) + 1
  BY <1>1
<1>3. Range(u) = Range(s) \cup {x}
  <2>1. \A y \in Range(u) : y \in Range(s) \cup {x}
    BY <1>1, <1>2 DEF Range
  <2>2. \A y \in Range(s) : y \in Range(u)
    BY <1>1 DEF Range
  <2>3. Len(s) + 1 \in 1..Len(u)
    BY <1>1
  <2>4. x \in Range(u)
    BY <1>1, <2>3 DEF Range
  <2> QED
    BY <2>1, <2>2, <2>4
<1>4. IsInjective(s) /\ x \notin Range(s) => IsInjective(u)
  BY <1>1, <1>2 DEF IsInjective, Range
<1> QED
  BY <1>1, <1>3, <1>4 DEF u

(* The empty sequence. *)
LEMMA EmptyRange == Range(<<>>) = {} /\ IsInjective(<<>>)
  BY DEF Range, IsInjective

(* The range of a sequence over S, by positions. *)
LEMMA RangeInSet ==
  ASSUME NEW S, NEW s \in Seq(S)
  PROVE  Range(s) \subseteq S /\ Range(s) = {s[i] : i \in 1..Len(s)}
  BY DEF Range

(* The first n elements of a sequence without repetition are n elements. *)
LEMMA FirstCount ==
  ASSUME NEW S, NEW s \in Seq(S), IsInjective(s), NEW n \in 0..Len(s)
  PROVE  IsFiniteSet({s[i] : i \in 1..n}) /\ Cardinality({s[i] : i \in 1..n}) = n
<1> DEFINE T == {s[i] : i \in 1..n}
           f == [i \in 1..n |-> s[i]]
<1>1. n \in Nat /\ 1..n \subseteq DOMAIN s
  OBVIOUS
<1>2. f \in Bijection(1..n, T)
  BY <1>1 DEF Bijection, Injection, Surjection, IsInjective
<1>3. IsFiniteSet(1..n) /\ Cardinality(1..n) = n
  BY <1>1, FS_Interval
<1> HIDE DEF T, f
<1>4. IsFiniteSet(T) /\ Cardinality(T) = n
  BY <1>2, <1>3, FS_Bijection DEF ExistsBijection
<1> QED
  BY <1>4 DEF T

(* What is left of a sequence behind its first k elements. *)
LEMMA TailFacts ==
  ASSUME NEW S, NEW s \in Seq(S), NEW k \in 0..Len(s)
  PROVE  /\ SubSeq(s, k + 1, Len(s)) \in Seq(S)
         /\ \A x \in Range(SubSeq(s, k + 1, Len(s))) : \E i \in (k + 1)..Len(s) : x = s[i]
         /\ \A i \in (k + 1)..Len(s) : s[i] \in Range(SubSeq(s, k + 1, Len(s)))
         /\ IsInjective(s) => IsInjective(SubSeq(s, k + 1, Len(s)))
<1> DEFINE t == SubSeq(s, k + 1, Len(s))
           n == Len(s)
<1>1. n \in Nat /\ DOMAIN s = 1..n /\ k \in Nat /\ k <= n
  OBVIOUS
<1>2. /\ t \in Seq(S) /\ Len(t) = n - k /\ DOMAIN t = 1..(n - k)
      /\ \A i \in 1..(n - k) : t[i] = s[k + i]
  <2>1. /\ t \in Seq(S) /\ Len(t) = IF k + 1 <= n THEN n - (k + 1) + 1 ELSE 0
        /\ \A i \in 1..(n - (k + 1) + 1) : t[i] = s[(k + 1) + i - 1]
    <3>1. k + 1 \in Int /\ n \in Int /\ \A i \in (k + 1)..n : s[i] \in S
      BY <1>1
    <3> QED
      BY <3>1, SubSeqProperties
  <2> HIDE DEF t, n
  <2>2. Len(t) = n - k /\ n - (k + 1) + 1 = n - k
    BY <1>1, <2>1
  <2>3. DOMAIN t = 1..Len(t)
    BY <2>1
  <2>4. ASSUME NEW i \in 1..(n - k) PROVE t[i] = s[k + i]
    <3>1. (k + 1) + i - 1 = k + i
      BY <1>1
    <3> QED
      BY <2>1, <2>2, <3>1
  <2> QED
    BY <2>1, <2>2, <2>3, <2>4
<1> HIDE DEF t, n
<1>3. \A i \in 1..(n - k) : k + i \in 1..n /\ k + i \in (k + 1)..n
  BY <1>1
<1>4. \A i \in (k + 1)..n : i - k \in 1..(n - k) /\ k + (i - k) = i
  BY <1>1
<1>5. \A x \in Range(t) : \E i \in (k + 1)..n : x = s[i]
  BY <1>2, <1>3 DEF Range
<1>6. ASSUME NEW i \in (k + 1)..n PROVE s[i] \in Range(t)
  <2>1. i - k \in 1..(n - k) /\ t[i - k] = s[i]
    BY <1>2, <1>4
  <2> QED
    BY <1>2, <2>1 DEF Range
<1>7. ASSUME IsInjective(s) PROVE IsInjective(t)
  <2> SUFFICES ASSUME NEW i \in 1..(n - k), NEW j \in 1..(n - k), t[i] = t[j] PROVE i = j
    BY <1>2 DEF IsInjective
  <2>1. k + i = k + j
    BY <1>1, <1>2, <1>3, <1>7 DEF IsInjective
  <2> QED
    BY <1>1, <2>1
<1> QED
  BY <1>2, <1>5, <1>6, <1>7 DEF t, n

-----------------------------------------------------------------------------
(* Totals *)

(* The units of f over S, one by one. *)
LEMMA UnitsMember ==
  ASSUME NEW f, NEW S
  PROVE  \A u : u \in Units(f, S) <=> \E x \in S : \E n \in 1..f[x] : u = <<x, n>>
  BY DEF Units

(* A finite set of naturals has a natural total. *)
LEMMA TotalIsNat ==
  ASSUME NEW f, NEW S, IsFiniteSet(S), \A x \in S : f[x] \in Nat
  PROVE  IsFiniteSet(Units(f, S)) /\ Total(f, S) \in Nat
<1> DEFINE T == {{x} \X (1..f[x]) : x \in S}
           g == [x \in S |-> {x} \X (1..f[x])]
<1>1. g \in Surjection(S, T)
  BY DEF Surjection
<1>2. IsFiniteSet(T)
  <2> HIDE DEF g, T
  <2> QED
    BY <1>1, FS_Surjection
<1>3. ASSUME NEW x \in S PROVE IsFiniteSet({x} \X (1..f[x]))
  <2>1. IsFiniteSet({x})
    BY FS_Singleton
  <2>2. IsFiniteSet(1..f[x])
    BY FS_Interval
  <2> QED
    BY <2>1, <2>2, FS_Product
<1>4. IsFiniteSet(UNION T)
  <2>1. \A U \in T : IsFiniteSet(U)
    BY <1>3
  <2> HIDE DEF T
  <2> QED
    BY <1>2, <2>1, FS_UNION
<1>5. IsFiniteSet(Units(f, S))
  BY <1>4 DEF Units
<1> QED
  BY <1>5, FS_CardinalityType DEF Total

(* Nothing adds up to nothing. *)
LEMMA TotalOfNone ==
  ASSUME NEW f
  PROVE  Total(f, {}) = 0
<1>1. Units(f, {}) = {}
  BY DEF Units
<1> QED
  BY <1>1, FS_EmptySet DEF Total

(* Smaller values over fewer elements have a smaller total. *)
LEMMA TotalMonotone ==
  ASSUME NEW f, NEW g, NEW S, NEW T, IsFiniteSet(S), T \subseteq S,
         \A x \in S : f[x] \in Nat, \A x \in T : g[x] \in Nat /\ g[x] <= f[x]
  PROVE  Total(g, T) <= Total(f, S)
<1>1. IsFiniteSet(Units(f, S))
  BY TotalIsNat
<1>2. Units(g, T) \subseteq Units(f, S)
  <2> SUFFICES ASSUME NEW u \in Units(g, T) PROVE u \in Units(f, S)
    OBVIOUS
  <2>1. PICK x \in T : \E n \in 1..g[x] : u = <<x, n>>
    BY UnitsMember
  <2>2. PICK n \in 1..g[x] : u = <<x, n>>
    BY <2>1
  <2>3. n \in 1..f[x]
    <3>1. f[x] \in Nat /\ g[x] \in Nat /\ g[x] <= f[x]
      OBVIOUS
    <3> QED
      BY <3>1
  <2> QED
    BY <2>2, <2>3, UnitsMember
<1> QED
  BY <1>1, <1>2, FS_Subset DEF Total

(* The shares U[x] of T do not overlap and h[x] is the total of the share: *)
(* the totals of the shares are at most the total of T.                    *)
LEMMA TotalOfShares ==
  ASSUME NEW S, NEW T, IsFiniteSet(T), NEW h, NEW g, NEW U,
         \A i \in T : g[i] \in Nat,
         \A x \in S : U[x] \subseteq T,
         \A x, y \in S : \A i \in T : i \in U[x] /\ i \in U[y] => x = y,
         \A x \in S : h[x] = Total(g, U[x])
  PROVE  Total(h, S) <= Total(g, T)
<1>1. ASSUME NEW x \in S
      PROVE  \E c : c \in Bijection(1..h[x], Units(g, U[x]))
  <2>1. U[x] \in SUBSET T
    OBVIOUS
  <2>2. IsFiniteSet(U[x])
    BY <2>1, FS_Subset
  <2>3. \A i \in U[x] : g[i] \in Nat
    BY <2>1
  <2>4. IsFiniteSet(Units(g, U[x]))
    BY <2>2, <2>3, TotalIsNat
  <2>5. ExistsBijection(1..Cardinality(Units(g, U[x])), Units(g, U[x]))
    BY <2>4, FS_CardinalityType
  <2>6. ExistsBijection(1..h[x], Units(g, U[x]))
    BY <2>5 DEF Total
  <2> QED
    BY <2>6 DEF ExistsBijection
<1> DEFINE b == [x \in S |-> CHOOSE c : c \in Bijection(1..h[x], Units(g, U[x]))]
<1>2. ASSUME NEW x \in S
      PROVE  /\ \A y \in 1..h[x] : b[x][y] \in Units(g, U[x])
             /\ \A y, z \in 1..h[x] : b[x][y] = b[x][z] => y = z
  <2>1. b[x] = CHOOSE c : c \in Bijection(1..h[x], Units(g, U[x]))
    OBVIOUS
  <2>2. b[x] \in Bijection(1..h[x], Units(g, U[x]))
    BY <1>1, <2>1, Zenon
  <2> HIDE DEF b
  <2>3. b[x] \in [1..h[x] -> Units(g, U[x])] /\ IsInjective(b[x])
    BY <2>2, Zenon DEF Bijection, Injection
  <2> QED
    BY <2>3 DEF IsInjective
<1> HIDE DEF b
<1> DEFINE A == Units(h, S)
           B == Units(g, T)
           m == [u \in A |-> b[u[1]][u[2]]]
<1>3. /\ \A u : u \in A <=> \E x \in S : \E y \in 1..h[x] : u = <<x, y>>
      /\ \A u : u \in B <=> \E x \in T : \E y \in 1..g[x] : u = <<x, y>>
      /\ \A x \in S : \A u : u \in Units(g, U[x])
                               <=> \E i \in U[x] : \E y \in 1..g[i] : u = <<i, y>>
  BY DEF Units
<1> HIDE DEF A, B
<1>4. ASSUME NEW u \in A
      PROVE  /\ u[1] \in S /\ u[2] \in 1..h[u[1]] /\ u = <<u[1], u[2]>>
             /\ \E i \in U[u[1]] : \E y \in 1..g[i] : m[u] = <<i, y>>
  <2>1. PICK x \in S : \E y \in 1..h[x] : u = <<x, y>>
    BY <1>3
  <2>2. PICK y \in 1..h[x] : u = <<x, y>>
    BY <2>1
  <2>3. u[1] \in S /\ u[2] \in 1..h[u[1]] /\ u = <<u[1], u[2]>>
    BY <2>2
  <2>4. m[u] = b[u[1]][u[2]]
    OBVIOUS
  <2> HIDE DEF m
  <2>5. m[u] \in Units(g, U[u[1]])
    BY <1>2, <2>3, <2>4
  <2> QED
    BY <1>3, <2>3, <2>5
<1>5. m \in [A -> B]
  <2>1. ASSUME NEW u \in A PROVE m[u] \in B
    <3> HIDE DEF m
    <3>1. PICK i \in U[u[1]] : \E y \in 1..g[i] : m[u] = <<i, y>>
      BY <1>4
    <3>2. i \in T
      BY <1>4
    <3> QED
      BY <1>3, <3>1, <3>2
  <2> QED
    BY <2>1
<1>6. ASSUME NEW u \in A, NEW v \in A, m[u] = m[v] PROVE u = v
  <2>1. u[1] = v[1]
    <3> HIDE DEF m
    <3>1. PICK i \in U[u[1]] : \E y \in 1..g[i] : m[u] = <<i, y>>
      BY <1>4
    <3>2. PICK y \in 1..g[i] : m[u] = <<i, y>>
      BY <3>1
    <3>3. PICK j \in U[v[1]] : \E z \in 1..g[j] : m[v] = <<j, z>>
      BY <1>4
    <3>4. PICK z \in 1..g[j] : m[v] = <<j, z>>
      BY <3>3
    <3>5. i = j
      <4>1. <<i, y>> = <<j, z>>
        BY <1>6, <3>2, <3>4, Zenon
      <4> QED
        BY <4>1
    <3>6. u[1] \in S /\ v[1] \in S /\ i \in T
      BY <1>4
    <3> QED
      BY <3>5, <3>6
  <2>2. u[1] \in S /\ u[2] \in 1..h[u[1]] /\ v[2] \in 1..h[u[1]]
    BY <1>4, <2>1
  <2>3. b[u[1]][u[2]] = b[u[1]][v[2]]
    BY <1>6, <2>1
  <2>4. u[2] = v[2]
    BY <1>2, <2>2, <2>3
  <2>5. u = <<u[1], u[2]>> /\ v = <<v[1], v[2]>>
    BY <1>4
  <2> QED
    BY <2>1, <2>4, <2>5
<1>7. m \in Injection(A, B)
  <2> HIDE DEF m
  <2> QED
    BY <1>5, <1>6 DEF Injection, IsInjective
<1>8. IsFiniteSet(B)
  BY TotalIsNat DEF B
<1> HIDE DEF m
<1>9. Cardinality(A) <= Cardinality(B)
  BY <1>7, <1>8, FS_Injection
<1> QED
  BY <1>9 DEF A, B, Total

(* The values g[1..k] are handed out to the elements a[1..k] of S, several *)
(* to one element perhaps; an element that gets none keeps at most its own *)
(* value f[x].  U[x] are the shares of x, h[x] is its new value.           *)
HandsOut(S, k, f, h, g, a, U) ==
  /\ \A x \in S : f[x] \in Nat /\ h[x] \in Nat
  /\ \A i \in 1..k : g[i] \in Nat
  /\ \A x \in S : U[x] \subseteq 1..k /\ \A i \in U[x] : a[i] = x
  /\ \A x \in S : U[x] # {} => h[x] = Total(g, U[x])
  /\ \A x \in S : U[x] = {} => h[x] <= f[x]

(* The new total is at most what there was and what was handed out. *)
LEMMA TotalHandedOut ==
  ASSUME NEW S, IsFiniteSet(S), NEW k \in Nat, NEW f, NEW h, NEW g, NEW a, NEW U,
         HandsOut(S, k, f, h, g, a, U)
  PROVE  Total(h, S) <= Total(f, S) + Total(g, 1..k)
<1> DEFINE S1 == {x \in S : U[x] = {}}
           S2 == {x \in S : U[x] # {}}
           K  == 1..k
<1>0. /\ \A x \in S : f[x] \in Nat /\ h[x] \in Nat
      /\ \A i \in 1..k : g[i] \in Nat
      /\ \A x \in S : U[x] \subseteq 1..k /\ \A i \in U[x] : a[i] = x
      /\ \A x \in S : U[x] # {} => h[x] = Total(g, U[x])
      /\ \A x \in S : U[x] = {} => h[x] <= f[x]
  BY DEF HandsOut
<1>1. /\ S1 \in SUBSET S /\ S2 \in SUBSET S
      /\ \A x \in S1 : U[x] = {} /\ h[x] <= f[x]
      /\ \A x \in S2 : U[x] # {} /\ h[x] = Total(g, U[x])
      /\ \A x \in S : x \in S1 \/ x \in S2
  BY <1>0
<1>2. IsFiniteSet(K)
  BY FS_Interval
<1>3. /\ \A i \in K : g[i] \in Nat
      /\ \A x \in S : U[x] \subseteq K
      /\ \A x, y \in S : \A i \in K : i \in U[x] /\ i \in U[y] => x = y
  BY <1>0
<1> HIDE DEF S1, S2, K
<1>4. IsFiniteSet(S1) /\ IsFiniteSet(S2)
  BY <1>1, FS_Subset
<1>5. Total(h, S1) <= Total(f, S)
  BY <1>0, <1>1, TotalMonotone
<1>6. Total(h, S2) <= Total(g, K)
  BY <1>1, <1>2, <1>3, TotalOfShares
<1>7. Units(h, S) = Units(h, S1) \cup Units(h, S2)
  <2>1. /\ \A u : u \in Units(h, S) <=> \E x \in S : \E y \in 1..h[x] : u = <<x, y>>
        /\ \A u : u \in Units(h, S1) <=> \E x \in S1 : \E y \in 1..h[x] : u = <<x, y>>
        /\ \A u : u \in Units(h, S2) <=> \E x \in S2 : \E y \in 1..h[x] : u = <<x, y>>
    BY DEF Units
  <2>2. \A u : u \in Units(h, S) <=> u \in Units(h, S1) \/ u \in Units(h, S2)
    BY <1>1, <2>1
  <2> QED
    BY <2>2
<1>8. IsFiniteSet(Units(h, S1)) /\ Total(h, S1) \in Nat
  BY <1>0, <1>1, <1>4, TotalIsNat
<1>9. IsFiniteSet(Units(h, S2)) /\ Total(h, S2) \in Nat
  BY <1>0, <1>1, <1>4, TotalIsNat
<1>10. Total(f, S) \in Nat /\ Total(g, K) \in Nat /\ Total(h, S) \in Nat
  BY <1>0, <1>2, <1>3, TotalIsNat
<1>11. Total(h, S) <= Total(h, S1) + Total(h, S2)
  <2> DEFINE A == Units(h, S1)
             B == Units(h, S2)
  <2>1. IsFiniteSet(A) /\ IsFiniteSet(B)
    BY <1>8, <1>9
  <2> HIDE DEF A, B
  <2>2. IsFiniteSet(A \cap B) /\ Cardinality(A) \in Nat /\ Cardinality(B) \in Nat
    BY <2>1, FS_Intersection, FS_CardinalityType
  <2>3. Cardinality(A \cap B) \in Nat
    BY <2>2, FS_CardinalityType
  <2>4. Cardinality(A \cup B) = Cardinality(A) + Cardinality(B) - Cardinality(A \cap B)
    BY <2>1, FS_Union
  <2>5. Cardinality(A \cup B) <= Cardinality(A) + Cardinality(B)
    BY <2>2, <2>3, <2>4
  <2> QED
    BY <1>7, <2>5 DEF Total, A, B
<1>12. Total(h, S) <= Total(f, S) + Total(g, K)
  BY <1>5, <1>6, <1>8, <1>9, <1>10, <1>11
<1> QED
  BY <1>12 DEF K

-----------------------------------------------------------------------------
(* Queues *)

(* A sequence without repetitions is as long as its range is large. *)
LEMMA InjectiveLength ==
  ASSUME NEW S, NEW s \in Seq(S), IsInjective(s)
  PROVE  IsFiniteSet(Range(s)) /\ Cardinality(Range(s)) = Len(s)
<1>1. Len(s) \in Nat /\ DOMAIN s = 1..Len(s) /\ s \in [1..Len(s) -> Range(s)]
  BY DEF Range
<1>2. s \in Bijection(1..Len(s), Range(s))
  BY <1>1 DEF Bijection, Injection, Surjection, IsInjective, Range
<1>3. IsFiniteSet(Range(s))
  BY <1>1, <1>2, FS_NatBijection DEF ExistsBijection
<1> QED
  BY <1>1, <1>2, <1>3, FS_CountingElements DEF ExistsBijection

(* Taking the head of a sequence without repetitions. *)
LEMMA HeadTail ==
  ASSUME NEW S, NEW s \in Seq(S), s # <<>>, IsInjective(s)
  PROVE  /\ Head(s) \in Range(s) /\ Tail(s) \in Seq(S) /\ IsInjective(Tail(s))
         /\ Range(Tail(s)) = Range(s) \ {Head(s)}
<1> DEFINE t == Tail(s)
           n == Len(s)
<1>1. /\ n \in Nat /\ n > 0 /\ DOMAIN s = 1..n /\ Head(s) = s[1]
      /\ t \in Seq(S) /\ Len(t) = n - 1 /\ \A i \in 1..(n - 1) : t[i] = s[i + 1]
  OBVIOUS
<1>2. DOMAIN t = 1..(n - 1)
  BY <1>1
<1> HIDE DEF t, n
<1>3. Head(s) \in Range(s)
  BY <1>1 DEF Range
<1>4. \A i \in 1..(n - 1) : i + 1 \in 1..n /\ i + 1 # 1
  BY <1>1
<1>5. \A i \in 1..n : i = 1 \/ (i - 1 \in 1..(n - 1) /\ (i - 1) + 1 = i)
  BY <1>1
<1>6. IsInjective(t)
  <2>1. ASSUME NEW i \in 1..(n - 1), NEW j \in 1..(n - 1), t[i] = t[j] PROVE i = j
    <3>1. i + 1 \in 1..n /\ j + 1 \in 1..n /\ s[i + 1] = s[j + 1]
      BY <1>1, <1>4, <2>1
    <3>2. i + 1 = j + 1
      BY <1>1, <3>1 DEF IsInjective
    <3> QED
      BY <1>1, <3>2
  <2> QED
    BY <1>2, <2>1 DEF IsInjective
<1>7. \A x \in Range(t) : x \in Range(s) /\ x # Head(s)
  <2> SUFFICES ASSUME NEW i \in 1..(n - 1) PROVE t[i] \in Range(s) /\ t[i] # Head(s)
    BY <1>2 DEF Range
  <2>1. i + 1 \in 1..n /\ i + 1 # 1 /\ t[i] = s[i + 1] /\ 1 \in 1..n
    BY <1>1, <1>4
  <2>2. t[i] \in Range(s)
    BY <1>1, <2>1 DEF Range
  <2>3. s[i + 1] # s[1]
    BY <1>1, <2>1 DEF IsInjective
  <2> QED
    BY <1>1, <2>1, <2>2, <2>3
<1>8. ASSUME NEW x \in Range(s), x # Head(s) PROVE x \in Range(t)
  <2>1. PICK i \in 1..n : x = s[i]
    BY <1>1 DEF Range
  <2>2. i - 1 \in 1..(n - 1) /\ t[i - 1] = x
    BY <1>1, <1>5, <1>8, <2>1
  <2> QED
    BY <1>2, <2>2 DEF Range
<1> QED
  BY <1>1, <1>3, <1>6, <1>7, <1>8 DEF t

(* Ascending lists a set of positions, once each. *)
LEMMA AscendingSeq ==
  ASSUME NEW n \in Nat, NEW I, I \subseteq 1..n
  PROVE  /\ Ascending(I) \in Seq(1..n) /\ Range(Ascending(I)) = I /\ IsInjective(Ascending(I))
<1> DEFINE a == Ascending(I)
           m == Cardinality(I)
<1>1. /\ m \in Nat /\ a \in [1..m -> I]
      /\ \A i, j \in 1..m : i < j => a[i] < a[j]
      /\ \A x \in I : \E i \in 1..m : a[i] = x
  BY AscendingFacts
<1> HIDE DEF a, m
<1>2. \A i \in 1..m : a[i] \in 1..n
  BY <1>1
<1>3. a \in Seq(1..n)
  BY <1>1, <1>2
<1>4. Range(a) = I
  BY <1>1 DEF Range
<1>5. ASSUME NEW i \in 1..m, NEW j \in 1..m, a[i] = a[j] PROVE i = j
  <2>1. a[i] \in Nat /\ a[j] \in Nat
    BY <1>2
  <2>2. ~ (a[i] < a[j]) /\ ~ (a[j] < a[i])
    BY <1>5, <2>1
  <2> QED
    BY <1>1, <2>2
<1>6. DOMAIN a = 1..m
  BY <1>1
<1>7. IsInjective(a)
  BY <1>5, <1>6 DEF IsInjective
<1> QED
  BY <1>3, <1>4, <1>7 DEF a

(* One element of a total. *)
LEMMA TotalSplit ==
  ASSUME NEW f, NEW S, IsFiniteSet(S), \A x \in S : f[x] \in Nat, NEW s \in S
  PROVE  Total(f, S) = Total(f, S \ {s}) + f[s] /\ Total(f, S \ {s}) \in Nat
<1> DEFINE A == Units(f, S \ {s})
           B == {s} \X (1..f[s])
<1>1. Units(f, S) = A \cup B
  BY DEF Units
<1>2. A \cap B = {}
  BY UnitsMember
<1>3. IsFiniteSet(S \ {s}) /\ \A x \in S \ {s} : f[x] \in Nat
  BY FS_Subset
<1>4. IsFiniteSet(A) /\ Total(f, S \ {s}) \in Nat
  BY <1>3, TotalIsNat
<1>5. IsFiniteSet(B) /\ Cardinality(B) = f[s]
  <2>1. IsFiniteSet({s}) /\ Cardinality({s}) = 1
    BY FS_Singleton
  <2>2. IsFiniteSet(1..f[s]) /\ Cardinality(1..f[s]) = f[s]
    BY FS_Interval
  <2>3. f[s] \in Nat
    OBVIOUS
  <2>4. IsFiniteSet(B) /\ Cardinality(B) = Cardinality({s}) * Cardinality(1..f[s])
    BY <2>1, <2>2, FS_Product
  <2> QED
    BY <2>1, <2>2, <2>3, <2>4
<1> HIDE DEF A, B
<1>6. Cardinality(A \cup B) = Cardinality(A) + Cardinality(B)
  <2>1. Cardinality(A \cup B) = Cardinality(A) + Cardinality(B) - Cardinality(A \cap B)
    BY <1>4, <1>5, FS_Union
  <2>2. Cardinality(A \cap B) = 0
    BY <1>2, FS_EmptySet
  <2>3. Cardinality(A) \in Nat /\ Cardinality(B) \in Nat
    BY <1>4, <1>5, FS_CardinalityType
  <2> QED
    BY <2>1, <2>2, <2>3
<1> QED
  BY <1>1, <1>4, <1>5, <1>6 DEF Total, A

(* A total depends only on the values it adds. *)
LEMMA TotalSame ==
  ASSUME NEW f, NEW g, NEW S, \A x \in S : f[x] = g[x]
  PROVE  Total(f, S) = Total(g, S)
<1>1. Units(f, S) = Units(g, S)
  BY DEF Units
<1> QED
  BY <1>1 DEF Total

(* A total after one of its values changed. *)
LEMMA TotalExcept ==
  ASSUME NEW S, IsFiniteSet(S), NEW f \in [S -> Nat], NEW s \in S, NEW v \in Nat
  PROVE  /\ Total([f EXCEPT ![s] = v], S) + f[s] = Total(f, S) + v
         /\ Total([f EXCEPT ![s] = v], S) \in Nat /\ Total(f, S) \in Nat /\ f[s] <= Total(f, S)
<1> DEFINE g == [f EXCEPT ![s] = v]
<1>1. g[s] = v /\ (\A x \in S : g[x] \in Nat) /\ (\A x \in S \ {s} : g[x] = f[x])
      /\ (\A x \in S : f[x] \in Nat)
  OBVIOUS
<1> HIDE DEF g
<1>2. Total(f, S) = Total(f, S \ {s}) + f[s] /\ Total(f, S \ {s}) \in Nat
  BY <1>1, TotalSplit
<1>3. Total(g, S) = Total(g, S \ {s}) + g[s]
  BY <1>1, TotalSplit
<1>4. Total(g, S \ {s}) = Total(f, S \ {s})
  BY <1>1, TotalSame
<1>5. Total(g, S) + f[s] = Total(f, S) + v /\ Total(g, S) \in Nat /\ Total(f, S) \in Nat
      /\ f[s] <= Total(f, S)
  BY <1>1, <1>2, <1>3, <1>4
<1> QED
  BY <1>5 DEF g
=============================================================================
