----------------------- MODULE EngineLifecycleProofs -----------------------
(***************************************************************************)
(* Proofs about EngineLifecycle, for every set of requests and slots, every *)
(* budget, pool, prompt and limit.                                         *)
(***************************************************************************)
EXTENDS EngineLifecycle, CollectionProofs

-----------------------------------------------------------------------------
(* Operators of the model *)

(* Slots and requests of a wave. *)
LEMMA WaveFacts ==
  ASSUME NEW w \in Seq(Entry)
  PROVE  /\ WaveSlots(w) \subseteq Slots /\ WaveReqs(w) \subseteq Requests
         /\ \A i \in 1..Len(w) : w[i].slot \in Slots /\ w[i].req \in Requests
         /\ Reqs(w) \in Seq(Requests)
         /\ Range(Reqs(w)) = WaveReqs(w)
<1>1. \A i \in 1..Len(w) : w[i].slot \in Slots /\ w[i].req \in Requests
  <2>1. \A i \in 1..Len(w) : w[i] \in Entry
    OBVIOUS
  <2> QED
    BY <2>1 DEF Entry
<1>2. Reqs(w) \in Seq(Requests) /\ DOMAIN Reqs(w) = 1..Len(w)
  BY <1>1 DEF Reqs
<1>3. Range(Reqs(w)) = WaveReqs(w)
  BY <1>2 DEF Reqs, WaveReqs, Range
<1> QED
  BY <1>1, <1>2, <1>3 DEF WaveSlots, WaveReqs

(* Reversing keeps the elements. *)
LEMMA ReversedFacts ==
  ASSUME NEW S, NEW s \in Seq(S)
  PROVE  /\ Reversed(s) \in Seq(S)
         /\ Range(Reversed(s)) = Range(s)
         /\ IsInjective(s) => IsInjective(Reversed(s))
<1> DEFINE t == Reversed(s)
           n == Len(s)
<1>1. n \in Nat /\ DOMAIN s = 1..n /\ \A i \in 1..n : s[i] \in S
  OBVIOUS
<1>2. t = [i \in 1..n |-> s[n + 1 - i]]
  BY DEF Reversed
<1> HIDE DEF t, n
<1>3. \A i \in 1..n : n + 1 - i \in 1..n /\ n + 1 - (n + 1 - i) = i
  BY <1>1
<1>4. DOMAIN t = 1..n /\ \A i \in 1..n : t[i] = s[n + 1 - i]
  BY <1>2
<1>5. t \in Seq(S)
  BY <1>1, <1>2, <1>3
<1>6. Range(t) = Range(s)
  <2>1. \A x \in Range(t) : x \in Range(s)
    BY <1>1, <1>3, <1>4 DEF Range
  <2>2. ASSUME NEW i \in 1..n PROVE s[i] \in Range(t)
    <3>1. n + 1 - i \in 1..n /\ t[n + 1 - i] = s[i]
      BY <1>3, <1>4
    <3> QED
      BY <1>4, <3>1 DEF Range
  <2> QED
    BY <1>1, <2>1, <2>2 DEF Range
<1>7. ASSUME IsInjective(s) PROVE IsInjective(t)
  <2> SUFFICES ASSUME NEW i \in 1..n, NEW j \in 1..n, t[i] = t[j] PROVE i = j
    BY <1>4 DEF IsInjective
  <2>1. n + 1 - i = n + 1 - j
    BY <1>1, <1>3, <1>4, <1>7 DEF IsInjective
  <2> QED
    BY <1>1, <2>1
<1> QED
  BY <1>5, <1>6, <1>7 DEF t

(* The selection and what is passed over share out the waiting requests. *)
LEMMA SelectedFacts ==
  ASSUME waiting \in Seq(Requests)
  PROVE  /\ Selected \in Seq(Requests) /\ PassedOver \in Seq(Requests)
         /\ Range(Selected) \cup Range(PassedOver) = Range(waiting)
         /\ IsInjective(waiting) => /\ IsInjective(Selected) /\ IsInjective(PassedOver)
                                    /\ Range(Selected) \cap Range(PassedOver) = {}
<1> DEFINE I == {i \in 1..Len(waiting) : Selectable(i)}
           J == {i \in 1..Len(waiting) : ~Selectable(i)}
<1>1. /\ I \subseteq 1..Len(waiting) /\ J \subseteq 1..Len(waiting)
      /\ \A i \in 1..Len(waiting) : i \in I \/ i \in J
      /\ \A i \in I : i \notin J
  OBVIOUS
<1> HIDE DEF I, J
<1>2. Selected = Pick(waiting, I) /\ PassedOver = Pick(waiting, J)
  BY DEF Selected, PassedOver, I, J
<1>3. /\ Pick(waiting, I) \in Seq(Requests) /\ Pick(waiting, J) \in Seq(Requests)
      /\ Range(Pick(waiting, I)) \cup Range(Pick(waiting, J)) = Range(waiting)
      /\ IsInjective(waiting) =>
           /\ IsInjective(Pick(waiting, I)) /\ IsInjective(Pick(waiting, J))
           /\ Range(Pick(waiting, I)) \cap Range(Pick(waiting, J)) = {}
  BY <1>1, PartitionFacts
<1> QED
  BY <1>2, <1>3

(* A bounded, non-empty set of naturals has the maximum that Max chooses. *)
LEMMA MaxFacts ==
  ASSUME NEW n \in Nat, NEW T, T \subseteq 0..n, T # {}
  PROVE  Max(T) \in T /\ \A y \in T : Max(T) >= y
<1> DEFINE D == {d \in Nat : n - d \in T}
<1>1. D \subseteq Nat /\ D # {}
  <2>1. PICK x \in T : TRUE
    OBVIOUS
  <2>2. x \in 0..n
    BY <2>1
  <2>3. n - x \in Nat /\ n - (n - x) = x
    BY <2>2
  <2>4. n - x \in D
    BY <2>1, <2>3
  <2> QED
    BY <2>4
<1>2. PICK d \in D : \A e \in D : d <= e
  <2> HIDE DEF D
  <2> QED
    BY <1>1, LeastElement
<1>3. d \in Nat /\ n - d \in T
  OBVIOUS
<1>4. \A y \in T : n - d >= y
  <2> SUFFICES ASSUME NEW y \in T PROVE n - d >= y
    OBVIOUS
  <2>1. y \in 0..n /\ n - y \in Nat /\ n - (n - y) = y
    OBVIOUS
  <2>2. n - y \in D
    BY <2>1
  <2>3. d <= n - y
    BY <1>2, <2>2
  <2> QED
    BY <1>3, <2>1, <2>3
<1>5. \E x \in T : \A y \in T : x >= y
  BY <1>3, <1>4
<1> QED
  BY <1>5 DEF Max

(* The pages of the selection are numbers. *)
LEMMA NeedFacts ==
  ASSUME NEW sel \in Seq(Requests)
  PROVE  /\ Len(sel) \in Nat
         /\ NeedOf(sel) \in [1..Len(sel) -> Nat]
         /\ \A i \in 1..Len(sel) : NeedOf(sel)[i] \in Nat
  BY ConstantsAssumption DEF NeedOf

(* While the promises are covered, FitCount is a prefix of the selection   *)
(* whose pages are covered too.                                            *)
LEMMA FitCountFacts ==
  ASSUME NEW sel \in Seq(Requests), reserved \in [Slots -> Nat], ReservedPages <= KvPages
  PROVE  /\ FitCount(sel) \in 0..Len(sel)
         /\ ReservedPages + Total(NeedOf(sel), 1..FitCount(sel)) <= KvPages
<1> DEFINE T == {k \in 0..Len(sel) : ReservedPages + Total(NeedOf(sel), 1..k) <= KvPages}
<1>1. ReservedPages \in Nat
  <2>1. \A s \in Slots : reserved[s] \in Nat
    OBVIOUS
  <2> QED
    BY <2>1, ConstantsAssumption, TotalIsNat DEF ReservedPages
<1>2. 0 \in T
  <2>1. 1..0 = {}
    OBVIOUS
  <2>2. Total(NeedOf(sel), 1..0) = 0
    BY <2>1, TotalOfNone
  <2> QED
    BY <1>1, <2>2, NeedFacts
<1>3. T \subseteq 0..Len(sel) /\ T # {}
  BY <1>2
<1>4. FitCount(sel) = Max(T)
  BY DEF FitCount
<1>5. Max(T) \in T
  <2> HIDE DEF T
  <2> QED
    BY <1>3, MaxFacts, NeedFacts
<1> QED
  BY <1>4, <1>5

-----------------------------------------------------------------------------
(* The request budget, and everything else that holds whichever calls fail *)

(* Every request in a container was accepted. *)
Contained ==
  /\ Range(deque) \subseteq Accepted /\ Range(incoming) \subseteq Accepted
  /\ Range(waiting) \subseteq Accepted /\ ActiveReqs \subseteq Accepted
  /\ WaveReqs(wave) \subseteq Accepted /\ WaveReqs(pending) \subseteq Accepted

(* Only accepted requests are answered, with a result or with an error. *)
Answered == Released \subseteq Accepted /\ served \cap failed = {}

(* Promises are covered, and made only for slots that hold KV. *)
PagesCovered ==
  /\ ReservedPages <= KvPages
  /\ \A s \in Slots : reserved[s] > 0 => content[s] # {}

(* What the containers of a round hold at each point of the round. *)
Phases ==
  /\ epc \notin {"begin", "activateNow", "activatePending"} => wave = <<>>
  /\ epc \in {"begin", "activateNow"} => pending = <<>>
  /\ epc = "activatePending" => pending = wave
  /\ epc = "begin" => widx = 1
  /\ epc \notin {"plain", "mtp", "reap", "recover", "recoverFatal"} => finished = {}
  /\ epc # "refill" => incoming = <<>>
  /\ epc \in {"plain", "mtp"} => /\ todo \cup mtp \subseteq ActiveSlots
                                 /\ todo \cap mtp = {}
                                 /\ (todo \cup mtp) \cap finished = {}
  /\ finished \subseteq ActiveSlots

Base == TypeOK /\ Contained /\ Answered /\ BudgetExact /\ PagesCovered /\ Phases

(* What a step does to the answers and to the callers. *)
Fails     == UNCHANGED <<cpc, stop>> /\ \E R \in SUBSET Accepted : FailAll(R)
FailsDown == UNCHANGED cpc /\ stop' = "yes" /\ \E R \in SUBSET Accepted : FailAll(R)
Resolves  == UNCHANGED <<cpc, stop>> /\ \E r \in Accepted : Resolve(r)
Silent    == UNCHANGED <<cpc, stop, doneVars>>

(* Every step of the system answers some accepted requests with an error,  *)
(* or one of them with a result, or leaves the answers alone.              *)
LEMMA StepKinds ==
  ASSUME Base, Next
  PROVE  Client \/ Stop \/ Silent \/ Fails \/ FailsDown \/ Resolves
<1> USE DEF Silent, clientVars, doneVars
<1>1. CASE Client
  BY <1>1
<1>2. CASE Stop
  BY <1>2
<1>3. CASE RoundBegin \/ CoalesceOff \/ CoalesceBegin \/ CoalesceDrain \/ CoalesceEnd
  BY <1>3 DEF RoundBegin, CoalesceOff, CoalesceBegin, CoalesceDrain, CoalesceEnd
<1>4. CASE ProcessCancellations
  <2>1. cancelSet \cap ({active[s] : s \in {s \in ActiveSlots : active[s] \in cancelSet}}
                          \cup Range(waiting)) \subseteq Accepted
    BY DEF Base, Contained, ActiveReqs
  <2> QED
    BY <1>4, <2>1 DEF ProcessCancellations, Fails
<1>5. CASE CancelIncoming
  <2>1. cancelIds \cap Range(deque) \subseteq Accepted
    BY DEF Base, Contained
  <2> QED
    BY <1>5, <2>1 DEF CancelIncoming, Fails
<1>6. CASE CancelPending
  <2> DEFINE gone == IF WaveReqs(pending) \cap cancelIds # {} THEN pending ELSE <<>>
  <2>1. WaveReqs(gone) \cap cancelIds \subseteq Accepted
    <3>1. WaveReqs(<<>>) = {}
      BY DEF WaveReqs
    <3> QED
      BY <3>1 DEF Base, Contained
  <2>2. FailAll(WaveReqs(gone) \cap cancelIds) /\ UNCHANGED <<cpc, stop>>
    BY <1>6 DEF CancelPending
  <2> QED
    BY <2>1, <2>2 DEF Fails
<1>7. CASE PrefillSkip \/ PrefillMore \/ PrefillDone \/ AdmitSkip \/ Admit
  BY <1>7 DEF PrefillSkip, PrefillMore, PrefillDone, AdmitSkip, Admit
<1>8. CASE PrefillRaises
  BY <1>8 DEF PrefillRaises, Fails, Base, Contained
<1>9. CASE AdmitResetRaises
  <2>1. PICK a \in Assignments(Len(Selected)) :
               FailWave([i \in 1..Len(Selected) |-> [slot |-> a[i], req |-> Selected[i]]], "reset")
    BY <1>9 DEF AdmitResetRaises
  <2> DEFINE w == [i \in 1..Len(Selected) |-> [slot |-> a[i], req |-> Selected[i]]]
  <2>2. Selected \in Seq(Requests) /\ Range(Selected) \subseteq Accepted
    BY SelectedFacts DEF Base, TypeOK, Contained
  <2>3. Len(w) = Len(Selected)
    BY <2>2
  <2>4. WaveReqs(w) \subseteq Accepted
    <3>1. \A i \in 1..Len(Selected) : w[i].req = Selected[i] /\ Selected[i] \in Range(Selected)
      BY <2>2 DEF Range
    <3> HIDE DEF w
    <3> QED
      BY <2>2, <2>3, <3>1 DEF WaveReqs
  <2>5. FailAll(WaveReqs(w)) /\ UNCHANGED <<cpc, stop>>
    BY <1>9, <2>1 DEF FailWave, AdmitResetRaises
  <2> QED
    BY <2>4, <2>5 DEF Fails
<1>10. CASE BeginRaises
  BY <1>10 DEF BeginRaises, FailWave, Fails, Base, Contained
<1>11. CASE BeginPending \/ BeginDone \/ ActivateStay \/ ActivateRaises \/ ActivateEnd
  BY <1>11 DEF BeginPending, BeginDone, ActivateStay, ActivateRaises, ActivateEnd
<1>12. CASE ActivateFinish \/ ActivateFinishRaises
  <2>1. widx \in 1..Len(wave)
    BY <1>12 DEF ActivateFinish, ActivateFinishRaises, Base, TypeOK
  <2>2. wave[widx].req \in Accepted
    BY <2>1 DEF Base, Contained, WaveReqs
  <2>3. Resolve(wave[widx].req) /\ UNCHANGED <<cpc, stop>>
    BY <1>12 DEF ActivateFinish, ActivateFinishRaises, FinishRequest, FinishRequestRaises
  <2> QED
    BY <2>2, <2>3 DEF Resolves
<1>13. CASE IdleBlock \/ IdleRetry \/ Wake \/ ToDecode \/ DecodeBegin \/ DecodeRaises
            \/ VerifyBegin \/ VerifyRaises \/ MtpEnd
  BY <1>13 DEF IdleBlock, IdleRetry, Wake, ToDecode, DecodeBegin, DecodeRaises, VerifyBegin,
               VerifyRaises, MtpEnd
<1>14. CASE \E s \in Slots : CommitTokens(s) \/ CommitNothing(s)
  BY <1>14 DEF CommitTokens, CommitNothing
<1>15. CASE \E s \in Slots : FinishSlot(s) \/ FinishSlotRaises(s)
  <2>1. PICK s \in Slots : FinishSlot(s) \/ FinishSlotRaises(s)
    BY <1>15
  <2>2. s \in ActiveSlots
    BY <2>1 DEF FinishSlot, FinishSlotRaises, Base, Phases
  <2>3. active[s] \in Accepted
    BY <2>2 DEF Base, Contained, ActiveReqs
  <2>4. Resolve(active[s]) /\ UNCHANGED <<cpc, stop>>
    BY <2>1 DEF FinishSlot, FinishSlotRaises, FinishRequest, FinishRequestRaises
  <2> QED
    BY <2>3, <2>4 DEF Resolves
<1>16. CASE Reap
  <2>1. PICK out \in SUBSET ActiveSlots : FailAll({active[s] : s \in out})
    BY <1>16 DEF Reap
  <2>2. {active[s] : s \in out} \subseteq Accepted
    BY <2>1 DEF Base, Contained, ActiveReqs
  <2>3. UNCHANGED <<cpc, stop>>
    BY <1>16 DEF Reap
  <2> QED
    BY <2>1, <2>2, <2>3 DEF Fails
<1>17. CASE Recover \/ RecoverFatal \/ Exit
  <2>1. /\ ActiveReqs \cup WaveReqs(pending) \cup Queued \subseteq Accepted
        /\ WaveReqs(pending) \cup Queued \subseteq Accepted
    BY DEF Base, Contained, Queued
  <2>2. CASE Recover
    BY <2>1, <2>2 DEF Recover, Fails
  <2>3. CASE RecoverFatal
    BY <2>1, <2>3 DEF RecoverFatal, FailsDown
  <2>4. CASE Exit
    BY <2>1, <2>4 DEF Exit, Fails
  <2> QED
    BY <1>17, <2>2, <2>3, <2>4
<1> QED
  BY <1>1, <1>2, <1>3, <1>4, <1>5, <1>6, <1>7, <1>8, <1>9, <1>10, <1>11, <1>12, <1>13,
     <1>14, <1>15, <1>16, <1>17 DEF Next, Engine

(* Releasing accepted requests, however many of them were released before, *)
(* takes exactly the newly released ones off the count.                    *)
LEMMA ReleaseFacts ==
  ASSUME Base, NEW R, R \subseteq Accepted, Release(R), UNCHANGED cpc,
         Released' = Released \cup R
  PROVE  BudgetExact' /\ count' \in Nat
<1> DEFINE U == Accepted \ Released
           V == U \ R
<1>1. IsFiniteSet(Requests) /\ MaxPending \in Nat
  BY ConstantsAssumption
<1>2. U \in SUBSET Requests /\ R \ Released = U \cap R
  BY DEF Accepted
<1>3. (Accepted \ Released)' = V
  BY DEF Accepted
<1>4. count = Cardinality(U) /\ count <= MaxPending
  BY DEF Base, BudgetExact
<1>5. count' = count - Cardinality(U \cap R)
  BY <1>2 DEF Release
<1> HIDE DEF U, V
<1>6. IsFiniteSet(U)
  BY <1>1, <1>2, FS_Subset
<1>7. IsFiniteSet(V) /\ Cardinality(V) = Cardinality(U) - Cardinality(U \cap R)
  BY <1>6, FS_Difference DEF V
<1>8. IsFiniteSet(U \cap R)
  BY <1>6, FS_Intersection
<1>9. Cardinality(V) \in Nat /\ Cardinality(U) \in Nat /\ Cardinality(U \cap R) \in Nat
  BY <1>6, <1>7, <1>8, FS_CardinalityType
<1>10. count' = Cardinality(V) /\ count' <= MaxPending
  BY <1>1, <1>4, <1>5, <1>7, <1>9
<1> QED
  BY <1>3, <1>9, <1>10 DEF BudgetExact

(* Failing requests: a request that has a result keeps it. *)
LEMMA FailAllFacts ==
  ASSUME Base, NEW R, R \subseteq Accepted, FailAll(R), UNCHANGED cpc
  PROVE  Answered' /\ BudgetExact' /\ count' \in Nat /\ Released' = Released \cup R
<1>1. Released' = Released \cup R /\ Release(R)
  BY DEF FailAll, Released
<1>2. Accepted' = Accepted
  BY DEF Accepted
<1>3. Answered'
  BY <1>1, <1>2 DEF Base, Answered, FailAll
<1> QED
  BY <1>1, <1>3, ReleaseFacts

(* Resolving a request: one that has an error keeps it. *)
LEMMA ResolveFacts ==
  ASSUME Base, NEW r \in Accepted, Resolve(r), UNCHANGED cpc
  PROVE  Answered' /\ BudgetExact' /\ count' \in Nat /\ Released' = Released \cup {r}
<1>1. Released' = Released \cup {r} /\ Release({r})
  BY DEF Resolve, Released
<1>2. Accepted' = Accepted
  BY DEF Accepted
<1>3. Answered'
  BY <1>1, <1>2 DEF Base, Answered, Resolve
<1> QED
  BY <1>1, <1>3, ReleaseFacts

(* Accepting a request that had not been accepted. *)
LEMMA AcceptFacts ==
  ASSUME Base, NEW r \in Requests, cpc[r] = "checked", count < MaxPending,
         cpc' = [cpc EXCEPT ![r] = "in"], count' = count + 1, UNCHANGED <<served, failed>>
  PROVE  /\ Answered' /\ BudgetExact' /\ count' \in Nat
         /\ Accepted' = Accepted \cup {r} /\ r \notin Accepted
<1> DEFINE U == Accepted \ Released
<1>1. IsFiniteSet(Requests) /\ MaxPending \in Nat
  BY ConstantsAssumption
<1>2. cpc \in [Requests -> {"new", "checked", "in", "left", "rejected"}]
  BY DEF Base, TypeOK
<1>3. r \notin Accepted /\ Accepted' = Accepted \cup {r}
  BY <1>2 DEF Accepted
<1>4. Released' = Released
  BY DEF Released
<1>5. Answered'
  BY <1>3, <1>4 DEF Base, Answered
<1>6. U \in SUBSET Requests /\ r \notin U /\ count = Cardinality(U) /\ count \in Nat
  BY <1>3 DEF Accepted, Base, TypeOK, BudgetExact
<1>7. (Accepted \ Released)' = U \cup {r}
  BY <1>3, <1>4 DEF Base, Answered
<1> HIDE DEF U
<1>8. IsFiniteSet(U)
  BY <1>1, <1>6, FS_Subset
<1>9. Cardinality(U \cup {r}) = count + 1
  BY <1>6, <1>8, FS_AddElement
<1>10. count' \in Nat /\ count' <= MaxPending /\ count' = Cardinality(U \cup {r})
  BY <1>1, <1>6, <1>9
<1>11. BudgetExact'
  BY <1>7, <1>10 DEF BudgetExact
<1> QED
  BY <1>3, <1>5, <1>10, <1>11

(* The accounts stay exact. *)
LEMMA AccountStep ==
  ASSUME Base, Next
  PROVE  Answered' /\ BudgetExact' /\ count' \in Nat
<1>1. count \in Nat /\ MaxPending \in Nat /\ cpc \in [Requests -> {"new", "checked", "in", "left", "rejected"}]
  BY ConstantsAssumption DEF Base, TypeOK
<1>2. ASSUME Accepted' = Accepted, UNCHANGED doneVars
      PROVE  Answered' /\ BudgetExact' /\ count' \in Nat
  <2>1. Released' = Released /\ count' = count /\ served' = served /\ failed' = failed
    BY <1>2 DEF doneVars, Released
  <2> QED
    BY <1>1, <1>2, <2>1 DEF Base, Answered, BudgetExact
<1>3. ASSUME NEW r \in Requests, SubmitCheck(r) PROVE Answered' /\ BudgetExact' /\ count' \in Nat
  <2>1. Accepted' = Accepted /\ UNCHANGED doneVars
    BY <1>1, <1>3 DEF SubmitCheck, Accepted
  <2> QED
    BY <1>2, <2>1
<1>4. ASSUME NEW r \in Requests, Disconnect(r) PROVE Answered' /\ BudgetExact' /\ count' \in Nat
  <2>1. Accepted' = Accepted /\ UNCHANGED doneVars
    BY <1>1, <1>4 DEF Disconnect, Accepted
  <2> QED
    BY <1>2, <2>1
<1>5. ASSUME NEW r \in Requests, SubmitEnqueue(r) PROVE Answered' /\ BudgetExact' /\ count' \in Nat
  <2>1. CASE count >= MaxPending
    <3>1. Accepted' = Accepted /\ UNCHANGED doneVars
      BY <1>1, <1>5, <2>1 DEF SubmitEnqueue, Accepted, doneVars
    <3> QED
      BY <1>2, <3>1
  <2>2. CASE ~ (count >= MaxPending)
    <3>1. count < MaxPending
      BY <1>1, <2>2
    <3> QED
      BY <1>5, <2>2, <3>1, AcceptFacts DEF SubmitEnqueue
  <2> QED
    BY <2>1, <2>2
<1>6. CASE Stop \/ Silent
  <2>1. Accepted' = Accepted /\ UNCHANGED doneVars
    BY <1>6 DEF Stop, Silent, Accepted
  <2> QED
    BY <1>2, <2>1
<1>7. CASE Fails \/ FailsDown
  BY <1>7, FailAllFacts DEF Fails, FailsDown
<1>8. CASE Resolves
  BY <1>8, ResolveFacts DEF Resolves
<1> QED
  BY <1>3, <1>4, <1>5, <1>6, <1>7, <1>8, StepKinds DEF Client

-----------------------------------------------------------------------------
(* Admission and resets, in a form the proofs can use *)

(* The wave of an admission: k of the selected requests on slots a[1..k],  *)
(* the others back in front of waiting.                                    *)
Admits(sel, k, a) ==
  /\ sel = Selected /\ k = FitCount(sel)
  /\ a \in [1..Len(sel) -> Slots]
  /\ \A s \in Slots : Cardinality({i \in 1..Len(sel) : a[i] = s}) <= free[s]
  /\ wave' = [i \in 1..k |-> [slot |-> a[i], req |-> sel[i]]]
  /\ widx' = 1
  /\ free' = [s \in Slots |-> free[s] - Cardinality({i \in 1..k : a[i] = s})]
  /\ content' = [s \in Slots |-> (IF s \in Range(a) THEN {} ELSE content[s])
                                   \cup {sel[i] : i \in {i \in 1..k : a[i] = s}}]
  /\ reserved' = [s \in Slots |->
       IF {i \in 1..k : a[i] = s} # {} THEN Total(NeedOf(sel), {i \in 1..k : a[i] = s})
       ELSE IF s \in Range(a) THEN 0 ELSE reserved[s]]
  /\ waiting' = SubSeq(sel, k + 1, Len(sel)) \o PassedOver
  /\ backoff' \in {backoff, Backoff}
  /\ inflight' = (inflight \cup KeysOf(Range(sel))) \ KeysOf(Range(SubSeq(sel, k + 1, Len(sel))))
  /\ epc' = IF k = 0 THEN "idle" ELSE "begin"

(* Admit is such an admission. *)
LEMMA AdmitShape ==
  ASSUME Admit
  PROVE  \E a : Admits(Selected, FitCount(Selected), a)
<1> DEFINE sel == Selected
           n == Len(sel)
           k == FitCount(sel)
           Body(a) ==
             /\ wave' = [i \in 1..k |-> [slot |-> a[i], req |-> sel[i]]]
             /\ widx' = 1
             /\ free' = [s \in Slots |-> free[s] - Cardinality({i \in 1..k : a[i] = s})]
             /\ content' = [s \in Slots |-> (IF s \in Range(a) THEN {} ELSE content[s])
                               \cup {sel[i] : i \in {i \in 1..k : a[i] = s}}]
             /\ reserved' = [s \in Slots |->
                  IF {i \in 1..k : a[i] = s} # {} THEN Total(NeedOf(sel), {i \in 1..k : a[i] = s})
                  ELSE IF s \in Range(a) THEN 0 ELSE reserved[s]]
             /\ waiting' = SubSeq(sel, k + 1, n) \o PassedOver
             /\ backoff' = IF k < n THEN Backoff ELSE backoff
             /\ inflight' = (inflight \cup KeysOf(Range(sel))) \ KeysOf(Range(SubSeq(sel, k + 1, n)))
             /\ epc' = IF k = 0 THEN "idle" ELSE "begin"
<1>1. \E a \in Assignments(n) : Body(a)
  BY Zenon DEF Admit, ResetBeforeUse
<1>2. PICK a \in Assignments(n) : Body(a)
  BY <1>1, Zenon
<1>3. backoff' \in {backoff, Backoff}
  BY <1>2, Zenon
<1>4. /\ a \in [1..n -> Slots]
      /\ \A s \in Slots : Cardinality({i \in 1..n : a[i] = s}) <= free[s]
  BY Zenon DEF Assignments
<1>5. Admits(sel, k, a)
  BY <1>2, <1>3, <1>4, Zenon DEF Admits
<1> QED
  BY <1>5, Zenon

(* What an admission leaves is well formed, and its promises are covered. *)
LEMMA AdmitFacts ==
  ASSUME Base, NEW a, Admits(Selected, FitCount(Selected), a)
  PROVE  /\ Selected \in Seq(Requests) /\ Len(Selected) \in Nat
         /\ FitCount(Selected) \in 0..Len(Selected)
         /\ wave' \in Seq(Entry) /\ Len(wave') = FitCount(Selected)
         /\ \A i \in 1..FitCount(Selected) :
              wave'[i] = [slot |-> a[i], req |-> Selected[i]] /\ a[i] \in Slots
         /\ free' \in [Slots -> Nat] /\ content' \in [Slots -> SUBSET Requests]
         /\ reserved' \in [Slots -> Nat] /\ waiting' \in Seq(Requests) /\ backoff' \in Nat
         /\ Range(waiting') = Range(SubSeq(Selected, FitCount(Selected) + 1, Len(Selected)))
                                \cup Range(PassedOver)
         /\ \A x \in Range(SubSeq(Selected, FitCount(Selected) + 1, Len(Selected))) :
              \E i \in (FitCount(Selected) + 1)..Len(Selected) : x = Selected[i]
         /\ WaveReqs(wave') \subseteq Range(waiting) /\ Range(waiting') \subseteq Range(waiting)
         /\ PagesCovered'
<1> DEFINE sel == Selected
           n == Len(sel)
           k == FitCount(sel)
           tail == SubSeq(sel, k + 1, n)
           used(s) == {i \in 1..k : a[i] = s}
<1>1. /\ waiting \in Seq(Requests) /\ free \in [Slots -> Nat] /\ reserved \in [Slots -> Nat]
      /\ content \in [Slots -> SUBSET Requests] /\ backoff \in Nat
      /\ Backoff \in Nat /\ IsFiniteSet(Slots) /\ ReservedPages <= KvPages /\ KvPages \in Nat
  BY ConstantsAssumption DEF Base, TypeOK, PagesCovered
<1>2. /\ sel \in Seq(Requests) /\ PassedOver \in Seq(Requests) /\ n \in Nat
      /\ Range(sel) \cup Range(PassedOver) = Range(waiting)
  BY <1>1, SelectedFacts
<1>3. k \in 0..n /\ ReservedPages + Total(NeedOf(sel), 1..k) <= KvPages
  BY <1>1, <1>2, FitCountFacts
<1>4. k \in Nat /\ k <= n /\ a \in [1..n -> Slots]
  BY <1>2, <1>3 DEF Admits
<1>5. \A i \in 1..k : i \in 1..n /\ a[i] \in Slots /\ sel[i] \in Requests /\ sel[i] \in Range(sel)
  <2>1. \A i \in 1..k : i \in 1..n
    BY <1>2, <1>4
  <2> QED
    BY <1>2, <1>4, <2>1 DEF Range
<1>6. wave' = [i \in 1..k |-> [slot |-> a[i], req |-> sel[i]]]
  BY DEF Admits
<1> HIDE DEF sel, n, k, tail
<1>7. /\ wave' \in Seq(Entry) /\ Len(wave') = k
      /\ \A i \in 1..k : wave'[i] = [slot |-> a[i], req |-> sel[i]]
  <2>1. \A i \in 1..k : [slot |-> a[i], req |-> sel[i]] \in Entry
    BY <1>5 DEF Entry
  <2> QED
    BY <1>4, <1>6, <2>1
<1>8. /\ tail \in Seq(Requests)
      /\ \A x \in Range(tail) : \E i \in (k + 1)..n : x = sel[i]
      /\ Range(tail) \subseteq Range(sel)
  <2>1. /\ tail \in Seq(Requests)
        /\ \A x \in Range(tail) : \E i \in (k + 1)..n : x = sel[i]
    BY <1>2, <1>3, TailFacts DEF tail, n
  <2>2. \A i \in (k + 1)..n : i \in 1..n
    BY <1>2, <1>4
  <2>3. \A i \in 1..n : sel[i] \in Range(sel)
    BY <1>2 DEF n, Range
  <2> QED
    BY <2>1, <2>2, <2>3
<1>9. waiting' = tail \o PassedOver
  BY DEF Admits, tail, n, k, sel
<1>10. waiting' \in Seq(Requests) /\ Range(waiting') = Range(tail) \cup Range(PassedOver)
  BY <1>2, <1>8, <1>9, RangeOfConcat
<1>11. backoff' \in Nat
  BY <1>1 DEF Admits
<1>12. WaveReqs(wave') \subseteq Range(waiting)
  <2>1. \A i \in 1..k : wave'[i].req = sel[i]
    BY <1>7
  <2> QED
    BY <1>2, <1>5, <1>7, <2>1 DEF WaveReqs
<1>13. ASSUME NEW s \in Slots
       PROVE  /\ IsFiniteSet(used(s)) /\ used(s) \subseteq 1..k
              /\ Cardinality(used(s)) \in Nat /\ Cardinality(used(s)) <= free[s]
  <2> DEFINE all == {i \in 1..n : a[i] = s}
  <2>1. IsFiniteSet(1..n)
    BY <1>2, FS_Interval
  <2>2. all \in SUBSET (1..n) /\ used(s) \in SUBSET all
    BY <1>5
  <2>3. Cardinality(all) <= free[s] /\ free[s] \in Nat
    BY <1>1 DEF Admits, n, sel
  <2>4. used(s) \subseteq 1..k
    OBVIOUS
  <2> HIDE DEF all, used
  <2>5. IsFiniteSet(all)
    BY <2>1, <2>2, FS_Subset
  <2>6. IsFiniteSet(used(s)) /\ Cardinality(used(s)) <= Cardinality(all)
    BY <2>2, <2>5, FS_Subset
  <2>7. Cardinality(used(s)) \in Nat /\ Cardinality(all) \in Nat
    BY <2>5, <2>6, FS_CardinalityType
  <2> QED
    BY <2>3, <2>4, <2>6, <2>7
<1>14. free' \in [Slots -> Nat]
  <2>1. free' = [s \in Slots |-> free[s] - Cardinality(used(s))]
    BY DEF Admits, k, sel
  <2>2. \A s \in Slots : free[s] - Cardinality(used(s)) \in Nat
    <3> HIDE DEF used
    <3> QED
      BY <1>1, <1>13
  <2> HIDE DEF used
  <2> QED
    BY <2>1, <2>2
<1>15. content' = [s \in Slots |-> (IF s \in Range(a) THEN {} ELSE content[s])
                                     \cup {sel[i] : i \in used(s)}]
  BY DEF Admits, k, sel
<1>16. content' \in [Slots -> SUBSET Requests]
  <2>1. ASSUME NEW s \in Slots
        PROVE  (IF s \in Range(a) THEN {} ELSE content[s]) \cup {sel[i] : i \in used(s)}
                 \in SUBSET Requests
    <3>1. {sel[i] : i \in used(s)} \subseteq Requests
      BY <1>5
    <3> QED
      BY <1>1, <3>1
  <2> HIDE DEF used
  <2> QED
    BY <1>15, <2>1
<1>17. reserved' = [s \in Slots |->
         IF used(s) # {} THEN Total(NeedOf(sel), used(s))
         ELSE IF s \in Range(a) THEN 0 ELSE reserved[s]]
  BY DEF Admits, k, sel
<1>18. \A i \in 1..n : NeedOf(sel)[i] \in Nat
  BY <1>2, NeedFacts DEF n
<1>19. ASSUME NEW s \in Slots PROVE Total(NeedOf(sel), used(s)) \in Nat
  <2>1. \A i \in used(s) : NeedOf(sel)[i] \in Nat
    BY <1>5, <1>18
  <2> HIDE DEF used
  <2> QED
    BY <1>13, <2>1, TotalIsNat
<1> DEFINE U == [s \in Slots |-> used(s)]
<1>20. /\ reserved' \in [Slots -> Nat]
       /\ \A s \in Slots : used(s) # {} => reserved'[s] = Total(NeedOf(sel), used(s))
       /\ \A s \in Slots : used(s) = {} => reserved'[s] <= reserved[s]
       /\ \A s \in Slots : used(s) = {} /\ reserved'[s] > 0
                              => reserved'[s] = reserved[s] /\ s \notin Range(a)
  <2> HIDE DEF used
  <2> QED
    BY <1>1, <1>17, <1>19
<1>21. ReservedPages' <= KvPages
  <2>1. /\ \A s \in Slots : reserved[s] \in Nat /\ reserved'[s] \in Nat
        /\ \A i \in 1..k : NeedOf(sel)[i] \in Nat
    BY <1>1, <1>5, <1>18, <1>20
  <2>2. \A s \in Slots : U[s] = used(s)
    OBVIOUS
  <2>3. \A s \in Slots : used(s) \subseteq 1..k /\ \A i \in used(s) : a[i] = s
    OBVIOUS
  <2> HIDE DEF used, U
  <2>4. \A s \in Slots : U[s] \subseteq 1..k /\ \A i \in U[s] : a[i] = s
    BY <2>2, <2>3
  <2>5. \A s \in Slots : U[s] # {} => reserved'[s] = Total(NeedOf(sel), U[s])
    BY <1>20, <2>2
  <2>6. \A s \in Slots : U[s] = {} => reserved'[s] <= reserved[s]
    BY <1>20, <2>2
  <2>7. Total(reserved', Slots) <= Total(reserved, Slots) + Total(NeedOf(sel), 1..k)
    <3>1. HandsOut(Slots, k, reserved, reserved', NeedOf(sel), a, U)
      BY <2>1, <2>4, <2>5, <2>6 DEF HandsOut
    <3> QED
      BY <1>1, <1>4, <3>1, TotalHandedOut
  <2>8. Total(reserved', Slots) \in Nat /\ Total(reserved, Slots) \in Nat
    BY <1>1, <2>1, TotalIsNat
  <2>9. Total(NeedOf(sel), 1..k) \in Nat
    <3>1. IsFiniteSet(1..k)
      BY <1>4, FS_Interval
    <3> QED
      BY <2>1, <3>1, TotalIsNat
  <2>10. Total(reserved, Slots) + Total(NeedOf(sel), 1..k) <= KvPages
    BY <1>3 DEF ReservedPages
  <2>11. Total(reserved', Slots) <= KvPages
    BY <1>1, <2>7, <2>8, <2>9, <2>10
  <2> QED
    BY <2>11 DEF ReservedPages
<1>22. ASSUME NEW s \in Slots, reserved'[s] > 0 PROVE content'[s] # {}
  <2>1. content'[s] = (IF s \in Range(a) THEN {} ELSE content[s]) \cup {sel[i] : i \in used(s)}
    BY <1>15
  <2>2. CASE used(s) # {}
    <3>1. PICK i \in used(s) : TRUE
      BY <2>2
    <3> QED
      BY <2>1, <3>1
  <2>3. CASE used(s) = {}
    <3>1. reserved[s] > 0 /\ s \notin Range(a)
      <4> HIDE DEF used
      <4> QED
        BY <1>20, <1>22, <2>3
    <3>2. content[s] # {}
      BY <3>1 DEF Base, PagesCovered
    <3> QED
      BY <2>1, <3>1, <3>2
  <2> QED
    BY <2>2, <2>3
<1>23. PagesCovered'
  BY <1>21, <1>22 DEF PagesCovered
<1> QED
  BY <1>2, <1>3, <1>5, <1>7, <1>8, <1>10, <1>11, <1>12, <1>14, <1>16, <1>20, <1>23
     DEF sel, n, k, tail

(* Resets keep promises covered. *)
LEMMA ResetFacts ==
  ASSUME Base, NEW ok, ResetSlots(ok)
  PROVE  /\ content' \in [Slots -> SUBSET Requests] /\ reserved' \in [Slots -> Nat]
         /\ PagesCovered'
<1>1. /\ reserved \in [Slots -> Nat] /\ content \in [Slots -> SUBSET Requests]
      /\ IsFiniteSet(Slots) /\ KvPages \in Nat /\ ReservedPages <= KvPages
  BY ConstantsAssumption DEF Base, TypeOK, PagesCovered
<1>2. /\ content' \in [Slots -> SUBSET Requests] /\ reserved' \in [Slots -> Nat]
      /\ \A s \in Slots : reserved'[s] <= reserved[s]
      /\ \A s \in Slots : reserved'[s] > 0 => reserved'[s] = reserved[s] /\ content'[s] = content[s]
  BY <1>1 DEF ResetSlots
<1>3. Total(reserved', Slots) <= Total(reserved, Slots)
  <2>1. \A s \in Slots : reserved[s] \in Nat
    BY <1>1
  <2>2. \A s \in Slots : reserved'[s] \in Nat /\ reserved'[s] <= reserved[s]
    BY <1>2
  <2> QED
    BY <1>1, <2>1, <2>2, TotalMonotone
<1>4. Total(reserved', Slots) \in Nat /\ Total(reserved, Slots) \in Nat
  <2>1. \A s \in Slots : reserved[s] \in Nat /\ reserved'[s] \in Nat
    BY <1>1, <1>2
  <2> QED
    BY <1>1, <2>1, TotalIsNat
<1>5. ReservedPages' <= KvPages
  BY <1>1, <1>3, <1>4 DEF ReservedPages
<1> QED
  BY <1>2, <1>5 DEF PagesCovered, Base

(* The same when a finish gives its pages back and then raises. *)
LEMMA GiveBackFacts ==
  ASSUME Base, NEW s \in Slots, reserved' = [reserved EXCEPT ![s] = 0], content' = content
  PROVE  reserved' \in [Slots -> Nat] /\ PagesCovered'
<1>1. /\ reserved \in [Slots -> Nat] /\ IsFiniteSet(Slots) /\ KvPages \in Nat
      /\ ReservedPages <= KvPages
  BY ConstantsAssumption DEF Base, TypeOK, PagesCovered
<1>2. /\ reserved' \in [Slots -> Nat]
      /\ \A u \in Slots : reserved'[u] <= reserved[u]
      /\ \A u \in Slots : reserved'[u] > 0 => reserved'[u] = reserved[u]
  BY <1>1
<1>3. \A u \in Slots : reserved[u] \in Nat /\ reserved'[u] \in Nat
  BY <1>1, <1>2
<1>4. Total(reserved', Slots) <= Total(reserved, Slots)
  BY <1>1, <1>2, <1>3, TotalMonotone
<1>5. Total(reserved', Slots) \in Nat /\ Total(reserved, Slots) \in Nat
  BY <1>1, <1>3, TotalIsNat
<1>6. ReservedPages' <= KvPages
  BY <1>1, <1>4, <1>5 DEF ReservedPages
<1> QED
  BY <1>2, <1>6 DEF PagesCovered, Base

(* Slots as multiplicities. *)
LEMMA FreeFacts ==
  ASSUME NEW f \in [Slots -> Nat], NEW S
  PROVE  /\ Append1(f, S) \in [Slots -> Nat] /\ AppendNew(f, S) \in [Slots -> Nat]
         /\ \A s \in Slots : /\ Append1(f, S)[s] = IF s \in S THEN f[s] + 1 ELSE f[s]
                             /\ AppendNew(f, S)[s] = IF s \in S /\ f[s] = 0 THEN 1 ELSE f[s]
  BY DEF Append1, AppendNew

(* Appending to the free slots keeps their type. *)
LEMMA FreeTypes ==
  ASSUME NEW f \in [Slots -> Nat], NEW S
  PROVE  Append1(f, S) \in [Slots -> Nat] /\ AppendNew(f, S) \in [Slots -> Nat]
  BY FreeFacts

(* Appending the slots of a wave: those it names once count once more. *)
LEMMA EachFacts ==
  ASSUME NEW f \in [Slots -> Nat], NEW w \in Seq(Entry)
  PROVE  /\ AppendEach(f, w) \in [Slots -> Nat]
         /\ \A s \in Slots :
              (\A i, j \in 1..Len(w) : w[i].slot = s /\ w[j].slot = s => i = j) =>
                AppendEach(f, w)[s] = IF s \in WaveSlots(w) THEN f[s] + 1 ELSE f[s]
<1> DEFINE At(s) == {i \in 1..Len(w) : w[i].slot = s}
<1>1. \A s \in Slots : AppendEach(f, w)[s] = f[s] + Cardinality(At(s))
  BY DEF AppendEach
<1>2. AppendEach(f, w) = [s \in Slots |-> f[s] + Cardinality(At(s))]
  BY DEF AppendEach
<1>3. \A s \in Slots : Cardinality(At(s)) \in Nat
  <2> TAKE s \in Slots
  <2>1. IsFiniteSet(1..Len(w))
    BY FS_Interval
  <2>2. IsFiniteSet(At(s))
    BY <2>1, FS_Subset
  <2> QED
    BY <2>2, FS_CardinalityType
<1>4. ASSUME NEW s \in Slots, \A i, j \in 1..Len(w) : w[i].slot = s /\ w[j].slot = s => i = j
      PROVE  Cardinality(At(s)) = IF s \in WaveSlots(w) THEN 1 ELSE 0
  <2>1. CASE s \in WaveSlots(w)
    <3>1. PICK i \in 1..Len(w) : w[i].slot = s
      BY <2>1 DEF WaveSlots
    <3>2. At(s) = {i}
      BY <1>4, <3>1
    <3> QED
      BY <2>1, <3>2, FS_Singleton
  <2>2. CASE s \notin WaveSlots(w)
    <3>1. At(s) = {}
      BY <2>2 DEF WaveSlots
    <3> QED
      BY <2>2, <3>1, FS_EmptySet
  <2> QED
    BY <2>1, <2>2
<1> HIDE DEF At
<1> QED
  BY <1>1, <1>2, <1>3, <1>4

(* Promises stay covered. *)
LEMMA PagesStep ==
  ASSUME Base, Next
  PROVE  PagesCovered' /\ content' \in [Slots -> SUBSET Requests] /\ reserved' \in [Slots -> Nat]
<1>1. content \in [Slots -> SUBSET Requests] /\ reserved \in [Slots -> Nat]
  BY DEF Base, TypeOK
<1>2. ASSUME UNCHANGED <<content, reserved>>
      PROVE  PagesCovered' /\ content' \in [Slots -> SUBSET Requests]
                           /\ reserved' \in [Slots -> Nat]
  BY <1>1, <1>2 DEF Base, PagesCovered, ReservedPages
<1> USE DEF slotVars, engineVars
<1>3. CASE Client \/ Stop
  BY <1>2, <1>3 DEF Client, Stop, SubmitCheck, SubmitEnqueue, Disconnect
<1>4. CASE RoundBegin \/ CoalesceOff \/ CoalesceBegin \/ CoalesceDrain \/ CoalesceEnd
           \/ CancelIncoming \/ PrefillSkip \/ PrefillMore \/ PrefillDone \/ AdmitSkip
           \/ BeginPending \/ BeginDone \/ ActivateStay \/ ActivateRaises \/ ActivateEnd
  <2>1. UNCHANGED <<content, reserved>>
    BY <1>4 DEF RoundBegin, CoalesceOff, CoalesceBegin, CoalesceDrain, CoalesceEnd,
                CancelIncoming, PrefillSkip, PrefillMore, PrefillDone, AdmitSkip,
                BeginPending, BeginDone, ActivateStay, ActivateRaises, ActivateEnd
  <2> QED
    BY <1>2, <2>1
<1>5. CASE IdleBlock \/ IdleRetry \/ Wake \/ ToDecode \/ DecodeBegin \/ DecodeRaises
           \/ VerifyBegin \/ VerifyRaises \/ MtpEnd \/ RecoverFatal
           \/ \E s \in Slots : CommitTokens(s) \/ CommitNothing(s)
  <2>1. UNCHANGED <<content, reserved>>
    BY <1>5 DEF IdleBlock, IdleRetry, Wake, ToDecode, DecodeBegin, DecodeRaises, VerifyBegin,
                VerifyRaises, MtpEnd, RecoverFatal, CommitTokens, CommitNothing
  <2> QED
    BY <1>2, <2>1
<1>6. CASE ProcessCancellations \/ CancelPending \/ Reap \/ Recover \/ Exit
  <2>1. \E ok : ResetSlots(ok)
    BY <1>6 DEF ProcessCancellations, CancelPending, Reap, Recover, Exit
  <2> QED
    BY <2>1, ResetFacts
<1>7. CASE PrefillRaises \/ AdmitResetRaises \/ BeginRaises
  <2>1. (\E ok : ResetSlots(ok)) \/ UNCHANGED <<content, reserved>>
    BY <1>7, Zenon DEF PrefillRaises, AdmitResetRaises, BeginRaises, FailWave
  <2> QED
    BY <1>2, <2>1, ResetFacts
<1>8. CASE Admit
  BY <1>8, AdmitShape, AdmitFacts
<1>9. CASE ActivateFinish \/ \E s \in Slots : FinishSlot(s)
  <2>1. \E ok : ResetSlots(ok)
    BY <1>9 DEF ActivateFinish, FinishSlot, FinishRequest
  <2> QED
    BY <2>1, ResetFacts
<1>10. CASE ActivateFinishRaises
  <2>1. widx \in 1..Len(wave) /\ wave \in Seq(Entry)
    BY <1>10 DEF ActivateFinishRaises, Base, TypeOK
  <2>2. wave[widx].slot \in Slots
    BY <2>1, WaveFacts
  <2> QED
    BY <1>1, <1>10, <2>2, GiveBackFacts DEF ActivateFinishRaises, FinishRequestRaises
<1>11. CASE \E s \in Slots : FinishSlotRaises(s)
  BY <1>1, <1>11, GiveBackFacts DEF FinishSlotRaises, FinishRequestRaises
<1> QED
  BY <1>3, <1>4, <1>5, <1>6, <1>7, <1>8, <1>9, <1>10, <1>11 DEF Next, Engine

-----------------------------------------------------------------------------
(* Types *)

(* The part of the type invariant that the accounts and the pages leave. *)
QueueTypes ==
  /\ deque \in Seq(Requests) /\ waiting \in Seq(Requests) /\ incoming \in Seq(Requests)
  /\ cancelSet \subseteq Requests /\ cancelIds \subseteq Requests
  /\ cpc \in [Requests -> {"new", "checked", "in", "left", "rejected"}]
  /\ stop \in {"no", "yes"}

RoundTypes ==
  /\ epc \in EnginePC
  /\ pending \in Seq(Entry) /\ wave \in Seq(Entry) /\ widx \in Nat \ {0}
  /\ finished \subseteq Slots /\ todo \subseteq Slots /\ mtp \subseteq Slots
  /\ backoff \in Nat

SlotTypes ==
  /\ active \in [Slots -> Requests \cup {NoReq}]
  /\ free \in [Slots -> Nat]
  /\ tok \in [Slots -> Nat] /\ stale \in [Slots -> Nat]

(* The requeued members of a wave are requests of the wave. *)
LEMMA RequeueFacts ==
  ASSUME pending \in Seq(Entry), NEW C
  PROVE  /\ RequeueMembers(C) \in Seq(Requests)
         /\ Range(RequeueMembers(C)) = WaveReqs(pending) \ C
         /\ IsInjective(Reqs(pending)) => IsInjective(RequeueMembers(C))
<1>1. Reqs(pending) \in Seq(Requests) /\ Range(Reqs(pending)) = WaveReqs(pending)
  BY WaveFacts
<1>2. /\ Drop(Reqs(pending), C) \in Seq(Requests)
      /\ Range(Drop(Reqs(pending), C)) = WaveReqs(pending) \ C
      /\ IsInjective(Reqs(pending)) => IsInjective(Drop(Reqs(pending), C))
  BY <1>1, DropFacts
<1> QED
  BY <1>2, ReversedFacts DEF RequeueMembers

(* The queues hold requests. *)
LEMMA QueueTypesStep ==
  ASSUME Base, Next
  PROVE  QueueTypes'
<1>1. QueueTypes /\ pending \in Seq(Entry)
  BY DEF Base, TypeOK, QueueTypes
<1>2. <<>> \in Seq(Requests) /\ waiting \o deque \in Seq(Requests)
  BY <1>1, RangeOfConcat DEF QueueTypes
<1> USE DEF clientVars, queueVars, passVars, engineVars
<1>3. CASE Client
  <2>1. PICK r \in Requests : SubmitCheck(r) \/ SubmitEnqueue(r) \/ Disconnect(r)
    BY <1>3 DEF Client
  <2>2. Append(deque, r) \in Seq(Requests)
    BY <1>1 DEF QueueTypes
  <2> QED
    BY <1>1, <2>1, <2>2 DEF SubmitCheck, SubmitEnqueue, Disconnect, QueueTypes
<1>4. CASE Stop
  BY <1>1, <1>4 DEF Stop, QueueTypes
<1>5. CASE RoundBegin \/ CoalesceOff \/ CoalesceBegin \/ CoalesceDrain \/ CoalesceEnd
           \/ IdleBlock \/ Wake
  BY <1>1, <1>2, <1>5 DEF RoundBegin, CoalesceOff, CoalesceBegin, CoalesceDrain, CoalesceEnd,
                          IdleBlock, Wake, QueueTypes
<1>6. CASE ProcessCancellations
  <2>1. Drop(waiting, cancelSet) \in Seq(Requests)
    BY <1>1, DropFacts DEF QueueTypes
  <2> QED
    BY <1>1, <1>6, <2>1 DEF ProcessCancellations, QueueTypes
<1>7. CASE CancelIncoming
  <2>1. Drop(deque, cancelIds) \in Seq(Requests)
    BY <1>1, DropFacts DEF QueueTypes
  <2> QED
    BY <1>1, <1>2, <1>7, <2>1 DEF CancelIncoming, QueueTypes
<1>8. CASE CancelPending
  <2>1. RequeueMembers(cancelIds) \in Seq(Requests)
    BY <1>1, RequeueFacts
  <2>2. RequeueMembers(cancelIds) \o waiting \in Seq(Requests) /\ deque \o incoming \in Seq(Requests)
    BY <1>1, <2>1, RangeOfConcat DEF QueueTypes
  <2> QED
    BY <1>1, <1>2, <1>8, <2>2 DEF CancelPending, ExtendDeque, QueueTypes
<1>9. CASE PrefillSkip \/ PrefillMore \/ PrefillDone \/ PrefillRaises \/ AdmitSkip
           \/ BeginPending \/ BeginDone \/ BeginRaises \/ ActivateStay \/ ActivateFinish
           \/ ActivateFinishRaises \/ ActivateRaises \/ ActivateEnd
  BY <1>1, <1>9 DEF PrefillSkip, PrefillMore, PrefillDone, PrefillRaises, AdmitSkip,
                    BeginPending, BeginDone, BeginRaises, ActivateStay, ActivateFinish,
                    ActivateFinishRaises, ActivateRaises, ActivateEnd, QueueTypes
<1>10. CASE Admit
  <2>1. waiting' \in Seq(Requests)
    BY <1>10, AdmitShape, AdmitFacts
  <2> QED
    BY <1>1, <1>10, <2>1 DEF Admit, QueueTypes
<1>11. CASE AdmitResetRaises
  <2>1. PassedOver \in Seq(Requests)
    BY <1>1, SelectedFacts DEF QueueTypes
  <2> QED
    BY <1>1, <1>11, <2>1 DEF AdmitResetRaises, QueueTypes
<1>12. CASE IdleRetry \/ ToDecode \/ DecodeBegin \/ DecodeRaises \/ VerifyBegin \/ VerifyRaises
            \/ MtpEnd \/ Reap
            \/ \E s \in Slots : CommitTokens(s) \/ CommitNothing(s) \/ FinishSlot(s)
                                  \/ FinishSlotRaises(s)
  BY <1>1, <1>12 DEF IdleRetry, ToDecode, DecodeBegin, DecodeRaises, VerifyBegin, VerifyRaises,
                     MtpEnd, Reap, CommitTokens, CommitNothing, FinishSlot, FinishSlotRaises,
                     QueueTypes
<1>13. CASE Recover \/ RecoverFatal \/ Exit
  BY <1>1, <1>2, <1>13 DEF Recover, RecoverFatal, Exit, ClearPending, QueueTypes
<1> QED
  BY <1>3, <1>4, <1>5, <1>6, <1>7, <1>8, <1>9, <1>10, <1>11, <1>12, <1>13 DEF Next, Engine

(* The variables of a round are well formed. *)
LEMMA RoundTypesStep ==
  ASSUME Base, Next
  PROVE  RoundTypes'
<1>1. /\ RoundTypes /\ Backoff \in Nat
      /\ ActiveSlots \subseteq Slots /\ <<>> \in Seq(Entry)
  BY ConstantsAssumption DEF Base, TypeOK, RoundTypes, ActiveSlots
<1> USE DEF roundVars, waveVars, engineVars, EnginePC
<1>2. CASE Client \/ Stop
  BY <1>1, <1>2 DEF Client, Stop, SubmitCheck, SubmitEnqueue, Disconnect, RoundTypes
<1>3. CASE RoundBegin \/ CoalesceOff \/ CoalesceBegin \/ CoalesceDrain \/ CoalesceEnd
           \/ IdleBlock \/ Wake
  BY <1>1, <1>3 DEF RoundBegin, CoalesceOff, CoalesceBegin, CoalesceDrain, CoalesceEnd,
                    IdleBlock, Wake, RoundTypes
<1>4. CASE ProcessCancellations \/ CancelIncoming \/ CancelPending
  <2>1. CASE ProcessCancellations
    BY <1>1, <2>1 DEF ProcessCancellations, RoundTypes
  <2>2. CASE CancelIncoming
    BY <1>1, <2>2 DEF CancelIncoming, RoundTypes
  <2>3. CASE CancelPending
    <3>1. pending' \in {pending, <<>>}
      BY <2>3 DEF CancelPending
    <3> QED
      BY <1>1, <2>3, <3>1 DEF CancelPending, RoundTypes
  <2> QED
    BY <1>4, <2>1, <2>2, <2>3
<1>5. CASE PrefillSkip \/ PrefillMore \/ PrefillDone \/ PrefillRaises \/ AdmitSkip
  <2>1. CASE PrefillSkip \/ PrefillMore \/ PrefillDone \/ AdmitSkip
    BY <1>1, <2>1 DEF PrefillSkip, PrefillMore, PrefillDone, AdmitSkip, RoundTypes
  <2>2. CASE PrefillRaises
    <3>1. epc' \in {"admit", "recoverFatal"}
      BY <2>2 DEF PrefillRaises
    <3> QED
      BY <1>1, <2>2, <3>1 DEF PrefillRaises, RoundTypes
  <2> QED
    BY <1>5, <2>1, <2>2
<1>6. CASE Admit
  <2>1. PICK a : Admits(Selected, FitCount(Selected), a)
    BY <1>6, AdmitShape
  <2>2. wave' \in Seq(Entry) /\ backoff' \in Nat
    BY <2>1, AdmitFacts
  <2>3. widx' = 1 /\ epc' \in {"idle", "begin"}
    BY <2>1 DEF Admits
  <2> QED
    BY <1>1, <1>6, <2>2, <2>3 DEF Admit, RoundTypes
<1>7. CASE AdmitResetRaises \/ BeginPending \/ BeginDone \/ BeginRaises
  <2>1. CASE AdmitResetRaises
    BY <1>1, <2>1 DEF AdmitResetRaises, FailWave, RoundTypes
  <2>2. CASE BeginPending \/ BeginDone \/ BeginRaises
    BY <1>1, <2>2 DEF BeginPending, BeginDone, BeginRaises, FailWave, RoundTypes
  <2> QED
    BY <1>7, <2>1, <2>2
<1>8. CASE ActivateStay \/ ActivateFinish \/ ActivateFinishRaises \/ ActivateRaises \/ ActivateEnd
  <2>1. CASE ActivateStay \/ ActivateEnd
    <3>1. CASE ActivateStay
      BY <1>1, <3>1 DEF ActivateStay, Activating, RoundTypes
    <3>2. CASE ActivateEnd
      BY <1>1, <3>2 DEF ActivateEnd, RoundTypes
    <3> QED
      BY <2>1, <3>1, <3>2
  <2>2. CASE ActivateFinish
    BY <1>1, <2>2 DEF ActivateFinish, FinishRequest, RoundTypes
  <2>3. CASE ActivateFinishRaises
    BY <1>1, <2>3 DEF ActivateFinishRaises, FinishRequestRaises, Raise, RoundTypes
  <2>4. CASE ActivateRaises
    BY <1>1, <2>4 DEF ActivateRaises, Raise, RoundTypes
  <2> QED
    BY <1>8, <2>1, <2>2, <2>3, <2>4
<1>9. CASE IdleRetry \/ ToDecode \/ DecodeBegin \/ DecodeRaises \/ VerifyBegin \/ VerifyRaises
           \/ MtpEnd
  BY <1>1, <1>9 DEF IdleRetry, ToDecode, DecodeBegin, DecodeRaises, VerifyBegin, VerifyRaises,
                    MtpEnd, CountRound, PlainSlots, Raise, RoundTypes
<1>10. CASE \E s \in Slots : CommitTokens(s) \/ CommitNothing(s) \/ FinishSlot(s)
                               \/ FinishSlotRaises(s)
  BY <1>1, <1>10 DEF CommitTokens, CommitNothing, FinishSlot, FinishSlotRaises,
                     FinishRequest, FinishRequestRaises, Raise, RoundTypes
<1>11. CASE Reap \/ Recover \/ RecoverFatal \/ Exit
  BY <1>1, <1>11 DEF Reap, Recover, RecoverFatal, Exit, ClearPending, ClearRound, RoundTypes
<1> QED
  BY <1>2, <1>3, <1>4, <1>5, <1>6, <1>7, <1>8, <1>9, <1>10, <1>11 DEF Next, Engine

(* The tables of the slots are well formed. *)
LEMMA SlotTypesStep ==
  ASSUME Base, Next
  PROVE  SlotTypes'
<1>1. SlotTypes /\ MaxTokens \in Nat /\ wave \in Seq(Entry)
  BY ConstantsAssumption DEF Base, TypeOK, SlotTypes
<1>0. free \in [Slots -> Nat]
  BY <1>1 DEF SlotTypes
<1> USE DEF slotVars, engineVars
<1>2. CASE Client \/ Stop
  BY <1>1, <1>2 DEF Client, Stop, SubmitCheck, SubmitEnqueue, Disconnect, SlotTypes
<1>3. CASE RoundBegin \/ CoalesceOff \/ CoalesceBegin \/ CoalesceDrain \/ CoalesceEnd
           \/ IdleBlock \/ Wake \/ CancelIncoming \/ PrefillSkip \/ PrefillMore \/ PrefillDone
           \/ AdmitSkip \/ AdmitResetRaises \/ BeginPending \/ BeginDone \/ ActivateRaises
           \/ ActivateEnd \/ IdleRetry \/ ToDecode \/ VerifyBegin \/ VerifyRaises \/ MtpEnd
  <2>1. UNCHANGED <<active, free, tok, stale>>
    BY <1>3 DEF RoundBegin, CoalesceOff, CoalesceBegin, CoalesceDrain, CoalesceEnd,
                IdleBlock, Wake, CancelIncoming, PrefillSkip, PrefillMore, PrefillDone,
                AdmitSkip, AdmitResetRaises, BeginPending, BeginDone, ActivateRaises,
                ActivateEnd, IdleRetry, ToDecode, VerifyBegin, VerifyRaises, MtpEnd
  <2> QED
    BY <1>1, <2>1 DEF SlotTypes
<1>4. CASE ProcessCancellations \/ CancelPending \/ PrefillRaises \/ BeginRaises
  <2>1. free' \in [Slots -> Nat]
    <3>1. \/ \E S : free' = Append1(free, S) \/ free' = AppendNew(free, S)
          \/ free' = AppendEach(free, pending) \/ free' = AppendEach(free, wave)
      BY <1>4, Zenon DEF ProcessCancellations, CancelPending, PrefillRaises, BeginRaises
    <3>2. AppendEach(free, pending) \in [Slots -> Nat] /\ AppendEach(free, wave) \in [Slots -> Nat]
      BY <1>0, EachFacts DEF Base, TypeOK
    <3> QED
      BY <1>0, <3>1, <3>2, FreeTypes, Zenon
  <2>2. CASE ProcessCancellations
    BY <1>1, <2>1, <2>2 DEF ProcessCancellations, SlotTypes
  <2>3. CASE CancelPending \/ PrefillRaises \/ BeginRaises
    BY <1>1, <2>1, <2>3 DEF CancelPending, PrefillRaises, BeginRaises, SlotTypes
  <2> QED
    BY <1>4, <2>2, <2>3
<1>5. CASE Admit
  <2>1. free' \in [Slots -> Nat]
    BY <1>5, AdmitShape, AdmitFacts
  <2> QED
    BY <1>1, <1>5, <2>1 DEF Admit, SlotTypes
<1>6. CASE ActivateStay \/ ActivateFinish \/ ActivateFinishRaises
  <2>1. widx \in 1..Len(wave)
    BY <1>6 DEF ActivateStay, ActivateFinish, ActivateFinishRaises, Base, TypeOK
  <2>2. wave[widx].slot \in Slots /\ wave[widx].req \in Requests
    BY <1>1, <2>1, WaveFacts
  <2> QED
    <3>1. CASE ActivateStay
      BY <1>1, <2>2, <3>1 DEF ActivateStay, SlotTypes
    <3>2. CASE ActivateFinish
      BY <1>1, <3>2, FreeFacts DEF ActivateFinish, FinishRequest, SlotTypes
    <3>3. CASE ActivateFinishRaises
      BY <1>1, <2>2, <3>3 DEF ActivateFinishRaises, FinishRequestRaises, SlotTypes
    <3> QED
      BY <1>6, <3>1, <3>2, <3>3
<1>7. CASE DecodeBegin \/ DecodeRaises
  <2>1. stale' \in [Slots -> Nat]
    BY <1>1, <1>7 DEF DecodeBegin, DecodeRaises, CountRound, SlotTypes
  <2> QED
    BY <1>1, <1>7, <2>1 DEF DecodeBegin, DecodeRaises, SlotTypes
<1>8. CASE \E s \in Slots : CommitTokens(s)
  <2>1. PICK s \in Slots : CommitTokens(s)
    BY <1>8
  <2>2. PICK n \in 1..MaxTokens \cup {1} : tok' = [tok EXCEPT ![s] = tok[s] + n]
    BY <2>1 DEF CommitTokens
  <2>3. tok[s] + n \in Nat
    BY <1>1, <2>2 DEF SlotTypes
  <2> QED
    BY <1>1, <2>1, <2>2, <2>3 DEF CommitTokens, SlotTypes
<1>9. CASE \E s \in Slots : CommitNothing(s) \/ FinishSlot(s) \/ FinishSlotRaises(s)
  <2>1. PICK s \in Slots : CommitNothing(s) \/ FinishSlot(s) \/ FinishSlotRaises(s)
    BY <1>9
  <2>2. UNCHANGED <<tok, stale>>
    BY <2>1 DEF CommitNothing, FinishSlot, FinishSlotRaises
  <2>3. free' = free \/ free' = Append1(free, {s})
    BY <2>1 DEF CommitNothing, FinishSlot, FinishSlotRaises, FinishRequest, FinishRequestRaises
  <2>4. free' \in [Slots -> Nat]
    BY <1>0, <2>3, FreeTypes
  <2> QED
    BY <1>1, <2>1, <2>2, <2>4 DEF SlotTypes, CommitNothing, FinishSlot, FinishSlotRaises
<1>10. CASE Reap \/ Recover \/ RecoverFatal \/ Exit
  <2>1. free' \in [Slots -> Nat]
    <3>1. \/ \E S : free' = Append1(free, S) \/ free' = AppendNew(free, S)
          \/ \E S, T : free' = AppendNew(Append1(free, S), T)
      BY <1>10, Zenon DEF Reap, Recover, RecoverFatal, Exit
    <3>2. CASE \E S : free' = Append1(free, S) \/ free' = AppendNew(free, S)
      BY <1>0, <3>2, FreeTypes
    <3>3. CASE \E S, T : free' = AppendNew(Append1(free, S), T)
      <4>1. PICK S, T : free' = AppendNew(Append1(free, S), T)
        BY <3>3
      <4>2. Append1(free, S) \in [Slots -> Nat]
        BY <1>0, FreeTypes
      <4> QED
        BY <4>1, <4>2, FreeTypes
    <3> QED
      BY <3>1, <3>2, <3>3
  <2>2. CASE Reap
    BY <1>1, <2>1, <2>2 DEF Reap, SlotTypes
  <2>3. CASE Recover \/ RecoverFatal
    BY <1>1, <2>1, <2>3 DEF Recover, RecoverFatal, ClearRound, SlotTypes
  <2>4. CASE Exit
    BY <1>1, <2>1, <2>4 DEF Exit, SlotTypes
  <2> QED
    BY <1>10, <2>2, <2>3, <2>4
<1> QED
  BY <1>2, <1>3, <1>4, <1>5, <1>6, <1>7, <1>8, <1>9, <1>10 DEF Next, Engine

(* The steps that lose something. *)
LEMMA LossSteps ==
  ASSUME Next
  PROVE  UNCHANGED lossVars \/ ActivateStay \/ ActivateFinishRaises \/ ActivateRaises \/ Recover
<1> USE DEF lossVars, engineVars
<1>1. CASE Client \/ Stop
  BY <1>1 DEF Client, Stop, SubmitCheck, SubmitEnqueue, Disconnect
<1>2. CASE RoundBegin \/ CoalesceOff \/ CoalesceBegin \/ CoalesceDrain \/ CoalesceEnd
           \/ ProcessCancellations \/ CancelIncoming \/ CancelPending
           \/ PrefillSkip \/ PrefillMore \/ PrefillDone \/ PrefillRaises
  BY <1>2 DEF RoundBegin, CoalesceOff, CoalesceBegin, CoalesceDrain, CoalesceEnd,
              ProcessCancellations, CancelIncoming, CancelPending,
              PrefillSkip, PrefillMore, PrefillDone, PrefillRaises
<1>3. CASE AdmitSkip \/ Admit \/ AdmitResetRaises \/ BeginPending \/ BeginDone \/ BeginRaises
           \/ ActivateFinish \/ ActivateEnd \/ IdleBlock \/ IdleRetry \/ Wake \/ ToDecode
  BY <1>3 DEF AdmitSkip, Admit, AdmitResetRaises, BeginPending, BeginDone, BeginRaises,
              ActivateFinish, ActivateEnd, IdleBlock, IdleRetry, Wake, ToDecode
<1>4. CASE DecodeBegin \/ DecodeRaises \/ VerifyBegin \/ VerifyRaises \/ MtpEnd \/ Reap
           \/ RecoverFatal \/ Exit
  BY <1>4 DEF DecodeBegin, DecodeRaises, VerifyBegin, VerifyRaises, MtpEnd, Reap,
              RecoverFatal, Exit
<1>5. CASE \E s \in Slots : CommitTokens(s) \/ CommitNothing(s) \/ FinishSlot(s) \/ FinishSlotRaises(s)
  BY <1>5 DEF CommitTokens, CommitNothing, FinishSlot, FinishSlotRaises
<1> QED
  BY <1>1, <1>2, <1>3, <1>4, <1>5 DEF Next, Engine

LossTypes == harmed \subseteq Slots /\ stray \subseteq Requests

(* What an exception loses are slots and requests. *)
LEMMA LossTypesStep ==
  ASSUME Base, Next
  PROVE  LossTypes'
<1>1. /\ LossTypes /\ wave \in Seq(Entry) /\ active \in [Slots -> Requests \cup {NoReq}]
  BY DEF Base, TypeOK, LossTypes
<1>2. SlotsAt(WaveRest) \subseteq Slots /\ ReqsAt(WaveRest) \subseteq Requests
  BY <1>1, WaveFacts DEF SlotsAt, ReqsAt, WaveRest
<1>3. CASE UNCHANGED lossVars
  BY <1>1, <1>3 DEF lossVars, LossTypes
<1>4. CASE ActivateStay \/ ActivateFinishRaises
  <2>1. widx \in 1..Len(wave)
    BY <1>4 DEF ActivateStay, ActivateFinishRaises, Base, TypeOK
  <2>2. wave[widx].slot \in Slots
    BY <1>1, <2>1, WaveFacts
  <2>3. Overwritten(wave[widx].slot) \subseteq Requests
    BY <1>1, <2>2 DEF Overwritten
  <2>4. CASE ActivateStay
    BY <1>1, <2>3, <2>4 DEF ActivateStay, LossTypes
  <2>5. CASE ActivateFinishRaises
    <3>1. \A I \in SUBSET WaveRest : SlotsAt(I) \subseteq Slots /\ ReqsAt(I) \subseteq Requests
      BY <1>2 DEF SlotsAt, ReqsAt
    <3>2. Forgotten \in SUBSET WaveRest /\ Forgotten \ {widx} \in SUBSET WaveRest
      BY DEF Forgotten
    <3>3. SlotsAt(Forgotten) \subseteq Slots /\ SlotsAt(Forgotten \ {widx}) \subseteq Slots
          /\ ReqsAt(Forgotten \ {widx}) \subseteq Requests
      BY <3>1, <3>2
    <3>4. /\ harmed' \subseteq harmed \cup SlotsAt(Forgotten) \cup SlotsAt(Forgotten \ {widx})
          /\ stray' \subseteq stray \cup ReqsAt(Forgotten \ {widx}) \cup Overwritten(wave[widx].slot)
      BY <2>5 DEF ActivateFinishRaises
    <3> QED
      BY <1>1, <2>3, <3>3, <3>4 DEF LossTypes
  <2> QED
    BY <1>4, <2>4, <2>5
<1>5. CASE ActivateRaises
  <2>1. SlotsAt(Forgotten) \subseteq SlotsAt(WaveRest) /\ ReqsAt(Forgotten) \subseteq ReqsAt(WaveRest)
    BY DEF Forgotten, SlotsAt, ReqsAt
  <2> QED
    BY <1>1, <1>2, <1>5, <2>1 DEF ActivateRaises, LossTypes
<1>6. CASE Recover
  BY <1>1, <1>6 DEF Recover, ActiveSlots, LossTypes
<1> QED
  BY <1>3, <1>4, <1>5, <1>6, LossSteps

(* Nothing that is lost is found again. *)
LEMMA LossGrows ==
  ASSUME Next
  PROVE  harmed \subseteq harmed' /\ stray \subseteq stray'
<1>1. CASE UNCHANGED lossVars
  BY <1>1 DEF lossVars
<1>2. CASE ActivateStay \/ ActivateFinishRaises \/ ActivateRaises \/ Recover
  BY <1>2 DEF ActivateStay, ActivateFinishRaises, ActivateRaises, Recover
<1> QED
  BY <1>1, <1>2, LossSteps

(* Types are kept. *)
LEMMA TypesStep ==
  ASSUME Base, Next
  PROVE  TypeOK'
<1>1. served' \subseteq Requests /\ failed' \subseteq Requests /\ count' \in Nat
  BY AccountStep DEF Answered, Released, Accepted
<1> QED
  BY <1>1, PagesStep, QueueTypesStep, RoundTypesStep, SlotTypesStep, LossTypesStep
     DEF TypeOK, QueueTypes, RoundTypes, SlotTypes, LossTypes

-----------------------------------------------------------------------------
(* Containers and phases *)

(* An accepted request stays accepted. *)
LEMMA AcceptedGrows ==
  ASSUME Base, Next
  PROVE  Accepted \subseteq Accepted'
<1>1. cpc \in [Requests -> {"new", "checked", "in", "left", "rejected"}]
  BY DEF Base, TypeOK
<1>2. CASE UNCHANGED cpc
  BY <1>2 DEF Accepted
<1>3. CASE Client
  BY <1>1, <1>3 DEF Client, SubmitCheck, SubmitEnqueue, Disconnect, Accepted
<1> QED
  BY <1>2, <1>3, StepKinds DEF Stop, Silent, Fails, FailsDown, Resolves

(* The queues hold accepted requests only. *)
LEMMA QueuesContained ==
  ASSUME Base, Next
  PROVE  /\ Range(deque)' \subseteq Accepted' /\ Range(incoming)' \subseteq Accepted'
         /\ Range(waiting)' \subseteq Accepted'
<1>1. /\ deque \in Seq(Requests) /\ waiting \in Seq(Requests) /\ incoming \in Seq(Requests)
      /\ pending \in Seq(Entry)
  BY DEF Base, TypeOK
<1>2. /\ Range(deque) \subseteq Accepted' /\ Range(incoming) \subseteq Accepted'
      /\ Range(waiting) \subseteq Accepted' /\ WaveReqs(pending) \subseteq Accepted'
  BY AcceptedGrows DEF Base, Contained
<1>3. Range(<<>>) = {}
  BY EmptyRange
<1>4. Range(waiting \o deque) = Range(waiting) \cup Range(deque)
  BY <1>1, RangeOfConcat
<1> USE DEF queueVars, passVars, engineVars
<1>5. CASE Client
  <2>1. PICK r \in Requests : SubmitCheck(r) \/ SubmitEnqueue(r) \/ Disconnect(r)
    BY <1>5 DEF Client
  <2>2. CASE UNCHANGED deque
    <3>1. UNCHANGED <<deque, incoming, waiting>>
      BY <2>1, <2>2 DEF SubmitCheck, SubmitEnqueue, Disconnect
    <3> QED
      BY <1>2, <3>1
  <2>3. CASE SubmitEnqueue(r) /\ ~ (count >= MaxPending)
    <3>1. deque' = Append(deque, r) /\ cpc' = [cpc EXCEPT ![r] = "in"] /\ UNCHANGED <<incoming, waiting>>
      BY <2>3 DEF SubmitEnqueue
    <3>2. Range(deque') = Range(deque) \cup {r}
      BY <1>1, <3>1, RangeOfAppend
    <3>3. r \in Accepted'
      BY <3>1 DEF Accepted, Base, TypeOK
    <3> QED
      BY <1>2, <3>1, <3>2, <3>3
  <2> QED
    BY <2>1, <2>2, <2>3 DEF SubmitCheck, SubmitEnqueue, Disconnect
<1>6. CASE Stop
  BY <1>2, <1>6 DEF Stop
<1>7. CASE RoundBegin \/ CoalesceOff \/ CoalesceBegin \/ CoalesceDrain \/ CoalesceEnd
           \/ IdleBlock \/ Wake
  <2>1. /\ UNCHANGED incoming
        /\ \/ UNCHANGED <<deque, waiting>>
           \/ deque' = <<>> /\ waiting' \in {deque, waiting \o deque}
    BY <1>7 DEF RoundBegin, CoalesceOff, CoalesceBegin, CoalesceDrain, CoalesceEnd,
                IdleBlock, Wake
  <2> QED
    BY <1>2, <1>3, <1>4, <2>1
<1>8. CASE ProcessCancellations
  <2>1. Range(Drop(waiting, cancelSet)) \subseteq Range(waiting)
    BY <1>1, DropFacts
  <2>2. waiting' = Drop(waiting, cancelSet) /\ UNCHANGED <<deque, incoming>>
    BY <1>8 DEF ProcessCancellations
  <2> QED
    BY <1>2, <2>1, <2>2
<1>9. CASE CancelIncoming
  <2>1. Range(Drop(deque, cancelIds)) \subseteq Range(deque)
    BY <1>1, DropFacts
  <2>2. incoming' = Drop(deque, cancelIds) /\ deque' = <<>> /\ UNCHANGED waiting
    BY <1>9 DEF CancelIncoming
  <2> QED
    BY <1>2, <1>3, <2>1, <2>2
<1>10. CASE CancelPending
  <2>1. /\ RequeueMembers(cancelIds) \in Seq(Requests)
        /\ Range(RequeueMembers(cancelIds)) \subseteq WaveReqs(pending)
    BY <1>1, RequeueFacts
  <2>2. /\ Range(RequeueMembers(cancelIds) \o waiting)
             = Range(RequeueMembers(cancelIds)) \cup Range(waiting)
        /\ Range(deque \o incoming) = Range(deque) \cup Range(incoming)
    BY <1>1, <2>1, RangeOfConcat
  <2>3. /\ waiting' \in {waiting, RequeueMembers(cancelIds) \o waiting}
        /\ deque' = deque \o incoming /\ incoming' = <<>>
    BY <1>10 DEF CancelPending, ExtendDeque
  <2> QED
    BY <1>2, <1>3, <2>1, <2>2, <2>3
<1>11. CASE PrefillSkip \/ PrefillMore \/ PrefillDone \/ PrefillRaises \/ AdmitSkip
            \/ BeginPending \/ BeginDone \/ BeginRaises \/ ActivateStay \/ ActivateFinish
            \/ ActivateFinishRaises \/ ActivateRaises \/ ActivateEnd \/ IdleRetry \/ ToDecode
            \/ DecodeBegin \/ DecodeRaises \/ VerifyBegin \/ VerifyRaises \/ MtpEnd \/ Reap
            \/ \E s \in Slots : CommitTokens(s) \/ CommitNothing(s) \/ FinishSlot(s)
                                  \/ FinishSlotRaises(s)
  <2>1. UNCHANGED <<deque, incoming, waiting>>
    BY <1>11 DEF PrefillSkip, PrefillMore, PrefillDone, PrefillRaises, AdmitSkip,
                 BeginPending, BeginDone, BeginRaises, ActivateStay, ActivateFinish,
                 ActivateFinishRaises, ActivateRaises, ActivateEnd, IdleRetry, ToDecode,
                 DecodeBegin, DecodeRaises, VerifyBegin, VerifyRaises, MtpEnd, Reap,
                 CommitTokens, CommitNothing, FinishSlot, FinishSlotRaises
  <2> QED
    BY <1>2, <2>1
<1>12. CASE Admit
  <2>1. Range(waiting') \subseteq Range(waiting)
    BY <1>12, AdmitShape, AdmitFacts
  <2>2. UNCHANGED <<deque, incoming>>
    BY <1>12 DEF Admit
  <2> QED
    BY <1>2, <2>1, <2>2
<1>13. CASE AdmitResetRaises
  <2>1. Range(PassedOver) \subseteq Range(waiting)
    BY <1>1, SelectedFacts
  <2>2. waiting' = PassedOver /\ UNCHANGED <<deque, incoming>>
    BY <1>13 DEF AdmitResetRaises
  <2> QED
    BY <1>2, <2>1, <2>2
<1>14. CASE Recover \/ RecoverFatal \/ Exit
  <2>1. deque' = <<>> /\ waiting' = <<>> /\ UNCHANGED incoming
    BY <1>14 DEF Recover, RecoverFatal, Exit, ClearPending
  <2> QED
    BY <1>2, <1>3, <2>1
<1> QED
  BY <1>5, <1>6, <1>7, <1>8, <1>9, <1>10, <1>11, <1>12, <1>13, <1>14 DEF Next, Engine

(* Waves and slots hold accepted requests only. *)
LEMMA SlotsContained ==
  ASSUME Base, Next
  PROVE  /\ ActiveReqs' \subseteq Accepted'
         /\ WaveReqs(wave') \subseteq Accepted' /\ WaveReqs(pending') \subseteq Accepted'
<1>1. /\ wave \in Seq(Entry) /\ active \in [Slots -> Requests \cup {NoReq}]
      /\ NoReq \notin Requests
  BY ConstantsAssumption DEF Base, TypeOK
<1>2. /\ Range(waiting) \subseteq Accepted' /\ ActiveReqs \subseteq Accepted'
      /\ WaveReqs(wave) \subseteq Accepted' /\ WaveReqs(pending) \subseteq Accepted'
  BY AcceptedGrows DEF Base, Contained
<1>3. WaveReqs(<<>>) = {}
  BY DEF WaveReqs
<1>4. ASSUME \A s \in Slots : active'[s] \in {active[s], NoReq}
      PROVE  ActiveReqs' \subseteq Accepted'
  <2>1. ActiveReqs' \subseteq ActiveReqs
    BY <1>4 DEF ActiveReqs, ActiveSlots
  <2> QED
    BY <1>2, <2>1
<1>5. ASSUME UNCHANGED active PROVE ActiveReqs' \subseteq Accepted'
  <2>1. ActiveReqs' = ActiveReqs
    BY <1>5 DEF ActiveReqs, ActiveSlots
  <2> QED
    BY <1>2, <2>1
<1> USE DEF slotVars, waveVars, engineVars
<1>6. CASE Client \/ Stop
  <2>1. UNCHANGED <<active, wave, pending>>
    BY <1>6 DEF Client, Stop, SubmitCheck, SubmitEnqueue, Disconnect
  <2> QED
    BY <1>2, <1>5, <2>1
<1>7. CASE RoundBegin \/ CoalesceOff \/ CoalesceBegin \/ CoalesceDrain \/ CoalesceEnd
           \/ IdleBlock \/ Wake \/ CancelIncoming \/ PrefillSkip \/ PrefillMore \/ PrefillDone
           \/ AdmitSkip \/ AdmitResetRaises \/ BeginDone \/ IdleRetry \/ ToDecode
           \/ DecodeBegin \/ DecodeRaises \/ VerifyBegin \/ VerifyRaises \/ MtpEnd
           \/ \E s \in Slots : CommitTokens(s) \/ CommitNothing(s) \/ FinishSlot(s)
                                 \/ FinishSlotRaises(s)
  <2>1. UNCHANGED <<active, pending>> /\ wave' \in {wave, pending}
    BY <1>7 DEF RoundBegin, CoalesceOff, CoalesceBegin, CoalesceDrain, CoalesceEnd,
                IdleBlock, Wake, CancelIncoming, PrefillSkip, PrefillMore, PrefillDone,
                AdmitSkip, AdmitResetRaises, BeginDone, IdleRetry, ToDecode, DecodeBegin,
                DecodeRaises, VerifyBegin, VerifyRaises, MtpEnd, CommitTokens, CommitNothing,
                FinishSlot, FinishSlotRaises
  <2> QED
    BY <1>2, <1>5, <2>1
<1>8. CASE CancelPending \/ PrefillRaises \/ BeginPending \/ BeginRaises \/ ActivateRaises
           \/ ActivateEnd \/ ActivateFinish \/ Exit
  <2>1. /\ UNCHANGED active /\ wave' \in {wave, <<>>} /\ pending' \in {wave, pending, <<>>}
    BY <1>8 DEF CancelPending, PrefillRaises, BeginPending, BeginRaises, ActivateRaises,
                ActivateEnd, ActivateFinish, Exit, ClearPending
  <2> QED
    BY <1>2, <1>3, <1>5, <2>1
<1>9. CASE ProcessCancellations \/ Reap \/ Recover \/ RecoverFatal
  <2>1. \A s \in Slots : active'[s] \in {active[s], NoReq}
    <3>1. CASE ProcessCancellations
      BY <3>1 DEF ProcessCancellations
    <3>2. CASE Reap
      BY <3>2 DEF Reap
    <3>3. CASE Recover \/ RecoverFatal
      BY <3>3 DEF Recover, RecoverFatal, ClearRound
    <3> QED
      BY <1>9, <3>1, <3>2, <3>3
  <2>2. UNCHANGED wave /\ pending' \in {pending, <<>>}
    BY <1>9 DEF ProcessCancellations, Reap, Recover, RecoverFatal, ClearPending
  <2> QED
    BY <1>2, <1>3, <1>4, <2>1, <2>2
<1>10. CASE Admit
  <2>1. WaveReqs(wave') \subseteq Range(waiting)
    BY <1>10, AdmitShape, AdmitFacts
  <2>2. UNCHANGED <<active, pending>>
    BY <1>10 DEF Admit
  <2> QED
    BY <1>2, <1>5, <2>1, <2>2
<1>11. CASE ActivateStay \/ ActivateFinishRaises
  <2>1. widx \in 1..Len(wave)
    BY <1>11 DEF ActivateStay, ActivateFinishRaises, Base, TypeOK
  <2>2. wave[widx].slot \in Slots /\ wave[widx].req \in Requests
    BY <1>1, <2>1, WaveFacts
  <2>3. wave[widx].req \in Accepted'
    BY <1>2, <2>1 DEF WaveReqs
  <2>4. active' \in {active, [active EXCEPT ![wave[widx].slot] = wave[widx].req]}
    BY <1>11 DEF ActivateStay, ActivateFinishRaises
  <2>5. ActiveReqs' \subseteq ActiveReqs \cup {wave[widx].req}
    BY <1>1, <2>2, <2>4 DEF ActiveReqs, ActiveSlots
  <2>6. wave' \in {wave, <<>>} /\ UNCHANGED pending
    BY <1>11 DEF ActivateStay, ActivateFinishRaises
  <2> QED
    BY <1>2, <1>3, <2>3, <2>5, <2>6
<1> QED
  BY <1>6, <1>7, <1>8, <1>9, <1>10, <1>11 DEF Next, Engine

(* Containers hold accepted requests only. *)
LEMMA ContainedStep ==
  ASSUME Base, Next
  PROVE  Contained'
  BY QueuesContained, SlotsContained DEF Contained

(* Phases are kept. *)
LEMMA PhasesStep ==
  ASSUME Base, Next
  PROVE  Phases'
<1>1. /\ TypeOK /\ Phases
  BY DEF Base
<1> USE DEF clientVars, passVars, queueVars, slotVars, roundVars, waveVars, engineVars,
            ActiveSlots, Phases
<1>2. CASE Client \/ Stop
  <2>1. UNCHANGED <<epc, wave, pending, widx, finished, incoming, todo, mtp, active>>
    BY <1>2 DEF Client, Stop, SubmitCheck, SubmitEnqueue, Disconnect
  <2> QED
    BY <1>1, <2>1
<1>3. CASE RoundBegin \/ CoalesceOff \/ CoalesceBegin \/ CoalesceDrain \/ CoalesceEnd
           \/ IdleBlock \/ Wake
  BY <1>1, <1>3 DEF RoundBegin, CoalesceOff, CoalesceBegin, CoalesceDrain, CoalesceEnd,
                    IdleBlock, Wake
<1>4. CASE ProcessCancellations
  <2>1. finished = {} /\ wave = <<>> /\ incoming = <<>>
    BY <1>1, <1>4 DEF ProcessCancellations
  <2> QED
    BY <1>4, <2>1 DEF ProcessCancellations
<1>5. CASE CancelIncoming
  BY <1>1, <1>5 DEF CancelIncoming
<1>6. CASE CancelPending
  BY <1>1, <1>6 DEF CancelPending
<1>7. CASE PrefillSkip \/ PrefillMore \/ PrefillDone \/ AdmitSkip
  BY <1>1, <1>7 DEF PrefillSkip, PrefillMore, PrefillDone, AdmitSkip
<1>8. CASE PrefillRaises
  <2>1. epc' \in {"admit", "recoverFatal"}
    BY <1>8 DEF PrefillRaises
  <2> QED
    BY <1>1, <1>8, <2>1 DEF PrefillRaises
<1>9. CASE Admit
  <2>1. PICK a : Admits(Selected, FitCount(Selected), a)
    BY <1>9, AdmitShape
  <2>2. FitCount(Selected) \in Nat /\ wave' \in Seq(Entry) /\ Len(wave') = FitCount(Selected)
    BY <2>1, AdmitFacts
  <2>3. widx' = 1 /\ epc' = IF FitCount(Selected) = 0 THEN "idle" ELSE "begin"
    BY <2>1 DEF Admits
  <2>4. epc' = "idle" => wave' = <<>>
    BY <2>2, <2>3
  <2>5. pending' = <<>> /\ UNCHANGED <<finished, incoming, active, todo, mtp>> /\ epc = "admit"
    BY <1>9 DEF Admit, AdmissionOpen
  <2> QED
    BY <1>1, <2>3, <2>4, <2>5
<1>10. CASE AdmitResetRaises
  <2>1. epc' \in {"idle", "recoverFatal"} /\ UNCHANGED <<wave, pending, widx, finished, incoming,
                                                         active, todo, mtp>> /\ epc = "admit"
    BY <1>10 DEF AdmitResetRaises, FailWave
  <2> QED
    BY <1>1, <2>1
<1>11. CASE BeginPending \/ BeginDone
  BY <1>1, <1>11 DEF BeginPending, BeginDone
<1>12. CASE BeginRaises
  <2>1. epc' \in {"idle", "recoverFatal"}
    BY <1>12 DEF BeginRaises, FailWave
  <2> QED
    BY <1>1, <1>12, <2>1 DEF BeginRaises
<1>13. CASE ActivateStay
  <2>1. widx \in 1..Len(wave)
    BY <1>1, <1>13 DEF ActivateStay, TypeOK
  <2>2. wave[widx].slot \in Slots /\ wave[widx].req \in Requests
    BY <1>1, <2>1, WaveFacts DEF TypeOK
  <2>3. epc \in {"activateNow", "activatePending"}
    BY <1>13 DEF ActivateStay, Activating
  <2>4. UNCHANGED <<epc, wave, pending, finished, incoming>>
    BY <1>13 DEF ActivateStay
  <2>5. finished = {}
    BY <1>1, <2>3
  <2> QED
    BY <1>1, <2>3, <2>4, <2>5
<1>14. CASE ActivateFinish
  BY <1>1, <1>14 DEF ActivateFinish, Activating
<1>15. CASE ActivateFinishRaises \/ ActivateRaises
  <2>1. /\ epc' \in {"recover", "recoverFatal"} /\ wave' = <<>>
        /\ UNCHANGED <<finished, incoming>> /\ epc \in {"activateNow", "activatePending"}
    BY <1>15 DEF ActivateFinishRaises, ActivateRaises, FinishRequestRaises, Raise, Activating
  <2> QED
    BY <1>1, <2>1
<1>16. CASE ActivateEnd
  BY <1>1, <1>16 DEF ActivateEnd, Activating
<1>17. CASE IdleRetry \/ ToDecode
  BY <1>1, <1>17 DEF IdleRetry, ToDecode
<1>18. CASE DecodeBegin
  BY <1>1, <1>18 DEF DecodeBegin, PlainSlots
<1>19. CASE DecodeRaises \/ VerifyRaises
  <2>1. /\ epc' \in {"recover", "recoverFatal"} /\ epc \in {"decode", "plain"}
        /\ UNCHANGED <<wave, pending, widx, finished, incoming, active>>
    BY <1>19 DEF DecodeRaises, VerifyRaises, Raise
  <2> QED
    BY <1>1, <2>1
<1>20. CASE VerifyBegin \/ MtpEnd
  BY <1>1, <1>20 DEF VerifyBegin, MtpEnd
<1>21. CASE \E s \in Slots : CommitTokens(s) \/ CommitNothing(s)
  <2>1. PICK s \in Slots : CommitTokens(s) \/ CommitNothing(s)
    BY <1>21
  <2>2. /\ todo' = todo \ {s}
        /\ UNCHANGED <<epc, wave, pending, widx, finished, incoming, active, mtp>>
    BY <2>1 DEF CommitTokens, CommitNothing
  <2> QED
    BY <1>1, <2>2
<1>22. CASE \E s \in Slots : FinishSlot(s)
  <2>1. PICK s \in Slots : FinishSlot(s)
    BY <1>22
  <2>2. /\ todo' = todo \ {s} /\ finished' = finished \cup {s} /\ epc \in {"plain", "mtp"}
        /\ s \in todo
        /\ UNCHANGED <<epc, wave, pending, widx, incoming, active, mtp>>
    BY <2>1 DEF FinishSlot
  <2> QED
    BY <1>1, <2>2
<1>23. CASE \E s \in Slots : FinishSlotRaises(s)
  <2>1. /\ epc' \in {"recover", "recoverFatal"} /\ epc \in {"plain", "mtp"}
        /\ UNCHANGED <<wave, pending, widx, finished, incoming, active>>
    BY <1>23 DEF FinishSlotRaises, FinishRequestRaises, Raise
  <2> QED
    BY <1>1, <2>1
<1>24. CASE Reap
  <2>1. finished' = {} /\ epc' = "top" /\ epc = "reap" /\ UNCHANGED <<wave, pending, widx, incoming>>
    BY <1>24 DEF Reap
  <2> QED
    BY <1>1, <2>1
<1>25. CASE Recover \/ RecoverFatal
  BY <1>1, <1>25 DEF Recover, RecoverFatal, ClearRound, ClearPending
<1>26. CASE Exit
  BY <1>1, <1>26 DEF Exit, ClearPending
<1> QED
  BY <1>2, <1>3, <1>4, <1>5, <1>6, <1>7, <1>8, <1>9, <1>10, <1>11, <1>12, <1>13, <1>14, <1>15,
     <1>16, <1>17, <1>18, <1>19, <1>20, <1>21, <1>22, <1>23, <1>24, <1>25, <1>26
     DEF Next, Engine

(* The initial state. *)
LEMMA BaseInit == Init => Base
<1> SUFFICES ASSUME Init PROVE Base
  OBVIOUS
<1>1. TypeOK
  BY DEF Init, TypeOK, EnginePC
<1>2. Accepted = {} /\ Released = {} /\ ActiveReqs = {} /\ ActiveSlots = {}
  BY DEF Init, Accepted, Released, ActiveReqs, ActiveSlots
<1>3. Range(<<>>) = {} /\ WaveReqs(<<>>) = {}
  BY EmptyRange DEF WaveReqs
<1>4. Contained /\ Answered
  BY <1>2, <1>3 DEF Init, Contained, Answered
<1>5. BudgetExact
  <2>1. Accepted \ Released = {}
    BY <1>2
  <2> QED
    <3>1. Cardinality(Accepted \ Released) = 0
      BY <2>1, FS_EmptySet
    <3>2. count = 0 /\ 0 <= MaxPending
      BY ConstantsAssumption DEF Init
    <3> QED
      BY <3>1, <3>2 DEF BudgetExact
<1>6. PagesCovered
  <2>1. Units(reserved, Slots) = {}
    <3>1. \A s \in Slots : reserved[s] = 0
      BY DEF Init
    <3> QED
      BY <3>1, UnitsMember
  <2>2. ReservedPages = 0
    BY <2>1, FS_EmptySet DEF ReservedPages, Total
  <2> QED
    BY <2>2, ConstantsAssumption DEF Init, PagesCovered
<1>7. Phases
  BY <1>2 DEF Init, Phases
<1> QED
  BY <1>1, <1>4, <1>5, <1>6, <1>7 DEF Base

(* A step that changes nothing. *)
LEMMA BaseStutter == Base /\ UNCHANGED vars => Base'
<1> SUFFICES ASSUME Base, UNCHANGED vars PROVE Base'
  OBVIOUS
<1> USE DEF vars, clientVars, passVars, queueVars, slotVars, roundVars, waveVars, dedupVars, doneVars,
            lossVars
<1>1. TypeOK'
  BY DEF Base, TypeOK
<1>2. Accepted' = Accepted /\ Released' = Released /\ ActiveSlots' = ActiveSlots
      /\ ActiveReqs' = ActiveReqs
  BY DEF Accepted, Released, ActiveSlots, ActiveReqs
<1>3. Contained' /\ Answered' /\ BudgetExact'
  BY <1>2 DEF Base, Contained, Answered, BudgetExact
<1>4. PagesCovered' /\ Phases'
  BY <1>2 DEF Base, PagesCovered, ReservedPages, Phases
<1> QED
  BY <1>1, <1>3, <1>4 DEF Base

(* Base is inductive. *)
LEMMA BaseStep == Base /\ [Next]_vars => Base'
<1>1. ASSUME Base, Next PROVE Base'
  BY <1>1, TypesStep, ContainedStep, AccountStep, PagesStep, PhasesStep DEF Base
<1> QED
  BY <1>1, BaseStutter

(* Whichever calls fail, and how: the engine keeps its types, its phases,  *)
(* its accounts and its promises.                                          *)
THEOREM BaseHolds == Spec => []Base
<1>1. Init => Base
  BY BaseInit
<1>2. Base /\ [Next]_vars => Base'
  BY BaseStep
<1> QED
  BY <1>1, <1>2, PTL DEF Spec

(* The request budget is exact: _request_count is the number of accepted   *)
(* requests that have not been answered, and never exceeds the limit,      *)
(* whichever paths release a request and however many of them do.          *)
THEOREM EngineBudget == Spec => []BudgetExact
<1>1. Base => BudgetExact
  BY DEF Base
<1> QED
  BY <1>1, BaseHolds, PTL

(* Page promises never exceed the pool, and a promise outlives its request *)
(* only on a slot that still has to be reset.                              *)
THEOREM EngineReservations == Spec => []ReservationsCovered
<1>1. Base => ReservationsCovered
  BY DEF Base, PagesCovered, ReservationsCovered
<1> QED
  BY <1>1, BaseHolds, PTL

-----------------------------------------------------------------------------
(* The engine implements the safety part of RequestService *)

ServiceSafety == Service!Init /\ [][Service!Next]_(Service!vars)

st == [r \in Requests |-> Status(r)]

(* The status of a request, by what the engine and its caller know of it. *)
LEMMA StatusFacts ==
  ASSUME Base, NEW r \in Requests
  PROVE  /\ r \in served <=> Status(r) = "result"
         /\ r \in failed <=> Status(r) = "error"
         /\ r \in Accepted \ Released <=> Status(r) = "accepted"
         /\ r \notin Accepted /\ cpc[r] = "rejected" <=> Status(r) = "rejected"
         /\ r \notin Accepted /\ cpc[r] # "rejected" <=> Status(r) = "new"
         /\ Status(r) \in {"result", "error", "accepted", "rejected", "new"}
<1>1. /\ served \cap failed = {} /\ served \subseteq Accepted /\ failed \subseteq Accepted
  BY DEF Base, Answered, Released
<1>2. r \in Accepted <=> cpc[r] \in {"in", "left"}
  BY DEF Accepted
<1>3. CASE r \in served
  BY <1>1, <1>2, <1>3 DEF Status, Released
<1>4. CASE r \in failed
  BY <1>1, <1>2, <1>4 DEF Status, Released
<1>5. CASE r \notin served /\ r \notin failed
  BY <1>1, <1>2, <1>5 DEF Status, Released
<1> QED
  BY <1>3, <1>4, <1>5

(* The unanswered requests of the service are those the engine counts. *)
LEMMA UnansweredFacts ==
  ASSUME Base
  PROVE  /\ {r \in Requests : st[r] = "accepted"} = Accepted \ Released
         /\ Service!Unanswered = Accepted \ Released
         /\ Service!Cardinality(Service!Unanswered) = count
<1>1. {r \in Requests : st[r] = "accepted"} = Accepted \ Released
  <2>1. \A r \in Requests : st[r] = "accepted" <=> r \in Accepted \ Released
    BY StatusFacts DEF st
  <2>2. Accepted \ Released \subseteq Requests
    BY DEF Accepted
  <2> QED
    BY <2>1, <2>2
<1>2. Service!Unanswered = {r \in Requests : st[r] = "accepted"}
  BY Zenon DEF Service!Unanswered, st
<1>3. Service!Cardinality(Service!Unanswered) = Cardinality(Service!Unanswered)
  BY Zenon DEF Service!Cardinality, Cardinality
<1> QED
  BY <1>1, <1>2, <1>3 DEF Base, BudgetExact

upNow == IF stop = "no" THEN "yes" ELSE "no"

(* A status after a step, by the accounts after it. *)
LEMMA StatusStep ==
  ASSUME Base', NEW r \in Requests
  PROVE  /\ r \in served' <=> st'[r] = "result"
         /\ r \in failed' <=> st'[r] = "error"
         /\ r \in Accepted' \ Released' <=> st'[r] = "accepted"
         /\ r \notin Accepted' /\ cpc'[r] = "rejected" <=> st'[r] = "rejected"
         /\ r \notin Accepted' /\ cpc'[r] # "rejected" <=> st'[r] = "new"
         /\ st'[r] \in {"result", "error", "accepted", "rejected", "new"}
<1>1. /\ served' \cap failed' = {} /\ served' \subseteq Accepted' /\ failed' \subseteq Accepted'
      /\ Released' = served' \cup failed'
  BY DEF Base, Answered, Released
<1>2. r \in Accepted' <=> cpc'[r] \in {"in", "left"}
  BY DEF Accepted
<1>3. st'[r] = CASE r \in served'          -> "result"
                 [] r \in failed' \ served' -> "error"
                 [] cpc'[r] \in {"in", "left"} /\ r \notin Released' -> "accepted"
                 [] cpc'[r] = "rejected"   -> "rejected"
                 [] OTHER                  -> "new"
  BY DEF st, Status
<1>4. CASE r \in served'
  BY <1>1, <1>2, <1>3, <1>4
<1>5. CASE r \in failed'
  BY <1>1, <1>2, <1>3, <1>5
<1>6. CASE r \notin served' /\ r \notin failed'
  BY <1>1, <1>2, <1>3, <1>6
<1> QED
  BY <1>4, <1>5, <1>6

(* The answers of a step that fails the requests of R, or resolves one. *)
LEMMA ServiceAnswers ==
  ASSUME Base, Base', UNCHANGED cpc, NEW R \in SUBSET Accepted, NEW kind \in {"result", "error"},
         Released' = Released \cup R,
         kind = "error" => served' = served, kind = "result" => failed' = failed,
         upNow' \in IF kind = "error" THEN {upNow, "no"} ELSE {upNow}
  PROVE  \/ R \subseteq Released /\ st' = st
         \/ Service!Answer(R \ Released, kind)
<1> DEFINE N == R \ Released
<1>1. Accepted' = Accepted
  BY DEF Accepted
<1>2. /\ served \cup failed = Released /\ served' \cup failed' = Released \cup R
      /\ served' \cap failed' = {} /\ served \cap failed = {}
  BY DEF Released, Base, Answered
<1>3. /\ kind = "error"  => served' = served /\ failed' = failed \cup N
      /\ kind = "result" => failed' = failed /\ served' = served \cup N
  BY <1>2
<1>4. ASSUME NEW r \in Requests
      PROVE  st'[r] = IF r \in N THEN kind ELSE st[r]
  <2>1. st[r] = Status(r)
    BY DEF st
  <2>2. CASE r \in N
    <3>1. r \in IF kind = "error" THEN failed' ELSE served'
      BY <1>3, <2>2
    <3> QED
      BY <2>2, <3>1, StatusStep
  <2>3. CASE r \notin N
    <3>1. /\ r \in served' <=> r \in served
          /\ r \in failed' <=> r \in failed
          /\ r \in Released' <=> r \in Released
      BY <1>2, <1>3, <2>3
    <3> QED
      BY <1>1, <2>1, <2>3, <3>1, StatusFacts, StatusStep
  <2> QED
    BY <2>2, <2>3
<1>5. st' = [r \in Requests |-> IF r \in N THEN kind ELSE st[r]]
  BY <1>4 DEF st
<1>6. CASE N = {}
  <2>1. st' = st
    BY <1>5, <1>6 DEF st
  <2> QED
    BY <1>6, <2>1
<1>7. CASE N # {}
  <2>1. N \subseteq {r \in Requests : st[r] = "accepted"}
    BY UnansweredFacts
  <2> QED
    BY <1>5, <1>7, <2>1 DEF Service!Answer, Service!Unanswered, st, upNow
<1> QED
  BY <1>6, <1>7

(* Every step of the engine is a step of the service or changes nothing    *)
(* its callers can see.                                                    *)
LEMMA ServiceStep ==
  ASSUME Base, Base', [Next]_vars
  PROVE  [Service!Next]_(Service!vars)
<1> DEFINE Same == st' = st /\ upNow' = upNow
<1>1. Same => UNCHANGED Service!vars
  BY DEF Service!vars, st, upNow
<1>2. ASSUME Accepted' = Accepted, UNCHANGED <<served, failed>>,
             \A r \in Requests : (cpc[r] = "rejected") <=> (cpc'[r] = "rejected")
      PROVE  st' = st
  <2>1. \A r \in Requests : st'[r] = st[r]
    <3> SUFFICES ASSUME NEW r \in Requests PROVE st'[r] = st[r]
      OBVIOUS
    <3>1. st[r] = Status(r)
      BY DEF st
    <3>2. Released' = Released
      BY <1>2 DEF Released
    <3> QED
      BY <1>2, <3>1, <3>2, StatusFacts, StatusStep
  <2> QED
    BY <2>1 DEF st
<1>3. cpc \in [Requests -> {"new", "checked", "in", "left", "rejected"}] /\ count \in Nat
      /\ MaxPending \in Nat /\ stop \in {"no", "yes"} /\ stop' \in {"no", "yes"}
  BY ConstantsAssumption DEF Base, TypeOK
<1>4. ASSUME NEW r \in Requests, cpc[r] \in {"new", "checked"}, cpc' = [cpc EXCEPT ![r] = "rejected"],
             UNCHANGED <<served, failed, stop>>, count >= MaxPending \/ stop = "yes"
      PROVE  Service!Reject(r)
  <2>1. Accepted' = Accepted /\ r \notin Accepted /\ Released' = Released
    BY <1>3, <1>4 DEF Accepted, Released
  <2>2. st[r] = "new"
    BY <1>4, <2>1, StatusFacts DEF st
  <2>3. st' = [st EXCEPT ![r] = "rejected"]
    <3>1. st'[r] = "rejected"
      BY <1>3, <1>4, <2>1, StatusStep
    <3>2. ASSUME NEW q \in Requests \ {r} PROVE st'[q] = st[q]
      <4>1. cpc'[q] = cpc[q] /\ st[q] = Status(q)
        BY <1>3, <1>4 DEF st
      <4> QED
        BY <1>4, <2>1, <4>1, StatusFacts, StatusStep
    <3> QED
      BY <3>1, <3>2 DEF st
  <2>4. Service!Cardinality(Service!Unanswered) >= MaxPending \/ upNow = "no"
    BY <1>4, UnansweredFacts DEF upNow
  <2>5. upNow' = upNow
    BY <1>4 DEF upNow
  <2> QED
    BY <2>2, <2>3, <2>4, <2>5 DEF Service!Reject, st, upNow
<1>5. ASSUME NEW r \in Requests, SubmitCheck(r)
      PROVE  Service!Reject(r) \/ Same
  <2>1. CASE stop = "yes"
    BY <1>4, <1>5, <2>1 DEF SubmitCheck, doneVars
  <2>2. CASE stop # "yes"
    <3>1. Accepted' = Accepted /\ UNCHANGED <<served, failed, stop>>
      BY <1>3, <1>5, <2>2 DEF SubmitCheck, doneVars, Accepted
    <3>2. \A q \in Requests : (cpc[q] = "rejected") <=> (cpc'[q] = "rejected")
      BY <1>3, <1>5, <2>2 DEF SubmitCheck
    <3> QED
      BY <1>2, <3>1, <3>2 DEF upNow
  <2> QED
    BY <2>1, <2>2
<1>6. ASSUME NEW r \in Requests, SubmitEnqueue(r)
      PROVE  Service!Reject(r) \/ Service!Accept(r)
  <2>1. CASE count >= MaxPending
    BY <1>4, <1>6, <2>1 DEF SubmitEnqueue
  <2>2. CASE ~ (count >= MaxPending)
    <3>1. /\ cpc[r] = "checked" /\ cpc' = [cpc EXCEPT ![r] = "in"] /\ count' = count + 1
          /\ UNCHANGED <<served, failed, stop>> /\ count < MaxPending
      BY <1>3, <1>6, <2>2 DEF SubmitEnqueue
    <3>2. Accepted' = Accepted \cup {r} /\ r \notin Accepted
      BY <3>1, AcceptFacts
    <3>3. Released' = Released /\ r \notin Released
      BY <3>1, <3>2 DEF Released, Base, Answered
    <3>4. st[r] = "new"
      BY <3>1, <3>2, StatusFacts DEF st
    <3>5. st' = [st EXCEPT ![r] = "accepted"]
      <4>1. st'[r] = "accepted"
        BY <3>2, <3>3, StatusStep
      <4>2. ASSUME NEW q \in Requests \ {r} PROVE st'[q] = st[q]
        <5>1. cpc'[q] = cpc[q] /\ st[q] = Status(q) /\ (q \in Accepted' <=> q \in Accepted)
          BY <1>3, <3>1, <3>2 DEF st
        <5> QED
          BY <3>1, <3>3, <5>1, StatusFacts, StatusStep
      <4> QED
        BY <4>1, <4>2 DEF st
    <3>6. Service!Cardinality(Service!Unanswered) < MaxPending
      BY <3>1, UnansweredFacts
    <3>7. upNow' = upNow
      BY <3>1 DEF upNow
    <3> QED
      BY <3>4, <3>5, <3>6, <3>7 DEF Service!Accept, st, upNow
  <2> QED
    BY <2>1, <2>2
<1>7. ASSUME NEW r \in Requests, Disconnect(r) PROVE Same
  <2>1. Accepted' = Accepted /\ UNCHANGED <<served, failed, stop>>
    BY <1>3, <1>7 DEF Disconnect, doneVars, Accepted
  <2>2. \A q \in Requests : (cpc[q] = "rejected") <=> (cpc'[q] = "rejected")
    BY <1>3, <1>7 DEF Disconnect
  <2> QED
    BY <1>2, <2>1, <2>2 DEF upNow
<1>8. ASSUME st' = st, stop' = "yes" PROVE Same \/ Service!GoDown
  BY <1>3, <1>8 DEF Service!GoDown, st, upNow
<1>9. CASE Stop
  <2>1. Accepted' = Accepted /\ UNCHANGED <<served, failed, cpc>> /\ stop' = "yes"
    BY <1>9 DEF Stop, Accepted, doneVars
  <2> QED
    BY <1>1, <1>2, <1>8, <2>1 DEF Service!Next
<1>10. CASE Silent \/ UNCHANGED vars
  <2>1. Accepted' = Accepted /\ UNCHANGED <<served, failed, cpc, stop>>
    BY <1>10 DEF Silent, Accepted, vars, clientVars, doneVars
  <2> QED
    BY <1>1, <1>2, <2>1 DEF upNow
<1>11. ASSUME NEW R \in SUBSET Accepted, FailAll(R), UNCHANGED cpc,
              stop' \in {stop, "yes"}
       PROVE  [Service!Next]_(Service!vars)
  <2>1. Released' = Released \cup R /\ served' = served
    BY <1>11 DEF FailAll, Released
  <2>2. upNow' \in {upNow, "no"}
    BY <1>11 DEF upNow
  <2>3. (R \subseteq Released /\ st' = st) \/ Service!Answer(R \ Released, "error")
    BY <1>11, <2>1, <2>2, ServiceAnswers
  <2>4. R \ Released \in SUBSET Requests
    BY DEF Accepted
  <2>5. CASE st' = st
    BY <1>1, <1>8, <1>11, <2>5 DEF Service!Next, upNow
  <2>6. CASE Service!Answer(R \ Released, "error")
    BY <2>4, <2>6 DEF Service!Next
  <2> QED
    BY <2>3, <2>5, <2>6
<1>12. CASE Fails \/ FailsDown
  BY <1>11, <1>12 DEF Fails, FailsDown
<1>13. CASE Resolves
  <2>1. PICK r \in Accepted : Resolve(r)
    BY <1>13 DEF Resolves
  <2>2. Released' = Released \cup {r} /\ failed' = failed /\ UNCHANGED <<cpc, stop>>
    BY <1>13, <2>1 DEF Resolve, Released, Resolves
  <2>3. upNow' = upNow
    BY <2>2 DEF upNow
  <2>4. {r} \in SUBSET Accepted
    BY <2>1
  <2>5. ({r} \subseteq Released /\ st' = st) \/ Service!Answer({r} \ Released, "result")
    BY <2>2, <2>3, <2>4, ServiceAnswers
  <2>6. {r} \ Released \in SUBSET Requests
    BY <2>4 DEF Accepted
  <2>7. CASE st' = st
    BY <1>1, <2>3, <2>7
  <2>8. CASE Service!Answer({r} \ Released, "result")
    BY <2>6, <2>8 DEF Service!Next
  <2> QED
    BY <2>5, <2>7, <2>8
<1>14. CASE Client
  BY <1>1, <1>5, <1>6, <1>7, <1>14 DEF Client, Service!Next
<1> QED
  BY <1>9, <1>10, <1>12, <1>13, <1>14, StepKinds

(* Whichever calls fail, and how: the engine is a RequestService as far as *)
(* safety goes.  It accepts only within the budget, turns away only when   *)
(* the budget is exhausted or it is stopping, and answers each accepted    *)
(* request at most once, never changing the answer.                        *)
THEOREM EngineImplementsService == Spec => ServiceSafety
<1>1. Init => Service!Init
  <2> SUFFICES ASSUME Init PROVE Service!Init
    OBVIOUS
  <2>1. \A r \in Requests : Status(r) = "new"
    BY DEF Init, Status, Released
  <2>2. [r \in Requests |-> Status(r)] = [r \in Requests |-> "new"]
    BY <2>1
  <2> QED
    BY <2>2 DEF Init, Service!Init
<1>2. Base /\ Base' /\ [Next]_vars => [Service!Next]_(Service!vars)
  BY ServiceStep
<1> QED
  BY <1>1, <1>2, BaseHolds, PTL DEF Spec, ServiceSafety


-----------------------------------------------------------------------------
(* The held members of a wave *)

(* A wave being activated, or one whose prefill is pending. *)
Holding == epc \in {"begin", "activateNow", "activatePending"}

(* Its members that are still to be activated, by requests. *)
HeldReqs == {wave[i].req : i \in WaveRest} \cup {pending[i].req : i \in PendingRest}

(* There is one wave at a time: wave while it is being admitted or         *)
(* activated, pending at all other times.                                  *)
HeldShape ==
  /\ WaveRest \subseteq 1..Len(wave) /\ PendingRest \subseteq 1..Len(pending)
  /\ Len(wave) \in Nat /\ Len(pending) \in Nat
  /\ Holding  => PendingRest = {}
  /\ ~Holding => WaveRest = {} /\ PendingRest = 1..Len(pending)
  /\ epc = "begin" => WaveRest = 1..Len(wave)
  /\ pending = <<>> => PendingRest = {}
  /\ \A i \in 1..Len(wave) : wave[i].slot \in Slots /\ wave[i].req \in Requests
  /\ \A i \in 1..Len(pending) : pending[i].slot \in Slots /\ pending[i].req \in Requests

(* Base says which of the two is the wave. *)
LEMMA HeldFacts == Base => HeldShape
<1> SUFFICES ASSUME Base PROVE HeldShape
  OBVIOUS
<1>1. wave \in Seq(Entry) /\ pending \in Seq(Entry) /\ widx \in Nat \ {0}
  BY DEF Base, TypeOK
<1>2. Len(wave) \in Nat /\ Len(pending) \in Nat
  BY <1>1
<1>3. /\ \A i \in 1..Len(wave) : wave[i].slot \in Slots /\ wave[i].req \in Requests
      /\ \A i \in 1..Len(pending) : pending[i].slot \in Slots /\ pending[i].req \in Requests
  BY <1>1, WaveFacts
<1>4. Holding => PendingRest = {}
  <2>1. epc \in {"begin", "activateNow"} => pending = <<>>
    BY DEF Base, Phases
  <2>2. Len(<<>>) = 0 /\ 1..0 = {}
    OBVIOUS
  <2> QED
    BY <2>1, <2>2 DEF Holding, PendingRest
<1>5. ~Holding => WaveRest = {} /\ PendingRest = 1..Len(pending)
  <2>1. ~Holding => wave = <<>>
    BY DEF Base, Phases, Holding
  <2>2. Len(<<>>) = 0 /\ 1..0 = {}
    OBVIOUS
  <2> QED
    BY <2>1, <2>2 DEF Holding, PendingRest, WaveRest
<1>6. epc = "begin" => WaveRest = 1..Len(wave)
  BY <1>1, <1>2 DEF Base, Phases, WaveRest
<1>7. pending = <<>> => PendingRest = {}
  <2>1. Len(<<>>) = 0 /\ 1..0 = {}
    OBVIOUS
  <2> QED
    BY <2>1 DEF PendingRest
<1> QED
  BY <1>2, <1>3, <1>4, <1>5, <1>6, <1>7 DEF WaveRest, PendingRest, HeldShape

(* The same after a step. *)
LEMMA HeldFactsNext == Base' => HeldShape'
  BY HeldFacts, PTL

(* Which requests and slots hold a place in the wave, in the two cases. *)
HeldBy ==
  /\ epc = "begin" => HeldReqs = WaveReqs(wave) /\ HeldByWave = WaveSlots(wave)
  /\ ~Holding => HeldReqs = WaveReqs(pending) /\ HeldByWave = WaveSlots(pending)
  /\ Holding => /\ HeldReqs = {wave[i].req : i \in WaveRest}
                /\ HeldByWave = {wave[i].slot : i \in WaveRest}
  /\ HeldReqs \subseteq Accepted /\ HeldByWave \subseteq Slots

(* Base says so. *)
LEMMA HeldByFacts == Base => HeldBy
<1> SUFFICES ASSUME Base PROVE HeldBy
  OBVIOUS
<1>1. HeldShape
  BY HeldFacts
<1>2. epc = "begin" => Holding
  BY DEF Holding
<1>3. HeldReqs \subseteq WaveReqs(wave) \cup WaveReqs(pending)
  BY <1>1 DEF HeldShape, HeldReqs, WaveReqs
<1>4. HeldReqs \subseteq Accepted
  BY <1>3 DEF Base, Contained
<1>5. HeldByWave \subseteq Slots
  BY <1>1 DEF HeldShape, HeldByWave
<1>6. /\ epc = "begin" => HeldReqs = WaveReqs(wave)
      /\ ~Holding => HeldReqs = WaveReqs(pending)
      /\ Holding => HeldReqs = {wave[i].req : i \in WaveRest}
  BY <1>1, <1>2 DEF HeldShape, HeldReqs, WaveReqs
<1>7. /\ epc = "begin" => HeldByWave = WaveSlots(wave)
      /\ ~Holding => HeldByWave = WaveSlots(pending)
      /\ Holding => HeldByWave = {wave[i].slot : i \in WaveRest}
  BY <1>1, <1>2 DEF HeldShape, HeldByWave, WaveSlots
<1> QED
  BY <1>4, <1>5, <1>6, <1>7 DEF HeldBy

(* The same after a step. *)
LEMMA HeldByNext == Base' => HeldBy'
  BY HeldByFacts, PTL

-----------------------------------------------------------------------------
(* Dedup keys *)

(* While a wave is activated its keys are published, and no other key is   *)
(* in flight.                                                              *)
KeysInv == DedupKeyHasHolder /\ (Activating => inflight = {})

(* No wave, no keys. *)
LEMMA NoWaveNoKeys ==
  ASSUME Base, KeysInv, ~Recovering, ~Holding, pending = <<>>
  PROVE  inflight = {}
<1>1. WaveRest = {} /\ PendingRest = {}
  BY HeldFacts DEF HeldShape
<1>2. {wave[i].req : i \in WaveRest} \cup {pending[i].req : i \in PendingRest} = {}
  BY <1>1
<1> QED
  BY <1>2 DEF KeysInv, DedupKeyHasHolder, KeysOf

(* Keys in flight keep a holder. *)
LEMMA KeysStep ==
  ASSUME Base, Base', KeysInv, Next
  PROVE  KeysInv'
<1>1. ~Recovering => inflight \subseteq KeysOf(HeldReqs)
  BY DEF KeysInv, DedupKeyHasHolder, HeldReqs
<1>2. ASSUME inflight' = {} PROVE KeysInv'
  BY <1>2 DEF KeysInv, DedupKeyHasHolder
<1>3. ASSUME inflight' \subseteq inflight, HeldReqs' = HeldReqs, ~Recovering,
             ~Activating' \/ Activating
      PROVE  KeysInv'
  BY <1>1, <1>3 DEF KeysInv, DedupKeyHasHolder, HeldReqs, KeysOf
<1>4. ASSUME Recovering', ~Activating' PROVE KeysInv'
  BY <1>4 DEF KeysInv, DedupKeyHasHolder
<1>5. KeysOf({}) = {}
  BY DEF KeysOf
<1>6. Activating => inflight = {}
  BY DEF KeysInv
<1>7. Recovering' => ~Activating'
  BY DEF Recovering, Activating
<1> USE DEF slotVars, waveVars, dedupVars, engineVars
<1>8. CASE Client \/ Stop
  <2>1. UNCHANGED <<inflight, wave, pending, widx, epc>>
    BY <1>8 DEF Client, Stop, SubmitCheck, SubmitEnqueue, Disconnect
  <2>2. HeldReqs' = HeldReqs /\ (Recovering' <=> Recovering) /\ (Activating' <=> Activating)
    BY <2>1 DEF HeldReqs, WaveRest, PendingRest, Recovering, Activating
  <2> QED
    BY <1>3, <1>4, <1>7, <2>1, <2>2
<1>9. CASE RoundBegin \/ CoalesceOff \/ CoalesceBegin \/ CoalesceDrain \/ CoalesceEnd
           \/ ProcessCancellations \/ CancelIncoming
           \/ PrefillSkip \/ PrefillMore \/ AdmitSkip
           \/ IdleBlock \/ IdleRetry \/ Wake \/ ToDecode
           \/ DecodeBegin \/ VerifyBegin \/ MtpEnd \/ Reap
           \/ \E s \in Slots : CommitTokens(s) \/ CommitNothing(s) \/ FinishSlot(s)
  <2>1. UNCHANGED <<inflight, wave, pending, widx>>
    BY <1>9 DEF RoundBegin, CoalesceOff, CoalesceBegin, CoalesceDrain, CoalesceEnd,
                ProcessCancellations, CancelIncoming,
                PrefillSkip, PrefillMore, AdmitSkip, IdleBlock, IdleRetry, Wake, ToDecode,
                DecodeBegin, VerifyBegin, MtpEnd, Reap, CommitTokens, CommitNothing, FinishSlot
  <2>2. ~Recovering /\ ~Holding /\ ~Holding' /\ ~Activating'
    BY <1>9 DEF RoundBegin, CoalesceOff, CoalesceBegin, CoalesceDrain, CoalesceEnd,
                ProcessCancellations, CancelIncoming,
                PrefillSkip, PrefillMore, AdmitSkip, IdleBlock, IdleRetry, Wake, ToDecode,
                DecodeBegin, VerifyBegin, MtpEnd, Reap, CommitTokens, CommitNothing, FinishSlot,
                Recovering, Holding, Activating
  <2>3. HeldReqs' = HeldReqs
    BY <2>1, <2>2, HeldByFacts, HeldByNext DEF HeldBy
  <2> QED
    BY <1>3, <2>1, <2>2, <2>3
<1>10. CASE CancelPending
  <2>1. /\ epc = "refill" /\ epc' = "prefill" /\ UNCHANGED wave
        /\ \/ pending' = pending /\ inflight' \subseteq inflight
           \/ pending' = <<>> /\ inflight' = inflight \ KeysOf(WaveReqs(pending))
    BY <1>10 DEF CancelPending
  <2>2. ~Recovering /\ ~Holding /\ ~Holding' /\ ~Activating'
    BY <2>1 DEF Recovering, Holding, Activating
  <2>3. HeldReqs = WaveReqs(pending) /\ HeldReqs' = WaveReqs(pending')
    BY <2>2, HeldByFacts, HeldByNext DEF HeldBy
  <2>4. CASE pending' = pending /\ inflight' \subseteq inflight
    BY <1>3, <2>2, <2>3, <2>4
  <2>5. CASE pending' = <<>> /\ inflight' = inflight \ KeysOf(WaveReqs(pending))
    BY <1>1, <1>2, <2>2, <2>3, <2>5
  <2> QED
    BY <2>1, <2>4, <2>5
<1>11. CASE PrefillDone
  <2>1. ~Recovering /\ ~Holding /\ inflight' = inflight \ KeysOf(WaveReqs(pending))
    BY <1>11 DEF PrefillDone, PublishKeys, DropKeys, Recovering, Holding
  <2>2. HeldReqs = WaveReqs(pending)
    BY <2>1, HeldByFacts DEF HeldBy
  <2> QED
    BY <1>1, <1>2, <2>1, <2>2
<1>12. CASE PrefillRaises
  <2>1. ~Recovering /\ ~Holding /\ inflight' = inflight \ KeysOf(WaveReqs(pending))
    BY <1>12 DEF PrefillRaises, DropKeys, Recovering, Holding
  <2>2. HeldReqs = WaveReqs(pending)
    BY <2>1, HeldByFacts DEF HeldBy
  <2> QED
    BY <1>1, <1>2, <2>1, <2>2
<1>13. CASE Admit
  <2>1. PICK a : Admits(Selected, FitCount(Selected), a)
    BY <1>13, AdmitShape
  <2> DEFINE sel == Selected
             k == FitCount(sel)
             tail == SubSeq(sel, k + 1, Len(sel))
  <2>2. inflight = {}
    BY <1>13, NoWaveNoKeys DEF Admit, AdmissionOpen, Recovering, Holding
  <2>3. inflight' = KeysOf(Range(sel)) \ KeysOf(Range(tail))
    BY <2>1, <2>2 DEF Admits
  <2>4. /\ sel \in Seq(Requests) /\ k \in 0..Len(sel) /\ Len(sel) \in Nat /\ Len(wave') = k
        /\ \A i \in 1..k : wave'[i].req = sel[i]
    <3>1. \A i \in 1..k : wave'[i] = [slot |-> a[i], req |-> sel[i]]
      BY <2>1, AdmitFacts
    <3>2. sel \in Seq(Requests) /\ k \in 0..Len(sel) /\ Len(sel) \in Nat /\ Len(wave') = k
      BY <2>1, AdmitFacts
    <3> QED
      BY <3>1, <3>2
  <2>5. \A i \in (k + 1)..Len(sel) : sel[i] \in Range(tail)
    BY <2>4, TailFacts
  <2>6. Range(sel) \subseteq WaveReqs(wave') \cup Range(tail)
    <3>1. \A i \in 1..Len(sel) : i \in 1..k \/ i \in (k + 1)..Len(sel)
      BY <2>4
    <3>2. \A i \in 1..k : sel[i] \in WaveReqs(wave')
      BY <2>4 DEF WaveReqs
    <3>3. \A x \in Range(sel) : \E i \in 1..Len(sel) : x = sel[i]
      BY <2>4, RangeInSet
    <3> HIDE DEF sel, k, tail
    <3> QED
      BY <2>5, <3>1, <3>2, <3>3
  <2>7. inflight' \subseteq KeysOf(WaveReqs(wave'))
    BY <2>3, <2>6 DEF KeysOf
  <2>8. ~Activating' /\ epc' \in {"idle", "begin"}
    BY <2>1 DEF Admits, Activating
  <2>9. CASE epc' = "begin"
    <3>1. HeldReqs' = WaveReqs(wave')
      BY <2>9, HeldByNext DEF HeldBy
    <3> QED
      BY <2>7, <2>8, <3>1 DEF KeysInv, DedupKeyHasHolder, HeldReqs
  <2>10. CASE epc' = "idle"
    <3>1. wave' = <<>>
      BY <2>10 DEF Base, Phases
    <3>2. WaveReqs(wave') = {}
      BY <3>1 DEF WaveReqs
    <3> QED
      BY <1>2, <1>5, <2>7, <3>2
  <2> QED
    BY <2>8, <2>9, <2>10
<1>14. CASE AdmitResetRaises
  <2>1. inflight = {}
    BY <1>14, NoWaveNoKeys DEF AdmitResetRaises, AdmissionOpen, Recovering, Holding
  <2>2. inflight' \subseteq inflight
    BY <1>14 DEF AdmitResetRaises, FailWave
  <2> QED
    BY <1>2, <2>1, <2>2
<1>15. CASE BeginPending
  <2>1. epc = "begin" /\ epc' = "idle" /\ pending' = wave /\ inflight' = inflight
    BY <1>15 DEF BeginPending
  <2>2. ~Recovering /\ ~Holding' /\ ~Activating'
    BY <2>1 DEF Recovering, Holding, Activating
  <2>3. HeldReqs' = HeldReqs
    BY <2>1, <2>2, HeldByFacts, HeldByNext DEF HeldBy
  <2> QED
    BY <1>3, <2>1, <2>2, <2>3
<1>16. CASE BeginDone \/ BeginRaises
  <2>1. epc = "begin" /\ inflight' = inflight \ KeysOf(WaveReqs(wave))
    BY <1>16 DEF BeginDone, BeginRaises, FailWave, PublishKeys, DropKeys
  <2>2. HeldReqs = WaveReqs(wave) /\ ~Recovering
    BY <2>1, HeldByFacts DEF HeldBy, Recovering
  <2> QED
    BY <1>1, <1>2, <2>1, <2>2
<1>17. CASE ActivateStay \/ ActivateFinish \/ ActivateFinishRaises \/ ActivateRaises \/ ActivateEnd
  BY <1>2, <1>6, <1>17 DEF ActivateStay, ActivateFinish, ActivateFinishRaises, ActivateRaises,
                           ActivateEnd
<1>18. CASE DecodeRaises \/ VerifyRaises \/ \E s \in Slots : FinishSlotRaises(s)
  <2>1. epc' \in {"recover", "recoverFatal"}
    BY <1>18 DEF DecodeRaises, VerifyRaises, FinishSlotRaises, FinishRequestRaises, Raise
  <2> QED
    BY <1>4, <1>7, <2>1 DEF Recovering
<1>19. CASE Recover \/ RecoverFatal \/ Exit
  BY <1>2, <1>19 DEF Recover, RecoverFatal, Exit, ClearPending
<1> QED
  BY <1>8, <1>9, <1>10, <1>11, <1>12, <1>13, <1>14, <1>15, <1>16, <1>17, <1>18, <1>19
     DEF Next, Engine

(* KeysInv is an invariant, whichever calls fail. *)
THEOREM KeysInvHolds == Spec => []KeysInv
<1>1. Init => KeysInv
  <2> SUFFICES ASSUME Init PROVE KeysInv
    OBVIOUS
  <2>1. inflight = {}
    BY DEF Init
  <2> QED
    BY <2>1 DEF KeysInv, DedupKeyHasHolder
<1>2. KeysInv /\ Base /\ Base' /\ [Next]_vars => KeysInv'
  <2>1. KeysInv /\ UNCHANGED vars => KeysInv'
    BY DEF KeysInv, DedupKeyHasHolder, vars, waveVars, dedupVars, WaveRest, PendingRest,
           Recovering, Activating
  <2> QED
    BY <2>1, KeysStep
<1> QED
  BY <1>1, <1>2, BaseHolds, PTL DEF Spec

(* A dedup key in flight has a holder in the current wave, whichever calls *)
(* fail: no key is left behind to make later duplicates wait forever.      *)
THEOREM EngineDedupKeys == Spec => []DedupKeyHasHolder
<1>1. KeysInv => DedupKeyHasHolder
  BY DEF KeysInv
<1> QED
  BY <1>1, KeysInvHolds, PTL

-----------------------------------------------------------------------------
(* The wave, step by step *)

(* No request has two places in the wave, and no slot unless it is harmed. *)
SlotsOnce ==
  /\ \A i, j \in WaveRest :
       wave[i].slot = wave[j].slot /\ wave[i].slot \notin harmed => i = j
  /\ \A i, j \in PendingRest :
       pending[i].slot = pending[j].slot /\ pending[i].slot \notin harmed => i = j

ReqsOnce ==
  /\ \A i, j \in WaveRest : wave[i].req = wave[j].req => i = j
  /\ \A i, j \in PendingRest : pending[i].req = pending[j].req => i = j

(* Every place after a step is a place before it, possibly of a wave that  *)
(* changed hands between wave and pending.                                 *)
Carried ==
  /\ \A i \in WaveRest' : \/ i \in WaveRest /\ wave'[i] = wave[i]
                          \/ i \in PendingRest /\ wave'[i] = pending[i]
  /\ \A i \in PendingRest' : \/ i \in PendingRest /\ pending'[i] = pending[i]
                             \/ i \in WaveRest /\ pending'[i] = wave[i]

(* Then places stay distinct, and none is new. *)
LEMMA CarriedFacts ==
  ASSUME Base, Base', Carried
  PROVE  /\ SlotsOnce /\ harmed \subseteq harmed' => SlotsOnce'
         /\ ReqsOnce => ReqsOnce'
         /\ HeldReqs' \subseteq HeldReqs /\ HeldByWave' \subseteq HeldByWave
<1>1. WaveRest = {} \/ PendingRest = {}
  BY HeldFacts DEF HeldShape
<1>2. ASSUME SlotsOnce, harmed \subseteq harmed' PROVE SlotsOnce'
  <2>1. /\ \A i, j \in WaveRest :
             wave[i].slot = wave[j].slot /\ wave[i].slot \notin harmed' => i = j
        /\ \A i, j \in PendingRest :
             pending[i].slot = pending[j].slot /\ pending[i].slot \notin harmed' => i = j
    BY <1>2 DEF SlotsOnce
  <2> QED
    BY <1>1, <2>1 DEF Carried, SlotsOnce
<1>3. ASSUME ReqsOnce PROVE ReqsOnce'
  BY <1>1, <1>3 DEF Carried, ReqsOnce
<1>4. HeldReqs' \subseteq HeldReqs
  BY DEF Carried, HeldReqs
<1>5. HeldByWave' \subseteq HeldByWave
  BY DEF Carried, HeldByWave
<1> QED
  BY <1>2, <1>3, <1>4, <1>5

(* Steps that leave the wave as it is. *)
WaveSteps ==
  \/ RoundBegin \/ CoalesceOff \/ CoalesceBegin \/ CoalesceDrain \/ CoalesceEnd
  \/ ProcessCancellations \/ CancelIncoming
  \/ PrefillSkip \/ PrefillMore \/ AdmitSkip \/ AdmitResetRaises
  \/ IdleBlock \/ IdleRetry \/ Wake \/ ToDecode
  \/ DecodeBegin \/ DecodeRaises \/ VerifyBegin \/ VerifyRaises \/ MtpEnd \/ Reap
  \/ \E s \in Slots : CommitTokens(s) \/ CommitNothing(s) \/ FinishSlot(s) \/ FinishSlotRaises(s)

(* They happen outside admission and activation. *)
LEMMA WaveUnchanged ==
  ASSUME Base, Base', WaveSteps
  PROVE  /\ UNCHANGED <<wave, pending, widx>> /\ ~Recovering /\ ~Holding /\ ~Holding'
         /\ Carried /\ HeldReqs' = HeldReqs /\ HeldByWave' = HeldByWave
<1> USE DEF waveVars
<1>1. UNCHANGED <<wave, pending, widx>>
  BY DEF WaveSteps, RoundBegin, CoalesceOff, CoalesceBegin, CoalesceDrain, CoalesceEnd,
         ProcessCancellations, CancelIncoming, PrefillSkip, PrefillMore, AdmitSkip,
         AdmitResetRaises, IdleBlock, IdleRetry, Wake, ToDecode, DecodeBegin, DecodeRaises,
         VerifyBegin, VerifyRaises, MtpEnd, Reap, CommitTokens, CommitNothing, FinishSlot,
         FinishSlotRaises
<1>2. ~Recovering /\ ~Holding /\ ~Holding'
  <2>1. CASE AdmitResetRaises \/ DecodeRaises \/ VerifyRaises \/ \E s \in Slots : FinishSlotRaises(s)
    BY <2>1 DEF AdmitResetRaises, FailWave, DecodeRaises, VerifyRaises, FinishSlotRaises,
                FinishRequestRaises, Raise, Recovering, Holding
  <2>2. CASE ~AdmitResetRaises /\ ~DecodeRaises /\ ~VerifyRaises /\ ~\E s \in Slots : FinishSlotRaises(s)
    BY <2>2
       DEF WaveSteps, RoundBegin, CoalesceOff, CoalesceBegin, CoalesceDrain, CoalesceEnd,
           ProcessCancellations, CancelIncoming, PrefillSkip, PrefillMore, AdmitSkip,
           IdleBlock, IdleRetry, Wake, ToDecode, DecodeBegin,
           VerifyBegin, MtpEnd, Reap, CommitTokens, CommitNothing, FinishSlot,
           Recovering, Holding
  <2> QED
    BY <2>1, <2>2
<1>3. WaveRest' = {} /\ WaveRest = {} /\ PendingRest' = PendingRest
  BY <1>1, <1>2, HeldFacts, HeldFactsNext DEF HeldShape
<1>4. HeldReqs' = HeldReqs /\ HeldByWave' = HeldByWave
  BY <1>1, <1>3 DEF HeldReqs, HeldByWave
<1> QED
  BY <1>1, <1>2, <1>3, <1>4 DEF Carried

(* The member that is activated leaves the wave. *)
LEMMA WaveActivated ==
  ASSUME Base, Base', ActivateStay \/ ActivateFinish
  PROVE  /\ Carried /\ ~Recovering /\ Holding /\ widx \in WaveRest /\ widx \in 1..Len(wave)
         /\ UNCHANGED <<epc, wave, pending, finished>> /\ finished = {}
         /\ WaveRest' = WaveRest \ {widx} /\ PendingRest = {}
         /\ HeldReqs = HeldReqs' \cup {wave[widx].req}
         /\ HeldByWave = HeldByWave' \cup {wave[widx].slot}
<1>1. /\ UNCHANGED <<epc, wave, pending, finished>> /\ widx' = widx + 1 /\ Activating
      /\ widx <= Len(wave)
  BY DEF ActivateStay, ActivateFinish, roundVars
<1>2. widx \in Nat \ {0} /\ Len(wave) \in Nat
  BY HeldFacts DEF Base, TypeOK, HeldShape
<1>3. WaveRest' = WaveRest \ {widx} /\ widx \in WaveRest /\ widx \in 1..Len(wave)
  BY <1>1, <1>2 DEF WaveRest
<1>4. Holding /\ Holding' /\ ~Recovering /\ finished = {}
  BY <1>1 DEF Activating, Holding, Recovering, Base, Phases
<1>5. PendingRest = {} /\ PendingRest' = {}
  BY <1>4, HeldFacts, HeldFactsNext DEF HeldShape
<1>6. Carried
  BY <1>1, <1>3, <1>5 DEF Carried
<1>7. HeldReqs = HeldReqs' \cup {wave[widx].req}
  BY <1>1, <1>3, <1>5 DEF HeldReqs
<1>8. HeldByWave = HeldByWave' \cup {wave[widx].slot}
  BY <1>1, <1>3, <1>5 DEF HeldByWave
<1> QED
  BY <1>1, <1>3, <1>4, <1>5, <1>6, <1>7, <1>8

(* The wave changes hands whole. *)
LEMMA WaveMoved ==
  ASSUME Base, Base', PrefillDone \/ BeginPending \/ BeginDone
  PROVE  /\ Carried /\ ~Recovering /\ ~Recovering'
         /\ HeldReqs' = HeldReqs /\ HeldByWave' = HeldByWave
<1>1. wave \in Seq(Entry) /\ pending \in Seq(Entry) /\ HeldShape /\ HeldShape'
  BY HeldFacts, HeldFactsNext DEF Base, TypeOK
<1>2. CASE PrefillDone
  <2>1. /\ epc = "prefill" /\ epc' = "activatePending" /\ wave' = pending /\ widx' = 1
    BY <1>2 DEF PrefillDone
  <2>2. WaveRest' = 1..Len(pending) /\ PendingRest' = {} /\ WaveRest = {} /\ PendingRest = 1..Len(pending)
    <3>1. WaveRest' = 1..Len(pending)
      BY <1>1, <2>1 DEF WaveRest
    <3> QED
      BY <1>1, <2>1, <3>1 DEF HeldShape, Holding
  <2> QED
    BY <2>1, <2>2 DEF Carried, HeldReqs, HeldByWave, Recovering
<1>3. CASE BeginPending
  <2>1. epc = "begin" /\ epc' = "idle" /\ pending' = wave
    BY <1>3 DEF BeginPending
  <2>2. WaveRest' = {} /\ PendingRest' = 1..Len(wave) /\ WaveRest = 1..Len(wave) /\ PendingRest = {}
    BY <1>1, <2>1 DEF HeldShape, Holding
  <2> QED
    BY <2>1, <2>2 DEF Carried, HeldReqs, HeldByWave, Recovering
<1>4. CASE BeginDone
  <2>1. epc = "begin" /\ epc' = "activateNow" /\ UNCHANGED <<wave, pending, widx>>
    BY <1>4 DEF BeginDone, waveVars
  <2>2. WaveRest' = WaveRest /\ PendingRest' = {} /\ PendingRest = {}
    BY <1>1, <2>1 DEF HeldShape, Holding, WaveRest
  <2> QED
    BY <2>1, <2>2 DEF Carried, HeldReqs, HeldByWave, Recovering
<1> QED
  BY <1>2, <1>3, <1>4

(* The wave is gone. *)
LEMMA WaveGone ==
  ASSUME Base', ~Holding', pending' = <<>>
  PROVE  Carried /\ HeldReqs' = {} /\ HeldByWave' = {} /\ SlotsOnce' /\ ReqsOnce'
                 /\ WaveRest' = {} /\ PendingRest' = {}
<1>1. WaveRest' = {} /\ PendingRest' = {}
  BY HeldFactsNext DEF HeldShape
<1> QED
  BY <1>1 DEF Carried, HeldReqs, HeldByWave, SlotsOnce, ReqsOnce

-----------------------------------------------------------------------------
(* Slots *)

(* A slot no failure has harmed is free exactly once, or in use. *)
SlotsExact ==
  /\ \A s \in Slots \ harmed : free[s] = IF s \in LiveSlots \cup HeldByWave THEN 0 ELSE 1
  /\ LiveSlots \cap HeldByWave \subseteq harmed

(* What the recovery relies on. *)
RepairSlots ==
  Recovering => \A s \in Slots \ harmed :
    /\ free[s] <= 1
    /\ s \notin ActiveSlots \cup WaveSlots(pending) => free[s] = 1

SlotInv == (~Recovering => SlotsExact /\ SlotsOnce) /\ RepairSlots

(* The slots of an admission are free; those listed once are distinct and  *)
(* unowned.                                                                *)
LEMMA AdmitSlots ==
  ASSUME Base, SlotInv, ~Recovering, NEW a, Admits(Selected, FitCount(Selected), a)
  PROVE  /\ \A i \in 1..Len(Selected) :
              a[i] \in Slots /\ (a[i] \notin harmed => free[a[i]] = 1)
         /\ \A i, j \in 1..Len(Selected) : a[i] = a[j] /\ a[i] \notin harmed => i = j
         /\ \A s \in Slots \ harmed :
              free'[s] = IF \E i \in 1..FitCount(Selected) : a[i] = s THEN 0 ELSE free[s]
<1> DEFINE n == Len(Selected)
           k == FitCount(Selected)
           all(s) == {i \in 1..n : a[i] = s}
           used(s) == {i \in 1..k : a[i] = s}
<1>1. /\ free \in [Slots -> Nat] /\ n \in Nat /\ k \in 0..n
      /\ a \in [1..n -> Slots]
      /\ \A s \in Slots : Cardinality(all(s)) <= free[s]
      /\ free' = [s \in Slots |-> free[s] - Cardinality(used(s))]
  <2>1. free \in [Slots -> Nat] /\ n \in Nat /\ k \in 0..n
    BY AdmitFacts DEF Base, TypeOK
  <2>2. a \in [1..n -> Slots] /\ \A s \in Slots : Cardinality(all(s)) <= free[s]
    BY DEF Admits
  <2>3. free' = [s \in Slots |-> free[s] - Cardinality(used(s))]
    BY DEF Admits
  <2> QED
    BY <2>1, <2>2, <2>3
<1>2. \A s \in Slots \ harmed : free[s] = 0 \/ free[s] = 1
  BY DEF SlotInv, SlotsExact
<1> HIDE DEF n, k
<1>3. IsFiniteSet(1..n)
  BY <1>1, FS_Interval
<1>4. ASSUME NEW s \in Slots \ harmed
      PROVE  /\ IsFiniteSet(all(s)) /\ Cardinality(all(s)) \in Nat
             /\ Cardinality(all(s)) = 0 \/ Cardinality(all(s)) = 1
             /\ Cardinality(all(s)) = 0 <=> all(s) = {}
  <2>1. all(s) \subseteq 1..n
    OBVIOUS
  <2>2. Cardinality(all(s)) <= free[s]
    BY <1>1
  <2> HIDE DEF all
  <2>3. IsFiniteSet(all(s))
    BY <1>3, <2>1, FS_Subset
  <2>4. Cardinality(all(s)) \in Nat /\ (Cardinality(all(s)) = 0 <=> all(s) = {})
    BY <2>3, FS_CardinalityType, FS_EmptySet
  <2> QED
    BY <1>2, <2>2, <2>3, <2>4
<1>5. ASSUME NEW i \in 1..n, a[i] \notin harmed PROVE free[a[i]] = 1
  <2>1. a[i] \in Slots \ harmed /\ i \in all(a[i])
    BY <1>1, <1>5
  <2>2. Cardinality(all(a[i])) <= free[a[i]] /\ all(a[i]) # {}
    BY <1>1, <2>1
  <2> HIDE DEF all
  <2>3. Cardinality(all(a[i])) = 1
    BY <1>4, <2>1, <2>2
  <2> QED
    BY <1>2, <2>1, <2>2, <2>3
<1>6. ASSUME NEW i \in 1..n, NEW j \in 1..n, a[i] = a[j], a[i] \notin harmed PROVE i = j
  <2>1. a[i] \in Slots \ harmed /\ i \in all(a[i]) /\ j \in all(a[i])
    BY <1>1, <1>6
  <2> HIDE DEF all
  <2>2. Cardinality(all(a[i])) = 1 /\ IsFiniteSet(all(a[i]))
    BY <1>4, <2>1
  <2>3. PICK x : all(a[i]) = {x}
    BY <2>2, FS_Singleton
  <2> QED
    BY <2>1, <2>3
<1>7. ASSUME NEW s \in Slots \ harmed
      PROVE  free'[s] = IF \E i \in 1..k : a[i] = s THEN 0 ELSE free[s]
  <2>0. \A i \in 1..k : i \in 1..n
    BY <1>1
  <2>1. free'[s] = free[s] - Cardinality(used(s)) /\ free[s] \in Nat
    BY <1>1
  <2>2. CASE \E i \in 1..k : a[i] = s
    <3>1. PICK i \in 1..k : a[i] = s
      BY <2>2
    <3>2. used(s) = {i}
      BY <1>6, <2>0, <3>1
    <3>3. Cardinality(used(s)) = 1
      <4> HIDE DEF used
      <4> QED
        BY <3>2, FS_Singleton
    <3>4. free[s] = 1
      BY <1>5, <2>0, <3>1
    <3> QED
      BY <2>1, <2>2, <3>3, <3>4
  <2>3. CASE ~ \E i \in 1..k : a[i] = s
    <3>1. used(s) = {}
      BY <2>3
    <3>2. Cardinality(used(s)) = 0
      <4> HIDE DEF used
      <4> QED
        BY <3>1, FS_EmptySet
    <3> QED
      BY <2>1, <2>3, <3>2
  <2> QED
    BY <2>2, <2>3
<1>8. \A i \in 1..n : a[i] \in Slots
  BY <1>1
<1> QED
  BY <1>5, <1>6, <1>7, <1>8 DEF n, k

(* Slots that are neither live nor held afterwards are appended. *)
LEMMA SlotsReturned ==
  ASSUME Base, Base', ~Recovering, ~Recovering', SlotsExact, UNCHANGED harmed, NEW S,
         SlotsOnce', LiveSlots' \cap HeldByWave' \subseteq harmed,
         \A s \in Slots \ harmed :
           /\ s \in S => s \in LiveSlots \cup HeldByWave
           /\ s \in LiveSlots' \cup HeldByWave' <=> s \in LiveSlots \cup HeldByWave /\ s \notin S,
         free' = Append1(free, S)
  PROVE  SlotInv'
<1>1. free \in [Slots -> Nat]
  BY DEF Base, TypeOK
<1>2. \A s \in Slots \ harmed : free'[s] = IF s \in S THEN 1 ELSE free[s]
  <2>1. \A s \in Slots \ harmed : s \in S => free[s] = 0
    BY DEF SlotsExact
  <2> QED
    BY <1>1, <2>1, FreeFacts
<1>3. SlotsExact'
  BY <1>2 DEF SlotsExact
<1> QED
  BY <1>3 DEF SlotInv, RepairSlots

(* The members of the wave lose their slots: the recovery has nothing to   *)
(* do for them.                                                            *)
LEMMA WaveReturned ==
  ASSUME Base, Base', ~Recovering, SlotsExact, finished = {}, UNCHANGED <<active, finished, harmed>>,
         ~Holding', pending' = <<>>,
         \A s \in Slots \ harmed : free'[s] = IF s \in HeldByWave THEN 1 ELSE free[s]
  PROVE  SlotInv'
<1>1. LiveSlots' = LiveSlots /\ LiveSlots = ActiveSlots /\ ActiveSlots' = ActiveSlots
  BY DEF LiveSlots, ActiveSlots
<1>2. HeldByWave' = {} /\ SlotsOnce'
  BY WaveGone
<1>3. \A s \in Slots \ harmed : free'[s] = IF s \in LiveSlots THEN 0 ELSE 1
  BY DEF SlotsExact
<1>4. CASE ~Recovering'
  BY <1>1, <1>2, <1>3, <1>4 DEF SlotInv, SlotsExact, RepairSlots
<1>5. CASE Recovering'
  BY <1>1, <1>3, <1>5 DEF SlotInv, RepairSlots
<1> QED
  BY <1>4, <1>5

(* What `not in` guards return, and what one append per member returns.    *)
LEMMA HeldReturned ==
  ASSUME Base, ~Recovering, SlotsExact, SlotsOnce,
         \/ /\ ~Holding
            /\ free' \in {AppendNew(free, WaveSlots(pending)), AppendEach(free, pending)}
         \/ epc = "begin" /\ free' = AppendEach(free, wave)
  PROVE  \A s \in Slots \ harmed : free'[s] = IF s \in HeldByWave THEN 1 ELSE free[s]
<1>1. free \in [Slots -> Nat] /\ wave \in Seq(Entry) /\ pending \in Seq(Entry)
  BY DEF Base, TypeOK
<1>2. \A s \in Slots \ harmed : s \in HeldByWave => free[s] = 0
  BY DEF SlotsExact
<1>3. CASE ~Holding
  <2>1. HeldByWave = WaveSlots(pending) /\ PendingRest = 1..Len(pending)
    BY <1>3, HeldByFacts, HeldFacts DEF HeldBy, HeldShape
  <2>2. CASE free' = AppendNew(free, WaveSlots(pending))
    BY <1>1, <1>2, <2>1, <2>2, FreeFacts
  <2>3. CASE free' = AppendEach(free, pending)
    <3>1. \A s \in Slots \ harmed : \A i, j \in 1..Len(pending) :
            pending[i].slot = s /\ pending[j].slot = s => i = j
      BY <2>1 DEF SlotsOnce
    <3>2. \A s \in Slots \ harmed :
            free'[s] = IF s \in WaveSlots(pending) THEN free[s] + 1 ELSE free[s]
      BY <1>1, <2>3, <3>1, EachFacts
    <3> QED
      BY <1>2, <2>1, <3>2
  <2>4. epc # "begin"
    BY <1>3 DEF Holding
  <2> QED
    BY <2>2, <2>3, <2>4
<1>4. CASE epc = "begin" /\ free' = AppendEach(free, wave)
  <2>1. HeldByWave = WaveSlots(wave) /\ WaveRest = 1..Len(wave)
    BY <1>4, HeldByFacts, HeldFacts DEF HeldBy, HeldShape
  <2>2. \A s \in Slots \ harmed : \A i, j \in 1..Len(wave) :
          wave[i].slot = s /\ wave[j].slot = s => i = j
    BY <2>1 DEF SlotsOnce
  <2>3. \A s \in Slots \ harmed :
          free'[s] = IF s \in WaveSlots(wave) THEN free[s] + 1 ELSE free[s]
    BY <1>1, <1>4, <2>2, EachFacts
  <2> QED
    BY <1>2, <2>1, <2>3
<1> QED
  BY <1>3, <1>4

(* Slots are conserved, step by step. *)
LEMMA SlotStep ==
  ASSUME Base, Base', SlotInv, Next
  PROVE  SlotInv'
<1>0. harmed \subseteq harmed'
  BY LossGrows
<1>1. /\ free \in [Slots -> Nat] /\ active \in [Slots -> Requests \cup {NoReq}]
      /\ NoReq \notin Requests /\ finished \subseteq ActiveSlots
  BY ConstantsAssumption DEF Base, TypeOK, Phases
<1>2. ~Recovering => SlotsExact /\ SlotsOnce
  BY DEF SlotInv
<1> USE DEF slotVars, waveVars, roundVars, engineVars, lossVars
<1>3. CASE Client \/ Stop
  <2>1. UNCHANGED <<free, active, finished, wave, pending, widx, epc, harmed>>
    BY <1>3 DEF Client, Stop, SubmitCheck, SubmitEnqueue, Disconnect
  <2> QED
    BY <2>1 DEF SlotInv, SlotsExact, SlotsOnce, RepairSlots, LiveSlots, ActiveSlots,
                HeldByWave, WaveRest, PendingRest, Recovering, WaveSlots
<1>4. ASSUME WaveSteps, UNCHANGED <<free, active, finished, harmed>>
      PROVE  SlotInv'
  <2>1. /\ ~Recovering /\ ~Holding /\ ~Holding' /\ Carried /\ HeldByWave' = HeldByWave
        /\ UNCHANGED pending
    BY <1>4, WaveUnchanged
  <2>2. LiveSlots' = LiveSlots /\ ActiveSlots' = ActiveSlots
    BY <1>4 DEF LiveSlots, ActiveSlots
  <2>3. SlotsExact /\ SlotsOnce /\ SlotsOnce'
    BY <1>2, <1>4, <2>1, CarriedFacts
  <2>4. SlotsExact'
    BY <1>4, <2>1, <2>2, <2>3 DEF SlotsExact
  <2>5. HeldByWave = WaveSlots(pending)
    BY <2>1, HeldByFacts DEF HeldBy
  <2>6. ASSUME Recovering' PROVE RepairSlots'
    <3>1. \A s \in Slots : s \notin ActiveSlots' \cup WaveSlots(pending') => s \notin LiveSlots \cup HeldByWave
      BY <2>1, <2>2, <2>5 DEF LiveSlots
    <3> QED
      BY <1>4, <2>2, <2>3, <3>1 DEF RepairSlots, SlotsExact
  <2> QED
    BY <2>3, <2>4, <2>6 DEF SlotInv, RepairSlots
<1>5. CASE RoundBegin \/ CoalesceOff \/ CoalesceBegin \/ CoalesceDrain \/ CoalesceEnd
           \/ CancelIncoming \/ PrefillSkip \/ PrefillMore \/ AdmitSkip \/ AdmitResetRaises
           \/ IdleBlock \/ IdleRetry \/ Wake \/ ToDecode
           \/ DecodeBegin \/ DecodeRaises \/ VerifyBegin \/ VerifyRaises \/ MtpEnd
           \/ \E s \in Slots : CommitTokens(s) \/ CommitNothing(s) \/ FinishSlotRaises(s)
  <2>1. WaveSteps
    BY <1>5, Zenon DEF WaveSteps
  <2>2. UNCHANGED <<free, active, finished, harmed>>
    BY <1>5 DEF RoundBegin, CoalesceOff, CoalesceBegin, CoalesceDrain, CoalesceEnd,
         CancelIncoming, PrefillSkip, PrefillMore, AdmitSkip,
         AdmitResetRaises, IdleBlock, IdleRetry, Wake, ToDecode, DecodeBegin, DecodeRaises,
         VerifyBegin, VerifyRaises, MtpEnd, CommitTokens, CommitNothing,
         FinishSlotRaises, FinishRequestRaises
  <2> QED
    BY <1>4, <2>1, <2>2
<1>6. CASE ProcessCancellations
  <2> DEFINE out == {s \in ActiveSlots : active[s] \in cancelSet}
  <2>1. /\ active' = [s \in Slots |-> IF s \in out THEN NoReq ELSE active[s]]
        /\ free' = Append1(free, out) /\ UNCHANGED finished
        /\ epc = "cancel" /\ epc' \in {"prefill", "incoming"} /\ UNCHANGED harmed
    BY <1>6 DEF ProcessCancellations
  <2>2. finished = {} /\ ~Recovering /\ ~Recovering'
    BY <2>1 DEF Base, Phases, Recovering
  <2>3. LiveSlots' = LiveSlots \ out /\ out \subseteq LiveSlots
    BY <1>1, <2>1, <2>2 DEF LiveSlots, ActiveSlots
  <2>4. HeldByWave' = HeldByWave /\ Carried
    BY <1>6, WaveUnchanged DEF WaveSteps
  <2>5. SlotsOnce'
    BY <1>0, <1>2, <2>2, <2>4, CarriedFacts
  <2> HIDE DEF out
  <2>6. /\ \A s \in Slots \ harmed :
             /\ s \in out => s \in LiveSlots \cup HeldByWave
             /\ s \in LiveSlots' \cup HeldByWave' <=> s \in LiveSlots \cup HeldByWave /\ s \notin out
        /\ LiveSlots' \cap HeldByWave' \subseteq harmed
    BY <1>2, <2>2, <2>3, <2>4 DEF SlotsExact
  <2> QED
    BY <1>2, <2>1, <2>2, <2>5, <2>6, SlotsReturned
<1>7. CASE CancelPending
  <2>1. /\ epc = "refill" /\ epc' = "prefill" /\ UNCHANGED <<active, wave, widx, finished, harmed>>
        /\ \/ pending' = pending /\ free' = AppendNew(free, WaveSlots(<<>>))
           \/ pending' = <<>> /\ free' = AppendNew(free, WaveSlots(pending))
    BY <1>7 DEF CancelPending
  <2>2. ~Recovering /\ ~Recovering' /\ ~Holding /\ ~Holding' /\ finished = {}
    BY <2>1 DEF Recovering, Holding, Base, Phases
  <2>3. CASE pending' = pending /\ free' = AppendNew(free, WaveSlots(<<>>))
    <3>1. free' = free
      <4>1. WaveSlots(<<>>) = {}
        BY DEF WaveSlots
      <4> QED
        BY <1>1, <2>3, <4>1 DEF AppendNew
    <3>2. WaveRest' = WaveRest /\ PendingRest' = PendingRest
      BY <2>1, <2>3 DEF WaveRest, PendingRest
    <3> QED
      BY <1>2, <2>1, <2>2, <2>3, <3>1, <3>2
         DEF SlotInv, SlotsExact, SlotsOnce, RepairSlots, LiveSlots, ActiveSlots, HeldByWave
  <2>4. CASE pending' = <<>> /\ free' = AppendNew(free, WaveSlots(pending))
    <3>1. \A s \in Slots \ harmed : free'[s] = IF s \in HeldByWave THEN 1 ELSE free[s]
      BY <1>2, <2>2, <2>4, HeldReturned
    <3> QED
      BY <1>2, <2>1, <2>2, <2>4, <3>1, WaveReturned
  <2> QED
    BY <2>1, <2>3, <2>4
<1>8. CASE PrefillDone \/ BeginPending \/ BeginDone
  <2>1. UNCHANGED <<free, active, finished, harmed>>
    BY <1>8 DEF PrefillDone, BeginPending, BeginDone
  <2>2. Carried /\ ~Recovering /\ ~Recovering' /\ HeldByWave' = HeldByWave
    BY <1>8, WaveMoved
  <2>3. LiveSlots' = LiveSlots
    BY <2>1 DEF LiveSlots, ActiveSlots
  <2>4. SlotsOnce'
    BY <1>0, <1>2, <2>2, CarriedFacts
  <2> QED
    BY <1>2, <2>1, <2>2, <2>3, <2>4 DEF SlotInv, SlotsExact, RepairSlots
<1>9. CASE PrefillRaises
  <2>1. /\ epc = "prefill" /\ epc' \in {"admit", "recoverFatal"} /\ pending' = <<>>
        /\ free' = AppendEach(free, pending) /\ UNCHANGED <<active, finished, harmed>>
    BY <1>9 DEF PrefillRaises
  <2>2. ~Recovering /\ ~Holding /\ ~Holding' /\ finished = {}
    BY <2>1 DEF Recovering, Holding, Base, Phases
  <2>3. \A s \in Slots \ harmed : free'[s] = IF s \in HeldByWave THEN 1 ELSE free[s]
    BY <1>2, <2>1, <2>2, HeldReturned
  <2> QED
    BY <1>2, <2>1, <2>2, <2>3, WaveReturned
<1>10. CASE BeginRaises
  <2>1. /\ epc = "begin" /\ epc' \in {"idle", "recoverFatal"} /\ pending' = pending
        /\ free' = AppendEach(free, wave) /\ UNCHANGED <<active, finished, harmed>>
    BY <1>10 DEF BeginRaises, FailWave
  <2>2. ~Recovering /\ ~Holding' /\ finished = {} /\ pending = <<>>
    BY <2>1 DEF Recovering, Holding, Base, Phases
  <2>3. \A s \in Slots \ harmed : free'[s] = IF s \in HeldByWave THEN 1 ELSE free[s]
    BY <1>2, <2>1, <2>2, HeldReturned
  <2> QED
    BY <1>2, <2>1, <2>2, <2>3, WaveReturned
<1>11. CASE Admit
  <2>1. PICK a : Admits(Selected, FitCount(Selected), a)
    BY <1>11, AdmitShape
  <2> DEFINE k == FitCount(Selected)
             n == Len(Selected)
  <2>2. epc = "admit" /\ epc' \in {"idle", "begin"} /\ pending = <<>>
        /\ UNCHANGED <<active, finished, pending, harmed>>
    BY <1>11, <2>1 DEF Admit, AdmissionOpen, Admits
  <2>3. ~Recovering /\ ~Recovering' /\ ~Holding
    BY <2>2 DEF Recovering, Holding
  <2>4. /\ \A i \in 1..n : a[i] \in Slots /\ (a[i] \notin harmed => free[a[i]] = 1)
        /\ \A i, j \in 1..n : a[i] = a[j] /\ a[i] \notin harmed => i = j
        /\ \A s \in Slots \ harmed : free'[s] = IF \E i \in 1..k : a[i] = s THEN 0 ELSE free[s]
    BY <2>1, <2>3, AdmitSlots
  <2>5. k \in 0..n /\ n \in Nat /\ Len(wave') = k
    BY <2>1, AdmitFacts
  <2>6. \A i \in 1..k : wave'[i].slot = a[i]
    <3>1. \A i \in 1..k : wave'[i] = [slot |-> a[i], req |-> Selected[i]]
      BY <2>1, AdmitFacts
    <3> SUFFICES ASSUME NEW i \in 1..k PROVE wave'[i].slot = a[i]
      OBVIOUS
    <3>2. wave'[i] = [slot |-> a[i], req |-> Selected[i]]
      BY <3>1
    <3>3. [slot |-> a[i], req |-> Selected[i]].slot = a[i]
      OBVIOUS
    <3> HIDE DEF k
    <3> QED
      BY <3>2, <3>3, Zenon
  <2>7. \A i \in 1..k : i \in 1..n
    BY <2>5
  <2>8. HeldByWave = {} /\ LiveSlots' = LiveSlots
    <3>1. WaveRest = {} /\ PendingRest = {}
      BY <2>2, <2>3, HeldFacts DEF HeldShape
    <3> QED
      BY <2>2, <3>1 DEF LiveSlots, ActiveSlots, HeldByWave
  <2> HIDE DEF k, n
  <2>9. WaveRest' \subseteq 1..k /\ PendingRest' = {} /\ HeldByWave' = {a[i] : i \in 1..k}
    <3>1. PendingRest' = {} /\ WaveRest' \subseteq 1..k
      BY <2>2, <2>5, HeldFactsNext DEF HeldShape
    <3>2. WaveRest' = 1..k
      <4>1. widx' = 1
        BY <2>1 DEF Admits
      <4> QED
        BY <2>5, <4>1 DEF WaveRest
    <3> QED
      BY <2>6, <3>1, <3>2 DEF HeldByWave
  <2>10. SlotsOnce'
    BY <2>2, <2>4, <2>6, <2>7, <2>9 DEF SlotsOnce
  <2>11. SlotsExact'
    <3>1. \A s \in Slots \ harmed : s \in HeldByWave' => s \notin LiveSlots
      BY <1>2, <2>3, <2>4, <2>7, <2>9 DEF SlotsExact
    <3> QED
      BY <1>1, <1>2, <2>2, <2>3, <2>4, <2>7, <2>8, <2>9, <3>1, HeldByNext DEF SlotsExact, HeldBy
  <2> QED
    BY <2>3, <2>10, <2>11 DEF SlotInv, RepairSlots
<1>12. CASE ActivateStay
  <2>1. /\ Carried /\ ~Recovering /\ Holding /\ widx \in WaveRest /\ widx \in 1..Len(wave)
        /\ UNCHANGED <<epc, wave, pending, finished>> /\ finished = {}
        /\ WaveRest' = WaveRest \ {widx} /\ PendingRest = {}
        /\ HeldByWave = HeldByWave' \cup {wave[widx].slot}
    BY <1>12, WaveActivated
  <2>2. wave[widx].slot \in Slots /\ wave[widx].req \in Requests
    BY <2>1, HeldFacts DEF HeldShape
  <2>3. LiveSlots' = LiveSlots \cup {wave[widx].slot}
    <3>1. active' = [active EXCEPT ![wave[widx].slot] = wave[widx].req]
      BY <1>12 DEF ActivateStay
    <3> QED
      BY <1>1, <2>1, <2>2, <3>1 DEF LiveSlots, ActiveSlots
  <2>4. SlotsOnce' /\ UNCHANGED <<free, harmed>> /\ ~Recovering'
    BY <1>0, <1>2, <1>12, <2>1, CarriedFacts DEF ActivateStay, Recovering
  <2>5. wave[widx].slot \notin harmed => wave[widx].slot \notin HeldByWave'
    <3>1. HeldByWave' = {wave[i].slot : i \in WaveRest \ {widx}}
      <4>1. PendingRest' = {}
        BY <2>1, HeldFactsNext DEF HeldShape, Holding
      <4> QED
        BY <2>1, <4>1 DEF HeldByWave
    <3> QED
      BY <1>2, <2>1, <3>1 DEF SlotsOnce
  <2>6. SlotsExact'
    BY <1>2, <2>1, <2>3, <2>4, <2>5 DEF SlotsExact
  <2> QED
    BY <2>4, <2>6 DEF SlotInv, RepairSlots
<1>13. CASE ActivateFinish
  <2>1. /\ Carried /\ ~Recovering /\ Holding /\ widx \in WaveRest /\ widx \in 1..Len(wave)
        /\ UNCHANGED <<epc, wave, pending, finished>> /\ finished = {}
        /\ WaveRest' = WaveRest \ {widx} /\ PendingRest = {}
        /\ HeldByWave = HeldByWave' \cup {wave[widx].slot}
    BY <1>13, WaveActivated
  <2>2. LiveSlots' = LiveSlots
    BY <1>13, <2>1 DEF ActivateFinish, LiveSlots, ActiveSlots
  <2>3. SlotsOnce' /\ free' = Append1(free, {wave[widx].slot}) /\ ~Recovering' /\ UNCHANGED harmed
    BY <1>0, <1>2, <1>13, <2>1, CarriedFacts DEF ActivateFinish, FinishRequest, Recovering
  <2>4. wave[widx].slot \notin harmed => wave[widx].slot \notin HeldByWave'
    <3>1. HeldByWave' = {wave[i].slot : i \in WaveRest \ {widx}}
      <4>1. PendingRest' = {}
        BY <2>1, HeldFactsNext DEF HeldShape, Holding
      <4> QED
        BY <2>1, <4>1 DEF HeldByWave
    <3> QED
      BY <1>2, <2>1, <3>1 DEF SlotsOnce
  <2>5. /\ \A s \in Slots \ harmed :
             /\ s \in {wave[widx].slot} => s \in LiveSlots \cup HeldByWave
             /\ s \in LiveSlots' \cup HeldByWave'
                  <=> s \in LiveSlots \cup HeldByWave /\ s \notin {wave[widx].slot}
        /\ LiveSlots' \cap HeldByWave' \subseteq harmed
    BY <1>2, <2>1, <2>2, <2>4 DEF SlotsExact
  <2> QED
    BY <1>2, <2>1, <2>3, <2>5, SlotsReturned
<1>14. CASE ActivateFinishRaises \/ ActivateRaises
  <2>1. /\ Activating /\ widx <= Len(wave) /\ Raise(epc) /\ UNCHANGED <<free, pending>>
        /\ \/ active' = active /\ SlotsAt(Forgotten) \subseteq harmed'
           \/ /\ active' = [active EXCEPT ![wave[widx].slot] = wave[widx].req]
              /\ SlotsAt(Forgotten \ {widx}) \subseteq harmed'
    BY <1>14 DEF ActivateFinishRaises, FinishRequestRaises, ActivateRaises
  <2>2. Recovering' /\ ~Recovering /\ Holding
    BY <2>1 DEF Activating, Raise, Recovering, Holding
  <2>3. finished = {} /\ widx \in 1..Len(wave) /\ widx \in WaveRest
    <3>1. widx \in Nat \ {0} /\ Len(wave) \in Nat
      BY HeldFacts DEF Base, TypeOK, HeldShape
    <3>2. finished = {}
      BY <2>1 DEF Base, Phases, Activating
    <3> QED
      BY <2>1, <3>1, <3>2 DEF WaveRest
  <2>4. wave[widx].slot \in Slots /\ wave[widx].req \in Requests
    BY <2>3, HeldFacts DEF HeldShape
  <2>5. HeldByWave = SlotsAt(WaveRest) /\ WaveRest \subseteq 1..Len(wave)
    BY <2>2, HeldFacts, HeldByFacts DEF HeldShape, HeldBy, SlotsAt
  <2>6. LiveSlots \subseteq ActiveSlots'
    BY <1>1, <2>1, <2>3, <2>4 DEF LiveSlots, ActiveSlots
  <2>7. HeldByWave \subseteq harmed' \cup ActiveSlots' \cup WaveSlots(pending')
    <3>1. CASE epc = "activatePending"
      <4>1. pending' = wave
        BY <2>1, <3>1 DEF Base, Phases
      <4> QED
        BY <2>5, <4>1 DEF SlotsAt, WaveSlots
    <3>2. CASE epc = "activateNow"
      <4>1. Forgotten = WaveRest
        BY <3>2 DEF Forgotten
      <4>2. CASE SlotsAt(Forgotten) \subseteq harmed'
        BY <2>5, <4>1, <4>2
      <4>3. CASE /\ active' = [active EXCEPT ![wave[widx].slot] = wave[widx].req]
                 /\ SlotsAt(Forgotten \ {widx}) \subseteq harmed'
        <5>1. wave[widx].slot \in ActiveSlots'
          BY <1>1, <2>4, <4>3 DEF ActiveSlots
        <5>2. SlotsAt(WaveRest) \subseteq SlotsAt(WaveRest \ {widx}) \cup {wave[widx].slot}
          BY DEF SlotsAt
        <5> QED
          BY <2>5, <4>1, <4>3, <5>1, <5>2
      <4> QED
        BY <2>1, <4>2, <4>3
    <3> QED
      BY <2>1, <3>1, <3>2 DEF Activating
  <2> QED
    BY <1>0, <1>2, <2>1, <2>2, <2>6, <2>7 DEF SlotInv, RepairSlots, SlotsExact
<1>15. CASE ActivateEnd
  <2>1. /\ Activating /\ ~Holding' /\ ~Recovering' /\ pending' = <<>> /\ UNCHANGED <<active, finished, free, harmed>>
        /\ widx > Len(wave)
    BY <1>15 DEF ActivateEnd, Holding, Recovering
  <2>2. ~Recovering /\ Holding
    BY <2>1 DEF Activating, Recovering, Holding
  <2>3. HeldByWave = {}
    <3>1. WaveRest = {}
      BY <2>1 DEF WaveRest, Base, TypeOK
    <3> QED
      BY <2>2, <3>1, HeldByFacts DEF HeldBy
  <2>4. HeldByWave' = {} /\ SlotsOnce'
    BY <2>1, WaveGone
  <2>5. LiveSlots' = LiveSlots
    BY <2>1 DEF LiveSlots, ActiveSlots
  <2> QED
    BY <1>2, <2>1, <2>2, <2>3, <2>4, <2>5 DEF SlotInv, RepairSlots, SlotsExact
<1>16. CASE \E s \in Slots : FinishSlot(s)
  <2>1. PICK s \in Slots : FinishSlot(s)
    BY <1>16
  <2>2. /\ s \in todo /\ finished' = finished \cup {s} /\ free' = Append1(free, {s})
        /\ epc \in {"plain", "mtp"} /\ UNCHANGED <<active, epc, harmed>>
    BY <2>1 DEF FinishSlot, FinishRequest
  <2>3. s \in LiveSlots
    BY <2>2 DEF LiveSlots, Base, Phases
  <2>4. LiveSlots' = LiveSlots \ {s}
    BY <2>2 DEF LiveSlots, ActiveSlots
  <2>5. HeldByWave' = HeldByWave /\ Carried /\ ~Recovering
    BY <1>16, WaveUnchanged DEF WaveSteps
  <2>6. SlotsOnce' /\ ~Recovering'
    BY <1>0, <1>2, <2>2, <2>5, CarriedFacts DEF Recovering
  <2>7. /\ \A t \in Slots \ harmed :
             /\ t \in {s} => t \in LiveSlots \cup HeldByWave
             /\ t \in LiveSlots' \cup HeldByWave' <=> t \in LiveSlots \cup HeldByWave /\ t \notin {s}
        /\ LiveSlots' \cap HeldByWave' \subseteq harmed
    BY <1>2, <2>3, <2>4, <2>5 DEF SlotsExact
  <2> QED
    BY <1>2, <2>2, <2>5, <2>6, <2>7, SlotsReturned
<1>17. CASE Reap
  <2>1. PICK out \in SUBSET LiveSlots :
          /\ free' = Append1(free, out)
          /\ active' = [s \in Slots |-> IF s \in finished \cup out THEN NoReq ELSE active[s]]
    BY <1>17 DEF Reap, LiveSlots
  <2>2. finished' = {} /\ epc' = "top" /\ epc = "reap" /\ UNCHANGED harmed
    BY <1>17 DEF Reap
  <2>3. LiveSlots' = LiveSlots \ out
    BY <1>1, <2>1, <2>2 DEF LiveSlots, ActiveSlots
  <2>4. HeldByWave' = HeldByWave /\ Carried /\ ~Recovering
    BY <1>17, WaveUnchanged DEF WaveSteps
  <2>5. SlotsOnce' /\ ~Recovering'
    BY <1>0, <1>2, <2>2, <2>4, CarriedFacts DEF Recovering
  <2>6. /\ \A s \in Slots \ harmed :
             /\ s \in out => s \in LiveSlots \cup HeldByWave
             /\ s \in LiveSlots' \cup HeldByWave' <=> s \in LiveSlots \cup HeldByWave /\ s \notin out
        /\ LiveSlots' \cap HeldByWave' \subseteq harmed
    BY <1>2, <2>1, <2>3, <2>4 DEF SlotsExact
  <2> QED
    BY <1>2, <2>1, <2>2, <2>4, <2>5, <2>6, SlotsReturned
<1>18. CASE Recover \/ RecoverFatal
  <2>1. /\ active' = [s \in Slots |-> NoReq] /\ pending' = <<>> /\ finished' = {}
        /\ epc' \in {"top", "exit"} /\ epc \in {"recover", "recoverFatal"}
    BY <1>18 DEF Recover, RecoverFatal, ClearRound, ClearPending
  <2>2. Recovering /\ ~Recovering' /\ ~Holding'
    BY <2>1 DEF Recovering, Holding
  <2>3. \A s \in Slots \ harmed :
          free[s] \in {0, 1} /\ (s \notin ActiveSlots \cup WaveSlots(pending) => free[s] = 1)
    BY <1>1, <2>2 DEF SlotInv, RepairSlots
  <2>5. \A s \in Slots \ harmed' : free'[s] = 1
    <3>1. CASE Recover
      <4> DEFINE f == Append1(free, ActiveSlots)
      <4>1. /\ free' = AppendNew(f, WaveSlots(pending))
            /\ \A s \in Slots \ harmed' : s \in ActiveSlots => free[s] = 0
        BY <1>1, <3>1 DEF Recover
      <4>2. /\ f \in [Slots -> Nat]
            /\ \A s \in Slots : f[s] = IF s \in ActiveSlots THEN free[s] + 1 ELSE free[s]
        BY <1>1, FreeFacts
      <4> HIDE DEF f
      <4>3. \A s \in Slots \ harmed' : f[s] = IF s \in ActiveSlots THEN 1 ELSE free[s]
        BY <4>1, <4>2
      <4>4. \A s \in Slots : free'[s] = IF s \in WaveSlots(pending) /\ f[s] = 0 THEN 1 ELSE f[s]
        BY <4>1, <4>2, FreeFacts
      <4> QED
        BY <1>0, <2>3, <4>3, <4>4
    <3>2. CASE RecoverFatal
      <4>1. free' = AppendNew(free, ActiveSlots \cup WaveSlots(pending))
        BY <3>2 DEF RecoverFatal
      <4>2. \A s \in Slots : free'[s] = IF s \in ActiveSlots \cup WaveSlots(pending) /\ free[s] = 0
                                           THEN 1 ELSE free[s]
        BY <1>1, <4>1, FreeFacts
      <4> QED
        BY <1>0, <2>3, <4>2
    <3> QED
      BY <1>18, <3>1, <3>2
  <2>6. HeldByWave' = {} /\ SlotsOnce'
    BY <2>1, <2>2, WaveGone
  <2>7. LiveSlots' = {}
    BY <2>1 DEF LiveSlots, ActiveSlots
  <2> QED
    BY <2>2, <2>5, <2>6, <2>7 DEF SlotInv, SlotsExact, RepairSlots
<1>19. CASE Exit
  <2>1. /\ epc = "exit" /\ epc' = "exited" /\ pending' = <<>> /\ UNCHANGED <<active, finished, harmed>>
        /\ free' = AppendNew(free, WaveSlots(pending))
    BY <1>19 DEF Exit, ClearPending
  <2>2. ~Recovering /\ ~Holding /\ ~Holding' /\ finished = {}
    BY <2>1 DEF Recovering, Holding, Base, Phases
  <2>3. \A s \in Slots \ harmed : free'[s] = IF s \in HeldByWave THEN 1 ELSE free[s]
    BY <1>2, <2>1, <2>2, HeldReturned
  <2> QED
    BY <1>2, <2>1, <2>2, <2>3, WaveReturned
<1> QED
  BY <1>3, <1>5, <1>6, <1>7, <1>8, <1>9, <1>10, <1>11, <1>12, <1>13, <1>14, <1>15, <1>16, <1>17,
     <1>18, <1>19 DEF Next, Engine

(* SlotInv is an invariant, whichever calls raise. *)
THEOREM SlotInvHolds == Spec => []SlotInv
<1>1. Init => SlotInv
  <2> SUFFICES ASSUME Init PROVE SlotInv
    OBVIOUS
  <2>1. Base
    BY BaseInit
  <2>2. pending = <<>> /\ ~Holding /\ ~Recovering /\ active = [s \in Slots |-> NoReq]
    BY DEF Init, Holding, Recovering
  <2>3. WaveRest = {} /\ PendingRest = {} /\ LiveSlots = {}
    BY <2>1, <2>2, HeldFacts DEF HeldShape, LiveSlots, ActiveSlots
  <2>4. HeldByWave = {} /\ SlotsOnce
    BY <2>3 DEF HeldByWave, SlotsOnce
  <2> QED
    BY <2>2, <2>3, <2>4 DEF Init, SlotInv, SlotsExact, RepairSlots
<1>2. SlotInv /\ Base /\ Base' /\ [Next]_vars => SlotInv'
  <2>1. SlotInv /\ UNCHANGED vars => SlotInv'
    BY DEF SlotInv, SlotsExact, SlotsOnce, RepairSlots, LiveSlots, ActiveSlots, HeldByWave,
           WaveRest, PendingRest, Recovering, WaveSlots, vars, slotVars, waveVars, roundVars,
           lossVars
  <2> QED
    BY <2>1, SlotStep
<1> QED
  BY <1>1, <1>2, BaseHolds, PTL DEF Spec

(* Whichever calls raise: every slot is free exactly once or has exactly   *)
(* one owner, through admission, deferral, cancellation, finish, timeout,  *)
(* watchdog and recovery, save the slots a named failure has taken.        *)
THEOREM EngineSlotConservation == Spec => []SlotConservation
<1>1. SlotInv => SlotConservation
  BY DEF SlotInv, SlotsExact, SlotsOnce, SlotConservation
<1>2. Spec => []SlotInv
  BY SlotInvHolds
<1> QED
  BY <1>1, <1>2, PTL

-----------------------------------------------------------------------------
(* The KV of a slot *)

(* A request is only assigned to a free slot. *)
LEMMA AssignedFree ==
  ASSUME Base, NEW n \in Nat, NEW a \in Assignments(n), NEW i \in 1..n
  PROVE  a[i] \in Slots /\ free[a[i]] > 0
<1> DEFINE all == {j \in 1..n : a[j] = a[i]}
<1>1. a \in [1..n -> Slots] /\ free \in [Slots -> Nat]
  BY DEF Assignments, Base, TypeOK
<1>2. a[i] \in Slots
  BY <1>1
<1>3. Cardinality(all) <= free[a[i]]
  BY <1>2 DEF Assignments
<1>4. all \subseteq 1..n /\ i \in all
  OBVIOUS
<1> HIDE DEF all
<1>5. IsFiniteSet(all)
  <2>1. IsFiniteSet(1..n)
    BY FS_Interval
  <2> QED
    BY <1>4, <2>1, FS_Subset
<1>6. Cardinality(all) # 0 /\ Cardinality(all) \in Nat
  BY <1>4, <1>5, FS_EmptySet, FS_CardinalityType
<1> QED
  BY <1>1, <1>2, <1>3, <1>6

(* Slots that stay in use keep their owner and their KV. *)
LEMMA KvKept ==
  ASSUME Base, Base', ~Recovering, NoForeignKv, Carried, harmed \subseteq harmed',
         \A s \in LiveSlots' \ harmed' : s \in LiveSlots /\ active'[s] = active[s],
         \A s \in (LiveSlots' \cup HeldByWave') \ harmed' : content'[s] = content[s]
  PROVE  NoForeignKv'
<1>1. /\ \A s \in LiveSlots \ harmed' : content[s] = {active[s]}
      /\ \A i \in WaveRest : wave[i].slot \notin harmed' => content[wave[i].slot] = {wave[i].req}
      /\ \A i \in PendingRest :
           pending[i].slot \notin harmed' => content[pending[i].slot] = {pending[i].req}
  BY DEF NoForeignKv
<1>2. \A s \in LiveSlots' \ harmed' : content'[s] = {active'[s]}
  BY <1>1
<1>3. ASSUME NEW i \in WaveRest', wave'[i].slot \notin harmed'
      PROVE  content'[wave'[i].slot] = {wave'[i].req}
  <2>1. content'[wave'[i].slot] = content[wave'[i].slot]
    BY <1>3 DEF HeldByWave
  <2> QED
    BY <1>1, <1>3, <2>1 DEF Carried
<1>4. ASSUME NEW i \in PendingRest', pending'[i].slot \notin harmed'
      PROVE  content'[pending'[i].slot] = {pending'[i].req}
  <2>1. content'[pending'[i].slot] = content[pending'[i].slot]
    BY <1>4 DEF HeldByWave
  <2> QED
    BY <1>1, <1>4, <2>1 DEF Carried
<1> QED
  BY <1>2, <1>3, <1>4 DEF NoForeignKv

(* Resets inside a try/except touch only the slots they are asked to. *)
LEMMA ResetsWithin ==
  ASSUME NEW S, NEW T, S \subseteq T, T \subseteq Slots, \E ok \in GuardedResets(S) : ResetSlots(ok)
  PROVE  \A s \in Slots : s \notin T => content'[s] = content[s]
<1>1. PICK ok \in GuardedResets(S) : ResetSlots(ok)
  OBVIOUS
<1>2. ok \subseteq S
  BY DEF GuardedResets
<1> QED
  BY <1>1, <1>2 DEF ResetSlots

(* A slot in use holds only the KV of its request, step by step. *)
LEMMA KvStep ==
  ASSUME Base, Base', SlotInv, NoForeignKv, Next
  PROVE  NoForeignKv'
<1>0. harmed \subseteq harmed'
  BY LossGrows
<1>1. /\ content \in [Slots -> SUBSET Requests] /\ active \in [Slots -> Requests \cup {NoReq}]
      /\ NoReq \notin Requests /\ HeldByWave \subseteq Slots /\ HeldByWave' \subseteq Slots
      /\ LiveSlots \subseteq Slots /\ LiveSlots' \subseteq Slots
  BY ConstantsAssumption, HeldByFacts, HeldByNext DEF Base, TypeOK, HeldBy, LiveSlots, ActiveSlots
<1>2. ~Recovering => SlotsExact /\ SlotsOnce
  BY DEF SlotInv
<1>3. ASSUME Recovering' PROVE NoForeignKv'
  BY <1>3 DEF NoForeignKv
<1>4. ASSUME UNCHANGED <<active, finished>>
      PROVE  \A s \in LiveSlots' : s \in LiveSlots /\ active'[s] = active[s]
  BY <1>4 DEF LiveSlots, ActiveSlots
<1>5. ASSUME ~Recovering, ~Holding', pending' = <<>>, UNCHANGED <<active, finished>>,
             \A s \in Slots : s \notin HeldByWave => content'[s] = content[s]
      PROVE  NoForeignKv'
  <2>1. Carried /\ HeldByWave' = {}
    BY <1>5, WaveGone
  <2>2. \A s \in (LiveSlots' \cup HeldByWave') \ harmed' : content'[s] = content[s]
    BY <1>0, <1>1, <1>2, <1>4, <1>5, <2>1 DEF SlotsExact
  <2> QED
    BY <1>4, <1>5, <2>1, <2>2, <1>0, KvKept
<1> USE DEF slotVars, waveVars, roundVars, engineVars, lossVars
<1>6. CASE Client \/ Stop
  <2>1. UNCHANGED <<content, active, finished, wave, pending, widx, epc, harmed>>
    BY <1>6 DEF Client, Stop, SubmitCheck, SubmitEnqueue, Disconnect
  <2> QED
    BY <2>1 DEF NoForeignKv, LiveSlots, ActiveSlots, WaveRest, PendingRest, Recovering
<1>7. CASE RoundBegin \/ CoalesceOff \/ CoalesceBegin \/ CoalesceDrain \/ CoalesceEnd
           \/ CancelIncoming \/ PrefillSkip \/ PrefillMore \/ AdmitSkip
           \/ IdleBlock \/ IdleRetry \/ Wake \/ ToDecode
           \/ DecodeBegin \/ DecodeRaises \/ VerifyBegin \/ VerifyRaises \/ MtpEnd
           \/ \E s \in Slots : CommitTokens(s) \/ CommitNothing(s) \/ FinishSlotRaises(s)
  <2>1. WaveSteps
    BY <1>7, Zenon DEF WaveSteps
  <2>2. UNCHANGED <<content, active, finished>>
    BY <1>7 DEF RoundBegin, CoalesceOff, CoalesceBegin, CoalesceDrain, CoalesceEnd,
         CancelIncoming, PrefillSkip, PrefillMore, AdmitSkip,
         IdleBlock, IdleRetry, Wake, ToDecode, DecodeBegin, DecodeRaises,
         VerifyBegin, VerifyRaises, MtpEnd, CommitTokens, CommitNothing,
         FinishSlotRaises, FinishRequestRaises
  <2> QED
    BY <1>4, <2>1, <2>2, WaveUnchanged, <1>0, KvKept
<1>8. CASE PrefillDone \/ BeginPending \/ BeginDone
  <2>1. UNCHANGED <<content, active, finished>>
    BY <1>8 DEF PrefillDone, BeginPending, BeginDone
  <2> QED
    BY <1>4, <1>8, <2>1, WaveMoved, <1>0, KvKept
<1>9. CASE AdmitResetRaises
  <2>1. epc = "admit" /\ pending = <<>> /\ UNCHANGED <<pending, active, finished>> /\ ~Recovering
    BY <1>9 DEF AdmitResetRaises, AdmissionOpen, Recovering
  <2>2. Selected \in Seq(Requests) /\ Len(Selected) \in Nat
    BY SelectedFacts DEF Base, TypeOK
  <2>3. PICK a \in Assignments(Len(Selected)) :
               FailWave([i \in 1..Len(Selected) |-> [slot |-> a[i], req |-> Selected[i]]], "reset")
    BY <1>9 DEF AdmitResetRaises
  <2> DEFINE w == [i \in 1..Len(Selected) |-> [slot |-> a[i], req |-> Selected[i]]]
  <2>4. (\E ok \in GuardedResets(WaveSlots(w)) : ResetSlots(ok)) \/ UNCHANGED content
    BY <2>3, Zenon DEF FailWave
  <2>5. \A i \in 1..Len(Selected) : a[i] \in Slots /\ free[a[i]] > 0
    BY <2>2, AssignedFree
  <2>6. WaveSlots(w) \subseteq {s \in Slots : free[s] > 0}
    <3>1. Len(w) = Len(Selected)
      BY <2>2
    <3>2. \A i \in 1..Len(Selected) : w[i].slot = a[i]
      OBVIOUS
    <3> HIDE DEF w
    <3> QED
      BY <2>5, <3>1, <3>2 DEF WaveSlots
  <2>7. \A s \in Slots : free[s] = 0 => content'[s] = content[s]
    <3>1. CASE UNCHANGED content
      BY <3>1
    <3>2. CASE \E ok \in GuardedResets(WaveSlots(w)) : ResetSlots(ok)
      <4> HIDE DEF w
      <4>1. \A s \in Slots : s \notin {x \in Slots : free[x] > 0} => content'[s] = content[s]
        BY <2>6, <3>2, ResetsWithin
      <4> QED
        BY <4>1
    <3> QED
      BY <2>4, <3>1, <3>2
  <2>8. Carried /\ HeldByWave' = HeldByWave
    BY <1>9, WaveUnchanged DEF WaveSteps
  <2>9. \A s \in (LiveSlots' \cup HeldByWave') \ harmed' : content'[s] = content[s]
    <3>1. \A s \in LiveSlots' : s \in LiveSlots
      BY <1>4, <2>1
    <3> QED
      BY <1>0, <1>1, <1>2, <2>1, <2>7, <2>8, <3>1 DEF SlotsExact
  <2> QED
    BY <1>4, <2>1, <2>8, <2>9, <1>0, KvKept
<1>10. CASE ProcessCancellations
  <2> DEFINE out == {s \in ActiveSlots : active[s] \in cancelSet}
  <2>1. /\ active' = [s \in Slots |-> IF s \in out THEN NoReq ELSE active[s]]
        /\ \E ok \in GuardedResets(out) : ResetSlots(ok)
        /\ UNCHANGED finished /\ epc = "cancel"
    BY <1>10 DEF ProcessCancellations
  <2>2. finished = {} /\ ~Recovering
    BY <2>1 DEF Base, Phases, Recovering
  <2>3. /\ \A s \in LiveSlots' : s \in LiveSlots /\ active'[s] = active[s] /\ s \notin out
        /\ out \subseteq LiveSlots
    BY <1>1, <2>1, <2>2 DEF LiveSlots, ActiveSlots
  <2>4. HeldByWave' = HeldByWave /\ Carried
    BY <1>10, WaveUnchanged DEF WaveSteps
  <2> HIDE DEF out
  <2>5. \A s \in Slots : s \notin out => content'[s] = content[s]
    BY <1>1, <2>1, <2>3, ResetsWithin
  <2>6. \A s \in (LiveSlots' \cup HeldByWave') \ harmed' : content'[s] = content[s]
    BY <1>0, <1>1, <1>2, <2>2, <2>3, <2>4, <2>5 DEF SlotsExact
  <2> QED
    BY <2>2, <2>3, <2>4, <2>6, <1>0, KvKept
<1>11. CASE CancelPending
  <2>1. /\ epc = "refill" /\ epc' = "prefill" /\ UNCHANGED <<active, wave, widx, finished>>
        /\ \/ pending' = pending /\ \E ok \in GuardedResets(WaveSlots(<<>>)) : ResetSlots(ok)
           \/ pending' = <<>> /\ \E ok \in GuardedResets(WaveSlots(pending)) : ResetSlots(ok)
    BY <1>11 DEF CancelPending
  <2>2. ~Recovering /\ ~Recovering' /\ ~Holding /\ ~Holding'
    BY <2>1 DEF Recovering, Holding
  <2>3. CASE pending' = pending /\ \E ok \in GuardedResets(WaveSlots(<<>>)) : ResetSlots(ok)
    <3>1. WaveSlots(<<>>) \subseteq {}
      BY DEF WaveSlots
    <3>2. \A s \in Slots : content'[s] = content[s]
      BY <2>3, <3>1, ResetsWithin
    <3>3. WaveRest' = WaveRest /\ PendingRest' = PendingRest
      BY <2>1, <2>3 DEF WaveRest, PendingRest
    <3>4. Carried
      BY <2>1, <2>3, <3>3 DEF Carried
    <3> QED
      BY <1>1, <1>4, <2>1, <2>2, <3>2, <3>4, <1>0, KvKept
  <2>4. CASE pending' = <<>> /\ \E ok \in GuardedResets(WaveSlots(pending)) : ResetSlots(ok)
    <3>1. HeldByWave = WaveSlots(pending)
      BY <2>2, HeldByFacts DEF HeldBy
    <3>2. \A s \in Slots : s \notin HeldByWave => content'[s] = content[s]
      BY <1>1, <2>4, <3>1, ResetsWithin
    <3> QED
      BY <1>5, <2>1, <2>2, <2>4, <3>2
  <2> QED
    BY <2>1, <2>3, <2>4
<1>12. CASE PrefillRaises
  <2>1. /\ epc = "prefill" /\ pending' = <<>> /\ UNCHANGED <<active, finished>>
        /\ epc' \in {"admit", "recoverFatal"}
        /\ (\E ok \in GuardedResets(WaveSlots(pending)) : ResetSlots(ok)) \/ UNCHANGED content
    BY <1>12 DEF PrefillRaises
  <2>2. ~Recovering /\ ~Holding /\ ~Holding'
    BY <2>1 DEF Recovering, Holding
  <2>3. HeldByWave = WaveSlots(pending)
    BY <2>2, HeldByFacts DEF HeldBy
  <2>4. \A s \in Slots : s \notin HeldByWave => content'[s] = content[s]
    BY <1>1, <2>1, <2>3, ResetsWithin
  <2> QED
    BY <1>5, <2>1, <2>2, <2>4
<1>13. CASE BeginRaises
  <2>1. /\ epc = "begin" /\ pending' = pending /\ UNCHANGED <<active, finished>>
        /\ epc' \in {"idle", "recoverFatal"}
        /\ (\E ok \in GuardedResets(WaveSlots(wave)) : ResetSlots(ok)) \/ UNCHANGED content
    BY <1>13 DEF BeginRaises, FailWave
  <2>2. ~Recovering /\ ~Holding' /\ pending = <<>>
    BY <2>1 DEF Recovering, Holding, Base, Phases
  <2>3. HeldByWave = WaveSlots(wave)
    BY <2>1, HeldByFacts DEF HeldBy
  <2>4. \A s \in Slots : s \notin HeldByWave => content'[s] = content[s]
    BY <1>1, <2>1, <2>3, ResetsWithin
  <2> QED
    BY <1>5, <2>1, <2>2, <2>4
<1>14. CASE Exit
  <2>1. /\ epc = "exit" /\ epc' = "exited" /\ pending' = <<>> /\ UNCHANGED <<active, finished>>
        /\ \E ok \in GuardedResets(WaveSlots(pending)) : ResetSlots(ok)
    BY <1>14 DEF Exit, ClearPending
  <2>2. ~Recovering /\ ~Holding /\ ~Holding'
    BY <2>1 DEF Recovering, Holding
  <2>3. HeldByWave = WaveSlots(pending)
    BY <2>2, HeldByFacts DEF HeldBy
  <2>4. \A s \in Slots : s \notin HeldByWave => content'[s] = content[s]
    BY <1>1, <2>1, <2>3, ResetsWithin
  <2> QED
    BY <1>5, <2>1, <2>2, <2>4
<1>15. CASE Admit
  <2>1. PICK a : Admits(Selected, FitCount(Selected), a)
    BY <1>15, AdmitShape
  <2> DEFINE k == FitCount(Selected)
             n == Len(Selected)
             used(s) == {i \in 1..k : a[i] = s}
  <2>2. epc = "admit" /\ UNCHANGED <<active, finished, pending>> /\ pending = <<>>
    BY <1>15 DEF Admit, AdmissionOpen
  <2>3. ~Recovering
    BY <2>2 DEF Recovering
  <2>4. /\ \A i \in 1..n : a[i] \in Slots /\ (a[i] \notin harmed => free[a[i]] = 1)
        /\ \A i, j \in 1..n : a[i] = a[j] /\ a[i] \notin harmed => i = j
    BY <2>1, <2>3, AdmitSlots
  <2>5. /\ k \in 0..n /\ n \in Nat /\ Len(wave') = k
        /\ \A i \in 1..k : wave'[i] = [slot |-> a[i], req |-> Selected[i]]
    BY <2>1, AdmitFacts
  <2>6. a \in [1..n -> Slots]
    BY <2>1 DEF Admits
  <2>7. content' = [s \in Slots |-> (IF s \in Range(a) THEN {} ELSE content[s])
                                      \cup {Selected[i] : i \in used(s)}]
    BY <2>1 DEF Admits
  <2>8. PendingRest' = {} /\ WaveRest' \subseteq 1..k
    BY <2>2, <2>5, HeldFactsNext DEF HeldShape
  <2> HIDE DEF k, n
  <2>9. \A i \in 1..k : i \in 1..n
    BY <2>5
  <2>10. ASSUME NEW s \in LiveSlots' \ harmed' PROVE content'[s] = {active'[s]}
    <3>1. s \in LiveSlots /\ active'[s] = active[s] /\ s \in Slots /\ s \notin harmed
      BY <1>0, <1>1, <1>4, <2>2
    <3>2. free[s] = 0
      BY <1>2, <2>3, <3>1 DEF SlotsExact
    <3>3. s \notin Range(a)
      BY <2>4, <2>6, <3>1, <3>2 DEF Range
    <3>4. used(s) = {}
      BY <2>4, <2>9, <3>1, <3>2
    <3>5. {Selected[i] : i \in used(s)} = {}
      BY <3>4
    <3>6. content'[s] = content[s]
      <4> HIDE DEF used
      <4> QED
        BY <2>7, <3>1, <3>3, <3>5
    <3> QED
      BY <2>3, <3>1, <3>6 DEF NoForeignKv
  <2>11. ASSUME NEW i \in 1..k, wave'[i].slot \notin harmed'
         PROVE  content'[wave'[i].slot] = {wave'[i].req}
    <3>1. [slot |-> a[i], req |-> Selected[i]].slot = a[i]
          /\ [slot |-> a[i], req |-> Selected[i]].req = Selected[i]
      OBVIOUS
    <3>2. wave'[i].slot = a[i] /\ wave'[i].req = Selected[i]
      BY <2>5, <3>1, Zenon
    <3>3. a[i] \in Slots /\ a[i] \in Range(a) /\ a[i] \notin harmed
      BY <1>0, <2>4, <2>6, <2>9, <2>11, <3>2 DEF Range
    <3>4. used(a[i]) = {i}
      BY <2>4, <2>9, <3>3
    <3>5. {Selected[j] : j \in used(a[i])} = {Selected[i]}
      BY <3>4
    <3> HIDE DEF used
    <3>6. content'[a[i]] = {Selected[i]}
      BY <2>7, <3>3, <3>5
    <3> QED
      BY <3>2, <3>6
  <2> QED
    BY <2>8, <2>10, <2>11 DEF NoForeignKv
<1>16. CASE ActivateStay
  <2>1. /\ Carried /\ ~Recovering /\ Holding /\ widx \in WaveRest /\ widx \in 1..Len(wave)
        /\ UNCHANGED <<epc, wave, pending, finished>> /\ finished = {}
        /\ WaveRest' = WaveRest \ {widx} /\ PendingRest = {}
    BY <1>16, WaveActivated
  <2>2. wave[widx].slot \in Slots /\ wave[widx].req \in Requests
    BY <2>1, HeldFacts DEF HeldShape
  <2>3. active' = [active EXCEPT ![wave[widx].slot] = wave[widx].req] /\ UNCHANGED content
    BY <1>16 DEF ActivateStay
  <2>4. PendingRest' = {}
    BY <2>1, HeldFactsNext DEF HeldShape, Holding
  <2>5. /\ \A s \in LiveSlots \ harmed : content[s] = {active[s]}
        /\ \A i \in WaveRest : wave[i].slot \notin harmed => content[wave[i].slot] = {wave[i].req}
    BY <2>1 DEF NoForeignKv
  <2>6. ASSUME NEW s \in LiveSlots' \ harmed' PROVE content'[s] = {active'[s]}
    <3>0. s \notin harmed
      BY <1>0
    <3>1. s \in Slots /\ (s = wave[widx].slot \/ (s \in LiveSlots /\ active'[s] = active[s]))
      BY <1>1, <2>1, <2>2, <2>3 DEF LiveSlots, ActiveSlots
    <3>2. CASE s = wave[widx].slot
      BY <1>1, <2>1, <2>2, <2>3, <2>5, <3>0, <3>2
    <3>3. CASE s \in LiveSlots /\ active'[s] = active[s]
      BY <2>3, <2>5, <3>0, <3>3
    <3> QED
      BY <3>1, <3>2, <3>3
  <2> QED
    BY <1>0, <2>1, <2>3, <2>4, <2>5, <2>6 DEF NoForeignKv
<1>17. CASE ActivateFinish
  <2>1. /\ Carried /\ ~Recovering /\ Holding /\ widx \in WaveRest /\ widx \in 1..Len(wave)
        /\ UNCHANGED <<epc, wave, pending, finished>> /\ finished = {}
        /\ WaveRest' = WaveRest \ {widx} /\ PendingRest = {}
        /\ HeldByWave = HeldByWave' \cup {wave[widx].slot}
    BY <1>17, WaveActivated
  <2>2. UNCHANGED active /\ ResetSlots({wave[widx].slot})
    BY <1>17 DEF ActivateFinish, FinishRequest
  <2>3. wave[widx].slot \notin harmed =>
          wave[widx].slot \notin HeldByWave' /\ wave[widx].slot \notin LiveSlots
    <3>1. HeldByWave' = {wave[i].slot : i \in WaveRest \ {widx}}
      <4>1. PendingRest' = {}
        BY <2>1, HeldFactsNext DEF HeldShape, Holding
      <4> QED
        BY <2>1, <4>1 DEF HeldByWave
    <3> QED
      BY <1>2, <2>1, <3>1 DEF SlotsOnce, SlotsExact
  <2>4. \A s \in Slots : s # wave[widx].slot => content'[s] = content[s]
    BY <2>2 DEF ResetSlots
  <2>5. \A s \in LiveSlots' : s \in LiveSlots /\ active'[s] = active[s]
    BY <1>4, <2>1, <2>2
  <2>6. \A s \in (LiveSlots' \cup HeldByWave') \ harmed' : content'[s] = content[s]
    BY <1>0, <1>1, <2>3, <2>4, <2>5
  <2> QED
    BY <2>1, <2>5, <2>6, <1>0, KvKept
<1>18. CASE ActivateFinishRaises \/ ActivateRaises
  <2>1. epc' \in {"recover", "recoverFatal"}
    BY <1>18 DEF ActivateFinishRaises, FinishRequestRaises, ActivateRaises, Raise
  <2> QED
    BY <1>3, <2>1 DEF Recovering
<1>19. CASE ActivateEnd
  <2>1. /\ Activating /\ ~Holding' /\ pending' = <<>> /\ UNCHANGED <<active, finished, content>>
    BY <1>19 DEF ActivateEnd, Holding
  <2>2. ~Recovering
    BY <2>1 DEF Activating, Recovering
  <2> QED
    BY <1>5, <2>1, <2>2
<1>20. CASE \E s \in Slots : FinishSlot(s)
  <2>1. PICK s \in Slots : FinishSlot(s)
    BY <1>20
  <2>2. /\ s \in todo /\ finished' = finished \cup {s} /\ ResetSlots({s})
        /\ epc \in {"plain", "mtp"} /\ UNCHANGED active
    BY <2>1 DEF FinishSlot, FinishRequest
  <2>3. s \in LiveSlots
    BY <2>2 DEF LiveSlots, Base, Phases
  <2>4. \A t \in LiveSlots' : t \in LiveSlots /\ t # s /\ active'[t] = active[t]
    BY <2>2 DEF LiveSlots, ActiveSlots
  <2>5. HeldByWave' = HeldByWave /\ Carried /\ ~Recovering
    BY <1>20, WaveUnchanged DEF WaveSteps
  <2>6. \A t \in Slots : t # s => content'[t] = content[t]
    BY <2>2 DEF ResetSlots
  <2>7. \A t \in (LiveSlots' \cup HeldByWave') \ harmed' : content'[t] = content[t]
    BY <1>0, <1>1, <1>2, <2>3, <2>4, <2>5, <2>6 DEF SlotsExact
  <2> QED
    BY <2>4, <2>5, <2>7, <1>0, KvKept
<1>21. CASE Reap
  <2>1. PICK out \in SUBSET LiveSlots :
          /\ \E ok \in GuardedResets(out) : ResetSlots(ok)
          /\ active' = [s \in Slots |-> IF s \in finished \cup out THEN NoReq ELSE active[s]]
    BY <1>21 DEF Reap, LiveSlots
  <2>2. finished' = {}
    BY <1>21 DEF Reap
  <2>3. \A s \in LiveSlots' : s \in LiveSlots /\ s \notin out /\ active'[s] = active[s]
    BY <1>1, <2>1, <2>2 DEF LiveSlots, ActiveSlots
  <2>4. HeldByWave' = HeldByWave /\ Carried /\ ~Recovering
    BY <1>21, WaveUnchanged DEF WaveSteps
  <2>5. \A s \in Slots : s \notin out => content'[s] = content[s]
    BY <1>1, <2>1, ResetsWithin
  <2>6. \A s \in (LiveSlots' \cup HeldByWave') \ harmed' : content'[s] = content[s]
    BY <1>0, <1>1, <1>2, <2>1, <2>3, <2>4, <2>5 DEF SlotsExact
  <2> QED
    BY <2>3, <2>4, <2>6, <1>0, KvKept
<1>22. CASE Recover \/ RecoverFatal
  <2>1. /\ active' = [s \in Slots |-> NoReq] /\ pending' = <<>> /\ epc' \in {"top", "exit"}
    BY <1>22 DEF Recover, RecoverFatal, ClearRound, ClearPending
  <2>2. WaveRest' = {} /\ PendingRest' = {}
    <3>1. ~Holding'
      BY <2>1 DEF Holding
    <3> QED
      BY <2>1, <3>1, WaveGone
  <2>3. LiveSlots' = {}
    BY <2>1 DEF LiveSlots, ActiveSlots
  <2> QED
    BY <2>2, <2>3 DEF NoForeignKv
<1> QED
  BY <1>6, <1>7, <1>8, <1>9, <1>10, <1>11, <1>12, <1>13, <1>14, <1>15, <1>16, <1>17, <1>18, <1>19,
     <1>20, <1>21, <1>22 DEF Next, Engine

(* Whatever failed before: a slot in use that is not listed twice holds    *)
(* only its own request's KV.                                              *)
THEOREM EngineNoForeignKv == Spec => []NoForeignKv
<1>1. Init => NoForeignKv
  <2> SUFFICES ASSUME Init PROVE NoForeignKv
    OBVIOUS
  <2>1. pending = <<>> /\ ~Holding /\ active = [s \in Slots |-> NoReq]
    BY DEF Init, Holding
  <2>2. WaveRest = {} /\ PendingRest = {} /\ LiveSlots = {}
    BY <2>1, BaseInit, HeldFacts DEF HeldShape, LiveSlots, ActiveSlots
  <2> QED
    BY <2>2 DEF NoForeignKv
<1>2. NoForeignKv /\ SlotInv /\ Base /\ Base' /\ [Next]_vars => NoForeignKv'
  <2>1. NoForeignKv /\ UNCHANGED vars => NoForeignKv'
    BY DEF NoForeignKv, LiveSlots, ActiveSlots, WaveRest, PendingRest, Recovering,
           vars, slotVars, waveVars, roundVars, lossVars
  <2> QED
    BY <2>1, KvStep
<1>3. Spec => []SlotInv
  BY SlotInvHolds
<1> QED
  BY <1>1, <1>2, <1>3, BaseHolds, PTL DEF Spec

-----------------------------------------------------------------------------
(* Requests *)

LiveReqs == {active[s] : s \in LiveSlots}

LiveOnce == \A s, t \in LiveSlots : active[s] = active[t] => s = t

AllHomes == Range(deque) \cup Range(incoming) \cup Range(waiting) \cup LiveReqs \cup HeldReqs

(* No request has two homes. *)
HomesDisjoint ==
  /\ Range(deque) \cap (Range(incoming) \cup Range(waiting) \cup LiveReqs \cup HeldReqs) = {}
  /\ Range(incoming) \cap (Range(waiting) \cup LiveReqs \cup HeldReqs) = {}
  /\ Range(waiting) \cap (LiveReqs \cup HeldReqs) = {}
  /\ LiveReqs \cap HeldReqs = {}

HomesApart ==
  /\ IsInjective(deque) /\ IsInjective(incoming) /\ IsInjective(waiting)
  /\ LiveOnce /\ ReqsOnce
  /\ HomesDisjoint
  /\ AllHomes \cap (Released \cup stray) = {}

(* Whichever calls fail, a request is in at most one place, and in none    *)
(* once it is answered or dropped.                                         *)
AtMostOne == ~Recovering => HomesApart

(* An unanswered request that was not dropped is in some place; during     *)
(* recovery, in one that the handler looks at.                             *)
AtLeastOne ==
  /\ ~Recovering => Accepted \ (Released \cup stray) \subseteq AllHomes
  /\ Recovering => Accepted \ (Released \cup stray) \subseteq
       Range(deque) \cup Range(waiting) \cup ActiveReqs \cup WaveReqs(pending)

(* What was dropped had been accepted, and took a slot with it. *)
StrayHarms == stray \subseteq Accepted /\ (stray # {} => harmed # {})

HomeInv == AtMostOne /\ AtLeastOne

(* Slots that go on with their requests. *)
LEMMA LiveSame ==
  ASSUME UNCHANGED <<active, finished>>
  PROVE  /\ LiveSlots' = LiveSlots /\ LiveReqs' = LiveReqs /\ (LiveOnce => LiveOnce')
         /\ ActiveReqs' = ActiveReqs
  BY DEF LiveSlots, ActiveSlots, LiveReqs, LiveOnce, ActiveReqs

(* The accounts of a step that leaves them alone. *)
LEMMA AccountsSame ==
  ASSUME UNCHANGED <<cpc, served, failed>>
  PROVE  Accepted' = Accepted /\ Released' = Released
  BY DEF Accepted, Released

(* The accounts of a step that fails requests. *)
LEMMA AccountsFail ==
  ASSUME NEW R, FailAll(R), UNCHANGED cpc
  PROVE  Accepted' = Accepted /\ Released' = Released \cup R
  BY DEF FailAll, Accepted, Released

(* The accounts of a step that resolves a request. *)
LEMMA AccountsResolve ==
  ASSUME NEW r, Resolve(r), UNCHANGED cpc
  PROVE  Accepted' = Accepted /\ Released' = Released \cup {r}
  BY DEF Resolve, Accepted, Released

(* Live requests are active; outside the pass over incoming requests, the  *)
(* recovery looks at every home.                                           *)
LEMMA RecoveryLooks ==
  ASSUME Base, ~Holding, epc # "refill"
  PROVE  AllHomes \subseteq Range(deque) \cup Range(waiting) \cup ActiveReqs \cup WaveReqs(pending)
<1>1. LiveReqs \subseteq ActiveReqs
  BY DEF LiveReqs, LiveSlots, ActiveReqs
<1>2. HeldReqs = WaveReqs(pending)
  BY HeldByFacts DEF HeldBy
<1>3. Range(incoming) = {}
  BY EmptyRange DEF Base, Phases
<1> QED
  BY <1>1, <1>2, <1>3 DEF AllHomes

(* A request is only dropped with a slot: the one it is overwritten on has *)
(* two owners, the ones forgotten with a wave keep their slots.            *)
LEMMA StrayStep ==
  ASSUME Base, StrayHarms, SlotInv, Next
  PROVE  StrayHarms'
<1>1. Accepted \subseteq Accepted' /\ harmed \subseteq harmed'
  BY AcceptedGrows, LossGrows
<1>2. ASSUME UNCHANGED stray PROVE StrayHarms'
  BY <1>1, <1>2 DEF StrayHarms
<1>3. CASE UNCHANGED lossVars \/ Recover
  BY <1>2, <1>3 DEF lossVars, Recover
<1>4. CASE ActivateStay \/ ActivateFinishRaises \/ ActivateRaises
  <2>1. Activating /\ widx <= Len(wave) /\ widx \in Nat \ {0} /\ Len(wave) \in Nat
    BY <1>4, HeldFacts DEF ActivateStay, ActivateFinishRaises, ActivateRaises, Base, TypeOK,
                          HeldShape
  <2>2. /\ ~Recovering /\ Holding /\ finished = {} /\ widx \in WaveRest
        /\ WaveRest \subseteq 1..Len(wave)
    <3>1. ~Recovering /\ Holding /\ finished = {}
      BY <2>1 DEF Activating, Recovering, Holding, Base, Phases
    <3> QED
      BY <2>1, <3>1 DEF WaveRest
  <2>3. /\ HeldByWave = SlotsAt(WaveRest) /\ ReqsAt(WaveRest) \subseteq Accepted
        /\ wave[widx].slot \in HeldByWave /\ wave[widx].slot \in Slots
    <3>1. HeldByWave = SlotsAt(WaveRest) /\ ReqsAt(WaveRest) \subseteq Accepted
      BY <2>2, HeldByFacts DEF HeldBy, SlotsAt, ReqsAt
    <3> QED
      BY <2>2, <3>1, HeldByFacts DEF SlotsAt, HeldBy
  <2>4. /\ Overwritten(wave[widx].slot) \subseteq Accepted
        /\ Overwritten(wave[widx].slot) # {} => harmed # {}
    <3>1. ASSUME active[wave[widx].slot] # NoReq
          PROVE  active[wave[widx].slot] \in Accepted /\ harmed # {}
      <4>1. wave[widx].slot \in ActiveSlots /\ wave[widx].slot \in LiveSlots
        BY <2>2, <2>3, <3>1 DEF ActiveSlots, LiveSlots
      <4>2. active[wave[widx].slot] \in ActiveReqs
        BY <4>1 DEF ActiveReqs
      <4> QED
        BY <2>2, <2>3, <4>1, <4>2 DEF Base, Contained, SlotInv, SlotsExact
    <3> QED
      BY <3>1 DEF Overwritten
  <2>5. \A I \in SUBSET WaveRest : ReqsAt(I) \subseteq Accepted
    BY <2>3 DEF ReqsAt
  <2>6. Forgotten \in SUBSET WaveRest /\ Forgotten \ {widx} \in SUBSET WaveRest
    BY DEF Forgotten
  <2>7. \A I : ReqsAt(I) # {} => SlotsAt(I) # {}
    BY DEF ReqsAt, SlotsAt
  <2>8. ReqsAt(Forgotten \ {widx}) \subseteq ReqsAt(Forgotten)
    BY DEF ReqsAt
  <2>9. CASE ActivateStay
    <3>1. stray' = stray \cup Overwritten(wave[widx].slot)
      BY <2>9 DEF ActivateStay
    <3> QED
      BY <1>1, <2>4, <3>1 DEF StrayHarms
  <2>10. CASE ActivateFinishRaises
    <3>1. \/ /\ SlotsAt(Forgotten) \subseteq harmed'
             /\ stray' = stray \cup ReqsAt(Forgotten \ {widx})
          \/ /\ SlotsAt(Forgotten \ {widx}) \subseteq harmed'
             /\ stray' = stray \cup ReqsAt(Forgotten \ {widx}) \cup Overwritten(wave[widx].slot)
      BY <2>10 DEF ActivateFinishRaises
    <3>2. ReqsAt(Forgotten \ {widx}) \subseteq Accepted
      BY <2>5, <2>6
    <3>3. ReqsAt(Forgotten \ {widx}) # {} => SlotsAt(Forgotten) # {} /\ SlotsAt(Forgotten \ {widx}) # {}
      BY <2>7, <2>8
    <3> QED
      BY <1>1, <2>4, <3>1, <3>2, <3>3 DEF StrayHarms
  <2>11. CASE ActivateRaises
    <3>1. SlotsAt(Forgotten) \subseteq harmed' /\ stray' = stray \cup ReqsAt(Forgotten)
      BY <2>11 DEF ActivateRaises
    <3>2. ReqsAt(Forgotten) \subseteq Accepted /\ (ReqsAt(Forgotten) # {} => SlotsAt(Forgotten) # {})
      BY <2>5, <2>6, <2>7
    <3> QED
      BY <1>1, <3>1, <3>2 DEF StrayHarms
  <2> QED
    BY <1>4, <2>9, <2>10, <2>11
<1> QED
  BY <1>3, <1>4, LossSteps

(* Callers. *)
LEMMA HomeClient ==
  ASSUME Base, Base', HomeInv, StrayHarms, Client \/ Stop
  PROVE  HomeInv'
<1> USE DEF engineVars, slotVars, waveVars, roundVars, doneVars, passVars, lossVars
<1>1. UNCHANGED <<epc, active, finished, wave, widx, pending, waiting, incoming, served, failed,
                stray>>
  BY DEF Client, Stop, SubmitCheck, SubmitEnqueue, Disconnect
<1>2. /\ LiveReqs' = LiveReqs /\ (LiveOnce => LiveOnce') /\ ActiveReqs' = ActiveReqs
      /\ HeldReqs' = HeldReqs /\ (ReqsOnce => ReqsOnce')
      /\ (Recovering' <=> Recovering) /\ WaveReqs(pending') = WaveReqs(pending)
      /\ Released' = Released
  BY <1>1, LiveSame DEF HeldReqs, ReqsOnce, WaveRest, PendingRest, Recovering, WaveReqs, Released
<1>3. ASSUME UNCHANGED deque, Accepted' = Accepted PROVE HomeInv'
  <2>1. HomesDisjoint => HomesDisjoint'
    BY <1>1, <1>2, <1>3 DEF HomesDisjoint
  <2>2. AllHomes' = AllHomes
    BY <1>1, <1>2, <1>3 DEF AllHomes
  <2>3. HomesApart => HomesApart'
    BY <1>1, <1>2, <1>3, <2>1, <2>2 DEF HomesApart
  <2>4. AtLeastOne => AtLeastOne'
    BY <1>1, <1>2, <1>3, <2>2 DEF AtLeastOne
  <2> QED
    BY <1>2, <2>3, <2>4 DEF HomeInv, AtMostOne
<1>4. cpc \in [Requests -> {"new", "checked", "in", "left", "rejected"}] /\ count \in Nat
      /\ MaxPending \in Nat
  BY ConstantsAssumption DEF Base, TypeOK
<1>5. CASE Stop \/ \E r \in Requests : SubmitCheck(r) \/ Disconnect(r)
  <2>1. UNCHANGED deque
    BY <1>5 DEF Stop, SubmitCheck, Disconnect
  <2>2. Accepted' = Accepted
    BY <1>4, <1>5 DEF Stop, SubmitCheck, Disconnect, Accepted
  <2> QED
    BY <1>3, <2>1, <2>2
<1>6. ASSUME NEW r \in Requests, SubmitEnqueue(r) PROVE HomeInv'
  <2>1. CASE count >= MaxPending
    <3>1. UNCHANGED deque /\ Accepted' = Accepted
      BY <1>4, <1>6, <2>1 DEF SubmitEnqueue, Accepted
    <3> QED
      BY <1>3, <3>1
  <2>2. CASE ~ (count >= MaxPending)
    <3>1. /\ cpc[r] = "checked" /\ cpc' = [cpc EXCEPT ![r] = "in"] /\ count' = count + 1
          /\ deque' = Append(deque, r) /\ count < MaxPending
      BY <1>4, <1>6, <2>2 DEF SubmitEnqueue
    <3>2. Accepted' = Accepted \cup {r} /\ r \notin Accepted
      BY <1>1, <3>1, AcceptFacts
    <3>3. /\ Range(deque') = Range(deque) \cup {r}
          /\ IsInjective(deque) /\ r \notin Range(deque) => IsInjective(deque')
      BY <3>1, RangeOfAppend DEF Base, TypeOK
    <3>4. r \notin AllHomes /\ r \notin Released /\ r \notin stray
      <4>1. LiveReqs \subseteq Accepted
        BY DEF Base, Contained, LiveReqs, LiveSlots, ActiveReqs
      <4> QED
        BY <3>2, <4>1, HeldByFacts DEF Base, Contained, Answered, AllHomes, HeldBy, StrayHarms
    <3>5. AllHomes' = AllHomes \cup {r}
      BY <1>1, <1>2, <3>3 DEF AllHomes
    <3>6. ASSUME HomesApart PROVE HomesApart'
      <4>1. HomesDisjoint'
        BY <1>1, <1>2, <3>3, <3>4, <3>6 DEF HomesApart, HomesDisjoint, AllHomes
      <4>2. IsInjective(deque')
        BY <3>3, <3>4, <3>6 DEF HomesApart, AllHomes
      <4> QED
        BY <1>1, <1>2, <3>4, <3>5, <3>6, <4>1, <4>2 DEF HomesApart
    <3>7. AtLeastOne => AtLeastOne'
      BY <1>1, <1>2, <3>2, <3>3, <3>5 DEF AtLeastOne
    <3> QED
      BY <1>2, <3>6, <3>7 DEF HomeInv, AtMostOne
  <2> QED
    BY <2>1, <2>2
<1> QED
  BY <1>5, <1>6 DEF Client

(* Steps that only move the engine along, or end in an exception. *)
LEMMA HomeSilent ==
  ASSUME Base, Base', HomeInv,
         \/ CoalesceOff \/ CoalesceEnd \/ PrefillSkip \/ PrefillMore \/ AdmitSkip \/ IdleRetry
         \/ ToDecode \/ DecodeBegin \/ DecodeRaises \/ VerifyBegin \/ VerifyRaises \/ MtpEnd
         \/ \E s \in Slots : CommitTokens(s) \/ CommitNothing(s)
  PROVE  HomeInv'
<1> USE DEF slotVars, roundVars, queueVars, passVars, clientVars, doneVars, lossVars
<1>1. /\ UNCHANGED <<active, finished, waiting, deque, incoming, cpc, served, failed, stray>>
      /\ epc' # "refill"
  BY DEF CoalesceOff, CoalesceEnd, PrefillSkip, PrefillMore, AdmitSkip, IdleRetry, ToDecode,
         DecodeBegin, DecodeRaises, VerifyBegin, VerifyRaises, MtpEnd, CommitTokens, CommitNothing,
         Raise
<1>2. WaveSteps
  BY Zenon DEF WaveSteps
<1>3. /\ ~Recovering /\ ~Holding /\ ~Holding' /\ Carried /\ HeldReqs' = HeldReqs
      /\ UNCHANGED <<wave, pending>> /\ epc # "refill"
  <2>1. epc # "refill"
    BY DEF CoalesceOff, CoalesceEnd, PrefillSkip, PrefillMore, AdmitSkip, IdleRetry, ToDecode,
           DecodeBegin, DecodeRaises, VerifyBegin, VerifyRaises, MtpEnd, CommitTokens, CommitNothing
  <2> QED
    BY <1>2, <2>1, WaveUnchanged
<1>4. HomesApart /\ Accepted \ (Released \cup stray) \subseteq AllHomes
  BY <1>3 DEF HomeInv, AtMostOne, AtLeastOne
<1>5. LiveReqs' = LiveReqs /\ LiveOnce' /\ ActiveReqs' = ActiveReqs /\ ReqsOnce'
  BY <1>1, <1>3, <1>4, LiveSame, CarriedFacts DEF HomesApart
<1>6. Accepted' = Accepted /\ Released' = Released
  BY <1>1, AccountsSame
<1>7. AllHomes' = AllHomes
  BY <1>1, <1>3, <1>5 DEF AllHomes
<1>8. HomesDisjoint'
  BY <1>1, <1>3, <1>4, <1>5 DEF HomesApart, HomesDisjoint
<1>9. HomesApart'
  BY <1>1, <1>4, <1>5, <1>6, <1>7, <1>8 DEF HomesApart
<1>10. AtLeastOne'
  <2>1. WaveReqs(pending') = WaveReqs(pending)
    BY <1>3
  <2> QED
    BY <1>1, <1>3, <1>4, <1>5, <1>6, <1>7, <2>1, RecoveryLooks DEF AtLeastOne
<1> QED
  BY <1>9, <1>10 DEF HomeInv, AtMostOne

(* The deque is drained into waiting. *)
LEMMA HomeDrain ==
  ASSUME Base, Base', HomeInv, RoundBegin \/ CoalesceBegin \/ CoalesceDrain \/ IdleBlock \/ Wake
  PROVE  HomeInv'
<1> USE DEF slotVars, roundVars, queueVars, passVars, clientVars, doneVars, lossVars
<1>1. UNCHANGED <<active, finished, incoming, cpc, served, failed, stray>>
  BY DEF RoundBegin, CoalesceBegin, CoalesceDrain, IdleBlock, Wake
<1>2. \/ UNCHANGED <<deque, waiting>>
      \/ deque' = <<>> /\ waiting' = waiting \o deque
      \/ deque' = <<>> /\ waiting' = deque /\ waiting = <<>>
  BY DEF RoundBegin, CoalesceBegin, CoalesceDrain, IdleBlock, Wake
<1>3. /\ ~Recovering /\ ~Holding /\ ~Holding' /\ Carried /\ HeldReqs' = HeldReqs /\ ~Recovering'
  <2>1. WaveSteps
    BY DEF WaveSteps
  <2>2. ~Recovering'
    BY DEF RoundBegin, CoalesceBegin, CoalesceDrain, IdleBlock, Wake, Recovering
  <2> QED
    BY <2>1, <2>2, WaveUnchanged
<1>4. HomesApart /\ Accepted \ (Released \cup stray) \subseteq AllHomes
  BY <1>3 DEF HomeInv, AtMostOne, AtLeastOne
<1>5. LiveReqs' = LiveReqs /\ LiveOnce' /\ ReqsOnce'
  BY <1>1, <1>3, <1>4, LiveSame, CarriedFacts DEF HomesApart
<1>6. Accepted' = Accepted /\ Released' = Released
  BY <1>1, AccountsSame
<1>7. /\ Range(waiting') \cup Range(deque') = Range(waiting) \cup Range(deque)
      /\ Range(waiting') \cap Range(deque') = {}
      /\ IsInjective(waiting') /\ IsInjective(deque')
  <2>1. /\ IsInjective(deque) /\ IsInjective(waiting) /\ Range(waiting) \cap Range(deque) = {}
        /\ deque \in Seq(Requests) /\ waiting \in Seq(Requests)
    BY <1>4 DEF HomesApart, HomesDisjoint, Base, TypeOK
  <2>2. Range(<<>>) = {} /\ IsInjective(<<>>)
    BY EmptyRange
  <2>3. /\ Range(waiting \o deque) = Range(waiting) \cup Range(deque)
        /\ IsInjective(waiting \o deque)
    BY <2>1, RangeOfConcat
  <2> QED
    BY <1>2, <2>1, <2>2, <2>3
<1>8. AllHomes' = AllHomes
  BY <1>1, <1>3, <1>5, <1>7 DEF AllHomes
<1>9. HomesDisjoint'
  BY <1>1, <1>3, <1>4, <1>5, <1>7 DEF HomesApart, HomesDisjoint
<1>10. HomesApart'
  BY <1>1, <1>4, <1>5, <1>6, <1>7, <1>8, <1>9 DEF HomesApart
<1> QED
  BY <1>1, <1>3, <1>4, <1>6, <1>8, <1>10 DEF HomeInv, AtMostOne, AtLeastOne

(* Requests that are answered leave their homes, the others stay somewhere. *)
LEMMA HomesSettle ==
  ASSUME HomeInv, ~Recovering, ~Recovering', UNCHANGED stray, NEW R,
         Accepted' = Accepted, Released' = Released \cup R, AllHomes' = AllHomes \ R,
         IsInjective(deque'), IsInjective(incoming'), IsInjective(waiting'),
         LiveOnce', ReqsOnce', HomesDisjoint'
  PROVE  HomeInv'
<1>1. HomesApart /\ Accepted \ (Released \cup stray) \subseteq AllHomes
  BY DEF HomeInv, AtMostOne, AtLeastOne
<1>2. HomesApart'
  BY <1>1 DEF HomesApart
<1> QED
  BY <1>1, <1>2 DEF HomeInv, AtMostOne, AtLeastOne

(* The cancellation pass over active and waiting. *)
LEMMA HomeProcess ==
  ASSUME Base, Base', HomeInv, ProcessCancellations
  PROVE  HomeInv'
<1> DEFINE out == {s \in ActiveSlots : active[s] \in cancelSet}
           R == cancelSet \cap (LiveReqs \cup Range(waiting))
<1> USE DEF slotVars, roundVars, queueVars, passVars, clientVars, doneVars, lossVars
<1>1. /\ active' = [s \in Slots |-> IF s \in out THEN NoReq ELSE active[s]]
      /\ waiting' = Drop(waiting, cancelSet) /\ UNCHANGED <<finished, deque, incoming, cpc, stray>>
      /\ epc = "cancel" /\ epc' \in {"prefill", "incoming"}
  BY DEF ProcessCancellations
<1>2. FailAll(cancelSet \cap ({active[s] : s \in out} \cup Range(waiting)))
  BY Zenon DEF ProcessCancellations
<1>3. finished = {} /\ ~Recovering /\ ~Recovering'
  BY <1>1 DEF Base, Phases, Recovering
<1>4. /\ active \in [Slots -> Requests \cup {NoReq}] /\ NoReq \notin Requests
      /\ waiting \in Seq(Requests) /\ cancelSet \subseteq Requests
  BY ConstantsAssumption DEF Base, TypeOK
<1>5. HomesApart
  BY <1>3 DEF HomeInv, AtMostOne
<1>6. /\ LiveSlots = ActiveSlots /\ LiveSlots' = LiveSlots \ out
      /\ \A s \in LiveSlots' : active'[s] = active[s] /\ active[s] \notin cancelSet
      /\ \A s \in LiveSlots : active[s] \notin cancelSet => s \in LiveSlots'
  BY <1>1, <1>3, <1>4 DEF LiveSlots, ActiveSlots
<1>7. LiveReqs' = LiveReqs \ cancelSet /\ LiveOnce'
  BY <1>5, <1>6 DEF LiveReqs, LiveOnce, HomesApart
<1>8. cancelSet \cap ({active[s] : s \in out} \cup Range(waiting)) = R
  BY <1>6 DEF LiveReqs
<1>9. Range(waiting') = Range(waiting) \ cancelSet /\ IsInjective(waiting')
  BY <1>1, <1>4, <1>5, DropFacts DEF HomesApart
<1>10. HeldReqs' = HeldReqs /\ Carried
  BY WaveUnchanged DEF WaveSteps
<1>11. ReqsOnce'
  BY <1>5, <1>10, CarriedFacts DEF HomesApart
<1>12. Accepted' = Accepted /\ Released' = Released \cup R
  BY <1>1, <1>2, <1>8, AccountsFail
<1>13. HomesDisjoint'
  BY <1>1, <1>5, <1>7, <1>9, <1>10 DEF HomesApart, HomesDisjoint
<1>14. AllHomes' = AllHomes \ R
  BY <1>1, <1>5, <1>7, <1>9, <1>10 DEF HomesApart, HomesDisjoint, AllHomes
<1>15. IsInjective(deque') /\ IsInjective(incoming')
  BY <1>1, <1>5 DEF HomesApart
<1> HIDE DEF R
<1> QED
  BY <1>1, <1>3, <1>7, <1>9, <1>11, <1>12, <1>13, <1>14, <1>15, HomesSettle

(* The cancellation pass over the deque. *)
LEMMA HomeIncoming ==
  ASSUME Base, Base', HomeInv, CancelIncoming
  PROVE  HomeInv'
<1> DEFINE R == cancelIds \cap Range(deque)
<1> USE DEF slotVars, roundVars, queueVars, passVars, clientVars, doneVars, lossVars
<1>1. /\ FailAll(R) /\ incoming' = Drop(deque, cancelIds) /\ deque' = <<>>
      /\ UNCHANGED <<active, finished, waiting, cpc, stray>> /\ epc = "incoming" /\ epc' = "refill"
  BY DEF CancelIncoming
<1>2. ~Recovering /\ ~Recovering' /\ incoming = <<>> /\ deque \in Seq(Requests)
  BY <1>1 DEF Base, Phases, Recovering, TypeOK
<1>3. HomesApart
  BY <1>2 DEF HomeInv, AtMostOne
<1>4. LiveReqs' = LiveReqs /\ LiveOnce'
  BY <1>1, <1>3, LiveSame DEF HomesApart
<1>5. /\ Range(incoming') = Range(deque) \ cancelIds /\ IsInjective(incoming')
      /\ Range(deque') = {} /\ IsInjective(deque') /\ Range(incoming) = {}
  BY <1>1, <1>2, <1>3, DropFacts, EmptyRange DEF HomesApart
<1>6. HeldReqs' = HeldReqs /\ Carried
  BY WaveUnchanged DEF WaveSteps
<1>7. ReqsOnce'
  BY <1>3, <1>6, CarriedFacts DEF HomesApart
<1>8. Accepted' = Accepted /\ Released' = Released \cup R
  BY <1>1, AccountsFail
<1>9. HomesDisjoint'
  BY <1>1, <1>3, <1>4, <1>5, <1>6 DEF HomesApart, HomesDisjoint
<1>10. AllHomes' = AllHomes \ R
  BY <1>1, <1>3, <1>4, <1>5, <1>6 DEF HomesApart, HomesDisjoint, AllHomes
<1>11. IsInjective(waiting')
  BY <1>1, <1>3 DEF HomesApart
<1> HIDE DEF R
<1> QED
  BY <1>1, <1>2, <1>4, <1>5, <1>7, <1>8, <1>9, <1>10, <1>11, HomesSettle

(* The cancellation pass over the pending wave. *)
LEMMA HomeRefill ==
  ASSUME Base, Base', HomeInv, CancelPending
  PROVE  HomeInv'
<1> USE DEF slotVars, roundVars, queueVars, passVars, clientVars, doneVars, lossVars
<1>1. /\ epc = "refill" /\ epc' = "prefill" /\ deque' = deque \o incoming /\ incoming' = <<>>
      /\ UNCHANGED <<active, finished, wave, widx, cpc, stray>>
      /\ \/ /\ FailAll(WaveReqs(<<>>) \cap cancelIds) /\ UNCHANGED <<waiting, pending>>
         \/ /\ FailAll(WaveReqs(pending) \cap cancelIds) /\ pending' = <<>>
            /\ waiting' = RequeueMembers(cancelIds) \o waiting
  BY DEF CancelPending, ExtendDeque
<1>2. ~Recovering /\ ~Recovering' /\ ~Holding /\ ~Holding'
  BY <1>1 DEF Recovering, Holding
<1>3. /\ deque \in Seq(Requests) /\ incoming \in Seq(Requests) /\ waiting \in Seq(Requests)
      /\ pending \in Seq(Entry)
  BY DEF Base, TypeOK
<1>4. HomesApart /\ HeldReqs = WaveReqs(pending)
  BY <1>2, HeldByFacts DEF HomeInv, AtMostOne, HeldBy
<1>5. LiveReqs' = LiveReqs /\ LiveOnce'
  BY <1>1, <1>4, LiveSame DEF HomesApart
<1>6. /\ Range(deque') = Range(deque) \cup Range(incoming) /\ IsInjective(deque')
      /\ Range(incoming') = {} /\ IsInjective(incoming')
  BY <1>1, <1>3, <1>4, RangeOfConcat, EmptyRange DEF HomesApart, HomesDisjoint
<1>7. CASE FailAll(WaveReqs(<<>>) \cap cancelIds) /\ UNCHANGED <<waiting, pending>>
  <2>1. WaveReqs(<<>>) \cap cancelIds = {}
    BY DEF WaveReqs
  <2>2. Accepted' = Accepted /\ Released' = Released \cup {}
    BY <1>1, <1>7, <2>1, AccountsFail
  <2>3. WaveRest' = WaveRest /\ PendingRest' = PendingRest
    BY <1>1, <1>7 DEF WaveRest, PendingRest
  <2>4. HeldReqs' = HeldReqs /\ ReqsOnce'
    BY <1>1, <1>4, <1>7, <2>3 DEF HeldReqs, HomesApart, ReqsOnce
  <2>5. HomesDisjoint'
    BY <1>4, <1>5, <1>6, <1>7, <2>4 DEF HomesApart, HomesDisjoint
  <2>6. AllHomes' = AllHomes \ {}
    BY <1>5, <1>6, <1>7, <2>4 DEF AllHomes
  <2>7. IsInjective(waiting')
    BY <1>4, <1>7 DEF HomesApart
  <2> QED
    BY <1>1, <1>2, <1>5, <1>6, <2>2, <2>4, <2>5, <2>6, <2>7, HomesSettle
<1>8. CASE /\ FailAll(WaveReqs(pending) \cap cancelIds) /\ pending' = <<>>
           /\ waiting' = RequeueMembers(cancelIds) \o waiting
  <2> DEFINE R == WaveReqs(pending) \cap cancelIds
             Q == RequeueMembers(cancelIds)
  <2>1. Accepted' = Accepted /\ Released' = Released \cup R
    BY <1>1, <1>8, AccountsFail
  <2>2. HeldReqs' = {} /\ ReqsOnce'
    BY <1>2, <1>8, WaveGone
  <2>3. IsInjective(Reqs(pending))
    <3>1. PendingRest = 1..Len(pending)
      BY <1>2, HeldFacts DEF HeldShape
    <3>2. \A i, j \in 1..Len(pending) : pending[i].req = pending[j].req => i = j
      BY <1>4, <3>1 DEF HomesApart, ReqsOnce
    <3> QED
      BY <3>2 DEF Reqs, IsInjective
  <2>4. Q \in Seq(Requests) /\ Range(Q) = HeldReqs \ cancelIds /\ IsInjective(Q)
    BY <1>3, <1>4, <2>3, RequeueFacts
  <2>5. Range(Q) \cap Range(waiting) = {} /\ IsInjective(waiting)
    BY <1>4, <2>4 DEF HomesApart, HomesDisjoint
  <2> HIDE DEF Q
  <2>6. Range(waiting') = (HeldReqs \ cancelIds) \cup Range(waiting) /\ IsInjective(waiting')
    <3>1. waiting' = Q \o waiting
      BY <1>8 DEF Q
    <3> QED
      BY <1>3, <2>4, <2>5, <3>1, RangeOfConcat
  <2>7. HomesDisjoint'
    BY <1>4, <1>5, <1>6, <2>2, <2>6 DEF HomesApart, HomesDisjoint
  <2>8. AllHomes' = AllHomes \ R
    BY <1>4, <1>5, <1>6, <2>2, <2>6 DEF HomesApart, HomesDisjoint, AllHomes
  <2> HIDE DEF R
  <2> QED
    BY <1>1, <1>2, <1>5, <1>6, <2>1, <2>2, <2>6, <2>7, <2>8, HomesSettle
<1> QED
  BY <1>1, <1>7, <1>8

(* The wave changes hands whole, or loses its last member. *)
LEMMA HomeMoved ==
  ASSUME Base, Base', HomeInv, PrefillDone \/ BeginPending \/ BeginDone \/ ActivateEnd
  PROVE  HomeInv'
<1> USE DEF slotVars, roundVars, queueVars, passVars, clientVars, doneVars, lossVars
<1>1. UNCHANGED <<active, finished, waiting, deque, incoming, cpc, served, failed, stray>>
  BY DEF PrefillDone, BeginPending, BeginDone, ActivateEnd
<1>2. Carried /\ ~Recovering /\ ~Recovering' /\ HeldReqs' = HeldReqs
  <2>1. CASE PrefillDone \/ BeginPending \/ BeginDone
    BY <2>1, WaveMoved
  <2>2. CASE ActivateEnd
    <3>1. /\ Activating /\ ~Holding' /\ ~Recovering' /\ pending' = <<>> /\ widx > Len(wave)
      BY <2>2 DEF ActivateEnd, Holding, Recovering
    <3>2. ~Recovering /\ Holding
      BY <3>1 DEF Activating, Recovering, Holding
    <3>3. WaveRest = {}
      BY <3>1 DEF WaveRest, Base, TypeOK
    <3> QED
      BY <3>1, <3>2, <3>3, HeldByFacts, WaveGone DEF HeldBy
  <2> QED
    BY <2>1, <2>2
<1>3. HomesApart
  BY <1>2 DEF HomeInv, AtMostOne
<1>4. LiveReqs' = LiveReqs /\ LiveOnce' /\ ReqsOnce'
  BY <1>1, <1>2, <1>3, LiveSame, CarriedFacts DEF HomesApart
<1>5. Accepted' = Accepted /\ Released' = Released \cup {}
  BY <1>1, AccountsSame
<1>6. HomesDisjoint'
  BY <1>1, <1>2, <1>3, <1>4 DEF HomesApart, HomesDisjoint
<1>7. AllHomes' = AllHomes \ {}
  BY <1>1, <1>2, <1>4 DEF AllHomes
<1>8. IsInjective(deque') /\ IsInjective(incoming') /\ IsInjective(waiting')
  BY <1>1, <1>3 DEF HomesApart
<1> QED
  BY <1>1, <1>2, <1>4, <1>5, <1>6, <1>7, <1>8, HomesSettle

(* A wave fails as a whole. *)
LEMMA HomeWaveFails ==
  ASSUME Base, Base', HomeInv, PrefillRaises \/ BeginRaises
  PROVE  HomeInv'
<1> USE DEF slotVars, roundVars, queueVars, passVars, clientVars, doneVars, lossVars
<1>1. /\ UNCHANGED <<active, finished, waiting, deque, incoming, cpc, stray>>
      /\ epc \in {"prefill", "begin"} /\ epc' \in {"admit", "idle", "recoverFatal"}
  BY DEF PrefillRaises, BeginRaises, FailWave
<1>2. ~Recovering /\ ~Holding'
  BY <1>1 DEF Recovering, Holding
<1>3. FailAll(HeldReqs) /\ pending' = <<>>
  <2>1. CASE PrefillRaises
    <3>1. HeldReqs = WaveReqs(pending)
      BY <2>1, HeldByFacts DEF HeldBy, PrefillRaises, Holding
    <3> QED
      BY <2>1, <3>1 DEF PrefillRaises
  <2>2. CASE BeginRaises
    <3>1. HeldReqs = WaveReqs(wave) /\ pending = <<>>
      BY <2>2, HeldByFacts DEF HeldBy, BeginRaises, Base, Phases
    <3> QED
      BY <2>2, <3>1 DEF BeginRaises, FailWave
  <2> QED
    BY <2>1, <2>2
<1>4. HeldReqs' = {} /\ ReqsOnce'
  BY <1>2, <1>3, WaveGone
<1>5. HomesApart /\ Accepted \ (Released \cup stray) \subseteq AllHomes
  BY <1>2 DEF HomeInv, AtMostOne, AtLeastOne
<1>6. LiveReqs' = LiveReqs /\ LiveOnce' /\ ActiveReqs' = ActiveReqs
  BY <1>1, <1>5, LiveSame DEF HomesApart
<1>7. Accepted' = Accepted /\ Released' = Released \cup HeldReqs
  BY <1>1, <1>3, AccountsFail
<1>8. CASE ~Recovering'
  <2>1. HomesDisjoint'
    BY <1>1, <1>4, <1>5, <1>6 DEF HomesApart, HomesDisjoint
  <2>2. AllHomes' = AllHomes \ HeldReqs
    BY <1>1, <1>4, <1>5, <1>6 DEF HomesApart, HomesDisjoint, AllHomes
  <2>3. IsInjective(deque') /\ IsInjective(incoming') /\ IsInjective(waiting')
    BY <1>1, <1>5 DEF HomesApart
  <2> QED
    BY <1>1, <1>2, <1>4, <1>6, <1>7, <1>8, <2>1, <2>2, <2>3, HomesSettle
<1>9. CASE Recovering'
  <2>1. Range(incoming) = {} /\ LiveReqs \subseteq ActiveReqs
    BY <1>1, EmptyRange DEF Base, Phases, LiveReqs, LiveSlots, ActiveReqs
  <2>2. Accepted' \ (Released' \cup stray') \subseteq
          Range(deque') \cup Range(waiting') \cup ActiveReqs' \cup WaveReqs(pending')
    BY <1>1, <1>5, <1>6, <1>7, <2>1 DEF AllHomes
  <2> QED
    BY <1>9, <2>2 DEF HomeInv, AtMostOne, AtLeastOne
<1> QED
  BY <1>8, <1>9

(* Selected requests move from waiting to the wave, except the ones behind *)
(* a capacity miss.                                                        *)
LEMMA HomeAdmit ==
  ASSUME Base, Base', HomeInv, Admit
  PROVE  HomeInv'
<1> USE DEF slotVars, roundVars, queueVars, passVars, clientVars, doneVars, lossVars
<1> DEFINE sel == Selected
           k == FitCount(Selected)
           n == Len(Selected)
           tail == SubSeq(Selected, FitCount(Selected) + 1, Len(Selected))
<1>1. PICK a : Admits(Selected, FitCount(Selected), a)
  BY AdmitShape
<1>2. /\ epc = "admit" /\ epc' \in {"idle", "begin"} /\ pending = <<>> /\ pending' = pending
      /\ UNCHANGED <<active, finished, deque, incoming, cpc, served, failed, stray>>
  BY <1>1 DEF Admit, AdmissionOpen, Admits
<1>3. ~Recovering /\ ~Recovering' /\ ~Holding
  BY <1>2 DEF Recovering, Holding
<1>4. HomesApart /\ waiting \in Seq(Requests)
  BY <1>3 DEF HomeInv, AtMostOne, Base, TypeOK
<1>5. /\ sel \in Seq(Requests) /\ n \in Nat /\ k \in 0..n /\ Len(wave') = k
      /\ \A i \in 1..k : wave'[i] = [slot |-> a[i], req |-> sel[i]]
  BY <1>1, AdmitFacts
<1>6. /\ PassedOver \in Seq(Requests) /\ Range(sel) \cup Range(PassedOver) = Range(waiting)
      /\ IsInjective(sel) /\ IsInjective(PassedOver) /\ Range(sel) \cap Range(PassedOver) = {}
  BY <1>4, SelectedFacts DEF HomesApart
<1>7. waiting' = tail \o PassedOver /\ widx' = 1
  BY <1>1 DEF Admits
<1>8. /\ tail \in Seq(Requests) /\ IsInjective(tail)
      /\ \A x \in Range(tail) : \E i \in (k + 1)..n : x = sel[i]
      /\ \A i \in (k + 1)..n : sel[i] \in Range(tail)
  BY <1>5, <1>6, TailFacts
<1> HIDE DEF sel, k, n, tail
<1>9. Range(sel) = {sel[i] : i \in 1..n} /\ \A i, j \in 1..n : sel[i] = sel[j] => i = j
  <2>1. Range(sel) = {sel[i] : i \in 1..n}
    BY <1>5, RangeInSet DEF n, sel
  <2>2. DOMAIN sel = 1..n
    BY <1>5 DEF n, sel
  <2> QED
    BY <1>6, <2>1, <2>2 DEF IsInjective
<1>10. \A i \in 1..k : wave'[i].req = sel[i]
  <2> SUFFICES ASSUME NEW i \in 1..k PROVE wave'[i].req = sel[i]
    OBVIOUS
  <2>1. wave'[i] = [slot |-> a[i], req |-> sel[i]]
    BY <1>5
  <2>2. [slot |-> a[i], req |-> sel[i]].req = sel[i]
    OBVIOUS
  <2> QED
    BY <2>1, <2>2, Zenon
<1>11. WaveRest' = 1..k /\ PendingRest' = {} /\ HeldReqs = {}
  <2>1. WaveRest' = 1..k
    BY <1>5, <1>7 DEF WaveRest
  <2>2. PendingRest' = {}
    BY <1>2, HeldFactsNext DEF HeldShape
  <2>3. WaveRest = {} /\ PendingRest = {}
    BY <1>2, <1>3, HeldFacts DEF HeldShape
  <2> QED
    BY <2>1, <2>2, <2>3 DEF HeldReqs
<1>12. HeldReqs' = {sel[i] : i \in 1..k}
  BY <1>10, <1>11 DEF HeldReqs
<1>13. \A i \in 1..n : i \in 1..k \/ i \in (k + 1)..n
  BY <1>5
<1>14. \A i \in 1..k : \A j \in (k + 1)..n : i \in 1..n /\ j \in 1..n /\ i # j
  BY <1>5
<1>15. /\ HeldReqs' \cup Range(tail) = Range(sel)
       /\ HeldReqs' \cap Range(tail) = {}
  <2>1. \A x \in HeldReqs' : \E i \in 1..k : x = sel[i]
    BY <1>12
  <2>2. HeldReqs' \subseteq Range(sel)
    BY <1>5, <1>9, <2>1
  <2>3. Range(tail) \subseteq Range(sel)
    BY <1>5, <1>8, <1>9
  <2>4. ASSUME NEW x \in Range(sel) PROVE x \in HeldReqs' \cup Range(tail)
    <3>1. PICK i \in 1..n : x = sel[i]
      BY <1>9
    <3> QED
      BY <1>8, <1>12, <1>13, <3>1
  <2>5. ASSUME NEW x \in HeldReqs', x \in Range(tail) PROVE FALSE
    <3>1. PICK i \in 1..k : x = sel[i]
      BY <2>1
    <3>2. PICK j \in (k + 1)..n : x = sel[j]
      BY <1>8, <2>5
    <3> QED
      BY <1>9, <1>14, <3>1, <3>2
  <2> QED
    BY <2>2, <2>3, <2>4, <2>5
<1>16. Range(waiting') = Range(tail) \cup Range(PassedOver) /\ IsInjective(waiting')
  BY <1>6, <1>7, <1>8, <1>15, RangeOfConcat
<1>17. ReqsOnce'
  BY <1>9, <1>10, <1>11, <1>14, <1>5 DEF ReqsOnce
<1>18. LiveReqs' = LiveReqs /\ LiveOnce'
  BY <1>2, <1>4, LiveSame DEF HomesApart
<1>19. Accepted' = Accepted /\ Released' = Released \cup {}
  BY <1>2, AccountsSame
<1>20. HomesDisjoint'
  BY <1>2, <1>4, <1>6, <1>15, <1>16, <1>18 DEF HomesApart, HomesDisjoint
<1>21. AllHomes' = AllHomes \ {}
  BY <1>2, <1>6, <1>11, <1>15, <1>16, <1>18 DEF AllHomes
<1>22. IsInjective(deque') /\ IsInjective(incoming')
  BY <1>2, <1>4 DEF HomesApart
<1> QED
  BY <1>2, <1>3, <1>16, <1>17, <1>18, <1>19, <1>20, <1>21, <1>22, HomesSettle

(* The selection fails before it becomes a wave. *)
LEMMA HomeAdmitFails ==
  ASSUME Base, Base', HomeInv, AdmitResetRaises
  PROVE  HomeInv'
<1> USE DEF slotVars, roundVars, queueVars, passVars, clientVars, doneVars, lossVars
<1> DEFINE sel == Selected
<1>1. /\ epc = "admit" /\ waiting' = PassedOver
      /\ UNCHANGED <<active, finished, deque, incoming, cpc, stray>>
  BY DEF AdmitResetRaises
<1>2. PICK a : FailWave([i \in 1..Len(sel) |-> [slot |-> a[i], req |-> sel[i]]], "reset")
  BY Zenon DEF AdmitResetRaises
<1>3. ~Recovering /\ waiting \in Seq(Requests)
  BY <1>1 DEF Recovering, Base, TypeOK
<1>4. HomesApart /\ Accepted \ (Released \cup stray) \subseteq AllHomes
  BY <1>3 DEF HomeInv, AtMostOne, AtLeastOne
<1>5. /\ sel \in Seq(Requests) /\ PassedOver \in Seq(Requests)
      /\ Range(sel) \cup Range(PassedOver) = Range(waiting)
      /\ IsInjective(PassedOver) /\ Range(sel) \cap Range(PassedOver) = {}
  BY <1>3, <1>4, SelectedFacts DEF HomesApart
<1> HIDE DEF sel
<1>6. FailAll(Range(sel))
  <2> DEFINE w == [i \in 1..Len(sel) |-> [slot |-> a[i], req |-> sel[i]]]
  <2>1. Len(sel) \in Nat /\ Range(sel) = {sel[i] : i \in 1..Len(sel)}
    BY <1>5, RangeInSet
  <2>2. Len(w) = Len(sel) /\ \A i \in 1..Len(sel) : w[i] = [slot |-> a[i], req |-> sel[i]]
    BY <2>1
  <2>3. \A i \in 1..Len(sel) : w[i].req = sel[i]
    BY <2>2
  <2>4. FailAll(WaveReqs(w))
    BY <1>2 DEF FailWave
  <2> HIDE DEF w
  <2>5. WaveReqs(w) = Range(sel)
    BY <2>1, <2>2, <2>3 DEF WaveReqs
  <2> QED
    BY <2>4, <2>5
<1>7. HeldReqs' = HeldReqs /\ Carried /\ ~Holding /\ UNCHANGED pending
  BY WaveUnchanged DEF WaveSteps
<1>8. ReqsOnce'
  BY <1>4, <1>7, CarriedFacts DEF HomesApart
<1>9. LiveReqs' = LiveReqs /\ LiveOnce' /\ ActiveReqs' = ActiveReqs
  BY <1>1, <1>4, LiveSame DEF HomesApart
<1>10. Accepted' = Accepted /\ Released' = Released \cup Range(sel)
  BY <1>1, <1>6, AccountsFail
<1>11. CASE ~Recovering'
  <2>1. HomesDisjoint'
    BY <1>1, <1>4, <1>5, <1>7, <1>9 DEF HomesApart, HomesDisjoint
  <2>2. AllHomes' = AllHomes \ Range(sel)
    BY <1>1, <1>4, <1>5, <1>7, <1>9 DEF HomesApart, HomesDisjoint, AllHomes
  <2>3. IsInjective(deque') /\ IsInjective(incoming') /\ IsInjective(waiting')
    BY <1>1, <1>4, <1>5 DEF HomesApart
  <2> QED
    BY <1>1, <1>3, <1>8, <1>9, <1>10, <1>11, <2>1, <2>2, <2>3, HomesSettle
<1>12. CASE Recovering'
  <2>1. AllHomes \subseteq Range(deque) \cup Range(waiting) \cup ActiveReqs \cup WaveReqs(pending)
    BY <1>1, <1>7, RecoveryLooks
  <2>2. WaveReqs(pending') = WaveReqs(pending)
    BY <1>7
  <2>3. Accepted' \ (Released' \cup stray') \subseteq
          Range(deque') \cup Range(waiting') \cup ActiveReqs' \cup WaveReqs(pending')
    BY <1>1, <1>4, <1>5, <1>9, <1>10, <2>1, <2>2
  <2> QED
    BY <1>12, <2>3 DEF HomeInv, AtMostOne, AtLeastOne
<1> QED
  BY <1>11, <1>12

(* A member of the wave becomes active, and drops the request it finds on  *)
(* its slot.                                                               *)
LEMMA HomeStay ==
  ASSUME Base, Base', HomeInv, ActivateStay
  PROVE  HomeInv'
<1> USE DEF slotVars, roundVars, queueVars, passVars, clientVars, doneVars, lossVars
<1> DEFINE s == wave[widx].slot
           r == wave[widx].req
<1>1. /\ Carried /\ ~Recovering /\ Holding /\ widx \in WaveRest /\ widx \in 1..Len(wave)
      /\ UNCHANGED <<epc, wave, pending, finished>> /\ finished = {}
      /\ WaveRest' = WaveRest \ {widx} /\ PendingRest = {}
      /\ HeldReqs = HeldReqs' \cup {wave[widx].req}
      /\ HeldByWave = HeldByWave' \cup {wave[widx].slot}
  BY WaveActivated
<1>2. s \in Slots /\ r \in Requests
  BY <1>1, HeldFacts DEF HeldShape
<1>3. /\ active' = [active EXCEPT ![s] = r] /\ stray' = stray \cup Overwritten(s)
      /\ UNCHANGED <<waiting, deque, incoming, cpc, served, failed>>
  BY DEF ActivateStay
<1>4. active \in [Slots -> Requests \cup {NoReq}] /\ NoReq \notin Requests
  BY ConstantsAssumption DEF Base, TypeOK
<1>5. ~Recovering' /\ HomesApart /\ r \in HeldReqs
  BY <1>1 DEF Recovering, HomeInv, AtMostOne
<1>6. r \notin HeldReqs'
  <2>1. PendingRest' = {}
    BY <1>1, HeldFactsNext DEF HeldShape, Holding
  <2>2. HeldReqs' = {wave[i].req : i \in WaveRest \ {widx}}
    BY <1>1, <2>1 DEF HeldReqs
  <2> QED
    BY <1>1, <1>5, <2>2 DEF HomesApart, ReqsOnce
<1> HIDE DEF s, r
<1>7. LiveSlots' = LiveSlots \cup {s}
  BY <1>1, <1>2, <1>3, <1>4 DEF LiveSlots, ActiveSlots
<1>8. \A t \in LiveSlots' : active'[t] = IF t = s THEN r ELSE active[t]
  BY <1>2, <1>3, <1>4, <1>7 DEF LiveSlots, ActiveSlots
<1>9. LiveReqs' \subseteq LiveReqs \cup {r} /\ r \in LiveReqs'
  BY <1>7, <1>8 DEF LiveReqs
<1>10. r \notin LiveReqs
  BY <1>5 DEF HomesApart, HomesDisjoint
<1>11. LiveOnce'
  BY <1>5, <1>7, <1>8, <1>10 DEF LiveOnce, LiveReqs, HomesApart
<1>12. ReqsOnce'
  BY <1>1, <1>5, CarriedFacts DEF HomesApart
<1>13. Accepted' = Accepted /\ Released' = Released
  BY <1>3, AccountsSame
<1>14. HeldReqs = HeldReqs' \cup {r}
  BY <1>1 DEF r
<1>15. HomesDisjoint'
  BY <1>3, <1>5, <1>6, <1>9, <1>14 DEF HomesApart, HomesDisjoint
<1>16. AllHomes' \subseteq AllHomes
  BY <1>3, <1>9, <1>14 DEF AllHomes
<1>17. AllHomes' \cap Overwritten(s) = {} /\ LiveReqs \subseteq LiveReqs' \cup Overwritten(s)
  <2>1. LiveSlots = ActiveSlots
    BY <1>1 DEF LiveSlots
  <2>2. LiveReqs \subseteq LiveReqs' \cup Overwritten(s)
    BY <1>4, <1>7, <1>8, <2>1 DEF LiveReqs, Overwritten, ActiveSlots
  <2>3. ASSUME NEW q \in Overwritten(s) PROVE q \notin AllHomes'
    <3>1. q = active[s] /\ s \in LiveSlots /\ q \in LiveReqs
      BY <1>2, <2>1, <2>3 DEF Overwritten, ActiveSlots, LiveReqs
    <3>2. q \notin LiveReqs'
      BY <1>5, <1>7, <1>8, <1>10, <3>1 DEF LiveReqs, LiveOnce, HomesApart
    <3>3. q \notin Range(deque) \cup Range(incoming) \cup Range(waiting) \cup HeldReqs
      BY <1>5, <3>1 DEF HomesApart, HomesDisjoint
    <3> QED
      BY <1>3, <1>14, <3>2, <3>3 DEF AllHomes
  <2> QED
    BY <2>2, <2>3
<1>18. HomesApart'
  BY <1>3, <1>5, <1>11, <1>12, <1>13, <1>15, <1>16, <1>17 DEF HomesApart
<1>19. AtLeastOne'
  <2>1. AllHomes \subseteq AllHomes' \cup Overwritten(s)
    BY <1>3, <1>9, <1>14, <1>17 DEF AllHomes
  <2> QED
    BY <1>1, <1>3, <1>5, <1>13, <2>1 DEF HomeInv, AtLeastOne
<1> QED
  BY <1>18, <1>19 DEF HomeInv, AtMostOne

(* A member of the wave is answered at once. *)
LEMMA HomeFinishNow ==
  ASSUME Base, Base', HomeInv, ActivateFinish
  PROVE  HomeInv'
<1> USE DEF slotVars, roundVars, queueVars, passVars, clientVars, doneVars, lossVars
<1> DEFINE r == wave[widx].req
<1>1. /\ Carried /\ ~Recovering /\ Holding /\ widx \in WaveRest /\ widx \in 1..Len(wave)
      /\ UNCHANGED <<epc, wave, pending, finished>> /\ finished = {}
      /\ WaveRest' = WaveRest \ {widx} /\ PendingRest = {}
      /\ HeldReqs = HeldReqs' \cup {wave[widx].req}
  BY WaveActivated
<1>2. /\ Resolve(r) /\ UNCHANGED <<active, waiting, deque, incoming, cpc, stray>>
  BY DEF ActivateFinish, FinishRequest
<1>3. ~Recovering' /\ HomesApart
  BY <1>1 DEF Recovering, HomeInv, AtMostOne
<1>4. r \notin HeldReqs'
  <2>1. PendingRest' = {}
    BY <1>1, HeldFactsNext DEF HeldShape, Holding
  <2>2. HeldReqs' = {wave[i].req : i \in WaveRest \ {widx}}
    BY <1>1, <2>1 DEF HeldReqs
  <2> QED
    BY <1>1, <1>3, <2>2 DEF HomesApart, ReqsOnce
<1>5. HeldReqs = HeldReqs' \cup {r}
  BY <1>1
<1> HIDE DEF r
<1>6. LiveReqs' = LiveReqs /\ LiveOnce' /\ ReqsOnce'
  BY <1>1, <1>2, <1>3, LiveSame, CarriedFacts DEF HomesApart
<1>7. Accepted' = Accepted /\ Released' = Released \cup {r}
  BY <1>2, AccountsResolve
<1>8. HomesDisjoint'
  BY <1>2, <1>3, <1>5, <1>6 DEF HomesApart, HomesDisjoint
<1>9. AllHomes' = AllHomes \ {r}
  BY <1>2, <1>3, <1>4, <1>5, <1>6 DEF HomesApart, HomesDisjoint, AllHomes
<1>10. IsInjective(deque') /\ IsInjective(incoming') /\ IsInjective(waiting')
  BY <1>2, <1>3 DEF HomesApart
<1> QED
  BY <1>1, <1>2, <1>3, <1>6, <1>7, <1>8, <1>9, <1>10, HomesSettle

(* An activation raises.  The wave is found again only if it is pending;   *)
(* otherwise its members are dropped.                                      *)
LEMMA HomeActivateFails ==
  ASSUME Base, Base', HomeInv, ActivateFinishRaises \/ ActivateRaises
  PROVE  HomeInv'
<1> USE DEF slotVars, roundVars, queueVars, passVars, clientVars, doneVars
<1>1. /\ Activating /\ widx <= Len(wave) /\ Raise(epc) /\ UNCHANGED pending
      /\ UNCHANGED <<finished, waiting, deque, incoming, cpc>>
      /\ \/ active' = active
         \/ /\ active' = [active EXCEPT ![wave[widx].slot] = wave[widx].req]
            /\ Overwritten(wave[widx].slot) \subseteq stray'
  BY DEF ActivateFinishRaises, FinishRequestRaises, ActivateRaises
<1>2. Recovering' /\ ~Recovering /\ Holding
  BY <1>1 DEF Activating, Raise, Recovering, Holding
<1>3. finished = {} /\ incoming = <<>> /\ widx \in WaveRest /\ WaveRest \subseteq 1..Len(wave)
  <2>1. widx \in Nat \ {0} /\ Len(wave) \in Nat
    BY HeldFacts DEF Base, TypeOK, HeldShape
  <2>2. finished = {} /\ incoming = <<>>
    BY <1>1 DEF Base, Phases, Activating
  <2> QED
    BY <1>1, <2>1, <2>2 DEF WaveRest
<1>4. wave[widx].slot \in Slots /\ wave[widx].req \in Requests
  BY <1>3, HeldFacts DEF HeldShape
<1>5. HeldReqs = ReqsAt(WaveRest)
  BY <1>2, HeldByFacts DEF HeldBy, ReqsAt
<1>6. LiveReqs \subseteq ActiveReqs' \cup stray'
  <2>1. active \in [Slots -> Requests \cup {NoReq}] /\ NoReq \notin Requests
    BY ConstantsAssumption DEF Base, TypeOK
  <2>2. LiveSlots = ActiveSlots
    BY <1>3 DEF LiveSlots
  <2>3. CASE active' = active
    BY <2>2, <2>3 DEF LiveReqs, ActiveReqs, ActiveSlots
  <2>4. CASE /\ active' = [active EXCEPT ![wave[widx].slot] = wave[widx].req]
             /\ Overwritten(wave[widx].slot) \subseteq stray'
    BY <1>4, <2>1, <2>2, <2>4 DEF LiveReqs, ActiveReqs, ActiveSlots, Overwritten
  <2> QED
    BY <1>1, <2>3, <2>4
<1>7. /\ Accepted' = Accepted /\ Released \subseteq Released' /\ stray \subseteq stray'
      /\ ReqsAt(Forgotten) \subseteq stray' \cup Released'
  <2>1. CASE ActivateRaises
    BY <2>1, AccountsSame DEF ActivateRaises
  <2>2. CASE ActivateFinishRaises
    <3>1. /\ Resolve(wave[widx].req) /\ stray \subseteq stray'
          /\ ReqsAt(Forgotten \ {widx}) \subseteq stray'
      BY <2>2 DEF ActivateFinishRaises, FinishRequestRaises
    <3>2. Accepted' = Accepted /\ Released' = Released \cup {wave[widx].req}
      BY <1>1, <3>1, AccountsResolve
    <3>3. ReqsAt(Forgotten) \subseteq ReqsAt(Forgotten \ {widx}) \cup {wave[widx].req}
      BY DEF ReqsAt
    <3> QED
      BY <3>1, <3>2, <3>3
  <2> QED
    BY <2>1, <2>2
<1>8. HeldReqs \subseteq WaveReqs(pending') \cup stray' \cup Released'
  <2>1. CASE epc = "activatePending"
    <3>1. pending' = wave
      BY <1>1, <2>1 DEF Base, Phases
    <3> QED
      BY <1>3, <1>5, <3>1 DEF ReqsAt, WaveReqs
  <2>2. CASE epc = "activateNow"
    BY <1>5, <1>7, <2>2 DEF Forgotten
  <2> QED
    BY <1>1, <2>1, <2>2 DEF Activating
<1>9. Range(incoming) = {}
  BY <1>3, EmptyRange
<1>10. Accepted \ (Released \cup stray) \subseteq AllHomes
  BY <1>2 DEF HomeInv, AtLeastOne
<1>11. AtLeastOne'
  BY <1>1, <1>2, <1>6, <1>7, <1>8, <1>9, <1>10 DEF AtLeastOne, AllHomes
<1> QED
  BY <1>2, <1>11 DEF HomeInv, AtMostOne

(* A decoded request is answered; its slot stays in active until the end   *)
(* of the round.                                                           *)
LEMMA HomeFinishSlot ==
  ASSUME Base, Base', HomeInv, NEW s \in Slots, FinishSlot(s)
  PROVE  HomeInv'
<1> USE DEF slotVars, roundVars, queueVars, passVars, clientVars, doneVars, lossVars
<1>1. /\ s \in todo /\ finished' = finished \cup {s} /\ Resolve(active[s])
      /\ epc \in {"plain", "mtp"} /\ UNCHANGED <<active, epc, waiting, deque, incoming, cpc, stray>>
  BY DEF FinishSlot, FinishRequest
<1>2. s \in LiveSlots
  BY <1>1 DEF LiveSlots, Base, Phases
<1>3. LiveSlots' = LiveSlots \ {s}
  BY <1>1 DEF LiveSlots, ActiveSlots
<1>4. HeldReqs' = HeldReqs /\ Carried /\ ~Recovering
  BY WaveUnchanged DEF WaveSteps
<1>5. ~Recovering' /\ HomesApart
  BY <1>1, <1>4 DEF Recovering, HomeInv, AtMostOne
<1>6. LiveReqs' = LiveReqs \ {active[s]} /\ LiveOnce'
  BY <1>1, <1>2, <1>3, <1>5 DEF LiveReqs, LiveOnce, HomesApart
<1>7. ReqsOnce'
  BY <1>4, <1>5, CarriedFacts DEF HomesApart
<1>8. Accepted' = Accepted /\ Released' = Released \cup {active[s]}
  BY <1>1, AccountsResolve
<1>9. active[s] \in LiveReqs
  BY <1>2 DEF LiveReqs
<1>10. HomesDisjoint'
  BY <1>1, <1>4, <1>5, <1>6 DEF HomesApart, HomesDisjoint
<1>11. AllHomes' = AllHomes \ {active[s]}
  BY <1>1, <1>4, <1>5, <1>6, <1>9 DEF HomesApart, HomesDisjoint, AllHomes
<1>12. IsInjective(deque') /\ IsInjective(incoming') /\ IsInjective(waiting')
  BY <1>1, <1>5 DEF HomesApart
<1> QED
  BY <1>1, <1>4, <1>5, <1>6, <1>7, <1>8, <1>10, <1>11, <1>12, HomesSettle

(* A decoded request is answered, then its reset raises. *)
LEMMA HomeFinishFails ==
  ASSUME Base, Base', HomeInv, NEW s \in Slots, FinishSlotRaises(s)
  PROVE  HomeInv'
<1> USE DEF slotVars, roundVars, queueVars, passVars, clientVars, doneVars, lossVars
<1>1. /\ Resolve(active[s]) /\ epc \in {"plain", "mtp"}
      /\ UNCHANGED <<active, finished, waiting, deque, incoming, cpc, stray>>
  BY DEF FinishSlotRaises, FinishRequestRaises
<1>2. Recovering'
  BY DEF FinishSlotRaises, FinishRequestRaises, Raise, Recovering
<1>3. ~Recovering /\ ~Holding /\ UNCHANGED pending
  BY WaveUnchanged DEF WaveSteps
<1>4. ActiveReqs' = ActiveReqs
  BY <1>1, LiveSame
<1>5. Accepted' = Accepted /\ Released' = Released \cup {active[s]}
  BY <1>1, AccountsResolve
<1>6. AllHomes \subseteq Range(deque) \cup Range(waiting) \cup ActiveReqs \cup WaveReqs(pending)
  BY <1>1, <1>3, RecoveryLooks
<1>7. WaveReqs(pending') = WaveReqs(pending)
  BY <1>3
<1>8. AtLeastOne'
  BY <1>1, <1>2, <1>3, <1>4, <1>5, <1>6, <1>7 DEF HomeInv, AtLeastOne
<1> QED
  BY <1>2, <1>8 DEF HomeInv, AtMostOne

(* The end of the round: finished, timed-out and stale requests leave. *)
LEMMA HomeReap ==
  ASSUME Base, Base', HomeInv, Reap
  PROVE  HomeInv'
<1> USE DEF slotVars, roundVars, queueVars, passVars, clientVars, doneVars, lossVars
<1>1. PICK out \in SUBSET LiveSlots :
        /\ FailAll({active[s] : s \in out})
        /\ active' = [s \in Slots |-> IF s \in finished \cup out THEN NoReq ELSE active[s]]
  BY DEF Reap, LiveSlots
<1>2. finished' = {} /\ epc' = "top" /\ epc = "reap"
      /\ UNCHANGED <<waiting, deque, incoming, cpc, stray>>
  BY DEF Reap
<1>3. HeldReqs' = HeldReqs /\ Carried /\ ~Recovering
  BY WaveUnchanged DEF WaveSteps
<1>4. ~Recovering' /\ HomesApart
  BY <1>2, <1>3 DEF Recovering, HomeInv, AtMostOne
<1>5. active \in [Slots -> Requests \cup {NoReq}]
  BY DEF Base, TypeOK
<1>6. LiveSlots' = LiveSlots \ out /\ \A s \in LiveSlots' : active'[s] = active[s]
  BY <1>1, <1>2, <1>5 DEF LiveSlots, ActiveSlots
<1> DEFINE R == {active[s] : s \in out}
<1>7. LiveReqs' = LiveReqs \ R /\ LiveOnce' /\ R \subseteq LiveReqs
  BY <1>4, <1>6 DEF LiveReqs, LiveOnce, HomesApart
<1>8. ReqsOnce'
  BY <1>3, <1>4, CarriedFacts DEF HomesApart
<1>9. Accepted' = Accepted /\ Released' = Released \cup R
  BY <1>1, <1>2, AccountsFail
<1> HIDE DEF R
<1>10. HomesDisjoint'
  BY <1>2, <1>3, <1>4, <1>7 DEF HomesApart, HomesDisjoint
<1>11. AllHomes' = AllHomes \ R
  BY <1>2, <1>3, <1>4, <1>7 DEF HomesApart, HomesDisjoint, AllHomes
<1>12. IsInjective(deque') /\ IsInjective(incoming') /\ IsInjective(waiting')
  BY <1>2, <1>4 DEF HomesApart
<1> QED
  BY <1>2, <1>3, <1>4, <1>7, <1>8, <1>9, <1>10, <1>11, <1>12, HomesSettle

(* Recovery empties every container. *)
LEMMA HomeRecover ==
  ASSUME Base, Base', HomeInv, Recover \/ RecoverFatal
  PROVE  HomeInv'
<1> USE DEF passVars, clientVars, lossVars
<1>1. /\ active' = [s \in Slots |-> NoReq] /\ pending' = <<>> /\ finished' = {}
      /\ deque' = <<>> /\ waiting' = <<>> /\ UNCHANGED <<incoming, cpc, stray>>
      /\ epc' \in {"top", "exit"} /\ epc \in {"recover", "recoverFatal"}
      /\ FailAll(ActiveReqs \cup WaveReqs(pending) \cup Queued)
  BY DEF Recover, RecoverFatal, ClearRound, ClearPending
<1>2. Recovering /\ ~Recovering' /\ ~Holding' /\ incoming = <<>>
  BY <1>1 DEF Recovering, Holding, Base, Phases
<1>3. HeldReqs' = {} /\ ReqsOnce'
  BY <1>1, <1>2, WaveGone
<1>4. LiveSlots' = {}
  BY <1>1 DEF LiveSlots, ActiveSlots
<1>5. LiveReqs' = {} /\ LiveOnce'
  BY <1>4 DEF LiveReqs, LiveOnce
<1>6. /\ Range(deque') = {} /\ Range(waiting') = {} /\ Range(incoming') = {}
      /\ IsInjective(deque') /\ IsInjective(incoming') /\ IsInjective(waiting')
  BY <1>1, <1>2, EmptyRange
<1>7. AllHomes' = {} /\ HomesDisjoint'
  BY <1>3, <1>5, <1>6 DEF AllHomes, HomesDisjoint
<1>8. HomesApart'
  BY <1>3, <1>5, <1>6, <1>7 DEF HomesApart
<1>9. /\ Accepted' = Accepted
      /\ Released' = Released \cup (ActiveReqs \cup WaveReqs(pending) \cup Queued)
  BY <1>1, AccountsFail
<1>10. AtLeastOne'
  BY <1>1, <1>2, <1>9 DEF HomeInv, AtLeastOne, Queued
<1> QED
  BY <1>8, <1>10 DEF HomeInv, AtMostOne

(* After the loop every queued or prefilling request is failed. *)
LEMMA HomeExit ==
  ASSUME Base, Base', HomeInv, Exit
  PROVE  HomeInv'
<1> USE DEF passVars, clientVars, roundVars, lossVars
<1> DEFINE R == WaveReqs(pending) \cup Queued
<1>1. /\ epc = "exit" /\ epc' = "exited" /\ pending' = <<>> /\ UNCHANGED <<active, finished, incoming, cpc, stray>>
      /\ deque' = <<>> /\ waiting' = <<>> /\ FailAll(R)
  BY DEF Exit, ClearPending
<1>2. ~Recovering /\ ~Recovering' /\ ~Holding /\ ~Holding'
  BY <1>1 DEF Recovering, Holding
<1>3. HomesApart /\ HeldReqs = WaveReqs(pending)
  BY <1>2, HeldByFacts DEF HomeInv, AtMostOne, HeldBy
<1>4. HeldReqs' = {} /\ ReqsOnce'
  BY <1>1, <1>2, WaveGone
<1>5. LiveReqs' = LiveReqs /\ LiveOnce'
  BY <1>1, <1>3, LiveSame DEF HomesApart
<1>6. /\ Range(deque') = {} /\ Range(waiting') = {} /\ IsInjective(deque') /\ IsInjective(waiting')
      /\ Range(incoming') = Range(incoming) /\ IsInjective(incoming')
  BY <1>1, <1>3, EmptyRange DEF HomesApart
<1>7. Accepted' = Accepted /\ Released' = Released \cup R
  BY <1>1, AccountsFail
<1>8. HomesDisjoint'
  BY <1>3, <1>4, <1>5, <1>6 DEF HomesApart, HomesDisjoint
<1>9. AllHomes' = AllHomes \ R
  BY <1>3, <1>4, <1>5, <1>6 DEF HomesApart, HomesDisjoint, AllHomes, Queued
<1> HIDE DEF R
<1> QED
  BY <1>1, <1>2, <1>4, <1>5, <1>6, <1>7, <1>8, <1>9, HomesSettle

(* No step loses a request or gives it a second home. *)
LEMMA HomeStep ==
  ASSUME Base, Base', HomeInv, StrayHarms, Next
  PROVE  HomeInv'
<1>1. CASE Client \/ Stop
  BY <1>1, HomeClient
<1>2. CASE \/ CoalesceOff \/ CoalesceEnd \/ PrefillSkip \/ PrefillMore \/ AdmitSkip \/ IdleRetry
           \/ ToDecode \/ DecodeBegin \/ DecodeRaises \/ VerifyBegin \/ VerifyRaises \/ MtpEnd
           \/ \E s \in Slots : CommitTokens(s) \/ CommitNothing(s)
  BY <1>2, HomeSilent
<1>3. CASE RoundBegin \/ CoalesceBegin \/ CoalesceDrain \/ IdleBlock \/ Wake
  BY <1>3, HomeDrain
<1>4. CASE ProcessCancellations \/ CancelIncoming \/ CancelPending
  BY <1>4, HomeProcess, HomeIncoming, HomeRefill
<1>5. CASE PrefillDone \/ BeginPending \/ BeginDone \/ ActivateEnd
  BY <1>5, HomeMoved
<1>6. CASE PrefillRaises \/ BeginRaises
  BY <1>6, HomeWaveFails
<1>7. CASE Admit \/ AdmitResetRaises
  BY <1>7, HomeAdmit, HomeAdmitFails
<1>8. CASE ActivateStay \/ ActivateFinish \/ ActivateFinishRaises \/ ActivateRaises
  BY <1>8, HomeStay, HomeFinishNow, HomeActivateFails
<1>9. CASE \E s \in Slots : FinishSlot(s) \/ FinishSlotRaises(s)
  BY <1>9, HomeFinishSlot, HomeFinishFails
<1>10. CASE Reap \/ Recover \/ RecoverFatal \/ Exit
  BY <1>10, HomeReap, HomeRecover, HomeExit
<1> QED
  BY <1>1, <1>2, <1>3, <1>4, <1>5, <1>6, <1>7, <1>8, <1>9, <1>10 DEF Next, Engine

(* Requests and slots are owned once. *)
OwnedOnce == HomeInv /\ SlotInv /\ StrayHarms

(* OwnedOnce is an invariant, whichever calls raise. *)
THEOREM OwnedOnceHolds == Spec => []OwnedOnce
<1>1. Init => OwnedOnce
  <2> SUFFICES ASSUME Init PROVE OwnedOnce
    OBVIOUS
  <2>1. Base
    BY BaseInit
  <2>2. pending = <<>> /\ ~Holding /\ ~Recovering /\ active = [s \in Slots |-> NoReq]
    BY DEF Init, Holding, Recovering
  <2>3. WaveRest = {} /\ PendingRest = {} /\ LiveSlots = {}
    BY <2>1, <2>2, HeldFacts DEF HeldShape, LiveSlots, ActiveSlots
  <2>4. HeldByWave = {} /\ SlotsOnce /\ HeldReqs = {} /\ ReqsOnce /\ LiveReqs = {} /\ LiveOnce
    BY <2>3 DEF HeldByWave, SlotsOnce, HeldReqs, ReqsOnce, LiveReqs, LiveOnce
  <2>5. SlotInv
    BY <2>2, <2>3, <2>4 DEF Init, SlotInv, SlotsExact, RepairSlots
  <2>6. /\ Range(deque) = {} /\ Range(incoming) = {} /\ Range(waiting) = {}
        /\ IsInjective(deque) /\ IsInjective(incoming) /\ IsInjective(waiting)
    BY EmptyRange DEF Init
  <2>7. HomesDisjoint /\ AllHomes = {}
    BY <2>4, <2>6 DEF HomesDisjoint, AllHomes
  <2>8. HomesApart
    BY <2>4, <2>6, <2>7 DEF HomesApart
  <2>9. Accepted = {}
    BY DEF Init, Accepted
  <2> QED
    BY <2>2, <2>5, <2>8, <2>9 DEF Init, OwnedOnce, HomeInv, AtMostOne, AtLeastOne, StrayHarms
<1>2. OwnedOnce /\ Base /\ Base' /\ [Next]_vars => OwnedOnce'
  <2> SUFFICES ASSUME OwnedOnce, Base, Base', [Next]_vars PROVE OwnedOnce'
    OBVIOUS
  <2>1. CASE Next
    <3>1. HomeInv'
      BY <2>1, HomeStep DEF OwnedOnce
    <3>2. SlotInv' /\ StrayHarms'
      BY <2>1, SlotStep, StrayStep DEF OwnedOnce
    <3> QED
      BY <3>1, <3>2 DEF OwnedOnce
  <2>2. CASE UNCHANGED vars
    <3> USE DEF vars, slotVars, waveVars, roundVars, queueVars, passVars, clientVars, doneVars, lossVars
    <3>1. SlotInv => SlotInv'
      BY <2>2 DEF SlotInv, SlotsExact, SlotsOnce, RepairSlots, LiveSlots, ActiveSlots, HeldByWave,
             WaveRest, PendingRest, Recovering, WaveSlots
    <3>2. /\ LiveReqs' = LiveReqs /\ (LiveOnce => LiveOnce') /\ ActiveReqs' = ActiveReqs
      BY <2>2, LiveSame
    <3>3. /\ HeldReqs' = HeldReqs /\ (ReqsOnce => ReqsOnce') /\ (Recovering' <=> Recovering)
          /\ WaveReqs(pending') = WaveReqs(pending)
      BY <2>2 DEF HeldReqs, ReqsOnce, WaveRest, PendingRest, Recovering, WaveReqs
    <3>4. Accepted' = Accepted /\ Released' = Released
      BY <2>2, AccountsSame
    <3>5. UNCHANGED <<deque, incoming, waiting, stray, harmed>>
      BY <2>2
    <3>6. AllHomes' = AllHomes /\ (HomesDisjoint => HomesDisjoint')
      BY <3>2, <3>3, <3>5 DEF AllHomes, HomesDisjoint
    <3>7. HomesApart => HomesApart'
      BY <3>2, <3>3, <3>4, <3>5, <3>6 DEF HomesApart
    <3>8. AtLeastOne => AtLeastOne'
      BY <3>2, <3>3, <3>4, <3>5, <3>6 DEF AtLeastOne
    <3>9. HomeInv'
      BY <3>3, <3>7, <3>8 DEF OwnedOnce, HomeInv, AtMostOne
    <3>10. StrayHarms => StrayHarms'
      BY <3>4, <3>5 DEF StrayHarms
    <3> QED
      BY <3>1, <3>9, <3>10 DEF OwnedOnce
  <2> QED
    BY <2>1, <2>2
<1> QED
  BY <1>1, <1>2, BaseHolds, PTL DEF Spec

(* A set whose members are all equal has at most one. *)
LEMMA OneOrNone ==
  ASSUME NEW C, \A x, y \in C : x = y
  PROVE  Cardinality(C) = IF C = {} THEN 0 ELSE 1
<1>1. CASE C = {}
  BY <1>1, FS_EmptySet
<1>2. CASE C # {}
  <2>1. PICK x : C = {x}
    BY <1>2
  <2> QED
    BY <2>1, FS_Singleton
<1> QED
  BY <1>1, <1>2

(* The places of a request in a sequence without repetitions. *)
LEMMA PlacesInSeq ==
  ASSUME NEW q \in Seq(Requests), IsInjective(q), NEW r
  PROVE  Cardinality({i \in 1..Len(q) : q[i] = r}) = IF r \in Range(q) THEN 1 ELSE 0
<1> DEFINE C == {i \in 1..Len(q) : q[i] = r}
<1>1. DOMAIN q = 1..Len(q) /\ Range(q) = {q[i] : i \in 1..Len(q)}
  BY RangeInSet
<1>2. \A x, y \in C : x = y
  BY <1>1 DEF IsInjective
<1>3. C = {} <=> r \notin Range(q)
  BY <1>1
<1> HIDE DEF C
<1>4. Cardinality(C) = IF C = {} THEN 0 ELSE 1
  BY <1>2, OneOrNone
<1> QED
  BY <1>3, <1>4 DEF C

(* Being in disjoint places at most once each, and in one iff neither      *)
(* answered nor dropped, is what OneHome counts.                           *)
LEMMA HomesCounted ==
  ASSUME Base, HomeInv, StrayHarms
  PROVE  OneHome
<1> SUFFICES ASSUME ~Recovering, NEW r \in Requests
             PROVE  Homes(r) = IF r \in Accepted \ (Released \cup stray) THEN 1 ELSE 0
  BY DEF OneHome, StrayHarms
<1>1. HomesApart /\ Accepted \ (Released \cup stray) \subseteq AllHomes
  BY DEF HomeInv, AtMostOne, AtLeastOne
<1>2. /\ deque \in Seq(Requests) /\ incoming \in Seq(Requests) /\ waiting \in Seq(Requests)
  BY DEF Base, TypeOK
<1> DEFINE CL == {s \in LiveSlots : active[s] = r}
           CW == {i \in WaveRest : wave[i].req = r}
           CP == {i \in PendingRest : pending[i].req = r}
<1>3. /\ Cardinality({i \in 1..Len(deque) : deque[i] = r}) = (IF r \in Range(deque) THEN 1 ELSE 0)
      /\ Cardinality({i \in 1..Len(incoming) : incoming[i] = r}) = (IF r \in Range(incoming) THEN 1 ELSE 0)
      /\ Cardinality({i \in 1..Len(waiting) : waiting[i] = r}) = (IF r \in Range(waiting) THEN 1 ELSE 0)
  BY <1>1, <1>2, PlacesInSeq DEF HomesApart
<1>4. Cardinality(CL) = IF r \in LiveReqs THEN 1 ELSE 0
  <2>1. \A x, y \in CL : x = y
    BY <1>1 DEF HomesApart, LiveOnce
  <2>2. CL = {} <=> r \notin LiveReqs
    BY DEF LiveReqs
  <2> HIDE DEF CL
  <2> QED
    BY <2>1, <2>2, OneOrNone
<1>5. /\ Cardinality(CW) = (IF CW = {} THEN 0 ELSE 1) /\ Cardinality(CP) = (IF CP = {} THEN 0 ELSE 1)
  <2>1. (\A x, y \in CW : x = y) /\ (\A x, y \in CP : x = y)
    BY <1>1 DEF HomesApart, ReqsOnce
  <2> HIDE DEF CW, CP
  <2> QED
    BY <2>1, OneOrNone
<1>6. /\ CW = {} \/ CP = {}
      /\ r \in HeldReqs <=> CW # {} \/ CP # {}
  BY HeldFacts DEF HeldShape, HeldReqs
<1>7. Homes(r) = Cardinality({i \in 1..Len(deque) : deque[i] = r})
               + Cardinality({i \in 1..Len(incoming) : incoming[i] = r})
               + Cardinality({i \in 1..Len(waiting) : waiting[i] = r})
               + Cardinality(CL) + Cardinality(CW) + Cardinality(CP)
  BY DEF Homes
<1>8. Cardinality(CW) + Cardinality(CP) = IF r \in HeldReqs THEN 1 ELSE 0
  <2> HIDE DEF CW, CP
  <2> QED
    BY <1>5, <1>6
<1>9. /\ r \in Range(deque) => r \notin Range(incoming) \cup Range(waiting) \cup LiveReqs \cup HeldReqs
      /\ r \in Range(incoming) => r \notin Range(waiting) \cup LiveReqs \cup HeldReqs
      /\ r \in Range(waiting) => r \notin LiveReqs \cup HeldReqs
      /\ r \in LiveReqs => r \notin HeldReqs
  BY <1>1 DEF HomesApart, HomesDisjoint
<1>10. r \in Accepted \ (Released \cup stray) <=> r \in AllHomes
  <2>1. AllHomes \subseteq Accepted
    <3>1. LiveReqs \subseteq Accepted
      BY DEF Base, Contained, LiveReqs, LiveSlots, ActiveReqs
    <3> QED
      BY <3>1, HeldByFacts DEF Base, Contained, AllHomes, HeldBy
  <2> QED
    BY <1>1, <2>1 DEF HomesApart
<1>11. r \in AllHomes <=> \/ r \in Range(deque) \/ r \in Range(incoming) \/ r \in Range(waiting)
                          \/ r \in LiveReqs \/ r \in HeldReqs
  BY DEF AllHomes
<1> HIDE DEF CL, CW, CP
<1> QED
  BY <1>3, <1>4, <1>5, <1>7, <1>8, <1>9, <1>10, <1>11

(* Whichever calls raise: an accepted request is in exactly one container  *)
(* until it is answered and in none afterwards, save the requests a named  *)
(* failure drops, which are in none and were not dropped without a slot.   *)
THEOREM EngineOneHome == Spec => []OneHome
<1>1. Base /\ OwnedOnce => OneHome
  BY HomesCounted DEF OwnedOnce
<1> QED
  BY <1>1, BaseHolds, OwnedOnceHolds, PTL

(* A request is in at most one container, and in none once it is answered  *)
(* or dropped, whichever calls raise: no request is run twice.             *)
THEOREM EngineNoSecondHome == Spec => []AtMostOne
<1>1. OwnedOnce => AtMostOne
  BY DEF OwnedOnce, HomeInv
<1> QED
  BY <1>1, OwnedOnceHolds, PTL

=============================================================================
