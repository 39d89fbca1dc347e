------------------------ MODULE StreamChannelProofs ------------------------
(***************************************************************************)
(* Proofs about StreamChannel, for any number of batches.                  *)
(***************************************************************************)
EXTENDS StreamChannel, SequenceTheorems, TLAPS

(* The consumer pops only from a buffer it has just seen non-empty and     *)
(* that nobody else shortens.                                              *)
PopHasItem == cpc = "pop" => buf # <<>>

(* Once get() is past its creation step, the event exists, so a put that   *)
(* lands from here on does post a wakeup.                                  *)
EventExists ==
  cpc \in {"clear", "recheck", "await", "waiting"} => event # "none"

(* NoLostWakeup, extended to the instant just before the suspension. *)
WakeupPending ==
  (cpc \in {"await", "waiting"} /\ buf # <<>>)
     => event = "set" \/ callbacks > 0 \/ epc = "signal"

-----------------------------------------------------------------------------
(* Appending yields a non-empty sequence of the same kind. *)
LEMMA AppendFacts ==
  ASSUME NEW s \in Seq(Nat), NEW x \in Nat
  PROVE  /\ Append(s, x) \in Seq(Nat)
         /\ Append(s, x) # <<>>
         /\ Len(Append(s, x)) = Len(s) + 1
         /\ \A i \in 1..Len(s) : Append(s, x)[i] = s[i]
         /\ Append(s, x)[Len(s) + 1] = x
<1>1. /\ Append(s, x) \in Seq(Nat)
      /\ Len(Append(s, x)) = Len(s) + 1
      /\ \A i \in 1..Len(s) : Append(s, x)[i] = s[i]
      /\ Append(s, x)[Len(s) + 1] = x
  BY AppendProperties
<1>2. Len(s) \in Nat /\ Len(<<>>) = 0
  OBVIOUS
<1> QED
  BY <1>1, <1>2

(* Popping: what was popped followed by the rest is the whole. *)
LEMMA PopConcat ==
  ASSUME NEW d \in Seq(Nat), NEW b \in Seq(Nat), b # <<>>
  PROVE  Append(d, Head(b)) \o Tail(b) = d \o b
  OBVIOUS

(* Appending to the tail of a concatenation appends to the whole. *)
LEMMA AppendConcat ==
  ASSUME NEW d \in Seq(Nat), NEW b \in Seq(Nat), NEW x \in Nat
  PROVE  d \o Append(b, x) = Append(d \o b, x)
  OBVIOUS

(* The channel's variables keep their types: every step of put, close, get *)
(* and of the event loop writes values of the declared kind.               *)
THEOREM StreamTyping == Spec => [](TypeOK /\ PopHasItem)
<1>1. Init => TypeOK
  BY DEF Init, TypeOK, ConsumerPC
<1>2. TypeOK /\ PopHasItem /\ [Next]_vars => TypeOK' /\ PopHasItem'
  <2> SUFFICES ASSUME TypeOK, PopHasItem, [Next]_vars
               PROVE  TypeOK' /\ PopHasItem'
    OBVIOUS
  <2> USE DEF TypeOK, PopHasItem, ConsumerPC
  <2>1. CASE Put
    <3>1. Len(sent) + 1 \in Nat
      OBVIOUS
    <3> QED
      BY <2>1, <3>1, AppendFacts DEF Put, EngineAppend
  <2>2. CASE CloseStream
    <3>1. Append(buf, None) \in Seq(Nat) /\ Append(buf, None) # <<>> /\ Append(sent, None) \in Seq(Nat)
      BY AppendFacts DEF None
    <3> QED
      BY <2>2, <3>1 DEF CloseStream, EngineAppend
  <2>3. CASE Signal
    BY <2>3 DEF Signal
  <2>4. CASE RunCallback
    BY <2>4 DEF RunCallback
  <2>5. CASE GetCheck
    BY <2>5 DEF GetCheck
  <2>6. CASE GetCreate \/ GetClear \/ GetRecheck \/ GetAwait \/ GetResume \/ YieldReturns
    BY <2>6 DEF GetCreate, GetClear, GetRecheck, GetAwait, GetResume, YieldReturns
  <2>7. CASE GetPop
    BY <2>7 DEF GetPop
  <2>8. CASE ConsumerExit
    BY <2>8 DEF ConsumerExit
  <2>9. CASE UNCHANGED vars
    BY <2>9 DEF vars
  <2> QED
    BY <2>1, <2>2, <2>3, <2>4, <2>5, <2>6, <2>7, <2>8, <2>9 DEF Next, Engine, Consumer
<1>3. Init => PopHasItem
  BY DEF Init, PopHasItem
<1> QED
  BY <1>1, <1>2, <1>3, PTL DEF Spec

(* No wakeup is lost: in get(), the re-check after event.clear() and the   *)
(* creation of the event before it leave no window in which a put or a     *)
(* close is buffered, the consumer sleeps, and nobody will set the event.  *)
THEOREM StreamNoLostWakeup == Spec => []NoLostWakeup
<1>1. Init => EventExists /\ WakeupPending
  BY DEF Init, EventExists, WakeupPending
<1>2. TypeOK /\ EventExists /\ WakeupPending /\ [Next]_vars
        => EventExists' /\ WakeupPending'
  <2> SUFFICES ASSUME TypeOK, EventExists, WakeupPending, [Next]_vars
               PROVE  EventExists' /\ WakeupPending'
    OBVIOUS
  <2> USE DEF TypeOK, EventExists, WakeupPending, ConsumerPC
  <2>1. CASE Put \/ CloseStream
    BY <2>1 DEF Put, CloseStream, EngineAppend
  <2>2. CASE Signal
    BY <2>2 DEF Signal
  <2>3. CASE RunCallback
    BY <2>3 DEF RunCallback
  <2>4. CASE GetCheck \/ GetCreate \/ GetClear
    BY <2>4 DEF GetCheck, GetCreate, GetClear
  <2>5. CASE GetRecheck
    BY <2>5 DEF GetRecheck
  <2>6. CASE GetAwait \/ GetResume \/ YieldReturns
    BY <2>6 DEF GetAwait, GetResume, YieldReturns
  <2>7. CASE GetPop
    BY <2>7 DEF GetPop
  <2>8. CASE ConsumerExit
    BY <2>8 DEF ConsumerExit
  <2>9. CASE UNCHANGED vars
    BY <2>9 DEF vars
  <2> QED
    BY <2>1, <2>2, <2>3, <2>4, <2>5, <2>6, <2>7, <2>8, <2>9 DEF Next, Engine, Consumer
<1>3. WakeupPending => NoLostWakeup
  BY DEF WakeupPending, NoLostWakeup
<1> QED
  BY <1>1, <1>2, <1>3, StreamTyping, PTL DEF Spec

(* Delivery is FIFO and exactly once: until the finally clause clears the  *)
(* channel, popped batches followed by buffered ones are the appended ones *)
(* in their order, whatever the two threads interleave.                    *)
THEOREM StreamFifo == Spec => []FifoDelivery
<1>1. Init => FifoDelivery
  BY DEF Init, FifoDelivery
<1>2. TypeOK /\ PopHasItem /\ FifoDelivery /\ [Next]_vars => FifoDelivery'
  <2> SUFFICES ASSUME TypeOK, PopHasItem, FifoDelivery, [Next]_vars
               PROVE  FifoDelivery'
    OBVIOUS
  <2> USE DEF TypeOK, PopHasItem, FifoDelivery
  <2>1. CASE Put
    <3>1. Len(sent) + 1 \in Nat
      OBVIOUS
    <3>2. buf' = Append(buf, Len(sent) + 1) /\ sent' = Append(sent, Len(sent) + 1)
      BY <2>1 DEF Put, EngineAppend
    <3>3. delivered' = delivered /\ cpc' = cpc
      BY <2>1 DEF Put
    <3>4. delivered \o Append(buf, Len(sent) + 1) = Append(delivered \o buf, Len(sent) + 1)
      BY <3>1, AppendConcat
    <3> QED
      BY <3>2, <3>3, <3>4
  <2>2. CASE CloseStream
    BY <2>2, AppendConcat DEF CloseStream, EngineAppend, None
  <2>3. CASE GetPop
    BY <2>3, PopConcat DEF GetPop
  <2>4. CASE ConsumerExit
    BY <2>4 DEF ConsumerExit
  <2>5. CASE Signal \/ RunCallback
    BY <2>5 DEF Signal, RunCallback, Suspended
  <2>6. CASE GetCheck \/ GetCreate \/ GetClear \/ GetRecheck \/ GetAwait \/ GetResume
             \/ YieldReturns
    BY <2>6 DEF GetCheck, GetCreate, GetClear, GetRecheck, GetAwait, GetResume, YieldReturns
  <2>7. CASE UNCHANGED vars
    BY <2>7 DEF vars
  <2> QED
    BY <2>1, <2>2, <2>3, <2>4, <2>5, <2>6, <2>7 DEF Next, Engine, Consumer
<1> QED
  BY <1>1, <1>2, StreamTyping, PTL DEF Spec
=============================================================================
