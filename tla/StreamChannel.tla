--------------------------- MODULE StreamChannel ---------------------------
(***************************************************************************)
(* The token channel between the engine thread and one asyncio consumer    *)
(* (server/engine.py, class StreamChannel, and the consumer loop of        *)
(* ServerEngine.submit_stream).                                            *)
(*                                                                         *)
(* The buffer is a deque shared by two threads; the asyncio.Event that     *)
(* wakes the consumer is created lazily by the consumer and set only by    *)
(* callbacks that the engine thread posts with call_soon_threadsafe.  The  *)
(* event loop runs such a callback only while the consumer coroutine is    *)
(* suspended.  Every bytecode-visible read or write of the buffer, the     *)
(* event and the closed flag is a step of its own.                         *)
(***************************************************************************)
EXTENDS Naturals, Sequences

CONSTANT MaxItems   \* how many token batches the engine puts (bounds the model)

ASSUME MaxItemsAssumption == MaxItems \in Nat \ {0}

(* Batches are numbered in the order they are put; the terminator that     *)
(* close() appends (Python's None) is 0.                                   *)
None == 0

VARIABLES
  buf,        \* _buf: the deque
  event,      \* _event: "none" until the consumer creates it, "clear" or "set"
  state,      \* _closed: "open" or "closed"
  callbacks,  \* event.set callbacks posted to the loop and not yet run
  epc,        \* engine thread: "idle", or "signal" between append and wakeup
  cpc,        \* consumer coroutine, see ConsumerPC
  sent,       \* history: everything appended to the deque
  delivered   \* history: everything the consumer popped

vars == <<buf, event, state, callbacks, epc, cpc, sent, delivered>>

(* "check"   - about to test `while not self._buf`                         *)
(* "create"  - buffer seen empty, about to test `self._event is None`      *)
(* "clear"   - about to call event.clear()                                 *)
(* "recheck" - about to test the buffer once more after clear()            *)
(* "await"   - about to evaluate `await self._event.wait()`                *)
(* "waiting" - suspended inside wait()                                     *)
(* "pop"     - about to popleft()                                          *)
(* "yielded" - suspended in `yield item`, the HTTP layer is sending        *)
(* "done"    - received the terminator, about to await the future          *)
(* "gone"    - the finally clause ran: the channel was cleared             *)
ConsumerPC == {"check", "create", "clear", "recheck", "await", "waiting",
               "pop", "yielded", "done", "gone"}

Init ==
  /\ buf = <<>>
  /\ event = "none"
  /\ state = "open"
  /\ callbacks = 0
  /\ epc = "idle"
  /\ cpc = "check"
  /\ sent = <<>>
  /\ delivered = <<>>

-----------------------------------------------------------------------------
(* Engine thread.                                                          *)

EngineAppend(x) ==
  /\ buf' = Append(buf, x)
  /\ sent' = Append(sent, x)
  /\ epc' = "signal"

(* put(): first statement, the append, whatever the channel's state. *)
Put ==
  /\ epc = "idle"
  /\ Len(sent) < MaxItems
  /\ EngineAppend(Len(sent) + 1)
  /\ UNCHANGED <<event, state, callbacks, cpc, delivered>>

(* close(): returns early when already closed (recovery paths close the    *)
(* stream of a request that has already finished).                         *)
CloseStream ==
  /\ epc = "idle"
  /\ \/ /\ state = "open"
        /\ state' = "closed"
        /\ EngineAppend(None)
     \/ /\ state = "closed"
        /\ UNCHANGED <<state, buf, sent, epc>>
  /\ UNCHANGED <<event, callbacks, cpc, delivered>>

(* Mutant: only put() signals. *)
SignalPutOnly ==
  /\ epc = "signal"
  /\ epc' = "idle"
  /\ callbacks' = IF event # "none" /\ state = "open" THEN callbacks + 1 ELSE callbacks
  /\ UNCHANGED <<buf, event, state, cpc, sent, delivered>>

(* put() and close(): `if self._event is not None: call_soon_threadsafe`. *)
Signal ==
  /\ epc = "signal"
  /\ epc' = "idle"
  /\ callbacks' = IF event # "none" THEN callbacks + 1 ELSE callbacks
  /\ UNCHANGED <<buf, event, state, cpc, sent, delivered>>

-----------------------------------------------------------------------------
(* Event loop: runs one posted event.set() while the coroutine is          *)
(* suspended.                                                              *)
Suspended == cpc \in {"waiting", "yielded", "done", "gone"}

RunCallback ==
  /\ Suspended
  /\ callbacks > 0
  /\ callbacks' = callbacks - 1
  /\ event' = "set"
  /\ UNCHANGED <<buf, state, epc, cpc, sent, delivered>>

-----------------------------------------------------------------------------
(* Consumer coroutine: get() and the loop of submit_stream().              *)

GetCheck ==
  /\ cpc = "check"
  /\ cpc' = IF buf = <<>> THEN "create" ELSE "pop"
  /\ UNCHANGED <<buf, event, state, callbacks, epc, sent, delivered>>

GetCreate ==
  /\ cpc = "create"
  /\ cpc' = "clear"
  /\ event' = IF event = "none" THEN "clear" ELSE event
  /\ UNCHANGED <<buf, state, callbacks, epc, sent, delivered>>

GetClear ==
  /\ cpc = "clear"
  /\ cpc' = "recheck"
  /\ event' = "clear"
  /\ UNCHANGED <<buf, state, callbacks, epc, sent, delivered>>

(* Mutant: no re-check between clear() and wait(). *)
GetNoRecheck ==
  /\ cpc = "recheck"
  /\ cpc' = "await"
  /\ UNCHANGED <<buf, event, state, callbacks, epc, sent, delivered>>

GetRecheck ==
  /\ cpc = "recheck"
  /\ cpc' = IF buf = <<>> THEN "await" ELSE "check"
  /\ UNCHANGED <<buf, event, state, callbacks, epc, sent, delivered>>

(* wait() returns at once on a set event and suspends otherwise. *)
GetAwait ==
  /\ cpc = "await"
  /\ cpc' = IF event = "set" THEN "check" ELSE "waiting"
  /\ UNCHANGED <<buf, event, state, callbacks, epc, sent, delivered>>

GetResume ==
  /\ cpc = "waiting"
  /\ event = "set"
  /\ cpc' = "check"
  /\ UNCHANGED <<buf, event, state, callbacks, epc, sent, delivered>>

(* Mutant: pop() instead of popleft(). *)
GetPopRight ==
  /\ cpc = "pop"
  /\ buf' = SubSeq(buf, 1, Len(buf) - 1)
  /\ delivered' = Append(delivered, buf[Len(buf)])
  /\ cpc' = IF buf[Len(buf)] = None THEN "done" ELSE "yielded"
  /\ UNCHANGED <<event, state, callbacks, epc, sent>>

(* popleft(); submit_stream breaks on the terminator and yields a batch. *)
GetPop ==
  /\ cpc = "pop"
  /\ buf' = Tail(buf)
  /\ delivered' = Append(delivered, Head(buf))
  /\ cpc' = IF Head(buf) = None THEN "done" ELSE "yielded"
  /\ UNCHANGED <<event, state, callbacks, epc, sent>>

YieldReturns ==
  /\ cpc = "yielded"
  /\ cpc' = "check"
  /\ UNCHANGED <<buf, event, state, callbacks, epc, sent, delivered>>

(* The finally clause: after the terminal result was yielded, or because   *)
(* the client went away while the coroutine was suspended.                 *)
ConsumerExit ==
  /\ cpc \in {"waiting", "yielded", "done"}
  /\ cpc' = "gone"
  /\ buf' = <<>>
  /\ UNCHANGED <<event, state, callbacks, epc, sent, delivered>>

Engine   == Put \/ CloseStream \/ Signal
Consumer == \/ GetCheck \/ GetCreate \/ GetClear \/ GetRecheck \/ GetAwait
            \/ GetResume \/ GetPop \/ YieldReturns

Next == Engine \/ RunCallback \/ Consumer \/ ConsumerExit

(* The engine thread finishes a put or close it has begun and eventually   *)
(* closes every stream; the event loop runs what was posted to it and      *)
(* resumes runnable coroutines.  No client is obliged to disconnect.       *)
Fairness ==
  /\ WF_vars(Signal)
  /\ WF_vars(CloseStream /\ state = "open")
  /\ WF_vars(RunCallback)
  /\ WF_vars(Consumer)

Spec == Init /\ [][Next]_vars /\ Fairness

-----------------------------------------------------------------------------
TypeOK ==
  /\ buf \in Seq(Nat)
  /\ event \in {"none", "clear", "set"}
  /\ state \in {"open", "closed"}
  /\ callbacks \in Nat
  /\ epc \in {"idle", "signal"}
  /\ cpc \in ConsumerPC
  /\ sent \in Seq(Nat)
  /\ delivered \in Seq(Nat)

(* A consumer suspended in get() while a batch is in the buffer is going   *)
(* to be woken: the event is set, or a callback that sets it is posted, or *)
(* the engine thread is about to post one.  This is the wakeup the re-     *)
(* check after event.clear() exists for.                                   *)
NoLostWakeup ==
  (cpc = "waiting" /\ buf # <<>>)
     => event = "set" \/ callbacks > 0 \/ epc = "signal"

(* Delivery is FIFO, loses nothing and repeats nothing: what was popped,   *)
(* followed by what is still buffered, is what the engine appended.        *)
FifoDelivery == cpc # "gone" => delivered \o buf = sent

(* Every stream ends: the consumer receives the terminator or goes away.   *)
StreamEnds == <>(cpc \in {"done", "gone"})
=============================================================================
