---------------------------- MODULE WakeChannel ----------------------------
(***************************************************************************)
(* How the asyncio thread wakes the engine thread (server/engine.py): a    *)
(* GIL-atomic deque of requests, a set of cancelled ids, the flag _stop,   *)
(* and a pipe whose bytes only say "look again".  A producer first changes *)
(* the shared state and then writes one byte; the engine empties the       *)
(* deque, then the pipe, and when there is nothing to do blocks in read(). *)
(*                                                                         *)
(* What the engine does with a request is module EngineLifecycle; here a   *)
(* request that was drained is in `waiting` until it is handled.           *)
(***************************************************************************)
EXTENDS Naturals, FiniteSets

CONSTANTS
  Requests,
  PipeCap     \* bytes the pipe holds; a write to a full pipe is dropped

ASSUME PipeCapAssumption == PipeCap \in Nat \ {0}

VARIABLES
  deque,      \* _req_deque, as a set
  waiting,    \* drained and not handled yet
  handled,
  cancelSet,  \* _cancel_set
  stop,       \* _stop: "no" or "yes"
  bytes,      \* bytes in the pipe
  pipe,       \* "open", or "closed" once stop() has closed both ends
  cpc,        \* the caller of submit / cancel, per request
  spc,        \* the caller of stop()
  epc         \* the engine thread

vars == <<deque, waiting, handled, cancelSet, stop, bytes, pipe, cpc, spc, epc>>

-----------------------------------------------------------------------------
Init ==
  /\ deque = {} /\ waiting = {} /\ handled = {} /\ cancelSet = {}
  /\ stop = "no" /\ bytes = 0 /\ pipe = "open"
  /\ cpc = [r \in Requests |-> "new"]
  /\ spc = "running" /\ epc = "check"

(* os.write of one byte; BlockingIOError (full) and OSError (closed) are   *)
(* ignored.                                                                *)
WriteByte ==
  bytes' = IF pipe = "open" /\ bytes < PipeCap THEN bytes + 1 ELSE bytes

-----------------------------------------------------------------------------
(* asyncio thread: _enqueue_request (test of _stop, append, write), cancel *)
(* (add, write) and stop (flag, write, join with a timeout, close).  They  *)
(* run on the event loop without awaiting between their steps: one call    *)
(* ends before the next begins.                                            *)

LoopIdle ==
  /\ \A r \in Requests : cpc[r] \notin {"checked", "appended", "cancelled"}
  /\ spc \notin {"flagged", "joining"}

SubmitCheck(r) ==
  /\ cpc[r] = "new"
  /\ LoopIdle
  /\ cpc' = [cpc EXCEPT ![r] = IF stop = "no" THEN "checked" ELSE "done"]
  /\ UNCHANGED <<deque, waiting, handled, cancelSet, stop, bytes, pipe, spc, epc>>

SubmitAppend(r) ==
  /\ cpc[r] = "checked"
  /\ deque' = deque \cup {r}
  /\ cpc' = [cpc EXCEPT ![r] = "appended"]
  /\ UNCHANGED <<waiting, handled, cancelSet, stop, bytes, pipe, spc, epc>>

SubmitWrite(r) ==
  /\ cpc[r] = "appended"
  /\ WriteByte
  /\ cpc' = [cpc EXCEPT ![r] = "sent"]
  /\ UNCHANGED <<deque, waiting, handled, cancelSet, stop, pipe, spc, epc>>

(* The caller goes away before the engine released its request. *)
CancelAdd(r) ==
  /\ cpc[r] = "sent"
  /\ r \notin handled
  /\ LoopIdle
  /\ cancelSet' = cancelSet \cup {r}
  /\ cpc' = [cpc EXCEPT ![r] = "cancelled"]
  /\ UNCHANGED <<deque, waiting, handled, stop, bytes, pipe, spc, epc>>

CancelWrite(r) ==
  /\ cpc[r] = "cancelled"
  /\ WriteByte
  /\ cpc' = [cpc EXCEPT ![r] = "done"]
  /\ UNCHANGED <<deque, waiting, handled, cancelSet, stop, pipe, spc, epc>>

StopFlag ==
  /\ spc = "running"
  /\ LoopIdle
  /\ stop' = "yes"
  /\ spc' = "flagged"
  /\ UNCHANGED <<deque, waiting, handled, cancelSet, bytes, pipe, cpc, epc>>

StopWrite ==
  /\ spc = "flagged"
  /\ WriteByte
  /\ spc' = "joining"
  /\ UNCHANGED <<deque, waiting, handled, cancelSet, stop, pipe, cpc, epc>>

(* Mutant: the pipe is closed only when the engine thread has ended. *)
StopCloseIfJoined ==
  /\ spc = "joining"
  /\ spc' = IF epc = "exited" THEN "joined" ELSE "timedOut"
  /\ pipe' = IF epc = "exited" THEN "closed" ELSE pipe
  /\ UNCHANGED <<deque, waiting, handled, cancelSet, stop, bytes, cpc, epc>>

(* join(timeout=30) returns when the engine thread has ended, or late; the *)
(* pipe is closed either way.                                              *)
StopClose ==
  /\ spc = "joining"
  /\ spc' = IF epc = "exited" THEN "joined" ELSE "timedOut"
  /\ pipe' = "closed"
  /\ UNCHANGED <<deque, waiting, handled, cancelSet, stop, bytes, cpc, epc>>

-----------------------------------------------------------------------------
(* Engine thread.                                                          *)

(* _drain_requests *)
DrainRequests == waiting' = waiting \cup deque /\ deque' = {}

(* _drain_pipe: a no-op (OSError) on a closed pipe *)
DrainPipe == bytes' = IF pipe = "open" THEN 0 ELSE bytes

(* `while not self._stop` *)
LoopTest ==
  /\ epc = "check"
  /\ epc' = IF stop = "yes" THEN "exit" ELSE "drain"
  /\ UNCHANGED <<deque, waiting, handled, cancelSet, stop, bytes, pipe, cpc, spc>>

(* Mutant: a busy round does not look at the deque. *)
RoundNoDrain ==
  /\ epc = "drain"
  /\ epc' = "drainPipe"
  /\ UNCHANGED <<deque, waiting, handled, cancelSet, stop, bytes, pipe, cpc, spc>>

RoundDrain ==
  /\ epc = "drain"
  /\ DrainRequests
  /\ epc' = "drainPipe"
  /\ UNCHANGED <<handled, cancelSet, stop, bytes, pipe, cpc, spc>>

RoundDrainPipe ==
  /\ epc = "drainPipe"
  /\ DrainPipe
  /\ epc' \in {"cancel", "coalesce"}
  /\ UNCHANGED <<deque, waiting, handled, cancelSet, stop, pipe, cpc, spc>>

(* _coalesce_admission_wave, when it is on: drain; then, if there is work  *)
(* and room for more, wait for bytes, empty the pipe and drain again.      *)
CoalesceDrain ==
  /\ epc = "coalesce"
  /\ DrainRequests
  /\ epc' \in IF waiting' = {} THEN {"cancel"} ELSE {"cancel", "window"}
  /\ UNCHANGED <<handled, cancelSet, stop, bytes, pipe, cpc, spc>>

WindowReadable ==
  /\ epc = "window"
  /\ bytes > 0 /\ pipe = "open"
  /\ DrainPipe
  /\ epc' = "coalesce"
  /\ UNCHANGED <<deque, waiting, handled, cancelSet, stop, pipe, cpc, spc>>

WindowEnd ==
  /\ epc = "window"
  /\ epc' = "cancel"
  /\ UNCHANGED <<deque, waiting, handled, cancelSet, stop, bytes, pipe, cpc, spc>>

(* The cancellation pass over whatever the engine holds. *)
CancelPass ==
  /\ epc = "cancel"
  /\ cancelSet' = {}
  /\ handled' = handled \cup (cancelSet \cap (waiting \cup deque))
  /\ waiting' = waiting \ cancelSet
  /\ deque' = deque \ cancelSet
  /\ epc' = "work"
  /\ UNCHANGED <<stop, bytes, pipe, cpc, spc>>

(* Admission, prefill and decode: some requests are finished with.  The    *)
(* round ends in the idle branch only when nothing is left.                *)
Work ==
  /\ epc = "work"
  /\ \E H \in SUBSET waiting :
       /\ handled' = handled \cup H
       /\ waiting' = waiting \ H
  /\ epc' \in IF waiting' = {} THEN {"idle", "check"} ELSE {"check"}
  /\ UNCHANGED <<deque, cancelSet, stop, bytes, pipe, cpc, spc>>

(* Mutant: the engine blocks without looking at the deque once more. *)
IdleNoRedrain ==
  /\ epc = "idle"
  /\ epc' = "blocked"
  /\ UNCHANGED <<deque, waiting, handled, cancelSet, stop, bytes, pipe, cpc, spc>>

(* "Re-drain immediately before blocking." *)
IdleRedrain ==
  /\ epc = "idle"
  /\ DrainRequests
  /\ epc' = IF waiting' = {} THEN "blocked" ELSE "check"
  /\ UNCHANGED <<handled, cancelSet, stop, bytes, pipe, cpc, spc>>

(* os.read returns: one byte, or the end of file after the last writer has *)
(* closed; on a closed descriptor set_blocking raises and the round fails. *)
ReadReturns ==
  /\ epc = "blocked"
  /\ \/ /\ pipe = "open" /\ bytes > 0
        /\ bytes' = bytes - 1
        /\ epc' = IF stop = "yes" THEN "check" ELSE "wokenDrain"
     \/ /\ pipe = "closed"
        /\ epc' = "recover"
        /\ UNCHANGED bytes
  /\ UNCHANGED <<deque, waiting, handled, cancelSet, stop, pipe, cpc, spc>>

WokenDrain ==
  /\ epc = "wokenDrain"
  /\ DrainRequests
  /\ epc' = "wokenDrainPipe"
  /\ UNCHANGED <<handled, cancelSet, stop, bytes, pipe, cpc, spc>>

WokenDrainPipe ==
  /\ epc = "wokenDrainPipe"
  /\ DrainPipe
  /\ epc' = "check"
  /\ UNCHANGED <<deque, waiting, handled, cancelSet, stop, pipe, cpc, spc>>

(* _fail_pending_requests, after a failed round and after the loop. *)
FailPending ==
  /\ epc \in {"recover", "exit"}
  /\ handled' = handled \cup deque \cup waiting
  /\ deque' = {} /\ waiting' = {}
  /\ epc' = IF epc = "recover" THEN "check" ELSE "exited"
  /\ UNCHANGED <<cancelSet, stop, bytes, pipe, cpc, spc>>

-----------------------------------------------------------------------------
Submit(r) == SubmitCheck(r) \/ SubmitAppend(r) \/ SubmitWrite(r)
Cancel(r) == CancelAdd(r) \/ CancelWrite(r)
Stopper   == StopFlag \/ StopWrite \/ StopClose

Engine ==
  \/ LoopTest \/ RoundDrain \/ RoundDrainPipe
  \/ CoalesceDrain \/ WindowReadable \/ WindowEnd
  \/ CancelPass \/ Work
  \/ IdleRedrain \/ ReadReturns \/ WokenDrain \/ WokenDrainPipe
  \/ FailPending

Next == (\E r \in Requests : Submit(r) \/ Cancel(r)) \/ Stopper \/ Engine

(* The engine thread runs; a call that has begun goes on to its write; the *)
(* join of stop() ends.                                                    *)
Fairness ==
  /\ WF_vars(Engine)
  /\ \A r \in Requests : WF_vars(SubmitWrite(r)) /\ WF_vars(CancelWrite(r))
  /\ WF_vars(StopWrite) /\ WF_vars(StopClose)

Spec == Init /\ [][Next]_vars /\ Fairness

-----------------------------------------------------------------------------
(* Properties.                                                             *)

TypeOK ==
  /\ deque \subseteq Requests /\ waiting \subseteq Requests
  /\ handled \subseteq Requests /\ cancelSet \subseteq Requests
  /\ stop \in {"no", "yes"}
  /\ bytes \in 0..PipeCap
  /\ pipe \in {"open", "closed"}
  /\ cpc \in [Requests -> {"new", "checked", "appended", "sent", "cancelled", "done"}]
  /\ spc \in {"running", "flagged", "joining", "joined", "timedOut"}
  /\ epc \in {"check", "drain", "drainPipe", "coalesce", "window", "cancel", "work",
              "idle", "blocked", "wokenDrain", "wokenDrainPipe", "recover", "exit", "exited"}

(* A producer that has changed the shared state and not written yet. *)
WriteComing == \E r \in Requests : cpc[r] \in {"appended", "cancelled"}

(* The comment at the idle branch of _step_sync, "Ordering is what makes   *)
(* this airtight": the engine never sleeps on a request or a cancellation  *)
(* whose byte is gone, although it empties the pipe at several other       *)
(* places, and writes to a full pipe are dropped.                          *)
NoSleepOnWork ==
  (epc = "blocked" /\ pipe = "open" /\ (deque # {} \/ cancelSet # {}))
    => bytes > 0 \/ WriteComing

(* A request in the deque is taken up, a cancellation is looked at, unless *)
(* the engine is stopped.                                                  *)
WorkTakenUp ==
  \A r \in Requests :
    /\ r \in deque ~> (r \notin deque \/ stop = "yes")
    /\ r \in cancelSet ~> (r \notin cancelSet \/ stop = "yes")

(* stop() ends the engine thread, whatever the engine is doing.  Its byte  *)
(* alone does not: a round that tested _stop before may empty the pipe and *)
(* block, and then it takes the timeout of the join and the close of the   *)
(* pipe (without the close, StopCloseIfJoined, the property fails).        *)
ShutdownCompletes == (stop = "yes") ~> (epc = "exited")
=============================================================================
