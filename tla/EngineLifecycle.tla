-------------------------- MODULE EngineLifecycle --------------------------
(***************************************************************************)
(* Ownership of requests and slots in ServerEngine (server/engine.py): the *)
(* continuous-batching loop of the engine thread (_engine_thread_main and  *)
(* _step_sync) and the asyncio-side calls that race with it (submit,       *)
(* cancel, stop).                                                          *)
(*                                                                         *)
(* One round of the engine is cut at the points where the code calls the   *)
(* backend, catches an exception or tests a condition, so that a call that *)
(* raises half-way leaves exactly the state the code leaves.  Tokens, KV   *)
(* contents and prompts are abstracted to what decides ownership: how many *)
(* tokens a slot committed, whose KV a slot holds, how many pages a        *)
(* request reserves, and which prompts are equal.                          *)
(*                                                                         *)
(* Not modelled here: the wakeup pipe (module WakeChannel), the token      *)
(* stream (module StreamChannel), session affinity (rejected at            *)
(* construction for every backend, so `retained` is always empty).         *)
(***************************************************************************)
EXTENDS Naturals, Sequences, FiniteSets, FiniteSetsExt, Collections

CONSTANTS
  Requests,        \* requests clients may submit
  Slots,           \* logical slots, range(capacity)
  NoReq,           \* "no request"
  MaxPending,      \* max_pending_requests
  KvPages,         \* pages the KV pool can promise
  Need,            \* pages of prompt + max_tokens + K, per request
  Key,             \* block-aligned prompt, per request; NoKey when unaligned
  NoKey,
  PublishedKept,   \* _PREFIX_DEDUP_PUBLISHED_KEYS_KEPT
  Sampled,         \* requests decoded on the plain sampled path
  MaxTokens,       \* max_tokens of every request
  WatchdogRounds,  \* watchdog_max_stale_rounds (0 disables)
  Backoff,         \* rounds between admission retries after a capacity miss
  Faults,          \* calls that may raise a recoverable exception
  FatalFaults      \* calls that may raise a fatal CUDA error

(* Where an exception can enter a round:                                   *)
(*   "prefill"  prefill_chunked_begin or prefill_chunked_step              *)
(*   "decode"   a decode call before any slot of the round has finished    *)
(*   "verify"   mtp_verify_and_commit_batch, whatever the plain slots did  *)
(*   "finish"   reset_slot of _finish_request, in the decode round         *)
(*   "activateNow", "activatePending"                                      *)
(*              _activate_slot (its thinking-constraint check, or the      *)
(*              reset_slot of its _finish_request), for a wave whose       *)
(*              prefill completed at once, or over several rounds          *)
(*   "reset"    reset_slot inside a try/except or before prefill           *)
(*   "timeout"  a request outlives request_timeout_s                       *)
Sites == {"prefill", "decode", "verify", "finish", "activateNow", "activatePending",
          "reset", "timeout"}

ASSUME ConstantsAssumption ==
  /\ IsFiniteSet(Requests) /\ IsFiniteSet(Slots)
  /\ NoReq \notin Requests
  /\ MaxPending \in Nat /\ KvPages \in Nat
  /\ Need \in [Requests -> Nat]
  /\ DOMAIN Key = Requests
  /\ PublishedKept \in Nat
  /\ Sampled \subseteq Requests
  /\ MaxTokens \in Nat \ {0} /\ WatchdogRounds \in Nat /\ Backoff \in Nat
  /\ Faults \subseteq Sites /\ FatalFaults \subseteq Sites

VARIABLES
  (* shared with the asyncio thread *)
  deque,      \* _req_deque
  count,      \* _request_count
  cancelSet,  \* _cancel_set
  cpc,        \* the caller of submit, per request
  stop,       \* _stop: "no" or "yes"
  served,     \* requests whose future got a result (and that were released)
  failed,     \* requests whose future got an exception (and were released)
  (* owned by the engine thread *)
  epc,        \* where the engine thread is
  cancelIds,  \* cancel_ids of the cancellation pass in progress
  incoming,   \* its remaining_incoming
  waiting,    \* waiting
  pending,    \* _pending_prefill_reqs; _pending_prefill is None iff empty
  wave,       \* admit_now of the round in progress
  widx,       \* next element of wave to activate
  active,     \* active: slot -> request
  free,       \* free_slots, as multiplicities
  finished,   \* newly_finished of the round in progress
  todo,       \* slots this decode call has still to book
  mtp,        \* mtp_slots of the round in progress
  tok,        \* len(committed_tokens), per slot
  stale,      \* rounds since last_progress_round, per slot
  content,    \* requests whose KV a slot holds ({} when is_fresh)
  reserved,   \* pages reserved for the slot
  backoff,    \* _kv_admission_retry_round - rounds, floored at 0
  inflight,   \* _prefix_dedup_inflight
  published,  \* _prefix_dedup_published
  (* history, of two failures that are not repaired; no guard reads it *)
  harmed,     \* slots lost to free_slots, or listed there twice
  stray       \* requests that were dropped unanswered

clientVars == <<cpc, stop>>
passVars   == <<cancelIds, incoming>>
queueVars  == <<deque, waiting, cancelSet, passVars>>
slotVars   == <<active, free, content, reserved, tok, stale>>
roundVars  == <<finished, todo, mtp>>
waveVars   == <<pending, wave, widx>>
dedupVars  == <<inflight, published>>
doneVars   == <<count, served, failed>>
lossVars   == <<harmed, stray>>
vars == <<clientVars, queueVars, slotVars, roundVars, waveVars, dedupVars,
          doneVars, epc, backoff, lossVars>>

EnginePC == {"top", "coalesce", "window", "cancel", "incoming", "refill",
             "prefill", "admit", "begin",
             "activateNow", "activatePending", "idle", "blocked", "decode",
             "plain", "mtp", "reap", "recover", "recoverFatal", "exit", "exited"}

-----------------------------------------------------------------------------
(* Helpers.                                                                *)

Released == served \cup failed

ActiveSlots == {s \in Slots : active[s] # NoReq}

WaveSlots(w) == {w[i].slot : i \in 1..Len(w)}
WaveReqs(w)  == {w[i].req : i \in 1..Len(w)}

Reqs(w) == [i \in 1..Len(w) |-> w[i].req]

Reversed(s) == [i \in 1..Len(s) |-> s[Len(s) + 1 - i]]

(* Mutant: a request released by two paths is counted twice. *)
ReleaseAgain(R) == count' = count - Cardinality(R)

(* _release_request for every request of R: once each. *)
Release(R) == count' = count - Cardinality(R \ Released)

(* Mutant: an error replaces a result. *)
FailAllLate(R) ==
  /\ Release(R)
  /\ failed' = failed \cup R
  /\ served' = served \ R

(* _fail_request: release, close the stream, schedule set_exception; a     *)
(* future that already has a result keeps it.                              *)
FailAll(R) ==
  /\ Release(R)
  /\ failed' = failed \cup (R \ served)
  /\ UNCHANGED served

(* reset_slot on each slot of S inside try/except: ok is the set of slots  *)
(* on which it succeeded.                                                  *)
GuardedResets(S) == IF "reset" \in Faults THEN SUBSET S ELSE {S}

ResetSlots(ok) ==
  /\ content'  = [s \in Slots |-> IF s \in ok THEN {} ELSE content[s]]
  /\ reserved' = [s \in Slots |-> IF s \in ok THEN 0 ELSE reserved[s]]

(* free_slots.append(slot), with and without the `not in` guard. *)
Append1(f, S)   == [s \in Slots |-> IF s \in S THEN f[s] + 1 ELSE f[s]]
AppendDup(f, S) == [s \in Slots |-> IF s \in S THEN f[s] + 1 ELSE f[s]]  \* mutant
AppendNew(f, S) == [s \in Slots |-> IF s \in S /\ f[s] = 0 THEN 1 ELSE f[s]]

(* ... once for every member of a wave. *)
AppendEach(f, w) ==
  [s \in Slots |-> f[s] + Cardinality({i \in 1..Len(w) : w[i].slot = s})]

ReservedPages == Total(reserved, Slots)

KeysOf(R) == {Key[r] : r \in R} \ {NoKey}

(* Mutant: a failed wave leaves its keys in flight. *)
DropNoKeys(R) == inflight' = inflight

(* _release_prefix_dedup_keys with published=False / published=True.  The  *)
(* published set is pruned by set.pop, an arbitrary element at a time.     *)
DropKeys(R) == inflight' = inflight \ KeysOf(R)

PublishKeys(R) ==
  /\ DropKeys(R)
  /\ LET P == published \cup KeysOf(R)
     IN  \E Q \in SUBSET P :
           /\ IF Cardinality(P) <= PublishedKept
                THEN Q = P
                ELSE Cardinality(Q) = PublishedKept
           /\ published' = Q

(* An exception leaves _step_sync; _engine_thread_main catches it. *)
Raise(site) ==
  \/ site \in Faults      /\ epc' = "recover"
  \/ site \in FatalFaults /\ epc' = "recoverFatal"

-----------------------------------------------------------------------------
Init ==
  /\ deque = <<>> /\ waiting = <<>> /\ cancelSet = {} /\ cancelIds = {} /\ incoming = <<>>
  /\ count = 0 /\ served = {} /\ failed = {}
  /\ cpc = [r \in Requests |-> "new"]
  /\ stop = "no"
  /\ epc = "top"
  /\ pending = <<>> /\ wave = <<>> /\ widx = 1
  /\ active = [s \in Slots |-> NoReq]
  /\ free = [s \in Slots |-> 1]
  /\ finished = {} /\ todo = {} /\ mtp = {}
  /\ tok = [s \in Slots |-> 0] /\ stale = [s \in Slots |-> 0]
  /\ content = [s \in Slots |-> {}] /\ reserved = [s \in Slots |-> 0]
  /\ backoff = 0
  /\ inflight = {} /\ published = {}
  /\ harmed = {} /\ stray = {}

-----------------------------------------------------------------------------
(* asyncio thread.  submit, cancel and stop run on the event loop and do   *)
(* not await between their steps, so one call ends before the next begins; *)
(* only the engine thread interleaves with them.                           *)

LoopIdle == \A r \in Requests : cpc[r] # "checked"

engineVars == <<slotVars, roundVars, waveVars, dedupVars, epc, backoff, waiting, passVars,
                lossVars>>

(* _enqueue_request, first half: _fatal_error and _stop are read without   *)
(* the lock.  (A fatal error sets both.)                                   *)
SubmitCheck(r) ==
  /\ cpc[r] = "new"
  /\ LoopIdle
  /\ cpc' = [cpc EXCEPT ![r] = IF stop = "yes" THEN "rejected" ELSE "checked"]
  /\ UNCHANGED <<engineVars, doneVars, deque, cancelSet, stop>>

(* _enqueue_request, second half: the budget test, the increment and the   *)
(* append, under _request_count_lock.                                      *)
SubmitEnqueue(r) ==
  /\ cpc[r] = "checked"
  /\ IF count >= MaxPending
       THEN /\ cpc' = [cpc EXCEPT ![r] = "rejected"]
            /\ UNCHANGED <<count, deque>>
       ELSE /\ cpc' = [cpc EXCEPT ![r] = "in"]
            /\ count' = count + 1
            /\ deque' = Append(deque, r)
  /\ UNCHANGED <<engineVars, served, failed, cancelSet, stop>>

(* The finally clause of submit / submit_stream when the caller goes away  *)
(* before the engine released its request: cancel().                       *)
Disconnect(r) ==
  /\ cpc[r] = "in"
  /\ r \notin Released
  /\ LoopIdle
  /\ cpc' = [cpc EXCEPT ![r] = "left"]
  /\ cancelSet' = cancelSet \cup {r}
  /\ UNCHANGED <<engineVars, doneVars, deque, stop>>

Stop ==
  /\ stop = "no"
  /\ LoopIdle
  /\ stop' = "yes"
  /\ UNCHANGED <<engineVars, doneVars, deque, cancelSet, cpc>>

-----------------------------------------------------------------------------
(* Engine thread: the top of a round.                                      *)

(* `while not self._stop`, then _drain_requests. *)
RoundBegin ==
  /\ epc = "top"
  /\ \/ /\ stop = "yes"
        /\ epc' = "exit"
        /\ UNCHANGED <<waiting, deque>>
     \/ /\ stop = "no"
        /\ epc' = "coalesce"
        /\ waiting' = waiting \o deque
        /\ deque' = <<>>
  /\ UNCHANGED <<lossVars, clientVars, cancelSet, passVars, slotVars, roundVars, waveVars, dedupVars,
                 doneVars, backoff>>

(* _coalesce_admission_wave.  With the feature off (QSR_ADMISSION_COALESCE *)
(* _MS unset) it does nothing; otherwise it drains once more and, with     *)
(* spare slots and nothing running, waits for further arrivals within the  *)
(* window.                                                                 *)
FreeCount == Total(free, Slots)

CoalesceOff ==
  /\ epc = "coalesce"
  /\ epc' = "cancel"
  /\ UNCHANGED <<lossVars, clientVars, queueVars, slotVars, roundVars, waveVars, dedupVars,
                 doneVars, backoff>>

CoalesceBegin ==
  /\ epc = "coalesce"
  /\ waiting' = waiting \o deque
  /\ deque' = <<>>
  /\ epc' = IF ActiveSlots = {} /\ pending = <<>> /\ Len(waiting') \in 1..(FreeCount - 1)
              THEN "window" ELSE "cancel"
  /\ UNCHANGED <<lossVars, clientVars, cancelSet, passVars, slotVars, roundVars, waveVars, dedupVars,
                 doneVars, backoff>>

CoalesceDrain ==
  /\ epc = "window"
  /\ Len(waiting) < FreeCount
  /\ deque # <<>>
  /\ waiting' = waiting \o deque
  /\ deque' = <<>>
  /\ UNCHANGED <<lossVars, clientVars, cancelSet, passVars, slotVars, roundVars, waveVars, dedupVars,
                 doneVars, epc, backoff>>

(* Every free slot has a request, or the window has passed. *)
CoalesceEnd ==
  /\ epc = "window"
  /\ epc' = "cancel"
  /\ UNCHANGED <<lossVars, clientVars, queueVars, slotVars, roundVars, waveVars, dedupVars,
                 doneVars, backoff>>

(* Members of a torn-down wave that were not cancelled go back to the front *)
(* of waiting, one insert(0) at a time.                                     *)
RequeueMembers(C) == Reversed(Drop(Reqs(pending), C))

(* The cancellation pass takes the ids and goes over active and waiting. *)
ProcessCancellations ==
  /\ epc = "cancel"
  /\ epc' = IF cancelSet = {} THEN "prefill" ELSE "incoming"
  /\ cancelSet' = {} /\ cancelIds' = cancelSet
  /\ LET actSlots == {s \in ActiveSlots : active[s] \in cancelSet}
     IN  /\ FailAll(cancelSet \cap ({active[s] : s \in actSlots} \cup Range(waiting)))
         /\ active' = [s \in Slots |-> IF s \in actSlots THEN NoReq ELSE active[s]]
         /\ free' = Append1(free, actSlots)
         /\ \E ok \in GuardedResets(actSlots) : ResetSlots(ok)
         /\ backoff' = IF actSlots # {} THEN 0 ELSE backoff
         /\ waiting' = Drop(waiting, cancelSet)
         /\ tok' = [s \in Slots |-> IF s \in actSlots THEN 0 ELSE tok[s]]
         /\ stale' = [s \in Slots |-> IF s \in actSlots THEN 0 ELSE stale[s]]
  /\ UNCHANGED <<lossVars, clientVars, deque, incoming, roundVars, waveVars, dedupVars>>

(* The deque is emptied, one popleft at a time until it is seen empty: a   *)
(* request appended on the way is popped too.                              *)
CancelIncoming ==
  /\ epc = "incoming" /\ epc' = "refill"
  /\ FailAll(cancelIds \cap Range(deque))
  /\ incoming' = Drop(deque, cancelIds)
  /\ deque' = <<>>
  /\ UNCHANGED <<lossVars, clientVars, waiting, cancelSet, cancelIds, slotVars, roundVars, waveVars,
                 dedupVars, backoff>>

(* Mutant: the kept requests replace the deque. *)
ReplaceDeque == incoming

(* _req_deque.extend(remaining_incoming), behind what arrived meanwhile. *)
ExtendDeque == deque \o incoming

(* The deque gets its requests back.  A pending wave with a cancelled      *)
(* member is torn down: its slots are reset and freed, and its other       *)
(* members are requeued.                                                   *)
CancelPending ==
  /\ epc = "refill" /\ epc' = "prefill"
  /\ deque' = ExtendDeque /\ incoming' = <<>> /\ cancelIds' = {}
  /\ LET abort == WaveReqs(pending) \cap cancelIds # {}
         gone  == IF abort THEN pending ELSE <<>>
     IN  /\ FailAll(WaveReqs(gone) \cap cancelIds)
         /\ free' = AppendNew(free, WaveSlots(gone))
         /\ \E ok \in GuardedResets(WaveSlots(gone)) : ResetSlots(ok)
         /\ waiting' = IF abort THEN RequeueMembers(cancelIds) \o waiting ELSE waiting
         /\ pending' = IF abort THEN <<>> ELSE pending
         /\ inflight' = inflight \ KeysOf(WaveReqs(gone))
  /\ UNCHANGED <<lossVars, clientVars, cancelSet, active, tok, stale, roundVars, wave, widx, published,
                 backoff>>

-----------------------------------------------------------------------------
(* Engine thread: the pending incremental prefill, one chunk per round.    *)

PrefillSkip ==
  /\ epc = "prefill"
  /\ pending = <<>>
  /\ epc' = "admit"
  /\ UNCHANGED <<lossVars, clientVars, queueVars, slotVars, roundVars, waveVars, dedupVars,
                 doneVars, backoff>>

PrefillMore ==
  /\ epc = "prefill"
  /\ pending # <<>>
  /\ epc' = "admit"
  /\ UNCHANGED <<lossVars, clientVars, queueVars, slotVars, roundVars, waveVars, dedupVars,
                 doneVars, backoff>>

(* done: the keys are published, then the members are activated one by one *)
(* while _pending_prefill_reqs still names the wave.                       *)
PrefillDone ==
  /\ epc = "prefill"
  /\ pending # <<>>
  /\ PublishKeys(WaveReqs(pending))
  /\ wave' = pending
  /\ widx' = 1
  /\ epc' = "activatePending"
  /\ UNCHANGED <<lossVars, clientVars, queueVars, slotVars, roundVars, pending, doneVars, backoff>>

(* The step raised: fail the wave, reset its slots (unless fatal), free    *)
(* them; a fatal error is re-raised.                                       *)
PrefillRaises ==
  /\ epc = "prefill"
  /\ pending # <<>>
  /\ LET S == WaveSlots(pending)
     IN  /\ FailAll(WaveReqs(pending))
         /\ free' = AppendEach(free, pending)
         /\ \/ /\ "prefill" \in Faults
               /\ \E ok \in GuardedResets(S) : ResetSlots(ok)
               /\ epc' = "admit"
            \/ /\ "prefill" \in FatalFaults
               /\ epc' = "recoverFatal"
               /\ UNCHANGED <<content, reserved>>
  /\ DropKeys(WaveReqs(pending))
  /\ pending' = <<>>
  /\ UNCHANGED <<lossVars, clientVars, queueVars, active, tok, stale, roundVars, wave, widx,
                 published, backoff>>

-----------------------------------------------------------------------------
(* Engine thread: admission.                                               *)

AdmissionOpen ==
  /\ pending = <<>>
  /\ \E s \in Slots : free[s] > 0
  /\ waiting # <<>>
  /\ backoff = 0

AdmitSkip ==
  /\ epc = "admit"
  /\ ~AdmissionOpen
  /\ epc' = "idle"
  /\ UNCHANGED <<lossVars, clientVars, queueVars, slotVars, roundVars, waveVars, dedupVars,
                 doneVars, backoff>>

(* _select_admission_requests.  A waiting request is passed over when an   *)
(* equal block-aligned prompt is in flight, or precedes it in waiting and  *)
(* was not published yet.  (An equal prompt that precedes it is selected   *)
(* unless the wave is already full.)                                       *)
Eligible(i) ==
  LET k == Key[waiting[i]]
  IN  \/ k = NoKey
      \/ /\ k \notin inflight
         /\ k \in published \/ \A j \in 1..(i - 1) : Key[waiting[j]] # k

WaveLimit == Min({FreeCount, Len(waiting)})

Selectable(i) ==
  /\ Eligible(i)
  /\ Cardinality({j \in 1..(i - 1) : Eligible(j)}) < WaveLimit

Selected == Pick(waiting, {i \in 1..Len(waiting) : Selectable(i)})
PassedOver == Pick(waiting, {i \in 1..Len(waiting) : ~Selectable(i)})

(* The pages of each selected request. *)
NeedOf(sel) == [i \in 1..Len(sel) |-> Need[sel[i]]]

(* Any free slot may be the one with the deepest warm prefix.  free_slots  *)
(* is a list: a slot listed twice can be handed out twice.                 *)
Assignments(n) ==
  {a \in [1..n -> Slots] : \A s \in Slots : Cardinality({i \in 1..n : a[i] = s}) <= free[s]}

(* Mutant: pages of running requests are not counted. *)
FitCountAlone(sel) ==
  Max({k \in 0..Len(sel) : Total(NeedOf(sel), 1..k) <= KvPages})

(* How many of the selected requests get their pages before the first      *)
(* capacity miss.  Slots of the wave hold no reservation at this point.    *)
FitCount(sel) ==
  Max({k \in 0..Len(sel) : ReservedPages + Total(NeedOf(sel), 1..k) <= KvPages})

(* The slots of the wave that are not fresh are reset first.  Mutant: a    *)
(* slot is taken as it is.                                                 *)
ResetNone(a) == {}

ResetBeforeUse(a) == Range(a)

(* Slot assignment, reset of slots that are not fresh, page reservation    *)
(* with the FCFS deferral of the first miss and everything behind it.      *)
Admit ==
  /\ epc = "admit"
  /\ AdmissionOpen
  /\ LET sel == Selected
         n   == Len(sel)
         k   == FitCount(sel)
     IN  \E a \in Assignments(n) :
           LET used(s)  == {i \in 1..k : a[i] = s}
               dirty    == ResetBeforeUse(a)
               tail     == SubSeq(sel, k + 1, n)
           IN  /\ wave' = [i \in 1..k |-> [slot |-> a[i], req |-> sel[i]]]
               /\ widx' = 1
               /\ free' = [s \in Slots |-> free[s] - Cardinality(used(s))]
               /\ content' = [s \in Slots |->
                    (IF s \in dirty THEN {} ELSE content[s]) \cup {sel[i] : i \in used(s)}]
               /\ reserved' = [s \in Slots |->
                    IF used(s) # {} THEN Total(NeedOf(sel), used(s))
                                    ELSE IF s \in dirty THEN 0 ELSE reserved[s]]
               /\ waiting' = tail \o PassedOver
               /\ backoff' = IF k < n THEN Backoff ELSE backoff
               /\ inflight' = (inflight \cup KeysOf(Range(sel))) \ KeysOf(Range(tail))
               /\ epc' = IF k = 0 THEN "idle" ELSE "begin"
  /\ UNCHANGED <<lossVars, clientVars, deque, cancelSet, passVars, active, tok, stale, roundVars, pending,
                 published, doneVars>>

(* Failure of a wave w before it became pending: the except clause fails   *)
(* its requests, resets its slots unless the error is fatal, frees them.   *)
FailWave(w, site) ==
  LET R == WaveReqs(w)
      S == WaveSlots(w)
  IN  /\ FailAll(R)
      /\ inflight' = inflight \ KeysOf(R)
      /\ \/ /\ site \in Faults
            /\ \E ok \in GuardedResets(S) : ResetSlots(ok)
            /\ epc' = "idle"
         \/ /\ site \in FatalFaults
            /\ epc' = "recoverFatal"
            /\ UNCHANGED <<content, reserved>>

(* reset_slot of a slot that is not fresh raises before anything was       *)
(* reserved: the whole selection fails.                                    *)
AdmitResetRaises ==
  /\ epc = "admit"
  /\ AdmissionOpen
  /\ LET sel == Selected
     IN  \E a \in Assignments(Len(sel)) :
           /\ \E i \in 1..Len(sel) : content[a[i]] # {}
           /\ FailWave([i \in 1..Len(sel) |-> [slot |-> a[i], req |-> sel[i]]], "reset")
  /\ waiting' = PassedOver
  /\ UNCHANGED <<lossVars, clientVars, deque, cancelSet, passVars, active, free, tok, stale, roundVars,
                 waveVars, published, backoff>>

(* prefill_chunked_begin returned with more chunks to come. *)
BeginPending ==
  /\ epc = "begin"
  /\ pending' = wave
  /\ wave' = <<>>
  /\ epc' = "idle"
  /\ UNCHANGED <<lossVars, clientVars, queueVars, slotVars, roundVars, widx, dedupVars, doneVars,
                 backoff>>

(* A short prompt: the prefill completed at once.  Nothing but the local   *)
(* admit_now names the wave from here on.                                  *)
BeginDone ==
  /\ epc = "begin"
  /\ PublishKeys(WaveReqs(wave))
  /\ epc' = "activateNow"
  /\ UNCHANGED <<lossVars, clientVars, queueVars, slotVars, roundVars, waveVars, doneVars, backoff>>

BeginRaises ==
  /\ epc = "begin"
  /\ FailWave(wave, "prefill")
  /\ free' = AppendEach(free, wave)
  /\ wave' = <<>>
  /\ UNCHANGED <<lossVars, clientVars, queueVars, active, tok, stale, roundVars, pending, widx,
                 published, backoff>>

-----------------------------------------------------------------------------
(* Engine thread: _activate_slot for each member of the wave.              *)

Activating == epc \in {"activateNow", "activatePending"}

(* The members that are still to be activated. *)
WaveRest == {i \in 1..Len(wave) : i >= widx}

(* The members an exception loses: only the local admit_now names those of *)
(* a wave that completed at once, and it is gone with the exception.       *)
Forgotten == IF epc = "activateNow" THEN WaveRest ELSE {}

SlotsAt(I) == {wave[i].slot : i \in I}
ReqsAt(I)  == {wave[i].req : i \in I}

(* The request whose entry in `active` a new one for slot s replaces. *)
Overwritten(s) == {active[s]} \ {NoReq}

(* The anchor was not terminal: the slot is active with one token. *)
ActivateStay ==
  /\ Activating
  /\ widx <= Len(wave)
  /\ MaxTokens > 1
  /\ LET e == wave[widx]
     IN  /\ active' = [active EXCEPT ![e.slot] = e.req]
         /\ tok' = [tok EXCEPT ![e.slot] = 1]
         /\ stale' = [stale EXCEPT ![e.slot] = 0]
         /\ stray' = stray \cup Overwritten(e.slot)
  /\ widx' = widx + 1
  /\ UNCHANGED <<harmed, clientVars, queueVars, free, content, reserved, roundVars, pending, wave,
                 dedupVars, doneVars, epc, backoff>>

(* _finish_request up to the resolution of the future. *)
Resolve(r) ==
  /\ Release({r})
  /\ served' = served \cup ({r} \ failed)
  /\ UNCHANGED failed

(* ... and from there on, when reset_slot succeeds. *)
FinishRequest(s, r) ==
  /\ Resolve(r)
  /\ backoff' = 0
  /\ ResetSlots({s})
  /\ free' = Append1(free, {s})

(* ... and when reset_slot raises: the reservation is gone, the slot is    *)
(* not appended to free_slots.                                             *)
FinishRequestRaises(s, r, site) ==
  /\ Resolve(r)
  /\ backoff' = 0
  /\ reserved' = [reserved EXCEPT ![s] = 0]
  /\ Raise(site)
  /\ UNCHANGED <<free, content>>

(* The anchor ends the request: EOS, stop sequence, tool call or length. *)
ActivateFinish ==
  /\ Activating
  /\ widx <= Len(wave)
  /\ FinishRequest(wave[widx].slot, wave[widx].req)
  /\ widx' = widx + 1
  /\ UNCHANGED <<lossVars, clientVars, queueVars, active, tok, stale, roundVars, pending, wave,
                 dedupVars, epc>>

(* Only an EOS anchor finishes before the slot is entered in `active`. *)
ActivateFinishRaises ==
  /\ Activating
  /\ widx <= Len(wave)
  /\ LET e == wave[widx]
         lost == Forgotten \ {widx}
     IN  /\ FinishRequestRaises(e.slot, e.req, epc)
         /\ \/ /\ active' = active
               /\ harmed' = harmed \cup SlotsAt(Forgotten)
               /\ stray' = stray \cup ReqsAt(lost)
            \/ /\ active' = [active EXCEPT ![e.slot] = e.req]
               /\ harmed' = harmed \cup SlotsAt(lost)
               /\ stray' = stray \cup ReqsAt(lost) \cup Overwritten(e.slot)
  /\ wave' = <<>>
  /\ widx' = 1
  /\ UNCHANGED <<clientVars, queueVars, tok, stale, roundVars, pending, dedupVars>>

(* prefill did not honor the thinking-token constraint. *)
ActivateRaises ==
  /\ Activating
  /\ widx <= Len(wave)
  /\ Raise(epc)
  /\ harmed' = harmed \cup SlotsAt(Forgotten)
  /\ stray' = stray \cup ReqsAt(Forgotten)
  /\ wave' = <<>>
  /\ widx' = 1
  /\ UNCHANGED <<clientVars, queueVars, slotVars, roundVars, pending, dedupVars, doneVars,
                 backoff>>

ActivateEnd ==
  /\ Activating
  /\ widx > Len(wave)
  /\ wave' = <<>>
  /\ widx' = 1
  /\ pending' = <<>>
  /\ epc' = IF epc = "activatePending" THEN "admit" ELSE "idle"
  /\ UNCHANGED <<lossVars, clientVars, queueVars, slotVars, roundVars, dedupVars, doneVars, backoff>>

-----------------------------------------------------------------------------
(* Engine thread: idle, retry or decode.                                   *)

(* Nothing to do: drain once more, then block on the pipe. *)
IdleBlock ==
  /\ epc = "idle"
  /\ ActiveSlots = {} /\ waiting = <<>> /\ pending = <<>>
  /\ waiting' = deque
  /\ deque' = <<>>
  /\ epc' = IF deque = <<>> THEN "blocked" ELSE "top"
  /\ UNCHANGED <<lossVars, clientVars, cancelSet, passVars, slotVars, roundVars, waveVars, dedupVars,
                 doneVars, backoff>>

(* Mutant: the back-off is kept, though no round will count it down. *)
IdleRetryLater ==
  /\ epc = "idle"
  /\ ActiveSlots = {} /\ waiting # <<>> /\ pending = <<>>
  /\ epc' = "top"
  /\ UNCHANGED <<lossVars, clientVars, queueVars, slotVars, roundVars, waveVars, dedupVars, doneVars,
                 backoff>>

(* Waiting requests but no active slot: retry admission at once. *)
IdleRetry ==
  /\ epc = "idle"
  /\ ActiveSlots = {} /\ waiting # <<>> /\ pending = <<>>
  /\ backoff' = 0
  /\ epc' = "top"
  /\ UNCHANGED <<lossVars, clientVars, queueVars, slotVars, roundVars, waveVars, dedupVars, doneVars>>

(* The blocking read returns when a submit, a cancel or stop() has written *)
(* its byte; that none of the first two is lost is shown by module         *)
(* WakeChannel.  (A byte left over from work already drained costs one     *)
(* empty round, which is left out.)                                        *)
Wake ==
  /\ epc = "blocked"
  /\ epc' = "top"
  /\ \/ /\ stop = "yes"
        /\ UNCHANGED <<waiting, deque>>
     \/ /\ stop = "no"
        /\ deque # <<>> \/ cancelSet # {}
        /\ waiting' = waiting \o deque
        /\ deque' = <<>>
  /\ UNCHANGED <<lossVars, clientVars, cancelSet, passVars, slotVars, roundVars, waveVars, dedupVars,
                 doneVars, backoff>>

ToDecode ==
  /\ epc = "idle"
  /\ ActiveSlots # {} \/ pending # <<>>
  /\ epc' = "decode"
  /\ UNCHANGED <<lossVars, clientVars, queueVars, slotVars, roundVars, waveVars, dedupVars, doneVars,
                 backoff>>

-----------------------------------------------------------------------------
(* Engine thread: the decode round.                                        *)

PlainSlots == {s \in ActiveSlots : active[s] \in Sampled}

(* classify_decode_slots, rounds += 1 *)
CountRound ==
  /\ backoff' = IF backoff = 0 THEN 0 ELSE backoff - 1
  /\ stale' = [s \in Slots |-> IF s \in ActiveSlots THEN stale[s] + 1 ELSE stale[s]]

(* ... and decode_batch_sampled over the plain slots, if any. *)
DecodeBegin ==
  /\ epc = "decode"
  /\ CountRound
  /\ todo' = PlainSlots
  /\ mtp' = ActiveSlots \ PlainSlots
  /\ epc' = "plain"
  /\ UNCHANGED <<lossVars, clientVars, queueVars, active, free, content, reserved, tok, finished,
                 waveVars, dedupVars, doneVars>>

DecodeRaises ==
  /\ epc = "decode"
  /\ PlainSlots # {}
  /\ CountRound
  /\ Raise("decode")
  /\ UNCHANGED <<lossVars, clientVars, queueVars, active, free, content, reserved, tok, roundVars,
                 waveVars, dedupVars, doneVars>>

(* mtp_verify_and_commit_batch over the MTP slots, if any. *)
VerifyBegin ==
  /\ epc = "plain"
  /\ todo = {}
  /\ todo' = mtp
  /\ mtp' = {}
  /\ epc' = IF mtp = {} THEN "reap" ELSE "mtp"
  /\ UNCHANGED <<lossVars, clientVars, queueVars, slotVars, finished, waveVars, dedupVars, doneVars,
                 backoff>>

VerifyRaises ==
  /\ epc = "plain"
  /\ todo = {}
  /\ mtp # {}
  /\ Raise("verify") \/ (finished = {} /\ Raise("decode"))
  /\ UNCHANGED <<lossVars, clientVars, queueVars, slotVars, roundVars, waveVars, dedupVars, doneVars,
                 backoff>>

(* One slot's tokens are committed and it goes on: one token on the plain  *)
(* path, up to K + 1 on the MTP path.                                      *)
CommitTokens(s) ==
  /\ epc \in {"plain", "mtp"}
  /\ s \in todo
  /\ \E n \in IF epc = "plain" THEN {1} ELSE 1..MaxTokens :
       /\ tok[s] + n < MaxTokens
       /\ tok' = [tok EXCEPT ![s] = tok[s] + n]
  /\ stale' = [stale EXCEPT ![s] = 0]
  /\ todo' = todo \ {s}
  /\ UNCHANGED <<lossVars, clientVars, queueVars, active, free, content, reserved, finished, mtp,
                 waveVars, dedupVars, doneVars, epc, backoff>>

(* An MTP round may commit nothing for a slot; only the watchdog bounds    *)
(* that, so it happens here only when the watchdog is on.                  *)
CommitNothing(s) ==
  /\ epc = "mtp"
  /\ s \in todo
  /\ WatchdogRounds > 0
  /\ todo' = todo \ {s}
  /\ UNCHANGED <<lossVars, clientVars, queueVars, slotVars, finished, mtp, waveVars, dedupVars, doneVars,
                 epc, backoff>>

(* EOS, stop sequence, tool call or max_tokens.  The slot is freed here    *)
(* but stays in `active` until the end of the round.                       *)
FinishSlot(s) ==
  /\ epc \in {"plain", "mtp"}
  /\ s \in todo
  /\ FinishRequest(s, active[s])
  /\ finished' = finished \cup {s}
  /\ todo' = todo \ {s}
  /\ UNCHANGED <<lossVars, clientVars, queueVars, active, tok, stale, mtp, waveVars, dedupVars, epc>>

FinishSlotRaises(s) ==
  /\ epc \in {"plain", "mtp"}
  /\ s \in todo
  /\ FinishRequestRaises(s, active[s], "finish")
  /\ UNCHANGED <<lossVars, clientVars, queueVars, active, tok, stale, roundVars, waveVars, dedupVars>>

MtpEnd ==
  /\ epc = "mtp"
  /\ todo = {}
  /\ epc' = "reap"
  /\ UNCHANGED <<lossVars, clientVars, queueVars, slotVars, roundVars, waveVars, dedupVars, doneVars,
                 backoff>>

(* The end of the round: finished slots leave `active`, then timed-out and *)
(* stale slots are failed, reset and freed.                                *)
Reap ==
  /\ epc = "reap"
  /\ LET live == ActiveSlots \ finished
     IN  \E timed \in IF "timeout" \in Faults THEN SUBSET live ELSE {{}} :
           LET wedged == {s \in live \ timed : WatchdogRounds > 0 /\ stale[s] > WatchdogRounds}
               out    == timed \cup wedged
           IN  /\ FailAll({active[s] : s \in out})
               /\ free' = Append1(free, out)
               /\ \E ok \in GuardedResets(out) : ResetSlots(ok)
               /\ active' = [s \in Slots |->
                               IF s \in finished \cup out THEN NoReq ELSE active[s]]
               /\ tok' = [s \in Slots |-> IF s \in live \ out THEN tok[s] ELSE 0]
               /\ stale' = [s \in Slots |-> IF s \in live \ out THEN stale[s] ELSE 0]
  /\ finished' = {}
  /\ epc' = "top"
  /\ UNCHANGED <<lossVars, clientVars, queueVars, todo, mtp, waveVars, dedupVars, backoff>>

-----------------------------------------------------------------------------
(* Engine thread: recovery and exit.                                       *)

Queued == Range(deque) \cup Range(waiting)

ActiveReqs == {active[s] : s \in ActiveSlots}

(* _fail_pending_requests, its part on containers. *)
ClearPending ==
  /\ deque' = <<>> /\ waiting' = <<>>
  /\ pending' = <<>>
  /\ inflight' = {} /\ published' = {}

ClearRound ==
  /\ active' = [s \in Slots |-> NoReq]
  /\ tok' = [s \in Slots |-> 0] /\ stale' = [s \in Slots |-> 0]
  /\ finished' = {} /\ todo' = {} /\ mtp' = {}

(* The recoverable branch of _engine_thread_main: every active slot is     *)
(* appended to free_slots without looking whether it is there already, as  *)
(* one is that was freed earlier in the round.                             *)
Recover ==
  /\ epc = "recover"
  /\ FailAll(ActiveReqs \cup WaveReqs(pending) \cup Queued)
  /\ free' = AppendNew(Append1(free, ActiveSlots), WaveSlots(pending))
  /\ harmed' = harmed \cup {s \in ActiveSlots : free[s] > 0}
  /\ \E ok \in GuardedResets(ActiveSlots \cup WaveSlots(pending)) : ResetSlots(ok)
  /\ ClearRound
  /\ ClearPending
  /\ epc' = "top"
  /\ UNCHANGED <<stray, clientVars, cancelSet, passVars, wave, widx, backoff>>

(* The fatal branch: no slot is reset, the engine stops for good. *)
RecoverFatal ==
  /\ epc = "recoverFatal"
  /\ stop' = "yes"
  /\ FailAll(ActiveReqs \cup WaveReqs(pending) \cup Queued)
  /\ free' = AppendNew(free, ActiveSlots \cup WaveSlots(pending))
  /\ ClearRound
  /\ ClearPending
  /\ epc' = "exit"
  /\ UNCHANGED <<lossVars, cpc, cancelSet, passVars, content, reserved, wave, widx, backoff>>

(* After the loop: _fail_pending_requests once more.  `active` is left     *)
(* alone.                                                                  *)
Exit ==
  /\ epc = "exit"
  /\ FailAll(WaveReqs(pending) \cup Queued)
  /\ free' = AppendNew(free, WaveSlots(pending))
  /\ \E ok \in GuardedResets(WaveSlots(pending)) : ResetSlots(ok)
  /\ ClearPending
  /\ epc' = "exited"
  /\ UNCHANGED <<lossVars, clientVars, cancelSet, passVars, active, tok, stale, roundVars, wave, widx,
                 backoff>>

-----------------------------------------------------------------------------
Client == \E r \in Requests : SubmitCheck(r) \/ SubmitEnqueue(r) \/ Disconnect(r)

Engine ==
  \/ RoundBegin \/ CoalesceOff \/ CoalesceBegin \/ CoalesceDrain \/ CoalesceEnd
  \/ ProcessCancellations \/ CancelIncoming \/ CancelPending
  \/ PrefillSkip \/ PrefillMore \/ PrefillDone \/ PrefillRaises
  \/ AdmitSkip \/ Admit \/ AdmitResetRaises
  \/ BeginPending \/ BeginDone \/ BeginRaises
  \/ ActivateStay \/ ActivateFinish \/ ActivateFinishRaises \/ ActivateRaises
  \/ ActivateEnd
  \/ IdleBlock \/ IdleRetry \/ Wake \/ ToDecode
  \/ DecodeBegin \/ DecodeRaises \/ VerifyBegin \/ VerifyRaises
  \/ \E s \in Slots : CommitTokens(s) \/ CommitNothing(s) \/ FinishSlot(s) \/ FinishSlotRaises(s)
  \/ MtpEnd \/ Reap
  \/ Recover \/ RecoverFatal \/ Exit

Next == Client \/ Stop \/ Engine

(* The engine thread keeps running; a prefill has finitely many chunks, so *)
(* a wave that is stepped again and again completes.  A caller that passed *)
(* the first test of _enqueue_request reaches the second.                  *)
Fairness ==
  /\ WF_vars(Engine)
  /\ SF_vars(PrefillDone)
  /\ \A r \in Requests : WF_vars(SubmitEnqueue(r))

Spec == Init /\ [][Next]_vars /\ Fairness

-----------------------------------------------------------------------------
(* Properties.                                                             *)

Entry == [slot : Slots, req : Requests]

TypeOK ==
  /\ deque \in Seq(Requests) /\ waiting \in Seq(Requests) /\ incoming \in Seq(Requests)
  /\ cancelSet \subseteq Requests /\ cancelIds \subseteq Requests
  /\ count \in Nat
  /\ served \subseteq Requests /\ failed \subseteq Requests
  /\ cpc \in [Requests -> {"new", "checked", "in", "left", "rejected"}]
  /\ stop \in {"no", "yes"}
  /\ epc \in EnginePC
  /\ pending \in Seq(Entry) /\ wave \in Seq(Entry)
  /\ widx \in Nat \ {0}
  /\ active \in [Slots -> Requests \cup {NoReq}]
  /\ free \in [Slots -> Nat]
  /\ finished \subseteq Slots /\ todo \subseteq Slots /\ mtp \subseteq Slots
  /\ tok \in [Slots -> Nat] /\ stale \in [Slots -> Nat]
  /\ content \in [Slots -> SUBSET Requests]
  /\ reserved \in [Slots -> Nat]
  /\ backoff \in Nat
  /\ harmed \subseteq Slots /\ stray \subseteq Requests

(* Requests the runtime accepted: counted and appended to the deque. *)
Accepted == {r \in Requests : cpc[r] \in {"in", "left"}}

(* Between the exception and the handler in _engine_thread_main, ownership *)
(* is being repaired.                                                      *)
Recovering == epc \in {"recover", "recoverFatal"}

(* Members of a wave whose prefill is still pending. *)
PendingRest == IF epc = "activatePending" THEN {} ELSE 1..Len(pending)

LiveSlots == ActiveSlots \ finished

HeldByWave == {wave[i].slot : i \in WaveRest} \cup {pending[i].slot : i \in PendingRest}

(* A slot is free exactly once or has exactly one owner: a live active     *)
(* request, or a member of the wave being admitted or prefilled.  Covers   *)
(* every path that moves slots between free_slots, active and              *)
(* _pending_prefill_reqs: admission, deferral, cancellation, finish,       *)
(* timeout, watchdog and recovery.  Of the slots an unrepaired failure     *)
(* took out or listed twice it says nothing; every other slot is as exact  *)
(* after the failure as before.                                            *)
SlotConservation ==
  ~Recovering =>
    /\ \A s \in Slots \ harmed : free[s] = IF s \in LiveSlots \cup HeldByWave THEN 0 ELSE 1
    /\ LiveSlots \cap HeldByWave \subseteq harmed
    /\ \A i, j \in WaveRest : wave[i].slot = wave[j].slot => i = j \/ wave[i].slot \in harmed
    /\ \A i, j \in PendingRest :
         pending[i].slot = pending[j].slot => i = j \/ pending[i].slot \in harmed

(* Every failure of a round leaves the slots whole. *)
EverySlotRecovered == harmed = {}

(* How many places a request is in. *)
Homes(r) ==
    Cardinality({i \in 1..Len(deque) : deque[i] = r})
  + Cardinality({i \in 1..Len(incoming) : incoming[i] = r})
  + Cardinality({i \in 1..Len(waiting) : waiting[i] = r})
  + Cardinality({s \in LiveSlots : active[s] = r})
  + Cardinality({i \in WaveRest : wave[i].req = r})
  + Cardinality({i \in PendingRest : pending[i].req = r})

(* An accepted request is in exactly one container until it is answered,   *)
(* and in none afterwards: no request is orphaned (its future never        *)
(* resolved, its budget never returned) and none is run twice.  What an    *)
(* unrepaired failure dropped is nowhere, so it is not run either; no      *)
(* request is dropped before a slot is.                                    *)
OneHome ==
  ~Recovering =>
    /\ \A r \in Requests : Homes(r) = IF r \in Accepted \ (Released \cup stray) THEN 1 ELSE 0
    /\ stray # {} => harmed # {}

(* Every failure of a round leaves its requests answered or queued. *)
EveryRequestRecovered == stray = {}

(* The request budget is exact: _request_count is the number of accepted   *)
(* requests that were not answered, and never exceeds the limit, though    *)
(* several paths may release the same request.                             *)
BudgetExact ==
  /\ count = Cardinality(Accepted \ Released)
  /\ count <= MaxPending

(* A slot in use holds only its own request's KV: whatever failed before,  *)
(* no prefill starts on a slot that still holds another request's state.   *)
(* Only a slot listed twice may be given to two requests at once.          *)
NoForeignKv ==
  ~Recovering =>
    /\ \A s \in LiveSlots \ harmed : content[s] = {active[s]}
    /\ \A i \in WaveRest :
         wave[i].slot \notin harmed => content[wave[i].slot] = {wave[i].req}
    /\ \A i \in PendingRest :
         pending[i].slot \notin harmed => content[pending[i].slot] = {pending[i].req}

(* Page promises are covered by the pool, and a promise outlives its       *)
(* request only on a slot whose reset failed and is still due.             *)
ReservationsCovered ==
  /\ ReservedPages <= KvPages
  /\ ~Recovering => \A s \in Slots :
       reserved[s] > 0 => s \in LiveSlots \cup HeldByWave \/ content[s] # {}

(* A dedup key in flight has a holder in the current wave: a key left      *)
(* behind would make every later duplicate wait forever.                   *)
DedupKeyHasHolder ==
  ~Recovering =>
    inflight \subseteq KeysOf({wave[i].req : i \in WaveRest}
                              \cup {pending[i].req : i \in PendingRest})

(* Every accepted request is answered, unless the engine is stopped: by    *)
(* completion, by an error of its wave or round, by cancellation, by the   *)
(* timeout or by the watchdog.                                             *)
EveryRequestAnswered ==
  \A r \in Requests : r \in Accepted ~> (r \in Released \/ stop = "yes")

(* "Do not leave their futures, prompt lists, or stream channels reachable *)
(* after the engine thread exits" (end of _engine_thread_main): then every *)
(* accepted request has been answered, whether it was queued or active.    *)
NoWorkAfterExit == epc = "exited" => Accepted \subseteq Released

-----------------------------------------------------------------------------
(* The engine implements the abstract request service. *)
Status(r) ==
  CASE r \in served                -> "result"
    [] r \in failed \ served       -> "error"
    [] cpc[r] \in {"in", "left"} /\ r \notin Released -> "accepted"
    [] cpc[r] = "rejected"         -> "rejected"
    [] OTHER                       -> "new"

Service == INSTANCE RequestService WITH
             status <- [r \in Requests |-> Status(r)],
             up     <- IF stop = "no" THEN "yes" ELSE "no"

(* ServerEngine keeps the promise of RequestService: budget, justified     *)
(* rejection, one unchanging answer each, and an answer to every accepted  *)
(* request while it is up.                                                 *)
ImplementsService == Service!Spec
=============================================================================
