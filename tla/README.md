# A TLA+ verification of the BlackweLLM serving runtime

BlackweLLM is a single-GPU inference runtime: an HTTP server hands requests to
one engine thread that runs admission, chunked prefill and decode rounds over a
model backend, and beside it a diagnostic daemon that keeps an engine warm
between experiments.  This directory models the parts where ordering,
concurrency and partial failure decide correctness and checks them with TLC.
With TLAPS it proves, for every value of the constants, the two inter-thread
protocols, the accounts and the ownership of the request engine, the
conservation of the KV arena and that its pages hold the tokens their readers
expect, the agreement of the recurrent-state caches, the daemon's safety, and
that speculative decoding yields exactly the target model's greedy tokens.

## 1. The system and its parts

| component | source | state | operations | hard part |
|---|---|---|---|---|
| request engine | `server/engine.py` (`ServerEngine`) | `_req_deque`, `waiting`, `active`, `free_slots`, `_pending_prefill_reqs`, `_request_count`, dedup keys, admission back-off | `submit`, `submit_stream`, `cancel`, `stop`, `_step_sync` (one round), `_finish_request`, recovery | exceptions half-way through a round; cancellation of a wave; several paths that release the same request |
| stream channel | `server/engine.py` (`StreamChannel`) | `_buf`, `_event`, `_closed` | `put`, `close`, `get`, `clear` | two threads, an event created lazily, callbacks posted to the loop |
| wakeup pipe | `server/engine.py` | the pipe's bytes, `_stop`, `_cancel_set` | producers' writes, the drains, the blocking read, `stop()` | bytes are dropped when the pipe is full and eaten by drains |
| KV arena | `runtime/model/qwen36_kv_arena.py` | `ref_cnt`, the free queue, published hashes, reservations | `allocate`, `incref`, `decref`, publish, lookup, `reserve` | cached bundles are free and still named by hashes |
| slot pool | `runtime/model/qwen36_slots.py` | page tables, `slot_kv_len`, `_slot_bundles` | `prepare_kv_writes` (copy-on-write), restore, publish, reset, `build_decode_batch` | a call that fails after some of its pages |
| prefix caches | `runtime/backends/qwen36.py` | persistent entries, rolling checkpoints | `_apply_prefix_hit`, `_store_persistent_prefix`, `_maybe_checkpoint`, `reset_slot` | entries name bundles the allocator may reuse |
| recurrent-state checkpoints | `runtime/recurrent_state_pool.py`, `runtime/slot_resource_manager.py`, `runtime/backends/qwen36.py` | keys, LRU order, hash index and pins of the pool; rolling checkpoint per slot; persistent entries; pending advice | `register`, `touch`, `evict_for_budget`, `choose_slot`, `reconcile_prefix_hit`, restore, `_maybe_checkpoint` | two records of one fact (pool and backend) under one budget; advice used after the caches changed |
| speculative decoding | `runtime/backends/qwen36_mtp.py`, `runtime/mtp_accept.py` | K+1 recurrent rows and the live column, draft-head cache, drafts, committed tokens | chunk synchronisation, verify, accept, commit, re-draft, reset | a wrong row or a draft head out of step gives plausible wrong tokens and no error |
| thinking budget | `runtime/thinking_budget.py`, `server/engine.py` | the reasoning span, read off the token history | `force_for`, truncation of a round | the boundary falls inside a speculative block |
| warm daemon | `bfdiag/daemon/server.py`, `canary.py` | lock, socket path, canary baseline, engine, job queue, state | start, exec, reset, canary, idle watchdog, `_stop` | five kinds of threads, execs abandoned by a timeout, killed processes |
| block pool | `runtime/block_pool.py` | free list, references | | used only by the vLLM comparison oracle; not modelled |
| stop matching, draft schedule | `server/formats/stop.py`, `runtime/dspark_schedule.py` | | | not modelled (section 8) |
| HTTP application, formats, other backends, model execution, diagnostics, loading | `server/app.py`, ... | | | not modelled (section 8) |

Interaction.  `server/app.py` calls `submit`, `cancel` and `stop` on the asyncio
thread only.  They touch shared state (`_req_deque`, `_cancel_set`, `_stop`,
`_request_count` under a lock) and write a byte to the pipe.  The engine thread
owns everything else, calls the backend, and answers through
`call_soon_threadsafe` (futures) and `StreamChannel` (tokens).  The backend
runs entirely on the engine thread; its slots share the arena.

What makes each part correct:

* engine: every slot has one owner or is free once; every accepted request is in
  one place until it is answered, and is answered; the budget is exact; no
  request starts on another's KV; a dedup key in flight has a holder;
* stream: no lost wakeup, FIFO, every stream ends;
* wakeup: the engine never sleeps on work, and ends after `stop()`;
* checkpoints: whatever a slot resumes from, its recurrent state has absorbed
  exactly the tokens of its KV (not always so, section 4); what the pool lists, the hash index finds and
  the backend holds; a decoding slot does not displace other prompts' entries;
* speculation: the client sees the target's greedy continuation; the draft head
  is as long as the KV; a reasoning span does not outgrow its budget;
* daemon: a daemon that holds the lock is reachable, its engine is not unloaded
  under a job, a canaried exec never runs on a dirty engine, every queued job is
  answered and the GPU is handed back;
* KV: reference counts equal ownership, published hashes and persistent entries
  tell the truth about bytes, a live sequence's pages hold that sequence, bytes
  somebody relies on do not change, promised pages exist.

## 2. Modules

| module | models |
|---|---|
| `StreamChannel` | one `StreamChannel` with the consumer loop of `submit_stream`; each read or write of the deque, the event and the closed flag is a step |
| `StreamChannelProofs` | theorems about it |
| `WakeChannel` | producers (`_enqueue_request`, `cancel`, `stop`) and the engine's drains and blocking read |
| `WakeChannelProofs` | theorems about it |
| `EngineLifecycle` | ownership of requests and slots through a round, with recovery and exit |
| `RequestService` | the abstract service `EngineLifecycle` implements |
| `EngineLifecycleProofs` | types, budget, reservations, the safety part of that refinement, then slots, KV, dedup keys and containers |
| `KvArena` | allocator, page tables and prefix caches of the Qwen backend |
| `KvArenaProofs` | the pool, the page tables and the reservations, then that bytes in use are not changed |
| `Collections` | parts of sequences and totals, as used by `EngineLifecycle`, `KvArena` and `PrefixCheckpoints` |
| `CollectionProofs` | lemmas about them |
| `PrefixCheckpoints` | the recurrent-state pool, rolling and persistent checkpoints, advice and slot choice |
| `PrefixCheckpointsProofs` | theorems about it |
| `SpeculativeDecode` | one slot decoding with K drafts, the acceptance rules, the thinking budget and the engine's cut of a round |
| `GreedyDecode` | the abstract decoder `SpeculativeDecode` implements |
| `SpeculativeDecodeProofs` | theorems about it, the refinement included |
| `WarmDaemon` | daemon processes that share a lock, a socket path and a canary baseline |
| `WarmDaemonProofs` | theorems about it |
| `MCEngineLifecycle`, `MCKvArena`, `MCPrefixCheckpoints`, `MCSpeculativeDecode` | constants of the instances |

`Collections` defines `Total(f, S)`, the sum of `f` over `S`, as the number of
its units, and `Pick(s, I)`, the subsequence of `s` at the positions `I`, by the
ascending enumeration of `I`.  They are what the code computes with `sum()` and
with comprehensions over lists.  Written recursively they would be out of the
provers' reach, since what a recursion computes needs induction; by sets and
cardinalities they are not, and TLC evaluates them as well.

### How the state corresponds

*StreamChannel.* `event` is `"none"` until the consumer creates the
`asyncio.Event`.  `callbacks` counts `event.set` calls posted and not yet run;
the loop runs one only while the consumer is suspended.  `sent` and `delivered`
are history variables.  Batches are numbered; 0 is the terminator `None`.
`put` itself would take a batch after the terminator; that the engine sends none is an
assumption about its callers, and no property is about it.

*WakeChannel.* `deque` and `waiting` are sets, `bytes` is the number of bytes in
the pipe, `PipeCap` its capacity.  `submit`, `cancel` and `stop` do not await
between their steps, so one of them ends before the next begins (`LoopIdle`);
the engine interleaves with all of their steps.  `stop()` closes the pipe when
its join has ended or timed out; the engine's read then raises and the round
fails.

*EngineLifecycle.* `epc` is the position in `_step_sync`.  A round is cut where
the code calls the backend, tests a condition or catches an exception.
`free` is a multiplicity, because `free_slots` is a list.  `active` keeps
finished slots until the end of the round (`finished`), as the code does.
`content[s]` is the set of requests whose KV the slot holds; `is_fresh` is
`content[s] = {}`.  `served` and `failed` are the requests that were released
with a result or an exception.  `Raise(site)` is an exception that leaves
`_step_sync`; `Faults` and `FatalFaults` say which calls may raise recoverable
and fatal errors.  Session affinity is rejected at construction, so `retained`
is always empty and its branches are left out.  The cancellation pass is three
steps, because clients run in between: `ProcessCancellations` (the slots and
`waiting`), `CancelIncoming` (the loop that empties `_req_deque` into a local,
`incoming`) and `CancelPending` (the `extend` and the wave); `cancelIds` is the
local `cancel_ids`.  Two history variables name what the code does not repair
(section 4): `harmed`, the slots that an exception leaves in no container, or in
`active` and `free_slots` both, and `stray`, the requests that no container holds
any more.  They are set where the code forgets or duplicates, never read by a guard,
and the properties about slots and requests hold for all the others.

*KvArena.* A chained block hash stands for the token prefix up to its boundary
(no collisions).  `bytes[b]` is what a bundle's KV holds, also as a prefix.
`row` is the host page table; `own` is the row `prepare_kv_writes` builds, whose
entries are `_slot_bundles`: the two differ inside a prepare call, and stay
different when it raises.  `len` is `slot_kv_len` and `pos` the number of
positions really written: `len` lags during a prefill and is ahead between
`build_decode_batch` and its forward.  Which cache serves a hit, and which
entries the byte budget evicts, is nondeterministic.  Reservations and restores
of a wave precede its first chunk, and one backend call ends before the next
begins.  `Listed(r, n)` is `slot_committed_tokens[:n]`, from which every hash
and entry is taken: the request's tokens, but with the first token of the output
twice for a request decoded on the plain path, because `_commit_prefill` lists
it and `build_decode_batch` lists it again.

*PrefixCheckpoints.* `kv` and `gdn` are the token sequences that a slot's KV and
its recurrent state have absorbed; a hash is the prefix it identifies.  `cache`
is one record because the operations of the pool and the backend's callbacks
change its parts together: `lru`, `byHash` and `pinned` are the pool's, `entry`,
`ckpt` and `saved` the backend's.  A slot's KV pages are those of `KvArena`: here
their restore succeeds or not.  A slot's checkpoint is written over the previous
one's buffer, and persistent entries are clones, so both are values.  `Listed` is as in
`KvArena`; `Paths` says on which path a prompt may be decoded, `PublishFails` which
prompts' publication may be refused.  A chunk of a wave moves `slot_kv_len`
and one of a single slot does not: phases `"batch"` and `"prefill"`, told apart by
`Fresh`.  Three history variables record where a state is not what it is registered
as: `mislabelled` (keys), `misled` (slots resumed from one) and `shadowed` (entries
stored while another slot's checkpoint had their hash).

*SpeculativeDecode.* `rows[c]` is what recurrent row `c` has absorbed and `col`
the live row.  The verify forward predicts with `Target` from row, anchor and
drafts; drafts are arbitrary.  `sync` and `seqLen` are the draft head's
`_sync_len` and `seq_len`.  `fault` becomes TRUE where the code raises because
they disagree with the KV.  A request starts from a prefix of any length; `Sources`
says whether it was kept in the slot (`"kept"`) or copied from another
(`"copied"`).  `lost` is a history variable: how much of the sequence the live row
has not seen, because `copy_prefix` cleared it (section 4); 0 without a copy.
Requests are greedy.  The sequential and the batched acceptance rule are
both taken (`m` in `Round`).  In `GreedyDecode` a request with a budget may also
see tokens of the end marker.

*WarmDaemon.* `lock`, `sock` and `baseline` outlive a process; a killed process
leaves the last two behind and the kernel drops the first.  `main`, `worker`,
`dog` and `ctl` are the positions of the main thread, the FIFO worker, the idle
watchdog and a handler of a shutdown request.  `ghost` is a thread that an exec
timeout abandoned on the engine.  Left out: `ping` and `status`, which change
nothing, and a `start()` that finds the lock taken.  Merged: the unlink of a stale socket
with the load after it, the end of the accept loop with the `put(None)` after it, the
unlock with the exit.  The fields of a dead process and of a finished job are
set to fixed values.

## 3. Runs

| run | cfg | shows |
|---|---|---|
| `stream` | `MCStreamChannel.cfg` | `NoLostWakeup`, `FifoDelivery`, `StreamEnds` |
| `wake` | `MCWakeChannel.cfg` | `NoSleepOnWork`, `WorkTakenUp`, `ShutdownCompletes` |
| `engine` | `MCEngineLifecycle.cfg` | `SlotConservation`, `OneHome`, `BudgetExact`, `NoForeignKv`, `ReservationsCovered`, `DedupKeyHasHolder` |
| `engine_liveness` | `MCEngineLiveness.cfg` | `EveryRequestAnswered`, `ImplementsService` |
| `kv` | `MCKvArena.cfg` | `PoolConservation`, `PublishedBytes`, `RowHoldsPrefix`, `EntriesBacked`, `PromisesCovered`, `PublishedStable`, `RowsStable` |
| `kv_blocks` | `MCKvArenaBlocks.cfg` | `RowHoldsPrefix`, `EntriesBacked`, `PublishedStable` with two blocks per page |
| `checkpoints` | `MCPrefixCheckpoints.cfg` | `OnlyMisledDiffer`, `OnlyShadowedHidden`, `RollingTracked`, `DecodeKeepsEntries`, `PromptStored` |
| `speculation` | `MCSpeculativeDecode.cfg` | `LiveRowIsKv`, `LockStep`, `SpanWithinBudget`, `GreedyImplemented` |
| `daemon` | `MCWarmDaemon.cfg` | `ServerReachable`, `EngineKeptForJobs`, `CleanExec`, `JobsAnswered`, `HandsBack` |
| `engine_work_after_exit`, `checkpoint_stale_published`, `thinking_forced_out_of_span` | `FindWorkAfterExit.cfg`, `FindStaleCheckpoint.cfg`, `FindForcedOutOfSpan.cfg` | violations (section 4) |

Bounds, and why they are enough:

* `stream`: three batches reach every order of two puts and a close around one
  `get`, including a second `get` after a wakeup; the protocol keeps no memory
  of earlier batches, and the theorems remove the bound.
* `wake`: two callers and a two-byte pipe fill the pipe, so a byte is dropped;
  the theorem covers any number and capacity.
* `engine`: three requests on two slots.  Two of them fit together and form a
  wave of two, one on each decode path, so that a round has both halves;
  the third has the prompt of the first (dedup) and needs all the pages
  (deferral); the budget of two rejects the third;
  `PublishedKept = 1` reaches the pruning.  Every backend call may raise, recoverably
  and fatally.  Slots are symmetric (571,220 states).
* `engine_liveness`: two requests on one page, without symmetry.
* `kv`: two request kinds on pages of two tokens: the prompt of one ends inside a
  page, the other continues it over two pages.  Four bundles are the least with
  which two slots share a full page (each is promised all its pages), and
  with two running requests every allocation takes a cached bundle.  Kinds
  come back for ever, so any history of reuse within four bundles is reached.
  Decode is speculative here; slots are symmetric, and the temporal properties are
  step properties (976,803 states).
* `kv_blocks`: one-token blocks, two to a page as deployed (64 and 128); the two
  kinds share one token and then differ, and the short one is decoded on
  the plain path.  With three bundles a request can run out of pages, so that
  a call fails half-way through its pages.
* `checkpoints`: two slots, blocks of two tokens and three prompts: one of a token,
  decoded on the plain path; one of four tokens, on a block boundary, which is the list
  of tokens the first one gets after two plain rounds; and one of three
  that shares nothing with them and is decoded speculatively.  The second
  one's publication may be refused.  A budget of two holds one persistent entry
  and one rolling checkpoint, so every further one evicts; decode up to four tokens passes
  block boundaries, where rolling checkpoints are taken.  The temporal
  properties are step properties, so slot symmetry is sound (818,906 states).
* `speculation`: all 64 models that choose the next token from a digest of the context,
  over an ordinary token, both markers and the end of sequence.  Two drafts reach no,
  partial and full acceptance; a budget of two puts the forced token
  before, in and behind a block, and one of one is less than the drafts of a round;
  six tokens are three rounds.  `Budgets` has 0 too, where the result must be greedy
  without exception.  Prefixes are kept or copied (422,022 states).
* `daemon`: two processes, so that one starts while the other stops or after it was
  killed, and two jobs, so that one waits behind the other.  The first process
  is canaried and may be killed; the second has a TTL and in-process
  recovery.

`Backoff = 1` stands for the 16 rounds of the code: only "later round" matters.
`CHECK_DEADLOCK FALSE` is set for `wake`, the engine runs and `daemon`, because
those systems stop: after `stop()` or a fatal error the engine thread ends, and
a daemon exits after shutdown, its TTL or a kill.

### Fairness

The engine thread is scheduled (`WF` on its steps).  A chunked prefill has
finitely many chunks, so a wave that is stepped repeatedly completes (`SF` of
`PrefillDone`).  A caller inside `_enqueue_request` reaches its append; the
event loop runs posted callbacks and runnable coroutines; the engine closes
every stream (it does so on every path that ends a request, which is what
`EveryRequestAnswered` is about).  `stop()`'s join ends because it has a
timeout.  No client is obliged to submit, disconnect or stop anything.

In the daemon, the main and the worker thread are scheduled and an engine call
returns (an exec at the latest by its timeout); with a TTL, time passes and the
watchdog polls.  Nobody is obliged to start a daemon, send a job or ask for
shutdown.

## 4. Disagreements between the code and its own comments

TLC finds each of these claims violated.  Three are runs of the project:

1. `engine_work_after_exit` (`NoWorkAfterExit`): after `stop()` the requests in
   `active` are never answered.  (With a fatal error, a submit that tested `_stop`
   before can also enqueue after the last drain.)
2. `checkpoint_stale_published` (`StateMatchesKv`): `reset_slot` keeps the slot's
   checkpoint, and `_maybe_checkpoint` returns early when its length is already the
   new KV length.  A prompt of exactly that length, on a block boundary, is then
   published with the recurrent state of the sequence before it.
3. `thinking_forced_out_of_span` (`ForcedInContext`): the forced position is computed
   once for a block.  When the model closes its span earlier in the same block,
   the marker is forced a second time, outside any span.

The others have a configuration each, to be run with
`tlc -workers 2 -config <cfg> <module>`:

| cfg | module | property | what happens |
|---|---|---|---|
| `FindSlotFreedTwice.cfg` | `MCEngineLifecycle` | `EverySlotRecovered` | recovery from an exception in the speculative call appends every slot in `active` to `free_slots`, also the ones a plain request of the same round finished with; the slot is listed twice |
| `FindOrphanedWave.cfg` | `MCEngineLifecycle` | `EveryRequestRecovered` | `_activate_slot` raises for a wave whose prefill completed at once: members not yet activated are known to nobody |
| `FindAdmittedFails.cfg` | `MCKvArena` | `AdmittedNeverFails` | the reservation does not count the copy of a request's own published page: an admitted request can fail in the middle of a decode |
| `FindHalfRestoredPage.cfg` | `MCKvArena` | `RowHoldsPrefix` | with two blocks per page a rolling restore may take a page of which only the first block was found |
| `FindUnwrittenPublished.cfg` | `MCKvArena` | `PublishedBytes` | a plain decode whose forward raises leaves `slot_kv_len` one too far; `reset_slot` publishes the unwritten position |
| `FindDoubledToken.cfg` | `MCKvArena` | `PublishedBytes` | `_commit_prefill` lists prompt and first token (`qwen36.py:1039`), and the first plain round lists that token again (`qwen36_slots.py:1701`, `qwen36.py:1613`): from the second plain round on `reset_slot` publishes hashes of other tokens than the page holds |
| `FindDoubledCheckpoint.cfg` | `MCPrefixCheckpoints` | `StateMatchesKv` | the same list names the rolling checkpoints of a plain request: a prompt that really has that token twice resumes from the state of one that has it once |
| `FindHiddenEntry.cfg` | `MCPrefixCheckpoints` | `PersistentVisible` | evicting a rolling key pops its hash from `_by_hash` (`recurrent_state_pool.py:256`) although it points to the persistent entry of that prefix, which then takes budget and is never found |
| `FindUnpublishedCheckpoint.cfg` | `MCPrefixCheckpoints` | `StateMatchesKv` | with a publication that raises, the checkpoint at a prompt's end stays the slot's, off a block boundary too, and the early return of item 2 meets it: the next prompt of that length is published with its state |
| `FindCopiedPrefix.cfg` | `MCSpeculativeDecode` | `CopyKeepsState` | `copy_prefix` (`qwen36_mtp.py:673`) runs after the state was restored and zeroes the row just restored |
| `FindLongSpan.cfg` | `MCSpeculativeDecode` | `BudgetKept` | with an end marker of several tokens the forced marker itself takes the span past its budget |
| `FindShortBudget.cfg` | `MCSpeculativeDecode` | `BudgetKept` | a span that the model opens inside a block is not cut before the next round: a budget smaller than the number of drafts is exceeded |
| `FindIdleWithJob.cfg` | `WarmDaemon` | `IdleMeansNoJob` | the watchdog reads the state and the idle time one after the other, and a reset or a canary check is not BUSY: it may unload while the worker is on a job, which the docstring at `server.py:415` rules out |
| `FindTaintedReset.cfg` | `WarmDaemon` | `TaintedUntilReplaced` | a reset makes a daemon READY that `server.py:22` says stays TAINTED until its process is replaced |

Met on the way, without a run of its own: the byte `stop()` writes can be eaten by a
round that tested `_stop` before; the engine then blocks, and ends only when
`stop()` has waited out its 30 s join (on the event loop) and closes the pipe.
`ShutdownCompletes` holds because of that close; its mutant
`StopCloseIfJoined` shows that the byte alone is not enough.
`evict_cached` says that it walks the free queue from its head and iterates by
bundle id; nothing calls it.

Also without a run: a wave whose prompts have different lengths, run chunk by chunk,
may come to a chunk with one prompt left whose earlier chunks were computed one slot
at a time; `build_prefill_batch` (`qwen36_slots.py`) then raises "state length != pooled KV
length", which is not the `ValueError` its caller falls back on.  In the models that is a prefill
call that raises.

What this means for the passing runs.  The `engine`, `checkpoints` and `speculation`
runs meet these cases and check what remains true: the slots and requests outside
`harmed` and `stray`, the states of slots that are not `misled`, the entries that
are not `shadowed`, the row from `lost` on, and spans up to the larger of the budget and
the drafts.  The history variables say exactly where the code goes
wrong, and the configurations above that each of them is needed.  In the arena the three
content properties (`PublishedBytes`, `RowHoldsPrefix`, `EntriesBacked`) are checked where they
hold: `kv` has blocks as large as pages and only speculative decode, `kv_blocks` has no
rolling cache, one plain round and no raising plain forward.
`PublishedStable` and `RowsStable` hold without these limits, and are proved so.
End markers have one token in the `speculation` run.

## 5. What is proved

`StreamChannelProofs` (for every `MaxItems`):

* `StreamTyping`: `TypeOK`, and `get()` pops only from a non-empty buffer.  The
  second part is needed for the first (`Head` of an empty deque has no type) and
  holds because only the consumer removes items;
* `StreamNoLostWakeup`: `NoLostWakeup` alone is not inductive.  The
  strengthening extends it from `"waiting"` to the positions between the
  re-check and the wait, where a batch in the buffer must have come after the
  re-check, so the event exists and the engine is about to signal, or has;
* `StreamFifo`: `FifoDelivery`, from the typing invariant.

`WakeChannelProofs` (for every `Requests` and `PipeCap > 0`):

* `WakeTyping`: `TypeOK`, in particular that the pipe never exceeds its capacity;
* `WakeNoSleepOnWork`: `NoSleepOnWork`.  Its inductive invariant `WakeInv` adds
  `CancelByteKept`: at the engine positions from the cancellation pass to the
  blocking read, which do not empty the pipe, a cancellation that arrived still
  has its byte in the pipe or its writer about to write.  The re-drain gives the
  same for requests.

`SpeculativeDecodeProofs` (for every vocabulary, model, prompt, budget, marker, chunk size,
length limit and number of drafts):

* `InvHolds`: the inductive invariant `Inv`.  It is `LiveRowIsKv` and `LockStep`
  with the types, what phase and reason say about each other (`PhaseInv`) and
  what holds during a prefill (`PrefillInv`: the KV, the row and the draft head
  are at the same prefix of the prompt), without which the first round has
  nothing to start from;
* `LiveRowAlwaysKv`, `AlwaysLockStep`: its two safety parts;
* `SpeculationIsGreedy`: `Spec => GreedyImplemented`, the refinement of
  `GreedyDecode`.  `AcceptFacts` shows that the batched acceptance rule, a sum over a
  running conjunction, is the sequential one; `CommitFacts` and `RoundBlock`
  that every committed token is the target's choice after the tokens
  before it; `KeepFacts` and `DeliverGenerates` that what survives the engine's cut is
  a `Generate` step of the abstract decoder;
* `SpansBounded`: `SpanWithinBudget`.  The forced position is computed from the
  history before the block.  A span that is open there is closed in time by the
  forced token; one that opens inside the block has at most as many tokens as
  there are drafts when the block ends, and is cut from the next round on
  (`DeliverSpan`).  Hence the larger of the two is the bound.  The property is about
  one-token end markers: of a longer one only the first token is sure to come
  (`FindLongSpan.cfg`).

Its theorems assume that the target yields tokens (`TargetTyped`), nothing else: prefixes may
be kept or copied.  After a copy the target sees what the row has absorbed (`lost`), and what
is implemented is greedy decoding of that; when nothing was copied it is greedy decoding of
the whole sequence.

`EngineLifecycleProofs` (for every set of requests and slots, every
limit, number of pages, wave size and back-off, and whichever calls raise):

* `BaseHolds`: `Base`, the foundation of the rest.  It ties the types, what each
  container may hold at each point of a round (`Phases`), that whoever is in a container
  was accepted (`Contained`), that an answer is given once (`Answered`), the exact
  count and the page promises.  `EngineBudget` (`BudgetExact`) and
  `EngineReservations` (`ReservationsCovered`) are parts of it: neither is inductive
  alone, because a release decrements the count only for a request that
  was accepted and not released before, which is what the containers say;
* `EngineImplementsService`: the initial states and steps of `ImplementsService`, that
  is all of `RequestService` but its fairness.  Each step of the engine answers
  some accepted requests with an error, one with a result, or none
  (`StepKinds`);
* `EngineDedupKeys`: `DedupKeyHasHolder`, with the fact that a wave under activation has
  no key in flight (`KeysInv`);
* `EngineSlotConservation`: `SlotConservation`.  `SlotInv` says exactly which slots
  outside `harmed` are free at every point of a round; between an exception and the end
  of its recovery it says what the recovery needs instead (`RepairSlots`): a slot
  in `active` is not free yet, and one in neither `active` nor the pending wave
  is free once;
* `EngineNoForeignKv`: `NoForeignKv`, from `SlotInv` and the places where a slot may
  still hold the KV of a request that left it;
* `EngineNoSecondHome` and `EngineOneHome`: the two halves of `OneHome`.  The first,
  that a request is in at most one container, holds for `stray` requests too: they
  are in none, so none is run twice.  A slot that was freed twice may be
  given to two requests; the one whose entry in `active` is overwritten is `stray`
  (`Overwritten`), and `StrayHarms` says that this takes a harmed slot.

None of them has a hypothesis on which calls raise.  As long as no exception meets one of
the two gaps of section 4 `harmed` and `stray` are empty, and the properties speak of every
slot and every request.

`KvArenaProofs` (for every number of slots, bundles and pages, every page and block size,
every set of requests, caches and faults):

* `ArenaPool`: `PoolConservation`; `ArenaPromises`: `PromisesCovered`; `ArenaTyping`:
  `TypeOK`.

  The inductive invariant `Inv` has, besides these, what the counting rests on:
  `Calls` (one backend call at a time; a failed call leaves no live slot
  in the middle of a write; the slots of a batch are prepared one after
  the other), `Settled` (only the slot being prepared, or whose prepare call
  failed, owns pages that are not in its row, and those are private), `Bounds`
  (a slot writes within the declared length, and every page before `pos` is
  in its row) and, as the heart of it, `Numbered` and `EntriesNumbered`: a bundle serves
  one page number, in every page table, for every hash published on it and in
  every persistent entry.  `_restore_cached_page_prefix` takes one reference
  per distinct source and puts the sources into as many pages; the counts
  stay equal only because two pages of a prefix never have the same source,
  and that follows from the page numbers alone.  `PromisesCovered` needs in turn
  that a revived bundle was free and is counted once against the
  reservation;

* `ArenaPublishedStable`: `PublishedStable`; `ArenaRowsStable`: `RowsStable`.  Whatever a
  hash, an entry or a page table was given to rely on, nobody changes: this is the
  copy-on-write promise, and it is proved for every page and block size, both decode
  paths, both caches and every failing call.

  The inductive invariant `Isolation`, on top of `Inv`, has `Shared` (only a published
  bundle is shared), so that a private page being written is never another slot's;
  `Released` (a bundle that a slot replaced, while its row still names it, is published, or
  the slot was given it again), so that a reset which clears the bytes of an unpublished
  bundle clears nobody's page; and `Advancing` (a call writes beyond what is
  written).  `PageMoves` is the subtle step: the copies at the end of
  `prepare_kv_writes` read the old row, and a bundle that was released and handed out again
  within the call is read before it is overwritten.

  That the bytes are also those of the tokens the hashes name (`PublishedBytes`,
  `RowHoldsPrefix`, `EntriesBacked`) is not a theorem about this code: with the doubled token, a
  raising plain forward or two blocks per page it is false (section 4).  TLC
  checks it where it holds.

`PrefixCheckpointsProofs` (for every set of slots, prompts and tokens, every block size, budget
and length limit):

* `RollingKeysTracked`, `EntriesOutliveDecode`, `PromptsStored`: `RollingTracked`,
  `DecodeKeepsEntries` and `PromptStored`, without a further hypothesis.  Their
  inductive invariant `CheckpointInv` is the agreement of the two records of the
  caches.  `Pool`: the hash index leads to keys of the pool, a slot has at most one
  rolling key, the persistent keys are exactly the entries' and pinned, and the
  entries are within the budget.  `Tracked`: a rolling key has the length of its slot's
  checkpoint, so `_evict_checkpoint`, which looks keys up by that length, leaves
  none behind.  `BudgetRoom` shows that with every key evictable there is always room
  for one more, so the refusal in `_store_persistent_prefix` is never reached;
* `StatesMatch`, `EntriesVisible`: `OnlyMisledDiffer` and `OnlyShadowedHidden`, without
  a hypothesis on prompts, paths or publications.  `FaithfulInv` adds that the caches are
  honest (`Honest`): the state of a key that is not `mislabelled` is the one its hash names
  (`Exact`), and an entry that is not `shadowed` is found and no rolling key has its
  hash (`Visible`), so that evicting a rolling key hides none of them.
  Inside `_commit_prefill` a key may be new and gone again by the end of
  the step; the proof marks keys and hashes as they will be recorded (`Marked`,
  `Hidden`) and follows them through `_maybe_checkpoint` and
  `_store_persistent_prefix`.

`WarmDaemonProofs` (for every set of processes and jobs):

* `DaemonReachable`, `DaemonKeepsEngine`, `DaemonCleanExec`: `ServerReachable`,
  `EngineKeptForJobs` and `CleanExec`, from one invariant `DaemonInv`.  It adds to
  them who holds the lock (`LockHeld`), what the main thread may do at each
  position of the worker (`WorkerPhases`, `EngineHeld`), and that as long as no
  baseline was recorded no canaried process has run an exec
  (`CanaryKept`).

`CollectionProofs` has the lemmas on `Ascending`, `Pick`, `Drop` and `Total` that the engine,
the arena and the checkpoints need: a partition of the positions partitions the elements; a
total changes with one argument by the difference; shares handed out to
disjoint parts add up.

Apart from `TargetTyped`, stated in the theorems that use it, the proofs use the named assumptions
on the constants (`MaxItemsAssumption`, `PipeCapAssumption`,
`SpeculativeAssumption`, `ConstantsAssumption`, `ArenaAssumption`, `CheckpointAssumption`,
`DaemonAssumption`) and
nothing else.  Fairness is not used.

Only model-checked:

* all liveness, which is out of the installed provers' reach: `StreamEnds`, `WorkTakenUp`,
  `ShutdownCompletes`, `EveryRequestAnswered`, `JobsAnswered`, `HandsBack`, and the
  fairness of `ImplementsService`;
* the content of the arena's bundles: `PublishedBytes`, `RowHoldsPrefix`, `EntriesBacked`.

## 6. Mutants

Every property of a passing run has a mutant: a definition with a plausible bug
(a dropped re-check, a guard off by one, a missing release) under which TLC
finds the property violated.  The mutants stand before the definition they
change and are marked `Mutant`.

## 7. Plan

1. Done: the modules of section 2 and the theorems of section 5.
2. Composition: `EngineLifecycle` with the reservations of `KvArena` in place of
   `KvPages`.

## 8. What is not modelled, and why

Most of the repository's lines are kernels, model definitions, backends for other
models, benchmarks and diagnostics.  The models cover the host-side control of
the path that serves Qwen3.6, a small share of the whole by lines.

* HTTP parsing, response formats, stop sequences, the cut at a tool call,
  logprobs, metrics and tracing: text and I/O.  Their calls of the engine are the
  clients of `EngineLifecycle`.
* Model execution, CUDA graphs and kernels: tensor computation.  A backend call is a
  step that succeeds or raises.
* The other backends (Laguna, DSV4, FlashNext, the DSpark draft) and the draft
  schedule, which is arithmetic over measured timings.
* Sampled acceptance: a statement about distributions.
* The fixed-scratch KV layout (the legacy mode of the slot pool), draft rewind in
  the slot pool, `share_prefix_kv` and `copy_prefix_kv`.
* `BlockPool` and the oracles, which no serving path uses.
* The daemon's clients: the sweep queue, the session reset routine and the
  providers; `bfprobe` and the other diagnostics; weight loading.
* The order in which requests are admitted.  It is not that of their arrival:
  `insert(0)` at `engine.py:2956` reverses the members of a cancelled wave, and the
  cancellation pass puts what it keeps behind newer arrivals.  No property claims it.
* The window between the test of a future and the callback that sets it: both are one
  step of `EngineLifecycle`.
* Hazards that the code does not meet have a configuration of section 4 and no property of a
  passing run: copy-on-write beyond a reservation, half a restored page, the
  unwritten position.  Others are listed in `PROJECT.json` with the reason.
