----------------------------- MODULE WarmDaemon -----------------------------
(***************************************************************************)
(* The bfdiag warm daemon (bfdiag/daemon/server.py, canary.py, client.py): *)
(* a process that holds one loaded engine and serves exec and reset jobs   *)
(* over a Unix socket.                                                     *)
(*                                                                         *)
(* Several daemon processes share a lock file, a socket path and the       *)
(* canary baseline.  In each process run the main thread (start, the       *)
(* accept loop, _stop), one handler per connection, the FIFO worker, a     *)
(* short-lived thread per exec, and the idle watchdog.  A process may be   *)
(* killed at any step.                                                     *)
(*                                                                         *)
(* ping and status change nothing and are left out, and so is a second     *)
(* start() while the lock is held: it raises AlreadyRunningError before    *)
(* anything is touched.                                                    *)
(***************************************************************************)
EXTENDS Naturals, Sequences, FiniteSets

CONSTANTS
  Procs,        \* daemon processes, each started at most once
  Jobs,         \* exec and reset requests of clients
  NoProc,       \* "no process"
  NoJob,        \* "no job"
  Stop,         \* the None that ends the worker
  Ttl,          \* processes with --idle-ttl-s > 0
  Recoverable,  \* processes whose provider allows in-process recovery
  Canaried,     \* processes that run the canary before every exec
  MayCrash      \* processes that may be killed

ASSUME DaemonAssumption ==
  /\ NoJob \notin Jobs /\ Stop \notin Jobs
  /\ NoProc \notin Procs /\ Ttl \subseteq Procs
  /\ Recoverable \subseteq Procs /\ Canaried \subseteq Procs
  /\ MayCrash \subseteq Procs

VARIABLES
  (* the file system and the GPU *)
  lock,       \* who holds the flock
  sock,       \* whose socket is at the socket path (a dead one's when stale)
  baseline,   \* the canary baseline: "none", "good" or "bad"
  engine,     \* the process's engine: "none", "loaded" or "unloaded"
  dirty,      \* the current engine's state is not pristine
  ghost,      \* exec thread abandoned on the current engine: "none", "live",
              \* or "loose" when it was alive as a reset declared READY
  (* each process *)
  main,       \* where its main thread is
  state,      \* _state
  queue,      \* _jobs
  shutdown,   \* _shutdown_event
  flag,       \* _provider_unloaded
  idle,       \* clock - _last_activity_ts >= idle_ttl_s
  worker,     \* where its worker thread is
  cur,        \* the job the worker is on
  dog,        \* where its idle watchdog is
  ctl,        \* where its handler of a shutdown request is
  (* each job *)
  op,         \* "exec" or "reset"; both fixed again when the job is over
  at,         \* the process its connection goes to
  job         \* "new", "conn", "queued", "running", "done" or "lost"

fileVars   == <<lock, sock, baseline>>
engineVars == <<engine, dirty, ghost>>
mainVars   == <<main, shutdown>>
workVars   == <<worker, cur>>
jobVars    == <<op, at, job>>
vars == <<fileVars, engineVars, mainVars, workVars, jobVars, state, queue,
          flag, idle, dog, ctl>>

Dead == {"off", "exited"}

Alive(p) == main[p] \notin Dead

Put(p, x) == queue' = [queue EXCEPT ![p] = Append(@, x)]

Goto(pc, p, to) == pc' = [pc EXCEPT ![p] = to]

Init ==
  /\ lock = NoProc /\ sock = NoProc /\ baseline = "none"
  /\ engine = [p \in Procs |-> "none"]
  /\ dirty = [p \in Procs |-> FALSE] /\ ghost = [p \in Procs |-> "none"]
  /\ main = [p \in Procs |-> "off"] /\ state = [p \in Procs |-> "STARTING"]
  /\ queue = [p \in Procs |-> <<>>] /\ shutdown = [p \in Procs |-> FALSE]
  /\ flag = [p \in Procs |-> FALSE] /\ idle = [p \in Procs |-> FALSE]
  /\ worker = [p \in Procs |-> "none"] /\ cur = [p \in Procs |-> NoJob]
  /\ dog = [p \in Procs |-> "none"] /\ ctl = [p \in Procs |-> "none"]
  /\ op = [j \in Jobs |-> "exec"] /\ at = [j \in Jobs |-> NoProc] /\ job = [j \in Jobs |-> "new"]

-----------------------------------------------------------------------------
(* start() *)

AcquireLock(p) ==
  /\ main[p] = "off" /\ lock = NoProc
  /\ lock' = p
  /\ Goto(main, p, "load")
  /\ UNCHANGED <<sock, baseline, engineVars, shutdown, workVars, jobVars, state,
                 queue, flag, idle, dog, ctl>>

(* Whatever file is at the path is stale: this process holds the lock. *)
UnlinkAndLoad(p) ==
  /\ main[p] = "load"
  /\ sock' = NoProc
  /\ \/ engine' = [engine EXCEPT ![p] = "loaded"] /\ Goto(main, p, "bind")
     \/ UNCHANGED engine /\ Goto(main, p, "stop")     \* load() raises
  /\ UNCHANGED <<lock, baseline, dirty, ghost, shutdown, workVars, jobVars, state,
                 queue, flag, idle, dog, ctl>>

BindSocket(p) ==
  /\ main[p] = "bind"
  /\ sock' = p
  /\ state' = [state EXCEPT ![p] = "READY"]
  /\ idle' = [idle EXCEPT ![p] = FALSE]
  /\ Goto(worker, p, "get")
  /\ Goto(dog, p, IF p \in Ttl THEN "poll" ELSE "none")
  /\ Goto(main, p, "accept")
  /\ UNCHANGED <<lock, baseline, engineVars, shutdown, cur, jobVars, queue, flag, ctl>>

BindFails(p) ==
  /\ main[p] = "bind"
  /\ Goto(main, p, "stop")
  /\ UNCHANGED <<fileVars, engineVars, shutdown, workVars, jobVars, state, queue,
                 flag, idle, dog, ctl>>

-----------------------------------------------------------------------------
(* The accept loop and _stop() *)

(* Mutant: the accept loop does not look at the event. *)
AcceptForever(p) ==
  /\ main[p] = "stop"
  /\ Put(p, Stop)
  /\ Goto(main, p, "join")
  /\ UNCHANGED <<fileVars, engineVars, shutdown, workVars, jobVars, state, flag,
                 idle, dog, ctl>>

(* The loop ends on the event, or start() failed. *)
LeaveAcceptLoop(p) ==
  /\ main[p] = "stop" \/ (main[p] = "accept" /\ shutdown[p])
  /\ Put(p, Stop)
  /\ Goto(main, p, "join")
  /\ UNCHANGED <<fileVars, engineVars, shutdown, workVars, jobVars, state, flag,
                 idle, dog, ctl>>

WorkerAlive(p) == worker[p] \notin {"none", "exited"}

(* Mutant: the provider is unloaded also when the worker did not stop. *)
StopJoinAnyway(p) ==
  /\ main[p] = "join"
  /\ Goto(main, p, "unload")
  /\ UNCHANGED <<fileVars, engineVars, shutdown, workVars, jobVars, state, queue,
                 flag, idle, dog, ctl>>

(* join(timeout=5.0) returns because the worker ended, or timed out with   *)
(* the worker alive; the engine is then left alone.                        *)
StopJoin(p) ==
  /\ main[p] = "join"
  /\ Goto(main, p, IF WorkerAlive(p) THEN "close" ELSE "unload")
  /\ UNCHANGED <<fileVars, engineVars, shutdown, workVars, jobVars, state, queue,
                 flag, idle, dog, ctl>>

(* _unload_provider_once: test and set under the lock, then unload. *)
TestAndSetUnloaded(p, pc, taken, skipped) ==
  /\ flag' = [flag EXCEPT ![p] = TRUE]
  /\ Goto(pc, p, IF flag[p] THEN skipped ELSE taken)

StopTestUnloaded(p) ==
  /\ main[p] = "unload"
  /\ TestAndSetUnloaded(p, main, "unloading", "close")
  /\ UNCHANGED <<fileVars, engineVars, shutdown, workVars, jobVars, state, queue,
                 idle, dog, ctl>>

StopUnload(p) ==
  /\ main[p] = "unloading"
  /\ engine' = [engine EXCEPT ![p] = "unloaded"]
  /\ Goto(main, p, "close")
  /\ UNCHANGED <<fileVars, dirty, ghost, shutdown, workVars, jobVars, state, queue,
                 flag, idle, dog, ctl>>

(* Mutant: the lock is released before the socket is removed. *)
UnlockBeforeUnlink(p) ==
  /\ main[p] = "close"
  /\ IF lock = p THEN lock' = NoProc /\ UNCHANGED <<sock, main>>
                  ELSE sock' = NoProc /\ Goto(main, p, "exited") /\ UNCHANGED lock
  /\ UNCHANGED <<baseline, engineVars, shutdown, workVars, jobVars, state, queue,
                 flag, idle, dog, ctl>>

(* The watchdog is joined with a timeout, whatever it is doing; then       *)
(* close() and unlink(missing_ok): whatever file is at the path goes.      *)
StopUnlink(p) ==
  /\ main[p] = "close"
  /\ sock' = NoProc
  /\ Goto(main, p, "unlock")
  /\ UNCHANGED <<lock, baseline, engineVars, shutdown, workVars, jobVars, state,
                 queue, flag, idle, dog, ctl>>

(* The process ends: threads, queue and GPU memory go, connections close;  *)
(* the variables of a dead process take fixed values.                      *)
Gone(p) ==
  /\ main' = [main EXCEPT ![p] = "exited"]
  /\ engine' = [engine EXCEPT ![p] = "none"]
  /\ ghost' = [ghost EXCEPT ![p] = "none"] /\ dirty' = [dirty EXCEPT ![p] = FALSE]
  /\ worker' = [worker EXCEPT ![p] = "none"] /\ cur' = [cur EXCEPT ![p] = NoJob]
  /\ dog' = [dog EXCEPT ![p] = "none"] /\ ctl' = [ctl EXCEPT ![p] = "none"]
  /\ queue' = [queue EXCEPT ![p] = <<>>]
  /\ job' = [j \in Jobs |-> IF at[j] = p THEN "lost" ELSE job[j]]
  /\ shutdown' = [shutdown EXCEPT ![p] = FALSE] /\ flag' = [flag EXCEPT ![p] = FALSE]
  /\ idle' = [idle EXCEPT ![p] = FALSE]
  /\ state' = [state EXCEPT ![p] = "STOPPED"]
  /\ op' = [j \in Jobs |-> IF at[j] = p THEN "exec" ELSE op[j]]
  /\ at' = [j \in Jobs |-> IF at[j] = p THEN NoProc ELSE at[j]]
  /\ UNCHANGED baseline

(* The lock is released last, and the process ends (its threads are daemon *)
(* threads); the moment between the two is not a state of its own.         *)
StopUnlockAndExit(p) ==
  /\ main[p] = "unlock"
  /\ lock' = NoProc
  /\ Gone(p)
  /\ UNCHANGED sock

(* Killed: the kernel drops the lock, the socket file stays. *)
Crash(p) ==
  /\ p \in MayCrash /\ Alive(p)
  /\ Gone(p)
  /\ lock' = IF lock = p THEN NoProc ELSE lock
  /\ UNCHANGED sock

-----------------------------------------------------------------------------
(* Connections *)

(* accept() and the handler's read of an exec or reset request *)
Connect(j) ==
  /\ job[j] = "new"
  /\ sock # NoProc /\ main[sock] = "accept"
  /\ at' = [at EXCEPT ![j] = sock]
  /\ \E o \in {"exec", "reset"} : op' = [op EXCEPT ![j] = o]
  /\ job' = [job EXCEPT ![j] = "conn"]
  /\ UNCHANGED <<fileVars, engineVars, mainVars, workVars, state, queue, flag, idle,
                 dog, ctl>>

SubmitAndWait(j) ==
  /\ job[j] = "conn"
  /\ Put(at[j], j)
  /\ job' = [job EXCEPT ![j] = "queued"]
  /\ UNCHANGED <<fileVars, engineVars, mainVars, workVars, op, at, state, flag, idle,
                 dog, ctl>>

(* A shutdown request: the event first, then the sentinel. *)
ShutdownSet(p) ==
  /\ sock = p /\ main[p] = "accept" /\ ctl[p] = "none" /\ ~shutdown[p]
  /\ shutdown' = [shutdown EXCEPT ![p] = TRUE]
  /\ Goto(ctl, p, "put")
  /\ UNCHANGED <<fileVars, engineVars, main, workVars, jobVars, state, queue, flag,
                 idle, dog>>

ShutdownPut(p) ==
  /\ ctl[p] = "put"
  /\ Put(p, Stop)
  /\ Goto(ctl, p, "none")
  /\ UNCHANGED <<fileVars, engineVars, mainVars, workVars, jobVars, state, flag,
                 idle, dog>>

-----------------------------------------------------------------------------
(* The worker *)

(* The next job; an exec is refused at once while the daemon is TAINTED. *)
WorkerGet(p) ==
  /\ worker[p] = "get" /\ queue[p] # <<>>
  /\ queue' = [queue EXCEPT ![p] = Tail(@)]
  /\ LET x == Head(queue[p]) IN
     IF x = Stop
     THEN Goto(worker, p, "exited") /\ UNCHANGED <<cur, job>>
     ELSE /\ cur' = [cur EXCEPT ![p] = x]
          /\ job' = [job EXCEPT ![x] = "running"]
          /\ Goto(worker, p, IF op[x] = "reset" THEN "reset"
                             ELSE IF state[p] = "TAINTED" THEN "finish"
                             ELSE IF p \in Canaried THEN "canary" ELSE "begin")
  /\ UNCHANGED <<fileVars, engineVars, mainVars, op, at, state, flag, idle, dog, ctl>>

(* _do_reset *)
WorkerReset(p) ==
  /\ worker[p] = "reset"
  /\ \/ /\ engine[p] = "loaded" \/ p \in Recoverable
        /\ dirty' = [dirty EXCEPT ![p] = FALSE]
        /\ ghost' = [ghost EXCEPT ![p] = IF @ = "live" THEN "loose" ELSE @]
        /\ state' = [state EXCEPT ![p] = "READY"]
        /\ Goto(worker, p, "finish")
     \/ /\ state' = [state EXCEPT ![p] = "TAINTED"]       \* reset() raises
        /\ Goto(worker, p, "restart")
        /\ UNCHANGED <<dirty, ghost>>
  /\ UNCHANGED <<fileVars, engine, mainVars, cur, jobVars, queue, flag, idle, dog, ctl>>

(* CanaryChecker.check: the first check records what it sees. *)
Observed(p) == IF dirty[p] THEN "bad" ELSE "good"

(* Mutant: a mismatch is only logged. *)
CanaryAlwaysOk(p) ==
  /\ worker[p] = "canary"
  /\ baseline' = IF baseline = "none" THEN Observed(p) ELSE baseline
  /\ Goto(worker, p, "begin")
  /\ UNCHANGED <<lock, sock, engineVars, mainVars, cur, jobVars, state, queue, flag,
                 idle, dog, ctl>>

WorkerCanary(p) ==
  /\ worker[p] = "canary"
  /\ \/ /\ engine[p] = "loaded"
        /\ baseline \in {"none", Observed(p)}
        /\ baseline' = Observed(p)
        /\ Goto(worker, p, "begin")
        /\ UNCHANGED state
     \/ /\ engine[p] = "loaded"
        /\ baseline \notin {"none", Observed(p)}
        /\ state' = [state EXCEPT ![p] = "TAINTED"]
        /\ Goto(worker, p, "restart")
        /\ UNCHANGED baseline
     \/ /\ Goto(worker, p, "finish")                      \* generate() raises
        /\ UNCHANGED <<baseline, state>>
  /\ UNCHANGED <<lock, sock, engineVars, mainVars, cur, jobVars, queue, flag, idle,
                 dog, ctl>>

(* BUSY, and the exec thread starts *)
ExecBegin(p) ==
  /\ worker[p] = "begin"
  /\ state' = [state EXCEPT ![p] = "BUSY"]
  /\ Goto(worker, p, "exec")
  /\ UNCHANGED <<fileVars, engineVars, mainVars, cur, jobVars, queue, flag, idle,
                 dog, ctl>>

(* The code returns or raises; either may leave the engine dirty. *)
ExecReturns(p) ==
  /\ worker[p] = "exec"
  /\ \E d \in BOOLEAN : dirty' = [dirty EXCEPT ![p] = d]
  /\ state' = [state EXCEPT ![p] = "READY"]
  /\ Goto(worker, p, "finish")
  /\ UNCHANGED <<fileVars, engine, ghost, mainVars, cur, jobVars, queue, flag, idle,
                 dog, ctl>>

(* join(timeout_s) ends with the exec thread alive: it is abandoned. *)
ExecTimesOut(p) ==
  /\ worker[p] = "exec"
  /\ ghost' = [ghost EXCEPT ![p] = "live"]
  /\ state' = [state EXCEPT ![p] = "TAINTED"]
  /\ Goto(worker, p, "restart")
  /\ UNCHANGED <<fileVars, engine, dirty, mainVars, cur, jobVars, queue, flag, idle,
                 dog, ctl>>

(* _maybe_restart: a new provider object; threads abandoned on the old one *)
(* do not reach it.  When its load() raises, the daemon stays TAINTED.     *)
MaybeRestart(p) ==
  /\ worker[p] = "restart"
  /\ Goto(worker, p, "finish")
  /\ \/ /\ p \in Recoverable
        /\ engine' = [engine EXCEPT ![p] = "loaded"]
        /\ dirty' = [dirty EXCEPT ![p] = FALSE] /\ ghost' = [ghost EXCEPT ![p] = "none"]
        /\ state' = [state EXCEPT ![p] = "READY"]
     \/ UNCHANGED <<engineVars, state>>
  /\ UNCHANGED <<fileVars, mainVars, cur, jobVars, queue, flag, idle, dog, ctl>>

Answer(p) ==
  /\ job' = [job EXCEPT ![cur[p]] = "done"]
  /\ op' = [op EXCEPT ![cur[p]] = "exec"] /\ at' = [at EXCEPT ![cur[p]] = NoProc]
  /\ cur' = [cur EXCEPT ![p] = NoJob]

(* Mutant: an exception of the job ends the worker thread. *)
FinishOnlyWhenReady(p) ==
  /\ worker[p] = "finish"
  /\ idle' = [idle EXCEPT ![p] = FALSE]
  /\ IF state[p] = "TAINTED" THEN Goto(worker, p, "exited") /\ UNCHANGED <<cur, jobVars>>
                             ELSE Goto(worker, p, "get") /\ Answer(p)
  /\ UNCHANGED <<fileVars, engineVars, mainVars, state, queue, flag, dog, ctl>>

WorkerFinish(p) ==
  /\ worker[p] = "finish"
  /\ idle' = [idle EXCEPT ![p] = FALSE]
  /\ Answer(p)
  /\ Goto(worker, p, "get")
  /\ UNCHANGED <<fileVars, engineVars, mainVars, state, queue, flag, dog, ctl>>

(* An abandoned exec thread goes on writing, or ends. *)
GhostWrites(p) ==
  /\ ghost[p] # "none"
  /\ \/ ~dirty[p] /\ dirty' = [dirty EXCEPT ![p] = TRUE] /\ UNCHANGED ghost
     \/ ghost[p] = "live" /\ ghost' = [ghost EXCEPT ![p] = "none"] /\ UNCHANGED dirty
  /\ UNCHANGED <<fileVars, engine, mainVars, workVars, jobVars, state, queue, flag,
                 idle, dog, ctl>>

-----------------------------------------------------------------------------
(* The idle watchdog *)

TtlPasses(p) ==
  /\ p \in Ttl /\ Alive(p) /\ ~idle[p]
  /\ idle' = [idle EXCEPT ![p] = TRUE]
  /\ UNCHANGED <<fileVars, engineVars, mainVars, workVars, jobVars, state, queue,
                 flag, dog, ctl>>

(* The poll reads the state, and in a later step the activity. *)
DogPoll(p) ==
  /\ dog[p] = "poll"
  /\ \/ shutdown[p] /\ Goto(dog, p, "exited")
     \/ ~shutdown[p] /\ state[p] # "BUSY" /\ Goto(dog, p, "read")
  /\ UNCHANGED <<fileVars, engineVars, mainVars, workVars, jobVars, state, queue,
                 flag, idle, ctl>>

DogRead(p) ==
  /\ dog[p] = "read"
  /\ Goto(dog, p, IF idle[p] THEN "unload" ELSE "poll")
  /\ UNCHANGED <<fileVars, engineVars, mainVars, workVars, jobVars, state, queue,
                 flag, idle, ctl>>

DogTestUnloaded(p) ==
  /\ dog[p] = "unload"
  /\ TestAndSetUnloaded(p, dog, "unloading", "signal")
  /\ UNCHANGED <<fileVars, engineVars, mainVars, workVars, jobVars, state, queue,
                 idle, ctl>>

DogUnload(p) ==
  /\ dog[p] = "unloading"
  /\ engine' = [engine EXCEPT ![p] = "unloaded"]
  /\ Goto(dog, p, "signal")
  /\ UNCHANGED <<fileVars, dirty, ghost, mainVars, workVars, jobVars, state, queue,
                 flag, idle, ctl>>

DogSignal(p) ==
  /\ dog[p] = "signal"
  /\ shutdown' = [shutdown EXCEPT ![p] = TRUE]
  /\ Goto(dog, p, "put")
  /\ UNCHANGED <<fileVars, engineVars, main, workVars, jobVars, state, queue, flag,
                 idle, ctl>>

DogPut(p) ==
  /\ dog[p] = "put"
  /\ Put(p, Stop)
  /\ Goto(dog, p, "exited")
  /\ UNCHANGED <<fileVars, engineVars, mainVars, workVars, jobVars, state, flag,
                 idle, ctl>>

-----------------------------------------------------------------------------

MainStep(p) ==
  \/ UnlinkAndLoad(p) \/ BindSocket(p) \/ BindFails(p)
  \/ LeaveAcceptLoop(p) \/ StopJoin(p)
  \/ StopTestUnloaded(p) \/ StopUnload(p) \/ StopUnlink(p) \/ StopUnlockAndExit(p)

WorkerStep(p) ==
  \/ WorkerGet(p) \/ WorkerReset(p) \/ WorkerCanary(p) \/ ExecBegin(p)
  \/ ExecReturns(p) \/ ExecTimesOut(p) \/ MaybeRestart(p) \/ WorkerFinish(p)

DogStep(p) ==
  \/ DogPoll(p) \/ DogRead(p) \/ DogTestUnloaded(p) \/ DogUnload(p) \/ DogSignal(p)
  \/ DogPut(p)

Next ==
  \/ \E p \in Procs :
       \/ AcquireLock(p) \/ MainStep(p) \/ WorkerStep(p) \/ DogStep(p)
       \/ ShutdownSet(p) \/ ShutdownPut(p) \/ GhostWrites(p) \/ TtlPasses(p)
       \/ Crash(p)
  \/ \E j \in Jobs : Connect(j) \/ SubmitAndWait(j)

Spec == Init /\ [][Next]_vars

(* The main and worker threads of a live process are scheduled, and engine *)
(* calls return (an exec because of its timeout); where there is a TTL,    *)
(* time passes and the watchdog polls.  Nobody has to start a daemon, send *)
(* a job, or ask for a shutdown.                                           *)
FairSpec ==
  /\ Spec
  /\ \A p \in Procs : WF_vars(MainStep(p)) /\ WF_vars(WorkerStep(p))
  /\ \A p \in Ttl : WF_vars(DogStep(p)) /\ WF_vars(TtlPasses(p))

-----------------------------------------------------------------------------
(* Properties *)

(* A daemon that accepts connections is the one clients reach, and the one *)
(* that holds the lock: no earlier daemon, stopping late or killed, takes  *)
(* its socket away (_stop unlinks before it unlocks; start unlinks a stale *)
(* file after it has the lock).                                            *)
ServerReachable == \A p \in Procs : main[p] = "accept" => sock = p /\ lock = p

(* Without an idle TTL the engine is never unloaded under a job: _stop     *)
(* unloads only when the worker has ended, also when shutdown comes in the *)
(* middle of an exec.                                                      *)
EngineKeptForJobs ==
  \A p \in Procs \ Ttl :
    worker[p] \in {"reset", "canary", "begin", "exec"} => engine[p] = "loaded"

(* Canary gating: code never starts on an engine an earlier job left       *)
(* dirty, and no dirty engine ever becomes the baseline, whatever daemons  *)
(* crash or are replaced.  The exception is a thread abandoned by a        *)
(* timeout that a reset set loose (see TaintedUntilReplaced).              *)
CleanExec ==
  /\ baseline # "bad"
  /\ \A p \in Canaried :
       worker[p] = "begin" /\ ghost[p] # "loose" => ~dirty[p]

(* Every job that reached the queue is answered unless the daemon shuts    *)
(* down or dies: an exec that times out, a failed canary, reset or restart *)
(* and a refusal are answers too.                                          *)
JobsAnswered ==
  \A j \in Jobs :
    job[j] = "queued" ~> \/ job[j] \in {"done", "lost"}
                         \/ \E p \in Procs : at[j] = p /\ shutdown[p]

(* The GPU is handed back: a daemon asked to shut down, or one with an     *)
(* idle TTL, always comes to release the lock, with jobs stuck or not.     *)
HandsBack ==
  \A p \in Procs :
    shutdown[p] \/ (p \in Ttl /\ main[p] = "accept") ~> lock # p

(* "The idle check never fires while a job is actually running", and "a    *)
(* single exec running longer than idle_ttl_s must not make the daemon     *)
(* look idle the instant it completes": when the watchdog decides, no job  *)
(* is in progress.                                                         *)
IdleMeansNoJob ==
  [][\A p \in Procs : dog[p] = "read" /\ dog'[p] = "unload" => cur[p] = NoJob]_vars

(* "CUDA providers remain TAINTED until their process is stopped and       *)
(* replaced".                                                              *)
TaintedUntilReplaced ==
  [][\A p \in Procs \ Recoverable :
       state[p] = "TAINTED" /\ ghost[p] = "live" => state'[p] \in {"TAINTED", "STOPPED"}]_vars
=============================================================================
