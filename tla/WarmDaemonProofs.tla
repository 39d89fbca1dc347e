-------------------------- MODULE WarmDaemonProofs --------------------------
(***************************************************************************)
(* The warm daemon's socket, engine and canary guarantees, for any number  *)
(* of daemon processes and jobs and any choice of TTL, recovery, canary    *)
(* and crashes.                                                            *)
(*                                                                         *)
(* None of the three is inductive.  LockHeld ties the socket path to the   *)
(* lock: whoever runs holds it, so no two daemons touch the path at once.  *)
(* WorkerPhases says when the worker can be alive at all, EngineHeld that  *)
(* only a dead worker's engine is unloaded.  CanaryKept says that a thread *)
(* abandoned by a timeout keeps the daemon TAINTED, and that no canaried   *)
(* engine has been touched before the baseline was recorded.               *)
(***************************************************************************)
EXTENDS WarmDaemon, TLAPS

MainPC == {"off", "load", "bind", "accept", "stop", "join", "unload", "unloading",
           "close", "unlock", "exited"}

WorkerPC == {"none", "get", "reset", "canary", "begin", "exec", "restart", "finish", "exited"}

(* The types the proofs need. *)
Typed ==
  /\ main \in [Procs -> MainPC]
  /\ worker \in [Procs -> WorkerPC]
  /\ dog \in [Procs -> {"none", "poll", "read", "unload", "unloading", "signal", "put", "exited"}]
  /\ engine \in [Procs -> {"none", "loaded", "unloaded"}]
  /\ dirty \in [Procs -> BOOLEAN]
  /\ ghost \in [Procs -> {"none", "live", "loose"}]
  /\ state \in [Procs -> {"STARTING", "READY", "BUSY", "TAINTED", "STOPPED"}]
  /\ baseline \in {"none", "good", "bad"}

(* A live process holds the lock, so there is at most one. *)
LockHeld == \A p \in Procs : Alive(p) => lock = p

(* The worker starts when the socket is bound; the main thread unloads     *)
(* only behind a dead worker.                                              *)
WorkerPhases ==
  \A p \in Procs :
    /\ main[p] \in {"off", "load", "bind", "stop", "exited"} => worker[p] = "none"
    /\ main[p] \in {"unload", "unloading"} => ~WorkerAlive(p)

(* Without a TTL there is no watchdog, and a live worker has an engine. *)
EngineHeld ==
  \A p \in Procs \ Ttl :
    /\ dog[p] = "none"
    /\ main[p] = "bind" \/ WorkerAlive(p) => engine[p] = "loaded"

(* An abandoned thread that no reset set loose keeps its daemon TAINTED,   *)
(* so no exec gets past the queue; a process without a worker has neither  *)
(* a dirty engine nor such a thread, and before the baseline is recorded   *)
(* no canaried process has run any code.                                   *)
CanaryKept ==
  /\ \A p \in Procs :
       /\ ghost[p] = "live" => /\ state[p] = "TAINTED"
                               /\ worker[p] \notin {"canary", "begin", "exec"}
       /\ worker[p] = "none" => ghost[p] = "none" /\ ~dirty[p]
       /\ worker[p] = "canary" => p \in Canaried
  /\ baseline = "none" =>
       \A p \in Canaried : ~dirty[p] /\ ghost[p] = "none" /\ worker[p] \notin {"begin", "exec"}

DaemonInv ==
  /\ Typed /\ LockHeld /\ ServerReachable
  /\ WorkerPhases /\ EngineHeld /\ EngineKeptForJobs
  /\ CanaryKept /\ CleanExec

-----------------------------------------------------------------------------
(* Every step of every thread keeps the invariant.  Only the main thread's *)
(* steps and a crash touch the lock or the socket; only the worker's and   *)
(* the watchdog's touch the engine while the worker lives.                 *)
LEMMA DaemonStep == DaemonInv /\ [Next]_vars => DaemonInv'
<1> SUFFICES ASSUME DaemonInv, [Next]_vars PROVE DaemonInv'
  OBVIOUS
<1> USE DaemonAssumption
    DEF DaemonInv, Typed, MainPC, WorkerPC, LockHeld, ServerReachable, WorkerPhases,
        EngineHeld, EngineKeptForJobs, CanaryKept, CleanExec, Alive, Dead, WorkerAlive,
        Goto, fileVars, engineVars, mainVars, workVars, jobVars
<1>1. ASSUME NEW p \in Procs, AcquireLock(p) PROVE DaemonInv'
  BY <1>1 DEF AcquireLock
<1>2. ASSUME NEW p \in Procs, UnlinkAndLoad(p) PROVE DaemonInv'
  BY <1>2 DEF UnlinkAndLoad
<1>3. ASSUME NEW p \in Procs, BindSocket(p) PROVE DaemonInv'
  BY <1>3 DEF BindSocket
<1>4. ASSUME NEW p \in Procs, BindFails(p) PROVE DaemonInv'
  BY <1>4 DEF BindFails
<1>5. ASSUME NEW p \in Procs, LeaveAcceptLoop(p) PROVE DaemonInv'
  BY <1>5 DEF LeaveAcceptLoop
<1>6. ASSUME NEW p \in Procs, StopJoin(p) PROVE DaemonInv'
  BY <1>6 DEF StopJoin
<1>7. ASSUME NEW p \in Procs, StopTestUnloaded(p) PROVE DaemonInv'
  BY <1>7 DEF StopTestUnloaded, TestAndSetUnloaded
<1>8. ASSUME NEW p \in Procs, StopUnload(p) PROVE DaemonInv'
  BY <1>8 DEF StopUnload
<1>9. ASSUME NEW p \in Procs, StopUnlink(p) PROVE DaemonInv'
  BY <1>9 DEF StopUnlink
<1>10. ASSUME NEW p \in Procs, StopUnlockAndExit(p) PROVE DaemonInv'
  BY <1>10 DEF StopUnlockAndExit, Gone
<1>11. ASSUME NEW p \in Procs, WorkerGet(p) PROVE DaemonInv'
  BY <1>11 DEF WorkerGet
<1>12. ASSUME NEW p \in Procs, WorkerReset(p) PROVE DaemonInv'
  <2>1. (Typed /\ LockHeld /\ ServerReachable)'
    <3>1. dirty' \in [Procs -> BOOLEAN] /\ ghost' \in [Procs -> {"none", "live", "loose"}]
      <4>1. \/ dirty' = dirty /\ ghost' = ghost
            \/ /\ dirty' = [dirty EXCEPT ![p] = FALSE]
               /\ ghost' = [ghost EXCEPT ![p] = IF ghost[p] = "live" THEN "loose" ELSE ghost[p]]
        BY <1>12 DEF WorkerReset
      <4>2. [dirty EXCEPT ![p] = FALSE] \in [Procs -> BOOLEAN]
        OBVIOUS
      <4>3. dirty \in [Procs -> BOOLEAN]
        OBVIOUS
      <4>4. dirty' \in [Procs -> BOOLEAN]
        BY <4>1, <4>2, <4>3, Zenon
      <4>5. ghost' \in [Procs -> {"none", "live", "loose"}]
        BY <4>1
      <4> QED
        BY <4>4, <4>5
    <3> QED
      BY <1>12, <3>1 DEF WorkerReset
  <2>2. (WorkerPhases /\ EngineHeld /\ EngineKeptForJobs)'
    BY <1>12 DEF WorkerReset
  <2>3. CanaryKept'
    BY <1>12 DEF WorkerReset
  <2>4. CleanExec'
    BY <1>12 DEF WorkerReset
  <2> QED
    BY <2>1, <2>2, <2>3, <2>4
<1>13. ASSUME NEW p \in Procs, WorkerCanary(p) PROVE DaemonInv'
  <2>1. (Typed /\ LockHeld /\ ServerReachable)'
    BY <1>13 DEF WorkerCanary, Observed
  <2>2. (WorkerPhases /\ EngineHeld /\ EngineKeptForJobs)'
    BY <1>13 DEF WorkerCanary, Observed
  <2>3. CanaryKept'
    BY <1>13 DEF WorkerCanary, Observed
  <2>4. CleanExec'
    <3>1. dirty' = dirty /\ ghost' = ghost
      BY <1>13 DEF WorkerCanary
    <3>2. baseline' # "bad" /\ (worker'[p] = "begin" /\ p \in Canaried => ~dirty[p])
      BY <1>13 DEF WorkerCanary, Observed
    <3>3. \A q \in Procs \ {p} : worker'[q] = worker[q]
      BY <1>13 DEF WorkerCanary
    <3> QED
      BY <3>1, <3>2, <3>3
  <2> QED
    BY <2>1, <2>2, <2>3, <2>4
<1>14. ASSUME NEW p \in Procs, ExecBegin(p) PROVE DaemonInv'
  BY <1>14 DEF ExecBegin
<1>15. ASSUME NEW p \in Procs, ExecReturns(p) PROVE DaemonInv'
  BY <1>15 DEF ExecReturns
<1>16. ASSUME NEW p \in Procs, ExecTimesOut(p) PROVE DaemonInv'
  BY <1>16 DEF ExecTimesOut
<1>17. ASSUME NEW p \in Procs, MaybeRestart(p) PROVE DaemonInv'
  <2>1. (Typed /\ LockHeld /\ ServerReachable)'
    <3>1. dirty' \in [Procs -> BOOLEAN] /\ ghost' \in [Procs -> {"none", "live", "loose"}]
      <4>1. \/ dirty' = dirty /\ ghost' = ghost
            \/ /\ dirty' = [dirty EXCEPT ![p] = FALSE]
               /\ ghost' = [ghost EXCEPT ![p] = "none"]
        BY <1>17 DEF MaybeRestart
      <4>2. [dirty EXCEPT ![p] = FALSE] \in [Procs -> BOOLEAN]
        OBVIOUS
      <4>3. dirty \in [Procs -> BOOLEAN]
        OBVIOUS
      <4>4. dirty' \in [Procs -> BOOLEAN]
        BY <4>1, <4>2, <4>3, Zenon
      <4>5. ghost' \in [Procs -> {"none", "live", "loose"}]
        BY <4>1
      <4> QED
        BY <4>4, <4>5
    <3>2. /\ engine' \in [Procs -> {"none", "loaded", "unloaded"}]
          /\ state' \in [Procs -> {"STARTING", "READY", "BUSY", "TAINTED", "STOPPED"}]
          /\ worker' \in [Procs -> WorkerPC]
      BY <1>17 DEF MaybeRestart
    <3>3. UNCHANGED <<main, dog, baseline, lock, sock>>
      BY <1>17 DEF MaybeRestart
    <3> QED
      BY <3>1, <3>2, <3>3
  <2>2. (WorkerPhases /\ EngineHeld /\ EngineKeptForJobs)'
    BY <1>17 DEF MaybeRestart
  <2>3. CanaryKept'
    BY <1>17 DEF MaybeRestart
  <2>4. CleanExec'
    BY <1>17 DEF MaybeRestart
  <2> QED
    BY <2>1, <2>2, <2>3, <2>4
<1>18. ASSUME NEW p \in Procs, WorkerFinish(p) PROVE DaemonInv'
  BY <1>18 DEF WorkerFinish, Answer
<1>19. ASSUME NEW p \in Procs, DogPoll(p) PROVE DaemonInv'
  BY <1>19 DEF DogPoll
<1>20. ASSUME NEW p \in Procs, DogRead(p) PROVE DaemonInv'
  BY <1>20 DEF DogRead
<1>21. ASSUME NEW p \in Procs, DogTestUnloaded(p) PROVE DaemonInv'
  BY <1>21 DEF DogTestUnloaded, TestAndSetUnloaded
<1>22. ASSUME NEW p \in Procs, DogUnload(p) PROVE DaemonInv'
  BY <1>22 DEF DogUnload
<1>23. ASSUME NEW p \in Procs, DogSignal(p) PROVE DaemonInv'
  BY <1>23 DEF DogSignal
<1>24. ASSUME NEW p \in Procs, DogPut(p) PROVE DaemonInv'
  BY <1>24 DEF DogPut
<1>25. ASSUME NEW p \in Procs, ShutdownSet(p) PROVE DaemonInv'
  BY <1>25 DEF ShutdownSet
<1>26. ASSUME NEW p \in Procs, ShutdownPut(p) PROVE DaemonInv'
  BY <1>26 DEF ShutdownPut
<1>27. ASSUME NEW p \in Procs, GhostWrites(p) PROVE DaemonInv'
  <2>1. (Typed /\ LockHeld /\ ServerReachable)'
    <3>1. dirty' \in [Procs -> BOOLEAN] /\ ghost' \in [Procs -> {"none", "live", "loose"}]
      <4>1. \/ dirty' = dirty /\ ghost' = [ghost EXCEPT ![p] = "none"]
            \/ dirty' = [dirty EXCEPT ![p] = TRUE] /\ ghost' = ghost
        BY <1>27 DEF GhostWrites
      <4>2. [dirty EXCEPT ![p] = TRUE] \in [Procs -> BOOLEAN]
        OBVIOUS
      <4>3. dirty \in [Procs -> BOOLEAN]
        OBVIOUS
      <4>4. dirty' \in [Procs -> BOOLEAN]
        BY <4>1, <4>2, <4>3, Zenon
      <4>5. ghost' \in [Procs -> {"none", "live", "loose"}]
        BY <4>1
      <4> QED
        BY <4>4, <4>5
    <3> QED
      BY <1>27, <3>1 DEF GhostWrites
  <2>2. (WorkerPhases /\ EngineHeld /\ EngineKeptForJobs)'
    BY <1>27 DEF GhostWrites
  <2>3. CanaryKept'
    BY <1>27 DEF GhostWrites
  <2>4. CleanExec'
    BY <1>27 DEF GhostWrites
  <2> QED
    BY <2>1, <2>2, <2>3, <2>4
<1>28. ASSUME NEW p \in Procs, TtlPasses(p) PROVE DaemonInv'
  BY <1>28 DEF TtlPasses
<1>29. ASSUME NEW p \in Procs, Crash(p) PROVE DaemonInv'
  BY <1>29 DEF Crash, Gone
<1>30. ASSUME NEW j \in Jobs, Connect(j) \/ SubmitAndWait(j) PROVE DaemonInv'
  BY <1>30 DEF Connect, SubmitAndWait
<1>31. CASE UNCHANGED vars
  BY <1>31 DEF vars
<1> QED
  BY <1>1, <1>2, <1>3, <1>4, <1>5, <1>6, <1>7, <1>8, <1>9, <1>10, <1>11, <1>12,
     <1>13, <1>14, <1>15, <1>16, <1>17, <1>18, <1>19, <1>20, <1>21, <1>22,
     <1>23, <1>24, <1>25, <1>26, <1>27, <1>28, <1>29, <1>30, <1>31
     DEF Next, MainStep, WorkerStep, DogStep

(* The inductive invariant holds in every behaviour. *)
LEMMA DaemonInvariant == Spec => []DaemonInv
<1>1. Init => DaemonInv
  BY DaemonAssumption
     DEF Init, DaemonInv, Typed, MainPC, WorkerPC, LockHeld, ServerReachable, WorkerPhases,
         EngineHeld, EngineKeptForJobs, CanaryKept, CleanExec, Alive, Dead, WorkerAlive
<1>2. DaemonInv /\ [Next]_vars => DaemonInv'
  BY DaemonStep
<1> QED
  BY <1>1, <1>2, PTL DEF Spec

-----------------------------------------------------------------------------
(* An accepting daemon holds the lock and the socket path is its own,      *)
(* whatever other daemons start, stop late or are killed (start(), _stop() *)
(* in bfdiag/daemon/server.py).                                            *)
THEOREM DaemonReachable == Spec => []ServerReachable
BY DaemonInvariant, PTL DEF DaemonInv

(* _stop never unloads the engine under a job of a daemon without an idle  *)
(* TTL, however its join with the worker ends.                             *)
THEOREM DaemonKeepsEngine == Spec => []EngineKeptForJobs
BY DaemonInvariant, PTL DEF DaemonInv

(* The canary gate: the shared baseline is never recorded from a dirty     *)
(* engine, and a canaried exec starts on a clean one unless a reset set an *)
(* abandoned thread loose (_run_exec, _do_reset, CanaryChecker.check).     *)
THEOREM DaemonCleanExec == Spec => []CleanExec
BY DaemonInvariant, PTL DEF DaemonInv
=============================================================================
