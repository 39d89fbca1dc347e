------------------------- MODULE WakeChannelProofs -------------------------
(***************************************************************************)
(* The engine thread never sleeps on work whose wakeup byte is gone, for   *)
(* any number of requests and any capacity of the pipe.                    *)
(*                                                                         *)
(* NoSleepOnWork is not inductive: it says nothing about the steps before  *)
(* the engine blocks.  What makes it so is CancelByteKept: from the        *)
(* cancellation pass of a round to the blocking read no step empties the   *)
(* pipe, so a cancellation that arrives in between keeps its byte.  The    *)
(* deque needs no such clause, because it is drained once more in the very *)
(* step that blocks.                                                       *)
(***************************************************************************)
EXTENDS WakeChannel, TLAPS

(* Between the cancellation pass and the blocking read, a cancellation     *)
(* that was not looked at has its byte in the pipe, or is about to.        *)
CancelByteKept ==
  (epc \in {"work", "idle", "blocked"} /\ pipe = "open" /\ cancelSet # {})
    => bytes > 0 \/ WriteComing

WakeInv == TypeOK /\ NoSleepOnWork /\ CancelByteKept

-----------------------------------------------------------------------------
(* A write leaves at least one byte in an open pipe and stays within its   *)
(* capacity.                                                               *)
LEMMA WriteByteFacts ==
  ASSUME TypeOK, WriteByte
  PROVE  bytes' \in 0..PipeCap /\ (pipe = "open" => bytes' > 0)
BY PipeCapAssumption DEF TypeOK, WriteByte

(* Every step of Next keeps the variables within their types. *)
LEMMA TypeStep == TypeOK /\ [Next]_vars => TypeOK'
<1> SUFFICES ASSUME TypeOK, [Next]_vars PROVE TypeOK'
  OBVIOUS
<1> USE DEF TypeOK
<1>1. ASSUME NEW r \in Requests, SubmitCheck(r) PROVE TypeOK'
  BY <1>1 DEF SubmitCheck
<1>2. ASSUME NEW r \in Requests, SubmitAppend(r) PROVE TypeOK'
  BY <1>2 DEF SubmitAppend
<1>3. ASSUME NEW r \in Requests, SubmitWrite(r) PROVE TypeOK'
  BY <1>3, WriteByteFacts DEF SubmitWrite
<1>4. ASSUME NEW r \in Requests, CancelAdd(r) PROVE TypeOK'
  BY <1>4 DEF CancelAdd
<1>5. ASSUME NEW r \in Requests, CancelWrite(r) PROVE TypeOK'
  BY <1>5, WriteByteFacts DEF CancelWrite
<1>6. CASE StopFlag
  BY <1>6 DEF StopFlag
<1>7. CASE StopWrite
  BY <1>7, WriteByteFacts DEF StopWrite
<1>8. CASE StopClose
  BY <1>8 DEF StopClose
<1>9. CASE LoopTest
  BY <1>9 DEF LoopTest
<1>10. CASE RoundDrain
  BY <1>10 DEF RoundDrain, DrainRequests
<1>11. CASE RoundDrainPipe
  BY <1>11, PipeCapAssumption DEF RoundDrainPipe, DrainPipe
<1>12. CASE CoalesceDrain
  BY <1>12 DEF CoalesceDrain, DrainRequests
<1>13. CASE WindowReadable
  BY <1>13, PipeCapAssumption DEF WindowReadable, DrainPipe
<1>14. CASE WindowEnd
  BY <1>14 DEF WindowEnd
<1>15. CASE CancelPass
  BY <1>15 DEF CancelPass
<1>16. CASE Work
  BY <1>16 DEF Work
<1>17. CASE IdleRedrain
  BY <1>17 DEF IdleRedrain, DrainRequests
<1>18. CASE ReadReturns
  BY <1>18, PipeCapAssumption DEF ReadReturns
<1>19. CASE WokenDrain
  BY <1>19 DEF WokenDrain, DrainRequests
<1>20. CASE WokenDrainPipe
  BY <1>20, PipeCapAssumption DEF WokenDrainPipe, DrainPipe
<1>21. CASE FailPending
  BY <1>21 DEF FailPending
<1>22. CASE UNCHANGED vars
  BY <1>22 DEF vars
<1> QED
  BY <1>1, <1>2, <1>3, <1>4, <1>5, <1>6, <1>7, <1>8, <1>9, <1>10, <1>11, <1>12, <1>13,
     <1>14, <1>15, <1>16, <1>17, <1>18, <1>19, <1>20, <1>21, <1>22
     DEF Next, Submit, Cancel, Stopper, Engine

-----------------------------------------------------------------------------
(* The two halves of the wakeup argument share their case analysis: for a  *)
(* step that neither writes nor leaves the engine's region, both carry     *)
(* over; a write gives bytes > 0; an append or a cancellation makes        *)
(* WriteComing true; every step that empties the pipe ends outside.        *)
LEMMA WakeStep == WakeInv /\ [Next]_vars => NoSleepOnWork' /\ CancelByteKept'
<1> SUFFICES ASSUME WakeInv, [Next]_vars PROVE NoSleepOnWork' /\ CancelByteKept'
  OBVIOUS
<1> USE DEF WakeInv, NoSleepOnWork, CancelByteKept, WriteComing
<1>1. ASSUME NEW r \in Requests, SubmitCheck(r) PROVE NoSleepOnWork' /\ CancelByteKept'
  <2>1. \A q \in Requests : cpc[q] \in {"appended", "cancelled"}
                              => cpc'[q] \in {"appended", "cancelled"}
    BY <1>1 DEF SubmitCheck, TypeOK
  <2> QED
    BY <1>1, <2>1 DEF SubmitCheck
<1>2. ASSUME NEW r \in Requests, SubmitAppend(r) PROVE NoSleepOnWork' /\ CancelByteKept'
  <2>1. cpc'[r] = "appended"
    BY <1>2 DEF SubmitAppend, TypeOK
  <2> QED
    BY <2>1
<1>3. ASSUME NEW r \in Requests, SubmitWrite(r) PROVE NoSleepOnWork' /\ CancelByteKept'
  BY <1>3, WriteByteFacts DEF SubmitWrite
<1>4. ASSUME NEW r \in Requests, CancelAdd(r) PROVE NoSleepOnWork' /\ CancelByteKept'
  <2>1. cpc'[r] = "cancelled"
    BY <1>4 DEF CancelAdd, TypeOK
  <2> QED
    BY <2>1
<1>5. ASSUME NEW r \in Requests, CancelWrite(r) PROVE NoSleepOnWork' /\ CancelByteKept'
  BY <1>5, WriteByteFacts DEF CancelWrite
<1>6. CASE StopFlag
  BY <1>6 DEF StopFlag
<1>7. CASE StopWrite
  BY <1>7, WriteByteFacts DEF StopWrite
<1>8. CASE StopClose
  BY <1>8 DEF StopClose
<1>9. CASE LoopTest \/ RoundDrain \/ RoundDrainPipe
  BY <1>9 DEF LoopTest, RoundDrain, RoundDrainPipe
<1>10. CASE CoalesceDrain \/ WindowReadable \/ WindowEnd
  BY <1>10 DEF CoalesceDrain, WindowReadable, WindowEnd
<1>11. CASE CancelPass
  BY <1>11 DEF CancelPass
<1>12. CASE Work
  BY <1>12 DEF Work
<1>13. CASE IdleRedrain
  BY <1>13 DEF IdleRedrain, DrainRequests
<1>14. CASE ReadReturns
  BY <1>14 DEF ReadReturns
<1>15. CASE WokenDrain \/ WokenDrainPipe
  BY <1>15 DEF WokenDrain, WokenDrainPipe
<1>16. CASE FailPending
  BY <1>16 DEF FailPending
<1>17. CASE UNCHANGED vars
  BY <1>17 DEF vars
<1> QED
  BY <1>1, <1>2, <1>3, <1>4, <1>5, <1>6, <1>7, <1>8, <1>9, <1>10, <1>11, <1>12, <1>13,
     <1>14, <1>15, <1>16, <1>17
     DEF Next, Submit, Cancel, Stopper, Engine

(* The inductive invariant holds in every behaviour. *)
LEMMA WakeInvariant == Spec => []WakeInv
<1>1. Init => WakeInv
  BY PipeCapAssumption DEF Init, WakeInv, TypeOK, NoSleepOnWork, CancelByteKept, WriteComing
<1>2. WakeInv /\ [Next]_vars => WakeInv'
  BY TypeStep, WakeStep DEF WakeInv
<1> QED
  BY <1>1, <1>2, PTL DEF Spec

-----------------------------------------------------------------------------
(* The wakeup protocol of _enqueue_request, cancel, stop and _step_sync    *)
(* keeps its state well formed; in particular the pipe never holds more    *)
(* than its capacity, since a write to a full pipe is dropped.             *)
THEOREM WakeTyping == Spec => []TypeOK
BY WakeInvariant, PTL DEF WakeInv

(* The engine never blocks in os.read while a request or a cancellation is *)
(* there without a byte to wake it (the idle branch of _step_sync).        *)
THEOREM WakeNoSleepOnWork == Spec => []NoSleepOnWork
BY WakeInvariant, PTL DEF WakeInv
=============================================================================
