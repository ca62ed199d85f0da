---------------------------- MODULE CanTx_proofs ----------------------------
(***************************************************************************)
(* Proofs about CanTx for any number of tasks with distinct priorities, of   *)
(* which MAIN has the lowest.  The type invariant holds of the code as it    *)
(* is; that one call at a time uses the buffer is proved under ~Gap, that    *)
(* no task wakes between the test of can_lock and its setting: this is all   *)
(* the code relies on, and the priorities and suspensions do not matter.     *)
(***************************************************************************)
EXTENDS CanTx, TLAPS

USE TasksAssumption, PrioAssumption, GapAssumption

LockInv == \A t \in Tasks :
  pc[t] \in {"locked", "written", "waiting", "sent"} => can_lock

\* Only a waiting task is ever suspended inside canSend.
RunInv == \A t \in Tasks : pc[t] \in Busy => t \notin suspended

\* Where the frame is, from the buffer over the wire to the semaphore
FrameInv ==
  /\ \A t \in Tasks : pc[t] = "written" => buffer = t
  /\ wire # None => pending
  /\ pending => ~done
  /\ done => \E t \in Tasks : pc[t] = "waiting" /\ t \in own

IInv == /\ TypeOK /\ OneSender /\ LockInv /\ RunInv
        /\ FrameInv /\ BufferKept /\ SentMeansSent

\* Types are kept by every step.
LEMMA TypeStep == TypeOK /\ [Next]_vars => TypeOK'
<1> SUFFICES ASSUME TypeOK, [Next]_vars PROVE TypeOK'
  OBVIOUS
<1> USE DEF TypeOK, Busy
<1>1. ASSUME NEW t \in Tasks, Test(t) PROVE TypeOK'
  BY <1>1 DEF Test, Goto, hw, rescan
<1>2. ASSUME NEW t \in Tasks, Refuse(t) PROVE TypeOK'
  BY <1>2 DEF Refuse, hw
<1>3. ASSUME NEW t \in Tasks, Lock(t) PROVE TypeOK'
  BY <1>3 DEF Lock, Goto, hw, rescan
<1>4. ASSUME NEW t \in Tasks, Write(t) PROVE TypeOK'
  BY <1>4 DEF Write, Goto, rescan
<1>5. ASSUME NEW t \in Tasks, Request(t) PROVE TypeOK'
  BY <1>5 DEF Request, Goto, rescan
<1>6. ASSUME NEW t \in Tasks, Take(t) PROVE TypeOK'
  BY <1>6 DEF Take, Goto, rescan
<1>7. ASSUME NEW t \in Tasks, Return(t) PROVE TypeOK'
  <2>1. resetOut' \in BOOLEAN
    <3>1. (t \in own) \in BOOLEAN
      OBVIOUS
    <3> QED BY <3>1, <1>7, Zenon DEF Return
  <2> QED BY <2>1, <1>7 DEF Return, Goto, hw
<1>8. CASE Load
  BY <1>8 DEF Load, rescan
<1>9. CASE Complete
  BY <1>9 DEF Complete, rescan
<1>10. CASE StartTimerLoop
  BY <1>10 DEF StartTimerLoop, hw
<1>11. CASE Rescan
  BY <1>11 DEF Rescan, hw
<1>12. CASE Operate
  BY <1>12 DEF Operate, hw
<1>13. CASE Started
  BY <1>13 DEF Started, hw
<1>14. CASE UNCHANGED vars
  BY <1>14 DEF vars, hw, rescan
<1> QED
  BY <1>1, <1>2, <1>3, <1>4, <1>5, <1>6, <1>7, <1>8, <1>9, <1>10, <1>11,
     <1>12, <1>13, <1>14 DEF Next, Inside

\* The variables keep their types, whenever tasks wake.
THEOREM TypeCorrect == Spec => []TypeOK
<1>1. Init => TypeOK
  BY DEF Init, TypeOK, Busy
<1> QED
  BY <1>1, TypeStep, PTL DEF Spec

LEMMA InitInv == Init => IInv
BY DEF Init, IInv, TypeOK, Busy, OneSender, LockInv, RunInv, FrameInv,
       BufferKept, SentMeansSent

\* While a task is inside, every step but its own leaves it alone there.
LEMMA InvStep == ~Gap /\ IInv /\ [Next]_vars => IInv'
<1> SUFFICES ASSUME ~Gap, IInv, [Next]_vars PROVE IInv'
  OBVIOUS
<1>0. TypeOK /\ TypeOK'
  BY TypeStep DEF IInv
<1> DEFINE Rest == OneSender /\ LockInv /\ RunInv /\ FrameInv /\ BufferKept /\ SentMeansSent
<1> USE <1>0 DEF TypeOK, Busy, OneSender, LockInv, RunInv, FrameInv, BufferKept,
             SentMeansSent
<1>a. Rest
  BY DEF IInv
<1>1. ASSUME NEW t \in Tasks, Test(t) PROVE Rest'
  <2>1. \A u \in Tasks : pc[u] = "idle"
    BY <1>a, <1>1 DEF Test, Calls
  <2>2. ~done /\ ~pending /\ wire = None
    BY <1>a, <2>1
  <2>3. t \notin suspended
    BY <1>1 DEF Test, Calls, Runs
  <2> QED
    BY <1>a, <1>1, <2>1, <2>2, <2>3 DEF Test, Goto, hw, rescan
<1>2. ASSUME NEW t \in Tasks, Refuse(t) PROVE Rest'
  BY <1>a, <1>2 DEF Refuse, hw
<1>3. ASSUME NEW t \in Tasks, Lock(t) PROVE Rest'
  BY <1>a, <1>3 DEF Lock, Goto, hw, rescan
<1>4. ASSUME NEW t \in Tasks, Write(t) PROVE Rest'
  <2>1. ~done /\ ~pending /\ wire = None
    BY <1>a, <1>4 DEF Write
  <2> QED
    BY <1>a, <1>4, <2>1 DEF Write, Goto, rescan
<1>5. ASSUME NEW t \in Tasks, Request(t) PROVE Rest'
  <2>1. ~done /\ ~pending /\ wire = None
    BY <1>a, <1>5 DEF Request
  <2> QED
    BY <1>a, <1>5, <2>1 DEF Request, Goto, rescan
<1>6. ASSUME NEW t \in Tasks, Take(t) PROVE Rest'
  <2>1. ~pending /\ wire = None /\ t \in own
    BY <1>a, <1>6 DEF Take, MayTake
  <2>2. t \notin suspended
    BY <1>6 DEF Take, Runs
  <2> QED
    BY <1>a, <1>6, <2>1, <2>2 DEF Take, MayTake, Goto, rescan
<1>7. ASSUME NEW t \in Tasks, Return(t) PROVE Rest'
  <2>1. ~done /\ ~pending /\ wire = None
    BY <1>a, <1>7 DEF Return
  <2>2. \A u \in Tasks : pc'[u] = "idle"
    BY <1>a, <1>7 DEF Return, Goto
  <2> QED
    BY <1>a, <1>7, <2>1, <2>2 DEF Return, hw
<1>8. ASSUME Load PROVE Rest'
  BY <1>a, <1>8 DEF Load, rescan
<1>9. ASSUME Complete PROVE Rest'
  BY <1>a, <1>9 DEF Complete, rescan
<1>10. ASSUME StartTimerLoop PROVE Rest'
  BY <1>a, <1>10 DEF StartTimerLoop, hw
<1>11. ASSUME Rescan PROVE Rest'
  \* MAIN runs, so TPDO, if it is inside, waits.
  <2>1. Tpdo \in suspended \/ pc[Tpdo] \notin Busy
    BY <1>11 DEF Rescan, MainAt, Runs, Ready
  <2>2. pc[Tpdo] \notin Busy
    BY <1>a, <2>1
  <2> QED
    BY <1>a, <1>11, <2>2 DEF Rescan, hw
<1>12. ASSUME Operate PROVE Rest'
  BY <1>a, <1>12 DEF Operate, hw
<1>13. ASSUME Started PROVE Rest'
  BY <1>a, <1>13 DEF Started, hw
<1>14. ASSUME UNCHANGED vars PROVE Rest'
  BY <1>a, <1>14 DEF vars, hw, rescan
<1>15. Rest'
  BY <1>1, <1>2, <1>3, <1>4, <1>5, <1>6, <1>7, <1>8, <1>9, <1>10, <1>11,
     <1>12, <1>13, <1>14 DEF Next, Inside
<1> QED
  BY <1>15, <1>0 DEF IInv

\* If no task wakes in the gap, one call at a time has the buffer and the
\* semaphore.
THEOREM OneCallAtATime == ASSUME ~Gap PROVE Spec => []OneSender
<1>1. ~Gap /\ IInv /\ [Next]_vars => IInv'
  BY InvStep
<1>2. IInv => OneSender
  BY DEF IInv
<1> QED
  BY <1>1, <1>2, InitInv, PTL DEF Spec

\* If no task wakes in the gap, a call that returns 0 has sent its frame.
THEOREM FramesSent == ASSUME ~Gap PROVE Spec => []SentMeansSent
<1>1. ~Gap /\ IInv /\ [Next]_vars => IInv'
  BY InvStep
<1>2. IInv => SentMeansSent
  BY DEF IInv
<1> QED
  BY <1>1, <1>2, InitInv, PTL DEF Spec

\* If no task wakes in the gap, the buffer is not touched while a transmission
\* is requested: it holds the frame of the call that waits.
THEOREM BufferNeverTouched == ASSUME ~Gap PROVE Spec => []BufferKept
<1>1. ~Gap /\ IInv /\ [Next]_vars => IInv'
  BY InvStep
<1>2. IInv => BufferKept
  BY DEF IInv
<1> QED
  BY <1>1, <1>2, InitInv, PTL DEF Spec
=============================================================================
