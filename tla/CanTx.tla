------------------------------- MODULE CanTx -------------------------------
(***************************************************************************)
(* The sending side of the CAN driver of core 0 (canSend, candrv.c) and its *)
(* callers: RPDO (SDO, reconfiguration), TPDO (outputs), TIMER (heartbeat)   *)
(* and MAIN (NMT, scan).  There is one transmit buffer, the flag can_lock     *)
(* and the semaphore gMcanTxDoneSem, which the transmit interrupt posts.      *)
(* The tasks share one core under strict priorities: a task runs while no     *)
(* task of a higher priority can, and an idle one may wake at any time.       *)
(* A rescan suspends TPDO wherever it is, inside canSend included.           *)
(***************************************************************************)
EXTENDS Naturals

CONSTANTS Tasks, Prio,        \* the senders and their priorities
          Main, Tpdo, Timer,  \* TASK_MAIN, TASK_CAN_TPDO, TASK_CAN_TIMER
          Senders,            \* the tasks that do send in this scenario
          None,               \* no task
          Gap                 \* may a task wake between the test of can_lock
                              \* and its setting?

ASSUME TasksAssumption == {Main, Tpdo, Timer} \subseteq Tasks /\ Main # Tpdo
                          /\ Main # Timer /\ Senders \subseteq Tasks
                          /\ None \notin Tasks
ASSUME PrioAssumption ==
  /\ Prio \in [Tasks -> Nat]
  /\ \A t, u \in Tasks : Prio[t] = Prio[u] => t = u
  /\ \A t \in Tasks \ {Main} : Prio[t] > Prio[Main]
ASSUME GapAssumption == Gap \in BOOLEAN

VARIABLES
  pc,         \* where each task is in canSend
  can_lock,
  buffer,     \* the task whose frame is in transmit buffer 0
  pending,    \* TXBRP: a transmission of the buffer is requested
  wire,       \* the task whose frame the controller has begun to send
  done,       \* gMcanTxDoneSem, a binary semaphore
  suspended,  \* the tasks stopped by vTaskSuspend
  mode,       \* MAIN: "reset" (before the NMT reset), "scan", "start" or "op"
  own,        \* history: the calls whose own frame went over the bus
  resetOut    \* history: the nodes got the reset of this scan

hw == <<buffer, pending, wire, done>>
rescan == <<suspended, mode, resetOut>>
vars == <<pc, can_lock, hw, rescan, own>>

Busy == {"tested", "locked", "written", "sent"}

TypeOK ==
  /\ pc \in [Tasks -> Busy \cup {"idle", "waiting"}]
  /\ can_lock \in BOOLEAN /\ pending \in BOOLEAN /\ done \in BOOLEAN
  /\ buffer \in Tasks \cup {None} /\ wire \in Tasks \cup {None}
  /\ suspended \subseteq {Tpdo, Timer}
  /\ mode \in {"reset", "scan", "start", "op"}
  /\ own \subseteq Tasks /\ resetOut \in BOOLEAN

\* TPDO suspends itself first thing, TIMER waits for StartTimerLoop.
Init ==
  /\ pc = [t \in Tasks |-> "idle"]
  /\ can_lock = FALSE
  /\ buffer = None /\ pending = FALSE /\ wire = None /\ done = FALSE
  /\ suspended = {Tpdo, Timer}
  /\ mode = "reset"
  /\ own = {} /\ resetOut = FALSE

----------------------------------------------------------------------------
(* Scheduling (FreeRTOS, external) *)

\* The semaphore is given to the waiting task of the highest priority.
MayTake(t) ==
  /\ pc[t] = "waiting" /\ done
  /\ \A u \in Tasks \ suspended : pc[u] = "waiting" => Prio[u] <= Prio[t]

Ready(t) == t \notin suspended /\ (pc[t] \in Busy \/ MayTake(t))

Runs(t) == /\ t \notin suspended
           /\ \A u \in Tasks : Prio[u] > Prio[t] => ~Ready(u)

Goto(t, there) == pc' = [pc EXCEPT ![t] = there]

----------------------------------------------------------------------------
(* canSend *)

\* A task has a frame to send.  MAIN sends for a scan, and then every output
\* once (PDOInit), when TPDO runs again already.
Calls(t) ==
  /\ pc[t] = "idle" /\ Runs(t) /\ t \in Senders
  /\ t = Main => mode # "op"
  /\ Gap \/ \A u \in Tasks : pc[u] # "tested"

\* slip: the flag is not looked at
TestNot(t) ==
  /\ Calls(t)
  /\ Goto(t, "tested")
  /\ own' = own \ {t}
  /\ UNCHANGED <<can_lock, hw, rescan>>

\* if(can_lock) is false
Test(t) ==
  /\ Calls(t) /\ ~can_lock
  /\ Goto(t, "tested")
  /\ own' = own \ {t}
  /\ UNCHANGED <<can_lock, hw, rescan>>

\* It is true: -1, which the callers of NMT, PDO and heartbeat ignore
Refuse(t) ==
  /\ Calls(t) /\ can_lock
  /\ mode' = IF t = Main /\ mode = "reset" THEN "scan" ELSE mode
  /\ UNCHANGED <<pc, can_lock, hw, suspended, own, resetOut>>

Lock(t) ==
  /\ pc[t] = "tested" /\ Runs(t)
  /\ can_lock' = TRUE
  /\ Goto(t, "locked")
  /\ UNCHANGED <<hw, rescan, own>>

\* MCAN_writeMsgRam
Write(t) ==
  /\ pc[t] = "locked" /\ Runs(t)
  /\ buffer' = t
  /\ Goto(t, "written")
  /\ UNCHANGED <<can_lock, pending, wire, done, rescan, own>>

\* slip: the flag protects the buffer only until the request is made
RequestUnlocks(t) ==
  /\ pc[t] = "written" /\ Runs(t)
  /\ pending' = TRUE
  /\ can_lock' = FALSE
  /\ Goto(t, "waiting")
  /\ UNCHANGED <<buffer, wire, done, rescan, own>>

\* MCAN_txBufAddReq; the controller ignores it if one is pending already
Request(t) ==
  /\ pc[t] = "written" /\ Runs(t)
  /\ pending' = TRUE
  /\ Goto(t, "waiting")
  /\ UNCHANGED <<can_lock, buffer, wire, done, rescan, own>>

\* slip: the wait is bounded, and its result not looked at
TakeOrNot(t) ==
  /\ pc[t] = "waiting" /\ Runs(t)
  /\ done' = FALSE
  /\ Goto(t, "sent")
  /\ UNCHANGED <<can_lock, buffer, pending, wire, rescan, own>>

\* SemaphoreP_pend returns
Take(t) ==
  /\ MayTake(t) /\ Runs(t)
  /\ done' = FALSE
  /\ Goto(t, "sent")
  /\ UNCHANGED <<can_lock, buffer, pending, wire, rescan, own>>

\* can_lock = 0; return 0
Return(t) ==
  /\ pc[t] = "sent" /\ Runs(t)
  /\ can_lock' = FALSE
  /\ Goto(t, "idle")
  /\ own' = own \ {t}
  /\ mode' = IF t = Main /\ mode = "reset" THEN "scan" ELSE mode
  /\ resetOut' = IF t = Main /\ mode = "reset" THEN t \in own ELSE resetOut
  /\ UNCHANGED <<hw, suspended>>

----------------------------------------------------------------------------
(* The controller and its interrupt *)

Load ==
  /\ pending /\ wire = None
  /\ wire' = buffer
  /\ UNCHANGED <<pc, can_lock, buffer, pending, done, rescan, own>>

\* Another node acknowledges the frame: App_mcanIntrISR posts.
Complete ==
  /\ wire # None
  /\ own' = own \cup {wire}
  /\ wire' = None /\ pending' = FALSE /\ done' = TRUE
  /\ UNCHANGED <<pc, can_lock, buffer, rescan>>

----------------------------------------------------------------------------
(* MAIN *)

MainAt(m) == mode = m /\ pc[Main] = "idle" /\ Runs(Main)

StartTimerLoop ==
  /\ MainAt("op") /\ Timer \in suspended
  /\ suspended' = suspended \ {Timer}
  /\ UNCHANGED <<pc, can_lock, hw, mode, own, resetOut>>

\* slip: everything that sends is stopped
RescanStopsAll ==
  /\ MainAt("op") /\ Timer \notin suspended
  /\ suspended' = Tasks \ {Main}
  /\ mode' = "reset" /\ resetOut' = FALSE
  /\ UNCHANGED <<pc, can_lock, hw, own>>

\* master_rescan: master_stop_tasks, then setState(Pre_operational)
Rescan ==
  /\ MainAt("op") /\ Timer \notin suspended
  /\ suspended' = suspended \cup {Tpdo}
  /\ mode' = "reset" /\ resetOut' = FALSE
  /\ UNCHANGED <<pc, can_lock, hw, own>>

\* slip: TPDO is resumed only if the nodes could be reset
OperateIfReset ==
  /\ MainAt("scan")
  /\ suspended' = IF resetOut THEN suspended \ {Tpdo} ELSE suspended
  /\ mode' = "start"
  /\ UNCHANGED <<pc, can_lock, hw, own, resetOut>>

\* master_start_tasks, at the end of Master_preOperational
Operate ==
  /\ MainAt("scan")
  /\ suspended' = suspended \ {Tpdo}
  /\ mode' = "start"
  /\ UNCHANGED <<pc, can_lock, hw, own, resetOut>>

\* setState(Operational) returns
Started ==
  /\ MainAt("start")
  /\ mode' = "op"
  /\ UNCHANGED <<pc, can_lock, hw, suspended, own, resetOut>>

----------------------------------------------------------------------------
Inside(t) == Lock(t) \/ Write(t) \/ Request(t) \/ Take(t) \/ Return(t)

Next == \/ \E t \in Tasks : Test(t) \/ Refuse(t) \/ Inside(t)
        \/ Load \/ Complete
        \/ StartTimerLoop \/ Rescan \/ Operate \/ Started

Spec == Init /\ [][Next]_vars

(* A task that can run does; another node is on the bus and acknowledges;    *)
(* MAIN goes on from the reset to the scan, and the scan ends (IOScan).      *)
SendReset == mode = "reset" /\ (Test(Main) \/ Refuse(Main))

Fairness == /\ \A t \in Tasks : WF_vars(Inside(t))
            /\ WF_vars(SendReset)
            /\ WF_vars(Load) /\ WF_vars(Complete) /\ WF_vars(Operate)

FairSpec == Spec /\ Fairness

----------------------------------------------------------------------------
(* Properties *)

\* The buffer and the semaphore serve one call at a time, although can_lock
\* is a plain flag and any task may preempt another inside canSend.
OneSender == \A t, u \in Tasks : pc[t] # "idle" /\ pc[u] # "idle" => t = u

\* A call returns 0 only when its own frame has been on the bus: the
\* completion it took is never another call's, or one left by an earlier call.
SentMeansSent == \A t \in Tasks : pc[t] = "sent" => t \in own

\* While a transmission is requested, the buffer holds the frame of the one
\* task that waits for it, suspended or not.
BufferKept ==
  pending => \E t \in Tasks : pc[t] = "waiting" /\ buffer = t /\ wire \in {None, t}

\* Every call returns, that of a TPDO suspended inside it too, as long as
\* nothing wakes in the gap and the bus acknowledges.
CallReturns == \A t \in Tasks : pc[t] # "idle" ~> pc[t] = "idle"

\* "Reset all nodes" (Master.c:563): the nodes got the NMT reset before the
\* scan asks them who they are.
NodesReset == mode = "scan" => resetOut
=============================================================================
