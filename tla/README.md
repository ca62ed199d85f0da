# TLA+ models of the GSCoupler AM243x (CANopen master + EtherNet/IP / EtherCAT coupler)

The coupler runs on two Cortex-R5F cores. Core 0 is a CANopen master: it scans
the bus for I/O modules, configures them and exchanges process data with them.
Core 1 is the device a PLC sees: an EtherNet/IP adapter (or an EtherCAT
subdevice) with an embedded web server. The two talk only through a structure
in shared RAM, `gSharedMem`, under one lock. This directory holds TLA+
specifications of that system, the TLC configurations that check them on small
instances, and TLAPS proofs.

Paths below are relative to `src/`; `Core0/` stands for `Core0_CANopen_AM243/`
and `EIP/` for `Core1_CouplerEIP_AM243/`.

## 1. Inventory

| Component | Where | State | Operations | What is hard, and what makes it correct |
|---|---|---|---|---|
| Shared-memory lock | `Core0/ipc_shareMem.c` (compiled by both cores) | a mutex per core, one hardware spinlock bit, the L1 caches (the region is cached, nothing keeps the copies coherent) | `app_ipc_sharemem_lock`, `_unlock`, `init_ipc_sharemem` | Two cores and several tasks of strict priorities; line-by-line invalidate and write-back. Sections exclude each other, never spin against a task of their own core, see the last value written, leave nothing unwritten. |
| Network scan | `Core0/coupler_master/IOCoupler.c`, client side of `canopenmaster/src/sdo.c` | `scanState`, `currentNode`, the identity globals, the SDO client lines, the device table | `IOCoupler_scan_task` each ms in MAIN; six SDO callbacks in RPDO | Callbacks preempt the task that sent the request; answers lost, late, aborted, early. The table is true, sorted, densely indexed; the scan ends. |
| Scan request | `EIP/webserver/gspws_js.h`, `EIP/webserver/web_server.c`, `Core0/coupler_master/Master.c` | `ws_cmd`, `ws_scan_status`, `master_state`, `active_protocol` on one cache line; the page's state | button and polling; POST and GET handlers; `master_loop`, `master_rescan`, `Master_preOperational` | Command read in one section and cleared in another; unlocked writes to the same line; RAM not cleared at reset. No accepted command is lost; completion is of the scan asked for. |
| CAN driver, sending | `Core0/driver/candrv.c`, callers in `Master.c` and the stack | `can_lock`, transmit buffer 0, `gMcanTxDoneSem`, suspended tasks | `canSend`, transmit interrupt, task suspension | Test-then-set flag, one semaphore for all, a task suspended inside. A call that reports success has sent its frame; every call returns. |
| CAN driver, receiving | `Core0/driver/candrv.c` | receive FIFOs, 1000-entry queue | interrupt, `canRecv_Task`, `RecvPDOLoop` | Overflow drops frames; a binary semaphore for both FIFOs. |
| Output path | `Core0/coupler_master/Master.c` (`SendPDOLoop`), `canopenmaster/src/pdo.c` | process data, `last_message` per PDO | `sendOnePDOevent`, `sendPdo` | Outputs are sent on change only and the result of `canSend` is dropped. A module ends up with the last output value. |
| Process image | `Core0/coupler_master/Master.c` 122-367 | `IO_slave_data`, offsets, `buff_in`, `buff_out` | `BuildProcessImage`, `UpdateInputProcessImage`, `UpdateOutputModules`, ECAT sync | Table filled by node id, read by slot; byte offsets. No two modules share bytes; each pointer belongs to its module. |
| Slave configuration | `Core0/coupler_master/Master.c` 777-954, `IOCoupler.c` 450-830 | `init_step[]`, SDO line, `NMTable` | `ConfigureSlaveNode` chain, `CheckSDOAndContinue`, `Reconfigure_slave` | Chain driven by callbacks in the task that delays. A node that is started is configured. |
| Slave monitoring, NMT | `Master.c` 539-752, `canopenmaster/src/{lifegrd,emcy,states,nmtMaster,nmtSlave,sync}.c` | node states, error words, heartbeat timers | heartbeat, EMCY, boot-up and state-change callbacks | Callbacks of RPDO and TIMER overwrite each other's error; consumers of an old scan keep running. |
| SDO lines | `canopenmaster/src/sdo.c` | transfers, timeouts | segmented and block transfers, client and server | Line claimed by find-then-init from two tasks; timeout races a late answer. |
| Timer table | `canopenmaster/src/timer.c`, `driver/timerdrv.c` | alarm table, `StartTimerLoop` | `SetAlarm`, `DelAlarm`, `TimeDispatch` | Three tasks without a lock. |
| Object dictionary | `canopenmaster/src/{ODMaster,objacces,dcf}.c` | generated tables | table access | Sequential data. |
| EtherNet/IP adapter | `EIP/app_task.c`, `app.c`, `device_profiles/` | attributes, NVM copy | start-up, run loop, resets, configuration saving | Closed stack; reset against pending saving. |
| EtherCAT subdevice | `Core1_CouplerECAT_AM243/` | module table (`mdp.c`), FoE, EoE, EEPROM emulation | stack callbacks | Closed stack; mostly vendor demo code. |
| Vendored / examples | drivers, LSS, `mcan_loopback_interrupt.c` | - | - | Not part of the coupler's own logic. |

How they interact. On core 0 FreeRTOS runs MAIN < TIMER < TPDO < RPDO < CAN_RX
(`Master.c:82-88`). MAIN starts the scan and waits in it; the answers come from
the interrupt through CAN_RX's queue to RPDO, which runs the SDO callbacks; TPDO
sends outputs every millisecond and is suspended during a rescan; TIMER fires
the CANopen alarms. All send through `canSend`. Core 1's stack and web-server
tasks read the device table and status words and write `ws_cmd`.

The hazards of this code, each with its line and the properties that cover it,
are listed in `PROJECT.json`.

## 2. Modules

| Module | Models | Checked by | Proofs |
|---|---|---|---|
| `SharedSections` | the promise of the lock: one atomic memory with one lock | property `Implements` of `ShmLock` | |
| `ShmLock` | `app_ipc_sharemem_lock/unlock` with mutex, spinlock and caches | `MCShmLock` | `ShmLock_proofs` |
| `IOScan` | the network scan | `MCIOScan` | `IOScan_proofs` |
| `ScanRequest` | page, web server and MAIN on one cache line | `MCScanRequest` | `ScanRequest_proofs` |
| `CanTx` | `canSend`, its callers and the rescan's suspension | `MCCanTx` | `CanTx_proofs` |
| `Outputs` (extends `CanTx`) | the process image and the output path: placing, copying, `SendPDOLoop`, `PDOInit`, `sendOnePDOevent` | `MCOutputs` | `Outputs_proofs` |
| `Station` | one module as the coupler follows it: monitoring, emergencies, configuration, return after a loss | `MCStation` | `Station_proofs` |
| `SdoTransfer` | SDO lines and transfers, expedited and in segments, client against server | `MCSdoTransfer` | `SdoTransfer_proofs` |
| `Alarms` | the promise of the alarm table | property `Implements` of `TimerTable` | |
| `TimerTable` | `SetAlarm`, `DelAlarm`, `TimeDispatch` and the users of the table | `MCTimerTable` | `TimerTable_proofs` |

Operators whose comment starts with "slip:" are not part of a specification.
Each is the definition that follows it as a plausible bug would have written it;
putting it in that definition's place makes a checked property fail
(`PROJECT.json`, `mutants`).

### ShmLock and SharedSections

A task's `pc` walks through the lock: `idle` - `pend` (mutex) - `spin`
(spinlock) - `inv` (`CacheP_inv`, one line a step) - `cs` - `wb` (`CacheP_wb`)
- `post` - `idle`. `cache`, `dirty` and `mem` are the two levels of memory.
`Evict` writes a dirty line back at any time, as the hardware may. Lines in
`Poked` are also written without the lock, like `active_protocol`
(`generic_device.c:225`); `Peek` is an unlocked read. The refinement maps the
owner to the task in a section, the store to what that task's core sees, or the
RAM when nobody is in.

### IOScan

One action per `case` of `IOCoupler_scan_task`; `Answer` is the six callbacks,
one disjunct of `Got` each. `Plug` exchanges a module before a scan. `pc` is where
MAIN can be preempted inside the task: `sent`, the request is out but
`scanState = SCAN_WAIT` not stored (`IOCoupler.c:346-352`); `expired`, the
deadline has been tested true but the transfer not yet closed (434-436).
Timings are the constant `Faults`: `early` (answered before SCAN_WAIT is
stored), `late` (after the deadline), `lost`, `abort` (also an answer that does
not fit), `busy` (`canSend` refuses). A read value is the node it came from, so
"the entry is made of one device's data" can be stated; the vendor and product
checks use what is connected at that node (`kind`). The SDO timeout (3 s,
`config.h:34`) never fires during a scan, whose deadlines are 0.5 s and 1 s and
close the transfer, so it is absent. A table entry that `put_slave_info` would
not write because the table is full leaves the lock taken (104-106): `leaked`.
`asked`, `missed` and `untimely` are history variables: the nodes whose vendor the
scan set out to read; those a request to which was refused, failed or still open
when the deadline closed it (`Unanswered`); and those an answer of which was handled
while MAIN was at `sent` or `expired`.

An untimely answer may cost a node its place, in two ways. The node itself: MAIN
stores `SCAN_WAIT` over the state the callback set, or goes on to the next node over
it. And after the last answer, the firmware version, the next node: the callback has
moved on to it (426-428) and the deadline moves on once more (438-439), so that it
is not asked. `CompleteScan` excepts these and no others: a node that answered in
time is listed unless the node before it was untimely and it was itself not asked.
A refused, failed or lost request costs nobody but its own node.

### ScanRequest

`main` is MAIN's next section, `client` what each page does, `eip` core 1's
start-up. A locked section is two steps, lock with invalidation, then work with
write-back: `ShmLock` shows that nothing finer can be seen by sections, and
evictions and unlocked accesses may still come between the two. The four
words are one line because `ipc_system_t` places them within 32 bytes
(`ipc_shareMem.h:226-243`), the L1 line of the R5F. `Left` is what the RAM may
hold at power on: the section is NOLOAD (`CANopen_Master.syscfg:222-229`) and no
code waits for the other core before the first section. `Early` are the
pages that may be used before the first scan is over.

### CanTx

`pc` follows `canSend`: `tested` (155-157), `locked` (158), `written`
(`MCAN_writeMsgRam`), `waiting` (232), `sent`. Scheduling is strict: `Runs(t)`
holds when no task of higher priority is ready; an idle task may wake at any
time, except, when `Gap` is FALSE, between the test of `can_lock` and its
setting. The controller loads the buffer when it begins to send and ignores a
request for a buffer already pending. `Rescan` suspends TPDO wherever it is,
`Operate` resumes it; MAIN then sends every output once before it is operational
(mode `start`, ended by `Started`). `own` and `resetOut` are history variables.

### Outputs

A composition: `NextIO` is `CanTx`'s steps, each with what it does to the process
data, and steps of its own that leave `CanTx`'s variables alone. `Configure` is
the end of a scan: a table out of `Layouts`, the record of each node's object
(`Linked`, by node) and TPDO resumed. TPDO's pass is `Wake` - `Copy` - one slot a
step (`Skip`, or `Build` - `Store` - `CallSend` - the steps of `canSend` -
`SendReturns`, or `SendRefused`) - `vTaskDelay`. MAIN goes through every output by
the same actions in `PDOInit`, between `SetOperational` and `Operational`; that TPDO
runs already is why one task may build a PDO, be preempted, and send it after a
newer one (`Overtakes`). `May` keeps MAIN out while TPDO is in its pass and not
waiting. The channels of a module are one datum; a datum is known by its bytes
in the image (`Written`) or its module (`From`). `copied`, `spoilt` and `shown` are
history variables. `PlcWrite` writes one word at a time where the code copies the
whole buffer, which gives the finer interleavings.

What reading and checking it showed, beside its properties. `IO_slave_data` is
filled at `nodeId-1` (`IOCoupler.c:553`, `596`, `635`, `685`, `734`) and read at the
slot of the table (`Master.c:135-156`, `177-198`, `511`). With every address from 1
on in use the two are the same. With a hole, as when a module in the middle was
missing during the scan, they are not: TLC refutes `OutputsFollow` and `OwnData`
for the layout `<<DO 1, DO 3>>`. Layouts of the run have no hole. The records, and
the objects' values, survive a rescan. A refused PDO has been stored as sent, and
a module that restarted alone gets no PDO, so either stays behind until the PLC
changes the output (`spoilt`). Analog outputs are sent once, by `PDOInit`, and never
again (`SendPDOLoop` skips all but DO16), which is why the run's `Driven` and
`OutputsFollow` are about DO16. RTD inputs are not copied under EtherNet/IP, which
also copies only 2 bytes per module of each buffer (`MAX_INPUT_SIZE_BYTES`).

### Station

The module (`mode`, `conf`) may be switched off and on, raises and clears an
emergency, sends heartbeats and answers; `net` holds its frames in the receive
queue. The coupler's side is the stack's `NMTable`, the record in the device table
(`nodeState`, `err`), the consumer and its alarm (`watched`, `alarm`), and the
configuration chain (`step` is `init_step`, `sdo` says whether the module's SDO line
is in use). `Heard` and `Reconfigure` are `proceedNODE_GUARD` with both of its
callbacks: the record is written when the state heard differs from `NMTable`, or by a
boot-up (`lifegrd.c:129-147`), and not by any other heartbeat. A module that was heard
in one state before it was listed and is heard in the same one after has a record
that still says `Initialisation`; `TablesAgree` is about the time since the record
was first written (`recorded`). `Reconfigure_slave` is three steps, for RPDO sleeps
in it and TIMER and MAIN run meanwhile. `ConsumerHeartbeatAlarm` is three steps too
(`ring`), for RPDO preempts TIMER: the state, the record's state with the test for an
emergency, the error. MAIN maps, configures and starts the module as
`Master_preOperational` does. `Returns` is the condition under which a module that is
heard again is configured again (`Master.c:733`).

Any frame of the coupler may be refused: `canSend` returns -1 while another task is
in it (`candrv.c:155-157`). Nobody looks at the result: not of the commands
(`Master.c:588`, 781, 790), nor of the four writes (862, 883, 897, 924, 940); a
refused write frees its line (`sdo.c:1981-1987`) and no callback follows. So a frame
refused at step 2 or 3 leaves the module's PDO disabled with nothing under way, and
a refused start leaves it pre-operational. `refused` remembers the frames not sent
of the configuration last begun; `NeverLeftDisabled` and `BackInService` except them,
and show that nothing else has that effect, whichever tasks take the steps.

`Init` is a module the scan has just listed, on the first scan or on a later one
(`rescan`). `NMTable` may hold any state: a boot-up heard before it was listed, or
`Disconnected` by an alarm that rang during a rescan. If the NMT reset was refused
(565) the module is still as an earlier configuration left it. On a rescan TIMER
runs throughout, and a consumer from before may run for the module; on the first it
starts when MAIN is done (1149).

What reading and checking it showed, beside its properties. The REBOOT branch of
`Master_post_SlaveBootup` is never taken: the state-change callback runs first
and leaves another state. A module that reboots within its heartbeat time is in
the wrong mode (`Master.c:741`), is not configured, and its next heartbeat clears
the error. An emergency outstanding when a module is lost keeps its place, so
that module is not configured when it returns; and clearing an emergency
clears the loss it hid (which is why `LossReported` is about `nodeState`). An
alarm interrupted by a late heartbeat of its module leaves the heartbeat error on
a module that works; `master_set_IOerror` tests for an emergency in one place
and writes in another (`Master.c:1126-1133`), and may so overwrite one. A module
lost between the scan and its first heartbeat after `ODMaster_configure_PDO` has
no alarm yet and is not reported. Each `Reconfigure_slave` keeps RPDO for 275 ms;
19 modules that return together take longer than the 5 s after which a module is
taken for lost. On a rescan MAIN's step may meet a chain that RPDO has begun: its
write finds the line used and is not sent, the step counts all the same, and the
answer takes the one after it.

### SdoTransfer

`lines` is the client part of `d->transfers`; `peer` the server's line of each
module, which is this same file's server half standing for the modules; `req` and
`rsp` the frames between. An object is a sequence of segments; one segment is
an expedited transfer. `Ends` is the end of a transfer with its callback: the result
is fetched, the transfer closed, and the next one perhaps begun, as the scan's and
the configuration's callbacks do. `Unexpected` is `failedSDO`, `GiveUp` the scan's
own deadline. `SDOTimeoutAlarm` is two steps, `Timeout` (the line is aborted and the
abort sent) and `TimedOut` (the callback): TIMER waits in `canSend` for the abort,
with `can_lock` taken, so that no other task sends then, but RPDO may run after it,
end another transfer and begin one, also with the same module, whose aborted line is
no longer in use. `rung` is the alarm between the two steps. The callback closes the
module's first line that is not free, which may be that of the transfer begun
meanwhile; the caller of that one is then told by this callback only. The abort is
refused when another task is in `canSend`: the frame is one of those that are lost.
An answer carries no name of
its object that the client looks at; with `Late = FALSE` a transfer with a module
begins only when no frame of the one before is under way, which the 3 s timeout
makes likely and nothing guarantees. `Late = TRUE` is the code as it is.

### TimerTable and Alarms

`tb` is the table with `last_timer_raw`, `total_sleep_time` and `NextTime`;
`handle` is what the owners hold. TIMER goes `out` - `age` (first run of
`TimeDispatch`) - `trig` - `ring` (a callback is called) - `trig`. `SetAlarm` of MAIN
is two steps, `Find` and `Store`, so that with `Preempt = TRUE` another task may come
between. Time is counted in ticks; a poll is at most `Lag` ticks late. Before
`StartTimerLoop` is the first scan (`boot`): SYNC is set before it and stopped after
it, and TIMER does not run. `StartTimerLoop(NULL)` sets no alarm, as a NULL
callback is not stored.

The dispatch ages each row by the sleep that was asked for plus the time since
the poll began; what the poll itself was late by is lost. `LateBound` is what that
adds up to. The table has 32 rows for 20 consumers, SYNC and 32 SDO lines:
`SetAlarm` may return `TIMER_NONE`, and nothing acts on it (the transfer has no
timeout, the module no alarm); `Implements` says that it happens only when the
table is full. `Preempt = FALSE` is an assumption the code does not enforce. With
`Preempt = TRUE` TLC refutes `OwnHandle` in five steps: MAIN has found row r for an
SDO line, RPDO renews a heartbeat alarm and takes r, MAIN stores its alarm there.
Or TIMER frees a row for which the owner still has the handle, RPDO takes it, and
deletes it by the old handle, in spite of the comment at `lifegrd.c:72-73`.

## 3. Runs

Passing runs:

| Run | Instance | Shows |
|---|---|---|
| `lock` | 2 tasks on core 0, 1 on core 1, 2 lines (one also written unlocked), 2 values; fair | `NothingLeftDirty`, `Coherence`; `Implements`, the refinement of `SharedSections`, which has mutual exclusion; `LockProgress` (332 000 states) |
| `scan` | 3 addresses, all kinds, all faults; fair | the table is sorted, dense, each entry of one device; answers matched by node alone are safe; the lock is not leaked; a device that answered in time is listed with both versions, unless it was stepped over after an untimely answer of the one before; the scan ends (1 643 000 states) |
| `request` | 2 pages, one of them used before the first scan is over, cleared RAM; fair | an accepted command is in RAM until MAIN takes it and is followed by a finished scan that began after it; completion is of the page's own scan, for a page first used after the first scan; `master_state` 1 means the table is built (29 000 states) |
| `send` | RPDO, TPDO, TIMER, MAIN; no waking in the gap; fair | success means sent, the buffer is kept, every call returns, also that of a TPDO suspended inside (501 states) |
| `outputs` | layouts `<<AO 1, DI 2, DO 3>>` and `<<DO 1, RTD 2>>`, both protocols, TPDO and MAIN send; no waking in the gap | after a pass of TPDO each digital output is what the PLC wrote, unless its PDO was refused or overtaken or it restarted; no module's data is taken for another's (700 000 states) |
| `station` | one module, 1 frame of its own waiting beside its answers, first scan and rescan, any frame of the coupler refused; fair | the two records of its state agree outside the alarm, once written; its PDO is left disabled only by a frame not sent; a return after a reported loss ends with the module configured and operational, lost again, or with a frame not sent; a module gone for good is shown as disconnected (360 000 states) |
| `sdo` | 1 module, 2 lines, an expedited and a two-segment object, 2 messages under way at a timeout, `Late = FALSE`; fair | objects and read results are never torn, a finished write is done, each transfer ends, also when another is begun between a timeout and its callback, and its line is returned (21 000 states) |
| `timers` | 3 rows, 4 owners (a consumer, 2 lines, SYNC), `Lag` 1, `Boot` 2, `Preempt = FALSE` | a handle names its owner's row, TIMER wakes in time, lateness is bounded; `Implements`, the refinement of `Alarms` (2 460 000 states) |

Runs that must find a violation; each is a finding in `PROJECT.json`:

| Run | Property | What the code does |
|---|---|---|
| `scan_early_answer` | `EveryNodeAsked` | The firmware-version callback may run before MAIN stores `SCAN_WAIT`; MAIN then waits for nothing, and its deadline steps over the next address (`IOCoupler.c:426-428`). With `Faults = {"late"}` TLC finds the same: the callback runs between the deadline test and the closing of the transfer (434-436). `AllAsked` says that nothing else can do it. |
| `request_false_busy` | `BusyMeansRunning` | The unlocked write of `active_protocol` leaves a dirty copy of the line on core 1; its eviction can bring RUNNING (and `master_state` 0) back after the scan is over, and every later request is refused. |
| `rescan_unheard` | `NodesReset` | If TPDO is suspended while it waits in `canSend`, `can_lock` stays set for the whole rescan: the NMT reset and every SDO of the scan are refused and the scan finds nothing. In that run only TPDO and MAIN send, so nothing else can be the cause. |
| `sdo_callback` | `CallbackAtEnd` | A late answer to a read that timed out makes `failedSDO` abort the write begun since; its callback is not called and its timeout is stopped (`sdo.c:416-440`, against `sdo.h:321`). |

Five differences are not in a run of their own. `can_lock` is tested
(`candrv.c:155`) and then set (158): with `Gap = TRUE` in `MCCanTx.cfg` TLC refutes
`SentMeansSent`. A task that wakes in between shares the buffer, and a call returns
0 for a frame never sent, where `sdo.h:263-268` promises `canSend`'s result. `CompletionIsReal` leaves out the
pages in `Early`: a click in the 17 s before the first scan reports RUNNING is
accepted (`web_server.c:634-648`), and the page takes the end of that first scan
for its own, whose scan is still to come (`RequestServed` says it does come).
And the comment at `gspws_js.h:506` says the page polls "max 15s, 500ms
intervals"; the code polls each second for 60 s. The comments "Re-enable Slave's PDO"
(`Master.c:912`) and "Continue the configuration" (816) describe a chain that a frame
refused by `canSend` ends in silence (section 2, Station). `IO_slave_data` is filled
by node and read by slot (section 2, Outputs).

Bounds and why they are enough. The lock is symmetric in tasks and lines and
has two levels: two tasks contending for the mutex and one on the other side
contending for the spinlock are the first instance in which both levels have a
waiter; the proofs cover the rest. Three node addresses give a first, a middle
and a last one, and two devices of one direction beside one of the other, which
is what indexes and order can get wrong; the proofs hold for any `MaxDev`. Two
pages let one ask while the other's scan is awaited or running. The four senders
of `CanTx` are all there are. In `Outputs` a refusal by another sender is like one
by MAIN or TPDO, so these two are enough; the tables have an input between
outputs, a wide module before a narrow one of its side, and a module whose place,
object and protocol differ after a rescan. One frame waiting beside the
answers lets a heartbeat or an emergency meet an answer of the module in `Station`;
the proofs hold for any number. Two
segments are a first and a last one, and with one module a second line is there
to be taken by mistake; modules share nothing in `sdo.c` but the pool of lines.
Three rows for four owners let the table be full, and the values 2 and 3 let an
alarm be set that is sooner, as soon and later than the sleep under way. `Flight`,
`Waiting`, `Lag` and `Boot` bound guards; no run limits its states otherwise.

Fairness. `LockProgress`: each task goes on with the step of the lock it is
at, and a section ends (weak fairness of both); that some task gets in needs no
more. That a given task does would: nothing in the code orders the two cores'
attempts at the spinlock, and the property does not claim it. `ScanEnds`: MAIN is
called after each `vTaskDelay(1)`, the clock passes every deadline, an answer not
lost arrives. `RequestServed`: MAIN's steps, strongly for its taking of the
lock, since the sections of core 1 are microseconds long and separated by ticks.
`CallReturns`: a task that can run does, another node on the bus acknowledges
frames, MAIN goes on from the NMT reset to the scan and ends it. In `Station`,
RPDO, the highest of the tasks there, runs when it can; its queue is
empty again and again, since frames are few and short beside its time. TIMER's
steps together are strongly fair, and so are MAIN's, since each of these tasks runs
whenever those above it wait, which they do again and again; and the alarm of a
module that is off rings in the end. In `SdoTransfer` both sides handle
the frames they have, an alarm rings, and TIMER calls back for it. Clicks, evictions, faults, power and
new frames are never fair.

## 4. Proofs

All theorems hold for every value of the constants under the named ASSUMEs of
the module, which TLC evaluates in the runs.

- `ShmLock_proofs`. The inductive invariant says who owns the mutex and the
  spinlock at each `pc`, that a task between them is alone in `Held`, that lines
  already invalidated are absent or equal to the RAM, and that dirty guarded
  lines belong to the core in a section. Without the last two `Coherence` is
  not inductive: an eviction before the section could change what it reads.
  From it follow `TypeCorrect`, `SectionsExclusive`, `NeverSpinsOnOwnCore`,
  `WritesReachMemory`, `CachesCoherent`, and step by step `Implementation`.
- `IOScan_proofs`. The invariant ties the open SDO line to the current node and
  stage, bounds `currentNode`, keeps table entries at or below it (strictly
  below before the serial number is read, whence the table never fills), keeps
  the identity globals equal to the current node at each later stage, and keeps
  requests off the bus to nodes not reached. From it: `TypeCorrect`,
  `LockNeverLeaked`, `SortedTable`, `OwnIdentity`, `OnlyIOListed`,
  `AnswersMatched`, `OneTransferAtATime`. Two further parts carry the other two
  invariants. `DenseInv`: the indexes in use in each of the table's two index columns are
  1 to the counter of that kind, each used once, whence `DenseIndexes`
  (`IndexesDense`). `DoneInv`: each node below the current one that is
  plugged and answered in time is listed, or was passed unasked after an untimely
  answer of its neighbour, and for the current one the stage tells how far it has
  come, whence `ScanComplete` (`CompleteScan`); it needs that a wait
  with no line open is for a node in trouble or being overtaken (`WaitInv`), and that
  no node ahead was asked (`SeenInv`). `TimelyScan` is the simpler
  statement for a scan without `early` and `late` answers: every device none of whose
  requests went wrong is listed. `AllAsked`
  (`EveryNodeAsked`) assumes that no answer is `early` and none `late`; requests may
  be refused, lost and aborted at will. `AskedInv` says that the nodes asked are
  those up to the current one, without it while its vendor is still to be asked for.
  With `early` alone or `late` alone the property is false.
- `ScanRequest_proofs`. `TypeCorrect` and `AcceptedNeverForgotten`
  (`CommandKept`), for any number of pages and any contents of the RAM.
  `OperationalIsBuilt` and `CompletionOfOwnScan` assume that the RAM holds no
  command and no operational master at power on; without it both are false. Their
  invariant says which copies of the line may still be written to RAM and how old
  each word in them may be (`FreshInv`, `StateInv`, `StatusInv`), and that nothing a
  page asked has reached core 0 while core 1 holds its unlocked write.
- `CanTx_proofs`. `TypeCorrect` for the code as it is; `OneCallAtATime`,
  `FramesSent` and `BufferNeverTouched` under `~Gap`, for any number of tasks. The invariant follows the
  one frame from the buffer over the wire to the semaphore. What is proved is
  thus that the gap is all that is wrong with the sharing: priorities,
  preemption elsewhere and suspension inside do no harm to it.

- `Outputs_proofs`. `UsesDriver`: the composition implements `CanTx`, step by
  step, so `PdoSent` carries `FramesSent` and `BufferNeverTouched` over to it. The
  rest is for any layouts whose rows rise with the node number (`LayoutsAssumption`;
  that a scan makes no other is `SortedTable` of `IOScan_proofs`), any number of slots
  and rescans, and any kinds among the outputs as `Driven`. `OutputsTypeCorrect`
  needs `Places4`: at which slot each of the two passes is in each mode, and that
  nothing counts as sent during a scan. `DataIsOwn` (`OwnData`) assumes `NoHole`:
  the module at slot i has node number i. `DataInv` says that each record names its
  module's own object, that the bytes at a place were written there, that the
  objects TPDO has copied hold their own bytes (objects outlive tables, which is why
  this is about those of the present one), that a PDO of TPDO is that of its slot,
  and that the bytes of a shown input came from its module. `OutputsReachModules`
  (`OutputsFollow`) assumes `NoHole` and `~Gap`. Its invariant `FollowInv` follows
  each PDO by three further parts. `OwnInv`: a frame that was on the bus waits for its
  completion to be taken, or is sent. `CopiedInv`: since TPDO copied, each object
  holds what the PLC wrote, what counts as sent to a module TPDO has passed is that,
  and so is the PDO at hand. `SentInv`: what counts as sent to a module comes after
  all that is on its way to it, and if nothing is, the module has got it. Without
  the last one a frame still waiting could be the newer or the older one.
  `NoHole` is a real restriction, not one the code ensures: with a hole both
  properties are false (section 2), and so is `OutputsFollow` with `Gap`. Each part was
  checked as an invariant of `MCOutputs` before it was proved.
- `Station_proofs`. `TypeCorrect`, `RecordsAgree` (`TablesAgree`) and
  `PdoEnabledAgain` (`NeverLeftDisabled`), for any number of waiting frames, with
  every frame of the coupler refused or not. The invariant adds to the types that a
  transfer is under way only for a module that has writes, and how far the steps have
  come before MAIN takes its own (`ChainInv`), that a module that is off, and an RTD
  module, has its fresh configuration (`ConfInv`), that an alarm is that of a
  consumer (`AlarmInv`), and that the record, once written, agrees with `NMTable`
  except between the first two steps of the alarm (`RecordInv`). `ConfigureStep` is
  the lemma about a step of the chain, taken by any task, sent or not.
- `TimerTable_proofs`. `TypeCorrect` for any `Preempt`; `RowsOwned` (`OwnHandle`) and
  `WakesInTime` (`WakeInTime`) under `~Preempt`, for any owners, rows, lateness.
  `Timed` says that no alarm lies beyond what may be asked of the hardware timer
  and none is sooner than the sleep under way; `MainInv` what MAIN relies on between
  `Find` and `Store`; `DispatchInv` that no time passes in a dispatch and that a SYNC
  row is armed again before its callback. `LateBounded` (`LateBound`) needs all
  of `LateInv`, which adds two parts. `RowsInv`: a row in use is backed by a handle of
  its owner, and where the dispatch has still to look. `ClockInv`: TIMER oversleeps by
  no more than `Lag`, or `Boot` before its first pass, and each alarm's age is in step
  with the time it was set, behind by whole polls of a SYNC row, or waits to be
  called in this dispatch. Without the row part a deleted alarm's row could be
  taken for its old owner's; without the clock part lateness could add up over
  passes. `NeverAssumption` says that no alarm asked for, with what TIMER may oversleep,
  reaches the table's largest time (`TIMEVAL_MAX`, `timerscfg.h:31`). `KeepsPromise`
  is the refinement `Implements` of `Alarms`, step by step; that the table has a
  row as long as the promise has room comes from counting the backed rows
  (`Room`, `Full`). Both under `~Preempt`.
- `SdoTransfer_proofs`. Under `~Late`, for any objects, lengths in segments and
  frames under way: `Agreement`, an invariant that says for each server that at
  most one frame other than an abort is live, and, for each kind it may be, what
  then holds of the server's line, of its dictionary and of the client's line
  (segment counted, toggle, buffer filled so far). `RungOK` adds that between a timeout
  and its callback the aborted line is the one TIMER has in hand, and takes part in no
  transfer. From it `TypeCorrect`,
  `NothingIsTorn` (`NothingTorn`), `LinesReturned` (`LineReturned`, which excepts that
  one line) and the action
  property `WritesAreDone` (`WritesDone`). With `Late` frames the invariant is false,
  as `MCSdoTransfer_late` shows on the code.

Only model-checked: the liveness properties, which are out of the prover's reach
(`LossReported` and `BackInService` of `Station` and `Ended` of `SdoTransfer` are of
that kind). Every invariant and action property of a passing run is the statement of a
theorem, under the hypotheses named above; those hypotheses are the settings of
the runs (`Gap`, `Late`, `Preempt` FALSE, cleared RAM, no hole), and what becomes
false without them is in section 3. `MutualExclusion`, `SpinsAcrossCores`,
`OneSender`, `OnlyIODevices` and `OneTransfer` are proved and in no run.

## 5. Not modelled

The receive path of the driver, but for its one effect, a lost frame, which is a
fault of `IOScan` and `SdoTransfer`. Block transfers, which nothing in the coupler
asks for. Two tasks that claim one SDO line at the same time (a line is claimed in
one step). The writes of the local PDO mapping and the copying of bits between
objects and frames. Inhibit times and PDOs sent on SYNC (no PDO is configured
so), and Modbus (`sync_mb_*`, not built). The master's own node states, beyond what
`Outputs` needs of them. The object dictionary (generated data), LSS (not built),
`dcf.c` (not used), vendor examples and register-level drivers. The EtherNet/IP and
EtherCAT stacks are closed libraries, and what is written around them on core 1
(saved attributes, resets, FoE, EoE, EEPROM emulation, module table) is not modelled
yet. Logging, formatting and page drawing are left out throughout.

## 6. Plan

1. `ConfigStore`: core 1's saved attributes and resets against a pending saving.
2. `MdpMap`: the module table of the EtherCAT subdevice.
3. Lines of `sdo.c` claimed by two tasks at once, and block transfers.
4. Proofs: what `OwnData` still says of a table with holes below it, that is, which
   modules it is true of; `KeepsPromise` with `Preempt` for owners of one task.
