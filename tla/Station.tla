------------------------------ MODULE Station ------------------------------
(***************************************************************************)
(* One module as the coupler follows it (Master.c, lifegrd.c): RPDO handles  *)
(* its heartbeats, emergencies and SDO answers, TIMER the alarm of its       *)
(* heartbeat and the timeout of its transfer, and both of them, and MAIN at  *)
(* start-up, take it through the four writes of its configuration.  The      *)
(* module may be switched off and on at any time.                            *)
(*   RPDO goes before TIMER, TIMER before MAIN: RPDO waits only for frames   *)
(* and in the delays of Reconfigure_slave.  canSend may refuse any frame, for *)
(* another task may be in it (CanTx); the module obeys one that is sent at    *)
(* once (SdoTransfer has the frames).  An alarm of 5 s does not ring while   *)
(* frames of its module wait to be handled.                                  *)
(***************************************************************************)
EXTENDS Naturals, Sequences, SequencesExt

CONSTANT Waiting     \* bound: frames of its own that the module has waiting

ASSUME WaitingAssumption == Waiting \in Nat

VARIABLES
  mode, conf,        \* the module: its state, its configuration
  rtd,               \* its product code is that of an RTD module
  net,               \* its frames in the receive queue
  NMTable,           \* the state it was last heard in
  nodeState, err,    \* its record in the device table: last_error_type, _code
  watched, alarm,    \* has it a consumer of its heartbeat, and is its alarm set?
  step, sdo,         \* init_step; is its SDO line in use?
  rpdo, heard,       \* where RPDO is in Reconfigure_slave, for which heartbeat
  ring,              \* where TIMER is in ConsumerHeartbeatAlarm
  main,              \* where MAIN is in Master_preOperational
  rescan,            \* it is not the first scan: TIMER runs, and old consumers
  refused,           \* history: what was not sent of the configuration last begun
  recorded           \* history: its record was written since the scan listed it

module == <<mode, conf>>
record == <<NMTable, nodeState, err, recorded>>
consumer == <<watched, alarm>>
chain == <<step, sdo, refused>>
tasks == <<rpdo, heard, ring, main>>
fixed == <<rtd, rescan>>
vars == <<module, fixed, net, record, consumer, chain, tasks>>

Beats == {"Initialisation", "Pre_operational", "Operational"}
States == Beats \cup {"Disconnected", "Unknown_state"}
\* "other" is none, or one that nothing asks for: recovered, reboot, wrong mode
Errors == {"EMCY", "TIMEOUT", "other"}

Configurations == [pdo : {"default", "disabled", "enabled"}, type : BOOLEAN, heartbeat : BOOLEAN]
Fresh == [pdo |-> "default", type |-> FALSE, heartbeat |-> FALSE]
Full == [pdo |-> "enabled", type |-> TRUE, heartbeat |-> TRUE]

\* What may be refused: the four writes, and the command to start
Start == 5

TypeOK ==
  /\ mode \in {"off", "Pre_operational", "Operational"} /\ conf \in Configurations
  /\ rtd \in BOOLEAN /\ rescan \in BOOLEAN /\ recorded \in BOOLEAN
  /\ watched \in BOOLEAN /\ alarm \in BOOLEAN /\ sdo \in BOOLEAN
  /\ net \in Seq(Beats \cup {"emcy", "clear", "answer"})
  /\ NMTable \in States /\ nodeState \in States /\ err \in Errors
  /\ step \in 0..6 \cup {99, 100} /\ refused \subseteq 1..Start
  /\ rpdo \in {"idle", "stopped", "configured"} /\ heard \in Beats
  /\ ring \in {"no", "disconnected", "checked"}
  /\ main \in {"scan", "configure", "start", "done"}

\* The scan has listed the module and read its versions.  It may have been heard
\* before, in any state, but not recorded.  If the reset was refused (Master.c:565)
\* it is as an earlier configuration left it, perhaps without the third write.  On
\* a rescan it may have a consumer from before, and that an alarm.
Init ==
  /\ rtd \in BOOLEAN /\ rescan \in BOOLEAN
  /\ mode \in {"Pre_operational", "Operational"} /\ conf \in Configurations
  /\ rtd => conf = Fresh
  /\ refused = IF conf.pdo = "disabled" THEN {3} ELSE {}
  /\ net = <<>>
  /\ NMTable \in States /\ nodeState = "Initialisation" /\ err = "other"
  /\ recorded = FALSE
  /\ watched \in BOOLEAN /\ alarm \in BOOLEAN /\ (alarm => watched)
  /\ ~rescan => NMTable # "Disconnected" /\ ~watched
  /\ step = 0 /\ sdo = FALSE
  /\ rpdo = "idle" /\ heard = "Initialisation" /\ ring = "no" /\ main = "scan"

----------------------------------------------------------------------------
(* The module *)

Sends(f) == Len(Remove(net, "answer")) < Waiting /\ net' = Append(net, f)

ModuleOnly == UNCHANGED <<fixed, record, consumer, chain, tasks>>

PowerOff ==
  /\ mode # "off" /\ mode' = "off" /\ conf' = Fresh
  /\ ModuleOnly /\ UNCHANGED net

PowerOn ==
  /\ mode = "off" /\ mode' = "Pre_operational" /\ Sends("Initialisation")
  /\ ModuleOnly /\ UNCHANGED conf

Beat == mode # "off" /\ Sends(mode) /\ ModuleOnly /\ UNCHANGED module

Emergency ==
  /\ mode # "off" /\ \E f \in {"emcy", "clear"} : Sends(f)
  /\ ModuleOnly /\ UNCHANGED module

----------------------------------------------------------------------------
(* What the tasks share *)

\* masterSendNMTstateChange, if canSend takes it: a module that is off does not
\* obey.
Command(m) == mode' = IF mode = "off" THEN mode ELSE m

\* The command to start is sent, or refused, and nobody looks.
StartNode == \/ Command("Operational") /\ UNCHANGED refused
             \/ UNCHANGED mode /\ refused' = refused \cup {Start}

Written(c, k) == CASE k = 1 -> [c EXCEPT !.pdo = "disabled"]
                   [] k = 2 -> [c EXCEPT !.type = TRUE]
                   [] k = 3 -> [c EXCEPT !.pdo = "enabled"]
                   [] k = 4 -> [c EXCEPT !.heartbeat = TRUE]

\* writeNetworkDictCallBack sends the write of step k: q waits beside the answer.
\* The first step begins the history of refusals anew.
Sent(k, q) ==
  /\ sdo' = TRUE
  /\ refused' = IF k = 1 THEN {} ELSE refused
  /\ IF mode = "off" THEN net' = q /\ UNCHANGED conf
     ELSE net' = Append(q, "answer") /\ conf' = Written(conf, k)

\* Nothing is sent: step k has no write, the line is used, or canSend refuses the
\* frame and the line is free again.  A first step that meets a used line is not
\* lost: the end of that transfer takes the second.
Unsent(k, used, q) ==
  /\ sdo' = used /\ net' = q /\ UNCHANGED conf
  /\ refused' = IF k = 1 THEN IF used \/ rtd THEN {} ELSE {1}
                ELSE refused \cup ({k} \cap 1..4)

\* slip: no step follows the one that disables the PDO
ConfigureSlaveNodeOnce(k, used, q) ==
  /\ step' = k
  /\ IF k = 1 /\ ~used /\ ~rtd THEN Sent(k, q)
     ELSE sdo' = used /\ net' = q /\ UNCHANGED <<conf, refused>>

\* ConfigureSlaveNode takes step k, with frames q waiting; nobody looks whether
\* the write was sent.
ConfigureSlaveNode(k, used, q) ==
  /\ step' = IF rtd /\ k = 1 THEN 99 ELSE k
  /\ \/ k \in 1..4 /\ ~used /\ ~rtd /\ Sent(k, q)
     \/ Unsent(k, used, q)

\* master_set_IOerror keeps an emergency, unless there is no error.
Kept == IF err = "EMCY" THEN err ELSE "other"

----------------------------------------------------------------------------
(* RPDO: proceedNODE_GUARD, proceedEMCY, proceedSDO *)

Next1 == net # <<>> /\ rpdo = "idle"

Takes(f) == Next1 /\ Head(net) = f /\ net' = Tail(net)

\* slip: the table of the stack is left behind
RecognisedHere(s) == NMTable' = NMTable /\ alarm' = watched /\ UNCHANGED watched

\* The end of proceedNODE_GUARD: the state is in the table, the alarm is renewed.
Recognised(s) == NMTable' = s /\ alarm' = watched /\ UNCHANGED watched

Returns == nodeState = "Disconnected" /\ err = "TIMEOUT"

\* Master_post_SlaveStateChange if the state is new, Master_post_SlaveBootup if the
\* module boots, may find that it returns.
Restores(s) == Returns /\ (s = "Initialisation" \/ s \notin {NMTable, "Operational"})

\* The error when state s is new and the module is not configured again by it
StateError(s) ==
  IF nodeState = "Disconnected" /\ s # "Operational" THEN err
  ELSE IF nodeState = "Operational" /\ s # "Operational" THEN Kept
  ELSE "other"

\* A heartbeat of a module that is not configured again by it.  The record is
\* written when the state is new, or by a boot-up of a module that is there.
Heard(s) ==
  /\ Takes(s) /\ ~Restores(s)
  /\ Recognised(s)
  /\ IF s # NMTable THEN err' = StateError(s) /\ nodeState' = s /\ recorded' = TRUE
     ELSE IF s = "Initialisation" /\ nodeState # "Disconnected"
     THEN nodeState' = s /\ recorded' = TRUE /\ UNCHANGED err
     ELSE UNCHANGED <<nodeState, err, recorded>>
  /\ UNCHANGED <<module, fixed, chain, tasks>>

\* ... and of one that is: Reconfigure_slave stops it and waits for 250 ms,
Reconfigure(s) ==
  /\ Takes(s) /\ Restores(s)
  /\ err' = "other" /\ nodeState' = NMTable /\ recorded' = TRUE
  /\ Command("Pre_operational") \/ UNCHANGED mode
  /\ rpdo' = "stopped" /\ heard' = s
  /\ UNCHANGED <<conf, fixed, NMTable, consumer, chain, ring, main>>

\* slip: the steps go on from where they were
ReconfigureWritesOn ==
  /\ rpdo = "stopped" /\ rpdo' = "configured"
  /\ ConfigureSlaveNode(step + 1, sdo, net)
  /\ UNCHANGED <<mode, fixed, record, consumer, heard, ring, main>>

\* ... writes the first object and waits for 20 ms,
ReconfigureWrites ==
  /\ rpdo = "stopped" /\ rpdo' = "configured"
  /\ ConfigureSlaveNode(1, sdo, net)
  /\ UNCHANGED <<mode, fixed, record, consumer, heard, ring, main>>

\* ... starts it, and the heartbeat has been handled.
ReconfigureStarts ==
  /\ rpdo = "configured" /\ rpdo' = "idle" /\ heard' = "Initialisation"
  /\ StartNode
  /\ Recognised(heard) /\ nodeState' = heard /\ recorded' = TRUE
  /\ UNCHANGED <<conf, fixed, net, err, step, sdo, ring, main>>

\* An answer ends the transfer: CheckSDOAndContinue takes the next step.
Answer ==
  /\ Next1 /\ Head(net) = "answer"
  /\ IF sdo THEN ConfigureSlaveNode(step + 1, FALSE, Tail(net))
     ELSE net' = Tail(net) /\ UNCHANGED <<conf, chain>>
  /\ UNCHANGED <<mode, fixed, record, consumer, tasks>>

\* Master_post_emcy
Emcy ==
  /\ \/ Takes("emcy") /\ err' = "EMCY" /\ nodeState' = NMTable /\ recorded' = TRUE
     \/ /\ Takes("clear")
        /\ IF err = "EMCY" THEN err' = "other" /\ nodeState' = NMTable /\ recorded' = TRUE
           ELSE UNCHANGED <<err, nodeState, recorded>>
  /\ UNCHANGED <<module, fixed, NMTable, consumer, chain, tasks>>

----------------------------------------------------------------------------
(* TIMER, which is started when the first scan is over *)

Lower == rpdo # "idle" \/ net = <<>>

TimerRuns == rescan \/ main = "done"

\* ConsumerHeartbeatAlarm: the module is disconnected,
Ring ==
  /\ ring = "no" /\ alarm /\ net = <<>> /\ TimerRuns
  /\ alarm' = FALSE /\ NMTable' = "Disconnected" /\ ring' = "disconnected"
  /\ UNCHANGED <<module, fixed, net, nodeState, err, recorded, watched, chain, rpdo, heard, main>>

\* slip: the emergency is looked at before the record is given the state
RingChecksFirst ==
  /\ ring = "disconnected" /\ Lower
  /\ recorded' = TRUE /\ nodeState' = IF err = "EMCY" THEN nodeState ELSE NMTable
  /\ ring' = IF err = "EMCY" THEN "no" ELSE "checked"
  /\ UNCHANGED <<module, fixed, net, NMTable, err, consumer, chain, rpdo, heard, main>>

\* ... its record is given the state in the table, and is looked at,
RingChecks ==
  /\ ring = "disconnected" /\ Lower
  /\ recorded' = TRUE /\ nodeState' = NMTable
  /\ ring' = IF err = "EMCY" THEN "no" ELSE "checked"
  /\ UNCHANGED <<module, fixed, net, NMTable, err, consumer, chain, rpdo, heard, main>>

\* ... and the error is recorded.
RingRecords ==
  /\ ring = "checked" /\ Lower
  /\ err' = "TIMEOUT" /\ ring' = "no"
  /\ UNCHANGED <<module, fixed, net, NMTable, nodeState, recorded, consumer, chain, rpdo, heard, main>>

\* SDOTimeoutAlarm, of a transfer that will not be answered
Timeout ==
  /\ ring = "no" /\ Lower /\ TimerRuns
  /\ sdo /\ ~Contains(net, "answer")
  /\ ConfigureSlaveNode(step + 1, FALSE, net)
  /\ UNCHANGED <<mode, fixed, record, consumer, tasks>>

----------------------------------------------------------------------------
(* MAIN: the rest of Master_preOperational *)

Main == ring = "no" /\ Lower /\ UNCHANGED <<fixed, record, rpdo, heard, ring>>

\* ODMaster_configure_PDO gives the module a consumer.  On a rescan the timer of
\* that consumer may be running for the module that had it.
MainMaps ==
  /\ Main /\ main = "scan" /\ main' = "configure"
  /\ watched' = TRUE /\ alarm' \in IF rescan THEN BOOLEAN ELSE {alarm}
  /\ UNCHANGED <<mode, conf, net, chain>>

MainConfigures ==
  /\ Main /\ main = "configure" /\ main' = "start"
  /\ ConfigureSlaveNode(step + 1, sdo, net)
  /\ UNCHANGED <<mode, consumer>>

MainStarts ==
  /\ Main /\ main = "start" /\ main' = "done"
  /\ StartNode
  /\ UNCHANGED <<conf, net, step, sdo, consumer>>

----------------------------------------------------------------------------
Rpdo == \/ \E s \in Beats : Heard(s) \/ Reconfigure(s)
        \/ ReconfigureWrites \/ ReconfigureStarts \/ Answer \/ Emcy

TimerTask == Ring \/ RingChecks \/ RingRecords \/ Timeout

MainTask == MainMaps \/ MainConfigures \/ MainStarts

Next == \/ PowerOff \/ PowerOn \/ Beat \/ Emergency
        \/ Rpdo \/ TimerTask \/ MainTask

Spec == Init /\ [][Next]_vars

(* RPDO is never kept from running.  Frames come slowly enough for RPDO to   *)
(* handle them all, and for TIMER and MAIN to run then; the alarm of a silent*)
(* module rings.                                                             *)
Fairness ==
  /\ WF_vars(Rpdo) /\ []<>(net = <<>>)
  /\ SF_vars(RingChecks \/ RingRecords \/ Timeout) /\ SF_vars(MainTask)
  /\ SF_vars(mode = "off" /\ Ring)

FairSpec == Spec /\ Fairness

----------------------------------------------------------------------------
(* Properties *)

\* The two records of a module, NMTable of the stack and nodeState of the device
\* table, are written by two tasks in two steps, the second only on a change, a
\* boot-up or an error.  Once the second has been written since the scan listed
\* the module, they agree whenever no alarm is ringing.
TablesAgree == ring = "no" /\ recorded => nodeState = NMTable

\* Whatever tasks begin and continue the steps, an unsent frame is the only way
\* to leave a PDO disabled: while it is, a transfer is still to end and the step
\* that enables it to come, or one of the first three writes was not sent.
NeverLeftDisabled ==
  conf.pdo = "disabled" => (sdo /\ step \in 1..2) \/ refused \cap 1..3 # {}

\* A module that Reconfigure_slave has stopped is configured and started, whatever
\* step an earlier configuration had come to, unless it is lost again or one of
\* the frames that do it is refused.
BackInService ==
  rpdo = "stopped" ~>
    \/ mode = "off" \/ ring # "no"
    \/ rpdo # "stopped" /\ refused # {}
    \/ mode = "Operational" /\ (rtd \/ conf = Full)

\* A module that is gone for good is shown as disconnected for good, if its alarm
\* was set once since its consumer was.  (Not with an error for good: one that
\* was hidden by an emergency is forgotten when that is cleared.)
LossReported ==
  <>[](mode = "off") /\ <>(alarm /\ main # "scan") => <>[](nodeState = "Disconnected")
=============================================================================
