--------------------------- MODULE Station_proofs ---------------------------
(***************************************************************************)
(* Proofs about Station, for any bound on the frames that wait.  The two     *)
(* safety invariants are proved from IInv, which adds how far the steps have *)
(* come before MAIN takes its own, that a module that is off is not          *)
(* configured, nor an RTD module, and what the records are while the alarm   *)
(* rings.                                                                    *)
(***************************************************************************)
EXTENDS Station, TLAPS

USE WaitingAssumption

Frames == Beats \cup {"emcy", "clear", "answer"}

\* TypeOK in two parts: the provers do not mix Boolean variables and others.
Flags == /\ rtd \in BOOLEAN /\ rescan \in BOOLEAN /\ recorded \in BOOLEAN
         /\ watched \in BOOLEAN /\ alarm \in BOOLEAN /\ sdo \in BOOLEAN

Kinds ==
  /\ mode \in {"off", "Pre_operational", "Operational"} /\ conf \in Configurations
  /\ net \in Seq(Frames)
  /\ NMTable \in States /\ nodeState \in States /\ err \in Errors
  /\ step \in 0..6 \cup {99, 100} /\ refused \subseteq 1..Start
  /\ rpdo \in {"idle", "stopped", "configured"} /\ heard \in Beats
  /\ ring \in {"no", "disconnected", "checked"}
  /\ main \in {"scan", "configure", "start", "done"}

LEMMA Parts == /\ TypeOK => Flags /\ Kinds
               /\ Flags' /\ Kinds' => TypeOK'
<1>1. TypeOK => Flags /\ Kinds
  BY Zenon DEF TypeOK, Flags, Kinds, Frames
<1>2. Flags' /\ Kinds' => TypeOK'
  BY Zenon DEF TypeOK, Flags, Kinds, Frames
<1> QED
  BY <1>1, <1>2

\* MAIN has still to take its step of the configuration.
Early == main \in {"scan", "configure"}

\* Transfers are those of modules that have writes; MAIN, which takes the step
\* after whatever step it finds, may meet one under way.
ChainInv ==
  /\ sdo => ~rtd /\ step \in 1..5
  /\ Early => step \in 0..5 \cup {99}
  /\ Early /\ sdo => step \in 1..4

ConfInv == (mode = "off" \/ rtd) => conf = Fresh

\* The alarm is that of a consumer.
AlarmInv == alarm => watched

RecordInv == ring # "disconnected" /\ recorded => nodeState = NMTable

IInv == /\ TypeOK /\ ChainInv /\ ConfInv /\ AlarmInv /\ RecordInv
        /\ NeverLeftDisabled

LEMMA InitInv == Init => IInv
<1> SUFFICES ASSUME Init PROVE IInv
  OBVIOUS
<1>1. TypeOK
  <2>1. /\ conf \in Configurations /\ mode \in {"off", "Pre_operational", "Operational"}
        /\ NMTable \in States /\ nodeState \in States /\ err \in Errors /\ heard \in Beats
        /\ net \in Seq(Beats \cup {"emcy", "clear", "answer"})
    BY DEF Init, States, Beats, Errors
  <2>2. /\ rtd \in BOOLEAN /\ rescan \in BOOLEAN /\ recorded \in BOOLEAN
        /\ watched \in BOOLEAN /\ alarm \in BOOLEAN /\ sdo \in BOOLEAN
    BY Zenon DEF Init
  <2>3. step \in 0..6 \cup {99, 100} /\ refused \subseteq 1..Start
    BY DEF Init, Start
  <2> QED
    BY <2>1, <2>2, <2>3, Zenon DEF Init, TypeOK
<1>2. ChainInv /\ ConfInv /\ RecordInv
  BY DEF Init, ChainInv, ConfInv, RecordInv, Fresh, Early
<1>3. NeverLeftDisabled
  BY DEF Init, NeverLeftDisabled
<1>4. AlarmInv
  BY Zenon DEF Init, AlarmInv
<1> QED
  BY <1>1, <1>2, <1>3, <1>4 DEF IInv

\* What is sent is a frame.
LEMMA FrameSent ==
  ASSUME TypeOK, NEW f \in Frames, Sends(f)
  PROVE  net' \in Seq(Frames)
  BY DEF TypeOK, Sends, Frames

\* Taking a frame leaves frames.
LEMMA Taken ==
  ASSUME TypeOK, net # <<>>
  PROVE  Tail(net) \in Seq(Frames)
  BY DEF TypeOK, Frames

\* A write keeps the configuration one; only the first disables the PDO, and the
\* third enables it.
LEMMA WrittenType ==
  ASSUME TypeOK, NEW k \in 1..4
  PROVE  /\ Written(conf, k) \in Configurations
         /\ Written(conf, k).pdo = "disabled" => k = 1 \/ (k # 3 /\ conf.pdo = "disabled")
<1>1. Written(conf, k) \in Configurations
  <2>1. CASE k = 1
    BY <2>1 DEF TypeOK, Written, Configurations
  <2>2. CASE k = 2
    BY <2>2 DEF TypeOK, Written, Configurations
  <2>3. CASE k = 3
    BY <2>3 DEF TypeOK, Written, Configurations
  <2>4. CASE k = 4
    BY <2>4 DEF TypeOK, Written, Configurations
  <2> QED
    BY <2>1, <2>2, <2>3, <2>4
<1>2. k \in {2, 4} => Written(conf, k).pdo = conf.pdo
  BY DEF TypeOK, Written, Configurations
<1>3. k = 3 => Written(conf, k).pdo = "enabled"
  BY DEF TypeOK, Written, Configurations
<1> QED
  BY <1>1, <1>2, <1>3

\* What an unsent write adds to the history
LEMMA Missed ==
  ASSUME NEW r, r \subseteq 1..Start, NEW k \in Nat
  PROVE  /\ r \cup ({k} \cap 1..4) \subseteq 1..Start
         /\ k \in 1..4 => k \in r \cup ({k} \cap 1..4)
<1>1. 1..4 \subseteq 1..Start
  BY DEF Start
<1> QED
  BY <1>1, Zenon

\* Whoever takes a step of the configuration, and wherever the one before was left:
\* either the chain can still enable what it has disabled, or the history shows
\* the write that was not sent.
LEMMA ConfigureStep ==
  ASSUME IInv, NEW k \in 1..6 \cup {100}, NEW used \in BOOLEAN, NEW q \in Seq(Frames),
         ConfigureSlaveNode(k, used, q),
         \/ used = sdo /\ k \in {1, step + 1}
         \/ ~used /\ sdo /\ k = step + 1
  PROVE  /\ conf' \in Configurations /\ net' \in Seq(Frames)
         /\ sdo' \in BOOLEAN /\ refused' \subseteq 1..Start
         /\ step' \in {k, 99}
         /\ sdo' => ~rtd /\ step' = k /\ (used \/ k \in 1..4)
         /\ (mode = "off" \/ rtd) => conf' = Fresh
         /\ conf'.pdo = "disabled" => (sdo' /\ step' \in 1..2) \/ refused' \cap 1..3 # {}
<1>0. /\ TypeOK /\ step \in 0..6 \cup {99, 100} /\ sdo \in BOOLEAN /\ rtd \in BOOLEAN
      /\ refused \subseteq 1..Start /\ conf \in Configurations
      /\ (mode = "off" \/ rtd) => conf = Fresh
      /\ conf.pdo = "disabled" => (sdo /\ step \in 1..2) \/ refused \cap 1..3 # {}
      /\ sdo => ~rtd
  BY DEF IInv, TypeOK, ConfInv, NeverLeftDisabled, ChainInv
<1>1. step' \in {k, 99} /\ (~rtd => step' = k)
  BY DEF ConfigureSlaveNode
<1>2. CASE k \in 1..4 /\ ~used /\ ~rtd /\ Sent(k, q)
  <2>1. sdo' = TRUE /\ step' = k
    BY <1>1, <1>2 DEF Sent
  <2>2. refused' \subseteq 1..Start /\ (k # 1 => refused' = refused)
    BY <1>0, <1>2 DEF Sent
  <2>3. /\ conf' \in Configurations /\ net' \in Seq(Frames)
        /\ mode = "off" => conf' = Fresh
        /\ conf'.pdo = "disabled" => k = 1 \/ (k # 3 /\ conf.pdo = "disabled")
    <3>1. CASE mode = "off"
      <4>1. conf' = Fresh /\ net' = q
        BY <1>0, <1>2, <3>1 DEF Sent
      <4> QED
        BY <1>0, <4>1, <3>1 DEF Fresh
    <3>2. CASE mode # "off"
      <4>1. conf' = Written(conf, k) /\ net' = Append(q, "answer")
        BY <1>2, <3>2 DEF Sent
      <4>2. net' \in Seq(Frames)
        BY <4>1 DEF Frames
      <4> QED
        BY <1>0, <1>2, <3>2, <4>1, <4>2, WrittenType
    <3> QED
      BY <3>1, <3>2
  <2>4. conf'.pdo = "disabled" => k \in 1..2 \/ refused' \cap 1..3 # {}
    <3> SUFFICES ASSUME conf'.pdo = "disabled", k \notin 1..2
                 PROVE  refused' \cap 1..3 # {}
      OBVIOUS
    <3>1. k = 4 /\ conf.pdo = "disabled" /\ refused' = refused
      BY <1>2, <2>2, <2>3
    <3>2. ~(sdo /\ step \in 1..2)
      BY <1>0, <1>2, <3>1
    <3> QED
      BY <1>0, <3>1, <3>2
  <2> QED
    BY <1>0, <1>2, <2>1, <2>2, <2>3, <2>4
<1>3. CASE Unsent(k, used, q)
  <2>1. sdo' = used /\ net' = q /\ conf' = conf
    BY <1>3 DEF Unsent
  <2>2. /\ k = 1 => refused' \in {{}, {1}}
        /\ k = 1 /\ ~used /\ ~rtd => refused' = {1}
        /\ k # 1 => refused' = refused \cup ({k} \cap 1..4)
    <3>1. ASSUME k = 1 PROVE refused' = IF used \/ rtd THEN {} ELSE {1}
      BY <1>3, <3>1, Zenon DEF Unsent
    <3>2. ASSUME k # 1 PROVE refused' = refused \cup ({k} \cap 1..4)
      BY <1>3, <3>2, Zenon DEF Unsent
    <3>3. ASSUME k = 1 PROVE refused' \in {{}, {1}} /\ (~used /\ ~rtd => refused' = {1})
      BY <3>1, <3>3, Zenon
    <3> QED
      BY <3>2, <3>3, Zenon
  <2>3. refused' \subseteq 1..Start
    <3>0. refused \subseteq 1..Start
      BY <1>0
    <3>1. refused' \in {{}, {1}} \/ refused' = refused \cup ({k} \cap 1..4)
      BY <2>2, Zenon
    <3> QED
      <4>1. {} \subseteq 1..Start /\ {1} \subseteq 1..Start /\ k \in Nat
        BY DEF Start
      <4>2. refused \cup ({k} \cap 1..4) \subseteq 1..Start
        BY <3>0, <4>1, Missed
      <4>3. refused' \in {{}, {1}} => refused' \subseteq 1..Start
        BY <4>1, Zenon
      <4> QED
        BY <3>1, <4>2, <4>3, Zenon
  <2>4. conf.pdo = "disabled" => (used /\ k \in 1..2) \/ refused' \cap 1..3 # {}
    <3> SUFFICES ASSUME conf.pdo = "disabled"
                 PROVE  (used /\ k = 1) \/ refused' \cap 1..3 # {}
      OBVIOUS
    <3>0. ~rtd
      BY <1>0 DEF Fresh
    <3>1. CASE k = 1
      <4>1. ASSUME ~used PROVE 1 \in refused'
        <5>1. refused' = {1}
          BY <2>2, <3>0, <3>1, <4>1, Zenon
        <5> QED
          BY <5>1
      <4> QED
        BY <3>1, <4>1
    <3>2. CASE k \in 2..3
      <4>0. k # 1
        BY <3>2
      <4>1. k \in refused'
        <5>1. refused' = refused \cup ({k} \cap 1..4)
          BY <2>2, <4>0, Zenon
        <5>2. k \in 1..4 /\ k \in Nat
          BY <3>2
        <5> QED
          BY <1>0, <5>1, <5>2, Missed, Zenon
      <4> QED
        BY <3>2, <4>1
    <3>3. CASE k \notin 1..3
      <4>1. refused \subseteq refused'
        BY <2>2, <3>3
      <4>2. ~(sdo /\ step \in 1..2)
        BY <1>0, <3>3
      <4> QED
        BY <1>0, <4>1, <4>2
    <3> QED
      BY <3>1, <3>2, <3>3
  <2>5. used => sdo
    OBVIOUS
  <2>6. sdo' => ~rtd /\ step' = k /\ used
    BY <1>0, <1>1, <2>1, <2>5
  <2> QED
    BY <1>0, <1>1, <2>1, <2>3, <2>4, <2>6
<1> QED
  BY <1>2, <1>3 DEF ConfigureSlaveNode

\* The steps of the module touch its frames and itself.
LEMMA ModuleStep ==
  ASSUME IInv, PowerOff \/ PowerOn \/ Beat \/ Emergency PROVE IInv'
<1>1. TypeOK /\ ConfInv /\ NeverLeftDisabled /\ ChainInv /\ RecordInv /\ AlarmInv
  BY DEF IInv
<1>2. UNCHANGED <<fixed, record, consumer, chain, tasks>>
  BY DEF PowerOff, PowerOn, Beat, Emergency, ModuleOnly
<1>3. ChainInv' /\ RecordInv'
  BY <1>1, <1>2 DEF ChainInv, RecordInv, Early, record, chain, tasks, fixed
<1>4. AlarmInv'
  BY <1>1, <1>2, Zenon DEF AlarmInv, consumer
<1>5. ConfInv' /\ NeverLeftDisabled'
  BY <1>1, <1>2 DEF ConfInv, NeverLeftDisabled, PowerOff, PowerOn, Beat, Emergency,
     module, chain, fixed, Fresh
<1>6. net' \in Seq(Frames)
  <2>1. CASE PowerOff
    BY <1>1, <2>1 DEF PowerOff, TypeOK, Frames
  <2>2. CASE PowerOn
    BY <1>1, <2>2, FrameSent DEF PowerOn, Beats, Frames
  <2>3. CASE Beat
    BY <1>1, <2>3, FrameSent DEF Beat, TypeOK, Beats, Frames
  <2>4. CASE Emergency
    BY <1>1, <2>4, FrameSent DEF Emergency, Frames
  <2> QED
    BY <2>1, <2>2, <2>3, <2>4
<1>7. mode' \in {"off", "Pre_operational", "Operational"} /\ conf' \in Configurations
  <2>1. mode' \in {mode, "off", "Pre_operational"} /\ conf' \in {conf, Fresh}
    BY DEF PowerOff, PowerOn, Beat, Emergency, module
  <2>2. Fresh \in Configurations
    BY DEF Fresh, Configurations
  <2> QED
    BY <1>1, <2>1, <2>2, Zenon DEF TypeOK
<1>8. TypeOK'
  <2>1. Kinds'
    BY <1>1, <1>2, <1>6, <1>7, Parts DEF Kinds, record, chain, tasks
  <2>2. Flags'
    BY <1>1, <1>2, Parts, Zenon DEF Flags, fixed, record, consumer, chain
  <2> QED
    BY <2>1, <2>2, Parts, Zenon
<1> QED
  BY <1>3, <1>4, <1>5, <1>8 DEF IInv

\* The steps that take no step of the configuration
LEMMA RecordStep ==
  ASSUME IInv,
         \/ \E s \in Beats : Heard(s) \/ Reconfigure(s)
         \/ ReconfigureStarts \/ Emcy \/ Ring \/ RingChecks \/ RingRecords
  PROVE  IInv'
<1>1. TypeOK /\ ConfInv /\ ChainInv /\ RecordInv /\ AlarmInv /\ NeverLeftDisabled
  BY DEF IInv
<1>2. UNCHANGED <<conf, fixed, step, sdo, main, watched>>
  BY DEF Heard, Reconfigure, ReconfigureStarts, Emcy, Ring, RingChecks, RingRecords,
     module, tasks, chain, consumer, Recognised
<1>3. refused' \in {refused, refused \cup {Start}}
  BY DEF Heard, Reconfigure, ReconfigureStarts, StartNode, Emcy, Ring, RingChecks,
     RingRecords, chain
<1>4. /\ mode' \in {"off", "Pre_operational", "Operational"}
      /\ (mode' = "off" <=> mode = "off")
  BY <1>1 DEF TypeOK, Heard, Reconfigure, ReconfigureStarts, StartNode, Emcy, Ring,
     RingChecks, RingRecords, module, Command
<1>5. ChainInv' /\ ConfInv' /\ NeverLeftDisabled'
  <2>1. ChainInv' /\ ConfInv'
    BY <1>1, <1>2, <1>4 DEF ChainInv, ConfInv, Early, fixed
  <2>2. refused \subseteq refused'
    BY <1>3
  <2> QED
    BY <1>1, <1>2, <2>1, <2>2 DEF NeverLeftDisabled
<1>6. net' \in Seq(Frames)
  BY <1>1, Taken DEF TypeOK, Frames, Heard, Reconfigure, ReconfigureStarts, Emcy, Ring,
     RingChecks, RingRecords, Takes, Next1
<1>7. /\ NMTable' \in States /\ nodeState' \in States /\ err' \in Errors
      /\ rpdo' \in {"idle", "stopped", "configured"} /\ heard' \in Beats
      /\ ring' \in {"no", "disconnected", "checked"}
  BY <1>1 DEF TypeOK, Heard, Reconfigure, ReconfigureStarts, Emcy, Ring, RingChecks,
     RingRecords, Recognised, StateError, Kept, States, Beats, Errors, tasks
<1>8. alarm' \in BOOLEAN /\ recorded' \in BOOLEAN /\ AlarmInv'
  <2>1. alarm' \in {alarm, watched, FALSE} /\ recorded' \in {recorded, TRUE}
    BY Zenon DEF Heard, Reconfigure, ReconfigureStarts, Emcy, Ring, RingChecks,
       RingRecords, Recognised, consumer
  <2>2. alarm' => alarm \/ watched
    BY <2>1
  <2> QED
    BY <1>1, <1>2, <2>1, <2>2, Zenon DEF TypeOK, AlarmInv
<1>9. TypeOK'
  <2>1. refused' \subseteq 1..Start
    BY <1>1, <1>3 DEF TypeOK, Start
  <2>2. Kinds'
    BY <1>1, <1>2, <1>4, <1>6, <1>7, <2>1, Parts, Zenon DEF Kinds
  <2>3. Flags'
    BY <1>1, <1>2, <1>8, Parts, Zenon DEF Flags, fixed
  <2> QED
    BY <2>2, <2>3, Parts, Zenon
<1>10. RecordInv'
  <2>1. ASSUME NEW s \in Beats, Heard(s) PROVE RecordInv'
    BY <1>1, <2>1 DEF Heard, RecordInv, Recognised, tasks
  <2>2. ASSUME NEW s \in Beats, Reconfigure(s) PROVE RecordInv'
    BY <1>1, <2>2 DEF Reconfigure, RecordInv
  <2>3. CASE ReconfigureStarts
    BY <1>1, <2>3 DEF ReconfigureStarts, RecordInv, Recognised
  <2>4. CASE Emcy
    BY <1>1, <2>4 DEF Emcy, RecordInv, tasks
  <2>5. CASE Ring
    BY <1>1, <2>5 DEF Ring, RecordInv
  <2>6. CASE RingChecks
    BY <1>1, <2>6 DEF RingChecks, RecordInv
  <2>7. CASE RingRecords
    BY <1>1, <2>7 DEF RingRecords, RecordInv
  <2> QED
    BY <2>1, <2>2, <2>3, <2>4, <2>5, <2>6, <2>7
<1> QED
  BY <1>5, <1>8, <1>9, <1>10 DEF IInv

\* A task that takes a step of the configuration changes that, the module's
\* configuration, and the frames.
LEMMA ChainKeepsInv ==
  ASSUME IInv, NEW k \in 1..6 \cup {100}, NEW used \in BOOLEAN, NEW q \in Seq(Frames),
         ConfigureSlaveNode(k, used, q),
         \/ used = sdo /\ k \in {1, step + 1}
         \/ ~used /\ sdo /\ k = step + 1,
         UNCHANGED <<mode, fixed, record, consumer, heard, ring>>,
         rpdo' \in {"idle", "stopped", "configured"},
         \/ main' = main /\ (k = 1 \/ (sdo /\ ~used))
         \/ main = "configure" /\ main' = "start"
  PROVE  IInv'
<1>1. TypeOK /\ RecordInv /\ AlarmInv /\ ChainInv
  BY DEF IInv
<1>a. /\ conf' \in Configurations /\ net' \in Seq(Frames)
      /\ sdo' \in BOOLEAN /\ refused' \subseteq 1..Start
      /\ step' \in {k, 99}
      /\ sdo' => ~rtd /\ step' = k /\ (used \/ k \in 1..4)
      /\ (mode = "off" \/ rtd) => conf' = Fresh
      /\ conf'.pdo = "disabled" => (sdo' /\ step' \in 1..2) \/ refused' \cap 1..3 # {}
  BY ConfigureStep
<1>b. mode' = mode /\ rtd' = rtd /\ UNCHANGED <<rescan, record, consumer, heard, ring>>
  BY DEF fixed
<1>c. step' \in 0..6 \cup {99, 100} /\ main' \in {"scan", "configure", "start", "done"}
  BY <1>1, <1>a DEF TypeOK
<1>2. TypeOK'
  <2>1. Kinds'
    BY <1>1, <1>a, <1>b, <1>c, Parts DEF Kinds, record
  <2>2. Flags'
    BY <1>1, <1>a, <1>b, Parts, Zenon DEF Flags, record, consumer
  <2> QED
    BY <2>1, <2>2, Parts, Zenon
<1>3. (mode' = "off" <=> mode = "off") /\ (rtd' <=> rtd)
  <2>1. rtd' = rtd /\ mode' = mode
    BY <1>b
  <2>2. rtd' <=> rtd
    BY <2>1
  <2> QED
    BY <2>1, <2>2, Zenon
<1>4. ConfInv'
  BY <1>a, <1>3, Zenon DEF ConfInv, Fresh
<1>5. NeverLeftDisabled'
  BY <1>a DEF NeverLeftDisabled
<1>6. ChainInv'
  <2>1. used => k = 1 \/ (main = "configure" /\ k = step + 1 /\ sdo)
    OBVIOUS
  <2>2. sdo' => step' \in 1..5
    BY <1>1, <1>a, <2>1 DEF ChainInv, Early
  <2>3. Early' => Early /\ main' = main /\ (k = 1 \/ (sdo /\ ~used))
    BY DEF Early
  <2>4. Early' /\ sdo' => step' \in 1..4
    BY <1>a, <2>3
  <2>5. Early' => step' \in 0..5 \cup {99}
    <3> SUFFICES ASSUME Early', step' = k PROVE k \in 0..5 \cup {99}
      BY <1>a
    <3>1. k \in {1, step + 1}
      OBVIOUS
    <3> QED
      BY <1>1, <2>3, <3>1 DEF ChainInv
  <2>6. sdo' => ~rtd'
    BY <1>a, <1>3, Zenon
  <2> QED
    BY <2>2, <2>4, <2>5, <2>6, Zenon DEF ChainInv
<1>7. RecordInv' /\ AlarmInv'
  <2>0. /\ ring' = ring /\ nodeState' = nodeState /\ NMTable' = NMTable
        /\ recorded' = recorded /\ alarm' = alarm /\ watched' = watched
    BY <1>b DEF record, consumer
  <2>1. RecordInv'
    BY <1>1, <2>0, Zenon DEF RecordInv
  <2>2. AlarmInv'
    BY <1>1, <2>0, Zenon DEF AlarmInv
  <2> QED
    BY <2>1, <2>2
<1> QED
  BY <1>2, <1>4, <1>5, <1>6, <1>7 DEF IInv

LEMMA InvStep == IInv /\ [Next]_vars => IInv'
<1> SUFFICES ASSUME IInv, [Next]_vars PROVE IInv'
  OBVIOUS
<1>0. /\ TypeOK /\ ChainInv /\ ConfInv /\ AlarmInv /\ RecordInv /\ NeverLeftDisabled
      /\ sdo \in BOOLEAN /\ net \in Seq(Frames)
  BY DEF IInv, TypeOK, Frames
<1>1. CASE ReconfigureWrites
  BY <1>0, <1>1, ChainKeepsInv DEF ReconfigureWrites
<1>2. CASE Answer
  <2>1. CASE sdo
    <3>1. step + 1 \in 1..6
      BY <1>0, <2>1 DEF ChainInv
    <3>2. ConfigureSlaveNode(step + 1, FALSE, Tail(net))
      BY <1>2, <2>1 DEF Answer
    <3>3. Tail(net) \in Seq(Frames)
      BY <1>0, <1>2, Taken DEF Answer, Next1
    <3> QED
      BY <1>0, <1>2, <2>1, <3>1, <3>2, <3>3, ChainKeepsInv DEF Answer, tasks, TypeOK
  <2>2. CASE ~sdo
    <3>1. net' = Tail(net) /\ UNCHANGED <<mode, fixed, record, consumer, tasks, conf, chain>>
      BY <1>2, <2>2 DEF Answer
    <3>2. net' \in Seq(Frames)
      BY <1>0, <1>2, <3>1, Taken DEF Answer, Next1
    <3>3. TypeOK'
      <4>1. Kinds'
        BY <1>0, <3>1, <3>2, Parts DEF Kinds, record, chain, tasks
      <4>2. Flags'
        BY <1>0, <3>1, Parts, Zenon DEF Flags, fixed, record, consumer, chain
      <4> QED
        BY <4>1, <4>2, Parts, Zenon
    <3>4. AlarmInv'
      BY <1>0, <3>1, Zenon DEF AlarmInv, consumer
    <3> QED
      BY <1>0, <3>1, <3>3, <3>4 DEF IInv, ChainInv, ConfInv, RecordInv, Early,
         NeverLeftDisabled, fixed, record, chain, tasks
  <2> QED
    BY <2>1, <2>2
<1>3. CASE Timeout
  <2>1. step + 1 \in 1..6
    BY <1>0, <1>3 DEF ChainInv, Timeout
  <2> QED
    BY <1>0, <1>3, <2>1, ChainKeepsInv DEF Timeout, tasks, TypeOK
<1>4. CASE MainConfigures
  <2>1. step + 1 \in 1..6 \cup {100}
    BY <1>0, <1>4 DEF MainConfigures, ChainInv, Early
  <2> QED
    BY <1>0, <1>4, <2>1, ChainKeepsInv DEF MainConfigures, Main, TypeOK
<1>5. CASE MainMaps
  <2>1. /\ UNCHANGED <<mode, conf, net, chain, fixed, record, rpdo, heard, ring>>
        /\ main = "scan" /\ main' = "configure" /\ watched' = TRUE
    BY <1>5 DEF MainMaps, Main
  <2>2. alarm' \in BOOLEAN
    BY <1>0, <1>5, Zenon DEF MainMaps, TypeOK
  <2>3. TypeOK'
    <3>1. Kinds'
      BY <1>0, <2>1, Parts DEF Kinds, record, chain
    <3>2. Flags'
      BY <1>0, <2>1, <2>2, Parts, Zenon DEF Flags, fixed, record, chain
    <3> QED
      BY <3>1, <3>2, Parts, Zenon
  <2>4. AlarmInv'
    BY <2>1, Zenon DEF AlarmInv
  <2> QED
    BY <1>0, <2>1, <2>3, <2>4 DEF IInv, ChainInv, ConfInv, RecordInv, Early,
       NeverLeftDisabled, fixed, record, chain
<1>6. CASE MainStarts
  <2>1. /\ UNCHANGED <<conf, net, step, sdo, fixed, record, consumer, rpdo, heard, ring>>
        /\ main' = "done" /\ (mode' = "off" <=> mode = "off")
        /\ mode' \in {"off", "Pre_operational", "Operational"}
        /\ refused' \in {refused, refused \cup {Start}}
    BY <1>0, <1>6 DEF MainStarts, Main, StartNode, Command, TypeOK
  <2>2. TypeOK'
    <3>1. refused' \subseteq 1..Start
      BY <1>0, <2>1 DEF TypeOK, Start
    <3>2. Kinds'
      BY <1>0, <2>1, <3>1, Parts DEF Kinds, record
    <3>3. Flags'
      BY <1>0, <2>1, Parts, Zenon DEF Flags, fixed, record, consumer
    <3> QED
      BY <3>2, <3>3, Parts, Zenon
  <2>3. AlarmInv'
    BY <1>0, <2>1, Zenon DEF AlarmInv, consumer
  <2>4. NeverLeftDisabled'
    <3>1. refused \subseteq refused'
      BY <2>1
    <3> QED
      BY <1>0, <2>1, <3>1 DEF NeverLeftDisabled
  <2> QED
    BY <1>0, <2>1, <2>2, <2>3, <2>4 DEF IInv, ChainInv, ConfInv, RecordInv, Early,
       fixed, record
<1>7. CASE UNCHANGED vars
  <2>1. TypeOK'
    <3>1. Kinds'
      BY <1>0, <1>7, Parts DEF Kinds, vars, module, record, chain, tasks
    <3>2. Flags'
      BY <1>0, <1>7, Parts, Zenon DEF Flags, vars, fixed, record, consumer, chain
    <3> QED
      BY <3>1, <3>2, Parts, Zenon
  <2>2. AlarmInv'
    BY <1>0, <1>7, Zenon DEF AlarmInv, vars, consumer
  <2> QED
    BY <1>0, <1>7, <2>1, <2>2 DEF IInv, ChainInv, ConfInv, RecordInv, Early,
       NeverLeftDisabled, vars, module, fixed, record, chain, tasks
<1> QED
  BY <1>1, <1>2, <1>3, <1>4, <1>5, <1>6, <1>7, ModuleStep, RecordStep
     DEF Next, Rpdo, TimerTask, MainTask

LEMMA Invariance == Spec => []IInv
  BY InitInv, InvStep, PTL DEF Spec

\* The state of the station is always well formed.
THEOREM TypeCorrect == Spec => []TypeOK
<1>1. IInv => TypeOK
  BY DEF IInv
<1> QED
  BY <1>1, Invariance, PTL

\* NMTable and the device table agree whenever no alarm is ringing, once the
\* device table has been written since the scan, although RPDO writes it only on a
\* change, a boot-up or an emergency, and may do so while TIMER is in the alarm.
THEOREM RecordsAgree == Spec => []TablesAgree
<1>1. IInv => TablesAgree
  BY DEF IInv, RecordInv, TablesAgree
<1> QED
  BY <1>1, Invariance, PTL

\* Whichever tasks take the steps of a configuration, and whenever they are
\* interrupted, it ends with the PDO disabled only if a write up to the one that
\* enables it was not sent.
THEOREM PdoEnabledAgain == Spec => []NeverLeftDisabled
<1>1. IInv => NeverLeftDisabled
  BY DEF IInv
<1> QED
  BY <1>1, Invariance, PTL
=============================================================================
