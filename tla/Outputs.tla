------------------------------ MODULE Outputs ------------------------------
(***************************************************************************)
(* The process data of core 0, on top of the driver (CanTx).  A scan leaves  *)
(* a device table; MAIN gives each module its object in the dictionary and    *)
(* its bytes in the process image.  TPDO then copies, each millisecond, the   *)
(* outputs the PLC wrote into the objects and the objects of the inputs into   *)
(* the image, and sends the objects of the digital outputs that changed.       *)
(* When the master becomes operational MAIN sends every output once, with      *)
(* TPDO already running.  A word is known by the address it was written at,    *)
(* an input by the module it came from, so data taken for another module's      *)
(* can be seen.                                                               *)
(***************************************************************************)
EXTENDS CanTx, Sequences, FiniteSetsExt

CONSTANTS Layouts,    \* the tables a scan may leave: sequences of modules,
                      \* by rising node: [node |-> n, kind |-> k]
          Nodes,      \* 1 .. MAX_IO_DEVICES
          Protocols,  \* what core 1 may be: "EIP", "ECAT"
          Driven      \* the kinds of module whose outputs the PLC changes

Ins == {"DI", "AI", "RTD"}
Outs == {"DO", "AO"}
Digital == {"DI", "DO"}

ASSUME NodesAssumption == IsFiniteSet(Nodes) /\ Nodes = 1..Cardinality(Nodes)
ASSUME LayoutsAssumption == \A l \in Layouts :
  /\ l \in Seq([node : Nodes, kind : Ins \cup Outs])
  /\ \A i, j \in DOMAIN l : i < j => l[i].node < l[j].node
ASSUME DrivenAssumption == Driven \subseteq Outs

VARIABLES
  table,     \* IOCoupler_Devices.slaveInfo
  links,     \* IO_slave_data: the object of each record's d_ptr and a_ptr
  od,        \* the data objects 0x2200 + k (inputs) and 0x2300 + k (outputs)
  last,      \* PDO_status[k].last_message
  buff_out, buff_in,   \* the process image, by the first byte of a module
  active,    \* active_protocol
  pos,       \* TPDO: 0 in vTaskDelay, 1 before the copy, i + 1 at slot i;
             \* MAIN: 0, or the PDO PDOInit is at
  stage,     \* where each of the two is in sendOnePDOevent
  frame,     \* the PDO it has built
  led,       \* what each module has at its outputs
  copied,    \* history: TPDO copied while operational, the PLC wrote nothing since
  spoilt,    \* history: modules whose newest output may have been lost
  shown      \* history: the inputs received and copied since the scan

image == <<buff_out, buff_in, active>>
config == <<table, links>>
sending == <<pos, stage, frame, last>>
io == <<config, od, sending, image, led, copied, spoilt, shown>>
allVars == <<vars, io>>

Zero == <<>>
Null == <<>>
Off == <<"off">>
Written(a) == <<"out", a>>
From(n) == <<"in", n>>
NoPdo == [pdo |-> 0, to |-> 0, word |-> Zero]
PdoTasks == {Main, Tpdo}

----------------------------------------------------------------------------
(* The layout of the process data, from the device table *)

IsIn(m) == m.kind \in Ins
SameSide(l, i) == {j \in DOMAIN l : IsIn(l[j]) = IsIn(l[i])}

\* input_index or output_index, from 1
Index(l, i) == Cardinality({j \in SameSide(l, i) : j <= i})

\* IO_DIGITAL_, IO_ANALOG_ and IO_RTD_MODULE_BYTESIZE
Width(m) == CASE m.kind \in Digital -> 2
              [] m.kind \in {"AI", "AO"} -> 16
              [] m.kind = "RTD" -> 24

\* slip: the width of a digital module for all
FlatOffset(l, i) == 2 * (Index(l, i) - 1)

\* The bytes of the modules before it; inputs and outputs are counted apart.
Before(l, i, w) == Cardinality({j \in SameSide(l, i) : j < i /\ Width(l[j]) = w})
Offset(l, i) == 2 * Before(l, i, 2) + 16 * Before(l, i, 16) + 24 * Before(l, i, 24)

Object(l, i) == <<IF IsIn(l[i]) THEN "in" ELSE "out", Index(l, i)>>
Objects == {"in", "out"} \X Nodes

\* _ODMaster_configure_PDO: the record of the node; the others keep theirs.
Linked(l) ==
  [n \in Nodes |->
     LET at == {i \in DOMAIN l : l[i].node = n} IN
     IF at = {} THEN links[n]
     ELSE LET i == CHOOSE i \in at : TRUE IN
          IF l[i].kind \in Digital THEN [links[n] EXCEPT !.d = Object(l, i)]
                                   ELSE [links[n] EXCEPT !.a = Object(l, i)]]

\* IO_slave_data is read by slot.
Link(i) == IF table[i].kind \in Digital THEN links[i].d ELSE links[i].a

Slots(kinds) == {i \in DOMAIN table : table[i].kind \in kinds}
Place(i) == Offset(table, i)
NumOut == Cardinality(Slots(Outs))

Places(side) == UNION {{Offset(l, i) : i \in {j \in DOMAIN l : l[j].kind \in side}}
                         : l \in Layouts}

----------------------------------------------------------------------------
Words == {Zero} \cup {Written(a) : a \in Places(Outs)} \cup {From(n) : n \in Nodes}
Pdos == [pdo : Nodes, to : Nodes, word : Words] \cup {NoPdo}

OutputsTypeOK ==
  /\ TypeOK
  /\ table \in Layouts \cup {<<>>}
  /\ links \in [Nodes -> [d : Objects \cup {Null}, a : Objects \cup {Null}]]
  /\ od \in [Objects -> Words]
  /\ last \in [Nodes -> Pdos]
  /\ buff_out \in [Places(Outs) -> Words] /\ buff_in \in [Places(Ins) -> Words]
  /\ active \in Protocols \cup {"none"}
  /\ pos \in [PdoTasks -> 0..Cardinality(Nodes) + 1]
  /\ stage \in [PdoTasks -> {"none", "built", "stored"}]
  /\ frame \in [PdoTasks -> Pdos]
  /\ led \in [Nodes -> Words \cup {Off}]
  /\ copied \in BOOLEAN
  /\ spoilt \subseteq Nodes /\ shown \subseteq Nodes

InitIO ==
  /\ table = <<>>
  /\ links = [n \in Nodes |-> [d |-> Null, a |-> Null]]
  /\ od = [o \in Objects |-> Zero]
  /\ last = [n \in Nodes |-> NoPdo]
  /\ buff_out = [a \in Places(Outs) |-> Zero]
  /\ buff_in = [a \in Places(Ins) |-> Zero]
  /\ active = "none"
  /\ pos = [t \in PdoTasks |-> 0]
  /\ stage = [t \in PdoTasks |-> "none"]
  /\ frame = [t \in PdoTasks |-> NoPdo]
  /\ led = [n \in Nodes |-> Off]
  /\ copied = FALSE
  /\ spoilt = {} /\ shown = {}

----------------------------------------------------------------------------
(* Scheduling: TPDO in its pass keeps the tasks below it from running. *)

InPass == Tpdo \notin suspended /\ pc[Tpdo] = "idle" /\ pos[Tpdo] > 0
May(t) == Prio[t] >= Prio[Tpdo] \/ ~InPass

\* CurrentCommunicationState.csPDO
CsPDO == mode = "op" \/ pos[Main] > 0

----------------------------------------------------------------------------
(* TPDO: SendPDOLoop *)

\* vTaskDelay is over.
Wake ==
  /\ pos[Tpdo] = 0 /\ Tpdo \notin suspended
  /\ Gap \/ \A u \in Tasks : pc[u] # "tested"
  /\ pos' = [pos EXCEPT ![Tpdo] = 1]
  /\ UNCHANGED <<vars, config, od, stage, frame, last, image, led, copied,
                 spoilt, shown>>

\* slip: the loop does not end
AfterRuns(t) == [pos EXCEPT ![t] = pos[t] + 1]

After(t) ==
  [pos EXCEPT ![t] = IF t = Tpdo /\ pos[t] > Len(table) THEN 0 ELSE pos[t] + 1]

\* UpdateOutputModules; the last module written to an object wins.
CopiedOut ==
  [o \in Objects |->
     LET w == {i \in Slots(Outs) : Link(i) = o} IN
     IF w = {} THEN od[o] ELSE buff_out[Place(Max(w))]]

\* UpdateInputProcessImage and GS_APP_SyncInputProcessImage; only the latter
\* looks at RTD modules.
Shows(i) == table[i].kind # "RTD" \/ active = "ECAT"

CopiedIn(objects) ==
  [a \in Places(Ins) |->
     LET r == {i \in Slots(Ins) : Shows(i) /\ Place(i) = a /\ Link(i) # Null} IN
     IF r = {} THEN buff_in[a] ELSE objects[Link(Max(r))]]

Copy ==
  /\ pos[Tpdo] = 1 /\ InPass /\ Runs(Tpdo)
  /\ pos' = After(Tpdo)
  /\ IF active = "none" THEN UNCHANGED <<od, buff_in, copied, shown>>
     ELSE /\ od' = CopiedOut
          /\ buff_in' = CopiedIn(CopiedOut)
          /\ copied' = (mode = "op")
          /\ shown' = {table[i].node : i \in {j \in Slots(Ins) : od[Object(table, j)] = From(table[j].node)}}
  /\ UNCHANGED <<vars, config, stage, frame, last, buff_out, active, led,
                 spoilt>>

----------------------------------------------------------------------------
(* sendOnePDOevent, called by TPDO for the slot it is at and by MAIN, from   *)
(* PDOInit, for every output.                                                *)

Due(t) ==
  IF t = Main THEN {pos[t]} \cap 1..NumOut
  ELSE {Index(table, i) : i \in {j \in Slots({"DO"}) :
                                   j = pos[t] - 1 /\ links[j].d # Null}}

\* buildPDO, with the COB-ID of the module the PDO was configured for
Pdo(k) ==
  [pdo |-> k,
   to |-> table[CHOOSE i \in Slots(Outs) : Index(table, i) = k].node,
   word |-> od[<<"out", k>>]]

Turn(t) ==
  /\ stage[t] = "none" /\ pc[t] = "idle" /\ Runs(t) /\ May(t)
  /\ IF t = Main THEN pos[t] \in 1..NumOut ELSE pos[t] > 1

\* It is no output, or inhibited, or has not changed.
Skip(t) ==
  /\ Turn(t)
  /\ CsPDO => \A k \in Due(t) : last[k] = Pdo(k)
  /\ pos' = After(t)
  /\ UNCHANGED <<vars, config, od, stage, frame, last, image, led, copied,
                 spoilt, shown>>

Build(t) ==
  /\ Turn(t) /\ CsPDO
  /\ \E k \in Due(t) : last[k] # Pdo(k) /\ frame' = [frame EXCEPT ![t] = Pdo(k)]
  /\ stage' = [stage EXCEPT ![t] = "built"]
  /\ UNCHANGED <<vars, config, od, pos, last, image, led, copied, spoilt, shown>>

\* The other task has stored an older PDO for this module and not sent it yet.
Overtakes(t) ==
  \E u \in PdoTasks \ {t} :
    stage[u] = "stored" /\ pc[u] = "idle" /\ frame[u].to = frame[t].to

\* sendPdo stores the PDO as the last one sent, before it is sent.
Store(t) ==
  /\ stage[t] = "built" /\ Runs(t) /\ May(t)
  /\ stage' = [stage EXCEPT ![t] = "stored"]
  /\ last' = [last EXCEPT ![frame[t].pdo] = frame[t]]
  /\ spoilt' = IF Overtakes(t) THEN spoilt \cup {frame[t].to}
                               ELSE spoilt \ {frame[t].to}
  /\ UNCHANGED <<vars, config, od, pos, frame, image, led, copied, shown>>

NextPdo(t) ==
  /\ pos' = After(t)
  /\ stage' = [stage EXCEPT ![t] = "none"]
  /\ frame' = [frame EXCEPT ![t] = NoPdo]

\* canSend is called with the PDO ...
CallSend(t) == stage[t] = "stored" /\ May(t) /\ Test(t) /\ UNCHANGED io

\* ... and refuses; sendPdo does not look at the result.
SendRefused(t) ==
  /\ stage[t] = "stored" /\ May(t) /\ Refuse(t)
  /\ NextPdo(t)
  /\ spoilt' = spoilt \cup {frame[t].to}
  /\ UNCHANGED <<config, od, last, image, led, copied, shown>>

SendReturns(t) ==
  /\ stage[t] = "stored" /\ May(t) /\ Return(t)
  /\ NextPdo(t)
  /\ UNCHANGED <<config, od, last, image, led, copied, spoilt, shown>>

----------------------------------------------------------------------------
(* The other frames, and the steps of canSend that are the same for all *)

OtherFrame(t) ==
  /\ t \in PdoTasks => t = Main /\ mode \in {"reset", "scan"}
  /\ May(t) /\ (Test(t) \/ Refuse(t))
  /\ UNCHANGED io

InSend(t) ==
  /\ May(t) /\ (Lock(t) \/ Write(t) \/ Request(t) \/ Take(t))
  /\ UNCHANGED io

OtherReturns(t) ==
  /\ t \in PdoTasks => stage[t] = "none"
  /\ May(t) /\ Return(t)
  /\ UNCHANGED io

\* The module takes the PDO.
Deliver ==
  /\ Complete
  /\ led' = IF wire \in PdoTasks /\ frame[wire] # NoPdo
            THEN [led EXCEPT ![frame[wire].to] = frame[wire].word] ELSE led
  /\ UNCHANGED <<config, od, sending, image, copied, spoilt, shown>>

----------------------------------------------------------------------------
(* MAIN *)

\* slip: what was sent before the rescan is still taken for sent
RescanKeepsLast ==
  /\ May(Main) /\ Rescan
  /\ table' = <<>> /\ copied' = FALSE
  /\ UNCHANGED <<links, od, pos, stage, frame, last, image, led, spoilt, shown>>

\* The table is wiped; PDOStop forgets what was sent.
StopForScan ==
  /\ May(Main) /\ Rescan
  /\ table' = <<>> /\ copied' = FALSE
  /\ last' = [n \in Nodes |-> NoPdo]
  /\ UNCHANGED <<links, od, pos, stage, frame, image, led, spoilt, shown>>

\* The scan is over: ODMaster_configure_PDO, BuildProcessImage, and TPDO is
\* resumed, which ends its vTaskDelay.  If TPDO was suspended in canSend every
\* request of the scan was refused.  No module has an output yet.
Configure ==
  /\ May(Main) /\ Operate
  /\ pc[Tpdo] = "waiting" => done
  /\ \E l \in Layouts \cup {<<>>} :
       /\ pc[Tpdo] # "idle" => l = <<>>
       /\ table' = l /\ links' = Linked(l)
  /\ pos' = IF pos[Tpdo] = 0 THEN [pos EXCEPT ![Tpdo] = 1] ELSE pos
  /\ led' = [n \in Nodes |-> Off]
  /\ spoilt' = {} /\ shown' = {}
  /\ UNCHANGED <<od, stage, frame, last, image, copied>>

\* setState(Operational): PDOs are on, PDOInit begins ...
SetOperational ==
  /\ May(Main) /\ MainAt("start") /\ pos[Main] = 0
  /\ pos' = [pos EXCEPT ![Main] = 1]
  /\ UNCHANGED <<vars, config, od, stage, frame, last, image, led, copied,
                 spoilt, shown>>

\* ... and ends.
Operational ==
  /\ May(Main) /\ Started /\ pos[Main] > NumOut
  /\ pos' = [pos EXCEPT ![Main] = 0]
  /\ UNCHANGED <<config, od, stage, frame, last, image, led, copied, spoilt, shown>>

----------------------------------------------------------------------------
(* The modules and core 1 *)

\* proceedPDO: the object of the PDO with the module's COB-ID
InputPdo ==
  /\ CsPDO
  /\ \E i \in Slots(Ins) :
       od' = [od EXCEPT ![Object(table, i)] = From(table[i].node)]
  /\ UNCHANGED <<vars, config, sending, image, led, copied, spoilt, shown>>

\* A module restarts alone; Station models how it is configured again.
ModuleRestarts ==
  /\ \E i \in Slots(Outs) :
       /\ led' = [led EXCEPT ![table[i].node] = Off]
       /\ spoilt' = spoilt \cup {table[i].node}
  /\ UNCHANGED <<vars, config, od, sending, image, copied, shown>>

Core1Up ==
  /\ active = "none"
  /\ active' \in Protocols
  /\ UNCHANGED <<vars, config, od, sending, buff_out, buff_in, led, copied,
                 spoilt, shown>>

\* Core 1 writes the PLC's outputs.  It reads master_state and the table
\* without the lock, so it may still do so when the master is not operational.
PlcWrite ==
  /\ active # "none"
  /\ \E i \in Slots(Driven) :
       \E w \in {Zero, Written(Place(i))} \ {buff_out[Place(i)]} :
         buff_out' = [buff_out EXCEPT ![Place(i)] = w]
  /\ copied' = FALSE
  /\ UNCHANGED <<vars, config, od, sending, buff_in, active, led, spoilt, shown>>

----------------------------------------------------------------------------
NextIO ==
  \/ \E t \in Tasks : OtherFrame(t) \/ InSend(t) \/ OtherReturns(t)
  \/ \E t \in PdoTasks : \/ Skip(t) \/ Build(t) \/ Store(t)
                         \/ CallSend(t) \/ SendRefused(t) \/ SendReturns(t)
  \/ Wake \/ Copy
  \/ Load /\ UNCHANGED io
  \/ Deliver
  \/ May(Main) /\ StartTimerLoop /\ UNCHANGED io
  \/ StopForScan \/ Configure \/ SetOperational \/ Operational
  \/ InputPdo \/ ModuleRestarts \/ Core1Up \/ PlcWrite

SpecIO == Init /\ InitIO /\ [][NextIO]_allVars

----------------------------------------------------------------------------
(* Properties *)

\* "Write outputs -> physical IO" (Master.c:491): when TPDO is through with a
\* pass it began while the master was operational, and the PLC has written
\* nothing since, each digital output module has what the PLC wrote, unless
\* canSend refused its PDO, an older PDO was sent after it, or it restarted.
OutputsFollow ==
  mode = "op" /\ pos[Tpdo] = 0 /\ copied =>
    \A i \in Slots({"DO"}) : \/ led[table[i].node] = buff_out[Place(i)]
                            \/ table[i].node \in spoilt

\* No datum of one module is taken for another's: their bytes in the image are
\* apart, a PDO TPDO builds for a module carries that module's bytes, and the
\* bytes of an input module show that module.
OwnData ==
  /\ \A i, j \in DOMAIN table :
       i < j /\ j \in SameSide(table, i) => Place(i) + Width(table[i]) <= Place(j)
  /\ stage[Tpdo] = "built" =>
       \E i \in Slots({"DO"}) : /\ table[i].node = frame[Tpdo].to
                               /\ frame[Tpdo].word \in {Zero, Written(Place(i))}
  /\ \A i \in Slots(Ins) :
       table[i].node \in shown /\ Shows(i) => buff_in[Place(i)] = From(table[i].node)
=============================================================================
