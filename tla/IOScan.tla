------------------------------- MODULE IOScan -------------------------------
(***************************************************************************)
(* The network scan of the CANopen master (IOCoupler.c).  The MAIN task     *)
(* calls IOCoupler_scan_task every millisecond; for each node 1..MaxDev it   *)
(* reads six dictionary entries by SDO, and the answer's callback, run by    *)
(* the RPDO task, moves the scan to its next state.  RPDO has the higher     *)
(* priority, so a callback is atomic for MAIN, but it may come between two   *)
(* statements of MAIN: after the request is on the bus and before            *)
(* scanState = SCAN_WAIT, or after the deadline test and before the transfer *)
(* is closed.  pc tells where MAIN is.                                       *)
(***************************************************************************)
EXTENDS Naturals, Sequences, FiniteSets

CONSTANTS MaxDev,    \* MAX_IO_DEVICES
          Kinds,     \* what may sit at a node address
          Faults     \* what the bus and the other tasks may do to a request

AllKinds == {"absent",    \* nobody answers
             "foreign",   \* another vendor
             "unknown",   \* our vendor, a product code not in the list
             "input", "output"}

AllFaults == {"busy",     \* canSend refuses: another task is sending
              "lost",     \* the request or its answer is lost
              "abort",    \* the node aborts, or its answer does not fit
              "early",    \* answered before MAIN stores SCAN_WAIT
              "late"}     \* answered after the deadline

ASSUME MaxDevAssumption == MaxDev \in Nat \ {0}
ASSUME KindsAssumption == Kinds \subseteq AllKinds /\ Kinds # {}
ASSUME FaultsAssumption == Faults \subseteq AllFaults

Nodes == 1..MaxDev
None == 0

VARIABLES
  kind,         \* what is connected at each address during this scan
  pc,           \* MAIN: "loop", "sent" (before SCAN_WAIT) or "expired"
  scanState, currentNode,
  ident,        \* the node whose answer each identity global holds
  line,         \* the SDO client line to each node: the read it is open for
  bus,          \* the requests each node has yet to answer
  table,        \* IOCoupler_Devices.slaveInfo[0 .. numberOfSlaves-1]
  numIn, numOut,  \* numberOfInputSlaves, numberOfOutputSlaves
  leaked,       \* the shared-memory lock was left taken
  asked,        \* history: the nodes whose vendor this scan set out to read
  missed,       \* history: the nodes this scan had a refused, failed or
                \* unanswered request to
  untimely      \* history: the nodes an answer of which this scan handled before
                \* SCAN_WAIT was stored or after the deadline test

mainVars == <<pc, scanState, currentNode>>
sdoVars == <<line, bus>>
tableVars == <<table, numIn, numOut, leaked>>
history == <<asked, missed, untimely>>
vars == <<kind, mainVars, ident, sdoVars, tableVars, history>>

Reads == {"READ_VENDOR", "READ_PRODUCT", "READ_REVISION",
          "READ_SERIAL", "READ_HW_VER", "READ_FW_VER"}

NoIdent == [vendor |-> None, product |-> None, revision |-> None]

Entry == [node : Nodes, input_index : 0..MaxDev, output_index : 0..MaxDev,
          from : SUBSET Nodes, hw : BOOLEAN, fw : BOOLEAN]

TypeOK ==
  /\ kind \in [Nodes -> AllKinds]
  /\ pc \in {"loop", "sent", "expired"}
  /\ scanState \in Reads \cup {"IDLE", "WAIT", "DONE"}
  /\ currentNode \in 0..MaxDev + 2
  /\ ident \in [vendor : Nodes \cup {None}, product : Nodes \cup {None},
                revision : Nodes \cup {None}]
  /\ line \in [Nodes -> Reads \cup {"none"}]
  /\ bus \in [Nodes -> SUBSET Reads]
  /\ table \in Seq(Entry)
  /\ numIn \in 0..MaxDev /\ numOut \in 0..MaxDev
  /\ leaked \in BOOLEAN
  /\ asked \subseteq Nodes /\ missed \subseteq Nodes /\ untimely \subseteq Nodes

\* slip: the two counters survive the reset
ResetTableOnly ==
  /\ scanState' = "IDLE"
  /\ bus' = [n \in Nodes |-> {}]
  /\ table' = <<>>
  /\ asked' = {} /\ missed' = {} /\ untimely' = {}
  /\ UNCHANGED <<numIn, numOut>>

\* IOCoupler_reset: the table is wiped.  Nothing is on the bus any more: 17 s
\* go by in Master_preOperational before the first scan step.
Reset ==
  /\ scanState' = "IDLE"
  /\ bus' = [n \in Nodes |-> {}]
  /\ table' = <<>>
  /\ numIn' = 0 /\ numOut' = 0
  /\ asked' = {} /\ missed' = {} /\ untimely' = {}

Init ==
  /\ kind \in [Nodes -> Kinds]
  /\ pc = "loop"
  /\ scanState = "IDLE"
  /\ currentNode = 0
  /\ ident = NoIdent
  /\ line = [n \in Nodes |-> "none"]
  /\ bus = [n \in Nodes |-> {}]
  /\ table = <<>>
  /\ numIn = 0 /\ numOut = 0
  /\ leaked = FALSE
  /\ asked = {} /\ missed = {} /\ untimely = {}

----------------------------------------------------------------------------
(* MAIN: IOCoupler_scan_task *)

Start ==
  /\ pc = "loop" /\ scanState = "IDLE" /\ ~leaked
  /\ table' = <<>>
  /\ currentNode' = 1
  /\ scanState' = "READ_VENDOR"
  /\ UNCHANGED <<kind, pc, ident, sdoVars, numIn, numOut, leaked, history>>

\* slip: the last address is left out
FinishEarly ==
  /\ pc = "loop" /\ scanState = "READ_VENDOR" /\ currentNode >= MaxDev
  /\ scanState' = "DONE"
  /\ UNCHANGED <<kind, pc, currentNode, ident, sdoVars, tableVars, history>>

Finish ==
  /\ pc = "loop" /\ scanState = "READ_VENDOR" /\ currentNode > MaxDev
  /\ scanState' = "DONE"
  /\ UNCHANGED <<kind, pc, currentNode, ident, sdoVars, tableVars, history>>

\* The scan gives the current node up and goes on with the next one.
NextNode == /\ scanState' = "READ_VENDOR"
            /\ currentNode' = currentNode + 1

\* readNetworkDictCallback: a line is opened and the request sent ...
Accepted(r) ==
  /\ currentNode \in Nodes
  /\ line[currentNode] = "none"
  /\ line' = [line EXCEPT ![currentNode] = r]
  /\ bus' = [bus EXCEPT ![currentNode] = @ \cup {r}]
  /\ pc' = "sent"
  /\ UNCHANGED <<scanState, currentNode, missed>>

\* ... or not: no client for the node, its line in use, or canSend refuses
Refused(r) ==
  /\ \/ currentNode \notin Nodes
     \/ line[currentNode] # "none"
     \/ "busy" \in Faults
  /\ NextNode
  /\ missed' = missed \cup ({currentNode} \cap Nodes)
  /\ UNCHANGED <<pc, sdoVars>>

ReadVendor ==
  /\ pc = "loop" /\ scanState = "READ_VENDOR" /\ currentNode <= MaxDev
  /\ ident' = NoIdent
  /\ asked' = asked \cup {currentNode}
  /\ Accepted("READ_VENDOR") \/ Refused("READ_VENDOR")
  /\ UNCHANGED <<kind, tableVars, untimely>>

ReadItem(r) ==
  /\ pc = "loop" /\ scanState = r /\ r # "READ_VENDOR"
  /\ Accepted(r) \/ Refused(r)
  /\ UNCHANGED <<kind, ident, tableVars, asked, untimely>>

\* START_TIMEOUT and scanState = SCAN_WAIT, whatever a callback did meanwhile
Wait ==
  /\ pc = "sent"
  /\ pc' = "loop"
  /\ scanState' = "WAIT"
  /\ UNCHANGED <<kind, currentNode, ident, sdoVars, tableVars, history>>

\* TIMEOUT_EXPIRED is true.  Without "late" that means no answer is to come.
Expire ==
  /\ pc = "loop" /\ scanState = "WAIT"
  /\ "late" \in Faults \/ \A n \in Nodes : bus[n] # {} => kind[n] = "absent"
  /\ pc' = "expired"
  /\ UNCHANGED <<kind, scanState, currentNode, ident, sdoVars, tableVars, history>>

\* slip: the node is tried again from its vendor
GiveUpRetry ==
  /\ pc = "expired"
  /\ pc' = "loop"
  /\ line' = [n \in Nodes |-> IF n = currentNode THEN "none" ELSE line[n]]
  /\ scanState' = "READ_VENDOR"
  /\ UNCHANGED <<kind, currentNode, ident, bus, tableVars, history>>

\* The node whose request has no answer at the deadline, if there is one: a
\* callback may have taken it, and the last one of a node has moved on already.
Unanswered == {n \in Nodes : n = currentNode /\ line[n] # "none"}

\* slip: the transfer is not closed
GiveUpOpen ==
  /\ pc = "expired"
  /\ pc' = "loop"
  /\ NextNode
  /\ missed' = missed \cup Unanswered
  /\ UNCHANGED <<kind, ident, line, bus, tableVars, asked, untimely>>

GiveUp ==
  /\ pc = "expired"
  /\ pc' = "loop"
  /\ line' = [n \in Nodes |-> IF n = currentNode THEN "none" ELSE line[n]]
  /\ NextNode
  /\ missed' = missed \cup Unanswered
  /\ UNCHANGED <<kind, ident, bus, tableVars, asked, untimely>>

\* master_rescan on a command of the web server, the master being operational
Rescan ==
  /\ pc = "loop" /\ scanState = "DONE" /\ ~leaked
  /\ Reset
  /\ UNCHANGED <<kind, pc, currentNode, ident, line, leaked>>

\* Modules are exchanged, added and removed between two scans; what changes
\* while the coupler operates shows in the next scan only.
Plug(n) ==
  /\ scanState = "IDLE"
  /\ \E k \in Kinds \ {kind[n]} : kind' = [kind EXCEPT ![n] = k]
  /\ UNCHANGED <<mainVars, ident, sdoVars, tableVars, history>>

----------------------------------------------------------------------------
(* RPDO: the answer of node n reaches proceedSDO, then the callback *)

VendorOk(n) == n # None /\ kind[n] # "foreign"
\* slip: any product code will do
ProductAny(n) == n # None

ProductOk(n) == n # None /\ kind[n] \in {"input", "output"}

\* slip: the table is taken for full one entry early
PutSlaveInfoShort(n) ==
  IF Len(table) >= MaxDev - 1
  THEN leaked' = TRUE /\ UNCHANGED <<table, numIn, numOut>>
  ELSE /\ numIn' = numIn + 1
       /\ table' = Append(table, [node |-> n, from |-> {n}, hw |-> FALSE, fw |-> FALSE,
                                  output_index |-> 0, input_index |-> numIn + 1])
       /\ UNCHANGED <<numOut, leaked>>

\* slip: inputs and outputs share one running index
PutSlaveInfoOneIndex(n) ==
  LET isOut == kind[ident.product] = "output" IN
  /\ numOut' = IF isOut THEN numOut + 1 ELSE numOut
  /\ numIn' = IF isOut THEN numIn ELSE numIn + 1
  /\ table' = Append(table,
       [node |-> n, from |-> {n}, hw |-> FALSE, fw |-> FALSE,
        output_index |-> IF isOut THEN Len(table) + 1 ELSE 0,
        input_index |-> IF isOut THEN 0 ELSE Len(table) + 1])
  /\ UNCHANGED leaked

\* IOCoupler_put_slave_info; its first return leaves the lock taken
PutSlaveInfo(n) ==
  LET isOut == kind[ident.product] = "output"
      from == {ident.vendor, ident.product, ident.revision, n} IN
  IF Len(table) >= MaxDev
  THEN /\ leaked' = TRUE
       /\ UNCHANGED <<table, numIn, numOut>>
  ELSE /\ numOut' = IF isOut THEN numOut + 1 ELSE numOut
       /\ numIn' = IF isOut THEN numIn ELSE numIn + 1
       /\ table' = Append(table,
            [node |-> n, from |-> from, hw |-> FALSE, fw |-> FALSE,
             output_index |-> IF isOut THEN numOut + 1 ELSE 0,
             input_index |-> IF isOut THEN 0 ELSE numIn + 1])
       /\ UNCHANGED leaked

\* IOCoupler_update_slave_info_hw_fw, for the string read by r
UpdateVersion(n, r) ==
  /\ table' = [i \in 1..Len(table) |->
       [table[i] EXCEPT
          !.hw = @ \/ (table[i].node = n /\ r = "READ_HW_VER"),
          !.fw = @ \/ (table[i].node = n /\ r = "READ_FW_VER")]]
  /\ UNCHANGED <<numIn, numOut, leaked>>

\* What the callbacks do with a transfer that finished
Got(n, r) ==
  \/ /\ r = "READ_VENDOR"
     /\ ident' = [ident EXCEPT !.vendor = n]
     /\ scanState' = "READ_PRODUCT"
     /\ UNCHANGED <<currentNode, tableVars>>
  \/ /\ r = "READ_PRODUCT"
     /\ ident' = [ident EXCEPT !.product = n]
     /\ scanState' = "READ_REVISION"
     /\ UNCHANGED <<currentNode, tableVars>>
  \/ /\ r = "READ_REVISION"
     /\ ident' = [ident EXCEPT !.revision = n]
     /\ scanState' = "READ_SERIAL"
     /\ UNCHANGED <<currentNode, tableVars>>
  \/ /\ r = "READ_SERIAL"
     /\ IF VendorOk(ident.vendor) /\ ProductOk(ident.product)
        THEN PutSlaveInfo(n) ELSE UNCHANGED tableVars
     /\ scanState' = "READ_HW_VER"
     /\ UNCHANGED <<ident, currentNode>>
  \/ /\ r = "READ_HW_VER"
     /\ UpdateVersion(n, r)
     /\ scanState' = "READ_FW_VER"
     /\ UNCHANGED <<ident, currentNode>>
  \/ /\ r = "READ_FW_VER"
     /\ UpdateVersion(n, r)
     /\ NextNode
     /\ UNCHANGED ident

\* slip: a failed revision read moves on like a good one
NotGotRevision(r) ==
  /\ scanState' = IF r = "READ_REVISION" THEN "READ_SERIAL" ELSE scanState
  /\ UNCHANGED <<currentNode, ident, tableVars>>

\* ... and with one that did not: only the last one still moves on
NotGot(r) ==
  /\ IF r = "READ_FW_VER" THEN NextNode ELSE UNCHANGED <<scanState, currentNode>>
  /\ UNCHANGED <<ident, tableVars>>

\* An answer arrives while MAIN is at a place the timing allows.
Arrives(n) ==
  /\ kind[n] # "absent" /\ ~leaked
  /\ pc = "sent" => "early" \in Faults
  /\ pc = "expired" => "late" \in Faults
  /\ \E r \in bus[n] : bus' = [bus EXCEPT ![n] = @ \ {r}]

Answer(n) ==
  /\ Arrives(n)
  /\ line[n] # "none"
  /\ \/ Got(n, line[n]) /\ UNCHANGED missed
     \/ "abort" \in Faults /\ NotGot(line[n]) /\ missed' = missed \cup {n}
  /\ line' = [line EXCEPT ![n] = "none"]
  /\ untimely' = IF pc = "loop" THEN untimely ELSE untimely \cup {n}
  /\ UNCHANGED <<kind, pc, asked>>

\* No line is open for it: the answer is refused and changes nothing here.
Unexpected(n) ==
  /\ Arrives(n)
  /\ line[n] = "none"
  /\ UNCHANGED <<kind, mainVars, ident, line, tableVars, history>>

Lose(n) ==
  /\ "lost" \in Faults
  /\ \E r \in bus[n] : bus' = [bus EXCEPT ![n] = @ \ {r}]
  /\ UNCHANGED <<kind, mainVars, ident, line, tableVars, history>>

----------------------------------------------------------------------------
Main == \/ Start \/ Finish \/ ReadVendor \/ Wait \/ GiveUp
        \/ \E r \in Reads : ReadItem(r)

Next == \/ Main \/ Expire \/ Rescan
        \/ \E n \in Nodes : Answer(n) \/ Unexpected(n) \/ Lose(n) \/ Plug(n)

Spec == Init /\ [][Next]_vars

(* MAIN is called again after each vTaskDelay(1), the clock passes every     *)
(* deadline, and an answer that is neither lost nor late does arrive.        *)
Fairness == /\ WF_vars(Main)
            /\ WF_vars(Expire)
            /\ \A n \in Nodes : WF_vars(Answer(n))

FairSpec == Spec /\ Fairness

----------------------------------------------------------------------------
(* Properties *)

\* put_slave_info never meets a full table, so its early return, which keeps
\* the shared-memory lock for ever, is never taken.
LockReleased == ~leaked

\* The table lists every device once, by increasing node id, whatever answers
\* come early, late or never.
TableSorted ==
  \A i, j \in 1..Len(table) : i < j => table[i].node < table[j].node

\* Inputs and outputs are numbered 1, 2, ... in table order, each on its own:
\* the PDO a device is mapped to (index - 1) is shared with no other device.
IndexesDense ==
  LET ins == {i \in 1..Len(table) : table[i].input_index # 0}
      outs == {i \in 1..Len(table) : table[i].output_index # 0} IN
  /\ {table[i].input_index : i \in ins} = 1..numIn
  /\ {table[i].output_index : i \in outs} = 1..numOut
  /\ Cardinality(ins) = numIn /\ Cardinality(outs) = numOut
  /\ ins \cap outs = {} /\ numIn + numOut = Len(table)

\* What is recorded of a device was all read from that device, although the
\* identity waits in globals across six requests.
IdentityIsOwn == \A i \in 1..Len(table) : table[i].from = {table[i].node}

\* Only devices of our vendor with a known product code are listed.
OnlyIODevices ==
  \A i \in 1..Len(table) : kind[table[i].node] \in {"input", "output"}

\* The master matches an answer to a request by node only: no node ever has
\* an answer on its way for another entry than the open line asked for.
AnswersMatch ==
  \A n \in Nodes : line[n] # "none" => bus[n] \subseteq {line[n]}

\* The scan has one transfer open at a time, with the node it is at.
OneTransfer == \A n \in Nodes : line[n] # "none" => n = currentNode

\* A finished scan lists, with both version strings, every I/O device that
\* answered each of its requests, and in time.  A refused, failed or unanswered
\* request costs no other node.  An untimely answer may, but only the next one,
\* which is then not asked at all.
CompleteScan ==
  scanState = "DONE" =>
    \A n \in Nodes \ (missed \cup untimely) : kind[n] \in {"input", "output"} =>
      \/ \E i \in 1..Len(table) : table[i].node = n /\ table[i].hw /\ table[i].fw
      \/ n - 1 \in untimely /\ n \notin asked

\* The scan ends, whatever is lost, late or refused.
ScanEnds == scanState = "IDLE" ~> scanState = "DONE"

\* "Scan the network for slaves" (Master.c:570): a finished scan has at least
\* tried to read the vendor of every node address.
EveryNodeAsked == scanState = "DONE" => asked = Nodes
=============================================================================
