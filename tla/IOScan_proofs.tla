---------------------------- MODULE IOScan_proofs ----------------------------
(***************************************************************************)
(* Proofs about IOScan for any number of node addresses, any devices on the *)
(* bus, and any of the faults: requests refused or lost, answers aborted,   *)
(* early or late.                                                           *)
(***************************************************************************)
EXTENDS IOScan, SequenceTheorems, FiniteSetTheorems, TLAPS

USE MaxDevAssumption, KindsAssumption, FaultsAssumption

\* The read the scan is about to send, or the one its open line is for: the
\* stage the current node is at.
AtStage(r) == \/ pc = "loop" /\ scanState = r
              \/ \E n \in Nodes : line[n] = r

Early == {"READ_VENDOR", "READ_PRODUCT", "READ_REVISION", "READ_SERIAL"}

\* A line is open for the current node only, from the request until the end
\* of the wait, and for the read the scan was at.
LineInv ==
  \A n \in Nodes : line[n] # "none" =>
     /\ n = currentNode
     /\ pc = "sent" \/ scanState = "WAIT"
     /\ pc = "sent" => scanState = line[n]

\* How far past the last address each state can be.
CountInv ==
  /\ scanState # "IDLE" => currentNode > 0
  /\ pc = "loop" /\ scanState \in Reads \ {"READ_VENDOR"} => currentNode <= MaxDev
  /\ pc # "loop" \/ scanState = "WAIT" => currentNode <= MaxDev + 1
  /\ pc # "loop" => scanState \notin {"IDLE", "DONE"}

\* The table holds at most one entry per node already passed, and the current
\* node has none before its serial number is read.
TableInv ==
  /\ Len(table) <= currentNode
  /\ \A i \in 1..Len(table) : table[i].node <= currentNode
  /\ \A r \in Early : AtStage(r) =>
        /\ Len(table) < currentNode
        /\ \A i \in 1..Len(table) : table[i].node < currentNode
  /\ TableSorted

NumInv == /\ numIn + numOut = Len(table)
          /\ scanState = "IDLE" => table = <<>>

\* The globals that wait for the serial number hold answers of the current node.
IdentInv ==
  /\ \A r \in {"READ_PRODUCT", "READ_REVISION", "READ_SERIAL"} :
        AtStage(r) => ident.vendor = currentNode
  /\ \A r \in {"READ_REVISION", "READ_SERIAL"} :
        AtStage(r) => ident.product = currentNode
  /\ AtStage("READ_SERIAL") => ident.revision = currentNode

RecordInv == IdentityIsOwn /\ OnlyIODevices

\* No request is on the bus to a node the scan has not reached, nor to the
\* current one when the next request to it is about to be sent.
BusInv ==
  /\ AnswersMatch
  /\ \A n \in Nodes : n > currentNode => bus[n] = {}
  /\ \A n \in Nodes : scanState = "IDLE" => bus[n] = {}
  /\ \A n \in Nodes :
        pc = "loop" /\ scanState \in Reads /\ n = currentNode => bus[n] = {}

\* What the table has of node n, with the version strings asked for
Listed(n, hw, fw) ==
  \E i \in 1..Len(table) :
    table[i].node = n /\ (hw => table[i].hw) /\ (fw => table[i].fw)

\* The untimely answer of the node before moved the scan on, and the deadline of
\* that node's wait moved it on again.
Overtaken(n) == n - 1 \in untimely /\ n \notin asked

\* During a scan, every device that has answered all requests to it in time has as
\* much in the table as the scan has read of it, unless it was overtaken.
DoneInv ==
  /\ scanState = "DONE" => currentNode > MaxDev
  /\ scanState # "IDLE" =>
       \A n \in Nodes \ (missed \cup untimely) : kind[n] \in {"input", "output"} =>
         /\ n < currentNode => Listed(n, TRUE, TRUE) \/ Overtaken(n)
         /\ n = currentNode /\ AtStage("READ_HW_VER") => Listed(n, FALSE, FALSE)
         /\ n = currentNode /\ AtStage("READ_FW_VER") => Listed(n, TRUE, FALSE)

\* What a wait for no answer waits for: the current node, of which an answer went
\* wrong or came at the wrong moment, or one that is being overtaken.
WaitInv ==
  pc # "loop" \/ scanState = "WAIT" =>
    \A n \in Nodes : n = currentNode /\ line[n] = "none" =>
      n \in missed \cup untimely \/ Overtaken(n)

\* No node the scan has not reached was asked.
SeenInv == /\ scanState = "IDLE" => asked = {}
           /\ \A n \in asked : n <= currentNode

Inv == /\ TypeOK /\ LineInv /\ CountInv /\ BusInv /\ TableInv /\ NumInv
       /\ IdentInv /\ RecordInv /\ LockReleased

-----------------------------------------------------------------------------
(* Facts about an answer, and about what its callback does to the table *)

\* The answered line is the current node's, and the answer was the only one
\* the node owed.
LEMMA AnswerFacts ==
  ASSUME Inv, NEW n \in Nodes, Answer(n)
  PROVE  /\ n = currentNode /\ line[n] \in Reads /\ AtStage(line[n])
         /\ bus' = [bus EXCEPT ![n] = {}]
         /\ line' = [line EXCEPT ![n] = "none"]
         /\ UNCHANGED <<kind, pc, asked>>
         /\ untimely' = IF pc = "loop" THEN untimely ELSE untimely \cup {n}
         /\ scanState \in Reads \cup {"WAIT"}
<1>1. n = currentNode /\ line[n] \in Reads
  BY DEF Answer, Inv, LineInv, TypeOK
<1>2. PICK r \in bus[n] : bus' = [bus EXCEPT ![n] = @ \ {r}]
  BY DEF Answer, Arrives
<1>3. bus[n] \subseteq {line[n]}
  BY DEF Answer, Inv, BusInv, AnswersMatch
<1>4. bus[n] \ {r} = {}
  BY <1>3
<1> QED
  BY <1>1, <1>2, <1>4 DEF Answer, AtStage, Inv, LineInv

\* The entry put_slave_info appends is a well-formed one about node n, and
\* there is room for it.
LEMMA PutFacts ==
  ASSUME Inv, NEW n \in Nodes, Answer(n), line[n] = "READ_SERIAL",
         VendorOk(ident.vendor), ProductOk(ident.product), PutSlaveInfo(n)
  PROVE  /\ leaked' = leaked
         /\ numIn' + numOut' = Len(table) + 1
         /\ numIn' \in 0..MaxDev /\ numOut' \in 0..MaxDev
         /\ Len(table) < n
         /\ \A i \in 1..Len(table) : table[i].node < n
         /\ \E e \in Entry : /\ table' = Append(table, e)
                             /\ e.node = n /\ e.from = {n}
                             /\ kind[n] \in {"input", "output"}
                             /\ \/ /\ numOut' = numOut + 1 /\ e.output_index = numOut + 1
                                   /\ numIn' = numIn /\ e.input_index = 0
                                \/ /\ numIn' = numIn + 1 /\ e.input_index = numIn + 1
                                   /\ numOut' = numOut /\ e.output_index = 0
<1>1. n = currentNode /\ AtStage("READ_SERIAL")
  BY AnswerFacts
<1>2. ident.vendor = n /\ ident.product = n /\ ident.revision = n
  BY <1>1 DEF Inv, IdentInv
<1>3. Len(table) < n /\ \A i \in 1..Len(table) : table[i].node < n
  BY <1>1 DEF Inv, TableInv, Early
<1>4. n \in Nat /\ n <= MaxDev /\ Len(table) \in Nat
  BY DEF Nodes, Inv, TypeOK
<1>5. ~(Len(table) >= MaxDev)
  BY <1>3, <1>4
<1>6. numIn + numOut = Len(table) /\ numIn \in Nat /\ numOut \in Nat
  BY DEF Inv, NumInv, TypeOK
<1>7. /\ numIn' + numOut' = Len(table) + 1
      /\ numIn' \in 0..MaxDev /\ numOut' \in 0..MaxDev /\ leaked' = leaked
  BY <1>3, <1>4, <1>5, <1>6 DEF PutSlaveInfo
<1>8. kind[n] \in {"input", "output"}
  BY <1>2 DEF ProductOk
<1> DEFINE o == IF kind[n] = "output" THEN numOut + 1 ELSE 0
           p == IF kind[n] = "output" THEN 0 ELSE numIn + 1
           e == [node |-> n, from |-> {n}, hw |-> FALSE, fw |-> FALSE,
                 output_index |-> o, input_index |-> p]
<1>9. table' = Append(table, [node |-> n, from |-> {n, n, n, n},
                              hw |-> FALSE, fw |-> FALSE,
                              output_index |-> o, input_index |-> p])
  BY <1>2, <1>5 DEF PutSlaveInfo
<1>10. /\ o \in 0..MaxDev /\ p \in 0..MaxDev
       /\ \/ numOut' = numOut + 1 /\ o = numOut + 1 /\ numIn' = numIn /\ p = 0
          \/ numIn' = numIn + 1 /\ p = numIn + 1 /\ numOut' = numOut /\ o = 0
  BY <1>2, <1>3, <1>4, <1>5, <1>6 DEF PutSlaveInfo
<1> HIDE DEF o, p
<1>11. /\ e \in Entry /\ table' = Append(table, e) /\ e.node = n /\ e.from = {n}
       /\ e.output_index = o /\ e.input_index = p
  <2>1. {n, n, n, n} = {n}
    OBVIOUS
  <2> QED BY <1>9, <1>10, <2>1 DEF Entry
<1> QED
  BY <1>3, <1>7, <1>8, <1>10, <1>11

\* Storing a version string changes no other field and no length.
LEMMA UpdateFacts ==
  ASSUME TypeOK, NEW n \in Nodes, NEW r, UpdateVersion(n, r)
  PROVE  /\ table' \in Seq(Entry)
         /\ Len(table') = Len(table)
         /\ \A i \in 1..Len(table) : /\ table'[i].node = table[i].node
                                     /\ table'[i].from = table[i].from
                                     /\ table'[i].input_index = table[i].input_index
                                     /\ table'[i].output_index = table[i].output_index
         /\ \A i \in 1..Len(table) :
              /\ table[i].hw \/ (table[i].node = n /\ r = "READ_HW_VER") => table'[i].hw
              /\ table[i].fw \/ (table[i].node = n /\ r = "READ_FW_VER") => table'[i].fw
         /\ UNCHANGED <<numIn, numOut, leaked>>
<1>1. table \in Seq(Entry) /\ Len(table) \in Nat
  BY DEF TypeOK
<1>2. \A i \in 1..Len(table) : table[i] \in Entry
  BY <1>1
<1> DEFINE f(i) == [table[i] EXCEPT
          !.hw = @ \/ (table[i].node = n /\ r = "READ_HW_VER"),
          !.fw = @ \/ (table[i].node = n /\ r = "READ_FW_VER")]
<1>3. ASSUME NEW i \in 1..Len(table)
      PROVE  /\ f(i) \in Entry /\ f(i).node = table[i].node /\ f(i).from = table[i].from
             /\ f(i).input_index = table[i].input_index
             /\ f(i).output_index = table[i].output_index
             /\ table[i].hw \/ (table[i].node = n /\ r = "READ_HW_VER") => f(i).hw
             /\ table[i].fw \/ (table[i].node = n /\ r = "READ_FW_VER") => f(i).fw
  BY <1>2 DEF Entry
<1>4. table' = [i \in 1..Len(table) |-> f(i)]
  BY DEF UpdateVersion
<1> HIDE DEF f
<1>5. table' \in Seq(Entry) /\ Len(table') = Len(table)
  BY <1>1, <1>3, <1>4
<1> QED
  BY <1>3, <1>4, <1>5 DEF UpdateVersion

-----------------------------------------------------------------------------
(* Each part of Inv is kept by every step *)

\* One line, for the read under way.
LEMMA LineStep == Inv /\ [Next]_vars => LineInv'
<1> SUFFICES ASSUME Inv, [Next]_vars PROVE LineInv'
  OBVIOUS
<1> USE DEF Inv, TypeOK, LineInv, Reads, mainVars, sdoVars, tableVars
<1>1. CASE Start
  BY <1>1 DEF Start
<1>2. CASE Finish
  BY <1>2 DEF Finish
<1>3. CASE ReadVendor
  BY <1>3 DEF ReadVendor, Accepted, Refused, NextNode
<1>4. ASSUME NEW r \in Reads, ReadItem(r) PROVE LineInv'
  BY <1>4 DEF ReadItem, Accepted, Refused, NextNode
<1>5. CASE Wait
  BY <1>5 DEF Wait
<1>6. CASE GiveUp
  BY <1>6 DEF GiveUp, NextNode
<1>7. CASE Expire
  BY <1>7 DEF Expire
<1>8. CASE Rescan
  BY <1>8 DEF Rescan, Reset
<1>9. ASSUME NEW n \in Nodes, Answer(n) PROVE LineInv'
  BY <1>9, AnswerFacts DEF Answer, Got, NotGot, NextNode
<1>10. ASSUME NEW n \in Nodes, Unexpected(n) \/ Lose(n) PROVE LineInv'
  BY <1>10 DEF Unexpected, Arrives, Lose
<1>11. CASE UNCHANGED vars
  BY <1>11 DEF vars
<1>12. ASSUME NEW n \in Nodes, Plug(n) PROVE LineInv'
  BY <1>12 DEF Plug
<1> QED
  BY <1>1, <1>2, <1>3, <1>4, <1>5, <1>6, <1>7, <1>8, <1>9, <1>10, <1>11, <1>12
  DEF Next, Main

\* The current node never runs further past the last one than a skipped
\* address.
LEMMA CountStep == Inv /\ [Next]_vars => CountInv'
<1> SUFFICES ASSUME Inv, [Next]_vars PROVE CountInv'
  OBVIOUS
<1> USE DEF Inv, TypeOK, CountInv, LineInv, Reads, Nodes, mainVars, sdoVars, tableVars
<1>1. CASE Start
  BY <1>1 DEF Start
<1>2. CASE Finish
  BY <1>2 DEF Finish
<1>3. CASE ReadVendor
  BY <1>3 DEF ReadVendor, Accepted, Refused, NextNode
<1>4. ASSUME NEW r \in Reads, ReadItem(r) PROVE CountInv'
  BY <1>4 DEF ReadItem, Accepted, Refused, NextNode
<1>5. CASE Wait
  BY <1>5 DEF Wait
<1>6. CASE GiveUp
  BY <1>6 DEF GiveUp, NextNode
<1>7. CASE Expire
  BY <1>7 DEF Expire
<1>8. CASE Rescan
  BY <1>8 DEF Rescan, Reset
<1>9. ASSUME NEW n \in Nodes, Answer(n) PROVE CountInv'
  BY <1>9, AnswerFacts DEF Answer, Got, NotGot, NextNode
<1>10. ASSUME NEW n \in Nodes, Unexpected(n) \/ Lose(n) PROVE CountInv'
  BY <1>10 DEF Unexpected, Arrives, Lose
<1>11. CASE UNCHANGED vars
  BY <1>11 DEF vars
<1>12. ASSUME NEW n \in Nodes, Plug(n) PROVE CountInv'
  BY <1>12 DEF Plug
<1> QED
  BY <1>1, <1>2, <1>3, <1>4, <1>5, <1>6, <1>7, <1>8, <1>9, <1>10, <1>11, <1>12
  DEF Next, Main

\* A node is asked one thing at a time.
LEMMA BusStep == Inv /\ [Next]_vars => BusInv'
<1> SUFFICES ASSUME Inv, [Next]_vars PROVE BusInv'
  OBVIOUS
<1> USE DEF Inv, TypeOK, CountInv, LineInv, BusInv, AnswersMatch, Reads, Nodes, mainVars, sdoVars, tableVars
<1>1. CASE Start
  BY <1>1 DEF Start
<1>2. CASE Finish
  BY <1>2 DEF Finish
<1>3. CASE ReadVendor
  BY <1>3 DEF ReadVendor, Accepted, Refused, NextNode
<1>4. ASSUME NEW r \in Reads, ReadItem(r) PROVE BusInv'
  BY <1>4 DEF ReadItem, Accepted, Refused, NextNode
<1>5. CASE Wait
  BY <1>5 DEF Wait
<1>6. CASE GiveUp
  BY <1>6 DEF GiveUp, NextNode
<1>7. CASE Expire
  BY <1>7 DEF Expire
<1>8. CASE Rescan
  BY <1>8 DEF Rescan, Reset
<1>9. ASSUME NEW n \in Nodes, Answer(n) PROVE BusInv'
  <2>1. /\ n = currentNode
        /\ bus' = [bus EXCEPT ![n] = {}]
        /\ line' = [line EXCEPT ![n] = "none"]
    BY <1>9, AnswerFacts
  <2>2. /\ currentNode' \in {currentNode, currentNode + 1}
        /\ scanState' \in Reads \cup {scanState}
        /\ scanState # "IDLE"
    BY <1>9, AnswerFacts DEF Answer, Got, NotGot, NextNode
  <2>3. \A m \in Nodes : m >= n => bus'[m] = {}
    BY <2>1
  <2>4. AnswersMatch'
    BY <2>1
  <2> QED
    BY <2>1, <2>2, <2>3, <2>4
<1>10. ASSUME NEW n \in Nodes, Unexpected(n) \/ Lose(n) PROVE BusInv'
  BY <1>10 DEF Unexpected, Arrives, Lose
<1>11. CASE UNCHANGED vars
  BY <1>11 DEF vars
<1>12. ASSUME NEW n \in Nodes, Plug(n) PROVE BusInv'
  BY <1>12 DEF Plug
<1> QED
  BY <1>1, <1>2, <1>3, <1>4, <1>5, <1>6, <1>7, <1>8, <1>9, <1>10, <1>11, <1>12
  DEF Next, Main

\* What an answer can do to the table.
LEMMA AnswerTable ==
  ASSUME NEW n \in Nodes, Answer(n)
  PROVE  \/ UNCHANGED tableVars
         \/ /\ line[n] = "READ_SERIAL" /\ PutSlaveInfo(n)
            /\ VendorOk(ident.vendor) /\ ProductOk(ident.product)
            /\ scanState' = "READ_HW_VER" /\ currentNode' = currentNode
         \/ UpdateVersion(n, line[n])
BY DEF Answer, Got, NotGot

\* Where the scan goes on after an answer: only with a version string read, or
\* with a later read of the same node, or with the next node.
LEMMA AnswerMoves ==
  ASSUME Inv, NEW n \in Nodes, Answer(n)
  PROVE  /\ \/ scanState' = scanState /\ currentNode' = currentNode
            \/ /\ currentNode' = currentNode
               /\ scanState' \in Reads \ {"READ_VENDOR"}
               /\ scanState' \in Early => line[n] \in Early
            \/ scanState' = "READ_VENDOR" /\ currentNode' = currentNode + 1
         /\ \A m \in Nodes : line'[m] = "none"
         /\ pc = "loop" => scanState = "WAIT"
<1>1. \A m \in Nodes : line'[m] = "none"
  BY AnswerFacts DEF Inv, LineInv, TypeOK
<1>2. pc = "loop" => scanState = "WAIT"
  BY AnswerFacts DEF Inv, LineInv, Reads
<1> QED
  BY <1>1, <1>2, AnswerFacts
  DEF Answer, Got, NotGot, NextNode, Reads, Early, mainVars

\* Every variable stays in its type: the counters within MaxDev, the table a
\* sequence of entries.
LEMMA TypeStep == Inv /\ [Next]_vars => TypeOK'
<1> SUFFICES ASSUME Inv, [Next]_vars PROVE TypeOK'
  OBVIOUS
<1> USE DEF TypeOK, NoIdent, None, sdoVars, mainVars, tableVars, history
<1>1. CASE Start
  BY <1>1 DEF Inv, Start, Reads, Nodes
<1>2. CASE Finish
  BY <1>2 DEF Inv, Finish
<1>3. CASE ReadVendor
  <2>1. currentNode' \in 0..MaxDev + 2 /\ scanState' \in Reads
    BY <1>3 DEF Inv, ReadVendor, Accepted, Refused, NextNode, Reads, Nodes
  <2>2. /\ line' \in [Nodes -> Reads \cup {"none"}]
        /\ bus' \in [Nodes -> SUBSET Reads]
    BY <1>3 DEF Inv, ReadVendor, Accepted, Refused, Reads
  <2>3. asked' \subseteq Nodes
    <3>1. currentNode \in Nodes
      BY <1>3 DEF Inv, CountInv, ReadVendor, Nodes
    <3> QED BY <1>3, <3>1 DEF Inv, ReadVendor
  <2>4. missed' \subseteq Nodes
    BY <1>3 DEF Inv, ReadVendor, Accepted, Refused
  <2> QED BY <1>3, <2>1, <2>2, <2>3, <2>4 DEF Inv, ReadVendor, Accepted, Refused
<1>4. ASSUME NEW r \in Reads, ReadItem(r) PROVE TypeOK'
  <2>1. currentNode' \in 0..MaxDev + 2 /\ scanState' \in Reads
    BY <1>4 DEF Inv, CountInv, ReadItem, Accepted, Refused, NextNode, Reads
  <2>2. /\ line' \in [Nodes -> Reads \cup {"none"}]
        /\ bus' \in [Nodes -> SUBSET Reads]
    <3>1. CASE Accepted(r)
      BY <3>1 DEF Inv, Accepted
    <3>2. CASE Refused(r)
      BY <3>2 DEF Inv, Refused
    <3> QED BY <1>4, <3>1, <3>2 DEF ReadItem
  <2>3. missed' \subseteq Nodes
    BY <1>4 DEF Inv, ReadItem, Accepted, Refused
  <2>4. /\ pc' \in {"loop", "sent", "expired"}
        /\ UNCHANGED <<kind, ident, tableVars, asked, untimely>>
    BY <1>4 DEF Inv, ReadItem, Accepted, Refused
  <2> QED BY <2>1, <2>2, <2>3, <2>4 DEF Inv
<1>5. CASE Wait
  BY <1>5 DEF Inv, Wait
<1>6. CASE GiveUp
  <2>1. currentNode' \in 0..MaxDev + 2 /\ scanState' \in Reads
    BY <1>6 DEF Inv, CountInv, GiveUp, NextNode, Reads
  <2>2. line' \in [Nodes -> Reads \cup {"none"}]
    BY <1>6 DEF Inv, GiveUp
  <2>3. missed' \subseteq Nodes
    BY <1>6 DEF Inv, GiveUp, Unanswered
  <2> QED BY <1>6, <2>1, <2>2, <2>3 DEF Inv, GiveUp
<1>7. CASE Expire
  BY <1>7 DEF Inv, Expire
<1>8. CASE Rescan
  BY <1>8 DEF Inv, Rescan, Reset
<1>9. ASSUME NEW n \in Nodes, Answer(n) PROVE TypeOK'
  <2> USE AnswerFacts
  <2>1. /\ scanState' \in Reads \cup {"IDLE", "WAIT", "DONE"}
        /\ currentNode' \in {currentNode, currentNode + 1}
        /\ ident' \in [vendor : Nodes \cup {None}, product : Nodes \cup {None},
                       revision : Nodes \cup {None}]
    BY <1>9 DEF Inv, Answer, Got, NotGot, NextNode, Reads
  <2>2. currentNode' \in 0..MaxDev + 2
    BY <1>9, <2>1 DEF Nodes, Inv
  <2>3. /\ table' \in Seq(Entry) /\ leaked' \in BOOLEAN
        /\ numIn' \in 0..MaxDev /\ numOut' \in 0..MaxDev
    <3>1. CASE UNCHANGED tableVars
      BY <3>1 DEF Inv
    <3>2. CASE UpdateVersion(n, line[n])
      BY <3>2, UpdateFacts DEF Inv
    <3>3. CASE /\ line[n] = "READ_SERIAL" /\ PutSlaveInfo(n)
               /\ VendorOk(ident.vendor) /\ ProductOk(ident.product)
      <4>1. PICK e \in Entry : table' = Append(table, e)
        BY <1>9, <3>3, PutFacts
      <4> QED BY <1>9, <3>3, <4>1, PutFacts DEF Inv
    <3> QED BY <1>9, <3>1, <3>2, <3>3, AnswerTable
  <2>4. kind' \in [Nodes -> AllKinds] /\ pc' \in {"loop", "sent", "expired"}
        /\ line' \in [Nodes -> Reads \cup {"none"}]
        /\ bus' \in [Nodes -> SUBSET Reads] /\ asked' \subseteq Nodes
    BY <1>9 DEF Inv
  <2>5. missed' \subseteq Nodes /\ untimely' \subseteq Nodes
    BY <1>9 DEF Inv, Answer
  <2> QED BY <2>1, <2>2, <2>3, <2>4, <2>5
<1>10. ASSUME NEW n \in Nodes, Unexpected(n) \/ Lose(n) PROVE TypeOK'
  BY <1>10 DEF Inv, Unexpected, Arrives, Lose
<1>11. CASE UNCHANGED vars
  BY <1>11 DEF Inv, vars
<1>12. ASSUME NEW n \in Nodes, Plug(n) PROVE TypeOK'
  BY <1>12 DEF Inv, Plug
<1> QED
  BY <1>1, <1>2, <1>3, <1>4, <1>5, <1>6, <1>7, <1>8, <1>9, <1>10, <1>11, <1>12
  DEF Next, Main

\* The step stays at its node or goes to the next, and a node that is at an
\* early stage after it was at one before it or is a new one.
StageKept ==
  /\ currentNode' \in {currentNode, currentNode + 1}
  /\ (\E r \in Early : (AtStage(r))') =>
        \/ currentNode' = currentNode + 1
        \/ \E r \in Early : AtStage(r)

\* Such a step keeps TableInv if it leaves the entries where they are.
LEMMA TableKept ==
  ASSUME TypeOK, TableInv, StageKept, Len(table') = Len(table),
         \A i \in 1..Len(table) : table'[i].node = table[i].node
  PROVE  TableInv'
<1>1. table \in Seq(Entry) /\ Len(table) \in Nat /\ currentNode \in Nat
  BY DEF TypeOK
<1>2. \A i \in 1..Len(table) : table[i].node \in Nat
  <2> SUFFICES ASSUME NEW i \in 1..Len(table) PROVE table[i].node \in Nat
    OBVIOUS
  <2>1. table[i] \in Entry
    BY <1>1
  <2> QED BY <2>1 DEF Entry, Nodes
<1> HIDE DEF TypeOK
<1>3. Len(table') <= currentNode'
  BY <1>1 DEF TableInv, StageKept
<1>4. \A i \in 1..Len(table') : table'[i].node <= currentNode'
  BY <1>1, <1>2 DEF TableInv, StageKept
<1>5. ASSUME NEW r \in Early, (AtStage(r))'
      PROVE  /\ Len(table') < currentNode'
             /\ \A i \in 1..Len(table') : table'[i].node < currentNode'
  <2>1. CASE currentNode' = currentNode + 1
    BY <1>1, <1>2, <2>1 DEF TableInv
  <2>2. CASE currentNode' = currentNode /\ \E q \in Early : AtStage(q)
    BY <1>1, <1>2, <2>2 DEF TableInv
  <2> QED BY <1>5, <2>1, <2>2 DEF StageKept
<1>6. TableSorted'
  BY <1>1 DEF TableInv, TableSorted
<1> QED
  BY <1>3, <1>4, <1>5, <1>6 DEF TableInv

\* The table stays sorted and shorter than the scan is far.
LEMMA TableStep == Inv /\ [Next]_vars => TableInv'
<1> SUFFICES ASSUME Inv, [Next]_vars PROVE TableInv'
  OBVIOUS
<1>1. CASE Start
  BY <1>1 DEF Start, TableInv, TableSorted, AtStage
<1>2. CASE Finish
  <2>1. StageKept
    BY <1>2 DEF StageKept, Inv, TypeOK, LineInv, Finish, AtStage, Early
  <2> QED BY <1>2, <2>1, TableKept DEF Inv, Finish, tableVars
<1>3. CASE ReadVendor
  <2>1. StageKept
    BY <1>3 DEF StageKept, Inv, TypeOK, LineInv, ReadVendor, AtStage, Early, Accepted, Refused, NextNode
  <2> QED BY <1>3, <2>1, TableKept DEF Inv, ReadVendor, Accepted, Refused, NextNode, tableVars
<1>4. ASSUME NEW r \in Reads, ReadItem(r) PROVE TableInv'
  <2>1. StageKept
    BY <1>4 DEF StageKept, Inv, TypeOK, LineInv, ReadItem, AtStage, Early, Accepted, Refused, NextNode
  <2> QED BY <1>4, <2>1, TableKept DEF Inv, ReadItem, Accepted, Refused, NextNode, tableVars
<1>5. CASE Wait
  <2>1. StageKept
    <3>1. currentNode' = currentNode /\ line' = line /\ scanState' = "WAIT"
      BY <1>5 DEF Wait, sdoVars
    <3>2. \A r \in Early : (AtStage(r))' => AtStage(r)
      BY <3>1 DEF AtStage, Early
    <3> QED BY <3>1, <3>2 DEF StageKept
  <2> QED BY <1>5, <2>1, TableKept DEF Inv, Wait, tableVars
<1>6. CASE GiveUp
  <2>1. StageKept
    BY <1>6 DEF StageKept, Inv, TypeOK, LineInv, GiveUp, AtStage, Early, NextNode
  <2> QED BY <1>6, <2>1, TableKept DEF Inv, GiveUp, NextNode, tableVars
<1>7. CASE Expire
  <2>1. StageKept
    BY <1>7 DEF StageKept, Inv, TypeOK, LineInv, Expire, AtStage, Early, mainVars, sdoVars
  <2> QED BY <1>7, <2>1, TableKept DEF Inv, Expire, mainVars, sdoVars, tableVars
<1>8. CASE Rescan
  BY <1>8 DEF Rescan, Reset, TableInv, TableSorted, AtStage, Early, Inv, TypeOK, LineInv
<1>9. ASSUME NEW n \in Nodes, Answer(n) PROVE TableInv'
  <2>1. \A r \in Early : line[n] = r => AtStage(r)
    BY DEF AtStage
  <2>2. StageKept
    BY <1>9, <2>1, AnswerMoves, AnswerFacts DEF StageKept, AtStage, Early, Reads
  <2>3. CASE UNCHANGED tableVars
    BY <2>2, <2>3, TableKept DEF Inv, tableVars
  <2>4. CASE UpdateVersion(n, line[n])
    BY <2>2, <2>4, TableKept, UpdateFacts DEF Inv
  <2>5. CASE /\ line[n] = "READ_SERIAL" /\ PutSlaveInfo(n)
             /\ VendorOk(ident.vendor) /\ ProductOk(ident.product)
             /\ scanState' = "READ_HW_VER" /\ currentNode' = currentNode
    <3>1. PICK e \in Entry : table' = Append(table, e) /\ e.node = n
      BY <1>9, <2>5, PutFacts
    <3>2. Len(table) < n /\ \A i \in 1..Len(table) : table[i].node < n
      BY <1>9, <2>5, PutFacts
    <3>3. table \in Seq(Entry) /\ Len(table) \in Nat /\ n = currentNode /\ n \in Nat
      BY <1>9, AnswerFacts DEF Inv, TypeOK, Nodes
    <3>4. /\ Len(table') = Len(table) + 1
          /\ \A i \in 1..Len(table) : table'[i] = table[i]
          /\ table'[Len(table) + 1] = e
      BY <3>1, <3>3
    <3>5. \A r \in Early : ~(AtStage(r))'
      BY <1>9, <2>5, AnswerMoves DEF AtStage, Early
    <3>6. \A i \in 1..Len(table') : i \in 1..Len(table) \/ i = Len(table) + 1
      BY <3>3, <3>4
    <3>7. TableSorted'
      BY <3>1, <3>2, <3>3, <3>4, <3>6 DEF TableSorted, Inv, TableInv
    <3>8. Len(table') <= currentNode'
      BY <2>5, <3>2, <3>3, <3>4
    <3>9. \A i \in 1..Len(table') : table'[i].node <= currentNode'
      BY <2>5, <3>1, <3>3, <3>4, <3>6 DEF Inv, TableInv
    <3> QED BY <3>5, <3>7, <3>8, <3>9 DEF TableInv
  <2> QED BY <1>9, <2>3, <2>4, <2>5, AnswerTable
<1>10. ASSUME NEW n \in Nodes, Unexpected(n) \/ Lose(n) PROVE TableInv'
  <2>1. StageKept
    BY <1>10 DEF StageKept, Inv, TypeOK, LineInv, Unexpected, AtStage, Early, Lose, mainVars, sdoVars
  <2> QED BY <1>10, <2>1, TableKept DEF Inv, Unexpected, Lose, mainVars, sdoVars, tableVars
<1>11. CASE UNCHANGED vars
  <2>1. StageKept
    BY <1>11 DEF StageKept, Inv, TypeOK, LineInv, vars, AtStage, Early, mainVars, sdoVars
  <2> QED BY <1>11, <2>1, TableKept DEF Inv, vars, mainVars, sdoVars, tableVars
<1>12. ASSUME NEW n \in Nodes, Plug(n) PROVE TableInv'
  <2>1. StageKept
    BY <1>12 DEF StageKept, Inv, TypeOK, LineInv, Plug, AtStage, Early, mainVars, sdoVars
  <2> QED BY <1>12, <2>1, TableKept DEF Inv, Plug, mainVars, sdoVars, tableVars
<1> QED
  BY <1>1, <1>2, <1>3, <1>4, <1>5, <1>6, <1>7, <1>8, <1>9, <1>10, <1>11, <1>12
  DEF Next, Main

\* Every entry is counted once, as an input or as an output.
LEMMA NumStep == Inv /\ [Next]_vars => NumInv'
<1> SUFFICES ASSUME Inv, [Next]_vars PROVE NumInv'
  OBVIOUS
<1>1. CASE Start
  BY <1>1 DEF Inv, NumInv, mainVars, tableVars, Reads, Start
<1>2. CASE Finish
  BY <1>2 DEF Inv, NumInv, mainVars, tableVars, Reads, Finish
<1>3. CASE ReadVendor
  BY <1>3 DEF Inv, NumInv, mainVars, tableVars, Reads, ReadVendor, Accepted, Refused, NextNode
<1>4. ASSUME NEW r \in Reads, ReadItem(r) PROVE NumInv'
  BY <1>4 DEF Inv, NumInv, mainVars, tableVars, Reads, ReadItem, Accepted, Refused, NextNode
<1>5. CASE Wait
  BY <1>5 DEF Inv, NumInv, mainVars, tableVars, Reads, Wait
<1>6. CASE GiveUp
  BY <1>6 DEF Inv, NumInv, mainVars, tableVars, Reads, GiveUp, NextNode
<1>7. CASE Expire
  BY <1>7 DEF Inv, NumInv, mainVars, tableVars, Reads, Expire
<1>8. CASE Rescan
  BY <1>8 DEF Inv, NumInv, mainVars, tableVars, Reads, Rescan, Reset
<1>9. ASSUME NEW n \in Nodes, Answer(n) PROVE NumInv'
  <2>1. scanState' # "IDLE"
    BY <1>9, AnswerMoves, AnswerFacts DEF Reads
  <2>2. CASE UNCHANGED tableVars
    BY <2>1, <2>2 DEF Inv, NumInv, tableVars
  <2>3. CASE UpdateVersion(n, line[n])
    BY <2>1, <2>3, UpdateFacts DEF Inv, NumInv
  <2>4. CASE /\ line[n] = "READ_SERIAL" /\ PutSlaveInfo(n)
             /\ VendorOk(ident.vendor) /\ ProductOk(ident.product)
    <3>1. PICK e \in Entry : table' = Append(table, e)
      BY <1>9, <2>4, PutFacts
    <3>2. Len(table') = Len(table) + 1
      BY <3>1 DEF Inv, TypeOK
    <3> QED BY <1>9, <2>1, <2>4, <3>2, PutFacts DEF NumInv
  <2> QED BY <1>9, <2>2, <2>3, <2>4, AnswerTable
<1>10. ASSUME NEW n \in Nodes, Unexpected(n) \/ Lose(n) PROVE NumInv'
  BY <1>10 DEF Inv, NumInv, mainVars, tableVars, Reads, Unexpected, Arrives, Lose
<1>11. CASE UNCHANGED vars
  BY <1>11 DEF Inv, NumInv, mainVars, tableVars, Reads, vars
<1>12. ASSUME NEW n \in Nodes, Plug(n) PROVE NumInv'
  BY <1>12 DEF Inv, NumInv, mainVars, tableVars, Plug
<1> QED
  BY <1>1, <1>2, <1>3, <1>4, <1>5, <1>6, <1>7, <1>8, <1>9, <1>10, <1>11, <1>12
  DEF Next, Main

\* The identity globals belong to the node being read.
LEMMA IdentStep == Inv /\ [Next]_vars => IdentInv'
<1> SUFFICES ASSUME Inv, [Next]_vars PROVE IdentInv'
  OBVIOUS
<1> USE DEF Inv, TypeOK, IdentInv, LineInv, Reads, tableVars, mainVars, sdoVars
<1>1. CASE Start
  BY <1>1 DEF AtStage, Start
<1>2. CASE Finish
  BY <1>2 DEF AtStage, Finish
<1>3. CASE ReadVendor
  BY <1>3 DEF ReadVendor, Accepted, Refused, NextNode, AtStage
<1>4. ASSUME NEW r \in Reads, ReadItem(r) PROVE IdentInv'
  BY <1>4 DEF ReadItem, Accepted, Refused, NextNode, AtStage
<1>5. CASE Wait
  BY <1>5 DEF AtStage, Wait
<1>6. CASE GiveUp
  BY <1>6 DEF GiveUp, NextNode, AtStage
<1>7. CASE Expire
  BY <1>7 DEF AtStage, Expire
<1>8. CASE Rescan
  BY <1>8 DEF AtStage, Rescan, Reset
<1>9. ASSUME NEW n \in Nodes, Answer(n) PROVE IdentInv'
  <2>1. n = currentNode /\ AtStage(line[n])
    BY <1>9, AnswerFacts
  <2>2. \A m \in Nodes : line'[m] = "none"
    BY <1>9, AnswerMoves
  <2> QED
    BY <1>9, <2>1, <2>2, AnswerMoves
    DEF Answer, Got, NotGot, NextNode, AtStage
<1>10. ASSUME NEW n \in Nodes, Unexpected(n) \/ Lose(n) PROVE IdentInv'
  BY <1>10 DEF AtStage, Unexpected, Arrives, Lose
<1>11. CASE UNCHANGED vars
  BY <1>11 DEF AtStage, vars
<1>12. ASSUME NEW n \in Nodes, Plug(n) PROVE IdentInv'
  BY <1>12 DEF AtStage, mainVars, sdoVars, Plug
<1> QED
  BY <1>1, <1>2, <1>3, <1>4, <1>5, <1>6, <1>7, <1>8, <1>9, <1>10, <1>11, <1>12
  DEF Next, Main

\* What the table says of a device is true, and the lock is given back.
LEMMA RecordStep == Inv /\ [Next]_vars => (RecordInv /\ LockReleased)'
<1> SUFFICES ASSUME Inv, [Next]_vars PROVE (RecordInv /\ LockReleased)'
  OBVIOUS
<1> USE DEF RecordInv, IdentityIsOwn, OnlyIODevices, LockReleased, tableVars, mainVars, sdoVars
<1>1. CASE Start
  BY <1>1 DEF Inv, Start
<1>2. CASE Finish
  BY <1>2 DEF Inv, Finish
<1>3. CASE ReadVendor
  BY <1>3 DEF Inv, ReadVendor, Accepted, Refused, NextNode
<1>4. ASSUME NEW r \in Reads, ReadItem(r) PROVE (RecordInv /\ LockReleased)'
  BY <1>4 DEF Inv, ReadItem, Accepted, Refused, NextNode
<1>5. CASE Wait
  BY <1>5 DEF Inv, Wait
<1>6. CASE GiveUp
  BY <1>6 DEF Inv, GiveUp, NextNode
<1>7. CASE Expire
  BY <1>7 DEF Inv, Expire
<1>8. CASE Rescan
  BY <1>8 DEF Inv, Rescan, Reset
<1>9. ASSUME NEW n \in Nodes, Answer(n) PROVE (RecordInv /\ LockReleased)'
  <2>1. kind' = kind /\ table \in Seq(Entry)
    BY <1>9, AnswerFacts DEF Inv, TypeOK
  <2>2. CASE UNCHANGED tableVars
    BY <2>1, <2>2 DEF Inv
  <2>3. CASE UpdateVersion(n, line[n])
    BY <2>1, <2>3, UpdateFacts DEF Inv
  <2>4. CASE /\ line[n] = "READ_SERIAL" /\ PutSlaveInfo(n)
             /\ VendorOk(ident.vendor) /\ ProductOk(ident.product)
    <3>1. PICK e \in Entry : /\ table' = Append(table, e)
                             /\ e.node = n /\ e.from = {n}
      BY <1>9, <2>4, PutFacts
    <3>2. leaked' = leaked /\ kind[n] \in {"input", "output"}
      BY <1>9, <2>4, PutFacts
    <3>3. /\ Len(table') = Len(table) + 1
          /\ \A i \in 1..Len(table) : table'[i] = table[i]
          /\ table'[Len(table) + 1] = e
      BY <2>1, <3>1
    <3>4. \A i \in 1..Len(table') : i \in 1..Len(table) \/ i = Len(table) + 1
      BY <2>1, <3>3
    <3> QED BY <2>1, <3>1, <3>2, <3>3, <3>4 DEF Inv
  <2> QED BY <1>9, <2>2, <2>3, <2>4, AnswerTable
<1>10. ASSUME NEW n \in Nodes, Unexpected(n) \/ Lose(n) PROVE (RecordInv /\ LockReleased)'
  BY <1>10 DEF Inv, Unexpected, Arrives, Lose
<1>11. CASE UNCHANGED vars
  BY <1>11 DEF Inv, vars
<1>12. ASSUME NEW n \in Nodes, Plug(n) PROVE (RecordInv /\ LockReleased)'
  BY <1>12 DEF Inv, NumInv, mainVars, tableVars, Plug
<1> QED
  BY <1>1, <1>2, <1>3, <1>4, <1>5, <1>6, <1>7, <1>8, <1>9, <1>10, <1>11, <1>12
  DEF Next, Main

-----------------------------------------------------------------------------
(* The theorems *)

\* The first scan starts with nothing open, nothing recorded.
LEMMA InitInv == Init => Inv
<1> SUFFICES ASSUME Init PROVE Inv
  OBVIOUS
<1>1. TypeOK
  <2>1. kind \in [Nodes -> AllKinds]
    BY DEF Init
  <2>2. ident \in [vendor : Nodes \cup {None}, product : Nodes \cup {None},
                  revision : Nodes \cup {None}]
    BY DEF Init, NoIdent
  <2>3. line \in [Nodes -> Reads \cup {"none"}] /\ bus \in [Nodes -> SUBSET Reads]
    BY DEF Init
  <2>4. /\ table \in Seq(Entry) /\ currentNode \in 0..MaxDev + 2
        /\ numIn \in 0..MaxDev /\ numOut \in 0..MaxDev
    BY DEF Init
  <2> QED
    BY <2>1, <2>2, <2>3, <2>4 DEF Init, TypeOK
<1>2. Len(table) = 0
  BY DEF Init
<1>3. LineInv /\ CountInv /\ BusInv
  BY DEF Init, LineInv, CountInv, BusInv, AnswersMatch, Reads, Nodes
<1>4. \A r : AtStage(r) => r \in {"IDLE", "none"}
  BY DEF Init, AtStage
<1>5. TableInv /\ NumInv
  BY <1>2, <1>4 DEF Init, TableInv, NumInv, TableSorted, Early
<1>6. IdentInv
  BY <1>4 DEF IdentInv
<1>7. RecordInv /\ LockReleased
  BY <1>2 DEF Init, RecordInv, IdentityIsOwn, OnlyIODevices, LockReleased
<1> QED
  BY <1>1, <1>3, <1>5, <1>6, <1>7 DEF Inv

\* Inv holds in every reachable state: at any number of addresses, with any
\* devices and any faults.
THEOREM Invariance == Spec => []Inv
<1>1. Inv /\ [Next]_vars => Inv'
  BY TypeStep, LineStep, CountStep, BusStep, TableStep, NumStep, IdentStep,
     RecordStep DEF Inv
<1> QED
  BY InitInv, <1>1, PTL DEF Spec

\* The variables of the scan stay in their ranges; currentNode runs at most
\* two past the last address.
THEOREM TypeCorrect == Spec => []TypeOK
BY Invariance, PTL DEF Inv

\* IOCoupler_put_slave_info never returns with the shared-memory lock taken.
THEOREM LockNeverLeaked == Spec => []LockReleased
BY Invariance, PTL DEF Inv

\* The table lists each device once, by increasing node id, whatever answers
\* come early, late or never.
THEOREM SortedTable == Spec => []TableSorted
<1>1. Inv => TableSorted
  BY DEF Inv, TableInv
<1> QED
  BY Invariance, <1>1, PTL

\* What is recorded of a device was all read from that device.
THEOREM OwnIdentity == Spec => []IdentityIsOwn
<1>1. Inv => IdentityIsOwn
  BY DEF Inv, RecordInv
<1> QED
  BY Invariance, <1>1, PTL

\* Only devices of the right vendor with a known product code are listed.
THEOREM OnlyIOListed == Spec => []OnlyIODevices
<1>1. Inv => OnlyIODevices
  BY DEF Inv, RecordInv
<1> QED
  BY Invariance, <1>1, PTL

\* Matching answers by node alone (proceedSDO) is safe for the scan: a node
\* never owes an answer for another entry than the open line asked for.
THEOREM AnswersMatched == Spec => []AnswersMatch
<1>1. Inv => AnswersMatch
  BY DEF Inv, BusInv
<1> QED
  BY Invariance, <1>1, PTL

\* The scan has one transfer open at a time, with the node it is at.
THEOREM OneTransferAtATime == Spec => []OneTransfer
<1>1. Inv => OneTransfer
  BY DEF Inv, LineInv, OneTransfer
<1> QED
  BY Invariance, <1>1, PTL

-----------------------------------------------------------------------------
(* IndexesDense: the running indexes of inputs and outputs *)

\* The places of f's first k values that carry an index, and what it is for
\* these indexes to be 1, 2, ..., num, each given once.
Used(f, k) == {i \in 1..k : f[i] # 0}

Numbered(f, k, num) == /\ {f[i] : i \in Used(f, k)} = 1..num
                       /\ Cardinality(Used(f, k)) = num

\* The two index columns of the table.
InColumn == [i \in 1..Len(table) |-> table[i].input_index]
OutColumn == [i \in 1..Len(table) |-> table[i].output_index]

\* Each column is numbered on its own, and no entry has both indexes.
DenseInv == /\ Numbered(InColumn, Len(table), numIn)
            /\ Numbered(OutColumn, Len(table), numOut)
            /\ \A i \in 1..Len(table) : InColumn[i] = 0 \/ OutColumn[i] = 0

\* No index is given in an empty table.
LEMMA NumberedNone == \A f : Numbered(f, 0, 0)
<1> SUFFICES ASSUME NEW f PROVE Numbered(f, 0, 0)
  OBVIOUS
<1>1. Used(f, 0) = {}
  BY DEF Used
<1> QED BY <1>1, FS_EmptySet DEF Numbered

\* A longer column with no index in its last place is numbered as before.
LEMMA NumberedKept ==
  ASSUME NEW k \in Nat, NEW f, NEW g, NEW num,
         \A i \in 1..k : g[i] = f[i], g[k + 1] = 0, Numbered(f, k, num)
  PROVE  Numbered(g, k + 1, num)
<1>1. Used(g, k + 1) = Used(f, k)
  BY DEF Used
<1>2. {g[i] : i \in Used(g, k + 1)} = {f[i] : i \in Used(f, k)}
  BY <1>1 DEF Used
<1> QED BY <1>1, <1>2 DEF Numbered

\* A longer column that carries the next index in its last place is numbered
\* up to it.
LEMMA NumberedNext ==
  ASSUME NEW k \in Nat, NEW f, NEW g, NEW num \in Nat,
         \A i \in 1..k : g[i] = f[i], g[k + 1] = num + 1, Numbered(f, k, num)
  PROVE  Numbered(g, k + 1, num + 1)
<1> DEFINE U == Used(f, k)
           X == {g[i] : i \in Used(g, k + 1)}
<1>1. Used(g, k + 1) = U \cup {k + 1}
  BY DEF Used
<1>2. k + 1 \notin U /\ U \subseteq 1..k
  BY DEF Used
<1>3. IsFiniteSet(U)
  <2>1. IsFiniteSet(1..k)
    BY FS_Interval
  <2> QED BY <1>2, <2>1, FS_Subset
<1>4. Cardinality(U \cup {k + 1}) = num + 1
  BY <1>2, <1>3, FS_AddElement DEF Numbered
<1>5. {f[i] : i \in U} = 1..num
  BY DEF Numbered
<1>6. X = 1..num + 1
  <2>1. ASSUME NEW x \in X PROVE x \in 1..num + 1
    <3>1. PICK i \in U \cup {k + 1} : x = g[i]
      BY <1>1
    <3>2. CASE i \in U
      <4>1. x = f[i] /\ f[i] \in 1..num
        BY <1>2, <1>5, <3>1, <3>2
      <4> QED BY <4>1
    <3> QED BY <3>1, <3>2
  <2>2. ASSUME NEW x \in 1..num + 1 PROVE x \in X
    <3>1. CASE x = num + 1
      BY <1>1, <3>1
    <3>2. CASE x \in 1..num
      <4>1. PICK i \in U : x = f[i]
        BY <1>5, <3>2
      <4>2. x = g[i] /\ i \in Used(g, k + 1)
        BY <1>1, <1>2, <4>1
      <4> QED BY <4>2
    <3> QED BY <3>1, <3>2
  <2> QED BY <2>1, <2>2
<1> QED BY <1>1, <1>4, <1>6 DEF Numbered

\* A step that leaves the indexes of the table alone.
SameIndexes ==
  /\ UNCHANGED <<numIn, numOut>>
  /\ InColumn' = InColumn /\ OutColumn' = OutColumn /\ Len(table') = Len(table)

\* It keeps the numbering.
LEMMA DenseKept == DenseInv /\ SameIndexes => DenseInv'
BY DEF DenseInv, SameIndexes

\* The empty table of a new scan is numbered.
LEMMA DenseNone == Len(table) = 0 /\ numIn = 0 /\ numOut = 0 => DenseInv
BY NumberedNone DEF DenseInv

\* Every step keeps the numbering: put_slave_info gives the next index of the
\* kind, and a scan starts with counters that went back with the table.
LEMMA DenseStep == Inv /\ DenseInv /\ [Next]_vars => DenseInv'
<1> SUFFICES ASSUME Inv, DenseInv, [Next]_vars PROVE DenseInv'
  OBVIOUS
<1> USE DEF tableVars, mainVars, sdoVars
<1>0. table' = table /\ UNCHANGED <<numIn, numOut>> => DenseInv'
  <2>1. table' = table /\ UNCHANGED <<numIn, numOut>> => SameIndexes
    BY DEF SameIndexes, InColumn, OutColumn
  <2> QED BY <2>1, DenseKept
<1>1. CASE Start
  BY <1>0, <1>1 DEF Start, Inv, NumInv
<1>2. CASE Finish
  BY <1>0, <1>2 DEF Finish
<1>3. CASE ReadVendor
  BY <1>0, <1>3 DEF ReadVendor
<1>4. ASSUME NEW r \in Reads, ReadItem(r) PROVE DenseInv'
  BY <1>0, <1>4 DEF ReadItem
<1>5. CASE Wait \/ GiveUp \/ Expire
  BY <1>0, <1>5 DEF Wait, GiveUp, Expire
<1>6. CASE Rescan
  <2>1. Len(table') = 0 /\ numIn' = 0 /\ numOut' = 0
    BY <1>6 DEF Rescan, Reset
  <2> HIDE DEF DenseInv
  <2>2. (Len(table) = 0 /\ numIn = 0 /\ numOut = 0 => DenseInv)'
    BY NumberedNone DEF DenseInv
  <2> QED BY <2>1, <2>2
<1>7. ASSUME NEW n \in Nodes, Answer(n) PROVE DenseInv'
  <2>1. CASE UNCHANGED tableVars
    BY <1>0, <2>1
  <2>2. CASE UpdateVersion(n, line[n])
    <3>1. SameIndexes
      BY <2>2, UpdateFacts DEF SameIndexes, InColumn, OutColumn, Inv
    <3> QED BY <3>1, DenseKept
  <2>3. CASE /\ line[n] = "READ_SERIAL" /\ PutSlaveInfo(n)
             /\ VendorOk(ident.vendor) /\ ProductOk(ident.product)
    <3>1. PICK e \in Entry :
             /\ table' = Append(table, e)
             /\ \/ /\ numOut' = numOut + 1 /\ e.output_index = numOut + 1
                   /\ numIn' = numIn /\ e.input_index = 0
                \/ /\ numIn' = numIn + 1 /\ e.input_index = numIn + 1
                   /\ numOut' = numOut /\ e.output_index = 0
      BY <1>7, <2>3, PutFacts
    <3> DEFINE k == Len(table)
    <3>2. table \in Seq(Entry) /\ k \in Nat /\ numIn \in Nat /\ numOut \in Nat
      BY DEF Inv, TypeOK
    <3>3. /\ Len(table') = k + 1 /\ table'[k + 1] = e
          /\ \A i \in 1..k : table'[i] = table[i]
      BY <3>1, <3>2
    <3>4. /\ \A i \in 1..k : InColumn'[i] = InColumn[i]
          /\ \A i \in 1..k : OutColumn'[i] = OutColumn[i]
          /\ InColumn'[k + 1] = e.input_index
          /\ OutColumn'[k + 1] = e.output_index
      BY <3>2, <3>3 DEF InColumn, OutColumn
    <3>5. Numbered(InColumn, k, numIn) /\ Numbered(OutColumn, k, numOut)
      BY DEF DenseInv
    <3> HIDE DEF k
    <3>6. Numbered(InColumn', k + 1, numIn')
      <4>1. CASE numIn' = numIn /\ e.input_index = 0
        BY <3>2, <3>4, <3>5, <4>1, NumberedKept
      <4>2. CASE numIn' = numIn + 1 /\ e.input_index = numIn + 1
        BY <3>2, <3>4, <3>5, <4>2, NumberedNext
      <4> QED BY <3>1, <4>1, <4>2
    <3>7. Numbered(OutColumn', k + 1, numOut')
      <4>1. CASE numOut' = numOut /\ e.output_index = 0
        BY <3>2, <3>4, <3>5, <4>1, NumberedKept
      <4>2. CASE numOut' = numOut + 1 /\ e.output_index = numOut + 1
        BY <3>2, <3>4, <3>5, <4>2, NumberedNext
      <4> QED BY <3>1, <4>1, <4>2
    <3>8. \A i \in 1..(k + 1) : InColumn'[i] = 0 \/ OutColumn'[i] = 0
      <4>1. \A i \in 1..k : InColumn[i] = 0 \/ OutColumn[i] = 0
        BY DEF DenseInv, k
      <4>2. \A i \in 1..(k + 1) : i \in 1..k \/ i = k + 1
        BY <3>2
      <4> QED BY <3>1, <3>4, <4>1, <4>2
    <3>9. (Len(table))' = k + 1
      BY <3>3
    <3> QED BY <3>6, <3>7, <3>8, <3>9 DEF DenseInv
  <2> QED BY <1>7, <2>1, <2>2, <2>3, AnswerTable
<1>8. ASSUME NEW n \in Nodes, Unexpected(n) \/ Lose(n) \/ Plug(n) PROVE DenseInv'
  BY <1>0, <1>8 DEF Unexpected, Lose, Plug
<1>9. CASE UNCHANGED vars
  BY <1>0, <1>9 DEF vars
<1> QED
  BY <1>1, <1>2, <1>3, <1>4, <1>5, <1>6, <1>7, <1>8, <1>9 DEF Next, Main

\* Inputs and outputs are numbered 1, 2, ..., each on its own: no two devices
\* of a kind are mapped to one PDO, and none is left out.
THEOREM DenseIndexes == Spec => []IndexesDense
<1>1. Init => DenseInv
  BY DenseNone DEF Init
<1>2. Inv /\ DenseInv => IndexesDense
  <2> SUFFICES ASSUME Inv, DenseInv PROVE IndexesDense
    OBVIOUS
  <2> DEFINE ins == {i \in 1..Len(table) : table[i].input_index # 0}
             outs == {i \in 1..Len(table) : table[i].output_index # 0}
  <2>1. /\ ins = Used(InColumn, Len(table))
        /\ outs = Used(OutColumn, Len(table))
    BY DEF Used, InColumn, OutColumn
  <2>2. /\ {table[i].input_index : i \in ins} = {InColumn[i] : i \in ins}
        /\ {table[i].output_index : i \in outs} = {OutColumn[i] : i \in outs}
    BY DEF InColumn, OutColumn
  <2>3. ins \cap outs = {}
    BY DEF DenseInv, InColumn, OutColumn
  <2> HIDE DEF ins, outs
  <2>4. /\ {table[i].input_index : i \in ins} = 1..numIn
        /\ {table[i].output_index : i \in outs} = 1..numOut
        /\ Cardinality(ins) = numIn /\ Cardinality(outs) = numOut
    BY <2>1, <2>2 DEF DenseInv, Numbered
  <2>5. numIn + numOut = Len(table)
    BY DEF Inv, NumInv
  <2> QED BY <2>3, <2>4, <2>5 DEF IndexesDense, ins, outs
<1> QED
  BY Invariance, DenseStep, <1>1, <1>2, PTL DEF Spec

-----------------------------------------------------------------------------
(* CompleteScan: what the scan reads of a device reaches the table *)

\* What is in the table stays there.
Grown == \A m \in Nodes, hw, fw \in BOOLEAN : Listed(m, hw, fw) => Listed(m, hw, fw)'

\* A step within a scan that owes no entry it did not owe before: the scan
\* stays where it is, or leaves the current node for a request that went wrong,
\* an untimely answer, or because it is overtaken.
DebtKept ==
  /\ scanState # "IDLE"
  /\ UNCHANGED kind /\ Grown /\ missed \subseteq missed' /\ untimely \subseteq untimely'
  /\ asked' \subseteq asked \cup {currentNode}
  /\ \/ /\ currentNode' = currentNode
        /\ \A r \in {"READ_HW_VER", "READ_FW_VER"} : AtStage(r)' => AtStage(r)
     \/ /\ currentNode' = currentNode + 1
        /\ \A m \in Nodes \ (missed \cup untimely)' : m = currentNode => Overtaken(m)'
        /\ \A r \in {"READ_HW_VER", "READ_FW_VER"} : ~AtStage(r)'
  /\ scanState' = "DONE" => currentNode' > MaxDev

\* Such a step keeps DoneInv.
LEMMA DoneKept ==
  ASSUME TypeOK, DoneInv, DebtKept
  PROVE  DoneInv'
<1>1. ASSUME NEW n \in Nodes \ (missed \cup untimely)', kind[n] \in {"input", "output"}
      PROVE  /\ n < currentNode' => Listed(n, TRUE, TRUE)' \/ Overtaken(n)'
             /\ n = currentNode' /\ AtStage("READ_HW_VER")' => Listed(n, FALSE, FALSE)'
             /\ n = currentNode' /\ AtStage("READ_FW_VER")' => Listed(n, TRUE, FALSE)'
  <2>1. /\ n < currentNode => Listed(n, TRUE, TRUE) \/ Overtaken(n)
        /\ n = currentNode /\ AtStage("READ_HW_VER") => Listed(n, FALSE, FALSE)
        /\ n = currentNode /\ AtStage("READ_FW_VER") => Listed(n, TRUE, FALSE)
    BY <1>1 DEF DoneInv, DebtKept
  <2>2. /\ Listed(n, TRUE, TRUE) => Listed(n, TRUE, TRUE)'
        /\ Listed(n, FALSE, FALSE) => Listed(n, FALSE, FALSE)'
        /\ Listed(n, TRUE, FALSE) => Listed(n, TRUE, FALSE)'
    BY DEF DebtKept, Grown
  <2>3. n < currentNode' => \/ n < currentNode
                            \/ Overtaken(n)'
    <3>1. n \in Nat /\ currentNode \in Nat
      BY DEF Nodes, TypeOK
    <3>2. CASE currentNode' = currentNode
      BY <3>2
    <3>3. CASE /\ currentNode' = currentNode + 1
               /\ \A m \in Nodes \ (missed \cup untimely)' : m = currentNode => Overtaken(m)'
      <4>1. n < currentNode' => n < currentNode \/ n = currentNode
        BY <3>1, <3>3
      <4>2. n = currentNode => Overtaken(n)'
        BY <1>1, <3>3
      <4> QED BY <4>1, <4>2
    <3> QED BY <3>2, <3>3 DEF DebtKept
  <2>4. n < currentNode /\ Overtaken(n) => Overtaken(n)'
    <3>1. n < currentNode => n # currentNode
      BY DEF Nodes, TypeOK
    <3> QED BY <3>1 DEF DebtKept, Overtaken
  <2>5. n = currentNode' => \/ n = currentNode /\ currentNode' = currentNode
                            \/ \A r \in {"READ_HW_VER", "READ_FW_VER"} : ~AtStage(r)'
    BY DEF DebtKept
  <2> QED BY <2>1, <2>2, <2>3, <2>4, <2>5 DEF DebtKept
<1>2. kind' = kind /\ (scanState' = "DONE" => currentNode' > MaxDev)
  BY DEF DebtKept
<1> QED BY <1>1, <1>2 DEF DoneInv

\* Entries that are kept, or that only gain version strings, stay listed.
LEMMA GrownSame == UNCHANGED table => Grown
BY DEF Grown, Listed

LEMMA GrownUpdate ==
  ASSUME Inv, NEW n \in Nodes, NEW r, UpdateVersion(n, r)
  PROVE  /\ Grown
         /\ r = "READ_HW_VER" /\ Listed(n, FALSE, FALSE) => Listed(n, TRUE, FALSE)'
         /\ r = "READ_FW_VER" /\ Listed(n, TRUE, FALSE) => Listed(n, TRUE, TRUE)'
<1>1. /\ Len(table') = Len(table)
      /\ \A i \in 1..Len(table) :
           /\ table'[i].node = table[i].node
           /\ table[i].hw \/ (table[i].node = n /\ r = "READ_HW_VER") => table'[i].hw
           /\ table[i].fw \/ (table[i].node = n /\ r = "READ_FW_VER") => table'[i].fw
  BY UpdateFacts DEF Inv
<1> QED BY <1>1 DEF Grown, Listed

\* put_slave_info adds an entry for its node and leaves the others.
LEMMA GrownPut ==
  ASSUME Inv, NEW n \in Nodes, Answer(n), line[n] = "READ_SERIAL",
         VendorOk(ident.vendor), ProductOk(ident.product), PutSlaveInfo(n)
  PROVE  Grown /\ Listed(n, FALSE, FALSE)'
<1>1. PICK e \in Entry : table' = Append(table, e) /\ e.node = n
  BY PutFacts
<1>2. table \in Seq(Entry) /\ Len(table) \in Nat
  BY DEF Inv, TypeOK
<1>3. /\ Len(table') = Len(table) + 1 /\ table'[Len(table) + 1] = e
      /\ \A i \in 1..Len(table) : table'[i] = table[i]
  BY <1>1, <1>2
<1>4. /\ \A i \in 1..Len(table) : i \in 1..Len(table')
      /\ Len(table) + 1 \in 1..Len(table')
  BY <1>2, <1>3
<1> QED BY <1>1, <1>3, <1>4 DEF Grown, Listed

\* An answer the callback takes pays for the next stage of its node.
LEMMA DoneGot ==
  ASSUME Inv, DoneInv, NEW n \in Nodes, Answer(n),
         Got(n, line[n]), missed' = missed
  PROVE  DoneInv'
<1>1. /\ n = currentNode /\ line[n] \in Reads /\ AtStage(line[n])
      /\ kind' = kind /\ pc' = pc /\ scanState \in Reads \cup {"WAIT"}
      /\ \A m \in Nodes : line'[m] = "none"
      /\ asked' = asked /\ untimely \subseteq untimely'
  BY AnswerFacts, AnswerMoves
<1>k. \A m : Overtaken(m) => Overtaken(m)'
  BY <1>1 DEF Overtaken
<1>2. \A r \in Reads : AtStage(r)' => scanState' = r
  BY <1>1 DEF AtStage, Reads
<1>3. scanState # "IDLE"
  BY <1>1 DEF Reads
<1>4. n \in Nat /\ currentNode \in Nat
  BY <1>1 DEF Nodes
<1> HIDE DEF Got
<1>5. CASE /\ line[n] \in {"READ_VENDOR", "READ_PRODUCT", "READ_REVISION"}
           /\ scanState' \in {"READ_PRODUCT", "READ_REVISION", "READ_SERIAL"}
           /\ UNCHANGED <<currentNode, tableVars>>
  <2>1. \A r \in {"READ_HW_VER", "READ_FW_VER"} : ~AtStage(r)'
    BY <1>2, <1>5 DEF Reads
  <2>2. DebtKept
    BY <1>1, <1>3, <1>5, <2>1, GrownSame DEF DebtKept, tableVars
  <2> QED BY <2>2, DoneKept DEF Inv
<1>6. CASE /\ line[n] = "READ_SERIAL" /\ scanState' = "READ_HW_VER"
           /\ currentNode' = currentNode
           /\ IF VendorOk(ident.vendor) /\ ProductOk(ident.product)
              THEN PutSlaveInfo(n) ELSE UNCHANGED tableVars
  <2>1. Grown
    BY <1>6, GrownPut, GrownSame DEF tableVars
  <2>2. kind[n] \in {"input", "output"} => Listed(n, FALSE, FALSE)'
    <3>1. AtStage("READ_SERIAL")
      BY <1>1, <1>6
    <3>2. ident.vendor = n /\ ident.product = n
      BY <1>1, <3>1 DEF Inv, IdentInv
    <3>3. n # None
      BY DEF Nodes, None
    <3> QED BY <1>6, <3>2, <3>3, GrownPut DEF VendorOk, ProductOk
  <2>3. ~AtStage("READ_FW_VER")'
    BY <1>2, <1>6 DEF Reads
  <2>4. ASSUME NEW m \in Nodes \ (missed \cup untimely)', kind'[m] \in {"input", "output"}
        PROVE  /\ m < currentNode' => Listed(m, TRUE, TRUE)' \/ Overtaken(m)'
               /\ m = currentNode' => Listed(m, FALSE, FALSE)'
    <3>1. m < currentNode => Listed(m, TRUE, TRUE) \/ Overtaken(m)
      BY <1>1, <1>3, <2>4 DEF DoneInv
    <3>2. Listed(m, TRUE, TRUE) => Listed(m, TRUE, TRUE)'
      BY <2>1 DEF Grown
    <3> QED BY <1>1, <1>k, <1>6, <2>2, <2>4, <3>1, <3>2
  <2> QED BY <1>6, <2>3, <2>4 DEF DoneInv
<1>7. CASE /\ line[n] = "READ_HW_VER" /\ UpdateVersion(n, line[n])
           /\ scanState' = "READ_FW_VER" /\ currentNode' = currentNode
  <2>1. Grown /\ (Listed(n, FALSE, FALSE) => Listed(n, TRUE, FALSE)')
    BY <1>7, GrownUpdate
  <2>2. ~AtStage("READ_HW_VER")'
    BY <1>2, <1>7 DEF Reads
  <2>3. ASSUME NEW m \in Nodes \ (missed \cup untimely)', kind'[m] \in {"input", "output"}
        PROVE  /\ m < currentNode' => Listed(m, TRUE, TRUE)' \/ Overtaken(m)'
               /\ m = currentNode' => Listed(m, TRUE, FALSE)'
    <3>1. /\ m < currentNode => Listed(m, TRUE, TRUE) \/ Overtaken(m)
          /\ m = n => Listed(m, FALSE, FALSE)
      BY <1>1, <1>3, <1>7, <2>3 DEF DoneInv
    <3>2. Listed(m, TRUE, TRUE) => Listed(m, TRUE, TRUE)'
      BY <2>1 DEF Grown
    <3> QED BY <1>1, <1>k, <1>7, <2>1, <3>1, <3>2
  <2> QED BY <1>7, <2>2, <2>3 DEF DoneInv
<1>8. CASE /\ line[n] = "READ_FW_VER" /\ UpdateVersion(n, line[n])
           /\ scanState' = "READ_VENDOR" /\ currentNode' = currentNode + 1
  <2>1. Grown /\ (Listed(n, TRUE, FALSE) => Listed(n, TRUE, TRUE)')
    BY <1>8, GrownUpdate
  <2>2. \A r \in {"READ_HW_VER", "READ_FW_VER"} : ~AtStage(r)'
    BY <1>2, <1>8 DEF Reads
  <2>3. ASSUME NEW m \in Nodes \ (missed \cup untimely)', kind'[m] \in {"input", "output"},
               m < currentNode'
        PROVE  Listed(m, TRUE, TRUE)' \/ Overtaken(m)'
    <3>1. m < currentNode \/ m = n
      BY <1>1, <1>4, <1>8, <2>3 DEF Nodes
    <3>2. /\ m < currentNode => Listed(m, TRUE, TRUE) \/ Overtaken(m)
          /\ m = n => Listed(m, TRUE, FALSE)
      BY <1>1, <1>3, <1>8, <2>3 DEF DoneInv
    <3>3. Listed(m, TRUE, TRUE) => Listed(m, TRUE, TRUE)'
      BY <2>1 DEF Grown
    <3> QED BY <1>k, <2>1, <3>1, <3>2, <3>3
  <2> QED BY <1>8, <2>2, <2>3 DEF DoneInv
<1> QED
  BY <1>5, <1>6, <1>7, <1>8 DEF Got, NextNode

\* Every step of a scan keeps DoneInv.
LEMMA DoneStep == Inv /\ WaitInv /\ DoneInv /\ [Next]_vars => DoneInv'
<1> SUFFICES ASSUME Inv, WaitInv, DoneInv, [Next]_vars PROVE DoneInv'
  OBVIOUS
<1> USE DEF tableVars, mainVars, sdoVars, history
<1>a. ASSUME pc = "loop", scanState # "WAIT"
      PROVE  \A m \in Nodes : line[m] = "none"
  BY <1>a DEF Inv, LineInv
<1>b. TypeOK /\ currentNode \in Nat
  BY DEF Inv, TypeOK
<1>1. CASE Start
  <2>1. \A r \in Reads \ {"READ_VENDOR"} : ~AtStage(r)'
    BY <1>1, <1>a DEF Start, AtStage, Reads
  <2>2. ~AtStage("READ_HW_VER")' /\ ~AtStage("READ_FW_VER")'
    BY <2>1 DEF Reads
  <2>3. currentNode' = 1 /\ scanState' # "DONE"
    BY <1>1 DEF Start
  <2>4. \A n \in Nodes : ~(n < 1)
    BY DEF Nodes
  <2> QED BY <2>2, <2>3, <2>4 DEF DoneInv
<1>2. CASE Finish
  <2>1. DebtKept
    BY <1>2, <1>a, GrownSame DEF Finish, DebtKept, AtStage
  <2> QED BY <1>b, <2>1, DoneKept
<1>3. ASSUME NEW r \in Reads, pc = "loop", scanState = r, Accepted(r),
             UNCHANGED <<kind, tableVars, untimely>>, asked' \subseteq asked \cup {currentNode}
      PROVE  DoneInv'
  <2>1. \A q \in {"READ_HW_VER", "READ_FW_VER"} : AtStage(q)' => AtStage(q)
    BY <1>3, <1>a, <1>b DEF Accepted, AtStage, Reads, Inv, TypeOK
  <2>2. DebtKept
    BY <1>3, <2>1, GrownSame DEF DebtKept, Accepted, Reads
  <2> QED BY <1>b, <2>2, DoneKept
<1>4. ASSUME NEW r \in Reads, pc = "loop", scanState = r, Refused(r),
             UNCHANGED <<kind, tableVars, untimely>>, asked' \subseteq asked \cup {currentNode}
      PROVE  DoneInv'
  <2>1. \A q \in {"READ_HW_VER", "READ_FW_VER"} : ~AtStage(q)'
    BY <1>4, <1>a DEF Refused, NextNode, AtStage, Reads
  <2>2. DebtKept
    BY <1>4, <2>1, GrownSame DEF DebtKept, Refused, NextNode, Reads
  <2> QED BY <1>b, <2>2, DoneKept
<1>5. CASE ReadVendor
  <2>1. "READ_VENDOR" \in Reads
    BY DEF Reads
  <2> QED BY <1>3, <1>4, <1>5, <2>1 DEF ReadVendor
<1>6. ASSUME NEW r \in Reads, ReadItem(r) PROVE DoneInv'
  BY <1>3, <1>4, <1>6 DEF ReadItem
<1>7. CASE Wait \/ Expire
  <2>1. DebtKept
    BY <1>7, GrownSame DEF Wait, Expire, DebtKept, AtStage, Inv, CountInv
  <2> QED BY <1>b, <2>1, DoneKept
<1>8. CASE GiveUp
  <2>1. \A m \in Nodes : line'[m] = "none"
    BY <1>8 DEF GiveUp, Inv, LineInv
  <2>2. \A q \in {"READ_HW_VER", "READ_FW_VER"} : ~AtStage(q)'
    BY <1>8, <2>1 DEF GiveUp, NextNode, AtStage
  <2>3. \A m \in Nodes \ (missed \cup untimely)' : m = currentNode => Overtaken(m)'
    <3>1. missed' = missed \cup Unanswered /\ UNCHANGED <<asked, untimely>> /\ pc # "loop"
      BY <1>8 DEF GiveUp
    <3>2. SUFFICES ASSUME NEW m \in Nodes, m \notin missed \cup untimely,
                          m = currentNode, line[m] = "none"
                   PROVE  Overtaken(m)
      BY <3>1 DEF Unanswered, Overtaken
    <3> QED BY <3>1, <3>2 DEF WaitInv
  <2>4. DebtKept
    BY <1>8, <2>2, <2>3, GrownSame DEF DebtKept, GiveUp, NextNode, Inv, CountInv
  <2> QED BY <1>b, <2>4, DoneKept
<1>9. CASE Rescan
  BY <1>9 DEF Rescan, Reset, DoneInv
<1>10. ASSUME NEW n \in Nodes, Answer(n) PROVE DoneInv'
  <2>1. CASE Got(n, line[n]) /\ missed' = missed
    BY <1>10, <2>1, DoneGot
  <2>2. CASE NotGot(line[n]) /\ missed' = missed \cup {n}
    <3>1. /\ n = currentNode /\ kind' = kind /\ pc' = pc
          /\ scanState \in Reads \cup {"WAIT"}
          /\ \A m \in Nodes : line'[m] = "none"
          /\ pc = "loop" => scanState = "WAIT"
          /\ asked' = asked /\ untimely \subseteq untimely'
      BY <1>10, AnswerFacts, AnswerMoves
    <3>2. \A q \in {"READ_HW_VER", "READ_FW_VER"} : ~AtStage(q)'
      BY <2>2, <3>1 DEF NotGot, NextNode, AtStage
    <3>3. DebtKept
      BY <2>2, <3>1, <3>2, GrownSame DEF DebtKept, NotGot, NextNode, Reads
    <3> QED BY <1>b, <3>3, DoneKept
  <2> QED BY <1>10, <2>1, <2>2 DEF Answer
<1>11. ASSUME NEW n \in Nodes, Unexpected(n) \/ Lose(n) PROVE DoneInv'
  <2>1. UNCHANGED <<kind, pc, scanState, currentNode, line, table, history>>
    BY <1>11 DEF Unexpected, Lose
  <2> QED BY <2>1 DEF DoneInv, AtStage, Listed, Overtaken
<1>12. ASSUME NEW n \in Nodes, Plug(n) PROVE DoneInv'
  BY <1>12 DEF Plug, DoneInv
<1>13. CASE UNCHANGED vars
  BY <1>13 DEF vars, DoneInv, AtStage, Listed, Overtaken
<1> QED
  BY <1>1, <1>2, <1>5, <1>6, <1>7, <1>8, <1>9, <1>10, <1>11, <1>12, <1>13
  DEF Next, Main

\* The scan waits for nothing only at a node that is excused, or being overtaken.
LEMMA WaitStep == Inv /\ WaitInv /\ SeenInv /\ [Next]_vars => WaitInv' /\ SeenInv'
<1> SUFFICES ASSUME Inv, WaitInv, SeenInv, [Next]_vars PROVE WaitInv' /\ SeenInv'
  OBVIOUS
<1> USE DEF tableVars, mainVars, sdoVars, history
<1>b. TypeOK /\ currentNode \in Nat /\ asked \subseteq Nodes
  BY DEF Inv, TypeOK
<1>1. CASE Start
  BY <1>1, <1>b DEF Start, WaitInv, SeenInv
<1>2. CASE Finish
  BY <1>2 DEF Finish, WaitInv, SeenInv
<1>3. ASSUME NEW r \in Reads, pc = "loop", scanState = r, Accepted(r),
             asked' \subseteq asked \cup {currentNode}
      PROVE  WaitInv' /\ SeenInv'
  <2>1. WaitInv'
    BY <1>3, <1>b DEF Accepted, WaitInv, Reads, TypeOK
  <2>2. SeenInv'
    BY <1>3, <1>b DEF Accepted, SeenInv, Reads, Nodes
  <2> QED BY <2>1, <2>2
<1>4. ASSUME NEW r \in Reads, pc = "loop", scanState = r, Refused(r),
             asked' \subseteq asked \cup {currentNode}
      PROVE  WaitInv' /\ SeenInv'
  BY <1>4, <1>b DEF Refused, NextNode, WaitInv, SeenInv, Nodes
<1>5. CASE ReadVendor
  <2>1. "READ_VENDOR" \in Reads
    BY DEF Reads
  <2> QED BY <1>3, <1>4, <1>5, <2>1 DEF ReadVendor
<1>6. ASSUME NEW r \in Reads, ReadItem(r) PROVE WaitInv' /\ SeenInv'
  BY <1>3, <1>4, <1>6 DEF ReadItem
<1>7. CASE Wait \/ Expire
  BY <1>7 DEF Wait, Expire, WaitInv, SeenInv, Overtaken, Inv, CountInv
<1>8. CASE GiveUp
  BY <1>8, <1>b DEF GiveUp, NextNode, WaitInv, SeenInv, Nodes
<1>9. CASE Rescan
  BY <1>9 DEF Rescan, Reset, WaitInv, SeenInv
<1>10. ASSUME NEW n \in Nodes, Answer(n) PROVE WaitInv' /\ SeenInv'
  <2>1. /\ n = currentNode /\ line[n] \in Reads /\ pc' = pc /\ asked' = asked
        /\ untimely' = IF pc = "loop" THEN untimely ELSE untimely \cup {n}
        /\ scanState \in Reads \cup {"WAIT"}
        /\ pc = "loop" => scanState = "WAIT"
    BY <1>10, AnswerFacts, AnswerMoves
  <2>2. \/ Got(n, line[n]) /\ missed' = missed
        \/ NotGot(line[n]) /\ missed' = missed \cup {n}
    BY <1>10 DEF Answer
  <2>3. /\ currentNode' \in {currentNode, currentNode + 1}
        /\ scanState' \in Reads \cup {"WAIT"}
        /\ pc = "loop" /\ Got(n, line[n]) => scanState' \in Reads
        /\ pc = "loop" /\ currentNode' # currentNode => scanState' \in Reads
    BY <2>1, <2>2 DEF Got, NotGot, NextNode, Reads
  <2>4. SeenInv'
    BY <1>b, <2>1, <2>3 DEF SeenInv, Nodes, Reads
  <2>5. CASE pc = "loop"
    <3>1. scanState' = "WAIT" => n \in missed' /\ currentNode' = currentNode
      BY <2>1, <2>2, <2>3, <2>5 DEF Reads
    <3> QED BY <2>1, <2>4, <2>5, <3>1 DEF WaitInv
  <2>6. CASE pc # "loop"
    <3>1. n \in untimely' /\ n + 1 \notin asked'
      BY <1>b, <2>1, <2>6 DEF SeenInv, Nodes
    <3>2. Overtaken(n + 1)'
      <4>1. (n + 1) - 1 = n
        BY DEF Nodes
      <4> QED BY <3>1, <4>1 DEF Overtaken
    <3> QED BY <2>1, <2>3, <2>4, <3>1, <3>2 DEF WaitInv
  <2> QED BY <2>5, <2>6
<1>11. ASSUME NEW n \in Nodes, Unexpected(n) \/ Lose(n) PROVE WaitInv' /\ SeenInv'
  BY <1>11 DEF Unexpected, Lose, WaitInv, SeenInv, Overtaken
<1>12. ASSUME NEW n \in Nodes, Plug(n) PROVE WaitInv' /\ SeenInv'
  BY <1>12 DEF Plug, WaitInv, SeenInv, Overtaken
<1>13. CASE UNCHANGED vars
  BY <1>13 DEF vars, WaitInv, SeenInv, Overtaken
<1> QED
  BY <1>1, <1>2, <1>5, <1>6, <1>7, <1>8, <1>9, <1>10, <1>11, <1>12, <1>13
  DEF Next, Main

\* A finished scan lists, with both version strings, every I/O device that answered
\* each of its requests in time, but for one: the device after a node that answered
\* at the wrong moment, when the scan has passed it without asking.
THEOREM ScanComplete == Spec => []CompleteScan
<1>1. Init => WaitInv /\ SeenInv /\ DoneInv
  BY DEF Init, WaitInv, SeenInv, DoneInv
<1>2. Inv /\ DoneInv => CompleteScan
  <2> SUFFICES ASSUME Inv, DoneInv, scanState = "DONE",
                      NEW n \in Nodes \ (missed \cup untimely),
                      kind[n] \in {"input", "output"}
               PROVE  \/ \E i \in 1..Len(table) :
                           table[i].node = n /\ table[i].hw /\ table[i].fw
                      \/ n - 1 \in untimely /\ n \notin asked
    BY DEF CompleteScan
  <2>1. n < currentNode
    BY DEF DoneInv, Nodes, Inv, TypeOK
  <2>2. Listed(n, TRUE, TRUE) \/ Overtaken(n)
    BY <2>1 DEF DoneInv
  <2> QED BY <2>2 DEF Listed, Overtaken
<1> QED
  BY Invariance, WaitStep, DoneStep, <1>1, <1>2, PTL DEF Spec

\* With no early and no late answers, no answer is untimely.
LEMMA TimelyStep ==
  {"early", "late"} \cap Faults = {} /\ Inv /\ untimely = {} /\ [Next]_vars => untimely' = {}
<1> SUFFICES ASSUME {"early", "late"} \cap Faults = {}, Inv, untimely = {}, [Next]_vars
             PROVE  untimely' = {}
  OBVIOUS
<1> USE DEF history
<1>1. ASSUME NEW n \in Nodes, Answer(n) PROVE untimely' = {}
  <2>1. pc = "loop"
    BY <1>1 DEF Answer, Arrives, Inv, TypeOK
  <2> QED BY <1>1, <2>1, AnswerFacts
<1>2. CASE Rescan
  BY <1>2 DEF Rescan, Reset
<1>3. CASE Main \/ Expire \/ UNCHANGED vars
  BY <1>3 DEF Main, Start, Finish, ReadVendor, ReadItem, Wait, GiveUp, Expire, vars
<1>4. ASSUME NEW n \in Nodes, Unexpected(n) \/ Lose(n) \/ Plug(n) PROVE untimely' = {}
  BY <1>4 DEF Unexpected, Lose, Plug
<1> QED
  BY <1>1, <1>2, <1>3, <1>4 DEF Next

\* Trouble with one node costs no other, as long as no callback runs between a
\* request and its SCAN_WAIT, nor between the deadline and the end of the wait.
AllListed ==
  scanState = "DONE" =>
    \A n \in Nodes \ missed : kind[n] \in {"input", "output"} =>
      \E i \in 1..Len(table) : table[i].node = n /\ table[i].hw /\ table[i].fw

\* Then a finished scan lists, with both version strings, every I/O device none of
\* whose own requests was refused, failed or unanswered.
THEOREM TimelyScan == ASSUME {"early", "late"} \cap Faults = {} PROVE Spec => []AllListed
<1> DEFINE Timely == untimely = {}
<1>1. Init => Timely
  BY DEF Init
<1>2. CompleteScan /\ Timely => AllListed
  BY DEF CompleteScan, AllListed
<1>3. Inv /\ Timely /\ [Next]_vars => Timely'
  BY TimelyStep
<1> HIDE DEF Timely
<1> QED
  BY Invariance, ScanComplete, <1>1, <1>2, <1>3, PTL DEF Spec

-----------------------------------------------------------------------------
(* EveryNodeAsked: what early and late answers alone can spoil *)

\* If no callback runs between a request and its SCAN_WAIT, nor between the
\* deadline and the end of the wait, the scan has asked all nodes below the
\* current one, and the current one itself when it is past its vendor.
AskedInv ==
  /\ scanState = "IDLE" => asked = {}
  /\ scanState = "DONE" => asked = Nodes
  /\ pc = "expired" => scanState = "WAIT"
  /\ scanState \notin {"IDLE", "DONE"} =>
       IF pc = "loop" /\ scanState = "READ_VENDOR"
       THEN currentNode <= MaxDev + 1 /\ asked = 1..(currentNode - 1)
       ELSE currentNode <= MaxDev /\ asked = 1..currentNode

LEMMA AskedStep ==
  {"early", "late"} \cap Faults = {} /\ Inv /\ AskedInv /\ [Next]_vars => AskedInv'
<1> SUFFICES ASSUME {"early", "late"} \cap Faults = {}, Inv, AskedInv, [Next]_vars
             PROVE  AskedInv'
  OBVIOUS
<1>0. /\ currentNode \in Nat /\ (scanState # "IDLE" => currentNode > 0)
      /\ pc \in {"loop", "sent", "expired"}
      /\ scanState \in Reads \cup {"IDLE", "WAIT", "DONE"}
      /\ pc # "loop" => scanState \notin {"IDLE", "DONE"}
  BY DEF Inv, TypeOK, CountInv
<1> DEFINE GoesOn == /\ pc' = "loop" /\ scanState' = "READ_VENDOR"
                     /\ currentNode' = currentNode + 1 /\ asked' = 1..currentNode
           Stays == /\ currentNode' = currentNode /\ asked' = 1..currentNode
                    /\ currentNode <= MaxDev
                    /\ scanState' \notin {"IDLE", "DONE"}
                    /\ pc' = "loop" => scanState' # "READ_VENDOR"
                    /\ pc' = "expired" => scanState' = "WAIT"
<1>a. ASSUME GoesOn, currentNode <= MaxDev PROVE AskedInv'
  BY <1>0, <1>a DEF AskedInv, Nodes
<1>b. ASSUME Stays PROVE AskedInv'
  BY <1>0, <1>b DEF AskedInv
<1> USE DEF mainVars, sdoVars, tableVars, history
<1>1. CASE Start
  BY <1>0, <1>1 DEF Start, AskedInv, Inv, CountInv
<1>2. CASE Finish
  <2>1. currentNode = MaxDev + 1 /\ asked = 1..(currentNode - 1)
    BY <1>0, <1>2 DEF Finish, AskedInv
  <2> QED BY <1>2, <2>1 DEF Finish, AskedInv, Nodes
<1>3. CASE ReadVendor
  <2>1. asked = 1..(currentNode - 1) /\ currentNode > 0 /\ currentNode <= MaxDev
    BY <1>0, <1>3 DEF ReadVendor, AskedInv
  <2>2. asked' = 1..currentNode
    BY <1>0, <1>3, <2>1 DEF ReadVendor
  <2>3. CASE Accepted("READ_VENDOR")
    BY <1>b, <1>3, <2>1, <2>2, <2>3 DEF ReadVendor, Accepted
  <2>4. CASE Refused("READ_VENDOR")
    BY <1>a, <1>3, <2>1, <2>2, <2>4 DEF ReadVendor, Refused, NextNode
  <2> QED BY <1>3, <2>3, <2>4 DEF ReadVendor
<1>4. ASSUME NEW r \in Reads, ReadItem(r) PROVE AskedInv'
  <2>1. pc = "loop" /\ scanState = r /\ r \notin {"READ_VENDOR", "IDLE", "DONE"}
    BY <1>4 DEF ReadItem, Reads
  <2>2. asked' = 1..currentNode /\ currentNode <= MaxDev
    BY <1>4, <2>1 DEF ReadItem, AskedInv
  <2>3. CASE Accepted(r)
    BY <1>b, <2>1, <2>2, <2>3 DEF Accepted
  <2>4. CASE Refused(r)
    BY <1>a, <2>1, <2>2, <2>4 DEF Refused, NextNode
  <2> QED BY <1>4, <2>3, <2>4 DEF ReadItem
<1>5. CASE Wait
  <2>1. Stays
    BY <1>0, <1>5 DEF Wait, AskedInv
  <2> QED BY <1>b, <2>1
<1>6. CASE Expire
  <2>1. Stays
    BY <1>6 DEF Expire, AskedInv
  <2> QED BY <1>b, <2>1
<1>7. CASE GiveUp
  <2>1. GoesOn /\ currentNode <= MaxDev
    BY <1>7 DEF GiveUp, NextNode, AskedInv
  <2> QED BY <1>a, <2>1
<1>8. CASE Rescan
  BY <1>8 DEF Rescan, Reset, AskedInv
<1>9. ASSUME NEW n \in Nodes, Answer(n) PROVE AskedInv'
  <2>1. pc = "loop" /\ scanState = "WAIT"
    <3>1. pc \notin {"sent", "expired"}
      BY <1>9 DEF Answer, Arrives
    <3> QED BY <1>0, <1>9, <3>1, AnswerMoves
  <2>2. pc' = "loop" /\ asked' = 1..currentNode /\ currentNode <= MaxDev
    BY <1>9, <2>1 DEF Answer, AskedInv
  <2>3. GoesOn \/ Stays
    BY <1>9, <2>1, <2>2, AnswerMoves DEF Reads
  <2> QED BY <1>a, <1>b, <2>2, <2>3
<1>10. ASSUME NEW n \in Nodes, Unexpected(n) \/ Lose(n) \/ Plug(n) PROVE AskedInv'
  BY <1>10 DEF Unexpected, Lose, Plug, AskedInv
<1>11. CASE UNCHANGED vars
  BY <1>11 DEF vars, AskedInv
<1> QED
  BY <1>1, <1>2, <1>3, <1>4, <1>5, <1>6, <1>7, <1>8, <1>9, <1>10, <1>11 DEF Next, Main

\* "Scan the network for slaves" (Master.c:570): a finished scan has asked every
\* node address, whatever is refused, lost or aborted, if no answer is handled
\* before the scan waits for it or after its deadline.  With either, one address is
\* stepped over.
THEOREM AllAsked == ASSUME {"early", "late"} \cap Faults = {} PROVE Spec => []EveryNodeAsked
<1>1. Init => AskedInv
  BY DEF Init, AskedInv
<1>2. Inv /\ AskedInv /\ [Next]_vars => AskedInv'
  BY AskedStep
<1>3. AskedInv => EveryNodeAsked
  BY DEF AskedInv, EveryNodeAsked
<1> QED
  BY Invariance, <1>1, <1>2, <1>3, PTL DEF Spec
=============================================================================
