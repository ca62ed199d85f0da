--------------------------- MODULE Outputs_proofs ---------------------------
(***************************************************************************)
(* Proofs about Outputs, for any tables, protocols and senders.  The output   *)
(* path only uses the driver as CanTx says: every step of it is a step of     *)
(* CanTx or leaves CanTx's variables alone, so what is proved of CanTx holds   *)
(* of the composition.  The types hold of any tables; that no module's data   *)
(* is taken for another's, of tables without a hole; and that the outputs      *)
(* follow the PLC, if also no task wakes in canSend's gap.                     *)
(***************************************************************************)
EXTENDS Outputs, CanTx_proofs, FiniteSetTheorems

\* A step of the composition is a step of the driver's module or a stutter.
LEMMA StepImplements == [NextIO]_allVars => [Next]_vars
<1> SUFFICES ASSUME [NextIO]_allVars PROVE [Next]_vars
  OBVIOUS
<1>1. ASSUME NEW t \in Tasks, OtherFrame(t) PROVE Next
  BY <1>1 DEF OtherFrame, Next
<1>2. ASSUME NEW t \in Tasks, InSend(t) PROVE Next
  BY <1>2 DEF InSend, Next, Inside
<1>3. ASSUME NEW t \in Tasks, OtherReturns(t) PROVE Next
  BY <1>3 DEF OtherReturns, Next, Inside
<1>4. PdoTasks \subseteq Tasks
  BY TasksAssumption DEF PdoTasks
<1>5. ASSUME NEW t \in PdoTasks, Skip(t) \/ Build(t) \/ Store(t)
      PROVE UNCHANGED vars
  BY <1>5 DEF Skip, Build, Store
<1>6. ASSUME NEW t \in PdoTasks, CallSend(t) \/ SendRefused(t) \/ SendReturns(t)
      PROVE Next
  BY <1>4, <1>6 DEF CallSend, SendRefused, SendReturns, Next, Inside
<1>7. ASSUME Wake \/ Copy \/ SetOperational \/ InputPdo \/ ModuleRestarts
             \/ Core1Up \/ PlcWrite
      PROVE UNCHANGED vars
  BY <1>7 DEF Wake, Copy, SetOperational, InputPdo, ModuleRestarts, Core1Up,
              PlcWrite
<1>8. ASSUME Load \/ Deliver \/ StartTimerLoop PROVE Next
  BY <1>8 DEF Deliver, Next
<1>9. ASSUME StopForScan \/ Configure \/ Operational PROVE Next
  BY <1>9 DEF StopForScan, Configure, Operational, Next
<1>10. CASE UNCHANGED allVars
  BY <1>10 DEF allVars
<1>11. CASE NextIO
  BY <1>11, <1>1, <1>2, <1>3, <1>5, <1>6, <1>7, <1>8, <1>9 DEF NextIO
<1>12. QED
  BY <1>10, <1>11

\* The composition implements the driver's specification.
THEOREM UsesDriver == SpecIO => Spec
<1>1. SpecIO => Init /\ [][NextIO]_allVars
  BY PTL DEF SpecIO
<1>2. QED
  BY <1>1, StepImplements, PTL DEF Spec

\* A PDO whose call of canSend returned was on the bus, and no step of the
\* output path or of the scan touches the buffer under it (candrv.c:155-260).
THEOREM PdoSent ==
  ASSUME ~Gap PROVE SpecIO => [](SentMeansSent /\ BufferKept)
BY UsesDriver, FramesSent, BufferNeverTouched, PTL

-----------------------------------------------------------------------------
(* Lemmas about the layout of the process data *)

\* What a table is: a finite sequence of modules, by rising node, that has no
\* more slots than there are nodes.
Layout(l) ==
  /\ Len(l) \in Nat /\ DOMAIN l = 1..Len(l) /\ DOMAIN l \subseteq Nodes
  /\ \A i \in DOMAIN l : /\ l[i].node \in Nodes /\ l[i].kind \in Ins \cup Outs
                         /\ i \in Nat
  /\ \A i, j \in DOMAIN l : l[i].node = l[j].node => i = j

LEMMA LayoutFacts == \A l \in Layouts \cup {<<>>} : Layout(l)
<1> SUFFICES ASSUME NEW l \in Layouts \cup {<<>>} PROVE Layout(l)
  OBVIOUS
<1> DEFINE m == Cardinality(Nodes)
<1>1. m \in Nat /\ Nodes = 1..m
  BY NodesAssumption, FS_CardinalityType
<1>2. CASE l = <<>>
  BY <1>2 DEF Layout
<1>3. CASE l \in Layouts
  <2>1. /\ l \in Seq([node : Nodes, kind : Ins \cup Outs])
        /\ \A i, j \in DOMAIN l : i < j => l[i].node < l[j].node
    BY <1>3, LayoutsAssumption
  <2>2. Len(l) \in Nat /\ DOMAIN l = 1..Len(l)
    BY <2>1
  <2>3. \A i \in DOMAIN l : l[i].node \in Nodes /\ l[i].kind \in Ins \cup Outs
    <3> DEFINE M == [node : Nodes, kind : Ins \cup Outs]
    <3>1. \A m1 \in M : m1.node \in Nodes /\ m1.kind \in Ins \cup Outs
      OBVIOUS
    <3>2. l \in Seq(M)
      BY <2>1
    <3> HIDE DEF M
    <3>3. \A i \in DOMAIN l : l[i] \in M
      BY <3>2
    <3> QED BY <3>1, <3>3
  <2>4. \A i, j \in DOMAIN l : l[i].node = l[j].node => i = j
    <3>1. \A i, j \in DOMAIN l : i < j => l[i].node # l[j].node
      BY <1>1, <2>1, <2>3
    <3>2. \A i, j \in DOMAIN l : i < j \/ i = j \/ j < i
      BY <2>2
    <3> QED BY <3>1, <3>2
  <2> DEFINE f == [i \in 1..Len(l) |-> l[i].node]
  <2>5. f \in Injection(1..Len(l), Nodes)
    BY <2>2, <2>3, <2>4 DEF Injection, IsInjective
  <2>6. Cardinality(1..Len(l)) <= m
    BY <2>5, NodesAssumption, FS_Injection
  <2>7. Cardinality(1..Len(l)) = Len(l)
    BY <2>2, FS_Interval
  <2> QED BY <1>1, <2>2, <2>3, <2>4, <2>6, <2>7 DEF Layout
<1> QED BY <1>2, <1>3

\* A set of slots is finite.
LEMMA SlotsFinite ==
  ASSUME NEW l, Layout(l), NEW S \in SUBSET DOMAIN l
  PROVE  IsFiniteSet(S) /\ Cardinality(S) \in Nat
<1>1. IsFiniteSet(1..Len(l))
  BY FS_Interval DEF Layout
<1>2. IsFiniteSet(S)
  BY <1>1, FS_Subset DEF Layout
<1> QED BY <1>2, FS_CardinalityType

\* A module is counted with those before it, so modules of one side have
\* indexes that rise with their slots.
LEMMA IndexRises ==
  ASSUME NEW l, Layout(l), NEW i \in DOMAIN l, NEW j \in SameSide(l, i), i < j
  PROVE  Index(l, i) < Index(l, j)
<1> DEFINE A == {k \in SameSide(l, i) : k <= i}
           B == {k \in SameSide(l, j) : k <= j}
<1>1. SameSide(l, j) = SameSide(l, i) /\ SameSide(l, i) \subseteq DOMAIN l
  BY DEF SameSide
<1>2. A \cup {j} \in SUBSET B /\ j \notin A
  BY <1>1 DEF Layout, SameSide
<1>3. IsFiniteSet(A) /\ Cardinality(A) \in Nat /\ IsFiniteSet(B) /\ Cardinality(B) \in Nat
  BY <1>1, SlotsFinite
<1>4. Cardinality(A \cup {j}) = Cardinality(A) + 1
  BY <1>2, <1>3, FS_AddElement
<1>5. Cardinality(A \cup {j}) <= Cardinality(B)
  BY <1>2, <1>3, FS_Subset
<1> QED BY <1>3, <1>4, <1>5 DEF Index

LEMMA IndexOne ==
  ASSUME NEW l, Layout(l), NEW i \in DOMAIN l, NEW j \in SameSide(l, i),
         Index(l, i) = Index(l, j)
  PROVE  i = j
<1>1. i \in Nat /\ j \in Nat /\ j \in DOMAIN l /\ i \in SameSide(l, j)
  BY DEF SameSide, Layout
<1>2. Index(l, i) \in Nat
  BY SlotsFinite DEF Index, SameSide
<1>3. ~(i < j) /\ ~(j < i)
  BY <1>1, <1>2, IndexRises
<1> QED BY <1>1, <1>3

\* The index is the number of an object: 1 to the number of modules of the side.
LEMMA IndexRange ==
  ASSUME NEW l, Layout(l), NEW i \in DOMAIN l
  PROVE  Index(l, i) \in 1..Cardinality(SameSide(l, i)) /\ Index(l, i) \in Nodes
<1> DEFINE A == {k \in SameSide(l, i) : k <= i}
           S == SameSide(l, i)
<1>1. S \subseteq DOMAIN l /\ A \in SUBSET S /\ {i} \in SUBSET A
  BY DEF SameSide, Layout
<1>2. IsFiniteSet(A) /\ Cardinality(A) \in Nat /\ IsFiniteSet(S) /\ Cardinality(S) \in Nat
  BY <1>1, SlotsFinite
<1>3. Cardinality({i}) = 1 /\ Cardinality({i}) <= Cardinality(A)
  BY <1>1, <1>2, FS_Singleton, FS_Subset
<1>4. Cardinality(A) <= Cardinality(S)
  BY <1>1, <1>2, FS_Subset
<1>5. Cardinality(S) <= Cardinality(Nodes) /\ Cardinality(Nodes) \in Nat
  BY <1>1, NodesAssumption, FS_Subset, FS_CardinalityType DEF Layout
<1> QED BY <1>2, <1>3, <1>4, <1>5, NodesAssumption DEF Index

\* A module's bytes end before those of the next of its side begin.
LEMMA BeforeGrows ==
  ASSUME NEW l, Layout(l), NEW i \in DOMAIN l, NEW j \in SameSide(l, i), i < j, NEW w
  PROVE  /\ Before(l, i, w) \in Nat /\ Before(l, j, w) \in Nat
         /\ Before(l, i, w) <= Before(l, j, w)
         /\ Width(l[i]) = w => Before(l, i, w) + 1 <= Before(l, j, w)
<1> DEFINE A == {k \in SameSide(l, i) : k < i /\ Width(l[k]) = w}
           B == {k \in SameSide(l, j) : k < j /\ Width(l[k]) = w}
<1>1. SameSide(l, j) = SameSide(l, i) /\ SameSide(l, i) \subseteq DOMAIN l
  BY DEF SameSide
<1>2. \A k \in DOMAIN l : k \in Nat
  BY DEF Layout
<1>3. A \in SUBSET B /\ i \notin A /\ (Width(l[i]) = w => i \in B)
  <2> HIDE DEF Width
  <2> QED BY <1>1, <1>2 DEF SameSide
<1>4. /\ IsFiniteSet(A) /\ Cardinality(A) \in Nat
      /\ IsFiniteSet(B) /\ Cardinality(B) \in Nat
  BY <1>1, SlotsFinite
<1>5. Cardinality(A) <= Cardinality(B)
  BY <1>3, <1>4, FS_Subset
<1>6. Width(l[i]) = w => Cardinality(A) + 1 <= Cardinality(B)
  <2> SUFFICES ASSUME Width(l[i]) = w PROVE Cardinality(A) + 1 <= Cardinality(B)
    OBVIOUS
  <2>1. A \cup {i} \in SUBSET B
    BY <1>3
  <2>2. Cardinality(A \cup {i}) = Cardinality(A) + 1
    BY <1>3, <1>4, FS_AddElement
  <2> QED BY <1>4, <2>1, <2>2, FS_Subset
<1> QED BY <1>4, <1>5, <1>6 DEF Before

LEMMA OffsetApart ==
  ASSUME NEW l, Layout(l), NEW i \in DOMAIN l, NEW j \in SameSide(l, i), i < j
  PROVE  /\ Offset(l, i) \in Nat /\ Offset(l, j) \in Nat /\ Width(l[i]) \in Nat \ {0}
         /\ Offset(l, i) + Width(l[i]) <= Offset(l, j)
<1>1. Width(l[i]) \in {2, 16, 24}
  BY DEF Layout, Width, Ins, Outs, Digital
<1>2. \A w \in {2, 16, 24} :
         /\ Before(l, i, w) \in Nat /\ Before(l, j, w) \in Nat
         /\ Before(l, i, w) <= Before(l, j, w)
         /\ Width(l[i]) = w => Before(l, i, w) + 1 <= Before(l, j, w)
  BY BeforeGrows
<1> QED BY <1>1, <1>2 DEF Offset

\* No two modules of a side begin at the same byte.
LEMMA OffsetOne ==
  ASSUME NEW l, Layout(l), NEW i \in DOMAIN l, NEW j \in SameSide(l, i),
         Offset(l, i) = Offset(l, j)
  PROVE  i = j
<1>1. i \in Nat /\ j \in Nat /\ j \in DOMAIN l /\ i \in SameSide(l, j)
  BY DEF SameSide, Layout
<1>2. ~(i < j)
  BY OffsetApart
<1>3. ~(j < i)
  BY <1>1, OffsetApart
<1> QED BY <1>1, <1>2, <1>3

\* The slots of a side, and the object of each.
LEMMA Sides ==
  ASSUME NEW i \in DOMAIN table, Layout(table)
  PROVE  /\ i \in Slots(Outs) => SameSide(table, i) = Slots(Outs) /\ ~IsIn(table[i])
         /\ i \in Slots(Ins) => SameSide(table, i) = Slots(Ins) /\ IsIn(table[i])
         /\ i \in Slots(Outs) \/ i \in Slots(Ins)
BY DEF Layout, Slots, SameSide, IsIn, Ins, Outs

LEMMA ObjectIn ==
  ASSUME NEW l, Layout(l), NEW i \in DOMAIN l
  PROVE  Object(l, i) \in Objects
BY IndexRange DEF Object, Objects

LEMMA ObjectOne ==
  ASSUME NEW l, Layout(l), NEW i \in DOMAIN l, NEW j \in DOMAIN l,
         Object(l, i) = Object(l, j)
  PROVE  i = j
<1>1. IsIn(l[j]) = IsIn(l[i]) /\ Index(l, i) = Index(l, j)
  BY DEF Object, IsIn
<1>2. j \in SameSide(l, i)
  BY <1>1 DEF SameSide
<1> QED BY <1>1, <1>2, IndexOne

\* Each of the numbers 1 to NumOut is the index of one output module.
LEMMA IndexOnto ==
  ASSUME Layout(table), NEW k \in 1..NumOut
  PROVE  \E i \in Slots(Outs) : Index(table, i) = k
<1> DEFINE S == Slots(Outs)
           f == [i \in S |-> Index(table, i)]
<1>1. S \subseteq DOMAIN table
  BY DEF Slots
<1>2. IsFiniteSet(S) /\ Cardinality(S) \in Nat /\ Cardinality(S) = NumOut
  BY <1>1, SlotsFinite DEF NumOut
<1>3. \A i \in S : SameSide(table, i) = S
  BY <1>1, Sides
<1>4. \A i \in S : Index(table, i) \in 1..NumOut
  BY <1>1, <1>2, <1>3, IndexRange
<1>5. \A i, j \in S : Index(table, i) = Index(table, j) => i = j
  BY <1>1, <1>3, IndexOne
<1>6. f \in Injection(S, 1..NumOut)
  BY <1>4, <1>5 DEF Injection, IsInjective
<1>7. IsFiniteSet(1..NumOut) /\ Cardinality(1..NumOut) = NumOut
  BY <1>2, FS_Interval
<1>8. f \in Surjection(S, 1..NumOut)
  <2> HIDE DEF f, S
  <2> QED BY <1>2, <1>6, <1>7, FS_Injection
<1> QED BY <1>8 DEF Surjection

LEMMA OwnerOf ==
  ASSUME Layout(table), NEW i \in Slots(Outs)
  PROVE  (CHOOSE j \in Slots(Outs) : Index(table, j) = Index(table, i)) = i
<1> DEFINE c == CHOOSE j \in Slots(Outs) : Index(table, j) = Index(table, i)
<1>1. c \in Slots(Outs) /\ Index(table, c) = Index(table, i)
  OBVIOUS
<1>2. i \in DOMAIN table /\ c \in SameSide(table, i)
  BY <1>1, Sides DEF Slots
<1> HIDE DEF c
<1>3. c = i
  BY <1>1, <1>2, IndexOne
<1> QED BY <1>3 DEF c

\* A set of slots that is not empty has a greatest element.
LEMMA Minimal ==
  ASSUME NEW S, S \subseteq Nat, S # {}, NEW less, IsWellFoundedOn(less, Nat)
  PROVE  \E r \in S : \A q \in S : ~(<<q, r>> \in less)
BY WFMin

LEMMA MaxIn ==
  ASSUME NEW n \in Nat, NEW S, S \subseteq 0..n, S # {}
  PROVE  Max(S) \in S
<1> DEFINE less == {ss \in Nat \X Nat : ss[1] < ss[2]}
           T == {n - x : x \in S}
<1>1. IsWellFoundedOn(less, Nat)
  BY NatLessThanWellFounded DEF OpToRel
<1>2. T \subseteq Nat /\ T # {}
  <2>1. \A x \in S : n - x \in Nat
    OBVIOUS
  <2> QED BY <2>1
<1>3. PICK r \in T : \A q \in T : ~(<<q, r>> \in less)
  <2> HIDE DEF less, T
  <2> QED BY <1>1, <1>2, Minimal
<1>4. \A q, p \in Nat : q < p => <<q, p>> \in less
  OBVIOUS
<1>5. \A x \in S : n - x \in T /\ n - x \in Nat
  OBVIOUS
<1> HIDE DEF less
<1>6. PICK m \in S : r = n - m
  BY <1>3
<1> HIDE DEF T
<1>7. ASSUME NEW y \in S PROVE m >= y
  <2>1. n - y \in T /\ n - y \in Nat /\ n - m \in Nat /\ ~(n - y < n - m)
    BY <1>3, <1>4, <1>5, <1>6
  <2> QED BY <2>1
<1>8. \E x \in S : \A y \in S : x >= y
  BY <1>7
<1> QED BY <1>8 DEF Max

-----------------------------------------------------------------------------
(* The places of TPDO and MAIN in their passes, and the types *)

\* MAIN is in PDOInit only in setState(Operational), and calls canSend there
\* only with a PDO.
MainPlace ==
  /\ pos[Main] > 0 => mode = "start"
  /\ stage[Main] # "none" => pos[Main] \in 1..NumOut
  /\ pc[Main] # "idle" /\ mode \notin {"reset", "scan"} => stage[Main] = "stored"

\* TPDO sends at a slot only, and is suspended in its delay or waiting for a
\* completion.
TpdoPlace ==
  /\ stage[Tpdo] # "none" => pos[Tpdo] > 1
  /\ pc[Tpdo] # "idle" => stage[Tpdo] = "stored"
  /\ Tpdo \in suspended => pos[Tpdo] = 0 \/ pc[Tpdo] = "waiting"

FramePlace == \A t \in PdoTasks :
  /\ stage[t] = "built" => pc[t] = "idle"
  /\ stage[t] = "none" <=> frame[t] = NoPdo

\* During a scan there is no table, and nothing counts as sent.
ScanPlace == mode \in {"reset", "scan"} =>
  /\ Tpdo \in suspended /\ table = <<>>
  /\ \A n \in Nodes : last[n] = NoPdo

Places4 == MainPlace /\ TpdoPlace /\ FramePlace /\ ScanPlace

TypeInv == OutputsTypeOK /\ Places4

Size == Cardinality(Nodes)

\* What the types say of the table and of the tasks that send PDOs.
LEMMA Basics ==
  ASSUME OutputsTypeOK
  PROVE  /\ Layout(table) /\ Main \in PdoTasks /\ Tpdo \in PdoTasks /\ Main # Tpdo
         /\ PdoTasks \subseteq Tasks /\ Size \in Nat /\ Nodes = 1..Size
         /\ Len(table) \in 0..Size /\ NumOut \in 0..Size
         /\ Prio[Main] < Prio[Tpdo] /\ ~(Prio[Main] >= Prio[Tpdo])
<1>1. Layout(table)
  BY LayoutFacts DEF OutputsTypeOK
<1>2. Size \in Nat /\ Nodes = 1..Size /\ IsFiniteSet(Nodes)
  BY NodesAssumption, FS_CardinalityType DEF Size
<1>3. Main \in Tasks /\ Tpdo \in Tasks /\ Main # Tpdo
  BY TasksAssumption
<1>4. Prio[Main] \in Nat /\ Prio[Tpdo] \in Nat /\ Prio[Tpdo] > Prio[Main]
  BY <1>3, PrioAssumption
<1>5. Slots(Outs) \in SUBSET DOMAIN table /\ DOMAIN table \subseteq Nodes
  BY <1>1 DEF Slots, Layout
<1>6. IsFiniteSet(Slots(Outs)) /\ NumOut \in Nat /\ NumOut <= Size
  BY <1>1, <1>2, <1>5, SlotsFinite, FS_Subset DEF NumOut, Size
<1>7. Len(table) \in Nat /\ Len(table) <= Size
  BY <1>1, <1>2 DEF Layout
<1> QED BY <1>1, <1>2, <1>3, <1>4, <1>6, <1>7 DEF PdoTasks

\* A PDO that is due is that of an output module: of the slot TPDO is at, or of
\* the one whose turn it is in PDOInit.
PdoOf(i) == [pdo |-> Index(table, i), to |-> table[i].node,
             word |-> od[Object(table, i)]]

LEMMA DuePdo ==
  ASSUME OutputsTypeOK, NEW t \in PdoTasks, NEW k \in Due(t)
  PROVE  \E i \in Slots(Outs) :
           /\ k = Index(table, i) /\ Pdo(k) = PdoOf(i)
           /\ t = Tpdo => i \in Slots({"DO"}) /\ i = pos[Tpdo] - 1
<1>0. /\ Layout(table) /\ Main # Tpdo /\ PdoTasks = {Main, Tpdo}
  BY Basics DEF PdoTasks
<1>1. \E i \in Slots(Outs) : /\ Index(table, i) = k
                             /\ t = Tpdo => i \in Slots({"DO"}) /\ i = pos[Tpdo] - 1
  <2>1. CASE t = Main
    <3>1. k \in 1..NumOut
      BY <2>1 DEF Due
    <3> QED BY <1>0, <2>1, <3>1, IndexOnto
  <2>2. CASE t = Tpdo
    BY <1>0, <2>2 DEF Due, Slots, Outs
  <2> QED BY <1>0, <2>1, <2>2
<1>2. PICK i \in Slots(Outs) : /\ Index(table, i) = k
                               /\ t = Tpdo => i \in Slots({"DO"}) /\ i = pos[Tpdo] - 1
  BY <1>1
<1>3. (CHOOSE j \in Slots(Outs) : Index(table, j) = k) = i
  BY <1>0, <1>2, OwnerOf
<1>4. i \in DOMAIN table /\ ~IsIn(table[i])
  BY <1>0, Sides DEF Slots
<1>5. Pdo(k) = PdoOf(i)
  BY <1>2, <1>3, <1>4 DEF Pdo, PdoOf, Object
<1> QED BY <1>2, <1>5

LEMMA PdoTyped ==
  ASSUME OutputsTypeOK, NEW i \in Slots(Outs)
  PROVE  /\ PdoOf(i) \in Pdos /\ PdoOf(i) # NoPdo
         /\ PdoOf(i).pdo = Index(table, i) /\ PdoOf(i).to = table[i].node
         /\ PdoOf(i).word = od[Object(table, i)]
         /\ Index(table, i) \in Nodes /\ table[i].node \in Nodes
<1>1. Layout(table) /\ i \in DOMAIN table /\ Nodes \subseteq Nat \ {0}
  BY Basics DEF Slots
<1>2. Index(table, i) \in Nodes /\ table[i].node \in Nodes /\ Object(table, i) \in Objects
  BY <1>1, IndexRange, ObjectIn DEF Layout
<1>3. od[Object(table, i)] \in Words
  BY <1>2 DEF OutputsTypeOK
<1> HIDE DEF Words
<1> QED BY <1>1, <1>2, <1>3 DEF PdoOf, Pdos, NoPdo

LEMMA PlaceTyped ==
  ASSUME OutputsTypeOK, NEW kinds, NEW i \in Slots(kinds)
  PROVE  Place(i) \in Places(kinds)
<1>1. table \in Layouts \cup {<<>>} /\ i \in DOMAIN table /\ table[i].kind \in kinds
  BY DEF OutputsTypeOK, Slots
<1>2. table \in Layouts
  BY <1>1
<1> QED BY <1>1, <1>2 DEF Place, Places

LEMMA LinkTyped ==
  ASSUME OutputsTypeOK, NEW i \in DOMAIN table
  PROVE  Link(i) \in Objects \cup {Null}
<1>1. i \in Nodes
  BY Basics DEF Layout
<1>2. links[i] \in [d : Objects \cup {Null}, a : Objects \cup {Null}]
  BY <1>1 DEF OutputsTypeOK
<1> HIDE DEF Objects
<1> QED BY <1>2 DEF Link

LEMMA AfterTyped ==
  ASSUME OutputsTypeOK, NEW t \in PdoTasks, t = Main => pos[t] <= NumOut
  PROVE  After(t) \in [PdoTasks -> 0..Size + 1]
<1>1. /\ PdoTasks = {Main, Tpdo} /\ Size \in Nat /\ Len(table) \in 0..Size
      /\ NumOut \in 0..Size /\ Main # Tpdo /\ pos \in [PdoTasks -> 0..Size + 1]
  BY Basics DEF OutputsTypeOK, PdoTasks, Size
<1>2. ~(t = Tpdo /\ pos[t] > Len(table)) => pos[t] + 1 \in 0..Size + 1
  <2>1. pos[t] \in 0..Size + 1 /\ (t = Main \/ t = Tpdo)
    BY <1>1
  <2> QED BY <1>1, <2>1
<1>3. 0 \in 0..Size + 1
  BY <1>1
<1> QED BY <1>1, <1>2, <1>3 DEF After

LEMMA CopiedOutTyped ==
  ASSUME OutputsTypeOK PROVE CopiedOut \in [Objects -> Words]
<1> SUFFICES ASSUME NEW o \in Objects
             PROVE  (LET w == {i \in Slots(Outs) : Link(i) = o} IN
                     IF w = {} THEN od[o] ELSE buff_out[Place(Max(w))]) \in Words
  BY DEF CopiedOut
<1> DEFINE w == {i \in Slots(Outs) : Link(i) = o}
<1>1. od[o] \in Words
  BY DEF OutputsTypeOK
<1>2. Size \in Nat /\ w \subseteq 0..Size
  BY Basics DEF Layout, Slots
<1>3. w # {} => Max(w) \in Slots(Outs)
  <2>1. w # {} => Max(w) \in w
    <3> HIDE DEF w
    <3> QED BY <1>2, MaxIn
  <2> QED BY <2>1
<1>4. w # {} => buff_out[Place(Max(w))] \in Words
  <2>1. w # {} => Place(Max(w)) \in Places(Outs)
    BY <1>3, PlaceTyped
  <2> QED BY <2>1 DEF OutputsTypeOK
<1> QED BY <1>1, <1>4

LEMMA CopiedInTyped ==
  ASSUME OutputsTypeOK, NEW objects \in [Objects -> Words]
  PROVE  CopiedIn(objects) \in [Places(Ins) -> Words]
<1> SUFFICES ASSUME NEW a \in Places(Ins)
             PROVE  (LET r == {i \in Slots(Ins) : Shows(i) /\ Place(i) = a /\ Link(i) # Null} IN
                     IF r = {} THEN buff_in[a] ELSE objects[Link(Max(r))]) \in Words
  BY DEF CopiedIn
<1> DEFINE r == {i \in Slots(Ins) : Shows(i) /\ Place(i) = a /\ Link(i) # Null}
<1>1. buff_in[a] \in Words
  BY DEF OutputsTypeOK
<1>2. Size \in Nat /\ r \subseteq 0..Size
  BY Basics DEF Layout, Slots
<1>3. r # {} => Max(r) \in Slots(Ins) /\ Link(Max(r)) # Null
  <2>1. r # {} => Max(r) \in r
    <3> HIDE DEF r
    <3> QED BY <1>2, MaxIn
  <2> QED BY <2>1
<1>4. r # {} => objects[Link(Max(r))] \in Words
  <2>1. r # {} => Link(Max(r)) \in Objects
    BY <1>3, LinkTyped DEF Slots
  <2> QED BY <2>1
<1> QED BY <1>1, <1>4

LEMMA LinkedTyped ==
  ASSUME OutputsTypeOK, NEW l \in Layouts \cup {<<>>}
  PROVE  Linked(l) \in [Nodes -> [d : Objects \cup {Null}, a : Objects \cup {Null}]]
<1> DEFINE R == [d : Objects \cup {Null}, a : Objects \cup {Null}]
           At(n) == {i \in DOMAIN l : l[i].node = n}
           Of(n) == CHOOSE i \in At(n) : TRUE
<1>1. \A n \in Nodes : links[n] \in R
  BY DEF OutputsTypeOK
<1>2. \A n \in Nodes : At(n) # {} => Object(l, Of(n)) \in Objects
  <2> SUFFICES ASSUME NEW n \in Nodes, At(n) # {} PROVE Object(l, Of(n)) \in Objects
    OBVIOUS
  <2>1. Of(n) \in DOMAIN l
    OBVIOUS
  <2> QED BY <2>1, LayoutFacts, ObjectIn
<1>3. \A r \in R, o \in Objects : [r EXCEPT !.d = o] \in R /\ [r EXCEPT !.a = o] \in R
  <2> HIDE DEF Objects
  <2> QED OBVIOUS
<1> HIDE DEF R, At
<1>4. \A n \in Nodes :
        (IF At(n) = {} THEN links[n]
         ELSE IF l[Of(n)].kind \in Digital THEN [links[n] EXCEPT !.d = Object(l, Of(n))]
                                           ELSE [links[n] EXCEPT !.a = Object(l, Of(n))]) \in R
  BY <1>1, <1>2, <1>3
<1> QED BY <1>4 DEF Linked, At, R

\* The initial state.
LEMMA InitTypeIO == Init /\ InitIO => TypeInv
<1> SUFFICES ASSUME Init, InitIO PROVE TypeInv
  OBVIOUS
<1>1. TypeOK
  BY InitInv DEF IInv
<1>2. Main \in PdoTasks /\ Tpdo \in PdoTasks /\ Size \in Nat
  BY NodesAssumption, FS_CardinalityType DEF PdoTasks, Size
<1>3. Zero \in Words
  BY DEF Words
<1>4. OutputsTypeOK
  <2>1. pos \in [PdoTasks -> 0..Size + 1]
    BY <1>2 DEF InitIO
  <2>2. NoPdo \in Pdos
    BY DEF Pdos
  <2>3. links \in [Nodes -> [d : Objects \cup {Null}, a : Objects \cup {Null}]]
    BY DEF InitIO
  <2> HIDE DEF Words, Places, Pdos, Objects
  <2> QED BY <1>1, <1>3, <2>1, <2>2, <2>3 DEF InitIO, OutputsTypeOK, Size
<1>5. Places4
  BY <1>2, TasksAssumption DEF Init, InitIO, Places4, MainPlace, TpdoPlace, FramePlace, ScanPlace
<1> QED BY <1>4, <1>5 DEF TypeInv

\* The types, for each step of the composition.
LEMMA TypeStepIO == TypeInv /\ [NextIO]_allVars => OutputsTypeOK'
<1> SUFFICES ASSUME TypeInv, [NextIO]_allVars PROVE OutputsTypeOK'
  OBVIOUS
<1>0. OutputsTypeOK /\ Places4
  BY DEF TypeInv
<1>1. TypeOK'
  BY <1>0, StepImplements, TypeStep DEF OutputsTypeOK
<1>2. UNCHANGED io => OutputsTypeOK'
  <2> HIDE DEF Words, Places, Pdos, Objects
  <2> QED BY <1>0, <1>1 DEF OutputsTypeOK, io, config, sending, image
<1> USE DEF io, config, sending, image
<1>3. ASSUME NEW t \in PdoTasks, Skip(t) PROVE OutputsTypeOK'
  <2>1. t = Main => pos[t] <= NumOut
    BY <1>0, <1>3, Basics DEF Skip, Turn
  <2>2. pos' \in [PdoTasks -> 0..Size + 1]
    BY <1>0, <1>3, <2>1, AfterTyped DEF Skip
  <2> HIDE DEF Words, Places, Pdos, Objects
  <2> QED BY <1>0, <1>1, <1>3, <2>2 DEF OutputsTypeOK, Skip, Size
<1>4. ASSUME NEW t \in PdoTasks, Build(t) PROVE OutputsTypeOK'
  <2>1. PICK k \in Due(t) : frame' = [frame EXCEPT ![t] = Pdo(k)]
    BY <1>4 DEF Build
  <2>2. Pdo(k) \in Pdos
    BY <1>0, DuePdo, PdoTyped
  <2> HIDE DEF Words, Places, Pdos, Objects
  <2> QED BY <1>0, <1>1, <1>4, <2>1, <2>2 DEF OutputsTypeOK, Build
<1>5. ASSUME NEW t \in PdoTasks, Store(t) PROVE OutputsTypeOK'
  <2>1. frame[t] \in Pdos /\ frame[t] # NoPdo
    BY <1>0, <1>5 DEF OutputsTypeOK, Store, Places4, FramePlace
  <2>2. frame[t].to \in Nodes
    BY <2>1 DEF Pdos
  <2>3. last' \in [Nodes -> Pdos] /\ spoilt' \subseteq Nodes
    <3> HIDE DEF Pdos
    <3> QED BY <1>0, <1>5, <2>1, <2>2 DEF OutputsTypeOK, Store
  <2>4. stage' \in [PdoTasks -> {"none", "built", "stored"}]
    BY <1>0, <1>5 DEF OutputsTypeOK, Store
  <2> HIDE DEF Words, Places, Pdos, Objects
  <2> QED BY <1>0, <1>1, <1>5, <2>3, <2>4 DEF OutputsTypeOK, Store
<1>6. ASSUME NEW t \in PdoTasks, SendRefused(t) \/ SendReturns(t) PROVE OutputsTypeOK'
  <2>1. stage[t] = "stored" /\ NextPdo(t)
    BY <1>6 DEF SendRefused, SendReturns
  <2>2. t = Main => pos[t] <= NumOut
    BY <1>0, <2>1, Basics DEF Places4, MainPlace
  <2>3. pos' \in [PdoTasks -> 0..Size + 1]
    BY <1>0, <2>1, <2>2, AfterTyped DEF NextPdo
  <2>4. frame[t] \in Pdos /\ frame[t] # NoPdo
    BY <1>0, <2>1 DEF OutputsTypeOK, Places4, FramePlace
  <2>5. frame[t].to \in Nodes
    BY <2>4 DEF Pdos
  <2>6. stage' \in [PdoTasks -> {"none", "built", "stored"}] /\ frame' \in [PdoTasks -> Pdos]
    BY <1>0, <2>1 DEF OutputsTypeOK, NextPdo, Pdos
  <2>7. spoilt' \subseteq Nodes
    BY <1>0, <1>6, <2>5 DEF OutputsTypeOK, SendRefused, SendReturns
  <2> HIDE DEF Words, Places, Pdos, Objects
  <2> QED BY <1>0, <1>1, <1>6, <2>3, <2>6, <2>7
             DEF OutputsTypeOK, SendRefused, SendReturns, NextPdo, Size
<1>7. CASE Wake
  <2>1. pos' \in [PdoTasks -> 0..Size + 1]
    BY <1>0, <1>7, Basics DEF Wake, OutputsTypeOK, Size
  <2> HIDE DEF Words, Places, Pdos, Objects
  <2> QED BY <1>0, <1>1, <1>7, <2>1 DEF OutputsTypeOK, Wake, Size
<1>8. CASE Copy
  <2>1. pos' \in [PdoTasks -> 0..Size + 1]
    BY <1>0, <1>8, AfterTyped, Basics DEF Copy
  <2>2. od' \in [Objects -> Words] /\ buff_in' \in [Places(Ins) -> Words]
    <3>1. CASE active = "none"
      BY <1>0, <1>8, <3>1 DEF OutputsTypeOK, Copy
    <3>2. CASE active # "none"
      BY <1>0, <1>8, <3>2, CopiedOutTyped, CopiedInTyped DEF Copy
    <3> QED BY <3>1, <3>2
  <2>3. copied' \in BOOLEAN
    <3>1. (mode = "op") \in BOOLEAN
      OBVIOUS
    <3> QED BY <1>0, <1>8, <3>1 DEF OutputsTypeOK, Copy
  <2>4. shown' \subseteq Nodes
    <3>1. \A i \in DOMAIN table : table[i].node \in Nodes
      BY <1>0, Basics DEF Layout
    <3> QED BY <1>0, <1>8, <3>1 DEF OutputsTypeOK, Copy, Slots
  <2> HIDE DEF Words, Places, Pdos, Objects
  <2> QED BY <1>0, <1>1, <1>8, <2>1, <2>2, <2>3, <2>4 DEF OutputsTypeOK, Copy, Size
<1>9. CASE Deliver
  <2>1. led' \in [Nodes -> Words \cup {Off}]
    <3>1. CASE wire \in PdoTasks /\ frame[wire] # NoPdo
      <4>1. frame[wire] \in [pdo : Nodes, to : Nodes, word : Words]
        BY <1>0, <3>1 DEF OutputsTypeOK, Pdos
      <4>2. frame[wire].to \in Nodes /\ frame[wire].word \in Words
        <5> HIDE DEF Words
        <5> QED BY <4>1
      <4> HIDE DEF Words
      <4> QED BY <1>0, <1>9, <3>1, <4>2 DEF OutputsTypeOK, Deliver
    <3>2. CASE ~(wire \in PdoTasks /\ frame[wire] # NoPdo)
      BY <1>0, <1>9, <3>2 DEF OutputsTypeOK, Deliver
    <3> QED BY <3>1, <3>2
  <2> HIDE DEF Words, Places, Pdos, Objects
  <2> QED BY <1>0, <1>1, <1>9, <2>1 DEF OutputsTypeOK, Deliver
<1>10. CASE StopForScan
  <2>1. last' \in [Nodes -> Pdos]
    BY <1>10 DEF StopForScan, Pdos
  <2> HIDE DEF Words, Places, Pdos, Objects
  <2> QED BY <1>0, <1>1, <1>10, <2>1 DEF OutputsTypeOK, StopForScan
<1>11. CASE Configure
  <2>1. PICK l \in Layouts \cup {<<>>} : table' = l /\ links' = Linked(l)
    BY <1>11 DEF Configure
  <2>2. links' \in [Nodes -> [d : Objects \cup {Null}, a : Objects \cup {Null}]]
    BY <1>0, <2>1, LinkedTyped
  <2>3. pos' \in [PdoTasks -> 0..Size + 1]
    BY <1>0, <1>11, Basics DEF Configure, OutputsTypeOK, Size
  <2>4. led' \in [Nodes -> Words \cup {Off}]
    BY <1>11 DEF Configure
  <2> HIDE DEF Words, Places, Pdos, Objects
  <2> QED BY <1>0, <1>1, <1>11, <2>1, <2>2, <2>3, <2>4 DEF OutputsTypeOK, Configure, Size
<1>12. CASE SetOperational \/ Operational
  <2>1. pos' \in [PdoTasks -> 0..Size + 1]
    <3>1. Size \in Nat /\ pos \in [PdoTasks -> 0..Size + 1]
      BY <1>0, Basics DEF OutputsTypeOK, Size
    <3>2. 0 \in 0..Size + 1 /\ 1 \in 0..Size + 1
      BY <3>1
    <3> QED BY <1>12, <3>1, <3>2 DEF SetOperational, Operational
  <2> HIDE DEF Words, Places, Pdos, Objects
  <2> QED BY <1>0, <1>1, <1>12, <2>1 DEF OutputsTypeOK, SetOperational, Operational, Size
<1>13. CASE InputPdo
  <2>1. PICK i \in Slots(Ins) : od' = [od EXCEPT ![Object(table, i)] = From(table[i].node)]
    BY <1>13 DEF InputPdo
  <2>2. table[i].node \in Nodes
    BY <1>0, Basics DEF Layout, Slots
  <2>3. From(table[i].node) \in Words
    BY <2>2 DEF Words
  <2>4. od' \in [Objects -> Words]
    <3> HIDE DEF Words
    <3> QED BY <1>0, <2>1, <2>3 DEF OutputsTypeOK
  <2> HIDE DEF Words, Places, Pdos, Objects
  <2> QED BY <1>0, <1>1, <1>13, <2>4 DEF OutputsTypeOK, InputPdo
<1>14. CASE ModuleRestarts
  <2>1. PICK i \in Slots(Outs) : /\ led' = [led EXCEPT ![table[i].node] = Off]
                                 /\ spoilt' = spoilt \cup {table[i].node}
    BY <1>14 DEF ModuleRestarts
  <2>2. table[i].node \in Nodes
    BY <1>0, Basics DEF Layout, Slots
  <2> HIDE DEF Words, Places, Pdos, Objects
  <2> QED BY <1>0, <1>1, <1>14, <2>1, <2>2 DEF OutputsTypeOK, ModuleRestarts
<1>15. CASE Core1Up
  <2> HIDE DEF Words, Places, Pdos, Objects
  <2> QED BY <1>0, <1>1, <1>15 DEF OutputsTypeOK, Core1Up
<1>16. CASE PlcWrite
  <2>1. PICK i \in Slots(Driven) : \E w \in {Zero, Written(Place(i))} :
          buff_out' = [buff_out EXCEPT ![Place(i)] = w]
    BY <1>16 DEF PlcWrite
  <2>0. PICK w \in {Zero, Written(Place(i))} :
          buff_out' = [buff_out EXCEPT ![Place(i)] = w]
    BY <2>1
  <2>2. i \in Slots(Outs)
    BY DrivenAssumption DEF Slots
  <2>3. w \in Words
    BY <1>0, <2>2, PlaceTyped DEF Words
  <2>4. buff_out' \in [Places(Outs) -> Words]
    <3> HIDE DEF Words, Places
    <3> QED BY <1>0, <2>0, <2>3 DEF OutputsTypeOK
  <2> HIDE DEF Words, Places, Pdos, Objects
  <2> QED BY <1>0, <1>1, <1>16, <2>4 DEF OutputsTypeOK, PlcWrite
<1>17. ASSUME NEW t \in Tasks, OtherFrame(t) \/ InSend(t) \/ OtherReturns(t)
       PROVE  UNCHANGED io
  BY <1>17 DEF OtherFrame, InSend, OtherReturns
<1>18. ASSUME NEW t \in PdoTasks, CallSend(t) PROVE UNCHANGED io
  BY <1>18 DEF CallSend
<1>19. CASE UNCHANGED allVars
  BY <1>2, <1>19 DEF allVars
<1>20. CASE NextIO
  BY <1>2, <1>3, <1>4, <1>5, <1>6, <1>7, <1>8, <1>9, <1>10, <1>11, <1>12, <1>13,
     <1>14, <1>15, <1>16, <1>17, <1>18, <1>20 DEF NextIO
<1> QED BY <1>19, <1>20

\* Where TPDO and MAIN are, for each step of the composition.
LEMMA PlaceStep == TypeInv /\ [NextIO]_allVars => Places4'
<1> SUFFICES ASSUME TypeInv, [NextIO]_allVars PROVE Places4'
  OBVIOUS
<1>0. /\ OutputsTypeOK /\ Places4 /\ Main \in PdoTasks /\ Tpdo \in PdoTasks /\ Main # Tpdo
      /\ PdoTasks = {Main, Tpdo} /\ PdoTasks \subseteq Tasks /\ NumOut \in Nat
      /\ Prio[Main] < Prio[Tpdo] /\ ~(Prio[Main] >= Prio[Tpdo])
  BY Basics DEF TypeInv, PdoTasks
<1>a. /\ pc \in [Tasks -> Busy \cup {"idle", "waiting"}]
      /\ pos \in [PdoTasks -> 0..Size + 1] /\ pos[Main] \in Nat /\ pos[Tpdo] \in Nat
      /\ stage \in [PdoTasks -> {"none", "built", "stored"}] /\ frame \in [PdoTasks -> Pdos]
      /\ last \in [Nodes -> Pdos]
  <2>1. Size \in Nat
    BY <1>0, Basics
  <2> QED BY <1>0, <2>1 DEF OutputsTypeOK, TypeOK, Size
<1>n. table' = table => NumOut' = NumOut
  BY DEF NumOut, Slots
<1> HIDE DEF Pdos
<1> USE DEF Places4, MainPlace, TpdoPlace, FramePlace, ScanPlace, Busy,
            io, config, sending, image, hw, rescan
<1>1. ASSUME NEW t \in Tasks, OtherFrame(t) PROVE Places4'
  <2>1. t # Tpdo /\ (t = Main => mode \in {"reset", "scan"})
    BY <1>0, <1>1 DEF OtherFrame
  <2>2. CASE Test(t)
    BY <1>0, <1>a, <1>n, <1>1, <2>1, <2>2 DEF OtherFrame, Test, Goto
  <2>3. CASE Refuse(t)
    BY <1>0, <1>a, <1>n, <1>1, <2>1, <2>3 DEF OtherFrame, Refuse
  <2> QED BY <1>1, <2>2, <2>3 DEF OtherFrame
<1>2. ASSUME NEW t \in Tasks, InSend(t) PROVE Places4'
  <2>1. /\ pc[t] \notin {"idle"} /\ t \notin suspended /\ UNCHANGED <<io, rescan>>
        /\ \E x \in Busy \cup {"waiting"} : pc' = [pc EXCEPT ![t] = x]
    BY <1>2 DEF InSend, Lock, Write, Request, Take, Runs, MayTake, Goto
  <2> QED BY <1>0, <1>a, <1>n, <2>1
<1>3. ASSUME NEW t \in Tasks, OtherReturns(t) PROVE Places4'
  <2>1. /\ pc[t] = "sent" /\ t \notin suspended /\ UNCHANGED <<io, suspended>>
        /\ pc' = [pc EXCEPT ![t] = "idle"] /\ t # Tpdo
        /\ mode' = IF t = Main /\ mode = "reset" THEN "scan" ELSE mode
    BY <1>0, <1>a, <1>3 DEF OtherReturns, Return, Runs, Goto
  <2> QED BY <1>0, <1>a, <1>n, <2>1
<1>4. ASSUME NEW t \in PdoTasks, Skip(t) PROVE Places4'
  BY <1>0, <1>a, <1>n, <1>4 DEF Skip, Turn, Runs, After, vars
<1>5. ASSUME NEW t \in PdoTasks, Build(t) PROVE Places4'
  <2>1. PICK k \in Due(t) : frame' = [frame EXCEPT ![t] = Pdo(k)]
    BY <1>5 DEF Build
  <2>2. Pdo(k) # NoPdo
    BY <1>0, DuePdo, PdoTyped
  <2> HIDE DEF NoPdo
  <2> QED BY <1>0, <1>a, <1>n, <1>5, <2>1, <2>2 DEF Build, Turn, vars
<1>6. ASSUME NEW t \in PdoTasks, Store(t) PROVE Places4'
  <2>1. mode \notin {"reset", "scan"}
    BY <1>0, <1>a, <1>6 DEF Store, Runs
  <2> QED BY <1>0, <1>a, <1>n, <1>6, <2>1 DEF Store, vars
<1>7. ASSUME NEW t \in PdoTasks, CallSend(t) PROVE Places4'
  BY <1>0, <1>a, <1>n, <1>7 DEF CallSend, Test, Calls, Runs, Goto
<1>8. ASSUME NEW t \in PdoTasks, SendRefused(t) \/ SendReturns(t) PROVE Places4'
  <2>1. /\ stage[t] = "stored" /\ NextPdo(t) /\ t \notin suspended
        /\ UNCHANGED <<suspended, table, last>>
    BY <1>8 DEF SendRefused, SendReturns, Refuse, Calls, Return, Runs
  <2>2. mode' = mode /\ (t = Main => mode = "start")
    BY <1>0, <1>a, <1>8, <2>1 DEF SendRefused, SendReturns, Refuse, Return
  <2>3. \A u \in Tasks : pc'[u] = IF u = t THEN "idle" ELSE pc[u]
    BY <1>0, <1>a, <1>8 DEF SendRefused, SendReturns, Refuse, Calls, Return, Goto
  <2> QED BY <1>0, <1>a, <1>n, <2>1, <2>2, <2>3 DEF NextPdo, After
<1>9. CASE Wake
  BY <1>0, <1>a, <1>n, <1>9 DEF Wake, vars
<1>10. CASE Copy
  BY <1>0, <1>a, <1>n, <1>10 DEF Copy, After, Runs, vars
<1>11. CASE Load /\ UNCHANGED io
  BY <1>0, <1>a, <1>n, <1>11 DEF Load
<1>19. CASE Deliver
  BY <1>0, <1>a, <1>n, <1>19 DEF Deliver, Complete
<1>20. CASE StartTimerLoop /\ UNCHANGED io
  BY <1>0, <1>a, <1>n, <1>20 DEF StartTimerLoop, MainAt
<1>12. CASE StopForScan
  <2>1. mode = "op" /\ pc[Main] = "idle" /\ pos[Main] = 0 /\ stage[Main] = "none"
    BY <1>0, <1>a, <1>12 DEF StopForScan, Rescan, MainAt
  <2>2. ~Ready(Tpdo) /\ ~InPass
    BY <1>0, <1>12 DEF StopForScan, Rescan, MainAt, Runs, May
  <2>3. Tpdo \notin suspended => pos[Tpdo] = 0 \/ pc[Tpdo] = "waiting"
    BY <1>0, <1>a, <2>2 DEF Ready, InPass
  <2> QED BY <1>0, <1>a, <1>12, <2>1, <2>3 DEF StopForScan, Rescan
<1>13. CASE Configure
  <2>1. mode = "scan" /\ pc[Main] = "idle" /\ pos[Main] = 0 /\ stage[Main] = "none"
    BY <1>0, <1>a, <1>13 DEF Configure, Operate, MainAt
  <2> QED BY <1>0, <1>a, <1>13, <2>1 DEF Configure, Operate
<1>14. CASE SetOperational
  BY <1>0, <1>a, <1>n, <1>14 DEF SetOperational, MainAt, vars
<1>15. CASE Operational
  BY <1>0, <1>a, <1>n, <1>15 DEF Operational, Started, MainAt
<1>16. CASE InputPdo \/ ModuleRestarts \/ Core1Up \/ PlcWrite
  BY <1>0, <1>a, <1>n, <1>16 DEF InputPdo, ModuleRestarts, Core1Up, PlcWrite, vars
<1>17. CASE UNCHANGED allVars
  BY <1>0, <1>n, <1>17 DEF allVars, vars
<1>18. CASE NextIO
  BY <1>1, <1>2, <1>3, <1>4, <1>5, <1>6, <1>7, <1>8, <1>9, <1>10, <1>11, <1>12, <1>13,
     <1>14, <1>15, <1>16, <1>18, <1>19, <1>20 DEF NextIO
<1> QED BY <1>17, <1>18

LEMMA TypeInvariance == SpecIO => []TypeInv
<1>1. TypeInv /\ [NextIO]_allVars => TypeInv'
  BY TypeStepIO, PlaceStep DEF TypeInv
<1>2. SpecIO => (Init /\ InitIO) /\ [][NextIO]_allVars
  BY PTL DEF SpecIO
<1> QED BY <1>1, <1>2, InitTypeIO, PTL

\* The image, the objects, the PDOs under way and the two passes keep their types,
\* for any tables the scan may leave, and whenever tasks wake.
THEOREM OutputsTypeCorrect == SpecIO => []OutputsTypeOK
<1>1. TypeInv => OutputsTypeOK
  BY DEF TypeInv
<1> QED BY <1>1, TypeInvariance, PTL

-----------------------------------------------------------------------------
(* What each step changes *)

LEMMA Changes ==
  ASSUME [NextIO]_allVars
  PROVE  /\ UNCHANGED config \/ StopForScan \/ Configure
         /\ UNCHANGED od \/ Copy \/ InputPdo
         /\ UNCHANGED buff_out \/ PlcWrite
         /\ UNCHANGED buff_in \/ Copy
         /\ UNCHANGED active \/ Core1Up
         /\ UNCHANGED shown \/ Copy \/ Configure
         /\ UNCHANGED copied \/ Copy \/ StopForScan \/ PlcWrite
         /\ UNCHANGED last \/ StopForScan \/ \E t \in PdoTasks : Store(t)
<1> USE DEF io, config, sending, image
<1>1. ASSUME NEW t \in Tasks, OtherFrame(t) \/ InSend(t) \/ OtherReturns(t) PROVE UNCHANGED io
  BY <1>1 DEF OtherFrame, InSend, OtherReturns
<1>2. ASSUME NEW t \in PdoTasks, Skip(t) \/ Build(t) \/ CallSend(t) \/ SendRefused(t) \/ SendReturns(t)
      PROVE UNCHANGED <<config, od, last, image, copied, shown>>
  BY <1>2 DEF Skip, Build, CallSend, SendRefused, SendReturns
<1>3. ASSUME NEW t \in PdoTasks, Store(t) PROVE UNCHANGED <<config, od, image, copied, shown>>
  BY <1>3 DEF Store
<1>4. Wake \/ SetOperational \/ Operational \/ ModuleRestarts \/ Deliver
        => UNCHANGED <<config, od, last, image, copied, shown>>
  BY DEF Wake, SetOperational, Operational, ModuleRestarts, Deliver
<1>5. Copy => UNCHANGED <<config, last, buff_out, active>>
  BY DEF Copy
<1>6. StopForScan => UNCHANGED <<od, image, shown>>
  BY DEF StopForScan
<1>7. Configure => UNCHANGED <<od, last, image, copied>>
  BY DEF Configure
<1>8. InputPdo => UNCHANGED <<config, last, image, copied, shown>>
  BY DEF InputPdo
<1>9. Core1Up => UNCHANGED <<config, od, last, buff_out, buff_in, copied, shown>>
  BY DEF Core1Up
<1>10. PlcWrite => UNCHANGED <<config, od, last, buff_in, active, shown>>
  BY DEF PlcWrite
<1>11. UNCHANGED allVars => UNCHANGED io
  BY DEF allVars
<1>12. NextIO => \/ UNCHANGED io
                 \/ \E t \in PdoTasks : Skip(t) \/ Build(t) \/ CallSend(t) \/ SendRefused(t) \/ SendReturns(t)
                 \/ \E t \in PdoTasks : Store(t)
                 \/ Wake \/ SetOperational \/ Operational \/ ModuleRestarts \/ Deliver
                 \/ Copy \/ StopForScan \/ Configure \/ InputPdo \/ Core1Up \/ PlcWrite
  BY <1>1 DEF NextIO
<1> QED BY <1>2, <1>3, <1>4, <1>5, <1>6, <1>7, <1>8, <1>9, <1>10, <1>11, <1>12

\* TPDO gets past the copying of its pass only by Copy.
LEMMA PassChanges ==
  ASSUME TypeInv, [NextIO]_allVars, ~Copy
  PROVE  pos'[Tpdo] > 1 => pos[Tpdo] > 1
<1>0. /\ Main # Tpdo /\ PdoTasks = {Main, Tpdo} /\ pos \in [PdoTasks -> 0..Size + 1]
      /\ Places4 /\ pos[Tpdo] \in Nat /\ pos[Main] \in Nat
  <2>1. Size \in Nat /\ pos \in [PdoTasks -> 0..Size + 1]
    BY Basics DEF TypeInv, OutputsTypeOK, Size
  <2> QED BY <2>1, Basics DEF TypeInv, PdoTasks
<1> USE DEF io, config, sending, image
<1>1. ASSUME NEW t \in Tasks, OtherFrame(t) \/ InSend(t) \/ OtherReturns(t) PROVE pos' = pos
  BY <1>1 DEF OtherFrame, InSend, OtherReturns
<1>2. ASSUME NEW t \in PdoTasks, Skip(t) \/ SendRefused(t) \/ SendReturns(t)
      PROVE pos'[Tpdo] > 1 => pos[Tpdo] > 1
  <2>1. pos' = After(t)
    BY <1>2 DEF Skip, SendRefused, SendReturns, NextPdo
  <2>2. t = Tpdo => pos[t] > 1
    BY <1>0, <1>2 DEF Skip, Turn, SendRefused, SendReturns, Places4, TpdoPlace
  <2> QED BY <1>0, <2>1, <2>2 DEF After
<1>3. ASSUME NEW t \in PdoTasks, Build(t) \/ CallSend(t) \/ Store(t) PROVE pos' = pos
  BY <1>3 DEF Build, CallSend, Store
<1>4. Wake \/ Configure \/ SetOperational \/ Operational => (pos'[Tpdo] > 1 => pos[Tpdo] > 1)
  BY <1>0 DEF Wake, Configure, SetOperational, Operational
<1>5. Deliver \/ StopForScan \/ InputPdo \/ ModuleRestarts \/ Core1Up \/ PlcWrite => pos' = pos
  BY DEF Deliver, StopForScan, InputPdo, ModuleRestarts, Core1Up, PlcWrite
<1>6. UNCHANGED allVars \/ UNCHANGED io => pos' = pos
  BY DEF allVars
<1> QED BY <1>1, <1>2, <1>3, <1>4, <1>5, <1>6 DEF NextIO

-----------------------------------------------------------------------------
(* OwnData: whose data is where *)

\* The node numbers of the modules are those of their slots.
NoHole == \A l \in Layouts : \A i \in DOMAIN l : l[i].node = i

Own(i, w) == w \in {Zero, Written(Place(i))}

\* Each record names the object of its own module.
LinkInv == \A i \in DOMAIN table : Link(i) = Object(table, i)

\* The bytes at a place were written there, and before core 1 is up nothing was.
ImageInv ==
  /\ \A a \in Places(Outs) : buff_out[a] \in {Zero, Written(a)}
  /\ active = "none" =>
       /\ shown = {} /\ \A a \in Places(Outs) : buff_out[a] = Zero
       /\ \A k \in Nodes : od[<<"out", k>>] = Zero

\* Behind the copying of its pass TPDO finds each module's own data in its
\* object, although the objects still had those of the last table before.
OdInv == pos[Tpdo] > 1 => \A i \in Slots(Outs) : Own(i, od[Object(table, i)])

\* A PDO under way is one of this table's outputs, TPDO's that of its slot.
FrameOf(t, i) ==
  /\ frame[t].pdo = Index(table, i) /\ frame[t].to = table[i].node
  /\ t = Tpdo => /\ i \in Slots({"DO"}) /\ i = pos[Tpdo] - 1
                 /\ Own(i, frame[Tpdo].word)

FramesInv ==
  /\ \A t \in PdoTasks : stage[t] # "none" /\ table # <<>> =>
       \E i \in Slots(Outs) : FrameOf(t, i)
  /\ stage[Tpdo] = "built" => table # <<>>

ShownInv == \A i \in Slots(Ins) :
  table[i].node \in shown /\ Shows(i) => buff_in[Place(i)] = From(table[i].node)

DataInv == LinkInv /\ ImageInv /\ OdInv /\ FramesInv /\ ShownInv

\* What the table gives the slots does not change while it does not.
LEMMA SameTable ==
  ASSUME UNCHANGED config
  PROVE  /\ \A kinds : Slots(kinds)' = Slots(kinds)
         /\ \A i : Place(i)' = Place(i) /\ Link(i)' = Link(i)
         /\ \A i, w : Own(i, w)' = Own(i, w)
BY DEF config, Slots, Place, Link, Own

\* While the modules' records name their own objects, the copies of a pass go
\* from each module's bytes to its object and back.
LEMMA CopiedFor ==
  ASSUME OutputsTypeOK, LinkInv
  PROVE  /\ \A i \in Slots(Outs) : CopiedOut[Object(table, i)] = buff_out[Place(i)]
         /\ \A i \in Slots(Ins) : CopiedOut[Object(table, i)] = od[Object(table, i)]
         /\ \A i \in Slots(Ins) : \A objects :
              Shows(i) => CopiedIn(objects)[Place(i)] = objects[Object(table, i)]
<1>0. Layout(table)
  BY Basics
<1>1. \A i \in Slots(Ins \cup Outs) : /\ i \in DOMAIN table /\ i \in Nat
                                     /\ Object(table, i) \in Objects
  BY <1>0, ObjectIn DEF Slots, Layout
<1>2. \A i \in Nat : Max({i}) = i
  BY DEF Max
<1>3. ASSUME NEW i \in Slots(Outs) PROVE CopiedOut[Object(table, i)] = buff_out[Place(i)]
  <2>1. i \in Slots(Ins \cup Outs)
    BY DEF Slots
  <2>2. {j \in Slots(Outs) : Link(j) = Object(table, i)} = {i}
    <3>1. \A j \in Slots(Outs) : Link(j) = Object(table, i) <=> j = i
      BY <1>0, ObjectOne DEF LinkInv, Slots
    <3> QED BY <3>1
  <2> QED BY <1>1, <1>2, <2>1, <2>2 DEF CopiedOut
<1>4. ASSUME NEW i \in Slots(Ins) PROVE CopiedOut[Object(table, i)] = od[Object(table, i)]
  <2>1. i \in Slots(Ins \cup Outs)
    BY DEF Slots
  <2>2. {j \in Slots(Outs) : Link(j) = Object(table, i)} = {}
    <3>1. \A j \in Slots(Outs) : Link(j) # Object(table, i)
      BY <1>0, ObjectOne DEF LinkInv, Slots, Ins, Outs
    <3> QED BY <3>1
  <2> QED BY <1>1, <2>1, <2>2 DEF CopiedOut
<1>5. ASSUME NEW objects, NEW i \in Slots(Ins), Shows(i)
      PROVE  CopiedIn(objects)[Place(i)] = objects[Object(table, i)]
  <2>1. i \in Slots(Ins \cup Outs) /\ Place(i) \in Places(Ins) /\ Link(i) = Object(table, i)
    BY PlaceTyped DEF Slots, LinkInv
  <2>2. Link(i) # Null
    <3>1. Link(i) = <<Object(table, i)[1], Object(table, i)[2]>>
      BY <2>1 DEF Object
    <3>2. Len(Link(i)) = 2
      BY <3>1
    <3> QED BY <3>2 DEF Null
  <2>3. {j \in Slots(Ins) : Shows(j) /\ Place(j) = Place(i) /\ Link(j) # Null} = {i}
    <3>1. \A j \in Slots(Ins) : Place(j) = Place(i) => j = i
      <4> SUFFICES ASSUME NEW j \in Slots(Ins), Place(j) = Place(i) PROVE j = i
        OBVIOUS
      <4>1. i \in DOMAIN table /\ j \in SameSide(table, i)
        BY <1>0, Sides DEF Slots
      <4> QED BY <1>0, <4>1, OffsetOne DEF Place
    <3> QED BY <1>5, <2>2, <3>1
  <2> QED BY <1>1, <1>2, <2>1, <2>3 DEF CopiedIn
<1> QED BY <1>3, <1>4, <1>5

LEMMA LinkStep ==
  ASSUME NoHole, TypeInv, LinkInv, [NextIO]_allVars PROVE LinkInv'
<1>0. OutputsTypeOK
  BY DEF TypeInv
<1>1. CASE UNCHANGED config
  BY <1>1 DEF LinkInv, config, Link, Object
<1>2. CASE StopForScan
  BY <1>2 DEF StopForScan, LinkInv
<1>3. CASE Configure
  <2>1. PICK l \in Layouts \cup {<<>>} : table' = l /\ links' = Linked(l)
    BY <1>3 DEF Configure
  <2>2. Layout(l)
    BY LayoutFacts
  <2> SUFFICES ASSUME NEW i \in DOMAIN l
               PROVE  (IF l[i].kind \in Digital THEN Linked(l)[i].d ELSE Linked(l)[i].a) = Object(l, i)
    BY <2>1 DEF LinkInv, Link, Object, Index, SameSide, IsIn
  <2>3. i \in Nodes /\ l[i].node = i /\ \A j \in DOMAIN l : l[j].node = i <=> j = i
    BY <2>2 DEF Layout, NoHole
  <2>4. {j \in DOMAIN l : l[j].node = i} = {i}
    BY <2>3
  <2>5. Linked(l)[i] = IF l[i].kind \in Digital THEN [links[i] EXCEPT !.d = Object(l, i)]
                                                ELSE [links[i] EXCEPT !.a = Object(l, i)]
    <3>1. (CHOOSE j \in {i} : TRUE) = i
      OBVIOUS
    <3> QED BY <2>3, <2>4, <3>1 DEF Linked
  <2>6. links[i] \in [d : Objects \cup {Null}, a : Objects \cup {Null}]
    BY <1>0, <2>3 DEF OutputsTypeOK
  <2> HIDE DEF Objects
  <2> QED BY <2>5, <2>6
<1> QED BY <1>1, <1>2, <1>3, Changes

LEMMA ImageStep ==
  ASSUME TypeInv, LinkInv, ImageInv, [NextIO]_allVars PROVE ImageInv'
<1>0. OutputsTypeOK
  BY DEF TypeInv
<1>1. \A a \in Places(Outs) : buff_out'[a] \in {Zero, Written(a)}
  <2>1. CASE UNCHANGED buff_out
    BY <2>1 DEF ImageInv
  <2>2. CASE PlcWrite
    <3>1. PICK i \in Slots(Driven) : \E w \in {Zero, Written(Place(i))} :
            buff_out' = [buff_out EXCEPT ![Place(i)] = w]
      BY <2>2 DEF PlcWrite
    <3> DEFINE b == Place(i)
    <3>2. PICK w \in {Zero, Written(b)} : buff_out' = [buff_out EXCEPT ![b] = w]
      BY <3>1
    <3> HIDE DEF b
    <3>3. \A a \in Places(Outs) : buff_out'[a] = IF a = b THEN w ELSE buff_out[a]
      BY <1>0, <3>2 DEF OutputsTypeOK
    <3> QED BY <3>2, <3>3 DEF ImageInv
  <2> QED BY <2>1, <2>2, Changes
<1>2. ASSUME active' = "none"
      PROVE  /\ shown' = {} /\ \A a \in Places(Outs) : buff_out'[a] = Zero
             /\ \A k \in Nodes : od'[<<"out", k>>] = Zero
  <2>1. active = "none"
    BY <1>2, Changes DEF Core1Up
  <2>2. shown' = {}
    <3>1. CASE Copy
      BY <2>1, <3>1 DEF Copy, ImageInv
    <3>2. CASE Configure
      BY <3>2 DEF Configure
    <3> QED BY <2>1, <3>1, <3>2, Changes DEF ImageInv
  <2>3. buff_out' = buff_out
    BY <2>1, Changes DEF PlcWrite
  <2>4. \A k \in Nodes : od'[<<"out", k>>] = Zero
    <3>1. CASE Copy
      BY <2>1, <3>1 DEF Copy, ImageInv
    <3>2. CASE InputPdo
      <4>1. PICK i \in Slots(Ins) : od' = [od EXCEPT ![Object(table, i)] = From(table[i].node)]
        BY <3>2 DEF InputPdo
      <4>2. \A k \in Nodes : Object(table, i) # <<"out", k>>
        BY DEF Object, Slots, IsIn
      <4>3. \A k \in Nodes : <<"out", k>> \in Objects
        BY DEF Objects
      <4> QED BY <1>0, <2>1, <4>1, <4>2, <4>3 DEF ImageInv, OutputsTypeOK
    <3> QED BY <2>1, <3>1, <3>2, Changes DEF ImageInv
  <2> QED BY <2>1, <2>2, <2>3, <2>4 DEF ImageInv
<1> QED BY <1>1, <1>2 DEF ImageInv

\* If TPDO is past its copying, the table is not one a scan has just left.
LEMMA ConfigureAtRest ==
  ASSUME TypeInv, Configure, table' # <<>>
  PROVE  /\ pos[Tpdo] = 0 /\ pos'[Tpdo] = 1
         /\ \A t \in PdoTasks : stage'[t] = "none" /\ stage[t] = "none"
<1>0. /\ OutputsTypeOK /\ Places4 /\ PdoTasks = {Main, Tpdo} /\ Main # Tpdo
      /\ pos[Tpdo] \in Nat /\ pos[Main] \in Nat /\ pos \in [PdoTasks -> 0..Size + 1]
      /\ NumOut \in Nat
  <2>1. Size \in Nat /\ pos \in [PdoTasks -> 0..Size + 1]
    BY Basics DEF TypeInv, OutputsTypeOK, Size
  <2> QED BY <2>1, Basics DEF TypeInv, PdoTasks
<1>1. pc[Tpdo] = "idle" /\ mode = "scan"
  BY DEF Configure, Operate, MainAt
<1>2. pos[Tpdo] = 0
  BY <1>0, <1>1 DEF Places4, TpdoPlace, ScanPlace
<1>3. stage[Tpdo] = "none" /\ stage[Main] = "none"
  BY <1>0, <1>1, <1>2 DEF Places4, TpdoPlace, MainPlace
<1> QED BY <1>0, <1>2, <1>3 DEF Configure

LEMMA OdStep ==
  ASSUME TypeInv, LinkInv, ImageInv, OdInv, [NextIO]_allVars PROVE OdInv'
<1>0. OutputsTypeOK /\ Layout(table)
  BY Basics DEF TypeInv
<1> SUFFICES ASSUME pos'[Tpdo] > 1, NEW i \in Slots(Outs)'
             PROVE  Own(i, od[Object(table, i)])'
  BY DEF OdInv
<1>1. UNCHANGED config
  <2>1. ~StopForScan
    BY DEF StopForScan, Slots
  <2>2. ~Configure
    <3> SUFFICES ASSUME Configure PROVE FALSE
      OBVIOUS
    <3>1. table' # <<>>
      BY DEF Slots
    <3> QED BY <3>1, ConfigureAtRest
  <2> QED BY <2>1, <2>2, Changes
<1>2. /\ i \in Slots(Outs) /\ table' = table /\ Place(i)' = Place(i)
      /\ Object(table, i)' = Object(table, i)
  BY <1>1, SameTable DEF config, Object, Index, SameSide, IsIn
<1>3. i \in DOMAIN table /\ Object(table, i) \in Objects /\ Place(i) \in Places(Outs)
  BY <1>0, <1>2, ObjectIn, PlaceTyped DEF Slots
<1>4. Own(i, od'[Object(table, i)])
  <2>1. CASE Copy
    <3>1. CASE active = "none"
      <4>1. Object(table, i) = <<"out", Index(table, i)>> /\ Index(table, i) \in Nodes
        BY <1>0, <1>2, <1>3, Sides, IndexRange DEF Object
      <4>2. od'[Object(table, i)] = Zero
        BY <2>1, <3>1, <4>1 DEF Copy, ImageInv
      <4> QED BY <4>2 DEF Own
    <3>2. CASE active # "none"
      <4>1. od'[Object(table, i)] = buff_out[Place(i)]
        BY <1>0, <1>2, <2>1, <3>2, CopiedFor DEF Copy
      <4> QED BY <1>3, <4>1 DEF ImageInv, Own
    <3> QED BY <3>1, <3>2
  <2>2. CASE ~Copy
    <3>1. Own(i, od[Object(table, i)])
      BY <1>2, <2>2, PassChanges DEF OdInv
    <3>2. od'[Object(table, i)] = od[Object(table, i)]
      <4>1. CASE InputPdo
        <5>1. PICK j \in Slots(Ins) : od' = [od EXCEPT ![Object(table, j)] = From(table[j].node)]
          BY <4>1 DEF InputPdo
        <5>2. Object(table, j) # Object(table, i)
          BY <1>0, <1>2, ObjectOne DEF Slots, Ins, Outs
        <5> QED BY <1>0, <1>3, <5>1, <5>2 DEF OutputsTypeOK
      <4> QED BY <2>2, <4>1, Changes
    <3> QED BY <3>1, <3>2
  <2> QED BY <2>1, <2>2
<1> QED BY <1>2, <1>4 DEF Own

LEMMA ShownStep ==
  ASSUME TypeInv, LinkInv, ImageInv, ShownInv, [NextIO]_allVars PROVE ShownInv'
<1>0. OutputsTypeOK /\ Layout(table)
  BY Basics DEF TypeInv
<1> SUFFICES ASSUME NEW i \in Slots(Ins)', table'[i].node \in shown', Shows(i)'
             PROVE  buff_in'[Place(i)'] = From(table'[i].node)
  BY DEF ShownInv
<1>1. UNCHANGED config
  <2>1. ~StopForScan
    BY DEF StopForScan, Slots
  <2>2. ~Configure
    BY DEF Configure
  <2> QED BY <2>1, <2>2, Changes
<1>2. i \in Slots(Ins) /\ table' = table /\ Place(i)' = Place(i)
  BY <1>1, SameTable DEF config
<1>3. shown' = {} \/ active' = active
  BY Changes DEF Core1Up, ImageInv
<1>4. Shows(i)
  BY <1>2, <1>3 DEF Shows
<1>5. CASE Copy /\ active # "none"
  <2>1. table[i].node \in {table[k].node :
            k \in {j \in Slots(Ins) : od[Object(table, j)] = From(table[j].node)}}
    BY <1>2, <1>5 DEF Copy
  <2>2. od[Object(table, i)] = From(table[i].node)
    <3>1. PICK j \in Slots(Ins) : /\ od[Object(table, j)] = From(table[j].node)
                                  /\ table[i].node = table[j].node
      BY <2>1
    <3>2. i = j
      BY <1>0, <1>2, <3>1 DEF Layout, Slots
    <3> QED BY <3>1, <3>2
  <2>3. buff_in'[Place(i)] = CopiedOut[Object(table, i)]
    <3>1. buff_in' = CopiedIn(CopiedOut)
      BY <1>5 DEF Copy
    <3>2. CopiedIn(CopiedOut)[Place(i)] = CopiedOut[Object(table, i)]
      BY <1>0, <1>2, <1>4, CopiedFor
    <3> QED BY <3>1, <3>2
  <2> QED BY <1>0, <1>2, <2>2, <2>3, CopiedFor
<1>6. CASE ~(Copy /\ active # "none")
  <2>1. buff_in' = buff_in /\ shown' \subseteq shown
    BY <1>6, Changes DEF Copy, Configure
  <2> QED BY <1>2, <1>4, <2>1 DEF ShownInv
<1> QED BY <1>5, <1>6

\* A PDO under way was built in this step or stays as it is.
LEMMA FrameChanges ==
  ASSUME TypeInv, [NextIO]_allVars, NEW t \in PdoTasks, stage'[t] # "none", ~Build(t)
  PROVE  /\ frame'[t] = frame[t] /\ (t = Tpdo => pos'[t] = pos[t])
         /\ \/ stage[t] = stage'[t]
            \/ stage[t] = "built" /\ Store(t)
<1>0. /\ Main # Tpdo /\ PdoTasks = {Main, Tpdo} /\ pos \in [PdoTasks -> 0..Size + 1]
      /\ Places4 /\ pos[Tpdo] \in Nat /\ pos[Main] \in Nat
      /\ stage \in [PdoTasks -> {"none", "built", "stored"}] /\ DOMAIN frame = PdoTasks
  <2>1. Size \in Nat /\ pos \in [PdoTasks -> 0..Size + 1]
    BY Basics DEF TypeInv, OutputsTypeOK, Size
  <2> QED BY <2>1, Basics DEF TypeInv, PdoTasks, OutputsTypeOK
<1> DEFINE Goal == /\ frame'[t] = frame[t] /\ (t = Tpdo => pos'[t] = pos[t])
                   /\ \/ stage[t] = stage'[t]
                      \/ stage[t] = "built" /\ Store(t)
<1> USE DEF io, config, sending, image
<1>1. ASSUME NEW u \in Tasks, OtherFrame(u) \/ InSend(u) \/ OtherReturns(u)
      PROVE UNCHANGED sending
  BY <1>1 DEF OtherFrame, InSend, OtherReturns
<1>2. ASSUME NEW u \in PdoTasks, Skip(u) PROVE Goal
  BY <1>0, <1>2 DEF Skip, Turn, After
<1>3. ASSUME NEW u \in PdoTasks, Build(u) PROVE Goal
  <2>1. u # t
    BY <1>3
  <2> QED BY <1>0, <1>3, <2>1 DEF Build
<1>4. ASSUME NEW u \in PdoTasks, Store(u) PROVE Goal
  <2>1. /\ stage[u] = "built" /\ stage' = [stage EXCEPT ![u] = "stored"]
        /\ UNCHANGED <<pos, frame>>
    BY <1>4 DEF Store
  <2> QED BY <1>0, <1>4, <2>1
<1>5. ASSUME NEW u \in PdoTasks, CallSend(u) PROVE UNCHANGED sending
  BY <1>5 DEF CallSend
<1>6. ASSUME NEW u \in PdoTasks, SendRefused(u) \/ SendReturns(u) PROVE Goal
  <2>1. NextPdo(u)
    BY <1>6 DEF SendRefused, SendReturns
  <2> QED BY <1>0, <2>1 DEF NextPdo, After
<1>7. CASE Wake \/ Copy \/ Configure \/ SetOperational \/ Operational
  <2>1. UNCHANGED <<stage, frame>>
    BY <1>7 DEF Wake, Copy, Configure, SetOperational, Operational
  <2>2. t = Tpdo => pos[t] > 1
    BY <1>0, <2>1 DEF Places4, TpdoPlace
  <2>3. t = Tpdo => pos'[t] = pos[t]
    BY <1>0, <1>7, <2>2 DEF Wake, Copy, Configure, SetOperational, Operational
  <2> QED BY <2>1, <2>3
<1>8. Deliver \/ StopForScan \/ InputPdo \/ ModuleRestarts \/ Core1Up \/ PlcWrite
        => UNCHANGED <<pos, stage, frame>>
  BY DEF Deliver, StopForScan, InputPdo, ModuleRestarts, Core1Up, PlcWrite
<1>9. UNCHANGED allVars \/ UNCHANGED io => UNCHANGED sending
  BY DEF allVars
<1> QED BY <1>1, <1>2, <1>3, <1>4, <1>5, <1>6, <1>7, <1>8, <1>9 DEF NextIO

LEMMA FramesStep ==
  ASSUME TypeInv, OdInv, FramesInv, [NextIO]_allVars PROVE FramesInv'
<1>0. /\ OutputsTypeOK /\ Places4 /\ Layout(table) /\ Main # Tpdo /\ PdoTasks = {Main, Tpdo}
      /\ DOMAIN frame = PdoTasks /\ DOMAIN stage = PdoTasks
      /\ ~(Prio[Main] >= Prio[Tpdo])
  BY Basics DEF TypeInv, PdoTasks, OutputsTypeOK
<1>1. ASSUME NEW t \in PdoTasks, stage'[t] # "none", table' # <<>>
      PROVE  \E i \in Slots(Outs)' : FrameOf(t, i)'
  <2>1. UNCHANGED config
    <3>1. ~StopForScan
      BY <1>1 DEF StopForScan
    <3>2. ~Configure
      BY <1>1, ConfigureAtRest
    <3> QED BY <3>1, <3>2, Changes
  <2>2. /\ table' = table /\ Slots(Outs)' = Slots(Outs) /\ Slots({"DO"})' = Slots({"DO"})
        /\ \A i : Place(i)' = Place(i) /\ Index(table, i)' = Index(table, i)
    BY <2>1, SameTable DEF config, Index, SameSide, IsIn
  <2>3. CASE Build(t)
    <3>1. PICK k \in Due(t) : frame' = [frame EXCEPT ![t] = Pdo(k)]
      BY <2>3 DEF Build
    <3>2. PICK i \in Slots(Outs) : /\ k = Index(table, i) /\ Pdo(k) = PdoOf(i)
                                   /\ t = Tpdo => i \in Slots({"DO"}) /\ i = pos[Tpdo] - 1
      BY <1>0, DuePdo
    <3>3. /\ frame'[t].pdo = Index(table, i) /\ frame'[t].to = table[i].node
          /\ frame'[t].word = od[Object(table, i)]
      BY <1>0, <3>1, <3>2, PdoTyped
    <3>4. t = Tpdo => Own(i, od[Object(table, i)])
      BY <1>0, <2>3 DEF Build, Turn, OdInv
    <3>5. t = Tpdo => pos' = pos
      BY <2>3 DEF Build
    <3> QED BY <2>2, <3>2, <3>3, <3>4, <3>5 DEF FrameOf, Own
  <2>4. CASE ~Build(t)
    <3>1. /\ frame'[t] = frame[t] /\ (t = Tpdo => pos'[Tpdo] = pos[Tpdo])
          /\ stage[t] # "none"
      BY <1>1, <2>4, FrameChanges
    <3>2. PICK i \in Slots(Outs) : FrameOf(t, i)
      BY <1>1, <2>2, <3>1 DEF FramesInv
    <3> QED BY <2>2, <3>1, <3>2 DEF FrameOf, Own
  <2> QED BY <2>3, <2>4
<1>2. ASSUME stage'[Tpdo] = "built" PROVE table' # <<>>
  <2>1. CASE Build(Tpdo)
    <3>1. PICK k \in Due(Tpdo) : TRUE
      BY <2>1 DEF Build
    <3>2. table # <<>>
      BY <1>0, DuePdo DEF Slots
    <3> QED BY <2>1, <3>2 DEF Build, config
  <2>2. CASE ~Build(Tpdo)
    <3>1. stage[Tpdo] = "built"
      <4>1. Store(Tpdo) => stage'[Tpdo] = "stored"
        BY <1>0 DEF Store
      <4> QED BY <1>0, <1>2, <2>2, <4>1, FrameChanges
    <3>2. pos[Tpdo] > 1 /\ pc[Tpdo] = "idle" /\ Tpdo \notin suspended
      <4>1. pos[Tpdo] > 1 /\ pc[Tpdo] = "idle"
        BY <1>0, <3>1 DEF Places4, TpdoPlace, FramePlace
      <4> QED BY <1>0, <4>1 DEF Places4, TpdoPlace
    <3>3. ~StopForScan /\ ~Configure
      <4>1. pos[Tpdo] \in Int
        <5>1. pos \in [PdoTasks -> 0..Size + 1] /\ Size \in Nat
          BY <1>0, Basics DEF OutputsTypeOK, Size
        <5> QED BY <1>0, <5>1
      <4>2. InPass
        BY <3>2, <4>1 DEF InPass
      <4> QED BY <1>0, <4>2 DEF StopForScan, Configure, May
    <3>4. table' = table
      BY <3>3, Changes DEF config
    <3> QED BY <3>1, <3>4 DEF FramesInv
  <2> QED BY <2>1, <2>2
<1> QED BY <1>1, <1>2 DEF FramesInv

LEMMA InitDataIO == Init /\ InitIO => DataInv
<1> SUFFICES ASSUME Init, InitIO PROVE DataInv
  OBVIOUS
<1>1. Slots(Outs) = {} /\ Slots(Ins) = {} /\ DOMAIN table = {}
  BY DEF InitIO, Slots
<1>2. Tpdo \in PdoTasks /\ \A k \in Nodes : <<"out", k>> \in Objects
  BY DEF PdoTasks, Objects
<1>3. LinkInv /\ ShownInv /\ OdInv
  BY <1>1 DEF LinkInv, ShownInv, OdInv
<1>4. FramesInv
  BY <1>2 DEF InitIO, FramesInv
<1>5. ImageInv
  BY <1>2 DEF InitIO, ImageInv
<1> QED BY <1>3, <1>4, <1>5 DEF DataInv

LEMMA DataInvariance == ASSUME NoHole PROVE SpecIO => []DataInv
<1>1. TypeInv /\ DataInv /\ [NextIO]_allVars => DataInv'
  BY LinkStep, ImageStep, OdStep, FramesStep, ShownStep DEF DataInv
<1>2. SpecIO => (Init /\ InitIO) /\ [][NextIO]_allVars
  BY PTL DEF SpecIO
<1> QED BY <1>1, <1>2, InitDataIO, TypeInvariance, PTL

LEMMA OwnDataHolds == ASSUME TypeInv, DataInv PROVE OwnData
<1>0. Layout(table) /\ Tpdo \in PdoTasks
  BY Basics DEF TypeInv
<1>1. ASSUME NEW i \in DOMAIN table, NEW j \in DOMAIN table,
             i < j, j \in SameSide(table, i)
      PROVE  Place(i) + Width(table[i]) <= Place(j)
  BY <1>0, <1>1, OffsetApart DEF Place
<1>2. ASSUME stage[Tpdo] = "built"
      PROVE  \E i \in Slots({"DO"}) : /\ table[i].node = frame[Tpdo].to
                                     /\ frame[Tpdo].word \in {Zero, Written(Place(i))}
  BY <1>0, <1>2 DEF DataInv, FramesInv, FrameOf, Own
<1>3. \A i \in Slots(Ins) :
        table[i].node \in shown /\ Shows(i) => buff_in[Place(i)] = From(table[i].node)
  BY DEF DataInv, ShownInv
<1> QED BY <1>1, <1>2, <1>3 DEF OwnData

\* No datum of one module is taken for another's, for any tables without a
\* hole: the offsets BuildProcessImage gives do not overlap, TPDO sends each
\* output module its own bytes although the objects outlive the tables, and the
\* image shows each input module's own data (Master.c:205, IOCoupler.c:505).
THEOREM DataIsOwn == ASSUME NoHole PROVE SpecIO => []OwnData
<1>1. TypeInv /\ DataInv => OwnData
  BY OwnDataHolds
<1> QED BY <1>1, TypeInvariance, DataInvariance, PTL

-----------------------------------------------------------------------------
(* OutputsFollow: the PDO of each module on its way *)

\* What a PDO for the module at slot i must be to carry what the PLC wrote.
Newest(i) == [pdo |-> Index(table, i), to |-> table[i].node, word |-> buff_out[Place(i)]]

\* TPDO's pass is over, or past slot i.
Passed(i) == pos[Tpdo] <= 1 \/ i < pos[Tpdo] - 1

\* Since TPDO copied, each object has what the PLC wrote, what counts as sent to
\* a module TPDO has passed is that, and so is the PDO it is at.
CopiedInv == copied =>
  /\ mode = "op"
  /\ \A i \in Slots(Outs) : od[Object(table, i)] = buff_out[Place(i)]
  /\ \A i \in Slots({"DO"}) : Passed(i) => last[Index(table, i)] = Newest(i)
  /\ stage[Tpdo] # "none" =>
       \E i \in Slots({"DO"}) :
         /\ i = pos[Tpdo] - 1 /\ frame[Tpdo] = Newest(i)
         /\ stage[Tpdo] = "stored" => last[Index(table, i)] = frame[Tpdo]

\* A PDO for module n that counts as sent and was not on the bus yet.
Unsent(t, n) == stage[t] = "stored" /\ frame[t].to = n /\ t \notin own

\* What counts as sent to a module comes after all that is on its way to it: a
\* task that has yet to call canSend has it, so has the one inside if there is no
\* other, and if nothing is on its way the module has got it.
SentFor(n, p) ==
  /\ \A t \in PdoTasks : Unsent(t, n) /\ pc[t] = "idle" => frame[t] = p
  /\ (\A t \in PdoTasks : Unsent(t, n) => pc[t] # "idle")
       => \A t \in PdoTasks : Unsent(t, n) => frame[t] = p
  /\ (\A t \in PdoTasks : ~Unsent(t, n)) => led[n] = p.word

SentInv == \A i \in Slots(Outs) :
  table[i].node \notin spoilt /\ last[Index(table, i)] # NoPdo =>
    SentFor(table[i].node, last[Index(table, i)])

\* A frame that was on the bus is one whose completion is to be taken or was.
OwnInv == \A t \in own : pc[t] = "sent" \/ (pc[t] = "waiting" /\ done)

LEMMA OwnStep ==
  ASSUME ~Gap, IInv, OwnInv, [Next]_vars PROVE OwnInv'
<1>0. TypeOK /\ OneSender /\ FrameInv /\ BufferKept /\ SentMeansSent
  BY DEF IInv
<1> USE <1>0 DEF TypeOK, Busy, OneSender, FrameInv, BufferKept, OwnInv
<1>1. ASSUME NEW t \in Tasks, Test(t) \/ Refuse(t) PROVE OwnInv'
  BY <1>1 DEF Test, Refuse, Calls, Goto, hw
<1>2. ASSUME NEW t \in Tasks, Lock(t) \/ Write(t) \/ Request(t) PROVE OwnInv'
  BY <1>2 DEF Lock, Write, Request, Goto, hw
<1>3. ASSUME NEW t \in Tasks, Take(t) PROVE OwnInv'
  BY <1>3 DEF Take, MayTake, Goto
<1>4. ASSUME NEW t \in Tasks, Return(t) PROVE OwnInv'
  BY <1>4 DEF Return, Goto, hw
<1>5. CASE Load
  BY <1>5 DEF Load
<1>6. CASE Complete
  BY <1>6 DEF Complete
<1>7. CASE StartTimerLoop \/ Rescan \/ Operate \/ Started
  BY <1>7 DEF StartTimerLoop, Rescan, Operate, Started, hw
<1>8. CASE UNCHANGED vars
  BY <1>8 DEF vars, hw
<1> QED BY <1>1, <1>2, <1>3, <1>4, <1>5, <1>6, <1>7, <1>8 DEF Next, Inside

\* The order of what is sent to a module only depends on where the tasks are
\* with the PDOs that count as sent.
LEMMA SentKept ==
  ASSUME SentInv, UNCHANGED <<table, last, led, spoilt>>,
         \A t \in PdoTasks :
           /\ stage'[t] = "stored" <=> stage[t] = "stored"
           /\ stage[t] = "stored" =>
                /\ frame'[t] = frame[t] /\ (t \in own' <=> t \in own)
                /\ pc'[t] = "idle" <=> pc[t] = "idle"
  PROVE  SentInv'
<1>1. \A t \in PdoTasks : \A n : Unsent(t, n)' <=> Unsent(t, n)
  BY DEF Unsent
<1>2. \A i : Index(table, i)' = Index(table, i)
  BY DEF Index, SameSide, IsIn
<1>3. Slots(Outs)' = Slots(Outs)
  BY DEF Slots
<1>4. \A t \in PdoTasks : \A n : Unsent(t, n) =>
        frame'[t] = frame[t] /\ (pc'[t] = "idle" <=> pc[t] = "idle")
  BY DEF Unsent
<1>5. \A n, p : SentFor(n, p) => SentFor(n, p)'
  BY <1>1, <1>4 DEF SentFor
<1> QED BY <1>2, <1>3, <1>5 DEF SentInv

\* What a PDO that counts as sent is to the modules: its index is that of the one
\* module it is for.
LEMMA FrameFor ==
  ASSUME TypeInv, FramesInv, NEW t \in PdoTasks, stage[t] # "none", table # <<>>
  PROVE  /\ frame[t].pdo \in Nodes
         /\ \A i \in Slots(Outs) : Index(table, i) = frame[t].pdo <=> table[i].node = frame[t].to
<1>0. OutputsTypeOK /\ Layout(table)
  BY Basics DEF TypeInv
<1>1. PICK j \in Slots(Outs) : frame[t].pdo = Index(table, j) /\ frame[t].to = table[j].node
  BY DEF FramesInv, FrameOf
<1>2. \A i \in Slots(Outs) : i \in DOMAIN table /\ j \in SameSide(table, i)
  BY <1>0, Sides DEF Slots
<1>3. \A i \in Slots(Outs) : Index(table, i) = Index(table, j) <=> i = j
  BY <1>0, <1>2, IndexOne
<1>4. \A i \in Slots(Outs) : table[i].node = table[j].node <=> i = j
  BY <1>0, <1>2 DEF Layout, Slots
<1> QED BY <1>0, <1>1, <1>3, <1>4, IndexRange DEF Slots

LEMMA StoreSent ==
  ASSUME IInv, OwnInv, TypeInv, FramesInv, SentInv, NEW t \in PdoTasks, Store(t)
  PROVE  SentInv'
<1>0. /\ OutputsTypeOK /\ Places4 /\ PdoTasks = {Main, Tpdo} /\ PdoTasks \subseteq Tasks
      /\ DOMAIN stage = PdoTasks /\ last \in [Nodes -> Pdos]
  BY Basics DEF TypeInv, PdoTasks, OutputsTypeOK
<1>1. /\ stage[t] = "built" /\ stage' = [stage EXCEPT ![t] = "stored"]
      /\ last' = [last EXCEPT ![frame[t].pdo] = frame[t]]
      /\ spoilt' = IF Overtakes(t) THEN spoilt \cup {frame[t].to} ELSE spoilt \ {frame[t].to}
      /\ UNCHANGED <<pc, own, table, frame, led>>
  BY DEF Store, vars, config
<1>2. pc[t] = "idle" /\ t \notin own
  BY <1>0, <1>1 DEF Places4, FramePlace, OwnInv
<1>3. /\ Slots(Outs)' = Slots(Outs) /\ \A i : Index(table, i)' = Index(table, i)
  BY <1>1 DEF Slots, Index, SameSide, IsIn
<1> SUFFICES ASSUME NEW i \in Slots(Outs), table[i].node \notin spoilt',
                    last'[Index(table, i)] # NoPdo
             PROVE  SentFor(table[i].node, last[Index(table, i)])'
  BY <1>1, <1>3 DEF SentInv
<1> DEFINE n == table[i].node
           k == Index(table, i)
<1>4. table # <<>> /\ frame[t].pdo \in Nodes /\ k \in Nodes
      /\ (k = frame[t].pdo <=> n = frame[t].to)
  <2>1. table # <<>>
    BY DEF Slots
  <2> QED BY <1>0, <1>1, <2>1, FrameFor, PdoTyped
<1>5. \A u \in PdoTasks : Unsent(u, n)' <=> Unsent(u, n) \/ (u = t /\ n = frame[t].to)
  <2>1. \A u \in PdoTasks : stage'[u] = IF u = t THEN "stored" ELSE stage[u]
    BY <1>0, <1>1
  <2> QED BY <1>1, <1>2, <2>1 DEF Unsent
<1>6. CASE n = frame[t].to
  <2>1. last'[k] = frame[t]
    BY <1>0, <1>1, <1>4, <1>6
  <2>2. ~Overtakes(t)
    BY <1>1, <1>6
  <2>3. \A u \in PdoTasks : Unsent(u, n) => pc[u] # "idle"
    BY <1>1, <1>6, <2>2 DEF Overtakes, Unsent
  <2>4. Unsent(t, n)'
    BY <1>5, <1>6
  <2> HIDE DEF k, n
  <2>5. SentFor(n, last[k])'
    <3>1. n' = n /\ k' = k
      BY <1>1, <1>3 DEF n, k
    <3> QED BY <1>1, <1>2, <1>5, <2>1, <2>3, <2>4, <3>1 DEF SentFor
  <2> QED BY <2>5 DEF n, k
<1>7. CASE n # frame[t].to
  <2>1. last'[k] = last[k]
    BY <1>0, <1>1, <1>4, <1>7
  <2>2. n \notin spoilt
    BY <1>1, <1>7
  <2>3. SentFor(n, last[k])
    BY <2>1, <2>2 DEF SentInv
  <2> HIDE DEF k, n
  <2>4. SentFor(n, last[k])'
    <3>1. n' = n /\ k' = k
      BY <1>1, <1>3 DEF n, k
    <3> QED BY <1>1, <1>5, <1>7, <2>1, <2>3, <3>1 DEF SentFor
  <2> QED BY <2>4 DEF n, k
<1> QED BY <1>6, <1>7

\* canSend takes the PDO: no other task is inside, so none that counts as sent
\* to the module is older.
LEMMA CallSent ==
  ASSUME ~Gap, IInv, OwnInv, TypeInv, SentInv, NEW t \in PdoTasks, CallSend(t)
  PROVE  SentInv'
<1>0. PdoTasks \subseteq Tasks /\ TypeOK
  BY Basics DEF TypeInv, OutputsTypeOK
<1>1. /\ stage[t] = "stored" /\ own' = own \ {t}
      /\ UNCHANGED <<table, last, led, spoilt, stage, frame>>
  BY DEF CallSend, Test, io, config, sending
<1>2. \A u \in Tasks : pc[u] = "idle"
  BY <1>0 DEF CallSend, Test, Calls, IInv, LockInv, TypeOK, Busy
<1>3. own = {}
  BY <1>0, <1>2 DEF OwnInv, TypeOK
<1>4. \A u \in PdoTasks : \A n : Unsent(u, n)' <=> Unsent(u, n)
  BY <1>1, <1>3 DEF Unsent
<1>5. \A n, p : SentFor(n, p) => SentFor(n, p)'
  BY <1>0, <1>1, <1>2, <1>4 DEF SentFor
<1>6. /\ Slots(Outs)' = Slots(Outs) /\ \A i : Index(table, i)' = Index(table, i)
  BY <1>1 DEF Slots, Index, SameSide, IsIn
<1> QED BY <1>1, <1>5, <1>6 DEF SentInv

\* A refused PDO spoils its module, and one that was sent is not on its way.
LEMMA NextSent ==
  ASSUME IInv, OwnInv, TypeInv, SentInv,
         NEW t \in PdoTasks, SendRefused(t) \/ SendReturns(t)
  PROVE  SentInv'
<1>0. /\ PdoTasks \subseteq Tasks /\ DOMAIN stage = PdoTasks /\ DOMAIN frame = PdoTasks
      /\ DOMAIN pc = Tasks
  BY Basics DEF TypeInv, OutputsTypeOK, TypeOK
<1>1. /\ stage[t] = "stored" /\ stage' = [stage EXCEPT ![t] = "none"]
      /\ frame' = [frame EXCEPT ![t] = NoPdo]
      /\ UNCHANGED <<table, last, led>>
      /\ \A u \in PdoTasks \ {t} : pc'[u] = pc[u] /\ (u \in own' <=> u \in own)
  BY <1>0 DEF SendRefused, SendReturns, NextPdo, Refuse, Return, Goto, config
<1>2. \A u \in PdoTasks : \A n : Unsent(u, n)' <=> Unsent(u, n) /\ u # t
  BY <1>0, <1>1 DEF Unsent
<1>3. \/ spoilt' = spoilt \cup {frame[t].to}
      \/ spoilt' = spoilt /\ t \in own
  BY <1>0 DEF SendRefused, SendReturns, Return, IInv, SentMeansSent
<1>4. ASSUME NEW n, n \notin spoilt', NEW p, SentFor(n, p) PROVE SentFor(n, p)'
  <2>1. ~Unsent(t, n)
    BY <1>3, <1>4 DEF Unsent
  <2>2. \A u \in PdoTasks : Unsent(u, n) => frame'[u] = frame[u] /\ pc'[u] = pc[u]
    BY <1>0, <1>1, <2>1
  <2> HIDE DEF Unsent
  <2>3. \A u \in PdoTasks : Unsent(u, n)' <=> Unsent(u, n)
    BY <1>2, <2>1
  <2> QED BY <1>1, <1>4, <2>2, <2>3 DEF SentFor
<1>5. /\ Slots(Outs)' = Slots(Outs) /\ \A i : Index(table, i)' = Index(table, i)
  BY <1>1 DEF Slots, Index, SameSide, IsIn
<1>6. spoilt \subseteq spoilt'
  BY <1>3
<1> QED BY <1>1, <1>4, <1>5, <1>6 DEF SentInv

\* The module takes the PDO of the one task inside canSend: it is the newest, or
\* a newer one has yet to be sent.
LEMMA DeliverSent ==
  ASSUME IInv, OwnInv, TypeInv, FramesInv, SentInv, Deliver
  PROVE  SentInv'
<1>0. /\ OutputsTypeOK /\ Places4 /\ PdoTasks \subseteq Tasks /\ Tpdo \in PdoTasks
      /\ DOMAIN led = Nodes /\ PdoTasks = {Main, Tpdo}
  BY Basics DEF TypeInv, OutputsTypeOK, PdoTasks
<1>1. /\ wire # None /\ own' = own \cup {wire}
      /\ UNCHANGED <<pc, table, last, spoilt, stage, frame>>
      /\ led' = IF wire \in PdoTasks /\ frame[wire] # NoPdo
                THEN [led EXCEPT ![frame[wire].to] = frame[wire].word] ELSE led
  BY DEF Deliver, Complete, config, sending
<1>2. pending /\ ~done /\ pc[wire] = "waiting" /\ wire \in Tasks
  BY <1>1 DEF IInv, FrameInv, BufferKept
<1>3. wire \notin own /\ \A u \in Tasks \ {wire} : pc[u] = "idle"
  BY <1>2 DEF OwnInv, IInv, OneSender
<1>4. CASE ~(wire \in PdoTasks /\ stage[wire] = "stored")
  <2>1. led' = led
    BY <1>0, <1>1, <1>2, <1>4 DEF Places4, FramePlace, OutputsTypeOK
  <2>2. \A t \in PdoTasks : stage[t] = "stored" => (t \in own' <=> t \in own)
    BY <1>1, <1>4
  <2> QED BY <1>1, <2>1, <2>2, SentKept
<1>5. CASE wire \in PdoTasks /\ stage[wire] = "stored"
  <2>1. frame[wire] # NoPdo
    BY <1>0, <1>5 DEF Places4, FramePlace
  <2>2. \A u \in PdoTasks : \A n : Unsent(u, n)' <=> Unsent(u, n) /\ u # wire
    BY <1>1 DEF Unsent
  <2>3. \A n : Unsent(wire, n) <=> n = frame[wire].to
    BY <1>3, <1>5 DEF Unsent
  <2>4. ASSUME NEW n \in Nodes, NEW p, SentFor(n, p) PROVE SentFor(n, p)'
    <3>1. \A u \in PdoTasks : Unsent(u, n)' => pc'[u] = "idle" /\ frame'[u] = p
      BY <1>0, <1>1, <1>3, <2>2, <2>4 DEF SentFor
    <3>2. ASSUME \A u \in PdoTasks : ~Unsent(u, n)' PROVE led'[n] = p.word
      <4>1. CASE n = frame[wire].to
        <5>1. \A u \in PdoTasks : Unsent(u, n) => u = wire
          BY <2>2, <3>2
        <5>2. frame[wire] = p
          BY <1>2, <1>5, <2>3, <2>4, <4>1, <5>1 DEF SentFor
        <5> QED BY <1>0, <1>1, <1>5, <2>1, <4>1, <5>2
      <4>2. CASE n # frame[wire].to
        <5>1. \A u \in PdoTasks : ~Unsent(u, n)
          BY <2>2, <2>3, <3>2, <4>2
        <5>2. led'[n] = led[n]
          BY <1>0, <1>1, <1>5, <2>1, <4>2
        <5> QED BY <2>4, <5>1, <5>2 DEF SentFor
      <4> QED BY <4>1, <4>2
    <3> QED BY <3>1, <3>2 DEF SentFor
  <2>5. /\ Slots(Outs)' = Slots(Outs) /\ \A i : Index(table, i)' = Index(table, i)
    BY <1>1 DEF Slots, Index, SameSide, IsIn
  <2>6. \A i \in Slots(Outs) : table[i].node \in Nodes
    BY <1>0, PdoTyped
  <2> QED BY <1>1, <2>4, <2>5, <2>6 DEF SentInv
<1> QED BY <1>4, <1>5

LEMMA SentStep ==
  ASSUME ~Gap, IInv, OwnInv, TypeInv, FramesInv, SentInv, [NextIO]_allVars
  PROVE  SentInv'
<1>0. /\ OutputsTypeOK /\ Places4 /\ PdoTasks = {Main, Tpdo} /\ PdoTasks \subseteq Tasks
      /\ Main # Tpdo /\ DOMAIN pc = Tasks
      /\ stage \in [PdoTasks -> {"none", "built", "stored"}] /\ frame \in [PdoTasks -> Pdos]
  BY Basics DEF TypeInv, PdoTasks, OutputsTypeOK, TypeOK
<1> DEFINE Still == UNCHANGED <<table, last, led, spoilt, stage, frame>>
           Kept(t) == stage[t] = "stored" =>
             (t \in own' <=> t \in own) /\ (pc'[t] = "idle" <=> pc[t] = "idle")
<1>a. ASSUME Still, \A t \in PdoTasks : Kept(t) PROVE SentInv'
  BY <1>a, SentKept
<1>b. ASSUME table' = <<>> PROVE SentInv'
  BY <1>b DEF SentInv, Slots
<1>1. ASSUME NEW t \in Tasks, OtherFrame(t) PROVE SentInv'
  <2>1. CASE t \in PdoTasks
    <3>1. table' = <<>>
      BY <1>0, <1>1, <2>1 DEF OtherFrame, Places4, ScanPlace, io, config
    <3> QED BY <1>b, <3>1
  <2>2. CASE t \notin PdoTasks
    <3>1. Still
      BY <1>1 DEF OtherFrame, io, config, sending
    <3>2. \A u \in PdoTasks : pc'[u] = pc[u] /\ (u \in own' <=> u \in own)
      BY <1>0, <1>1, <2>2 DEF OtherFrame, Test, Refuse, Goto
    <3> QED BY <1>a, <3>1, <3>2
  <2> QED BY <2>1, <2>2
<1>2. ASSUME NEW t \in Tasks, InSend(t) PROVE SentInv'
  <2>1. Still
    BY <1>2 DEF InSend, io, config, sending
  <2>2. own' = own /\ \A u \in Tasks : pc'[u] = "idle" <=> pc[u] = "idle"
    BY <1>0, <1>2 DEF InSend, Lock, Write, Request, Take, MayTake, Goto
  <2> QED BY <1>0, <1>a, <2>1, <2>2
<1>3. ASSUME NEW t \in Tasks, OtherReturns(t) PROVE SentInv'
  <2>1. Still
    BY <1>3 DEF OtherReturns, io, config, sending
  <2>2. \A u \in PdoTasks : stage[u] = "stored" => u # t
    BY <1>3 DEF OtherReturns
  <2>3. \A u \in PdoTasks \ {t} : pc'[u] = pc[u] /\ (u \in own' <=> u \in own)
    BY <1>0, <1>3 DEF OtherReturns, Return, Goto
  <2> QED BY <1>a, <2>1, <2>2, <2>3
<1>4. ASSUME NEW t \in PdoTasks, Skip(t) PROVE SentInv'
  <2>1. Still /\ UNCHANGED <<pc, own>>
    BY <1>4 DEF Skip, vars, config
  <2> QED BY <1>a, <2>1
<1>5. ASSUME NEW t \in PdoTasks, Build(t) PROVE SentInv'
  <2>1. /\ UNCHANGED <<table, last, led, spoilt, pc, own>> /\ stage[t] = "none"
        /\ stage' = [stage EXCEPT ![t] = "built"]
        /\ \E k \in Due(t) : frame' = [frame EXCEPT ![t] = Pdo(k)]
    BY <1>5 DEF Build, Turn, vars, config
  <2>2. \A u \in PdoTasks : /\ stage'[u] = IF u = t THEN "built" ELSE stage[u]
                            /\ u # t => frame'[u] = frame[u]
    BY <1>0, <2>1
  <2> QED BY <2>1, <2>2, SentKept
<1>6. ASSUME NEW t \in PdoTasks, Store(t) PROVE SentInv'
  BY <1>6, StoreSent
<1>7. ASSUME NEW t \in PdoTasks, CallSend(t) PROVE SentInv'
  BY <1>7, CallSent
<1>8. ASSUME NEW t \in PdoTasks, SendRefused(t) \/ SendReturns(t) PROVE SentInv'
  BY <1>8, NextSent
<1>9. CASE Wake \/ Copy \/ SetOperational \/ InputPdo \/ Core1Up \/ PlcWrite
  <2>1. Still /\ UNCHANGED <<pc, own>>
    BY <1>9 DEF Wake, Copy, SetOperational, InputPdo, Core1Up, PlcWrite,
                vars, config, sending
  <2> QED BY <1>a, <2>1
<1>10. CASE (Load \/ StartTimerLoop) /\ UNCHANGED io
  <2>1. Still /\ UNCHANGED <<pc, own>>
    BY <1>10 DEF Load, StartTimerLoop, io, config, sending
  <2> QED BY <1>a, <2>1
<1>11. CASE Operational
  <2>1. Still /\ UNCHANGED <<pc, own>>
    BY <1>11 DEF Operational, Started, config, sending
  <2> QED BY <1>a, <2>1
<1>12. CASE Deliver
  BY <1>12, DeliverSent
<1>13. CASE StopForScan
  BY <1>13, <1>b DEF StopForScan
<1>14. CASE Configure
  <2>1. CASE table' = <<>>
    BY <1>b, <2>1
  <2>2. CASE table' # <<>>
    \* A scan has just ended: nothing counts as sent.
    <3>1. mode = "scan" /\ last' = last
      BY <1>14 DEF Configure, Operate, MainAt
    <3>2. \A n \in Nodes : last'[n] = NoPdo
      BY <1>0, <3>1 DEF Places4, ScanPlace
    <3>3. OutputsTypeOK'
      BY TypeStepIO
    <3>4. \A i \in Slots(Outs)' : Index(table, i)' \in Nodes
      <4>1. Layout(table')
        BY <3>3, LayoutFacts DEF OutputsTypeOK
      <4>2. \A i \in Slots(Outs)' : i \in DOMAIN table'
        BY DEF Slots
      <4>3. \A i \in DOMAIN table' : Index(table', i) \in Nodes
        BY <4>1, IndexRange
      <4> QED BY <4>2, <4>3 DEF Index, SameSide, IsIn
    <3> QED BY <3>2, <3>4 DEF SentInv
  <2> QED BY <2>1, <2>2
<1>15. CASE ModuleRestarts
  <2>1. PICK j \in Slots(Outs) : /\ led' = [led EXCEPT ![table[j].node] = Off]
                                 /\ spoilt' = spoilt \cup {table[j].node}
    BY <1>15 DEF ModuleRestarts
  <2>2. UNCHANGED <<table, last, stage, frame, pc, own>>
    BY <1>15 DEF ModuleRestarts, vars, config, sending
  <2>3. \A n, t : Unsent(t, n)' <=> Unsent(t, n)
    BY <2>2 DEF Unsent
  <2>4. \A n, p : n \notin spoilt' /\ SentFor(n, p) => SentFor(n, p)'
    BY <1>0, <2>1, <2>2, <2>3 DEF SentFor, OutputsTypeOK
  <2>5. /\ Slots(Outs)' = Slots(Outs) /\ \A i : Index(table, i)' = Index(table, i)
    BY <2>2 DEF Slots, Index, SameSide, IsIn
  <2> QED BY <2>1, <2>2, <2>4, <2>5 DEF SentInv
<1>16. CASE UNCHANGED allVars
  <2>1. Still /\ UNCHANGED <<pc, own>>
    BY <1>16 DEF allVars, io, config, sending, vars
  <2> QED BY <1>a, <2>1
<1>17. CASE NextIO
  BY <1>17, <1>1, <1>2, <1>3, <1>4, <1>5, <1>6, <1>7, <1>8, <1>9, <1>10, <1>11, <1>12, <1>13,
     <1>14, <1>15 DEF NextIO
<1> QED BY <1>16, <1>17

\* What counts as sent is the newest for the module at the slot TPDO is at, so it
\* still is for all TPDO has passed when it goes on.
LEMMA PassedNext ==
  ASSUME TypeInv, CopiedInv, copied, pos[Tpdo] > 1, pos' = After(Tpdo),
         UNCHANGED <<table, buff_out, last>>,
         \A i \in Slots({"DO"}) : i = pos[Tpdo] - 1 => last[Index(table, i)] = Newest(i)
  PROVE  \A i \in Slots({"DO"})' : Passed(i)' => (last[Index(table, i)] = Newest(i))'
<1>1. Layout(table) /\ Tpdo \in PdoTasks /\ pos \in [PdoTasks -> 0..Size + 1] /\ Size \in Nat
  BY Basics DEF TypeInv, OutputsTypeOK, Size
<1>2. /\ Slots({"DO"})' = Slots({"DO"})
      /\ \A i : Index(table, i)' = Index(table, i) /\ Newest(i)' = Newest(i)
  BY DEF Slots, Index, SameSide, IsIn, Newest, Place, Offset, Before
<1>3. ASSUME NEW i \in Slots({"DO"}), Passed(i)' PROVE Passed(i) \/ i = pos[Tpdo] - 1
  <2>1. i \in 1..Len(table) /\ Len(table) \in Nat /\ pos[Tpdo] \in Nat
    BY <1>1 DEF Slots, Layout
  <2>2. pos'[Tpdo] = IF pos[Tpdo] > Len(table) THEN 0 ELSE pos[Tpdo] + 1
    BY <1>1 DEF After
  <2> QED BY <1>3, <2>1, <2>2 DEF Passed
<1>4. \A i \in Slots({"DO"}) : Passed(i)' => last[Index(table, i)] = Newest(i)
  BY <1>3 DEF CopiedInv
<1> QED BY <1>2, <1>4

\* The PDO of a digital output is its newest, once its object has what the PLC
\* wrote.
LEMMA PdoNewest ==
  ASSUME CopiedInv, copied, NEW i \in Slots(Outs)
  PROVE  PdoOf(i) = Newest(i)
BY DEF CopiedInv, PdoOf, Newest

\* What the two tasks do in their passes.
LEMMA CopiedPass ==
  ASSUME TypeInv, DataInv, CopiedInv, copied, NEW t \in PdoTasks,
         Skip(t) \/ Build(t) \/ Store(t) \/ CallSend(t) \/ SendRefused(t) \/ SendReturns(t)
  PROVE  CopiedInv'
<1>0. /\ OutputsTypeOK /\ Places4 /\ Layout(table) /\ PdoTasks = {Main, Tpdo} /\ Main # Tpdo
      /\ DOMAIN stage = PdoTasks /\ DOMAIN frame = PdoTasks /\ last \in [Nodes -> Pdos]
      /\ pos[Tpdo] \in Nat /\ pos[Main] \in Nat /\ pos \in [PdoTasks -> 0..Size + 1]
      /\ NumOut \in Nat
  <2>1. Size \in Nat /\ pos \in [PdoTasks -> 0..Size + 1]
    BY Basics DEF TypeInv, OutputsTypeOK, Size
  <2> QED BY <2>1, Basics DEF TypeInv, PdoTasks, OutputsTypeOK
<1>1. mode = "op" /\ t = Tpdo /\ pos[Tpdo] > 1
  <2>1. mode = "op"
    BY DEF CopiedInv
  <2>2. pos[Main] = 0 /\ stage[Main] = "none"
    BY <1>0, <2>1 DEF Places4, MainPlace
  <2>3. t = Tpdo
    <3>1. stage[t] # "none" \/ Turn(t)
      BY DEF Skip, Build, Store, CallSend, SendRefused, SendReturns
    <3>2. ~Turn(Main)
      BY <1>0, <2>2 DEF Turn
    <3> QED BY <1>0, <2>2, <3>1, <3>2
  <2> QED BY <1>0, <2>1, <2>3 DEF Skip, Build, Turn, Store, CallSend, SendRefused,
                                  SendReturns, Places4, TpdoPlace
<1>2. /\ UNCHANGED <<config, od, image, copied>> /\ mode' = mode
  BY <1>1 DEF Skip, Build, Store, CallSend, SendRefused, SendReturns, Test, Refuse, Return,
              vars, rescan, io
<1>3. /\ \A kinds : Slots(kinds)' = Slots(kinds)
      /\ \A i : /\ Index(table, i)' = Index(table, i) /\ Object(table, i)' = Object(table, i)
                /\ Newest(i)' = Newest(i) /\ Place(i)' = Place(i)
  BY <1>2 DEF config, image, Slots, Object, Index, SameSide, IsIn, Newest, Place, Offset, Before
<1>4. \A i \in Slots(Outs) : od'[Object(table, i)] = buff_out'[Place(i)]
  BY <1>2 DEF CopiedInv, image
<1> DEFINE AllPassed == \A i \in Slots({"DO"})' : Passed(i)' => (last[Index(table, i)] = Newest(i))'
           AtSlot == stage'[Tpdo] # "none" =>
             \E i \in Slots({"DO"}) :
               /\ i = pos'[Tpdo] - 1 /\ frame'[Tpdo] = Newest(i)
               /\ stage'[Tpdo] = "stored" => last'[Index(table, i)] = frame'[Tpdo]
<1>5. CASE Skip(Tpdo)
  <2>1. stage[Tpdo] = "none" /\ pos' = After(Tpdo) /\ UNCHANGED <<stage, last>>
    BY <1>5 DEF Skip, Turn
  <2>2. ASSUME NEW i \in Slots({"DO"}), i = pos[Tpdo] - 1
        PROVE  last[Index(table, i)] = Newest(i)
    <3>1. i \in Slots(Outs) /\ i \in DOMAIN table /\ table[i].kind = "DO"
      BY DEF Slots, Outs
    <3>2. links[i].d # Null
      <4>1. links[i].d = Object(table, i)
        BY <3>1 DEF DataInv, LinkInv, Link, Digital
      <4>2. Len(Object(table, i)) = 2
        BY DEF Object
      <4> QED BY <4>1, <4>2 DEF Null
    <3>3. Index(table, i) \in Due(Tpdo)
      BY <1>0, <2>2, <3>2 DEF Due
    <3>4. last[Index(table, i)] = Pdo(Index(table, i))
      BY <1>1, <1>5, <3>3 DEF Skip, CsPDO
    <3>5. Pdo(Index(table, i)) = PdoOf(i)
      <4>1. ~IsIn(table[i])
        BY <1>0, <3>1, Sides
      <4> QED BY <1>0, <3>1, <4>1, OwnerOf DEF Pdo, PdoOf, Object
    <3> QED BY <3>1, <3>4, <3>5, PdoNewest
  <2>3. AllPassed
    BY <1>1, <1>2, <2>1, <2>2, PassedNext DEF config, image
  <2> QED BY <1>1, <1>2, <1>3, <1>4, <2>1, <2>3 DEF CopiedInv
<1>6. CASE Build(Tpdo)
  <2>1. PICK k \in Due(Tpdo) : frame' = [frame EXCEPT ![Tpdo] = Pdo(k)]
    BY <1>6 DEF Build
  <2>2. PICK m \in Slots({"DO"}) : Pdo(k) = PdoOf(m) /\ m = pos[Tpdo] - 1
    BY <1>0, DuePdo
  <2>3. UNCHANGED <<pos, last>> /\ stage' = [stage EXCEPT ![Tpdo] = "built"]
    BY <1>6 DEF Build
  <2>4. frame'[Tpdo] = Newest(m)
    <3>1. m \in Slots(Outs)
      BY DEF Slots, Outs
    <3> QED BY <1>0, <2>1, <2>2, <3>1, PdoNewest
  <2>5. AtSlot
    BY <1>0, <2>2, <2>3, <2>4
  <2>6. AllPassed
    BY <1>3, <2>3 DEF CopiedInv, Passed
  <2> HIDE DEF AtSlot, AllPassed
  <2>7. (\A i \in Slots({"DO"}) : Passed(i) => last[Index(table, i)] = Newest(i))'
    BY <2>6 DEF AllPassed
  <2> QED BY <1>1, <1>2, <1>3, <1>4, <2>5, <2>7 DEF CopiedInv, AtSlot
<1>7. CASE Store(Tpdo)
  <2>1. /\ stage[Tpdo] = "built" /\ stage' = [stage EXCEPT ![Tpdo] = "stored"]
        /\ last' = [last EXCEPT ![frame[Tpdo].pdo] = frame[Tpdo]] /\ UNCHANGED <<pos, frame>>
    BY <1>7 DEF Store
  <2>2. PICK i \in Slots({"DO"}) : i = pos[Tpdo] - 1 /\ frame[Tpdo] = Newest(i)
    BY <2>1 DEF CopiedInv
  <2>3. frame[Tpdo].pdo = Index(table, i)
    BY <2>2 DEF Newest
  <2>4. \A j \in Slots({"DO"}) : /\ Index(table, j) \in Nodes
                                 /\ Index(table, j) = Index(table, i) <=> i = j
    <3>1. \A j \in Slots({"DO"}) : /\ j \in DOMAIN table /\ i \in DOMAIN table
                                   /\ j \in SameSide(table, i)
      BY <1>0, Sides DEF Slots, SameSide, IsIn
    <3> QED BY <1>0, <3>1, IndexOne, IndexRange
  <2>5. \A j \in Slots({"DO"}) :
          last'[Index(table, j)] = IF j = i THEN Newest(i) ELSE last[Index(table, j)]
    BY <1>0, <2>1, <2>2, <2>3, <2>4
  <2>6. AtSlot
    BY <1>0, <2>1, <2>2, <2>5
  <2>7. AllPassed
    BY <1>3, <2>1, <2>5 DEF CopiedInv, Passed
  <2> HIDE DEF AtSlot, AllPassed
  <2>8. (\A j \in Slots({"DO"}) : Passed(j) => last[Index(table, j)] = Newest(j))'
    BY <2>7 DEF AllPassed
  <2> QED BY <1>1, <1>2, <1>3, <1>4, <2>6, <2>8 DEF CopiedInv, AtSlot
<1>8. CASE CallSend(Tpdo)
  <2>1. UNCHANGED <<pos, stage, frame, last>>
    BY <1>8 DEF CallSend, io, sending
  <2> QED BY <1>1, <1>2, <1>3, <1>4, <2>1 DEF CopiedInv, Passed
<1>9. CASE SendRefused(Tpdo) \/ SendReturns(Tpdo)
  <2>1. /\ stage[Tpdo] = "stored" /\ pos' = After(Tpdo) /\ last' = last
        /\ stage' = [stage EXCEPT ![Tpdo] = "none"]
    BY <1>9 DEF SendRefused, SendReturns, NextPdo
  <2>2. PICK i \in Slots({"DO"}) : /\ i = pos[Tpdo] - 1 /\ frame[Tpdo] = Newest(i)
                                   /\ last[Index(table, i)] = frame[Tpdo]
    BY <2>1 DEF CopiedInv
  <2>3. AllPassed
    BY <1>1, <1>2, <2>1, <2>2, PassedNext DEF config, image
  <2>4. stage'[Tpdo] = "none"
    BY <1>0, <2>1
  <2> QED BY <1>1, <1>2, <1>3, <1>4, <2>3, <2>4 DEF CopiedInv
<1> QED BY <1>1, <1>5, <1>6, <1>7, <1>8, <1>9

LEMMA CopiedStep ==
  ASSUME TypeInv, DataInv, CopiedInv, [NextIO]_allVars PROVE CopiedInv'
<1>0. /\ OutputsTypeOK /\ Places4 /\ Layout(table) /\ PdoTasks = {Main, Tpdo} /\ Main # Tpdo
      /\ pos[Tpdo] \in Nat /\ pos[Main] \in Nat /\ pos \in [PdoTasks -> 0..Size + 1]
      /\ NumOut \in Nat
  <2>1. Size \in Nat /\ pos \in [PdoTasks -> 0..Size + 1]
    BY Basics DEF TypeInv, OutputsTypeOK, Size
  <2> QED BY <2>1, Basics DEF TypeInv, PdoTasks
<1> SUFFICES ASSUME copied' PROVE CopiedInv'
  BY DEF CopiedInv
<1>a. ASSUME copied, mode' = mode, UNCHANGED <<table, buff_out, last, stage, frame>>,
             \A i \in Slots(Outs) : od'[Object(table, i)] = od[Object(table, i)],
             pos'[Tpdo] = pos[Tpdo] \/ (pos[Tpdo] <= 1 /\ stage[Tpdo] = "none")
      PROVE  CopiedInv'
  <2>1. /\ \A kinds : Slots(kinds)' = Slots(kinds)
        /\ \A i : /\ Index(table, i)' = Index(table, i) /\ Object(table, i)' = Object(table, i)
                  /\ Newest(i)' = Newest(i) /\ Place(i)' = Place(i)
    BY <1>a DEF Slots, Object, Index, SameSide, IsIn, Newest, Place, Offset, Before
  <2>2. \A i \in Slots({"DO"}) : Passed(i)' => Passed(i)
    BY <1>a DEF Passed
  <2> QED BY <1>a, <2>1, <2>2 DEF CopiedInv
<1>1. CASE Copy /\ active # "none"
  <2>1. /\ mode = "op" /\ od' = CopiedOut /\ pos[Tpdo] = 1 /\ pos' = After(Tpdo)
        /\ UNCHANGED <<mode, table, buff_out, stage>>
    BY <1>1 DEF Copy, vars, rescan, config
  <2>2. stage'[Tpdo] = "none"
    BY <1>0, <2>1 DEF Places4, TpdoPlace, OutputsTypeOK
  <2>3. \A i \in Slots(Outs) : od'[Object(table, i)] = buff_out[Place(i)]
    BY <1>0, <2>1, CopiedFor DEF DataInv
  <2>4. \A i \in Slots({"DO"}) : ~Passed(i)'
    <3>1. \A i \in Slots({"DO"}) : i \in 1..Len(table) /\ Len(table) \in Nat
      BY <1>0 DEF Slots, Layout
    <3>2. pos'[Tpdo] = IF 1 > Len(table) THEN 0 ELSE 2
      BY <1>0, <2>1 DEF After
    <3> QED BY <3>1, <3>2 DEF Passed
  <2>5. /\ \A kinds : Slots(kinds)' = Slots(kinds)
        /\ \A i : Object(table, i)' = Object(table, i) /\ Place(i)' = Place(i)
    BY <2>1 DEF Slots, Object, Index, SameSide, IsIn, Place, Offset, Before
  <2> QED BY <2>1, <2>2, <2>3, <2>4, <2>5 DEF CopiedInv
<1>2. CASE Copy /\ active = "none"
  <2>1. copied /\ mode' = mode /\ UNCHANGED <<table, od, buff_out, last, stage, frame>>
    BY <1>2 DEF Copy, vars, rescan, config
  <2>2. pos[Tpdo] <= 1 /\ stage[Tpdo] = "none"
    BY <1>0, <1>2 DEF Copy, Places4, TpdoPlace, OutputsTypeOK
  <2> QED BY <1>a, <2>1, <2>2
<1>3. ASSUME ~Copy PROVE copied /\ ~StopForScan /\ ~PlcWrite /\ mode = "op" /\ ~Configure
  <2>1. ~StopForScan /\ ~PlcWrite
    BY DEF StopForScan, PlcWrite
  <2>2. copied
    BY <1>3, <2>1, Changes
  <2> QED BY <2>1, <2>2 DEF CopiedInv, Configure, Operate, MainAt
<1> DEFINE Kept == mode' = mode /\ UNCHANGED <<table, od, buff_out, last, stage, frame>>
<1>4. ASSUME ~Copy, NEW t \in Tasks, OtherFrame(t) \/ InSend(t) \/ OtherReturns(t)
      PROVE  Kept /\ pos' = pos
  <2>1. UNCHANGED io
    BY <1>4 DEF OtherFrame, InSend, OtherReturns
  <2>2. mode' = mode
    BY <1>3, <1>4 DEF OtherFrame, InSend, OtherReturns, Test, Refuse, Lock, Write, Request,
                      Take, Return, rescan
  <2> QED BY <2>1, <2>2 DEF io, config, sending, image
<1>5. ASSUME ~Copy, NEW t \in PdoTasks,
             Skip(t) \/ Build(t) \/ Store(t) \/ CallSend(t) \/ SendRefused(t) \/ SendReturns(t)
      PROVE  CopiedInv'
  BY <1>3, <1>5, CopiedPass
<1>6. ASSUME Wake PROVE Kept /\ pos[Tpdo] <= 1 /\ stage[Tpdo] = "none"
  BY <1>0, <1>6 DEF Wake, vars, rescan, config, image, Places4, TpdoPlace, OutputsTypeOK
<1>7. (Load \/ StartTimerLoop) /\ UNCHANGED io => Kept /\ pos' = pos
  BY DEF Load, StartTimerLoop, rescan, io, config, sending, image
<1>8. Deliver \/ ModuleRestarts \/ Core1Up => Kept /\ pos' = pos
  BY DEF Deliver, Complete, ModuleRestarts, Core1Up, vars, rescan, config, sending, image
<1>9. ~Copy => ~SetOperational /\ ~Operational
  BY <1>3 DEF SetOperational, Operational, Started, MainAt
<1>10. ASSUME InputPdo
       PROVE  /\ mode' = mode /\ pos' = pos /\ UNCHANGED <<table, buff_out, last, stage, frame>>
              /\ \A i \in Slots(Outs) : od'[Object(table, i)] = od[Object(table, i)]
  <2>1. PICK j \in Slots(Ins) : od' = [od EXCEPT ![Object(table, j)] = From(table[j].node)]
    BY <1>10 DEF InputPdo
  <2>2. \A i \in Slots(Outs) : Object(table, i) \in Objects /\ Object(table, j) # Object(table, i)
    BY <1>0, ObjectOne, ObjectIn DEF Slots, Ins, Outs
  <2>3. mode' = mode /\ pos' = pos /\ UNCHANGED <<table, buff_out, last, stage, frame>>
    BY <1>10 DEF InputPdo, vars, rescan, config, sending, image
  <2> QED BY <1>0, <2>1, <2>2, <2>3 DEF OutputsTypeOK
<1>11. UNCHANGED allVars => Kept /\ pos' = pos
  BY DEF allVars, vars, rescan, io, config, sending, image
<1>12. ASSUME ~Copy, Kept, pos' = pos \/ (pos[Tpdo] <= 1 /\ stage[Tpdo] = "none")
       PROVE  CopiedInv'
  BY <1>a, <1>3, <1>12
<1>13. ASSUME ~Copy, InputPdo PROVE CopiedInv'
  BY <1>a, <1>3, <1>10, <1>13
<1> HIDE DEF Kept
<1>14. CASE ~Copy
  BY <1>14, <1>3, <1>4, <1>5, <1>6, <1>7, <1>8, <1>9, <1>11, <1>12, <1>13 DEF NextIO
<1> QED BY <1>1, <1>2, <1>14

FollowInv == IInv /\ OwnInv /\ TypeInv /\ DataInv /\ CopiedInv /\ SentInv

LEMMA FollowHolds == ASSUME FollowInv PROVE OutputsFollow
<1>0. Places4 /\ OutputsTypeOK /\ PdoTasks = {Main, Tpdo}
  BY DEF FollowInv, TypeInv, PdoTasks
<1> SUFFICES ASSUME mode = "op", pos[Tpdo] = 0, copied, NEW i \in Slots({"DO"}),
                    table[i].node \notin spoilt
             PROVE  led[table[i].node] = buff_out[Place(i)]
  BY DEF OutputsFollow
<1>1. i \in Slots(Outs) /\ last[Index(table, i)] = Newest(i)
  BY DEF FollowInv, CopiedInv, Passed, Slots, Outs
<1>2. Newest(i) # NoPdo /\ Newest(i).word = buff_out[Place(i)]
  <2>1. Index(table, i) # 0
    BY <1>0, <1>1, PdoTyped, Basics
  <2> QED BY <2>1 DEF Newest, NoPdo
<1>3. \A t \in PdoTasks : stage[t] = "none"
  <2>1. pos[Main] = 0
    <3>1. pos[Main] \in 0..Size + 1 /\ Size \in Nat
      BY <1>0, Basics DEF OutputsTypeOK, Size
    <3> QED BY <3>1 DEF FollowInv, TypeInv, Places4, MainPlace
  <2>2. NumOut \in Nat
    BY <1>0, Basics
  <2> QED BY <1>0, <2>1, <2>2 DEF Places4, MainPlace, TpdoPlace
<1>4. \A t \in PdoTasks : ~Unsent(t, table[i].node)
  BY <1>3 DEF Unsent
<1> QED BY <1>1, <1>2, <1>4 DEF FollowInv, SentInv, SentFor

\* "Write outputs -> physical IO" (Master.c:491): for any tables without a hole,
\* and if no task wakes in canSend's gap, when TPDO is through with a pass it began
\* while the master was operational, and the PLC has written nothing since, each
\* digital output module has what the PLC wrote, unless its PDO was refused or
\* overtaken by an older one or it restarted.
THEOREM OutputsReachModules == ASSUME ~Gap, NoHole PROVE SpecIO => []OutputsFollow
<1>1. FollowInv /\ [NextIO]_allVars => FollowInv'
  <2> SUFFICES ASSUME FollowInv, [NextIO]_allVars PROVE FollowInv'
    OBVIOUS
  <2>1. [Next]_vars
    BY StepImplements
  <2>2. IInv' /\ OwnInv'
    BY <2>1, InvStep, OwnStep DEF FollowInv
  <2>3. TypeInv'
    BY TypeStepIO, PlaceStep DEF FollowInv, TypeInv
  <2>4. DataInv'
    BY LinkStep, ImageStep, OdStep, FramesStep, ShownStep DEF FollowInv, DataInv
  <2>5. CopiedInv' /\ SentInv'
    BY CopiedStep, SentStep DEF FollowInv, DataInv
  <2> QED BY <2>2, <2>3, <2>4, <2>5 DEF FollowInv
<1>2. Init /\ InitIO => FollowInv
  <2> SUFFICES ASSUME Init, InitIO PROVE FollowInv
    OBVIOUS
  <2>1. IInv /\ TypeInv /\ DataInv
    BY InitInv, InitTypeIO, InitDataIO
  <2>2. OwnInv /\ CopiedInv /\ SentInv
    BY DEF Init, InitIO, OwnInv, CopiedInv, SentInv, Slots
  <2> QED BY <2>1, <2>2 DEF FollowInv
<1>3. SpecIO => (Init /\ InitIO) /\ [][NextIO]_allVars
  BY PTL DEF SpecIO
<1>4. FollowInv => OutputsFollow
  BY FollowHolds
<1> QED BY <1>1, <1>2, <1>3, <1>4, PTL
=============================================================================
