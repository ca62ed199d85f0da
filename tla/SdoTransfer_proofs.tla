------------------------- MODULE SdoTransfer_proofs -------------------------
(***************************************************************************)
(* Proofs about SdoTransfer, for any modules, objects, numbers of segments   *)
(* and lines, when no frame of a transfer meets the next one (Late = FALSE).  *)
(* The invariant is about one module at a time: the frames on the way to and  *)
(* from it, its server's line and dictionary, and the client's line for it.   *)
(* It looks at no more than the one frame that may still have an effect.      *)
(***************************************************************************)
EXTENDS SdoTransfer, TLAPS, SequenceTheorems, WellFoundedInduction

-----------------------------------------------------------------------------
(* What the data are *)

Segment == Objs \X Values \X Nat
Data == Seq(Segment)

Frames == [cs : {"init_up", "init_down", "up", "down", "init_up_ok", "up_ok",
                 "init_down_ok", "down_ok", "abort"},
           obj : Objs \cup {None}, toggle : {0, 1}, last : BOOLEAN, data : Data]

Record(x) ==
  /\ DOMAIN x = DOMAIN Reset
  /\ x.state \in {"RESET", "UP", "DOWN"} /\ x.srv \in Servers \cup {None}
  /\ x.obj \in Objs \cup {None} /\ x.data \in Data /\ x.offset \in Nat
  /\ x.toggle \in {0, 1} /\ x.owed \in BOOLEAN

\* d is the first n segments of v
Prefix(d, v, n) ==
  /\ n \in 0..Len(v) /\ Len(d) = n
  /\ \A i \in 1..n : d[i] = v[i]

-----------------------------------------------------------------------------
(* The inductive invariant *)

\* The client's lines: each is free or has a transfer; a write has its object.
LineOK(x) ==
  \/ x = Reset
  \/ /\ Record(x) /\ x.state # "RESET" /\ x.srv \in Servers /\ x.obj \in Objs
     /\ x.state = "UP" => x.offset = 0
     /\ x.state = "DOWN" => x.data \in Wholes(x.obj) /\ x.offset <= Len(x.data)

\* One whose alarm rang is out of use until TIMER has called back.
Out(x) == x.state = "ABORTED_INTERNAL"

Stopped(x) == /\ DOMAIN x = DOMAIN Reset /\ Out(x) /\ x.srv \in Servers
              /\ x.offset = 0 /\ x.data = <<>> /\ x.owed

TableOK(t) ==
  /\ DOMAIN t = Lines
  /\ \A l \in Lines : LineOK(t[l]) \/ Stopped(t[l])
  /\ \A l, k \in Lines :
       t[l].srv = t[k].srv /\ t[l].srv # None /\ ~Out(t[l]) /\ ~Out(t[k]) => l = k

\* It is the line TIMER has in hand.
RungOK(t, g) ==
  /\ g = NoAlarm \/ (g.line \in Lines /\ g.srv \in Servers)
  /\ \A l \in Lines : Out(t[l]) => g.line = l /\ g.srv = t[l].srv

\* The server's line: a read has the whole object, a write less than it.
PeerOK(p) ==
  /\ Record(p)
  /\ p.state = "UP" => /\ p.obj \in Objs /\ p.data \in Wholes(p.obj)
                       /\ p.offset < Len(p.data)
  /\ p.state = "DOWN" => p.obj \in Objs /\ Len(p.data) < Segs[p.obj]

DictOK(d) == DOMAIN d = Objs /\ \A o \in Objs : d[o] \in Wholes(o)

\* Beside aborts at most one frame is under way: the first answer, the first
\* request, or the first one behind the abort of the transfer before.
Shape(q, a, p) ==
  /\ q \in Seq(Frames) /\ a \in Seq(Frames)
  /\ \A i \in 1..Len(q) : q[i] # Abort =>
       /\ q[i].cs \in {"init_up", "init_down", "up", "down"}
       /\ q[i].cs \in {"init_up", "init_down"} => a = <<>>
       /\ i = 1 \/ (i = 2 /\ q[1] = Abort /\ q[i].cs \in {"init_up", "init_down"})
  /\ \A i \in 1..Len(a) :
       /\ a[i] = Abort => p.state = "RESET"
       /\ a[i] # Abort =>
            /\ i = 1 /\ \A j \in 1..Len(q) : q[j] = Abort
            /\ a[i].cs \in {"init_up_ok", "up_ok", "init_down_ok", "down_ok"}

\* What a request m says, whether or not its client still waits
RequestOK(m, p) ==
  /\ m.cs \in {"init_up", "init_down"} => m.obj \in Objs
  /\ m.cs = "init_down" => IF m.last THEN m.data \in Wholes(m.obj)
                                     ELSE Segs[m.obj] > 1
  /\ m.cs = "down" /\ p.state = "DOWN" /\ p.toggle = m.toggle =>
       \E v \in Wholes(p.obj) :
         /\ Prefix(p.data, v, Len(p.data)) /\ Len(p.data) < Len(v)
         /\ m.data = <<v[Len(p.data) + 1]>>
         /\ m.last <=> Len(p.data) + 1 = Len(v)

\* What it has to do with the line x of the client
RequestOf(m, p, x) ==
  /\ m.cs = "init_up" => x.state = "UP" /\ x.obj = m.obj /\ x.data = <<>> /\ x.toggle = 0
  /\ m.cs = "init_down" =>
       /\ x.state = "DOWN" /\ x.obj = m.obj /\ x.toggle = 0
       /\ IF m.last THEN m.data = x.data /\ x.offset = Len(x.data) ELSE x.offset = 0
  /\ m.cs = "up" =>
       /\ x.state = "UP" /\ x.toggle = m.toggle
       /\ p.state = "UP" /\ p.toggle = m.toggle =>
            p.obj = x.obj /\ Prefix(x.data, p.data, p.offset)
  /\ m.cs = "down" =>
       /\ x.state = "DOWN" /\ x.toggle = m.toggle /\ x.offset > 0
       /\ m.data = <<x.data[x.offset]>> /\ (m.last <=> x.offset = Len(x.data))
       /\ p.state = "DOWN" /\ p.toggle = m.toggle =>
            p.obj = x.obj /\ Prefix(p.data, x.data, x.offset - 1)

\* What an answer m has to do with it
AnswerOf(m, p, d, x) ==
  /\ m.cs = "init_up_ok" =>
       /\ x.state = "UP" /\ x.data = <<>> /\ x.toggle = 0
       /\ IF m.last THEN m.data \in Wholes(x.obj)
          ELSE /\ m.data = <<>>
               /\ p.state = "UP" => p.obj = x.obj /\ p.offset = 0 /\ p.toggle = 0
  /\ m.cs = "up_ok" =>
       /\ x.state = "UP" /\ x.toggle = m.toggle
       /\ IF m.last THEN x.data \o m.data \in Wholes(x.obj)
          ELSE p.state = "UP" => /\ p.obj = x.obj /\ p.toggle = 1 - m.toggle
                                 /\ Prefix(x.data \o m.data, p.data, p.offset)
  /\ m.cs = "init_down_ok" =>
       /\ x.state = "DOWN" /\ x.toggle = 0
       /\ x.offset = Len(x.data) => d[x.obj] = x.data
       /\ p.state = "DOWN" => /\ p.obj = x.obj /\ p.toggle = 0 /\ p.data = <<>>
                              /\ x.offset = 0
  /\ m.cs = "down_ok" =>
       /\ x.state = "DOWN" /\ x.toggle = m.toggle
       /\ x.offset = Len(x.data) => d[x.obj] = x.data
       /\ p.state = "DOWN" => /\ p.obj = x.obj /\ p.toggle = 1 - m.toggle
                              /\ Prefix(p.data, x.data, x.offset)

\* All of it, for the frames q and a, the server p and d, and the lines X.  While
\* a client waits no abort is under way to the server but one before its request.
Good(q, a, p, d, X) ==
  /\ Shape(q, a, p) /\ PeerOK(p) /\ DictOK(d)
  /\ X # {} => \A i \in 1..Len(q) : q[i] = Abort => i = 1 /\ Len(q) = 2 /\ q[2] # Abort
  /\ \A i \in 1..Len(q) : q[i] # Abort =>
       RequestOK(q[i], p) /\ \A x \in X : RequestOf(q[i], p, x)
  /\ \A i \in 1..Len(a) : a[i] # Abort => \A x \in X : AnswerOf(a[i], p, d, x)

Mine(t, s) == {t[l] : l \in {k \in Lines : t[k].srv = s /\ ~Out(t[k])}}

ResOK(z) == /\ DOMAIN z = {"obj", "kind", "data", "ok", "turn"}
            /\ z.ok /\ z.kind = "UP" => z.data \in Wholes(z.obj)

IInv ==
  /\ TableOK(lines) /\ RungOK(lines, rung)
  /\ DOMAIN req = Servers /\ DOMAIN rsp = Servers /\ DOMAIN peer = Servers
  /\ DOMAIN dict = Servers /\ DOMAIN res = Servers
  /\ \A s \in Servers : /\ Good(req[s], rsp[s], peer[s], dict[s], Mine(lines, s))
                        /\ ResOK(res[s])

USE SdoAssumption

-----------------------------------------------------------------------------
(* Lemmas about the data *)

\* The value of an object is a sequence of its segments.
LEMMA WholeData ==
  ASSUME NEW o \in Objs, NEW v \in Wholes(o)
  PROVE  v \in Data /\ Len(v) = Segs[o] /\ Len(v) \in Nat \ {0}
<1>1. PICK b \in Values : v = [k \in 1..Segs[o] |-> <<o, b, k>>]
  BY DEF Wholes, Whole
<1>2. Segs[o] \in Nat \ {0}
  OBVIOUS
<1>3. v \in [1..Segs[o] -> Segment]
  BY <1>1, <1>2 DEF Segment
<1>4. QED
  BY <1>2, <1>3 DEF Data

\* The least line of a set is one of it.
LEMMA Minimal ==
  ASSUME NEW S, S \subseteq Nat, S # {}, NEW less, IsWellFoundedOn(less, Nat)
  PROVE  \E r \in S : \A q \in S : ~(<<q, r>> \in less)
BY WFMin

LEMMA FirstIn ==
  ASSUME NEW S, S \subseteq Lines, S # {}
  PROVE  First(S) \in S /\ First(S) # NoLine
<1> DEFINE less == {ss \in Nat \X Nat : ss[1] < ss[2]}
<1>1. IsWellFoundedOn(less, Nat)
  BY NatLessThanWellFounded DEF OpToRel
<1>2. S \subseteq Nat
  BY DEF Lines
<1>3. \E r \in S : \A q \in S : ~(<<q, r>> \in less)
  <2> HIDE DEF less
  <2> QED BY <1>1, <1>2, Minimal
<1>4. \A q, r \in Nat : q < r => <<q, r>> \in less
  OBVIOUS
<1> HIDE DEF less
<1>5. \E r \in S : \A q \in S : r <= q
  <2>1. PICK r \in S : \A q \in S : ~(<<q, r>> \in less)
    BY <1>3
  <2>2. ASSUME NEW q \in S PROVE r <= q
    <3>1. q \in Nat /\ r \in Nat /\ (r <= q \/ q < r)
      BY <1>2
    <3> QED BY <1>4, <2>1, <3>1
  <2> QED BY <2>2
<1>6. First(S) \in S
  BY <1>5 DEF First
<1> QED
  BY <1>6 DEF Lines, NoLine

LEMMA FirstNone == First({}) = NoLine
BY DEF First

\* Frames appended and taken
LEMMA Appended ==
  ASSUME NEW q \in Seq(Frames), NEW m \in Frames
  PROVE  /\ q \o <<m>> \in Seq(Frames) /\ Len(q \o <<m>>) = Len(q) + 1
         /\ \A i \in 1..Len(q) : (q \o <<m>>)[i] = q[i]
         /\ (q \o <<m>>)[Len(q) + 1] = m
<1>1. <<m>> \in Seq(Frames) /\ Len(<<m>>) = 1 /\ <<m>>[1] = m
  OBVIOUS
<1>2. QED
  BY <1>1, ConcatProperties, LenProperties

LEMMA Pair ==
  ASSUME NEW m \in Frames, NEW n \in Frames
  PROVE  <<m>> \o <<n>> = <<m, n>>
<1>1. <<m>> \in Seq(Frames) /\ <<n>> \in Seq(Frames) /\ <<m, n>> \in Seq(Frames)
  OBVIOUS
<1>2. /\ Len(<<m>> \o <<n>>) = 2 /\ (<<m>> \o <<n>>)[1] = m /\ (<<m>> \o <<n>>)[2] = n
      /\ <<m>> \o <<n>> \in Seq(Frames)
  BY <1>1, ConcatProperties
<1>3. Len(<<m, n>>) = 2 /\ <<m, n>>[1] = m /\ <<m, n>>[2] = n
  OBVIOUS
<1> DEFINE q == <<m>> \o <<n>>  r == <<m, n>>
<1> HIDE DEF q, r
<1>4. \A i \in 1..Len(q) : i = 1 \/ i = 2
  BY <1>2 DEF q
<1>5. \A i \in 1..Len(q) : q[i] = r[i]
  BY <1>2, <1>3, <1>4 DEF q, r
<1>6. q \in Seq(Frames) /\ r \in Seq(Frames) /\ Len(q) = Len(r)
  BY <1>1, <1>2, <1>3 DEF q, r
<1>7. q = r
  BY <1>5, <1>6, SeqEqual
<1> QED
  BY <1>7 DEF q, r

LEMMA Nothing ==
  ASSUME NEW q \in Seq(Frames)
  PROVE  q \o <<>> = q /\ <<>> \o q = q /\ Len(q) \in Nat /\ (q = <<>> <=> Len(q) = 0)
BY ConcatEmptySeq, EmptySeq, LenProperties

LEMMA Taken ==
  ASSUME NEW q \in Seq(Frames), q # <<>>
  PROVE  /\ Head(q) = q[1] /\ Tail(q) \in Seq(Frames) /\ Len(q) \in Nat \ {0}
         /\ Len(Tail(q)) = Len(q) - 1
         /\ \A i \in 1..Len(Tail(q)) : Tail(q)[i] = q[i + 1]
<1>1. Head(q) = q[1]
  OBVIOUS
<1>2. QED
  BY <1>1, HeadTailProperties, EmptySeq

LEMMA AbortFrame == Abort \in Frames /\ Abort.cs = "abort"
BY EmptySeq DEF Abort, Frame, Frames, Data

-----------------------------------------------------------------------------
(* Lemmas about Good: what each kind of step leaves true *)

LEMMA ResetOK == /\ Record(Reset) /\ PeerOK(Reset) /\ Reset.state = "RESET"
                 /\ Reset.srv = None
BY EmptySeq DEF Reset, Record, Data, PeerOK

\* The server may give up at any time.
LEMMA PeerReset ==
  ASSUME NEW q, NEW a, NEW p, NEW d, NEW X, Good(q, a, p, d, X)
  PROVE  Good(q, a, Reset, d, X)
<1>1. Shape(q, a, Reset)
  BY ResetOK DEF Good, Shape
<1>2. ASSUME NEW m, RequestOK(m, p) PROVE RequestOK(m, Reset)
  BY <1>2, ResetOK DEF RequestOK
<1>3. ASSUME NEW m, NEW x, RequestOf(m, p, x) PROVE RequestOf(m, Reset, x)
  BY <1>3, ResetOK DEF RequestOf
<1>4. ASSUME NEW m, NEW x, AnswerOf(m, p, d, x) PROVE AnswerOf(m, Reset, d, x)
  BY <1>4, ResetOK DEF AnswerOf
<1> QED
  BY <1>1, <1>2, <1>3, <1>4, ResetOK DEF Good

\* A request is lost, or taken and not answered.
LEMMA RequestTaken ==
  ASSUME NEW q, NEW a, NEW p, NEW d, NEW X, Good(q, a, p, d, X), q # <<>>
  PROVE  /\ Good(Tail(q), a, p, d, X)
         /\ q[1] # Abort => \A i \in 1..Len(Tail(q)) : Tail(q)[i] = Abort
<1> DEFINE r == Tail(q)
<1>1. q \in Seq(Frames)
  BY DEF Good, Shape
<1>2. /\ r \in Seq(Frames) /\ Len(q) \in Nat \ {0} /\ Len(r) = Len(q) - 1
      /\ \A i \in 1..Len(r) : r[i] = q[i + 1] /\ i + 1 \in 1..Len(q) /\ i \in 1..Len(q)
  BY <1>1, Taken
<1> HIDE DEF r
<1>3. \A i \in 1..Len(r) : r[i] # Abort => i = 1 /\ q[1] = Abort
  BY <1>2 DEF Good, Shape
<1>4. Shape(r, a, p)
  BY <1>2, <1>3 DEF Good, Shape
<1>5. X # {} => \A i \in 1..Len(r) : r[i] # Abort
  BY <1>2 DEF Good
<1>6. \A i \in 1..Len(r) : r[i] # Abort =>
         RequestOK(r[i], p) /\ \A x \in X : RequestOf(r[i], p, x)
  BY <1>2 DEF Good
<1> QED
  BY <1>3, <1>4, <1>5, <1>6 DEF Good, r

\* An answer is lost, or taken.
LEMMA AnswerTaken ==
  ASSUME NEW q, NEW a, NEW p, NEW d, NEW X, Good(q, a, p, d, X), a # <<>>
  PROVE  Good(q, Tail(a), p, d, X) /\ \A i \in 1..Len(Tail(a)) : Tail(a)[i] = Abort
<1> DEFINE r == Tail(a)
<1>1. a \in Seq(Frames)
  BY DEF Good, Shape
<1>2. /\ r \in Seq(Frames) /\ Len(a) \in Nat \ {0} /\ Len(r) = Len(a) - 1
      /\ \A i \in 1..Len(r) : r[i] = a[i + 1] /\ i + 1 \in 1..Len(a) /\ i \in 1..Len(a)
  BY <1>1, Taken
<1> HIDE DEF r
<1>3. \A i \in 1..Len(r) : r[i] = Abort /\ p.state = "RESET"
  BY <1>2 DEF Good, Shape
<1>4. \A i \in 1..Len(q) : q[i] # Abort /\ q[i].cs \in {"init_up", "init_down"} => r = <<>>
  BY <1>1, Taken DEF Good, Shape
<1>5. Shape(q, r, p)
  BY <1>2, <1>3, <1>4 DEF Good, Shape
<1> QED
  BY <1>3, <1>5 DEF Good, r

\* A server that has given up says so.
LEMMA AbortAnswered ==
  ASSUME NEW q, NEW a, NEW p, NEW d, NEW X, Good(q, a, p, d, X), p.state = "RESET",
         \A i \in 1..Len(q) : q[i] # Abort => q[i].cs \notin {"init_up", "init_down"}
  PROVE  Good(q, a \o <<Abort>>, p, d, X)
<1> DEFINE r == a \o <<Abort>>
<1>1. a \in Seq(Frames) /\ Len(a) \in Nat
  BY LenProperties DEF Good, Shape
<1>2. /\ r \in Seq(Frames) /\ Len(r) = Len(a) + 1
      /\ \A i \in 1..Len(a) : r[i] = a[i]
      /\ r[Len(a) + 1] = Abort
  BY <1>1, Appended, AbortFrame
<1> HIDE DEF r
<1>3. \A i \in 1..Len(r) : r[i] # Abort => i \in 1..Len(a) /\ r[i] = a[i]
  BY <1>1, <1>2
<1>4. Shape(q, r, p)
  BY <1>2, <1>3 DEF Good, Shape
<1>5. \A i \in 1..Len(r) : r[i] # Abort => \A x \in X : AnswerOf(r[i], p, d, x)
  BY <1>3 DEF Good
<1> QED
  BY <1>4, <1>5 DEF Good, r

\* A client that has given up, or never waited, says so.
LEMMA AbortSent ==
  ASSUME NEW q, NEW a, NEW p, NEW d, NEW X, Good(q, a, p, d, X)
  PROVE  Good(q \o <<Abort>>, a, p, d, {})
<1> DEFINE r == q \o <<Abort>>
<1>1. q \in Seq(Frames) /\ Len(q) \in Nat
  BY LenProperties DEF Good, Shape
<1>2. /\ r \in Seq(Frames) /\ Len(r) = Len(q) + 1
      /\ \A i \in 1..Len(q) : r[i] = q[i]
      /\ r[Len(q) + 1] = Abort
  BY <1>1, Appended, AbortFrame
<1> HIDE DEF r
<1>3. \A i \in 1..Len(r) : r[i] # Abort => i \in 1..Len(q) /\ r[i] = q[i]
  BY <1>1, <1>2
<1>4. \A i \in 1..Len(r) : r[i] # Abort => i = 1 \/ (i = 2 /\ r[1] = Abort)
  BY <1>1, <1>2, <1>3 DEF Good, Shape
<1>5. (\A j \in 1..Len(q) : q[j] = Abort) => \A j \in 1..Len(r) : r[j] = Abort
  BY <1>3
<1>6. Shape(r, a, p)
  BY <1>2, <1>3, <1>4, <1>5, SMTT(30) DEF Good, Shape
<1>7. \A i \in 1..Len(r) : r[i] # Abort => RequestOK(r[i], p)
  BY <1>3 DEF Good
<1> QED
  BY <1>6, <1>7 DEF Good, r

\* What a client that no longer waits leaves behind is sound without it.
LEMMA Closed ==
  ASSUME NEW q, NEW a, NEW p, NEW d, NEW X, Good(q, a, p, d, X), NEW Y, Y \subseteq X
  PROVE  Good(q, a, p, d, Y)
BY DEF Good

\* A server answers the request it has taken, with an abort or with a frame m.
LEMMA Answers ==
  ASSUME NEW q, NEW a, NEW p, NEW d, NEW X, Good(q, a, p, d, X), q # <<>>, q[1] # Abort,
         a = <<>>, NEW e, NEW c, PeerOK(e), DictOK(c), NEW m \in Frames,
         m.cs \in {"init_up_ok", "up_ok", "init_down_ok", "down_ok"},
         \A x \in X : AnswerOf(m, e, c, x)
  PROVE  Good(Tail(q), a \o <<m>>, e, c, X)
<1> DEFINE r == Tail(q)
<1>1. q \in Seq(Frames)
  BY DEF Good, Shape
<1>2. /\ r \in Seq(Frames) /\ Len(q) \in Nat \ {0} /\ Len(r) = Len(q) - 1
      /\ \A i \in 1..Len(r) : r[i] = q[i + 1] /\ i + 1 \in 1..Len(q) /\ i \in 1..Len(q)
  BY <1>1, Taken
<1>3. a \o <<m>> = <<m>> /\ <<m>> \in Seq(Frames) /\ Len(<<m>>) = 1 /\ <<m>>[1] = m
  OBVIOUS
<1> DEFINE b == a \o <<m>>
<1>4. b \in Seq(Frames) /\ Len(b) = 1 /\ b[1] = m /\ \A i \in 1..Len(b) : b[i] = m
  BY <1>3
<1>5. m # Abort
  BY AbortFrame
<1> HIDE DEF r, b
<1>6. \A i \in 1..Len(r) : r[i] = Abort
  BY <1>2 DEF Good, Shape
<1>7. Shape(r, b, e)
  BY <1>2, <1>4, <1>5, <1>6 DEF Shape
<1>8. X # {} => \A i \in 1..Len(r) : r[i] # Abort
  BY <1>2 DEF Good
<1>9. \A i \in 1..Len(b) : b[i] # Abort => \A x \in X : AnswerOf(b[i], e, c, x)
  BY <1>4
<1> QED
  BY <1>6, <1>7, <1>8, <1>9 DEF Good, r, b

\* A client goes on with the next request m, on the answer it has taken.
LEMMA GoesOn ==
  ASSUME NEW q, NEW a, NEW p, NEW d, NEW X, Good(q, a, p, d, X), X # {}, a # <<>>, a[1] # Abort,
         NEW m \in Frames, NEW Y, m.cs \in {"up", "down"},
         RequestOK(m, p), \A y \in Y : RequestOf(m, p, y)
  PROVE  Good(q \o <<m>>, Tail(a), p, d, Y)
<1> DEFINE b == Tail(a)  r == q \o <<m>>
<1>1. a \in Seq(Frames) /\ Len(a) \in Nat \ {0} /\ q \in Seq(Frames) /\ Len(q) \in Nat
  BY Taken, LenProperties DEF Good, Shape
<1>2. \A i \in 1..Len(q) : q[i] = Abort
  BY <1>1 DEF Good, Shape
<1>3. Len(q) = 0
  BY <1>1, <1>2 DEF Good
<1>4. q = <<>>
  BY <1>1, <1>3, Nothing
<1>5. r \in Seq(Frames) /\ Len(r) = 1 /\ \A i \in 1..Len(r) : i = 1 /\ r[i] = m
  BY <1>4
<1>6. Good(q, b, p, d, X) /\ \A i \in 1..Len(b) : b[i] = Abort
  BY AnswerTaken
<1>7. m # Abort
  BY AbortFrame
<1> HIDE DEF b, r
<1>8. Shape(r, b, p)
  BY <1>5, <1>6, <1>7 DEF Good, Shape
<1> QED
  BY <1>5, <1>6, <1>7, <1>8 DEF Good, b, r

\* The first frame of a transfer
Opens(r) ==
  IF r.kind = "UP" THEN Frame("init_up", r.obj, 0, FALSE, <<>>)
  ELSE Frame("init_down", r.obj, 0, Len(r.data) = 1,
             IF Len(r.data) = 1 THEN r.data ELSE <<>>)

LEMMA RequestData ==
  ASSUME NEW r \in Requests
  PROVE  /\ r.obj \in Objs /\ r.data \in Data /\ r # NoRequest
         /\ \/ r.kind = "UP" /\ r.data = <<>> /\ Len(r.data) = 0
            \/ r.kind = "DOWN" /\ r.data \in Wholes(r.obj) /\ Len(r.data) = Segs[r.obj]
<1>1. CASE r \in [kind : {"UP"}, obj : Objs, data : {<<>>}]
  <2>1. r.kind = "UP" /\ r.obj \in Objs /\ r.data = <<>>
    BY <1>1
  <2>2. <<>> \in Data /\ Len(<<>>) = 0
    BY EmptySeq DEF Data
  <2> QED
    BY <2>1, <2>2 DEF NoRequest
<1>2. CASE r \in UNION {[kind : {"DOWN"}, obj : {o}, data : Wholes(o)] : o \in Objs}
  <2>1. PICK o \in Objs : r \in [kind : {"DOWN"}, obj : {o}, data : Wholes(o)]
    BY <1>2
  <2>2. r.obj = o /\ r.kind = "DOWN" /\ r.data \in Wholes(o)
    BY <2>1
  <2>3. r.data \in Data /\ Len(r.data) = Segs[o]
    BY <2>2, WholeData
  <2> QED
    BY <2>2, <2>3 DEF NoRequest
<1> QED
  BY <1>1, <1>2 DEF Requests

LEMMA Opening ==
  ASSUME NEW s \in Servers, NEW r \in Requests
  PROVE  /\ LineOK(Opened(s, r)) /\ Record(Opened(s, r)) /\ Opened(s, r).srv = s
         /\ Opened(s, r).state \in {"UP", "DOWN"}
         /\ Opens(r) \in Frames /\ Opens(r).cs \in {"init_up", "init_down"}
         /\ \A p : RequestOK(Opens(r), p) /\ RequestOf(Opens(r), p, Opened(s, r))
<1> DEFINE x == Opened(s, r)  m == Opens(r)
<1>0. /\ r.obj \in Objs /\ r.data \in Data
      /\ \/ r.kind = "UP" /\ r.data = <<>> /\ Len(r.data) = 0
         \/ r.kind = "DOWN" /\ r.data \in Wholes(r.obj) /\ Len(r.data) = Segs[r.obj]
  BY RequestData
<1>1. /\ x.state = r.kind /\ x.srv = s /\ x.obj = r.obj /\ x.data = r.data
      /\ x.offset = (IF Len(r.data) = 1 THEN 1 ELSE 0) /\ x.toggle = 0 /\ x.owed = TRUE
      /\ DOMAIN x = DOMAIN Reset
  BY DEF Opened, Reset
<1> HIDE DEF x
<1>2. Record(x)
  <2>1. x.state \in {"RESET", "UP", "DOWN"} /\ x.toggle \in {0, 1} /\ x.offset \in Nat
    BY <1>0, <1>1
  <2>2. x.srv \in Servers \cup {None} /\ x.obj \in Objs \cup {None} /\ x.data \in Data
    BY <1>0, <1>1
  <2>3. x.owed \in BOOLEAN
    BY <1>1
  <2> QED
    BY <2>1, <2>2, <2>3, <1>1 DEF Record
<1>3. <<>> \in Data
  BY EmptySeq DEF Data
<1>4. CASE r.kind = "UP"
  <2>1. m = [cs |-> "init_up", obj |-> r.obj, toggle |-> 0, last |-> FALSE, data |-> <<>>]
    BY <1>4 DEF Opens, Frame
  <2>2. m \in Frames
    BY <2>1, <1>0, <1>3 DEF Frames
  <2> HIDE DEF m
  <2>3. \A p : RequestOK(m, p) /\ RequestOf(m, p, x)
    <3> TAKE p
    <3>1. m.cs = "init_up" /\ m.obj = r.obj
      BY <2>1
    <3>2. x.state = "UP" /\ x.obj = m.obj /\ x.data = <<>> /\ x.toggle = 0 /\ r.obj \in Objs
      BY <3>1, <1>0, <1>1, <1>4
    <3> QED
      BY <3>1, <3>2 DEF RequestOK, RequestOf
  <2>4. LineOK(x) /\ x.srv = s /\ x.state \in {"UP", "DOWN"}
    BY <1>0, <1>1, <1>2, <1>4 DEF LineOK
  <2>5. m.cs \in {"init_up", "init_down"}
    BY <2>1
  <2> QED BY <2>2, <2>3, <2>4, <2>5, <1>2 DEF x, m
<1>5. CASE r.kind = "DOWN"
  <2>0. r.data \in Wholes(r.obj) /\ Len(r.data) = Segs[r.obj] /\ Segs[r.obj] \in Nat \ {0}
    BY <1>0, <1>5
  <2>1. m = [cs |-> "init_down", obj |-> r.obj, toggle |-> 0, last |-> Len(r.data) = 1,
             data |-> IF Len(r.data) = 1 THEN r.data ELSE <<>>]
    BY <1>5 DEF Opens, Frame
  <2>2. m \in Frames
    BY <2>1, <1>0, <1>3 DEF Frames
  <2> HIDE DEF m
  <2>3. \A p : RequestOK(m, p) /\ RequestOf(m, p, x)
    <3> TAKE p
    <3>1. /\ m.cs = "init_down" /\ m.obj = r.obj /\ (m.last <=> Len(r.data) = 1)
          /\ m.last => m.data = r.data
      BY <2>1
    <3>2. x.state = "DOWN" /\ x.obj = m.obj /\ x.toggle = 0 /\ x.data = r.data
      BY <3>1, <1>0, <1>1, <1>5
    <3>3. RequestOK(m, p)
      BY <3>1, <2>0, <1>0 DEF RequestOK
    <3>4. IF m.last THEN m.data = x.data /\ x.offset = Len(x.data) ELSE x.offset = 0
      BY <3>1, <3>2, <1>1
    <3> QED
      BY <3>1, <3>2, <3>3, <3>4 DEF RequestOf
  <2>4. LineOK(x) /\ x.srv = s /\ x.state \in {"UP", "DOWN"}
    BY <2>0, <1>0, <1>1, <1>2, <1>5 DEF LineOK
  <2>5. m.cs \in {"init_up", "init_down"}
    BY <2>1
  <2> QED BY <2>2, <2>3, <2>4, <2>5, <1>2 DEF x, m
<1> QED
  BY <1>0, <1>4, <1>5

\* A client asks when nothing is under way, or with an abort before its request.
LEMMA Asks ==
  ASSUME NEW s \in Servers, NEW r \in Requests, NEW p, NEW d, PeerOK(p), DictOK(d)
  PROVE  /\ Good(<<Opens(r)>>, <<>>, p, d, {Opened(s, r)})
         /\ Good(<<Abort, Opens(r)>>, <<>>, p, d, {Opened(s, r)})
<1> DEFINE m == Opens(r)  x == Opened(s, r)  q1 == <<m>>  q2 == <<Abort, m>>  a == <<>>
<1>1. /\ m \in Frames /\ m.cs \in {"init_up", "init_down"} /\ m # Abort
      /\ RequestOK(m, p) /\ RequestOf(m, p, x)
  BY Opening, AbortFrame
<1>2. /\ q1 \in Seq(Frames) /\ Len(q1) = 1 /\ q1[1] = m
      /\ q2 \in Seq(Frames) /\ Len(q2) = 2 /\ q2[1] = Abort /\ q2[2] = m
      /\ a \in Seq(Frames) /\ Len(a) = 0 /\ a = <<>>
  BY <1>1, AbortFrame
<1> HIDE DEF m, x, q1, q2, a
<1>3. \A i \in 1..Len(q1) : i = 1 /\ q1[i] = m
  BY <1>2
<1>4. \A i \in 1..Len(q2) : (i = 1 /\ q2[i] = Abort) \/ (i = 2 /\ q2[i] = m)
  BY <1>2
<1>5. Shape(q1, a, p) /\ Shape(q2, a, p)
  BY <1>1, <1>2, <1>3, <1>4 DEF Shape
<1>6. Good(q1, a, p, d, {x})
  BY <1>1, <1>2, <1>3, <1>5 DEF Good
<1>7. Good(q2, a, p, d, {x})
  BY <1>1, <1>2, <1>4, <1>5 DEF Good
<1> QED
  BY <1>6, <1>7 DEF m, x, q1, q2, a

\* One more segment of a value, and the last one
LEMMA NextSegment ==
  ASSUME NEW v \in Data, NEW d \in Data, NEW n \in Nat, Prefix(d, v, n), n < Len(v)
  PROVE  LET e == d \o <<v[n + 1]>> IN
         /\ e \in Data /\ <<v[n + 1]>> \in Data /\ Len(e) = n + 1 /\ Prefix(e, v, n + 1)
         /\ n + 1 = Len(v) => e = v
<1> DEFINE e == d \o <<v[n + 1]>>
<1>1. v \in Seq(Segment) /\ d \in Seq(Segment) /\ Len(v) \in Nat /\ Len(d) = n
  BY LenProperties DEF Data, Prefix
<1>2. v[n + 1] \in Segment
  BY <1>1, ElementOfSeq
<1>3. <<v[n + 1]>> \in Seq(Segment) /\ Len(<<v[n + 1]>>) = 1 /\ <<v[n + 1]>>[1] = v[n + 1]
  BY <1>2
<1>4. /\ e \in Seq(Segment) /\ Len(e) = n + 1
      /\ \A i \in 1..n : e[i] = d[i]
      /\ e[n + 1] = v[n + 1]
  BY <1>1, <1>3, ConcatProperties, LenProperties
<1> HIDE DEF e
<1>5. Prefix(e, v, n + 1)
  BY <1>1, <1>4 DEF Prefix
<1>6. n + 1 = Len(v) => e = v
  BY <1>1, <1>4, <1>5, SeqEqual DEF Prefix
<1> QED
  BY <1>3, <1>4, <1>5, <1>6 DEF Data, e

\* The server answers: the rest of the system looks on.
LEMMA ServerStep ==
  ASSUME IInv, NEW s \in Servers, NEW p, NEW d, NEW ms, Serve(s, p, d, ms),
         Good(Tail(req[s]), rsp[s] \o ms, p, d, Mine(lines, s))
  PROVE  IInv'
<1>1. /\ req' = [req EXCEPT ![s] = Tail(@)] /\ rsp' = [rsp EXCEPT ![s] = @ \o ms]
      /\ peer' = [peer EXCEPT ![s] = p] /\ dict' = [dict EXCEPT ![s] = d]
      /\ lines' = lines /\ res' = res /\ rung' = rung
  BY DEF Serve
<1>2. TableOK(lines)' /\ RungOK(lines, rung)'
  BY <1>1 DEF IInv
<1>3. /\ (DOMAIN req)' = Servers /\ (DOMAIN rsp)' = Servers /\ (DOMAIN peer)' = Servers
      /\ (DOMAIN dict)' = Servers /\ (DOMAIN res)' = Servers
  BY <1>1 DEF IInv
<1>4. ASSUME NEW u \in Servers
      PROVE  Good(req[u], rsp[u], peer[u], dict[u], Mine(lines, u))' /\ ResOK(res[u])'
  <2>1. Mine(lines, u)' = Mine(lines, u)
    BY <1>1
  <2>2. ResOK(res[u])'
    BY <1>1 DEF IInv
  <2>3. CASE u = s
    BY <1>1, <2>1, <2>2, <2>3 DEF IInv
  <2>4. CASE u # s
    <3>1. req'[u] = req[u] /\ rsp'[u] = rsp[u] /\ peer'[u] = peer[u] /\ dict'[u] = dict[u]
      BY <1>1, <2>4 DEF IInv
    <3> QED
      BY <2>1, <2>2, <3>1 DEF IInv
  <2> QED
    BY <2>3, <2>4
<1> QED
  BY <1>2, <1>3, <1>4 DEF IInv

-----------------------------------------------------------------------------
(* The server's steps *)

\* What the server knows of the request it takes.
LEMMA Taking ==
  ASSUME IInv, NEW s \in Servers, req[s] # <<>>, Head(req[s]).cs # "abort"
  PROVE  LET m == Head(req[s])  p == peer[s] IN
         /\ Good(req[s], rsp[s], p, dict[s], Mine(lines, s))
         /\ m = req[s][1] /\ m # Abort /\ m \in Frames
         /\ RequestOK(m, p) /\ \A x \in Mine(lines, s) : RequestOf(m, p, x)
         /\ m.cs \in {"init_up", "init_down"} \/ p.state # "RESET" => rsp[s] = <<>>
<1> DEFINE q == req[s]  a == rsp[s]  p == peer[s]  d == dict[s]  X == Mine(lines, s)
<1>1. Good(q, a, p, d, X)
  BY DEF IInv
<1>2. q \in Seq(Frames) /\ a \in Seq(Frames) /\ Len(a) \in Nat
  BY <1>1, LenProperties DEF Good, Shape
<1>3. Head(q) = q[1] /\ 1 \in 1..Len(q) /\ q[1] \in Frames
  BY <1>2, Taken, ElementOfSeq
<1>4. q[1] # Abort
  BY <1>3, AbortFrame
<1>5. RequestOK(q[1], p) /\ \A x \in X : RequestOf(q[1], p, x)
  BY <1>1, <1>3, <1>4 DEF Good
<1>6. q[1].cs \in {"init_up", "init_down"} => a = <<>>
  BY <1>1, <1>3, <1>4 DEF Good, Shape
<1>7. a # <<>> => p.state = "RESET"
  <2>1. SUFFICES ASSUME a # <<>> PROVE p.state = "RESET"
    OBVIOUS
  <2>2. 1 \in 1..Len(a)
    BY <1>2, <2>1, Taken
  <2> QED
    BY <1>1, <1>3, <1>4, <2>2 DEF Good, Shape
<1> QED
  BY <1>1, <1>3, <1>4, <1>5, <1>6, <1>7

\* The lines of its client have data.
LEMMA LinesData ==
  ASSUME IInv, NEW s
  PROVE  \A x \in Mine(lines, s) : Record(x) /\ LineOK(x) /\ x.data \in Data
<1>1. \A l \in Lines : ~Out(lines[l]) => LineOK(lines[l])
  BY DEF IInv, TableOK, Stopped
<1>2. \A x \in Mine(lines, s) : LineOK(x)
  BY <1>1 DEF Mine
<1>3. ASSUME NEW x, LineOK(x) PROVE Record(x)
  BY <1>3, ResetOK DEF LineOK
<1> QED
  BY <1>2, <1>3 DEF Record

LEMMA FailsStep ==
  ASSUME IInv, NEW s \in Servers, Fails(s)
  PROVE  IInv'
<1> DEFINE m == Head(req[s])
<1>1. req[s] # <<>> /\ m.cs \in {"init_up", "init_down", "up", "down"}
      /\ Serve(s, Reset, dict[s], <<Abort>>)
  BY DEF Fails
<1>2. m = req[s][1] /\ m # Abort /\ Good(req[s], rsp[s], peer[s], dict[s], Mine(lines, s))
  BY <1>1, Taking
<1>3. /\ Good(Tail(req[s]), rsp[s], peer[s], dict[s], Mine(lines, s))
      /\ \A i \in 1..Len(Tail(req[s])) : Tail(req[s])[i] = Abort
  BY <1>1, <1>2, RequestTaken
<1>4. Good(Tail(req[s]), rsp[s], Reset, dict[s], Mine(lines, s))
  BY <1>3, PeerReset
<1>5. Good(Tail(req[s]), rsp[s] \o <<Abort>>, Reset, dict[s], Mine(lines, s))
  BY <1>3, <1>4, AbortAnswered, ResetOK
<1> QED
  BY <1>1, <1>5, ServerStep

LEMMA ServeAbortStep ==
  ASSUME IInv, NEW s \in Servers, ServeAbort(s)
  PROVE  IInv'
<1>1. req[s] # <<>> /\ Serve(s, Reset, dict[s], <<>>)
  BY DEF ServeAbort, Asked
<1>2. Good(req[s], rsp[s], peer[s], dict[s], Mine(lines, s))
  BY DEF IInv
<1>3. Good(Tail(req[s]), rsp[s], peer[s], dict[s], Mine(lines, s))
  BY <1>1, <1>2, RequestTaken
<1>4. Good(Tail(req[s]), rsp[s], Reset, dict[s], Mine(lines, s))
  BY <1>3, PeerReset
<1>5. rsp[s] \o <<>> = rsp[s]
  BY <1>2, Nothing DEF Good, Shape
<1> QED
  BY <1>1, <1>4, <1>5, ServerStep

LEMMA ServerTimeoutStep ==
  ASSUME IInv, NEW s \in Servers, ServerTimeout(s), ~Late
  PROVE  IInv'
<1>1. /\ req[s] = <<>> /\ peer' = [peer EXCEPT ![s] = Reset]
      /\ rsp' = [rsp EXCEPT ![s] = @ \o <<Abort>>]
      /\ lines' = lines /\ dict' = dict /\ req' = req /\ res' = res /\ rung' = rung
  BY DEF ServerTimeout
<1>2. Good(req[s], rsp[s], Reset, dict[s], Mine(lines, s))
  BY PeerReset DEF IInv
<1>3. Good(req[s], rsp[s] \o <<Abort>>, Reset, dict[s], Mine(lines, s))
  BY <1>1, <1>2, AbortAnswered, ResetOK
<1>4. /\ TableOK(lines)' /\ RungOK(lines, rung)'
      /\ \A u \in Servers : Mine(lines, u)' = Mine(lines, u)
  BY <1>1 DEF IInv
<1>5. ASSUME NEW u \in Servers
      PROVE  Good(req[u], rsp[u], peer[u], dict[u], Mine(lines, u))' /\ ResOK(res[u])'
  <2>1. CASE u = s
    BY <1>1, <1>3, <1>4, <2>1 DEF IInv
  <2>2. CASE u # s
    BY <1>1, <1>4, <2>2 DEF IInv
  <2> QED
    BY <2>1, <2>2
<1> QED
  BY <1>1, <1>4, <1>5 DEF IInv

\* Records are made of their fields.
LEMMA RecordParts ==
  ASSUME NEW x, DOMAIN x = DOMAIN Reset, x.state \in {"RESET", "UP", "DOWN"},
         x.srv \in Servers \cup {None}, x.obj \in Objs \cup {None}, x.data \in Data,
         x.offset \in Nat, x.toggle \in {0, 1}, x.owed \in BOOLEAN
  PROVE  Record(x)
BY DEF Record

LEMMA ServeReadStep ==
  ASSUME IInv, NEW s \in Servers, ServeRead(s)
  PROVE  IInv'
<1> DEFINE m == Head(req[s])  d == dict[s]  v == d[m.obj]  X == Mine(lines, s)
           p == [Reset EXCEPT !.state = "UP", !.obj = m.obj, !.data = v]
           a1 == Frame("init_up_ok", m.obj, 0, TRUE, v)
           a2 == Frame("init_up_ok", m.obj, 0, FALSE, <<>>)
<1>1. /\ req[s] # <<>> /\ m.cs = "init_up"
      /\ IF Len(v) = 1 THEN Serve(s, Reset, d, <<a1>>) ELSE Serve(s, p, d, <<a2>>)
  BY DEF ServeRead, Asked
<1>2. /\ Good(req[s], rsp[s], peer[s], d, X) /\ m = req[s][1] /\ m # Abort
      /\ RequestOK(m, peer[s]) /\ \A x \in X : RequestOf(m, peer[s], x)
      /\ rsp[s] = <<>>
  BY <1>1, Taking
<1>3. DictOK(d) /\ m.obj \in Objs
  BY <1>1, <1>2 DEF Good, RequestOK
<1>4. v \in Wholes(m.obj) /\ v \in Data /\ Len(v) \in Nat \ {0}
  BY <1>3, WholeData DEF DictOK
<1>5. \A x \in X : x.state = "UP" /\ x.obj = m.obj /\ x.data = <<>> /\ x.toggle = 0
  BY <1>1, <1>2 DEF RequestOf
<1>6. CASE Len(v) = 1
  <2> HIDE DEF v
  <2>1. a1 \in Frames /\ a1.cs = "init_up_ok" /\ a1.last = TRUE /\ a1.data = v
    BY <1>3, <1>4 DEF Frame, Frames
  <2> HIDE DEF a1
  <2>2. \A x \in X : AnswerOf(a1, Reset, d, x)
    BY <1>4, <1>5, <2>1 DEF AnswerOf
  <2>3. Good(Tail(req[s]), rsp[s] \o <<a1>>, Reset, d, X)
    BY <1>1, <1>2, <1>3, <2>1, <2>2, Answers, ResetOK
  <2> QED
    BY <1>1, <1>6, <2>3, ServerStep
<1>7. CASE Len(v) # 1
  <2>1. <<>> \in Data
    BY EmptySeq DEF Data
  <2>2. a2 \in Frames /\ a2.cs = "init_up_ok" /\ a2.last = FALSE /\ a2.data = <<>>
    BY <1>3, <2>1 DEF Frame, Frames
  <2>3. /\ DOMAIN p = DOMAIN Reset /\ p.state = "UP" /\ p.srv = None /\ p.obj = m.obj
        /\ p.data = v /\ p.offset = 0 /\ p.toggle = 0 /\ p.owed = FALSE
    BY DEF Reset
  <2> HIDE DEF p, a2, v
  <2>4. Record(p)
    <3>1. p.owed \in BOOLEAN
      BY <2>3
    <3>2. p.srv \in Servers \cup {None} /\ p.obj \in Objs \cup {None} /\ p.data \in Data
      BY <1>3, <1>4, <2>3
    <3>3. p.state \in {"RESET", "UP", "DOWN"} /\ p.offset \in Nat /\ p.toggle \in {0, 1}
      BY <2>3
    <3> QED
      BY <2>3, <3>1, <3>2, <3>3, RecordParts
  <2>5. PeerOK(p)
    BY <1>3, <1>4, <2>3, <2>4 DEF PeerOK
  <2>6. \A x \in X : AnswerOf(a2, p, d, x)
    BY <1>5, <2>2, <2>3 DEF AnswerOf
  <2>7. Good(Tail(req[s]), rsp[s] \o <<a2>>, p, d, X)
    BY <1>1, <1>2, <1>3, <2>2, <2>5, <2>6, Answers
  <2> QED
    BY <1>1, <1>7, <2>7, ServerStep
<1> QED
  BY <1>6, <1>7

LEMMA ServeSegmentStep ==
  ASSUME IInv, NEW s \in Servers, ServeSegment(s)
  PROVE  IInv'
<1> DEFINE m == Head(req[s])  d == dict[s]  p == peer[s]  X == Mine(lines, s)
           k == p.offset + 1  last == k = Len(p.data)
           e == [p EXCEPT !.offset = k, !.toggle = 1 - @]
           b == Frame("up_ok", None, m.toggle, last, <<p.data[k]>>)
<1>1. /\ req[s] # <<>> /\ m.cs = "up" /\ p.state = "UP" /\ p.toggle = m.toggle
      /\ Serve(s, IF last THEN Reset ELSE e, d, <<b>>)
  BY DEF ServeSegment, Asked
<1>2. /\ Good(req[s], rsp[s], p, d, X) /\ m = req[s][1] /\ m # Abort
      /\ \A x \in X : RequestOf(m, p, x)
      /\ rsp[s] = <<>>
  BY <1>1, Taking
<1>3. PeerOK(p) /\ DictOK(d)
  BY <1>2 DEF Good
<1>4. /\ Record(p) /\ p.obj \in Objs /\ p.data \in Wholes(p.obj) /\ p.offset < Len(p.data)
      /\ p.offset \in Nat /\ p.toggle \in {0, 1} /\ p.data \in Data /\ Len(p.data) \in Nat
  BY <1>1, <1>3, WholeData DEF PeerOK, Record
<1>5. \A x \in X : /\ x.state = "UP" /\ x.toggle = m.toggle /\ p.obj = x.obj
                   /\ Prefix(x.data, p.data, p.offset)
  BY <1>1, <1>2 DEF RequestOf
<1>6. p.data[k] \in Segment
  BY <1>4, ElementOfSeq DEF Data
<1>7. b \in Frames /\ b.cs = "up_ok" /\ b.toggle = m.toggle /\ b.last = last
      /\ b.data = <<p.data[k]>>
  <2>1. <<p.data[k]>> \in Data
    BY <1>6 DEF Data
  <2> HIDE DEF last
  <2>2. last \in BOOLEAN
    BY DEF last
  <2> QED
    BY <1>1, <1>4, <2>1, <2>2 DEF Frame, Frames
<1>8. \A x \in X : x.data \in Data
  BY LinesData
<1>9. \A x \in X : /\ Prefix(x.data \o b.data, p.data, k)
                   /\ last => x.data \o b.data = p.data
  <2> TAKE x \in X
  <2>1. x.data \in Data /\ Prefix(x.data, p.data, p.offset)
    BY <1>5, <1>8
  <2> DEFINE w == x.data \o <<p.data[k]>>
  <2>2. Prefix(w, p.data, k) /\ (k = Len(p.data) => w = p.data)
    BY <1>4, <2>1, NextSegment
  <2> QED
    BY <1>7, <2>2
<1> HIDE DEF b
<1>10. CASE last
  <2>1. \A x \in X : AnswerOf(b, Reset, d, x)
    BY <1>4, <1>5, <1>7, <1>9, <1>10 DEF AnswerOf
  <2>2. Good(Tail(req[s]), rsp[s] \o <<b>>, Reset, d, X)
    BY <1>1, <1>2, <1>3, <1>7, <2>1, Answers, ResetOK
  <2> QED
    BY <1>1, <1>10, <2>2, ServerStep
<1>11. CASE ~last
  <2>1. /\ DOMAIN e = DOMAIN p /\ e.state = "UP" /\ e.srv = p.srv /\ e.obj = p.obj
        /\ e.data = p.data /\ e.offset = k /\ e.toggle = 1 - p.toggle /\ e.owed = p.owed
    BY <1>1, <1>4 DEF Record, Reset
  <2> HIDE DEF e
  <2>2. Record(e)
    BY <1>4, <2>1 DEF Record
  <2>3. PeerOK(e)
    BY <1>4, <1>11, <2>1, <2>2 DEF PeerOK
  <2>4. \A x \in X : AnswerOf(b, e, d, x)
    BY <1>1, <1>5, <1>7, <1>9, <1>11, <2>1 DEF AnswerOf
  <2>5. Good(Tail(req[s]), rsp[s] \o <<b>>, e, d, X)
    BY <1>1, <1>2, <1>3, <1>7, <2>3, <2>4, Answers
  <2> QED
    BY <1>1, <1>11, <2>5, ServerStep
<1> QED
  BY <1>10, <1>11

LEMMA ServeWriteStep ==
  ASSUME IInv, NEW s \in Servers, ServeWrite(s)
  PROVE  IInv'
<1> DEFINE m == Head(req[s])  d == dict[s]  X == Mine(lines, s)
           c == [d EXCEPT ![m.obj] = m.data]
           e == [Reset EXCEPT !.state = "DOWN", !.obj = m.obj]
           b == Frame("init_down_ok", m.obj, 0, FALSE, <<>>)
<1>1. /\ req[s] # <<>> /\ m.cs = "init_down"
      /\ IF m.last THEN Serve(s, Reset, c, <<b>>) ELSE Serve(s, e, d, <<b>>)
  BY DEF ServeWrite, Asked
<1>2. /\ Good(req[s], rsp[s], peer[s], d, X) /\ m = req[s][1] /\ m # Abort
      /\ RequestOK(m, peer[s]) /\ \A x \in X : RequestOf(m, peer[s], x)
      /\ rsp[s] = <<>>
  BY <1>1, Taking
<1>3. /\ DictOK(d) /\ m.obj \in Objs
      /\ IF m.last THEN m.data \in Wholes(m.obj) ELSE Segs[m.obj] > 1
  BY <1>1, <1>2 DEF Good, RequestOK
<1>4. \A x \in X : /\ x.state = "DOWN" /\ x.obj = m.obj /\ x.toggle = 0
                   /\ IF m.last THEN m.data = x.data /\ x.offset = Len(x.data)
                                ELSE x.offset = 0
  BY <1>1, <1>2 DEF RequestOf
<1>5. <<>> \in Data /\ Len(<<>>) = 0
  BY EmptySeq DEF Data
<1>6. b \in Frames /\ b.cs = "init_down_ok"
  BY <1>3, <1>5 DEF Frame, Frames
<1> HIDE DEF b
<1>7. CASE m.last
  <2>1. DictOK(c) /\ c[m.obj] = m.data
    BY <1>3, <1>7 DEF DictOK
  <2> HIDE DEF c
  <2>2. \A x \in X : AnswerOf(b, Reset, c, x)
    BY <1>4, <1>6, <1>7, <2>1, ResetOK DEF AnswerOf
  <2>3. Good(Tail(req[s]), rsp[s] \o <<b>>, Reset, c, X)
    BY <1>1, <1>2, <1>6, <2>1, <2>2, Answers, ResetOK
  <2> QED
    BY <1>1, <1>7, <2>3, ServerStep
<1>8. CASE ~m.last
  <2>1. /\ DOMAIN e = DOMAIN Reset /\ e.state = "DOWN" /\ e.srv = None /\ e.obj = m.obj
        /\ e.data = <<>> /\ e.offset = 0 /\ e.toggle = 0 /\ e.owed = FALSE
    BY DEF Reset
  <2> HIDE DEF e
  <2>2. Record(e)
    <3>1. e.owed \in BOOLEAN
      BY <2>1
    <3>2. e.srv \in Servers \cup {None} /\ e.obj \in Objs \cup {None} /\ e.data \in Data
      BY <1>3, <1>5, <2>1
    <3>3. e.state \in {"RESET", "UP", "DOWN"} /\ e.offset \in Nat /\ e.toggle \in {0, 1}
      BY <2>1
    <3> QED
      BY <2>1, <3>1, <3>2, <3>3, RecordParts
  <2>3. PeerOK(e)
    BY <1>3, <1>5, <1>8, <2>1, <2>2 DEF PeerOK
  <2>4. \A x \in X : Len(x.data) # 0
    <3> TAKE x \in X
    <3>1. x.data \in Wholes(x.obj) /\ x.obj \in Objs
      BY <1>4, LinesData, ResetOK DEF LineOK
    <3> QED
      BY <3>1, WholeData
  <2>5. \A x \in X : AnswerOf(b, e, d, x)
    BY <1>4, <1>6, <1>8, <2>1, <2>4 DEF AnswerOf
  <2>6. Good(Tail(req[s]), rsp[s] \o <<b>>, e, d, X)
    BY <1>1, <1>2, <1>3, <1>6, <2>3, <2>5, Answers
  <2> QED
    BY <1>1, <1>8, <2>6, ServerStep
<1> QED
  BY <1>7, <1>8

LEMMA ServeStoreStep ==
  ASSUME IInv, NEW s \in Servers, ServeStore(s)
  PROVE  IInv'
<1> DEFINE m == Head(req[s])  d == dict[s]  p == peer[s]  X == Mine(lines, s)
           v == p.data \o m.data
           c == [d EXCEPT ![p.obj] = v]
           e == [p EXCEPT !.data = v, !.toggle = 1 - @]
           b == Frame("down_ok", None, m.toggle, FALSE, <<>>)
<1>1. /\ req[s] # <<>> /\ m.cs = "down" /\ p.state = "DOWN" /\ p.toggle = m.toggle
      /\ Serve(s, IF m.last THEN Reset ELSE e, IF m.last THEN c ELSE d, <<b>>)
  BY DEF ServeStore, Asked
<1>2. /\ Good(req[s], rsp[s], p, d, X) /\ m = req[s][1] /\ m # Abort
      /\ RequestOK(m, p) /\ \A x \in X : RequestOf(m, p, x)
      /\ rsp[s] = <<>>
  BY <1>1, Taking
<1>3. /\ PeerOK(p) /\ DictOK(d) /\ Record(p) /\ p.obj \in Objs /\ p.data \in Data
      /\ p.toggle \in {0, 1}
  BY <1>1, <1>2 DEF Good, PeerOK, Record
<1> DEFINE n == Len(p.data)
<1>4. n \in Nat
  BY <1>3, LenProperties DEF Data
\* the value that is being written
<1>5. PICK w \in Wholes(p.obj) :
        /\ Prefix(p.data, w, n) /\ n < Len(w) /\ m.data = <<w[n + 1]>>
        /\ m.last <=> n + 1 = Len(w)
  BY <1>1, <1>2 DEF RequestOK
<1>6. w \in Data /\ Len(w) = Segs[p.obj]
  BY <1>3, <1>5, WholeData
<1>7. v \in Data /\ Len(v) = n + 1 /\ (n + 1 = Len(w) => v = w)
  <2> DEFINE z == p.data \o <<w[n + 1]>>
  <2>1. z \in Data /\ Len(z) = n + 1 /\ (n + 1 = Len(w) => z = w)
    BY <1>3, <1>4, <1>5, <1>6, NextSegment
  <2>2. z = v
    BY <1>5
  <2> QED
    BY <2>1, <2>2
\* ... and what the client, if it still waits, is writing
<1>8. \A x \in X : /\ x.state = "DOWN" /\ x.toggle = m.toggle /\ p.obj = x.obj
                   /\ x.offset = n + 1 /\ Prefix(v, x.data, n + 1)
                   /\ m.last <=> n + 1 = Len(x.data)
                   /\ m.last => v = x.data
  <2> TAKE x \in X
  <2>1. x.data \in Data /\ x.offset \in Nat
    BY LinesData DEF Record
  <2>2. /\ x.state = "DOWN" /\ x.toggle = m.toggle /\ p.obj = x.obj /\ x.offset > 0
        /\ m.data = <<x.data[x.offset]>> /\ (m.last <=> x.offset = Len(x.data))
        /\ Prefix(p.data, x.data, x.offset - 1)
    BY <1>1, <1>2 DEF RequestOf
  <2>3. n = x.offset - 1 /\ n <= Len(x.data) /\ Len(x.data) \in Nat
    BY <2>1, <2>2, LenProperties DEF Prefix, Data
  <2>4. n < Len(x.data)
    <3>1. x.data \in Wholes(x.obj) /\ x.obj \in Objs /\ x.offset <= Len(x.data)
      BY <2>2, LinesData, ResetOK DEF LineOK
    <3> QED
      BY <2>1, <2>2, <2>3, <3>1
  <2>5. x.offset = n + 1
    BY <2>1, <2>3
  <2> DEFINE z == p.data \o <<x.data[n + 1]>>
  <2>6. Prefix(z, x.data, n + 1) /\ (n + 1 = Len(x.data) => z = x.data)
    <3>1. Prefix(p.data, x.data, n)
      BY <2>2, <2>3
    <3> QED
      BY <1>3, <1>4, <2>1, <2>4, <3>1, NextSegment
  <2>7. z = v
    BY <2>2, <2>5
  <2> QED
    BY <2>2, <2>5, <2>6, <2>7
<1>9. b \in Frames /\ b.cs = "down_ok" /\ b.toggle = m.toggle
  BY <1>1, <1>3, EmptySeq DEF Frame, Frames, Data
<1> HIDE DEF b, v, n
<1>10. CASE m.last
  <2>1. DictOK(c) /\ c[p.obj] = v
    BY <1>3, <1>5, <1>7, <1>10 DEF DictOK
  <2> HIDE DEF c
  <2>2. \A x \in X : AnswerOf(b, Reset, c, x)
    BY <1>8, <1>9, <1>10, <2>1, ResetOK DEF AnswerOf
  <2>3. Good(Tail(req[s]), rsp[s] \o <<b>>, Reset, c, X)
    BY <1>1, <1>2, <1>9, <2>1, <2>2, Answers, ResetOK
  <2> QED
    BY <1>1, <1>10, <2>3, ServerStep
<1>11. CASE ~m.last
  <2>1. /\ DOMAIN e = DOMAIN p /\ e.state = "DOWN" /\ e.srv = p.srv /\ e.obj = p.obj
        /\ e.data = v /\ e.offset = p.offset /\ e.toggle = 1 - p.toggle /\ e.owed = p.owed
    BY <1>1, <1>3 DEF Record, Reset
  <2> HIDE DEF e
  <2>2. Record(e)
    BY <1>3, <1>7, <2>1 DEF Record
  <2>3. Len(v) < Segs[p.obj]
    BY <1>4, <1>5, <1>6, <1>7, <1>11
  <2>4. PeerOK(e)
    BY <1>3, <2>1, <2>2, <2>3 DEF PeerOK
  <2>5. \A x \in X : AnswerOf(b, e, d, x)
    BY <1>1, <1>8, <1>9, <1>11, <2>1 DEF AnswerOf
  <2>6. Good(Tail(req[s]), rsp[s] \o <<b>>, e, d, X)
    BY <1>1, <1>2, <1>3, <1>9, <2>4, <2>5, Answers
  <2> QED
    BY <1>1, <1>11, <2>6, ServerStep
<1> QED
  BY <1>10, <1>11

-----------------------------------------------------------------------------
(* The lines: what the program finds, and what closing and opening leave *)

LEMMA FirstOne == ASSUME NEW l \in Lines PROVE First({l}) = l
BY FirstIn

LEMMA LineNumbers == \A l \in Lines : l # NoLine
BY DEF Lines, NoLine

\* A line that a module uses is in progress.
LEMMA LineStates ==
  ASSUME NEW t, TableOK(t), NEW l \in Lines
  PROVE  \/ t[l] = Reset /\ t[l].state = "RESET" /\ t[l].srv = None /\ ~Out(t[l])
         \/ /\ t[l].state \in {"UP", "DOWN"} /\ t[l].srv \in Servers /\ ~Out(t[l])
            /\ Record(t[l]) /\ LineOK(t[l])
         \/ Stopped(t[l]) /\ Out(t[l]) /\ t[l].srv \in Servers
BY ResetOK DEF TableOK, LineOK, Record, Stopped, Out

\* A module uses no line, or one, which is what the program finds.
LEMMA Uses ==
  ASSUME NEW t, TableOK(t), NEW s \in Servers
  PROVE  \/ Mine(t, s) = {} /\ OnUse(t, s) = NoLine
         \/ \E l \in Lines : /\ OnUse(t, s) = l /\ t[l].srv = s
                             /\ t[l].state \in {"UP", "DOWN"} /\ LineOK(t[l])
                             /\ Record(t[l]) /\ Mine(t, s) = {t[l]}
<1> DEFINE S == {k \in Lines : t[k].srv = s /\ ~Out(t[k])}
<1>1. \A k \in S : t[k].state \in {"UP", "DOWN"} /\ Record(t[k]) /\ LineOK(t[k])
  BY LineStates
<1>2. {k \in Lines : t[k].srv = s /\ t[k].state \notin {"RESET", "ABORTED_INTERNAL"}} = S
  BY <1>1 DEF Out
<1>3. OnUse(t, s) = First(S)
  BY <1>2 DEF OnUse
<1>4. CASE S = {}
  BY <1>3, <1>4, FirstNone DEF Mine
<1>5. CASE S # {}
  <2>1. PICK l \in S : TRUE
    BY <1>5
  <2>2. \A k \in S : k = l
    BY <2>1 DEF TableOK
  <2>3. S = {l}
    BY <2>1, <2>2
  <2>4. First(S) = l
    BY <2>1, <2>3, FirstOne
  <2>5. Mine(t, s) = {t[l]}
    BY <2>3 DEF Mine
  <2> QED
    BY <1>1, <1>3, <2>1, <2>4, <2>5
<1> QED
  BY <1>4, <1>5

\* What a module closes is one of its lines, in use or not.
LEMMA Closes ==
  ASSUME NEW t, NEW s \in Servers
  PROVE  \/ ToClose(t, s) = NoLine
         \/ ToClose(t, s) \in Lines /\ t[ToClose(t, s)].srv = s
<1> DEFINE S == {l \in Lines : t[l].srv = s /\ t[l].state # "RESET"}
<1>1. ToClose(t, s) = First(S)
  BY DEF ToClose
<1>2. CASE S = {}
  BY <1>1, <1>2, FirstNone
<1>3. CASE S # {}
  <2>1. First(S) \in S
    BY <1>3, FirstIn
  <2> QED
    BY <1>1, <2>1
<1> QED
  BY <1>2, <1>3

\* Line l of the table t becomes x.
Put(t, l, x) == [t EXCEPT ![l] = x]

\* The table f is t with some of its lines freed.
Thinner(f, t) == DOMAIN f = Lines /\ \A l \in Lines : f[l] = t[l] \/ f[l] = Reset

LEMMA Thinned ==
  ASSUME NEW t, TableOK(t), NEW f, Thinner(f, t)
  PROVE  TableOK(f) /\ \A u \in Servers : Mine(f, u) \subseteq Mine(t, u)
<1>1. TableOK(f)
  BY ResetOK DEF Thinner, TableOK, LineOK
<1>2. ASSUME NEW u \in Servers PROVE Mine(f, u) \subseteq Mine(t, u)
  <2>1. \A k \in Lines : f[k].srv = u => f[k] = t[k]
    BY ResetOK DEF Thinner
  <2> QED
    BY <2>1 DEF Mine
<1> QED
  BY <1>1, <1>2

\* Line l is freed.
LEMMA Freed ==
  ASSUME NEW t, TableOK(t), NEW s \in Servers, NEW l \in Lines, t[l].srv = s, ~Out(t[l])
  PROVE  /\ TableOK(Put(t, l, Reset)) /\ Mine(Put(t, l, Reset), s) = {}
         /\ \A u \in Servers : Mine(Put(t, l, Reset), u) \subseteq Mine(t, u)
<1> DEFINE shut == Put(t, l, Reset)
<1>1. /\ DOMAIN shut = Lines /\ shut[l] = Reset
      /\ \A k \in Lines \ {l} : shut[k] = t[k] /\ (t[k].srv # s \/ Out(t[k]))
  BY DEF TableOK, Put
<1> HIDE DEF shut
<1>2. Thinner(shut, t)
  BY <1>1 DEF Thinner
<1>3. \A k \in Lines : shut[k].srv # s \/ Out(shut[k])
  BY <1>1, ResetOK
<1>4. Mine(shut, s) = {}
  BY <1>3 DEF Mine
<1> QED
  BY <1>2, <1>4, Thinned DEF shut

\* Line l goes on with its transfer, as x.
LEMMA Moved ==
  ASSUME NEW t, TableOK(t), NEW s \in Servers, NEW l \in Lines, t[l].srv = s, ~Out(t[l]),
         NEW x, LineOK(x), x.srv = s
  PROVE  /\ TableOK(Put(t, l, x)) /\ Mine(Put(t, l, x), s) = {x}
         /\ \A u \in Servers \ {s} : Mine(Put(t, l, x), u) \subseteq Mine(t, u)
<1> DEFINE o == Put(t, l, x)
<1>0. ~Out(x)
  BY ResetOK DEF LineOK, Record, Out
<1>1. /\ DOMAIN o = Lines /\ o[l] = x
      /\ \A k \in Lines \ {l} : o[k] = t[k] /\ (t[k].srv # s \/ Out(t[k]))
  BY DEF TableOK, Put
<1> HIDE DEF o
<1>2. TableOK(o)
  BY <1>1 DEF TableOK
<1>3. Mine(o, s) = {x}
  <2>1. {k \in Lines : o[k].srv = s /\ ~Out(o[k])} = {l}
    BY <1>0, <1>1
  <2> QED
    BY <1>1, <2>1 DEF Mine
<1>4. ASSUME NEW u \in Servers \ {s} PROVE Mine(o, u) \subseteq Mine(t, u)
  <2>1. \A k \in Lines : o[k].srv = u => o[k] = t[k]
    BY <1>1
  <2> QED
    BY <2>1 DEF Mine
<1> QED
  BY <1>2, <1>3, <1>4 DEF o

\* A free line f gets x, a transfer of a module that has none.
LEMMA Filled ==
  ASSUME NEW t, TableOK(t), NEW s \in Servers, Mine(t, s) = {},
         NEW f \in Lines, t[f].state = "RESET", NEW x, LineOK(x), x.srv = s
  PROVE  /\ TableOK(Put(t, f, x)) /\ Mine(Put(t, f, x), s) = {x}
         /\ \A u \in Servers \ {s} : Mine(Put(t, f, x), u) \subseteq Mine(t, u)
<1> DEFINE o == Put(t, f, x)
<1>0. ~Out(x)
  BY ResetOK DEF LineOK, Record, Out
<1>1. \A k \in Lines : t[k].srv # s \/ Out(t[k])
  BY DEF Mine
<1>2. DOMAIN o = Lines /\ o[f] = x /\ \A k \in Lines \ {f} : o[k] = t[k]
  BY DEF TableOK, Put
<1> HIDE DEF o
<1>3. TableOK(o)
  BY <1>1, <1>2 DEF TableOK
<1>4. Mine(o, s) = {x}
  <2>1. {k \in Lines : o[k].srv = s /\ ~Out(o[k])} = {f}
    BY <1>0, <1>1, <1>2
  <2> QED
    BY <1>2, <2>1 DEF Mine
<1>5. ASSUME NEW u \in Servers \ {s} PROVE Mine(o, u) \subseteq Mine(t, u)
  <2>1. \A k \in Lines : o[k].srv = u => o[k] = t[k]
    BY <1>2
  <2> QED
    BY <2>1 DEF Mine
<1> QED
  BY <1>3, <1>4, <1>5 DEF o

LEMMA Frees ==
  ASSUME NEW t, FreeLine(t) # NoLine
  PROVE  FreeLine(t) \in Lines /\ t[FreeLine(t)].state = "RESET"
<1> DEFINE S == {l \in Lines : t[l].state = "RESET"}
<1>1. FreeLine(t) = First(S) /\ S # {}
  BY FirstNone DEF FreeLine
<1>2. First(S) \in S
  BY <1>1, FirstIn
<1> QED
  BY <1>1, <1>2

\* The line of an alarm that rang stays the one TIMER has in hand.
LEMMA RungKept ==
  ASSUME NEW t, NEW g, RungOK(t, g), NEW f,
         \A l \in Lines : Out(f[l]) => f[l] = t[l]
  PROVE  RungOK(f, g)
BY DEF RungOK

\* When the answer to a transfer ends it, its callback frees its line.
LEMMA Shuts ==
  ASSUME TableOK(lines), NEW s \in Servers, NEW l \in Lines, lines[l].srv = s,
         \A k \in Lines : lines[k].srv = s => ~Out(lines[k]),
         NEW data, NEW state \in {"FINISHED", "ABORTED_RCV"}
  PROVE  Left(Over(l, state, data), s) = Put(lines, l, Reset)
<1> DEFINE e == Over(l, state, data)
           shut == Put(lines, l, Reset)
<1>1. Record(lines[l])
  BY LineStates, ResetOK
<1>2. /\ DOMAIN e = Lines /\ \A k \in Lines \ {l} : e[k] = lines[k] /\ lines[k].srv # s
      /\ e[l].srv = s /\ e[l].state = state
  BY <1>1 DEF TableOK, Record, Reset, Over
<1>3. [e EXCEPT ![l] = Reset] = shut
  BY <1>2 DEF TableOK, Put, Over
<1>4. /\ DOMAIN shut = Lines /\ shut[l] = Reset
      /\ \A k \in Lines \ {l} : shut[k] = lines[k] /\ lines[k].srv # s
  BY <1>2 DEF TableOK, Put
<1> HIDE DEF e, shut
<1>5. {k \in Lines : e[k].srv = s /\ e[k].state # "RESET"} = {l}
  BY <1>2
<1>6. {k \in Lines : e[k].srv = s /\ e[k].state \notin {"RESET", "ABORTED_INTERNAL"}} = {l}
  BY <1>2
<1>7. {k \in Lines : shut[k].srv = s /\ shut[k].state # "RESET"} = {}
  BY <1>4, ResetOK
<1>8. ToClose(e, s) = l /\ OnUse(e, s) = l /\ ToClose(shut, s) = NoLine
  BY <1>5, <1>6, <1>7, FirstOne, FirstNone DEF ToClose, OnUse
<1>9. Close(e, s) = shut /\ Close(shut, s) = shut /\ (Fetch(e, s) = e \/ Fetch(e, s) = shut)
  BY <1>3, <1>8, LineNumbers DEF Close, Fetch
<1> QED
  BY <1>9 DEF Left, e, shut

-----------------------------------------------------------------------------
(* The client's steps *)

\* g is f but for v at s
Only(f, g, s, v) == DOMAIN g = Servers /\ g[s] = v /\ \A u \in Servers \ {s} : g[u] = f[u]

\* The client of one module acts: the rest of the system looks on.
LEMMA ClientStep ==
  ASSUME IInv, NEW s \in Servers, NEW q, NEW a, NEW z, NEW t,
         lines' = t, TableOK(t), RungOK(t, rung'),
         \A u \in Servers \ {s} : Mine(t, u) \subseteq Mine(lines, u),
         Only(req, req', s, q), Only(rsp, rsp', s, a), Only(res, res', s, z),
         UNCHANGED module,
         Good(q, a, peer[s], dict[s], Mine(t, s)), ResOK(z)
  PROVE  IInv'
<1>1. peer' = peer /\ dict' = dict
  BY DEF module
<1>2. TableOK(lines)' /\ RungOK(lines, rung)'
  OBVIOUS
<1>3. /\ (DOMAIN req)' = Servers /\ (DOMAIN rsp)' = Servers /\ (DOMAIN peer)' = Servers
      /\ (DOMAIN dict)' = Servers /\ (DOMAIN res)' = Servers
  BY <1>1 DEF IInv, Only
<1>4. ASSUME NEW u \in Servers
      PROVE  Good(req[u], rsp[u], peer[u], dict[u], Mine(lines, u))' /\ ResOK(res[u])'
  <2>1. CASE u = s
    BY <1>1, <2>1 DEF IInv, Only
  <2>2. CASE u # s
    <3>1. /\ req'[u] = req[u] /\ rsp'[u] = rsp[u] /\ res'[u] = res[u]
          /\ Mine(lines', u) \subseteq Mine(lines, u)
      BY <2>2 DEF Only
    <3>2. Good(req[u], rsp[u], peer[u], dict[u], Mine(lines, u)) /\ ResOK(res[u])
      BY DEF IInv
    <3>3. Good(req[u], rsp[u], peer[u], dict[u], Mine(lines', u))
      BY <3>1, <3>2, Closed
    <3> QED
      BY <1>1, <3>1, <3>2, <3>3
  <2> QED
    BY <2>1, <2>2
<1> QED
  BY <1>2, <1>3, <1>4 DEF IInv

\* Nothing is under way with module s, or the abort of the transfer before is.
LEMMA Cleared ==
  ASSUME NEW s \in Servers, NEW r \in Requests, req[s] \in {<<>>, <<Abort>>},
         DOMAIN req = Servers, req' = [req EXCEPT ![s] = @ \o <<Opens(r)>>],
         PeerOK(peer[s]), DictOK(dict[s])
  PROVE  \E q : /\ Only(req, req', s, q)
                /\ Good(q, <<>>, peer[s], dict[s], {Opened(s, r)})
<1> DEFINE m == Opens(r)
<1>1. m \in Frames /\ Abort \in Frames
  BY Opening, AbortFrame
<1>2. /\ Good(<<m>>, <<>>, peer[s], dict[s], {Opened(s, r)})
      /\ Good(<<Abort, m>>, <<>>, peer[s], dict[s], {Opened(s, r)})
  BY Asks
<1>3. Only(req, req', s, req[s] \o <<m>>)
  BY DEF Only
<1> HIDE DEF m
<1>4. CASE req[s] = <<>>
  <2>1. req[s] \o <<m>> = <<m>>
    BY <1>1, <1>4
  <2> QED
    BY <1>2, <1>3, <2>1 DEF m
<1>5. CASE req[s] = <<Abort>>
  <2>1. req[s] \o <<m>> = <<Abort, m>>
    BY <1>1, <1>5, Pair
  <2> QED
    BY <1>2, <1>3, <2>1 DEF m
<1> QED
  BY <1>4, <1>5

LEMMA BeginStep ==
  ASSUME IInv, NEW s \in Servers, NEW r \in Requests, Begin(s, r), ~Late
  PROVE  IInv'
<1> DEFINE x == Opened(s, r)  f == FreeLine(lines)  t == Put(lines, f, x)
<1>1. /\ OnUse(lines, s) = NoLine /\ f # NoLine
      /\ req[s] \in {<<>>, <<Abort>>} /\ rsp[s] = <<>> /\ lines' = t
      /\ req' = [req EXCEPT ![s] = @ \o <<Opens(r)>>]
      /\ rsp' = rsp /\ res' = res /\ rung' = rung /\ UNCHANGED module
  BY Zenon DEF Begin, Clear, May, Begun, Send, Initiate, Opens, Put
<1>2. TableOK(lines) /\ Mine(lines, s) = {} /\ f \in Lines /\ lines[f].state = "RESET"
  BY <1>1, Uses, LineNumbers, Frees DEF IInv
<1>3. LineOK(x) /\ x.srv = s /\ x.state \in {"UP", "DOWN"}
  BY Opening
<1> HIDE DEF x, f
<1>4. /\ TableOK(t) /\ Mine(t, s) = {x}
      /\ \A u \in Servers \ {s} : Mine(t, u) \subseteq Mine(lines, u)
  BY <1>2, <1>3, Filled
<1>5. RungOK(t, rung')
  <2>1. \A l \in Lines : Out(t[l]) => t[l] = lines[l]
    BY <1>2, <1>3 DEF Put, Out, TableOK
  <2> QED
    BY <1>1, <2>1, RungKept DEF IInv
<1>6. PICK q : Only(req, req', s, q) /\ Good(q, <<>>, peer[s], dict[s], {x})
  BY <1>1, Cleared DEF IInv, Good, x
<1>7. /\ Only(rsp, rsp', s, <<>>) /\ Only(res, res', s, res[s]) /\ ResOK(res[s])
  BY <1>1 DEF IInv, Only
<1> HIDE DEF t
<1> QED
  BY <1>1, <1>4, <1>5, <1>6, <1>7, ClientStep

\* What follows a callback that leaves the lines t, none of which module s uses:
\* nothing, or the next transfer on a free line of t.
LEMMA Follows ==
  ASSUME IInv, ~Late, NEW s \in Servers, NEW a, Only(rsp, rsp', s, a),
         Good(req[s], a, peer[s], dict[s], {}),
         NEW t, TableOK(t), Mine(t, s) = {},
         \A u \in Servers : Mine(t, u) \subseteq Mine(lines, u), RungOK(t, rung'),
         NEW z, Only(res, res', s, z), ResOK(z), UNCHANGED module,
         \/ lines' = t /\ Only(req, req', s, req[s])
         \/ \E r \in Requests, f \in Lines :
              /\ Clear(s) /\ t[f].state = "RESET" /\ lines' = Put(t, f, Opened(s, r))
              /\ req' = [req EXCEPT ![s] = @ \o <<Opens(r)>>]
  PROVE  IInv'
<1>1. CASE lines' = t /\ Only(req, req', s, req[s])
  BY <1>1, ClientStep
<1>2. ASSUME NEW r \in Requests, NEW f \in Lines, Clear(s), t[f].state = "RESET",
             lines' = Put(t, f, Opened(s, r)),
             req' = [req EXCEPT ![s] = @ \o <<Opens(r)>>]
      PROVE  IInv'
  <2> DEFINE x == Opened(s, r)  o == Put(t, f, x)
  <2>1. LineOK(x) /\ x.srv = s /\ x.state \in {"UP", "DOWN"}
    BY Opening
  <2>2. req[s] \in {<<>>, <<Abort>>} /\ a = <<>>
    BY <1>2 DEF Clear, Only
  <2>3. PICK q : Only(req, req', s, q) /\ Good(q, <<>>, peer[s], dict[s], {x})
    BY <1>2, <2>2, Cleared DEF IInv, Good
  <2> HIDE DEF x
  <2>4. /\ TableOK(o) /\ Mine(o, s) = {x}
        /\ \A u \in Servers \ {s} : Mine(o, u) \subseteq Mine(t, u)
    BY <1>2, <2>1, Filled
  <2>5. RungOK(o, rung')
    <3>1. \A l \in Lines : Out(o[l]) => o[l] = t[l]
      BY <2>1 DEF Put, Out, TableOK
    <3> QED
      BY <3>1, RungKept
  <2>6. \A u \in Servers \ {s} : Mine(o, u) \subseteq Mine(lines, u)
    BY <2>4
  <2>7. lines' = o
    BY <1>2 DEF x
  <2> HIDE DEF o
  <2> QED
    BY <2>2, <2>3, <2>4, <2>5, <2>6, <2>7, ClientStep
<1> QED
  BY <1>1, <1>2

\* What a callback of module s asks for, when it leaves the lines t
LEMMA AskedFor ==
  ASSUME NEW s \in Servers, NEW t, NEW r \in Requests \cup {NoRequest},
         AsksFor(s, t, r), req[s] \in Seq(Frames), DOMAIN req = Servers
  PROVE  \/ Begun(Left(t, s), s, r) = Left(t, s) /\ Only(req, req', s, req[s])
         \/ /\ r \in Requests /\ Clear(s) /\ May(Left(t, s), s, r)
            /\ Begun(Left(t, s), s, r) = Put(Left(t, s), FreeLine(Left(t, s)), Opened(s, r))
            /\ req' = [req EXCEPT ![s] = @ \o <<Opens(r)>>]
<1> DEFINE c == Left(t, s)
<1>1. req' = [req EXCEPT ![s] = @ \o Initiate(c, s, r)] /\ (r = NoRequest \/ Clear(s))
  BY DEF AsksFor, Send
<1> HIDE DEF c
<1>2. CASE ~May(c, s, r)
  <2>1. req[s] \o <<>> = req[s]
    BY Nothing
  <2>2. req' = [req EXCEPT ![s] = @ \o <<>>]
    BY <1>1, <1>2 DEF Initiate
  <2>3. Only(req, req', s, req[s])
    BY <2>1, <2>2 DEF Only
  <2> QED
    BY <1>2, <2>3 DEF Begun, c
<1>3. CASE May(c, s, r)
  <2>1. r # NoRequest
    BY <1>3 DEF May
  <2>2. Begun(c, s, r) = Put(c, FreeLine(c), Opened(s, r)) /\ Initiate(c, s, r) = <<Opens(r)>>
    BY Zenon, <1>3 DEF Begun, Initiate, Opens, Put
  <2> QED
    BY <1>1, <1>3, <2>1, <2>2 DEF c
<1> QED
  BY <1>2, <1>3

\* A transfer ends, its line is freed, and its callback may begin the next one.
LEMMA EndsStep ==
  ASSUME IInv, ~Late, NEW s \in Servers, NEW l \in Lines, lines[l].srv = s,
         lines[l].state \in {"UP", "DOWN"}, rung.srv # s, rung' = rung, NEW data,
         NEW state \in {"FINISHED", "ABORTED_RCV"}, NEW a, Only(rsp, rsp', s, a),
         Good(req[s], a, peer[s], dict[s], {}), Ends(s, l, state, data),
         state = "FINISHED" /\ lines[l].state = "UP" => data \in Wholes(lines[l].obj)
  PROVE  IInv'
<1> DEFINE end == Over(l, state, data)
           shut == Put(lines, l, Reset)
           z == IF state # "FINISHED" THEN Failed(res[s]) ELSE
                  [obj |-> lines[l].obj, kind |-> lines[l].state, data |-> data,
                   ok |-> TRUE, turn |-> ~res[s].turn]
<1>1. PICK r \in Requests \cup {NoRequest} :
        AsksFor(s, end, r) /\ lines' = Begun(Left(end, s), s, r)
  BY DEF Ends
<1>2. res' = [res EXCEPT ![s] = z] /\ UNCHANGED module
  BY DEF Ends
<1>3. TableOK(lines) /\ RungOK(lines, rung) /\ \A k \in Lines : lines[k].srv = s => ~Out(lines[k])
  BY DEF IInv, RungOK
<1>4. Left(end, s) = shut
  BY <1>3, Shuts
<1>5. /\ TableOK(shut) /\ Mine(shut, s) = {}
      /\ \A u \in Servers : Mine(shut, u) \subseteq Mine(lines, u)
  BY <1>3, Freed
<1>6. RungOK(shut, rung')
  <2>1. \A k \in Lines : Out(shut[k]) => shut[k] = lines[k]
    BY <1>3, ResetOK DEF Put, Out, TableOK
  <2> QED
    BY <1>3, <2>1, RungKept
<1>7. Only(res, res', s, z) /\ ResOK(z)
  <2>1. Only(res, res', s, z)
    BY <1>2 DEF IInv, Only
  <2>2. z.ok /\ z.kind = "UP" => z.data \in Wholes(z.obj)
    BY DEF Failed
  <2>3. DOMAIN z = {"obj", "kind", "data", "ok", "turn"}
    BY DEF Failed
  <2> QED
    BY <2>1, <2>2, <2>3 DEF ResOK
<1> HIDE DEF z, end, shut
<1>8. \/ lines' = shut /\ Only(req, req', s, req[s])
      \/ /\ r \in Requests /\ Clear(s) /\ May(shut, s, r)
         /\ lines' = Put(shut, FreeLine(shut), Opened(s, r))
         /\ req' = [req EXCEPT ![s] = @ \o <<Opens(r)>>]
  <2>1. req[s] \in Seq(Frames) /\ DOMAIN req = Servers
    BY DEF IInv, Good, Shape
  <2> QED
    BY <1>1, <1>4, <2>1, AskedFor
<1>9. May(shut, s, r) => FreeLine(shut) \in Lines /\ shut[FreeLine(shut)].state = "RESET"
  BY Frees DEF May
<1> QED
  BY <1>2, <1>5, <1>6, <1>7, <1>8, <1>9, Follows

\* What the client knows of the answer it takes.
LEMMA Hearing ==
  ASSUME IInv, NEW s \in Servers, Answered(s)
  PROVE  LET m == Head(rsp[s])  p == peer[s]  d == dict[s] IN
         /\ rsp[s] # <<>> /\ m = rsp[s][1] /\ Only(rsp, rsp', s, Tail(rsp[s]))
         /\ Good(req[s], rsp[s], p, d, Mine(lines, s))
         /\ Good(req[s], Tail(rsp[s]), p, d, Mine(lines, s))
         /\ \/ m = Abort /\ m.cs = "abort"
            \/ /\ m # Abort /\ m \in Frames
               /\ m.cs \in {"init_up_ok", "up_ok", "init_down_ok", "down_ok"}
               /\ \A x \in Mine(lines, s) : AnswerOf(m, p, d, x)
<1> DEFINE q == req[s]  a == rsp[s]  p == peer[s]  d == dict[s]  X == Mine(lines, s)
<1>1. a # <<>> /\ rsp' = [rsp EXCEPT ![s] = Tail(@)]
  BY DEF Answered
<1>2. Good(q, a, p, d, X)
  BY DEF IInv
<1>3. a \in Seq(Frames)
  BY <1>2 DEF Good, Shape
<1>4. Head(a) = a[1] /\ 1 \in 1..Len(a) /\ a[1] \in Frames
  BY <1>1, <1>3, Taken, ElementOfSeq
<1>5. Good(q, Tail(a), p, d, X)
  BY <1>1, <1>2, AnswerTaken
<1>6. Only(rsp, rsp', s, Tail(a))
  BY <1>1 DEF IInv, Only
<1>7. a[1] # Abort => /\ a[1].cs \in {"init_up_ok", "up_ok", "init_down_ok", "down_ok"}
                      /\ \A x \in X : AnswerOf(a[1], p, d, x)
  BY <1>2, <1>4 DEF Good, Shape
<1> QED
  BY <1>1, <1>2, <1>4, <1>5, <1>6, <1>7, AbortFrame

LEMMA ReadOnStep ==
  ASSUME IInv, NEW s \in Servers, ReadOn(s)
  PROVE  IInv'
<1> DEFINE m == Head(rsp[s])  l == OnUse(lines, s)  x == lines[l]  p == peer[s]  d == dict[s]
           t == IF m.cs = "up_ok" THEN 1 - x.toggle ELSE x.toggle
           y == [x EXCEPT !.toggle = t, !.data = @ \o m.data]
           n == Frame("up", None, IF m.cs = "up_ok" THEN t ELSE 0, FALSE, <<>>)
<1>1. /\ Answered(s) /\ Fits(l, m) /\ m.cs \in {"init_up_ok", "up_ok"} /\ ~m.last
      /\ lines' = [lines EXCEPT ![l].toggle = t, ![l].data = @ \o m.data]
      /\ req' = [req EXCEPT ![s] = @ \o <<n>>] /\ res' = res /\ UNCHANGED module
      /\ rung' = rung
  BY DEF ReadOn, Send, Answered
<1>2. /\ TableOK(lines) /\ l \in Lines /\ x.srv = s /\ LineOK(x) /\ Record(x)
      /\ Mine(lines, s) = {x}
  BY <1>1, Uses DEF IInv, Fits
<1>3. /\ rsp[s] # <<>> /\ m = rsp[s][1] /\ m # Abort /\ m \in Frames
      /\ Only(rsp, rsp', s, Tail(rsp[s])) /\ Good(req[s], rsp[s], p, d, {x})
      /\ AnswerOf(m, p, d, x)
  BY <1>1, <1>2, Hearing
<1>4. /\ x.state = "UP" /\ x.toggle \in {0, 1} /\ x.data \in Data /\ x.obj \in Objs
      /\ x.offset = 0 /\ m.data \in Data
  BY <1>1, <1>2, <1>3, ResetOK DEF Fits, LineOK, Record, Frames
<1>5. x.data \o m.data \in Data
  BY <1>4, ConcatProperties DEF Data
<1>6. /\ DOMAIN y = DOMAIN x /\ y.state = x.state /\ y.srv = x.srv /\ y.obj = x.obj
      /\ y.data = x.data \o m.data /\ y.offset = x.offset /\ y.toggle = t /\ y.owed = x.owed
  BY <1>2 DEF Record, Reset
<1>7. lines' = Put(lines, l, y)
  BY <1>1, <1>2 DEF Put, TableOK, Record, Reset
<1>8. t \in {0, 1}
  BY <1>4
<1>9. n \in Frames /\ n.cs = "up" /\ n.toggle = t
  <2>1. (IF m.cs = "up_ok" THEN t ELSE 0) = t
    BY <1>1, <1>3 DEF AnswerOf
  <2>2. <<>> \in Data
    BY EmptySeq DEF Data
  <2> HIDE DEF t
  <2> QED
    BY <1>8, <2>1, <2>2 DEF Frame, Frames
<1> HIDE DEF y, n
<1>10. LineOK(y) /\ y.srv = s
  BY <1>2, <1>4, <1>5, <1>6, <1>8 DEF LineOK, Record
<1>11. p.state = "UP" /\ p.toggle = t => p.obj = y.obj /\ Prefix(y.data, p.data, p.offset)
  <2>1. SUFFICES ASSUME p.state = "UP", p.toggle = t
                 PROVE  p.obj = y.obj /\ Prefix(y.data, p.data, p.offset)
    OBVIOUS
  <2>2. CASE m.cs = "up_ok"
    BY <1>1, <1>3, <1>6, <2>1, <2>2 DEF AnswerOf
  <2>3. CASE m.cs = "init_up_ok"
    <3>1. p.obj = x.obj /\ p.offset = 0 /\ x.data = <<>> /\ m.data = <<>>
      BY <1>1, <1>3, <2>1, <2>3 DEF AnswerOf
    <3>2. p.data \in Data
      BY <1>3 DEF Good, PeerOK, Record
    <3>3. Len(p.data) \in Nat /\ y.data = <<>> /\ Len(<<>>) = 0
      BY <1>6, <3>1, <3>2, LenProperties DEF Data
    <3> QED
      BY <1>6, <3>1, <3>3 DEF Prefix
  <2> QED
    BY <1>1, <2>2, <2>3
<1>12. RequestOK(n, p) /\ RequestOf(n, p, y)
  <2>1. RequestOK(n, p)
    BY <1>9 DEF RequestOK
  <2>2. y.state = "UP" /\ y.toggle = n.toggle
    BY <1>4, <1>6, <1>9
  <2> HIDE DEF t
  <2> QED
    BY <1>9, <1>11, <2>1, <2>2 DEF RequestOf
<1>13. Good(req[s] \o <<n>>, Tail(rsp[s]), p, d, {y})
  <2>1. rsp[s][1] # Abort /\ n.cs \in {"up", "down"} /\ n \in Frames
    BY <1>3, <1>9
  <2> DEFINE X == {x}  Y == {y}
  <2>2. Good(req[s], rsp[s], p, d, X) /\ X # {} /\ rsp[s] # <<>>
    BY <1>3
  <2>3. RequestOK(n, p) /\ \A z \in Y : RequestOf(n, p, z)
    BY <1>12
  <2> HIDE DEF m, l, x, p, d, t, X, Y
  <2>4. Good(req[s] \o <<n>>, Tail(rsp[s]), p, d, Y)
    BY <2>1, <2>2, <2>3, GoesOn
  <2> QED
    BY <2>4 DEF Y
<1>14. Only(req, req', s, req[s] \o <<n>>) /\ Only(res, res', s, res[s]) /\ ResOK(res[s])
  BY <1>1 DEF IInv, Only
<1>15. /\ TableOK(lines') /\ Mine(lines', s) = {y}
       /\ \A u \in Servers \ {s} : Mine(lines', u) \subseteq Mine(lines, u)
  <2>1. ~Out(x)
    BY <1>4 DEF Out
  <2> QED
    BY <1>2, <1>7, <1>10, <2>1, Moved
<1>16. RungOK(lines', rung')
  <2>1. y.state # "ABORTED_INTERNAL"
    BY <1>4, <1>6
  <2>2. \A k \in Lines : Out(lines'[k]) => lines'[k] = lines[k]
    BY <1>2, <1>7, <2>1 DEF Put, Out, TableOK
  <2>3. rung' = rung /\ RungOK(lines, rung)
    BY <1>1 DEF IInv
  <2> HIDE DEF l, x, t
  <2> QED
    BY <2>2, <2>3, RungKept
<1> QED
  BY <1>1, <1>3, <1>13, <1>14, <1>15, <1>16, ClientStep

LEMMA WriteOnStep ==
  ASSUME IInv, NEW s \in Servers, WriteOn(s)
  PROVE  IInv'
<1> DEFINE m == Head(rsp[s])  l == OnUse(lines, s)  x == lines[l]  p == peer[s]  d == dict[s]
           k == x.offset + 1
           t == IF m.cs = "down_ok" THEN 1 - x.toggle ELSE x.toggle
           y == [x EXCEPT !.toggle = t, !.offset = k]
           last == k = Len(x.data)
           n == Frame("down", None, t, last, <<x.data[k]>>)
<1>1. /\ Answered(s) /\ Fits(l, m) /\ m.cs \in {"init_down_ok", "down_ok"} /\ k <= Len(x.data)
      /\ lines' = [lines EXCEPT ![l].toggle = t, ![l].offset = k]
      /\ req' = [req EXCEPT ![s] = @ \o <<n>>] /\ res' = res /\ UNCHANGED module
      /\ rung' = rung
  BY DEF WriteOn, Send, Answered
<1>2. /\ TableOK(lines) /\ l \in Lines /\ x.srv = s /\ LineOK(x) /\ Record(x)
      /\ Mine(lines, s) = {x}
  BY <1>1, Uses DEF IInv, Fits
<1>3. /\ rsp[s] # <<>> /\ m = rsp[s][1] /\ m # Abort /\ m \in Frames
      /\ Only(rsp, rsp', s, Tail(rsp[s])) /\ Good(req[s], rsp[s], p, d, {x})
      /\ AnswerOf(m, p, d, x)
  BY <1>1, <1>2, Hearing
<1>4. /\ x.state = "DOWN" /\ x.toggle \in {0, 1} /\ x.data \in Data /\ x.obj \in Objs
      /\ x.offset \in Nat /\ x.data \in Wholes(x.obj)
  BY <1>1, <1>2, <1>3, ResetOK DEF Fits, LineOK, Record
<1>5. Len(x.data) \in Nat /\ x.data[k] \in Segment /\ <<x.data[k]>> \in Data
  <2>1. Len(x.data) \in Nat
    BY <1>4, LenProperties DEF Data
  <2>2. x.data[k] \in Segment
    BY <1>1, <1>4, <2>1, ElementOfSeq DEF Data
  <2> QED
    BY <2>1, <2>2 DEF Data
<1>6. /\ DOMAIN y = DOMAIN x /\ y.state = x.state /\ y.srv = x.srv /\ y.obj = x.obj
      /\ y.data = x.data /\ y.offset = k /\ y.toggle = t /\ y.owed = x.owed
  BY <1>2 DEF Record, Reset
<1>7. lines' = Put(lines, l, y)
  BY <1>1, <1>2 DEF Put, TableOK, Record, Reset
<1>8. t \in {0, 1}
  BY <1>4
<1>9. /\ n \in Frames /\ n.cs = "down" /\ n.toggle = t /\ (n.last <=> last)
      /\ n.data = <<x.data[k]>>
  <2>1. last \in BOOLEAN
    OBVIOUS
  <2> HIDE DEF t, last
  <2> QED
    BY <1>5, <1>8, <2>1 DEF Frame, Frames
<1> HIDE DEF y, n
<1>10. LineOK(y) /\ y.srv = s
  BY <1>1, <1>2, <1>4, <1>6, <1>8 DEF LineOK, Record
\* what the server has is what the client has sent
<1>11. p.state = "DOWN" => p.obj = x.obj /\ Prefix(p.data, x.data, x.offset)
  <2>1. SUFFICES ASSUME p.state = "DOWN" PROVE p.obj = x.obj /\ Prefix(p.data, x.data, x.offset)
    OBVIOUS
  <2>2. CASE m.cs = "down_ok"
    BY <1>1, <1>3, <2>1, <2>2 DEF AnswerOf
  <2>3. CASE m.cs = "init_down_ok"
    <3>1. p.obj = x.obj /\ p.data = <<>> /\ x.offset = 0 /\ Len(<<>>) = 0
      BY <1>1, <1>3, <2>1, <2>3 DEF AnswerOf
    <3> QED
      BY <1>5, <3>1 DEF Prefix
  <2> QED
    BY <1>1, <2>2, <2>3
<1>12. RequestOK(n, p)
  <2>1. SUFFICES ASSUME p.state = "DOWN"
                 PROVE  \E v \in Wholes(p.obj) :
                          /\ Prefix(p.data, v, Len(p.data)) /\ Len(p.data) < Len(v)
                          /\ n.data = <<v[Len(p.data) + 1]>>
                          /\ n.last <=> Len(p.data) + 1 = Len(v)
    BY <1>9 DEF RequestOK
  <2>2. Len(p.data) = x.offset
    BY <1>11, <2>1 DEF Prefix
  <2>3. p.obj = x.obj /\ Prefix(p.data, x.data, Len(p.data))
    BY <1>11, <2>1, <2>2
  <2>4. /\ Len(p.data) < Len(x.data) /\ n.data = <<x.data[Len(p.data) + 1]>>
        /\ n.last <=> Len(p.data) + 1 = Len(x.data)
    BY <1>1, <1>4, <1>5, <1>9, <2>2
  <2>5. x.data \in Wholes(p.obj)
    BY <1>4, <2>3
  <2> WITNESS x.data \in Wholes(p.obj)
  <2> QED
    BY <2>3, <2>4
<1>13. RequestOf(n, p, y)
  <2>1. y.state = "DOWN" /\ y.toggle = n.toggle /\ y.offset > 0
    BY <1>4, <1>6, <1>9
  <2>2. n.data = <<y.data[y.offset]>> /\ (n.last <=> y.offset = Len(y.data))
    BY <1>6, <1>9
  <2>3. p.state = "DOWN" => p.obj = y.obj /\ Prefix(p.data, y.data, y.offset - 1)
    <3>1. y.offset - 1 = x.offset /\ y.obj = x.obj /\ y.data = x.data
      BY <1>4, <1>6
    <3> QED
      BY <1>11, <3>1
  <2> QED
    BY <1>9, <2>1, <2>2, <2>3 DEF RequestOf
<1>14. Good(req[s] \o <<n>>, Tail(rsp[s]), p, d, {y})
  <2>1. rsp[s][1] # Abort /\ n.cs \in {"up", "down"} /\ n \in Frames
    BY <1>3, <1>9
  <2> DEFINE X == {x}  Y == {y}
  <2>2. Good(req[s], rsp[s], p, d, X) /\ X # {} /\ rsp[s] # <<>>
    BY <1>3
  <2>3. RequestOK(n, p) /\ \A z \in Y : RequestOf(n, p, z)
    BY <1>12, <1>13
  <2> HIDE DEF m, l, x, p, d, t, X, Y
  <2>4. Good(req[s] \o <<n>>, Tail(rsp[s]), p, d, Y)
    BY <2>1, <2>2, <2>3, GoesOn
  <2> QED
    BY <2>4 DEF Y
<1>15. Only(req, req', s, req[s] \o <<n>>) /\ Only(res, res', s, res[s]) /\ ResOK(res[s])
  BY <1>1 DEF IInv, Only
<1>16. /\ TableOK(lines') /\ Mine(lines', s) = {y}
       /\ \A u \in Servers \ {s} : Mine(lines', u) \subseteq Mine(lines, u)
  <2>1. ~Out(x)
    BY <1>4 DEF Out
  <2> QED
    BY <1>2, <1>7, <1>10, <2>1, Moved
<1>17. RungOK(lines', rung')
  <2>1. y.state # "ABORTED_INTERNAL"
    BY <1>4, <1>6
  <2>2. \A j \in Lines : Out(lines'[j]) => lines'[j] = lines[j]
    BY <1>2, <1>7, <2>1 DEF Put, Out, TableOK
  <2>3. rung' = rung /\ RungOK(lines, rung)
    BY <1>1 DEF IInv
  <2> HIDE DEF l, x, t
  <2> QED
    BY <2>2, <2>3, RungKept
<1> QED
  BY <1>1, <1>3, <1>14, <1>15, <1>16, <1>17, ClientStep

\* A read that ends has the whole object.
LEMMA LastRead ==
  ASSUME IInv, NEW s \in Servers, ReadEnds(s)
  PROVE  LET m == Head(rsp[s])  l == OnUse(lines, s) IN
         /\ l \in Lines /\ lines[l].srv = s /\ lines[l].state = "UP"
         /\ lines[l].data \o m.data \in Wholes(lines[l].obj)
<1> DEFINE m == Head(rsp[s])  l == OnUse(lines, s)  x == lines[l]
<1>1. Answered(s) /\ Fits(l, m) /\ m.cs \in {"init_up_ok", "up_ok"} /\ m.last
  BY DEF ReadEnds
<1>2. l \in Lines /\ x.srv = s /\ LineOK(x) /\ Mine(lines, s) = {x}
  BY <1>1, Uses DEF IInv, Fits
<1>3. m \in Frames /\ AnswerOf(m, peer[s], dict[s], x)
  BY <1>1, <1>2, Hearing
<1>0. x.state = "UP"
  BY <1>1, <1>3 DEF AnswerOf
<1>4. CASE m.cs = "up_ok"
  BY <1>0, <1>1, <1>2, <1>3, <1>4 DEF AnswerOf
<1>5. CASE m.cs = "init_up_ok"
  <2>1. x.data = <<>> /\ m.data \in Wholes(x.obj) /\ m.data \in Seq(Segment)
    BY <1>1, <1>3, <1>5 DEF AnswerOf, Frames, Data
  <2>2. x.data \o m.data = m.data
    BY <2>1, ConcatEmptySeq
  <2> QED
    BY <1>0, <1>2, <2>1, <2>2
<1> QED
  BY <1>1, <1>4, <1>5

LEMMA ReadEndsStep ==
  ASSUME IInv, ~Late, NEW s \in Servers, ReadEnds(s)
  PROVE  IInv'
<1> DEFINE m == Head(rsp[s])  l == OnUse(lines, s)  v == lines[l].data \o m.data
<1>1. Answered(s) /\ Ends(s, l, "FINISHED", v)
  BY DEF ReadEnds
<1>2. /\ l \in Lines /\ lines[l].srv = s /\ v \in Wholes(lines[l].obj)
      /\ lines[l].state \in {"UP", "DOWN"}
  BY LastRead
<1>3. /\ Only(rsp, rsp', s, Tail(rsp[s]))
      /\ Good(req[s], Tail(rsp[s]), peer[s], dict[s], {})
  BY <1>1, Hearing, Closed
<1>4. rung.srv # s /\ rung' = rung
  BY <1>1, <1>2, LineNumbers DEF Answered
<1> HIDE DEF v, l
<1> QED
  BY <1>1, <1>2, <1>3, <1>4, EndsStep

\* A write that ends has been done.
LEMMA LastWrite ==
  ASSUME IInv, NEW s \in Servers, WriteEnds(s)
  PROVE  LET l == OnUse(lines, s) IN
         /\ l \in Lines /\ lines[l].srv = s /\ lines[l].state = "DOWN"
         /\ dict[s][lines[l].obj] = lines[l].data
<1> DEFINE m == Head(rsp[s])  l == OnUse(lines, s)  x == lines[l]
<1>1. /\ Answered(s) /\ Fits(l, m) /\ m.cs \in {"init_down_ok", "down_ok"}
      /\ x.offset = Len(x.data)
  BY DEF WriteEnds
<1>2. l \in Lines /\ x.srv = s /\ Mine(lines, s) = {x}
  BY <1>1, Uses DEF IInv, Fits
<1>3. AnswerOf(m, peer[s], dict[s], x)
  BY <1>1, <1>2, Hearing
<1> QED
  BY <1>1, <1>2, <1>3 DEF AnswerOf

LEMMA WriteEndsStep ==
  ASSUME IInv, ~Late, NEW s \in Servers, WriteEnds(s)
  PROVE  IInv'
<1> DEFINE l == OnUse(lines, s)  v == lines[l].data
<1>1. Answered(s) /\ Ends(s, l, "FINISHED", v)
  BY DEF WriteEnds
<1>2. l \in Lines /\ lines[l].srv = s /\ lines[l].state = "DOWN"
  BY LastWrite
<1>3. /\ Only(rsp, rsp', s, Tail(rsp[s]))
      /\ Good(req[s], Tail(rsp[s]), peer[s], dict[s], {})
  BY <1>1, Hearing, Closed
<1>4. rung.srv # s /\ rung' = rung
  BY <1>1, <1>2, LineNumbers DEF Answered
<1> HIDE DEF v, l
<1> QED
  BY <1>1, <1>2, <1>3, <1>4, EndsStep

LEMMA AbortedStep ==
  ASSUME IInv, ~Late, NEW s \in Servers, Aborted(s)
  PROVE  IInv'
<1> DEFINE l == OnUse(lines, s)  v == lines[l].data
<1>1. /\ Answered(s)
      /\ IF l = NoLine THEN UNCHANGED <<lines, req, res, module>>
                       ELSE Ends(s, l, "ABORTED_RCV", v)
  BY DEF Aborted
<1>2. /\ Only(rsp, rsp', s, Tail(rsp[s]))
      /\ Good(req[s], Tail(rsp[s]), peer[s], dict[s], Mine(lines, s))
  BY <1>1, Hearing
<1>3. TableOK(lines) /\ RungOK(lines, rung)
  BY DEF IInv
<1>4. CASE l = NoLine
  <2>1. /\ Only(req, req', s, req[s]) /\ Only(res, res', s, res[s]) /\ ResOK(res[s])
        /\ lines' = lines /\ rung' = rung /\ UNCHANGED module
    BY <1>1, <1>4 DEF IInv, Only, Answered
  <2> QED
    BY <1>2, <1>3, <2>1, ClientStep
<1>5. CASE l # NoLine
  <2>1. l \in Lines /\ lines[l].srv = s /\ lines[l].state \in {"UP", "DOWN"}
    BY <1>3, <1>5, Uses
  <2>4. rung.srv # s /\ rung' = rung
    BY <1>1, <1>5 DEF Answered
  <2>2. Good(req[s], Tail(rsp[s]), peer[s], dict[s], {})
    BY <1>2, Closed
  <2>3. Ends(s, l, "ABORTED_RCV", v)
    BY <1>1, <1>5
  <2> HIDE DEF l, v
  <2> QED
    BY <1>2, <2>1, <2>2, <2>3, <2>4, EndsStep
<1> QED
  BY <1>4, <1>5

\* A client that waits gets no answer that does not fit.
LEMMA UnexpectedStep ==
  ASSUME IInv, NEW s \in Servers, Unexpected(s)
  PROVE  IInv'
<1> DEFINE m == Head(rsp[s])  l == OnUse(lines, s)
<1>1. Answered(s) /\ m.cs # "abort" /\ ~Fits(l, m)
      /\ req' = [req EXCEPT ![s] = @ \o <<Abort>>] /\ res' = res /\ UNCHANGED module
      /\ rung' = rung
  BY DEF Unexpected, Send, Answered
<1>2. /\ Only(rsp, rsp', s, Tail(rsp[s]))
      /\ Good(req[s], Tail(rsp[s]), peer[s], dict[s], Mine(lines, s))
      /\ m.cs \in {"init_up_ok", "up_ok", "init_down_ok", "down_ok"}
      /\ \A x \in Mine(lines, s) : AnswerOf(m, peer[s], dict[s], x)
  BY <1>1, Hearing
<1>3. TableOK(lines) /\ RungOK(lines, rung)
  BY DEF IInv
<1>4. l = NoLine /\ Mine(lines, s) = {}
  <2>1. SUFFICES ASSUME l # NoLine PROVE FALSE
    BY <1>3, Uses, LineNumbers
  <2>2. Mine(lines, s) = {lines[l]}
    BY <1>3, <2>1, Uses
  <2>3. AnswerOf(m, peer[s], dict[s], lines[l])
    BY <1>2, <2>2
  <2>4. Fits(l, m)
    BY <1>2, <2>1, <2>3 DEF AnswerOf, Fits
  <2> QED
    BY <1>1, <2>4
<1>5. lines' = lines
  BY <1>4 DEF Unexpected
<1>6. Good(req[s] \o <<Abort>>, Tail(rsp[s]), peer[s], dict[s], Mine(lines, s))
  BY <1>2, <1>4, AbortSent
<1>7. Only(req, req', s, req[s] \o <<Abort>>) /\ Only(res, res', s, res[s]) /\ ResOK(res[s])
  BY <1>1 DEF IInv, Only
<1> QED
  BY <1>1, <1>2, <1>3, <1>5, <1>6, <1>7, ClientStep

LEMMA TimeoutStep ==
  ASSUME IInv, NEW l \in Lines, Timeout(l)
  PROVE  IInv'
<1> DEFINE s == lines[l].srv
           x == [Reset EXCEPT !.state = "ABORTED_INTERNAL", !.srv = s, !.owed = TRUE]
           t == Put(lines, l, x)
<1>1. /\ lines[l].state \in {"UP", "DOWN"} /\ rung = NoAlarm
      /\ rung' = [line |-> l, srv |-> s] /\ lines' = t
      /\ req' = [req EXCEPT ![s] = @ \o <<Abort>>] /\ rsp' = rsp /\ res' = res
      /\ UNCHANGED module
  BY DEF Timeout, Send, Put
<1>2. TableOK(lines) /\ RungOK(lines, rung)
  BY DEF IInv
<1>3. s \in Servers /\ ~Out(lines[l])
  BY <1>1, <1>2, LineStates DEF Out, Stopped
<1>4. \A k \in Lines : ~Out(lines[k])
  BY <1>1, <1>2 DEF RungOK, NoAlarm, Lines, NoLine
<1>5. Stopped(x) /\ x.srv = s
  BY <1>3 DEF Stopped, Out, Reset
<1> HIDE DEF x
<1>6. DOMAIN t = Lines /\ t[l] = x /\ \A k \in Lines \ {l} : t[k] = lines[k]
  BY <1>2 DEF TableOK, Put
<1> HIDE DEF t
<1>7. TableOK(t) /\ RungOK(t, rung')
  <2>1. TableOK(t)
    BY <1>2, <1>5, <1>6 DEF TableOK, Stopped
  <2>2. RungOK(t, rung')
    BY <1>1, <1>3, <1>4, <1>5, <1>6 DEF RungOK
  <2> QED
    BY <2>1, <2>2
<1>8. /\ Mine(t, s) = {}
      /\ \A u \in Servers \ {s} : Mine(t, u) \subseteq Mine(lines, u)
  <2>1. \A k \in Lines : t[k].srv = s => Out(t[k])
    BY <1>2, <1>3, <1>4, <1>5, <1>6 DEF TableOK, Stopped
  <2>2. \A k \in Lines : t[k].srv # s => t[k] = lines[k]
    BY <1>5, <1>6
  <2> QED
    BY <2>1, <2>2 DEF Mine
<1>9. Good(req[s] \o <<Abort>>, rsp[s], peer[s], dict[s], {})
  BY <1>3, AbortSent DEF IInv
<1>10. /\ Only(req, req', s, req[s] \o <<Abort>>) /\ Only(rsp, rsp', s, rsp[s])
       /\ Only(res, res', s, res[s]) /\ ResOK(res[s])
  BY <1>1, <1>3 DEF IInv, Only
<1> HIDE DEF s
<1> QED
  BY <1>1, <1>3, <1>7, <1>8, <1>9, <1>10, ClientStep

\* TIMER calls back, whatever has become of the line: what it leaves is the lines
\* there were, but for some it frees, that of the alarm among them.
LEMMA TimedOutStep ==
  ASSUME IInv, ~Late, TimedOut
  PROVE  IInv'
<1> DEFINE s == rung.srv  g == rung.line
           end == [lines EXCEPT ![g].owed = FALSE]
           c == Left(end, s)  t == Put(c, g, Reset)  z == Failed(res[s])
<1>1. /\ rung # NoAlarm /\ rung' = NoAlarm /\ rsp' = rsp /\ UNCHANGED module
  BY DEF TimedOut
<1>2. TableOK(lines) /\ RungOK(lines, rung) /\ g \in Lines /\ s \in Servers
  BY <1>1 DEF IInv, RungOK
<1>3. CASE ~lines[g].owed
  <2>1. lines' = lines /\ req' = req /\ res' = res
    BY <1>3 DEF TimedOut
  <2>2. \A k \in Lines : ~Out(lines[k])
    BY <1>2, <1>3 DEF RungOK, TableOK, LineOK, Record, Stopped, Out, Reset
  <2>3. RungOK(lines, rung')
    BY <1>1, <2>2 DEF RungOK
  <2>4. /\ Only(req, req', s, req[s]) /\ Only(rsp, rsp', s, rsp[s])
        /\ Only(res, res', s, res[s]) /\ ResOK(res[s])
        /\ Good(req[s], rsp[s], peer[s], dict[s], Mine(lines, s))
    BY <1>1, <1>2, <2>1 DEF IInv, Only
  <2> HIDE DEF s
  <2> QED
    BY <1>1, <1>2, <2>1, <2>3, <2>4, ClientStep
<1>4. CASE lines[g].owed
  <2>1. PICK r \in Requests \cup {NoRequest} :
          AsksFor(s, end, r) /\ lines' = Drop(Begun(c, s, r), g)
    BY <1>4 DEF TimedOut
  <2>2. res' = [res EXCEPT ![s] = z]
    BY <1>4 DEF TimedOut
  \* the lines the callback meets
  <2>3. /\ DOMAIN end = Lines /\ \A k \in Lines \ {g} : end[k] = lines[k]
        /\ end[g].state = lines[g].state /\ end[g].srv = lines[g].srv /\ ~end[g].owed
    BY <1>2, LineStates DEF TableOK, Record, Stopped, Reset
  <2>4. \A k \in Lines : /\ end[k].state \in {"RESET", "UP", "DOWN", "ABORTED_INTERNAL"}
                         /\ Out(end[k]) => k = g
    <3>1. \A k \in Lines : /\ lines[k].state \in {"RESET", "UP", "DOWN", "ABORTED_INTERNAL"}
                           /\ Out(lines[k]) => k = g
      BY <1>2, LineStates DEF RungOK, Out
    <3> QED
      BY <2>3, <3>1 DEF Out
  <2> HIDE DEF end
  \* and those it leaves
  <2>5. Fetch(end, s) = end
    <3> DEFINE S == {l \in Lines : end[l].srv = s
                      /\ end[l].state \notin {"RESET", "ABORTED_INTERNAL"}}
    <3>1. OnUse(end, s) = First(S)
      BY DEF OnUse
    <3>2. CASE S = {}
      BY <3>1, <3>2, FirstNone DEF Fetch
    <3>3. CASE S # {}
      <4>1. First(S) \in S
        BY <3>3, FirstIn
      <4>2. end[OnUse(end, s)].state # "FINISHED"
        BY <2>4, <3>1, <4>1
      <4> QED
        BY <4>2 DEF Fetch
    <3> QED
      BY <3>2, <3>3
  <2>6. c = end \/ \E l \in Lines : c = Put(end, l, Reset)
    BY <2>5, Closes, <1>2 DEF Left, Close, Put
  <2> HIDE DEF c
  <2>7. /\ DOMAIN c = Lines /\ \A k \in Lines : c[k] = end[k] \/ c[k] = Reset
        /\ ~c[g].owed
    <3>1. CASE c = end
      BY <1>2, <2>3, <3>1
    <3>2. ASSUME NEW l \in Lines, c = Put(end, l, Reset)
          PROVE  DOMAIN c = Lines /\ \A k \in Lines : c[k] = end[k] \/ c[k] = Reset
      BY <2>3, <3>2 DEF Put
    <3>3. ~Reset.owed
      BY DEF Reset
    <3> QED
      BY <1>2, <2>3, <2>6, <3>1, <3>2, <3>3
  <2>8. /\ DOMAIN t = Lines /\ t[g] = Reset /\ \A k \in Lines \ {g} : t[k] = c[k]
    BY <1>2, <2>7 DEF Put
  <2>9. c[g].state = "RESET" => c[g] = Reset
    <3>1. lines[g].state # "RESET"
      BY <1>2, <1>4, LineStates DEF Reset, Stopped, Out
    <3> QED
      BY <1>2, <2>3, <2>7, <3>1
  <2> HIDE DEF t
  <2>10. Thinner(t, lines) /\ \A k \in Lines : ~Out(t[k])
    BY <2>3, <2>4, <2>7, <2>8, ResetOK DEF Thinner, Out
  <2>11. /\ TableOK(t) /\ RungOK(t, rung')
         /\ \A u \in Servers : Mine(t, u) \subseteq Mine(lines, u)
    <3>1. RungOK(t, rung')
      BY <1>1, <2>10 DEF RungOK
    <3> QED
      BY <1>2, <2>10, <3>1, Thinned
  <2>12. \/ lines' = Drop(c, g) /\ Only(req, req', s, req[s])
         \/ /\ r \in Requests /\ Clear(s) /\ May(c, s, r)
            /\ lines' = Drop(Put(c, FreeLine(c), Opened(s, r)), g)
            /\ req' = [req EXCEPT ![s] = @ \o <<Opens(r)>>]
    <3>1. req[s] \in Seq(Frames) /\ DOMAIN req = Servers
      BY <1>2 DEF IInv, Good, Shape
    <3> QED
      BY <1>2, <2>1, <3>1, AskedFor DEF c
  <2>13. /\ Only(res, res', s, z) /\ ResOK(z) /\ Only(rsp, rsp', s, rsp[s])
    BY <1>1, <1>2, <2>2 DEF IInv, Only, ResOK, Failed
  <2>14. Good(req[s], rsp[s], peer[s], dict[s], {})
    BY <1>2, Closed DEF IInv
  <2> HIDE DEF z
  \* no next transfer
  <2>15. CASE lines' = Drop(c, g) /\ Only(req, req', s, req[s])
    <3>1. lines' = t
      BY <2>7, <2>15 DEF Drop, Put, t
    <3>2. Good(req[s], rsp[s], peer[s], dict[s], Mine(t, s))
      BY <1>2, <2>11, Closed DEF IInv
    <3> HIDE DEF s
    <3> QED
      BY <1>1, <1>2, <2>11, <2>13, <2>15, <3>1, <3>2, ClientStep
  \* the next transfer, on the line of the alarm or on another
  <2>16. CASE /\ r \in Requests /\ Clear(s) /\ May(c, s, r)
              /\ lines' = Drop(Put(c, FreeLine(c), Opened(s, r)), g)
              /\ req' = [req EXCEPT ![s] = @ \o <<Opens(r)>>]
    <3> DEFINE f == FreeLine(c)  x == Opened(s, r)
    <3>1. f \in Lines /\ c[f].state = "RESET" /\ OnUse(c, s) = NoLine
      BY <2>16, Frees DEF May
    <3>2. x.owed /\ x.state \in {"UP", "DOWN"}
      <4>1. x.owed = TRUE
        BY DEF Opened, Reset
      <4> QED
        BY <2>16, <4>1, <1>2, Opening
    <3> HIDE DEF f, x
    <3>3. t[f].state = "RESET"
      BY <2>8, <3>1, ResetOK
    <3>4. Mine(t, s) = {}
      <4>1. {k \in Lines : c[k].srv = s
                /\ c[k].state \notin {"RESET", "ABORTED_INTERNAL"}} = {}
        BY <3>1, FirstIn, LineNumbers DEF OnUse
      <4>2. ASSUME NEW k \in Lines PROVE t[k].srv # s
        <5>1. s # None
          BY <1>2
        <5>2. t[k].srv = None \/ t[k].state \in {"UP", "DOWN"}
          BY <2>10, <2>11, LineStates
        <5> QED
          BY <2>8, <4>1, <5>1, <5>2, ResetOK
      <4> QED
        BY <4>2 DEF Mine
    <3>5. lines' = Put(t, f, x)
      <4>1. lines' = Drop(Put(c, f, x), g)
        BY <2>16 DEF f, x
      <4>2. CASE f = g
        <5>1. Put(c, f, x)[g].owed
          BY <2>7, <3>1, <3>2, <4>2 DEF Put
        <5>2. lines' = Put(c, f, x)
          BY <4>1, <5>1 DEF Drop
        <5>3. Put(t, f, x) = Put(c, f, x)
          BY <2>7, <4>2, <3>1 DEF Put, t
        <5> QED
          BY <5>2, <5>3
      <4>3. CASE f # g
        <5>1. ~Put(c, f, x)[g].owed
          BY <1>2, <2>7, <4>3 DEF Put
        <5>2. lines' = Put(Put(c, f, x), g, Reset)
          BY <4>1, <5>1 DEF Drop, Put
        <5>3. Put(Put(c, f, x), g, Reset) = Put(t, f, x)
          BY <1>2, <2>7, <3>1, <4>3 DEF Put, t
        <5> QED
          BY <5>2, <5>3
      <4> QED
        BY <4>2, <4>3
    <3> HIDE DEF s
    <3> QED
      BY <1>1, <1>2, <2>11, <2>13, <2>14, <2>16, <3>1, <3>3, <3>4, <3>5, Follows DEF x
  <2> QED
    BY <2>12, <2>15, <2>16
<1> QED
  BY <1>3, <1>4

LEMMA GiveUpStep ==
  ASSUME IInv, NEW s \in Servers, GiveUp(s)
  PROVE  IInv'
<1> DEFINE l == ToClose(lines, s)  t == Put(lines, l, Reset)  z == Failed(res[s])
<1>1. l # NoLine /\ lines' = t
  BY DEF GiveUp, Close, Put
<1>2. /\ res' = [res EXCEPT ![s] = z]
      /\ rsp' = rsp /\ req' = req /\ rung' = rung /\ UNCHANGED module
  BY DEF GiveUp
<1>3. TableOK(lines) /\ RungOK(lines, rung)
  BY DEF IInv
<1>4. l \in Lines /\ lines[l].srv = s
  BY <1>1, Closes
<1> HIDE DEF l
<1>5. Thinner(t, lines) /\ \A k \in Lines : Out(t[k]) => t[k] = lines[k]
  BY <1>3, <1>4, ResetOK DEF Thinner, Put, TableOK, Out
<1>6. /\ TableOK(t) /\ RungOK(t, rung')
      /\ \A u \in Servers : Mine(t, u) \subseteq Mine(lines, u)
  BY <1>2, <1>3, <1>5, Thinned, RungKept
<1>7. Good(req[s], rsp[s], peer[s], dict[s], Mine(t, s))
  BY <1>6, Closed DEF IInv
<1>8. Only(res, res', s, z) /\ ResOK(z)
  BY <1>2 DEF IInv, Only, ResOK, Failed
<1>9. Only(req, req', s, req[s]) /\ Only(rsp, rsp', s, rsp[s])
  BY <1>2 DEF IInv, Only
<1> HIDE DEF z, t
<1> QED
  BY <1>1, <1>2, <1>6, <1>7, <1>8, <1>9, ClientStep

LEMMA LoseStep ==
  ASSUME IInv, NEW s \in Servers, Lose(s)
  PROVE  IInv'
<1>1. /\ TableOK(lines) /\ RungOK(lines, rung)
      /\ Good(req[s], rsp[s], peer[s], dict[s], Mine(lines, s))
      /\ Only(res, res, s, res[s]) /\ ResOK(res[s])
      /\ Only(req, req, s, req[s]) /\ Only(rsp, rsp, s, rsp[s])
  BY DEF IInv, Only
<1>2. CASE req[s] # <<>> /\ req' = [req EXCEPT ![s] = Tail(@)]
           /\ UNCHANGED <<lines, module, rsp, rung, res>>
  <2>1. Good(Tail(req[s]), rsp[s], peer[s], dict[s], Mine(lines, s))
    BY <1>1, <1>2, RequestTaken
  <2>2. Only(req, req', s, Tail(req[s])) /\ lines' = lines /\ rsp' = rsp /\ res' = res
    BY <1>2 DEF IInv, Only
  <2> QED
    BY <1>1, <1>2, <2>1, <2>2, ClientStep
<1>3. CASE rsp[s] # <<>> /\ rsp' = [rsp EXCEPT ![s] = Tail(@)]
           /\ UNCHANGED <<lines, module, req, rung, res>>
  <2>1. Good(req[s], Tail(rsp[s]), peer[s], dict[s], Mine(lines, s))
    BY <1>1, <1>3, AnswerTaken
  <2>2. Only(rsp, rsp', s, Tail(rsp[s])) /\ lines' = lines /\ req' = req /\ res' = res
    BY <1>3 DEF IInv, Only
  <2> QED
    BY <1>1, <1>3, <2>1, <2>2, ClientStep
<1> QED
  BY <1>2, <1>3 DEF Lose

-----------------------------------------------------------------------------
(* The invariant, and what follows from it *)

LEMMA InitInv ==
  ASSUME Init PROVE IInv
<1>1. /\ lines = [l \in Lines |-> Reset] /\ peer = [s \in Servers |-> Reset]
      /\ dict = [s \in Servers |-> [o \in Objs |-> Whole(o, 0)]]
      /\ req = [s \in Servers |-> <<>>] /\ rsp = [s \in Servers |-> <<>>]
      /\ res = [s \in Servers |-> [obj |-> None, kind |-> "UP", data |-> <<>>,
                                   ok |-> FALSE, turn |-> FALSE]]
      /\ rung = NoAlarm
  BY DEF Init
<1>2. TableOK(lines) /\ RungOK(lines, rung)
  BY <1>1, ResetOK DEF TableOK, LineOK, RungOK, Out
<1>3. ASSUME NEW s \in Servers
      PROVE  Good(req[s], rsp[s], peer[s], dict[s], Mine(lines, s)) /\ ResOK(res[s])
  <2> DEFINE q == req[s]  a == rsp[s]  p == peer[s]  d == dict[s]  X == Mine(lines, s)
  <2>1. q = <<>> /\ a = <<>> /\ p = Reset /\ d = [o \in Objs |-> Whole(o, 0)]
    BY <1>1
  <2>2. q \in Seq(Frames) /\ a \in Seq(Frames) /\ Len(q) = 0 /\ Len(a) = 0
    BY <2>1
  <2>3. DictOK(d)
    BY <2>1 DEF DictOK, Wholes, Values
  <2>4. ResOK(res[s])
    <3>1. res[s] = [obj |-> None, kind |-> "UP", data |-> <<>>, ok |-> FALSE, turn |-> FALSE]
      BY <1>1
    <3> QED
      BY <3>1 DEF ResOK
  <2>5. PeerOK(p)
    BY <2>1, ResetOK
  <2> HIDE DEF q, a, p, d, X
  <2>6. Shape(q, a, p)
    BY <2>2 DEF Shape
  <2>7. Good(q, a, p, d, X)
    BY <2>2, <2>3, <2>5, <2>6 DEF Good
  <2> QED
    BY <2>4, <2>7 DEF q, a, p, d, X
<1> QED
  BY <1>1, <1>2, <1>3 DEF IInv

LEMMA NextInv ==
  ASSUME IInv, ~Late, [Next]_vars PROVE IInv'
<1>1. CASE UNCHANGED vars
  BY <1>1 DEF IInv, vars
<1>2. ASSUME NEW s \in Servers, \E r \in Requests : Begin(s, r) PROVE IInv'
  BY <1>2, BeginStep
<1>3. ASSUME NEW s \in Servers, Client(s) PROVE IInv'
  BY <1>3, ReadOnStep, ReadEndsStep, WriteOnStep, WriteEndsStep, UnexpectedStep, AbortedStep
     DEF Client
<1>4. ASSUME NEW s \in Servers, Server(s) PROVE IInv'
  BY <1>4, FailsStep, ServeReadStep, ServeSegmentStep, ServeWriteStep, ServeStoreStep,
     ServeAbortStep DEF Server
<1>5. ASSUME NEW s \in Servers, ServerTimeout(s) \/ GiveUp(s) \/ Lose(s) PROVE IInv'
  BY <1>5, ServerTimeoutStep, GiveUpStep, LoseStep
<1>6. ASSUME NEW l \in Lines, Timeout(l) PROVE IInv'
  BY <1>6, TimeoutStep
<1>7. CASE TimedOut
  BY <1>7, TimedOutStep
<1> QED
  BY <1>1, <1>2, <1>3, <1>4, <1>5, <1>6, <1>7 DEF Next

\* When no frame of a transfer meets the next one, the frames under way with a
\* module, the lines of its server and of its client, and its dictionary agree.
THEOREM Agreement == ASSUME ~Late PROVE Spec => []IInv
<1>1. Init => IInv
  BY InitInv
<1>2. IInv /\ [Next]_vars => IInv'
  BY NextInv
<1> QED
  BY <1>1, <1>2, PTL DEF Spec

\* The lines of client and servers and the dictionaries have their types; no
\* offset is beyond the data of its line.
THEOREM TypeCorrect == ASSUME ~Late PROVE Spec => []TypeOK
<1>1. IInv => TypeOK
  <2> SUFFICES ASSUME IInv PROVE TypeOK
    OBVIOUS
  <2>1. ASSUME NEW l \in Lines
        PROVE  /\ DOMAIN lines[l] = DOMAIN Reset
               /\ lines[l].state \in {"RESET", "UP", "DOWN", "FINISHED",
                                      "ABORTED_RCV", "ABORTED_INTERNAL"}
               /\ lines[l].offset \in 0..Len(lines[l].data)
    <3>0. CASE Stopped(lines[l])
      <4>1. Len(<<>>) = 0
        OBVIOUS
      <4> QED
        BY <3>0, <4>1 DEF Stopped, Out
    <3> SUFFICES ASSUME LineOK(lines[l])
                 PROVE  /\ DOMAIN lines[l] = DOMAIN Reset
                        /\ lines[l].state \in {"RESET", "UP", "DOWN", "FINISHED",
                                               "ABORTED_RCV", "ABORTED_INTERNAL"}
                        /\ lines[l].offset \in 0..Len(lines[l].data)
      BY <3>0 DEF IInv, TableOK
    <3>1. LineOK(lines[l]) /\ Record(lines[l])
      BY ResetOK DEF LineOK
    <3>2. Len(lines[l].data) \in Nat /\ lines[l].offset \in Nat
      BY <3>1, LenProperties DEF Record, Data
    <3>3. lines[l] = Reset => lines[l].offset = 0
      BY DEF Reset
    <3>4. lines[l].offset <= Len(lines[l].data)
      BY <3>1, <3>2, <3>3 DEF LineOK, Record
    <3> QED
      BY <3>1, <3>2, <3>4 DEF Record
  <2>2. ASSUME NEW s \in Servers
        PROVE  /\ peer[s].state \in {"RESET", "UP", "DOWN"}
               /\ peer[s].state # "RESET" => Len(peer[s].data) <= Segs[peer[s].obj]
               /\ \A o \in Objs : Len(dict[s][o]) \in 1..Segs[o]
    <3>1. PeerOK(peer[s]) /\ DictOK(dict[s])
      BY DEF IInv, Good
    <3>2. \A o \in Objs : Len(dict[s][o]) \in 1..Segs[o]
      BY <3>1, WholeData DEF DictOK
    <3>3. peer[s].state = "UP" => Len(peer[s].data) <= Segs[peer[s].obj]
      BY <3>1, WholeData DEF PeerOK
    <3>4. peer[s].state = "DOWN" => Len(peer[s].data) <= Segs[peer[s].obj]
      <4>1. Len(peer[s].data) \in Nat
        BY <3>1, LenProperties DEF PeerOK, Record, Data
      <4> QED
        BY <3>1, <4>1 DEF PeerOK
    <3> QED
      BY <3>1, <3>2, <3>3, <3>4 DEF PeerOK, Record
  <2>3. rung.line \in Lines \cup {NoLine}
    BY DEF IInv, RungOK, NoAlarm
  <2> QED
    BY <2>1, <2>2, <2>3 DEF TypeOK
<1> QED
  BY <1>1, Agreement, PTL

\* No object of a module, and nothing a finished read gave its caller, is torn or
\* mixed, whatever frames are lost and whichever side gives up.
THEOREM NothingIsTorn == ASSUME ~Late PROVE Spec => []NothingTorn
<1>1. IInv => NothingTorn
  BY DEF IInv, Good, DictOK, ResOK, NothingTorn
<1> QED
  BY <1>1, Agreement, PTL

\* Every line that is not free, but the one TIMER has in hand, has an alarm that
\* will free it, and it is the only such line of its module.
THEOREM LinesReturned == ASSUME ~Late PROVE Spec => []LineReturned
<1>1. IInv => LineReturned
  <2> SUFFICES ASSUME IInv, NEW l \in Lines \ {rung.line}, lines[l].state # "RESET"
               PROVE  /\ lines[l].state \in {"UP", "DOWN"}
                      /\ \A k \in Lines \ {l, rung.line} : lines[k].srv # lines[l].srv
    BY DEF LineReturned
  <2>1. TableOK(lines) /\ \A k \in Lines \ {rung.line} : ~Out(lines[k])
    BY DEF IInv, RungOK
  <2>2. lines[l].srv \in Servers /\ lines[l].state \in {"UP", "DOWN"}
    BY <2>1, LineStates
  <2> QED
    BY <2>1, <2>2 DEF TableOK
<1> QED
  BY <1>1, Agreement, PTL

\* A write whose caller is told that it finished has been done: the object in the
\* module's dictionary is the one that was written.
THEOREM WritesAreDone == ASSUME ~Late PROVE Spec => WritesDone
<1> DEFINE Done(s) == res'[s].turn # res[s].turn /\ res'[s].ok /\ res'[s].kind = "DOWN"
                        => dict[s][res'[s].obj] = res'[s].data
<1>0. ASSUME IInv, NEW s \in Servers, res' = [res EXCEPT ![s] = Failed(@)]
      PROVE  \A u \in Servers : Done(u)
  <2>1. ~res'[s].ok /\ \A u \in Servers \ {s} : res'[u] = res[u]
    BY <1>0 DEF IInv, Failed
  <2> QED
    BY <2>1
\* the only result that changes is that of the module whose transfer ends
<1>1. ASSUME IInv, NEW s \in Servers, NEW l, NEW state, NEW data, Ends(s, l, state, data),
             state = "FINISHED" /\ lines[l].state = "DOWN" => dict[s][lines[l].obj] = data
      PROVE  \A u \in Servers : Done(u)
  <2>1. DOMAIN res = Servers
    BY <1>1 DEF IInv
  <2>2. CASE state = "FINISHED"
    <3>1. res' = [res EXCEPT ![s] = [obj |-> lines[l].obj, kind |-> lines[l].state,
                     data |-> data, ok |-> TRUE, turn |-> ~@.turn]]
      BY <1>1, <2>2 DEF Ends
    <3>2. /\ \A u \in Servers \ {s} : res'[u] = res[u]
          /\ res'[s].obj = lines[l].obj /\ res'[s].kind = lines[l].state
          /\ res'[s].data = data
      BY <2>1, <3>1
    <3> QED
      BY <1>1, <2>2, <3>2
  <2>3. CASE state # "FINISHED"
    <3>1. res' = [res EXCEPT ![s] = Failed(@)]
      BY <1>1, <2>3 DEF Ends
    <3> QED
      BY <1>0, <1>1, <3>1
  <2> QED
    BY <2>2, <2>3
<1>2. ASSUME IInv, Next PROVE \A u \in Servers : Done(u)
  <2>1. CASE res' = res
    BY <2>1
  <2>2. ASSUME NEW s \in Servers, ReadEnds(s) PROVE \A u \in Servers : Done(u)
    <3> DEFINE m == Head(rsp[s])  l == OnUse(lines, s)
    <3>1. /\ Ends(s, l, "FINISHED", lines[l].data \o m.data)
          /\ Fits(l, m) /\ m.cs \in {"init_up_ok", "up_ok"}
      BY <2>2 DEF ReadEnds
    <3>2. lines[l].state = "UP"
      BY <3>1 DEF Fits
    <3> QED
      BY <1>1, <1>2, <3>1, <3>2
  <2>3. ASSUME NEW s \in Servers, WriteEnds(s) PROVE \A u \in Servers : Done(u)
    <3> DEFINE l == OnUse(lines, s)
    <3>1. Ends(s, l, "FINISHED", lines[l].data)
      BY <2>3 DEF WriteEnds
    <3>2. dict[s][lines[l].obj] = lines[l].data
      BY <1>2, <2>3, LastWrite
    <3> QED
      BY <1>1, <1>2, <3>1, <3>2
  <2>4. ASSUME NEW s \in Servers, Aborted(s) PROVE \A u \in Servers : Done(u)
    <3>1. CASE OnUse(lines, s) = NoLine
      BY <2>1, <2>4, <3>1 DEF Aborted
    <3>2. CASE OnUse(lines, s) # NoLine
      BY <1>1, <1>2, <2>4, <3>2 DEF Aborted
    <3> QED
      BY <3>1, <3>2
  <2>5. ASSUME NEW l \in Lines, Timeout(l) PROVE \A u \in Servers : Done(u)
    BY <2>1, <2>5 DEF Timeout
  <2>6. CASE TimedOut
    <3>1. rung.srv \in Servers
      BY <1>2, <2>6 DEF TimedOut, IInv, RungOK
    <3> QED
      BY <1>0, <1>2, <2>1, <2>6, <3>1 DEF TimedOut
  <2>7. ASSUME NEW s \in Servers, GiveUp(s) PROVE \A u \in Servers : Done(u)
    BY <1>0, <1>2, <2>7 DEF GiveUp
  <2>8. CASE \E s \in Servers : \/ \E r \in Requests : Begin(s, r)
                                \/ ReadOn(s) \/ WriteOn(s) \/ Unexpected(s)
                                \/ Server(s) \/ ServerTimeout(s) \/ Lose(s)
    <3>1. ASSUME NEW s \in Servers, NEW r \in Requests, Begin(s, r) PROVE res' = res
      BY <3>1 DEF Begin
    <3>2. ASSUME NEW s \in Servers, ReadOn(s) \/ WriteOn(s) \/ Unexpected(s) PROVE res' = res
      BY <3>2 DEF ReadOn, WriteOn, Unexpected
    <3>3. ASSUME NEW s \in Servers, ServerTimeout(s) \/ Lose(s) PROVE res' = res
      BY <3>3 DEF ServerTimeout, Lose
    <3>4. ASSUME NEW s \in Servers, Server(s) PROVE res' = res
      BY <3>4 DEF Server, ServeRead, ServeSegment, ServeWrite, ServeStore, ServeAbort, Fails,
                  Serve
    <3> QED
      BY <2>1, <2>8, <3>1, <3>2, <3>3, <3>4
  <2> HIDE DEF Done
  <2> QED
    BY <1>2, <2>2, <2>3, <2>4, <2>5, <2>6, <2>7, <2>8 DEF Next, Client
<1>3. IInv /\ [Next]_vars => [\A s \in Servers :
          res'[s].turn # res[s].turn /\ res'[s].ok /\ res'[s].kind = "DOWN"
            => dict[s][res'[s].obj] = res'[s].data]_vars
  BY <1>2
<1> QED
  BY <1>3, Agreement, PTL DEF Spec, WritesDone
=============================================================================
