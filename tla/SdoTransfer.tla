---------------------------- MODULE SdoTransfer ----------------------------
(***************************************************************************)
(* SDO transfers (sdo.c), expedited and in segments: the client half, which  *)
(* reads the identity of the modules and writes their configuration, against *)
(* the server half of the same file, which stands for the modules.  A        *)
(* request or an answer may be lost on the way (the transmit buffer is busy, *)
(* the receive queue full, the module reset), and either side gives up after *)
(* SDO_TIMEOUT.  Lines are shared by the transfers with all the modules; the *)
(* alarm of a line is the one of TimerTable, here always granted.            *)
(***************************************************************************)
EXTENDS Naturals, Sequences

CONSTANTS Servers,   \* the modules
          NLines,    \* SDO_MAX_SIMULTANEOUS_TRANSFERS
          Objs,      \* the objects read and written
          Segs,      \* how many segments an object takes; 1 is expedited
          None,      \* no module, no object
          Late,      \* may a frame of a transfer meet the next one?
          Flight     \* bound: messages under way with a module at a timeout

Lines == 1..NLines
NoLine == 0

ASSUME SdoAssumption == NLines \in Nat \ {0} /\ None \notin Servers \cup Objs
                        /\ Segs \in [Objs -> Nat \ {0}] /\ Late \in BOOLEAN

VARIABLES
  lines,     \* d->transfers, of which whoami = SDO_CLIENT
  peer,      \* the line of each module's server
  dict,      \* the objects in the dictionaries of the modules
  req, rsp,  \* the frames on the way to and from each module
  rung,      \* the alarm TIMER is about to call back for: its line and module
  res        \* history: what the last transfer ended with gave its caller

vars == <<lines, peer, dict, req, rsp, rung, res>>
module == <<peer, dict>>

\* The value v of object o, as the segments it travels in
Values == {0, 1}
Whole(o, v) == [k \in 1..Segs[o] |-> <<o, v, k>>]
Wholes(o) == {Whole(o, v) : v \in Values}

\* What a caller asks for: readNetworkDictCallback, writeNetworkDictCallBack
Requests == [kind : {"UP"}, obj : Objs, data : {<<>>}]
            \cup UNION {[kind : {"DOWN"}, obj : {o}, data : Wholes(o)] : o \in Objs}
NoRequest == [kind |-> "none", obj |-> None, data |-> <<>>]

Reset == [state |-> "RESET", srv |-> None, obj |-> None, data |-> <<>>,
          offset |-> 0, toggle |-> 0, owed |-> FALSE]

TypeOK ==
  /\ \A l \in Lines : /\ DOMAIN lines[l] = DOMAIN Reset
                      /\ lines[l].state \in {"RESET", "UP", "DOWN", "FINISHED",
                                             "ABORTED_RCV", "ABORTED_INTERNAL"}
                      /\ lines[l].offset \in 0..Len(lines[l].data)
  /\ rung.line \in Lines \cup {NoLine}
  /\ \A s \in Servers :
       /\ peer[s].state \in {"RESET", "UP", "DOWN"}
       /\ peer[s].state # "RESET" => Len(peer[s].data) <= Segs[peer[s].obj]
       /\ \A o \in Objs : Len(dict[s][o]) \in 1..Segs[o]

NoAlarm == [line |-> NoLine, srv |-> None]

Init ==
  /\ lines = [l \in Lines |-> Reset]
  /\ rung = NoAlarm
  /\ peer = [s \in Servers |-> Reset]
  /\ dict = [s \in Servers |-> [o \in Objs |-> Whole(o, 0)]]
  /\ req = [s \in Servers |-> <<>>] /\ rsp = [s \in Servers |-> <<>>]
  /\ res = [s \in Servers |-> [obj |-> None, kind |-> "UP", data |-> <<>>,
                               ok |-> FALSE, turn |-> FALSE]]

Frame(cs, o, t, last, data) ==
  [cs |-> cs, obj |-> o, toggle |-> t, last |-> last, data |-> data]
Abort == Frame("abort", None, 0, TRUE, <<>>)

----------------------------------------------------------------------------
(* The lines: what the program sees of a table t of lines *)

First(S) == IF S = {} THEN NoLine ELSE CHOOSE l \in S : \A k \in S : l <= k

FreeLine(t) == First({l \in Lines : t[l].state = "RESET"})
OnUse(t, s) == First({l \in Lines : t[l].srv = s
                        /\ t[l].state \notin {"RESET", "ABORTED_INTERNAL"}})
ToClose(t, s) == First({l \in Lines : t[l].srv = s /\ t[l].state # "RESET"})

\* closeSDOtransfer: the first line that is not free
Close(t, s) == LET l == ToClose(t, s) IN
  IF l = NoLine THEN t ELSE [t EXCEPT ![l] = Reset]

\* getReadResultNetworkDict and getWriteResultNetworkDict
Fetch(t, s) == LET l == OnUse(t, s) IN
  IF l = NoLine \/ t[l].state # "FINISHED" THEN t ELSE [t EXCEPT ![l] = Reset]

\* A line that timed out is reset at last, unless it is that of a new transfer.
Drop(t, l) == IF t[l].owed THEN t ELSE [t EXCEPT ![l] = Reset]

\* An expedited download has nothing left to send when it begins.
Opened(s, r) ==
  [Reset EXCEPT !.state = r.kind, !.srv = s, !.obj = r.obj, !.data = r.data,
     !.offset = IF Len(r.data) = 1 THEN 1 ELSE 0, !.owed = TRUE]

\* slip: nobody looks whether the module is busy
MayAny(t, s, r) == r # NoRequest /\ FreeLine(t) # NoLine

\* _readNetworkDict and _writeNetworkDict refuse a module that a transfer is
\* under way with, and when no line is free.
May(t, s, r) == r # NoRequest /\ OnUse(t, s) = NoLine /\ FreeLine(t) # NoLine

Begun(t, s, r) == IF May(t, s, r) THEN [t EXCEPT ![FreeLine(t)] = Opened(s, r)] ELSE t

Initiate(t, s, r) ==
  IF ~May(t, s, r) THEN <<>>
  ELSE IF r.kind = "UP" THEN <<Frame("init_up", r.obj, 0, FALSE, <<>>)>>
  ELSE <<Frame("init_down", r.obj, 0, Len(r.data) = 1,
               IF Len(r.data) = 1 THEN r.data ELSE <<>>)>>

----------------------------------------------------------------------------
(* The client *)

Send(s, ms) == req' = [req EXCEPT ![s] = @ \o ms]

\* Nothing but the abort of the transfer before may meet a new one.
Clear(s) == Late \/ (req[s] \in {<<>>, <<Abort>>} /\ rsp'[s] = <<>>)

\* MAIN or RPDO asks; if canSend fails the line is released, as if it had not.
Begin(s, r) ==
  /\ UNCHANGED <<module, rsp, rung, res>>
  /\ May(lines, s, r) /\ Clear(s)
  /\ lines' = Begun(lines, s, r) /\ Send(s, Initiate(lines, s, r))

\* Line l ends in a state
Over(l, state, data) ==
  [lines EXCEPT ![l].state = state, ![l].data = data, ![l].owed = FALSE]

\* The callback for module s meets the lines t: it fetches the result and closes
\* the transfer, and may ask for the next one, r.
Left(t, s) == Close(Fetch(t, s), s)
AsksFor(s, t, r) == (r = NoRequest \/ Clear(s)) /\ Send(s, Initiate(Left(t, s), s, r))

\* A transfer that gave its caller no result
Failed(z) == [obj |-> None, kind |-> "UP", data |-> <<>>, ok |-> FALSE, turn |-> ~z.turn]

\* RPDO: line l ends, and its callback may begin the next transfer.
Ends(s, l, state, data) ==
  LET end == Over(l, state, data) IN
  /\ \E r \in Requests \cup {NoRequest} :
       AsksFor(s, end, r) /\ lines' = Begun(Left(end, s), s, r)
  /\ res' = [res EXCEPT ![s] = IF state # "FINISHED" THEN Failed(@) ELSE
                [obj |-> lines[l].obj, kind |-> lines[l].state, data |-> data,
                 ok |-> TRUE, turn |-> ~@.turn]]
  /\ UNCHANGED module

\* RPDO takes an answer.  While TIMER has yet to call back, none to a transfer the
\* module has begun meanwhile: RPDO waits for that one to be sent, and TIMER goes on.
Answered(s) ==
  /\ rsp[s] # <<>> /\ (rung.srv = s => OnUse(lines, s) = NoLine)
  /\ rsp' = [rsp EXCEPT ![s] = Tail(@)] /\ UNCHANGED rung

\* The answer m is one that line l waits for.
Fits(l, m) ==
  /\ l # NoLine
  /\ \/ m.cs = "init_up_ok" /\ lines[l].state = "UP"
     \/ m.cs = "up_ok" /\ lines[l].state = "UP" /\ m.toggle = lines[l].toggle
     \/ m.cs = "init_down_ok" /\ lines[l].state = "DOWN"
     \/ m.cs = "down_ok" /\ lines[l].state = "DOWN" /\ m.toggle = lines[l].toggle

\* proceedSDO, client, cs 0 and 2: a read that has more segments to come
ReadOn(s) ==
  LET m == Head(rsp[s])  l == OnUse(lines, s)
      t == IF m.cs = "up_ok" THEN 1 - lines[l].toggle ELSE lines[l].toggle
  IN /\ Answered(s) /\ Fits(l, m)
     /\ m.cs \in {"init_up_ok", "up_ok"} /\ ~m.last
     /\ lines' = [lines EXCEPT ![l].toggle = t, ![l].data = @ \o m.data]
     /\ Send(s, <<Frame("up", None, IF m.cs = "up_ok" THEN t ELSE 0, FALSE, <<>>)>>)
     /\ UNCHANGED <<module, res>>

\* ... and one that has its last
ReadEnds(s) ==
  LET m == Head(rsp[s])  l == OnUse(lines, s)
  IN /\ Answered(s) /\ Fits(l, m)
     /\ m.cs \in {"init_up_ok", "up_ok"} /\ m.last
     /\ Ends(s, l, "FINISHED", lines[l].data \o m.data)

\* cs 1 and 3: the next segment of a write; the toggle of the first one is 0.
WriteOn(s) ==
  LET m == Head(rsp[s])  l == OnUse(lines, s)  k == lines[l].offset + 1
      t == IF m.cs = "down_ok" THEN 1 - lines[l].toggle ELSE lines[l].toggle
  IN /\ Answered(s) /\ Fits(l, m)
     /\ m.cs \in {"init_down_ok", "down_ok"} /\ k <= Len(lines[l].data)
     /\ lines' = [lines EXCEPT ![l].toggle = t, ![l].offset = k]
     /\ Send(s, <<Frame("down", None, t, k = Len(lines[l].data), <<lines[l].data[k]>>)>>)
     /\ UNCHANGED <<module, res>>

\* slip: the write is over when its last segment is sent
WriteEndsEarly(s) ==
  LET m == Head(rsp[s])  l == OnUse(lines, s)
  IN /\ Answered(s) /\ Fits(l, m)
     /\ m.cs \in {"init_down_ok", "down_ok"}
     /\ lines[l].offset + 1 >= Len(lines[l].data)
     /\ Ends(s, l, "FINISHED", lines[l].data)

WriteEnds(s) ==
  LET m == Head(rsp[s])  l == OnUse(lines, s)
  IN /\ Answered(s) /\ Fits(l, m)
     /\ m.cs \in {"init_down_ok", "down_ok"} /\ lines[l].offset = Len(lines[l].data)
     /\ Ends(s, l, "FINISHED", lines[l].data)

\* failedSDO of a client: the line is aborted, and nobody is told.
Unexpected(s) ==
  LET m == Head(rsp[s])  l == OnUse(lines, s)
  IN /\ Answered(s) /\ m.cs # "abort" /\ ~Fits(l, m)
     /\ lines' = IF l = NoLine THEN lines
                 ELSE [lines EXCEPT ![l].state = "ABORTED_INTERNAL"]
     /\ Send(s, <<Abort>>)
     /\ UNCHANGED <<module, res>>

\* slip: an abort ends a transfer like the last answer
AbortedFinished(s) ==
  LET l == OnUse(lines, s)
  IN /\ Answered(s) /\ Head(rsp[s]).cs = "abort"
     /\ IF l = NoLine THEN UNCHANGED <<lines, req, res, module>>
        ELSE Ends(s, l, "FINISHED", lines[l].data)

\* cs 4
Aborted(s) ==
  LET l == OnUse(lines, s)
  IN /\ Answered(s) /\ Head(rsp[s]).cs = "abort"
     /\ IF l = NoLine THEN UNCHANGED <<lines, req, res, module>>
        ELSE Ends(s, l, "ABORTED_RCV", lines[l].data)

\* A timeout may come with the answer under way; see the bound.
Bounded(s) == Len(req[s]) + Len(rsp[s]) < Flight

\* SDOTimeoutAlarm: the line is aborted, which takes it out of use (no one looks
\* at its data any more), and the abort sent.  TIMER may wait in canSend, and be
\* preempted by RPDO after it ...
Timeout(l) ==
  /\ rung = NoAlarm /\ lines[l].state \in {"UP", "DOWN"} /\ Bounded(lines[l].srv)
  /\ rung' = [line |-> l, srv |-> lines[l].srv]
  /\ lines' = [lines EXCEPT ![l] = [Reset EXCEPT !.state = "ABORTED_INTERNAL",
                  !.srv = lines[l].srv, !.owed = TRUE]]
  /\ Send(lines[l].srv, <<Abort>>)
  /\ UNCHANGED <<module, rsp, res>>

\* slip: the line is reset before its callback is looked up
TimedOutSilent ==
  /\ rung # NoAlarm /\ rung' = NoAlarm
  /\ lines' = [lines EXCEPT ![rung.line] = Reset]
  /\ UNCHANGED <<module, req, rsp, res>>

\* ... and then calls back for the module, if the line has a callback by now.
TimedOut ==
  /\ rung # NoAlarm /\ rung' = NoAlarm /\ UNCHANGED <<module, rsp>>
  /\ LET s == rung.srv
         end == [lines EXCEPT ![rung.line].owed = FALSE] IN
     IF lines[rung.line].owed
     THEN /\ \E r \in Requests \cup {NoRequest} :
               /\ AsksFor(s, end, r)
               /\ lines' = Drop(Begun(Left(end, s), s, r), rung.line)
          /\ res' = [res EXCEPT ![s] = Failed(@)]
     ELSE UNCHANGED <<lines, req, res>>

\* The scan does not wait that long: it closes the transfer (IOCoupler.c:437).
GiveUp(s) ==
  /\ ToClose(lines, s) # NoLine /\ Bounded(s)
  /\ lines' = Close(lines, s)
  /\ res' = [res EXCEPT ![s] = Failed(@)]
  /\ UNCHANGED <<module, req, rsp, rung>>

----------------------------------------------------------------------------
(* The server *)

\* The module takes a request, answers ms and has the line p and dictionary d.
Serve(s, p, d, ms) ==
  /\ req' = [req EXCEPT ![s] = Tail(@)]
  /\ rsp' = [rsp EXCEPT ![s] = @ \o ms]
  /\ peer' = [peer EXCEPT ![s] = p] /\ dict' = [dict EXCEPT ![s] = d]
  /\ UNCHANGED <<lines, rung, res>>

Asked(s, cs) == req[s] # <<>> /\ Head(req[s]).cs = cs

\* failedSDO of a server: a request out of place, or refused by the dictionary
Fails(s) ==
  LET m == Head(req[s])  p == peer[s]
  IN /\ req[s] # <<>>
     /\ \/ m.cs \in {"init_up", "init_down"}
        \/ m.cs = "up" /\ (p.state # "UP" \/ p.toggle # m.toggle)
        \/ m.cs = "down" /\ (p.state # "DOWN" \/ p.toggle # m.toggle)
     /\ Serve(s, Reset, dict[s], <<Abort>>)

\* proceedSDO, server, cs 2: objdictToSDOline copies the object to the line.
ServeRead(s) ==
  LET m == Head(req[s])  v == dict[s][m.obj]
  IN /\ Asked(s, "init_up") /\ peer[s].state = "RESET"
     /\ IF Len(v) = 1 THEN Serve(s, Reset, dict[s], <<Frame("init_up_ok", m.obj, 0, TRUE, v)>>)
        ELSE Serve(s, [Reset EXCEPT !.state = "UP", !.obj = m.obj, !.data = v],
                   dict[s], <<Frame("init_up_ok", m.obj, 0, FALSE, <<>>)>>)

\* cs 3
ServeSegment(s) ==
  LET m == Head(req[s])  p == peer[s]  k == p.offset + 1  last == k = Len(p.data)
  IN /\ Asked(s, "up") /\ p.state = "UP" /\ p.toggle = m.toggle
     /\ Serve(s, IF last THEN Reset ELSE [p EXCEPT !.offset = k, !.toggle = 1 - @],
              dict[s], <<Frame("up_ok", None, m.toggle, last, <<p.data[k]>>)>>)

\* slip: a write is begun on the line of the one before
ServeWriteAgain(s) ==
  LET m == Head(req[s])
  IN /\ Asked(s, "init_down")
     /\ IF m.last THEN Serve(s, peer[s], [dict[s] EXCEPT ![m.obj] = m.data],
                             <<Frame("init_down_ok", m.obj, 0, FALSE, <<>>)>>)
        ELSE Serve(s, [peer[s] EXCEPT !.state = "DOWN", !.obj = m.obj],
                   dict[s], <<Frame("init_down_ok", m.obj, 0, FALSE, <<>>)>>)

\* cs 1: an expedited write is done at once.
ServeWrite(s) ==
  LET m == Head(req[s])
  IN /\ Asked(s, "init_down") /\ peer[s].state = "RESET"
     /\ IF m.last THEN Serve(s, Reset, [dict[s] EXCEPT ![m.obj] = m.data],
                             <<Frame("init_down_ok", m.obj, 0, FALSE, <<>>)>>)
        ELSE Serve(s, [Reset EXCEPT !.state = "DOWN", !.obj = m.obj],
                   dict[s], <<Frame("init_down_ok", m.obj, 0, FALSE, <<>>)>>)

\* cs 0: the object is written when its last segment has come.
ServeStore(s) ==
  LET m == Head(req[s])  p == peer[s]  v == p.data \o m.data
  IN /\ Asked(s, "down") /\ p.state = "DOWN" /\ p.toggle = m.toggle
     /\ Serve(s, IF m.last THEN Reset ELSE [p EXCEPT !.data = v, !.toggle = 1 - @],
              IF m.last THEN [dict[s] EXCEPT ![p.obj] = v] ELSE dict[s],
              <<Frame("down_ok", None, m.toggle, FALSE, <<>>)>>)

ServeAbort(s) == Asked(s, "abort") /\ Serve(s, Reset, dict[s], <<>>)

\* The server's line times out too.
ServerTimeout(s) ==
  /\ peer[s].state # "RESET" /\ Bounded(s) /\ (Late \/ req[s] = <<>>)
  /\ peer' = [peer EXCEPT ![s] = Reset] /\ rsp' = [rsp EXCEPT ![s] = @ \o <<Abort>>]
  /\ UNCHANGED <<lines, dict, req, rung, res>>

----------------------------------------------------------------------------
\* A frame is lost: refused by canSend, dropped by a full receive queue.
Lose(s) ==
  \/ req[s] # <<>> /\ req' = [req EXCEPT ![s] = Tail(@)] /\ UNCHANGED <<lines, module, rsp, rung, res>>
  \/ rsp[s] # <<>> /\ rsp' = [rsp EXCEPT ![s] = Tail(@)] /\ UNCHANGED <<lines, module, req, rung, res>>

Client(s) == ReadOn(s) \/ ReadEnds(s) \/ WriteOn(s) \/ WriteEnds(s)
             \/ Unexpected(s) \/ Aborted(s)

Server(s) == Fails(s) \/ ServeRead(s) \/ ServeSegment(s) \/ ServeWrite(s)
             \/ ServeStore(s) \/ ServeAbort(s)

Next == \/ \E s \in Servers : \/ \E r \in Requests : Begin(s, r)
                              \/ Client(s) \/ Server(s) \/ ServerTimeout(s)
                              \/ GiveUp(s) \/ Lose(s)
        \/ \E l \in Lines : Timeout(l)
        \/ TimedOut

Spec == Init /\ [][Next]_vars

(* Frames are handled, those of the modules too, and alarms ring. *)
Fairness == /\ \A s \in Servers : WF_vars(Client(s)) /\ WF_vars(Server(s))
            /\ \A l \in Lines : WF_vars(Timeout(l))
            /\ WF_vars(TimedOut)

FairSpec == Spec /\ Fairness

----------------------------------------------------------------------------
(* Properties *)

\* Neither the objects of a module nor what a finished read gave its caller is
\* torn or mixed, whatever frames are lost and whichever side gives up on which
\* segment; no segment names its object, and the client looks at the name in no
\* answer.
NothingTorn == \A s \in Servers :
  /\ \A o \in Objs : dict[s][o] \in Wholes(o)
  /\ res[s].ok /\ res[s].kind = "UP" => res[s].data \in Wholes(res[s].obj)

\* A write that finished has been done.
WritesDone == [][\A s \in Servers :
  res'[s].turn # res[s].turn /\ res'[s].ok /\ res'[s].kind = "DOWN"
    => dict[s][res'[s].obj] = res'[s].data]_vars

\* "Otherwise this sdo transfer would never be closed" (sdo.c:164): every line
\* that is not free has an alarm, for a line no alarm or callback will close
\* refuses its module every later transfer; there is one for a module.
LineReturned == \A l \in Lines \ {rung.line} : lines[l].state # "RESET" =>
  /\ lines[l].state \in {"UP", "DOWN"}
  /\ \A k \in Lines \ {l, rung.line} : lines[k].srv # lines[l].srv

\* Every transfer ends: each caller gets an answer, an abort or a timeout.
Ended == \A s \in Servers, b \in BOOLEAN :
  OnUse(lines, s) # NoLine /\ res[s].turn = b ~> res[s].turn # b

\* "The function Callback ... is called at the end of the exchange. (on succes
\* or abort)" (sdo.h:321)
CallbackAtEnd == \A l \in Lines \ {rung.line} :
  lines[l].state \in {"FINISHED", "ABORTED_RCV", "ABORTED_INTERNAL"} => ~lines[l].owed
=============================================================================
