------------------------- MODULE ScanRequest_proofs -------------------------
(***************************************************************************)
(* Proofs about ScanRequest for any number of pages, whatever the RAM holds *)
(* at power on and whenever the caches write back.                          *)
(***************************************************************************)
EXTENDS ScanRequest, TLAPS

USE LeftAssumption, NamesAssumption, EarlyAssumption

\* the core whose section it is
CoreOfLock == IF lock = "main" THEN 0 ELSE 1

\* Before core 1 is up no page can reach it, and it locks once, to start.
StartUp ==
  /\ eip # "up" => /\ \A k \in Clients : scan[k] = "none" /\ client[k] = "idle"
                   /\ lock \in {"free", "main", "eip"}
  /\ lock = "eip" => eip = "init"
  /\ \A k \in Clients : lock = k => client[k] \in {"posting", "polling"}

Wanted == \E k \in Clients : scan[k] = "wanted"

\* While a scan is wanted, every copy of the line that could still reach the
\* RAM holds the command: the dirty ones, and the one of the core in a section.
CopiesKeep ==
  /\ ~dirty[0]
  /\ Wanted =>
       /\ mem.ws_cmd = "SCAN_IO"
       /\ dirty[1] => cache[1].ws_cmd = "SCAN_IO"
       /\ lock # "free" /\ cache[CoreOfLock] # NoLine
            => cache[CoreOfLock].ws_cmd = "SCAN_IO"

Inv == TypeOK /\ StartUp /\ CopiesKeep

-----------------------------------------------------------------------------
(* What a section sees *)

\* A section finds a well-formed line, which holds the command while a scan is
\* wanted.
LEMMA SeenFacts ==
  ASSUME Inv
  PROVE  /\ \A c \in Cores : Seen(c) \in Line
         /\ Wanted /\ lock # "free" => Seen(CoreOfLock).ws_cmd = "SCAN_IO"
<1>1. \A c \in Cores : Seen(c) \in Line
  BY DEF Inv, TypeOK, Seen
<1>2. Wanted /\ lock # "free" => Seen(CoreOfLock).ws_cmd = "SCAN_IO"
  BY DEF Inv, CopiesKeep, Seen
<1> QED
  BY <1>1, <1>2

\* A section of core c that ends with a line x keeping the command keeps
\* CopiesKeep.
LEMMA UnlockFacts ==
  ASSUME Inv, NEW c \in Cores, NEW x \in Line, Unlock(c, x),
         Wanted' => x.ws_cmd = "SCAN_IO",
         Wanted' => Wanted \/ c = 1
  PROVE  /\ CopiesKeep'
         /\ mem' \in Line /\ lock' = "free"
         /\ cache' \in [Cores -> Line \cup {NoLine}]
         /\ dirty' \in [Cores -> BOOLEAN]
         /\ \A d \in Cores : dirty'[d] => cache'[d] # NoLine
<1>1. mem' = x /\ lock' = "free"
  BY DEF Unlock
<1>2. cache' = [cache EXCEPT ![c] = x] /\ dirty' = [dirty EXCEPT ![c] = FALSE]
  BY DEF Unlock
<1>3. cache \in [Cores -> Line \cup {NoLine}] /\ dirty \in [Cores -> BOOLEAN]
  BY DEF Inv, TypeOK
<1>4. \A d \in Cores : dirty[d] => cache[d] # NoLine
  BY DEF Inv, TypeOK
<1>5. ~dirty'[0]
  BY <1>2, <1>3 DEF Inv, CopiesKeep, Cores
<1>6. Wanted' => (dirty'[1] => cache'[1].ws_cmd = "SCAN_IO")
  BY <1>2, <1>3 DEF Inv, CopiesKeep, Cores
<1>7. CopiesKeep'
  BY <1>1, <1>5, <1>6 DEF CopiesKeep
<1>8. \A d \in Cores : dirty'[d] => cache'[d] # NoLine
  BY <1>2, <1>3, <1>4 DEF Cores
<1>9. /\ cache' \in [Cores -> Line \cup {NoLine}]
      /\ dirty' \in [Cores -> BOOLEAN]
  BY <1>2, <1>3
<1> QED
  BY <1>1, <1>7, <1>8, <1>9

-----------------------------------------------------------------------------
(* One lemma per actor *)

\* The steps of MAIN that write the line.
LEMMA MainWrites ==
  ASSUME Inv, InitData0 \/ Running \/ Finish \/ Beat \/ Take \/ Drop
  PROVE  Inv'
<1>1. lock = "main" /\ CoreOfLock = 0 /\ 0 \in Cores
  BY DEF InitData0, Running, Finish, Beat, Take, Drop, In, CoreOfLock, Cores
<1>2. Seen(0) \in Line /\ (Wanted => Seen(0).ws_cmd = "SCAN_IO")
  BY <1>1, SeenFacts
<1>3. PICK x \in Line : /\ Unlock(0, x)
                        /\ ~Take => x.ws_cmd = Seen(0).ws_cmd
  <2>1. CASE InitData0
    <3> DEFINE x == [Seen(0) EXCEPT !.master_state = 0, !.ws_scan_status = "IDLE"]
    <3>1. x \in Line /\ x.ws_cmd = Seen(0).ws_cmd
      BY <1>2 DEF Line
    <3>2. Unlock(0, x)
      BY <2>1 DEF InitData0
    <3> QED BY <3>1, <3>2
  <2>2. CASE Running
    <3> DEFINE x == [Seen(0) EXCEPT !.ws_scan_status = "RUNNING"]
    <3>1. x \in Line /\ x.ws_cmd = Seen(0).ws_cmd
      BY <1>2 DEF Line
    <3>2. Unlock(0, x)
      BY <2>2 DEF Running
    <3> QED BY <3>1, <3>2
  <2>3. CASE Finish
    <3> DEFINE x == [Seen(0) EXCEPT !.master_state = 1, !.ws_scan_status = "DONE"]
    <3>1. x \in Line /\ x.ws_cmd = Seen(0).ws_cmd
      BY <1>2 DEF Line
    <3>2. Unlock(0, x)
      BY <2>3 DEF Finish
    <3> QED BY <3>1, <3>2
  <2>4. CASE Beat
    BY <1>2, <2>4 DEF Beat
  <2>5. CASE Take
    <3> DEFINE x == [Seen(0) EXCEPT !.ws_cmd = "NONE", !.ws_scan_status = "RUNNING"]
    <3>1. x \in Line
      BY <1>2 DEF Line
    <3>2. Unlock(0, x)
      BY <2>5 DEF Take
    <3> QED BY <3>1, <3>2, <2>5
  <2>6. CASE Drop
    <3> DEFINE x == [Seen(0) EXCEPT !.master_state = 0]
    <3>1. x \in Line /\ x.ws_cmd = Seen(0).ws_cmd
      BY <1>2 DEF Line
    <3>2. Unlock(0, x)
      BY <2>6 DEF Drop
    <3> QED BY <3>1, <3>2
  <2> QED
    BY <2>1, <2>2, <2>3, <2>4, <2>5, <2>6
<1>4. /\ main' \in Sections \cup {"scan"}
      /\ UNCHANGED <<sys_cmd, built, eip, client>>
      /\ once' \in BOOLEAN
  BY DEF InitData0, Running, Finish, Beat, Take, Drop, Sections, Inv, TypeOK
<1>5. /\ scan' \in [Clients -> {"none", "wanted", "running", "done"}]
      /\ \A k \in Clients : scan'[k] = "wanted" => scan[k] = "wanted" /\ ~Take
      /\ \A k \in Clients : scan[k] = "none" => scan'[k] = "none"
  <2>1. CASE Take
    BY <2>1 DEF Take, Inv, TypeOK
  <2>2. CASE Finish
    <3>1. ~Take
      BY <2>2 DEF Take, Finish, In
    <3> QED BY <2>2, <3>1 DEF Finish, Inv, TypeOK
  <2>3. CASE InitData0 \/ Running \/ Beat \/ Drop
    <3>1. ~Take
      BY <2>3 DEF Take, InitData0, Running, Beat, Drop, In
    <3> QED BY <2>3, <3>1 DEF InitData0, Running, Beat, Drop, Inv, TypeOK
  <2> QED
    BY <2>1, <2>2, <2>3
<1>6. Wanted' => Wanted /\ x.ws_cmd = "SCAN_IO"
  BY <1>2, <1>3, <1>5 DEF Wanted
<1>7. /\ CopiesKeep'
      /\ mem' \in Line /\ lock' = "free"
      /\ cache' \in [Cores -> Line \cup {NoLine}]
      /\ dirty' \in [Cores -> BOOLEAN]
      /\ \A d \in Cores : dirty'[d] => cache'[d] # NoLine
  BY <1>1, <1>3, <1>6, UnlockFacts
<1>8. TypeOK'
  BY <1>4, <1>5, <1>7 DEF Inv, TypeOK
<1>9. StartUp'
  BY <1>4, <1>5, <1>7 DEF Inv, StartUp
<1> QED
  BY <1>7, <1>8, <1>9 DEF Inv

\* The steps of MAIN that do not.
LEMMA MainReads ==
  ASSUME Inv, MainLock \/ Wipe \/ Scan \/ Read
  PROVE  Inv'
<1>1. CASE MainLock
  <2>1. TypeOK'
    BY <1>1 DEF MainLock, Lock, Inv, TypeOK, mainVars, Cores
  <2>2. StartUp'
    BY <1>1 DEF MainLock, Lock, Inv, StartUp, mainVars
  <2>3. cache'[0] = NoLine /\ lock' = "main" /\ ~dirty'[0]
    BY <1>1 DEF MainLock, Lock, Inv, TypeOK, Cores
  <2>4. cache'[1] = cache[1] /\ dirty'[1] = dirty[1] /\ UNCHANGED <<mem, scan>>
    BY <1>1 DEF MainLock, Lock, Inv, TypeOK, Cores
  <2>5. CopiesKeep'
    BY <2>3, <2>4 DEF Inv, CopiesKeep, CoreOfLock, Wanted
  <2> QED BY <2>1, <2>2, <2>5 DEF Inv
<1>2. CASE Wipe
  <2>1. TypeOK' /\ StartUp'
    BY <1>2 DEF Wipe, UnlockRead, lineVars, Inv, TypeOK, StartUp, Sections
  <2>2. CopiesKeep'
    BY <1>2 DEF Wipe, UnlockRead, lineVars, Inv, CopiesKeep, Wanted
  <2> QED BY <2>1, <2>2 DEF Inv
<1>3. CASE Scan
  <2>1. TypeOK' /\ StartUp'
    BY <1>3 DEF Scan, lineVars, Inv, TypeOK, StartUp, Sections
  <2>2. CopiesKeep'
    BY <1>3 DEF Scan, lineVars, Inv, CopiesKeep, Wanted, CoreOfLock
  <2> QED BY <2>1, <2>2 DEF Inv
<1>4. CASE Read
  <2>1. Seen(0).ws_cmd \in {"NONE", "SCAN_IO"}
    BY SeenFacts DEF Line, Cores
  <2>2. TypeOK' /\ StartUp'
    BY <1>4, <2>1 DEF Read, UnlockRead, lineVars, Inv, TypeOK, StartUp, Sections
  <2>3. CopiesKeep'
    BY <1>4 DEF Read, UnlockRead, lineVars, Inv, CopiesKeep, Wanted
  <2> QED BY <2>2, <2>3 DEF Inv
<1> QED
  BY <1>1, <1>2, <1>3, <1>4

\* Core 1's start-up and cyclic run.
LEMMA EipSteps ==
  ASSUME Inv, EipLock \/ InitData1 \/ Register \/ Exchange
  PROVE  Inv'
<1>1. CASE EipLock
  <2>1. TypeOK'
    BY <1>1 DEF EipLock, Lock, Inv, TypeOK, mainVars, Cores
  <2>2. StartUp'
    BY <1>1 DEF EipLock, Lock, Inv, StartUp, mainVars
  <2>3. ~Wanted' /\ ~dirty'[0]
    BY <1>1 DEF EipLock, Lock, Inv, StartUp, CopiesKeep, TypeOK, Wanted, Cores
  <2> QED BY <2>1, <2>2, <2>3 DEF Inv, CopiesKeep
<1>2. CASE InitData1
  <2>1. eip = "init" /\ ~Wanted' /\ 1 \in Cores
    BY <1>2 DEF InitData1, Inv, StartUp, Wanted, Cores
  <2>2. PICK x \in Line : Unlock(1, x)
    BY <1>2, SeenFacts DEF InitData1, Line, Cores
  <2>3. /\ CopiesKeep'
        /\ mem' \in Line /\ lock' = "free"
        /\ cache' \in [Cores -> Line \cup {NoLine}]
        /\ dirty' \in [Cores -> BOOLEAN]
        /\ \A d \in Cores : dirty'[d] => cache'[d] # NoLine
    BY <2>1, <2>2, UnlockFacts
  <2>4. TypeOK'
    BY <1>2, <2>3 DEF InitData1, mainVars, Inv, TypeOK
  <2>5. StartUp'
    BY <1>2, <2>1, <2>3 DEF InitData1, Inv, StartUp
  <2> QED BY <2>3, <2>4, <2>5 DEF Inv
<1>3. CASE Register
  <2>1. [Seen(1) EXCEPT !.active_protocol = "eip"] \in Line
    BY SeenFacts DEF Line, Cores
  <2>2. TypeOK'
    BY <1>3, <2>1 DEF Register, mainVars, Inv, TypeOK, Cores
  <2>3. StartUp'
    BY <1>3 DEF Register, mainVars, Inv, StartUp
  <2>4. ~Wanted' /\ ~dirty'[0]
    BY <1>3 DEF Register, Inv, StartUp, CopiesKeep, TypeOK, Wanted, Cores
  <2> QED BY <2>2, <2>3, <2>4 DEF Inv, CopiesKeep
<1>4. CASE Exchange
  <2>1. TypeOK'
    BY <1>4 DEF Exchange, mainVars, Inv, TypeOK, Cores
  <2>2. StartUp'
    BY <1>4 DEF Exchange, mainVars, Inv, StartUp
  <2>3. ~dirty'[0] /\ ~dirty'[1] /\ lock' = "free" /\ UNCHANGED <<mem, scan>>
    BY <1>4 DEF Exchange, Inv, CopiesKeep, TypeOK, Cores
  <2> QED BY <2>1, <2>2, <2>3 DEF Inv, CopiesKeep, Wanted
<1> QED
  BY <1>1, <1>2, <1>3, <1>4

\* Filling and evicting a copy.
LEMMA CacheSteps ==
  ASSUME Inv, NEW c \in Cores, Fill(c) \/ Evict(c)
  PROVE  Inv'
<1>1. CASE Fill(c)
  <2>1. TypeOK'
    BY <1>1 DEF Fill, mainVars, Inv, TypeOK
  <2>2. StartUp'
    BY <1>1 DEF Fill, mainVars, Inv, StartUp
  <2>3. \A d \in Cores : cache'[d] = cache[d] \/ (~dirty[d] /\ cache'[d] = mem)
    BY <1>1 DEF Fill, Inv, TypeOK
  <2>4. CopiesKeep'
    BY <1>1, <2>3 DEF Fill, Inv, CopiesKeep, CoreOfLock, Wanted, Cores
  <2> QED BY <2>1, <2>2, <2>4 DEF Inv
<1>2. CASE Evict(c)
  <2>1. TypeOK'
    BY <1>2 DEF Evict, mainVars, Inv, TypeOK
  <2>2. StartUp'
    BY <1>2 DEF Evict, mainVars, Inv, StartUp
  <2>3. /\ \A d \in Cores : cache'[d] = cache[d] \/ cache'[d] = NoLine
        /\ \A d \in Cores : dirty'[d] => dirty[d] /\ cache'[d] = cache[d]
    BY <1>2 DEF Evict, Inv, TypeOK, Cores
  <2>4. mem' = mem \/ (c = 1 /\ dirty[1] /\ mem' = cache[1])
    BY <1>2 DEF Evict, Inv, CopiesKeep, Cores
  <2>5. lock' = lock /\ scan' = scan
    BY <1>2 DEF Evict
  <2>6. CopiesKeep'
    BY <2>3, <2>4, <2>5 DEF Inv, CopiesKeep, CoreOfLock, Wanted, Cores
  <2> QED BY <2>1, <2>2, <2>6 DEF Inv
<1> QED
  BY <1>1, <1>2

\* The pages and the web server.
LEMMA WebSteps ==
  ASSUME Inv, NEW k \in Clients, Click(k) \/ WebLock(k) \/ Web(k) \/ PollTimeout(k)
  PROVE  Inv'
<1>1. CASE Click(k)
  <2>1. TypeOK' /\ StartUp'
    BY <1>1 DEF Click, lineVars, mainVars, Inv, TypeOK, StartUp
  <2>2. CopiesKeep'
    BY <1>1 DEF Click, lineVars, Inv, CopiesKeep, CoreOfLock, Wanted
  <2> QED BY <2>1, <2>2 DEF Inv
<1>2. CASE WebLock(k)
  <2>1. eip = "up"
    BY <1>2 DEF WebLock, Inv, StartUp
  <2>2. TypeOK'
    BY <1>2 DEF WebLock, Lock, mainVars, Inv, TypeOK, Cores
  <2>3. StartUp'
    BY <1>2, <2>1 DEF WebLock, Lock, mainVars, Inv, StartUp
  <2>4. /\ cache'[1] = NoLine /\ ~dirty'[1] /\ dirty'[0] = dirty[0]
        /\ lock' # "main" /\ UNCHANGED <<mem, scan>>
    BY <1>2 DEF WebLock, Lock, Inv, TypeOK, Cores
  <2>5. CopiesKeep'
    BY <2>4 DEF Inv, CopiesKeep, CoreOfLock, Wanted
  <2> QED BY <2>2, <2>3, <2>5 DEF Inv
<1>3. CASE PostBusy(k) \/ Poll(k)
  <2>1. lock' = "free" /\ UNCHANGED <<mem, cache, dirty, scan, eip>>
    BY <1>3 DEF PostBusy, Poll, UnlockRead, lineVars
  <2>2. eip = "up"
    BY <1>3 DEF PostBusy, Poll, Inv, StartUp
  <2>3. TypeOK'
    BY <1>3, <2>1 DEF PostBusy, Poll, mainVars, Inv, TypeOK
  <2>4. StartUp' /\ CopiesKeep'
    BY <2>1, <2>2 DEF Inv, StartUp, CopiesKeep, Wanted
  <2> QED BY <2>3, <2>4 DEF Inv
<1>4. CASE PostAccepted(k)
  <2> DEFINE x == [Seen(1) EXCEPT !.ws_scan_status = "IDLE", !.ws_cmd = "SCAN_IO"]
  <2>1. x \in Line /\ x.ws_cmd = "SCAN_IO"
    BY SeenFacts DEF Line, Cores
  <2>2. Unlock(1, x) /\ 1 \in Cores
    BY <1>4 DEF PostAccepted, Cores
  <2> HIDE DEF x
  <2>3. /\ CopiesKeep'
        /\ mem' \in Line /\ lock' = "free"
        /\ cache' \in [Cores -> Line \cup {NoLine}]
        /\ dirty' \in [Cores -> BOOLEAN]
        /\ \A d \in Cores : dirty'[d] => cache'[d] # NoLine
    BY <2>1, <2>2, UnlockFacts
  <2>4. eip = "up" /\ eip' = eip
    BY <1>4 DEF PostAccepted, Inv, StartUp
  <2>5. TypeOK'
    BY <1>4, <2>3 DEF PostAccepted, mainVars, Inv, TypeOK
  <2>6. StartUp'
    BY <2>3, <2>4 DEF Inv, StartUp
  <2> QED BY <2>3, <2>5, <2>6 DEF Inv
<1>5. CASE PollTimeout(k)
  <2>1. eip = "up"
    BY <1>5 DEF PollTimeout, Inv, StartUp
  <2>2. TypeOK'
    BY <1>5 DEF PollTimeout, lineVars, mainVars, Inv, TypeOK
  <2>3. StartUp'
    BY <1>5, <2>1 DEF PollTimeout, lineVars, mainVars, Inv, StartUp, TypeOK
  <2>4. CopiesKeep'
    BY <1>5 DEF PollTimeout, lineVars, Inv, CopiesKeep, CoreOfLock, Wanted
  <2> QED BY <2>2, <2>3, <2>4 DEF Inv
<1> QED
  BY <1>1, <1>2, <1>3, <1>4, <1>5 DEF Web

-----------------------------------------------------------------------------
(* The theorems *)

\* Inv holds in every reachable state.
THEOREM Invariance == Spec => []Inv
<1>1. Init => Inv
  <2> SUFFICES ASSUME Init PROVE Inv
    OBVIOUS
  <2>1. TypeOK
    BY DEF Init, TypeOK, Sections
  <2>2. StartUp /\ CopiesKeep
    BY DEF Init, StartUp, CopiesKeep, Wanted, Cores
  <2> QED BY <2>1, <2>2 DEF Inv
<1>2. Inv /\ [Next]_vars => Inv'
  <2> SUFFICES ASSUME Inv, [Next]_vars PROVE Inv'
    OBVIOUS
  <2>1. CASE MainLock \/ MainStep
    BY <2>1, MainReads, MainWrites DEF MainStep
  <2>2. CASE EipLock \/ InitData1 \/ Register \/ Exchange
    BY <2>2, EipSteps
  <2>3. CASE \E c \in Cores : Fill(c) \/ Evict(c)
    BY <2>3, CacheSteps
  <2>4. CASE \E k \in Clients : Click(k) \/ WebLock(k) \/ Web(k) \/ PollTimeout(k)
    BY <2>4, WebSteps
  <2>5. CASE UNCHANGED vars
    <3>1. TypeOK' /\ StartUp'
      BY <2>5 DEF vars, lineVars, mainVars, Inv, TypeOK, StartUp
    <3>2. CopiesKeep'
      BY <2>5 DEF vars, lineVars, Inv, CopiesKeep, CoreOfLock, Wanted
    <3> QED BY <3>1, <3>2 DEF Inv
  <2> QED
    BY <2>1, <2>2, <2>3, <2>4, <2>5 DEF Next
<1> QED
  BY <1>1, <1>2, PTL DEF Spec

\* The line, its copies, the lock and the actors' steps stay in their ranges,
\* and only a cached line is dirty.
THEOREM TypeCorrect == Spec => []TypeOK
BY Invariance, PTL DEF Inv

\* The command of an accepted request stays in the RAM until MAIN takes it.
THEOREM AcceptedNeverForgotten == Spec => []CommandKept
<1>1. Inv => CommandKept
  BY DEF Inv, CopiesKeep, Wanted, CommandKept
<1> QED
  BY Invariance, <1>1, PTL

-----------------------------------------------------------------------------
(* The status words, for a RAM that was clear at power on *)

\* Nothing a page has asked for can have reached core 0: core 1 is not up, or
\* holds the line it wrote without the lock since it started.
Fresh == eip # "up" \/ dirty[1]

Copies == {mem, cache[0], cache[1]} \ {NoLine}

\* The copies of the line that may still be written to the RAM, and the RAM's.
Live == {l \in Line : \/ l = mem
                      \/ dirty[1] /\ l = cache[1]
                      \/ lock # "free" /\ l = cache[CoreOfLock]}

Scanning == {"drop", "wipe", "boot", "scan", "finish"}
Idling == {"beat", "read", "take"}

FreshInv ==
  /\ Fresh => /\ \A l \in Copies : l.ws_cmd = "NONE"
              /\ sys_cmd = "NONE" /\ main \notin {"take", "drop"}
              /\ once => main \in {"beat", "read"}
              /\ ~once => \A l \in Copies : l.master_state = 0
              /\ \A k \in Clients : scan[k] = "none"
  /\ dirty[1] => eip = "up"

StateInv ==
  /\ main \in {"init", "wipe", "boot", "scan", "finish"}
       => \A l \in Live : l.master_state = 0
  /\ main \in Idling \cup {"finish", "drop"} => built
  /\ main = "init" => ~once
  /\ main \in Idling \cup {"drop"} => once

StatusInv ==
  /\ once /\ main \in Scanning => \A l \in Live : l.ws_scan_status = "RUNNING"
  /\ \A k \in Clients : scan[k] = "running" => main \in Scanning
  /\ \A k \in Clients \ Early :
       /\ client[k] # "idle" \/ scan[k] # "none" => once
       /\ scan[k] = "wanted" => /\ main \in Idling
                                /\ \A l \in Live : l.ws_scan_status # "DONE"
       /\ client[k] = "polling" => scan[k] # "none"
       /\ client[k] = "complete" => scan[k] = "done"

WordsInv == FreshInv /\ StateInv /\ StatusInv

\* A step that writes no new line adds none to those there are.
LEMMA Moves ==
  ASSUME Inv, NEW k, NEW c \in Cores,
         \/ MainLock \/ Wipe \/ Scan \/ Read \/ EipLock \/ Exchange
         \/ Fill(c) \/ Evict(c)
         \/ k \in Clients /\ (\/ Click(k) \/ WebLock(k) \/ PostBusy(k)
                              \/ Poll(k) \/ PollTimeout(k))
         \/ UNCHANGED vars
  PROVE  Live' \subseteq Live /\ Copies' \subseteq Copies /\ (dirty'[1] => dirty[1])
<1> USE DEF Live, Copies, CoreOfLock, Cores
<1>0. /\ cache \in [Cores -> Line \cup {NoLine}] /\ dirty \in [Cores -> BOOLEAN]
      /\ mem \in Line /\ ~dirty[0] /\ NoLine \notin Line
  BY DEF Inv, TypeOK, CopiesKeep
<1>1. ASSUME NEW who \in {"main", "eip"} \cup Clients, NEW d \in Cores, Lock(who, d),
             UNCHANGED mem, who = "main" <=> d = 0
      PROVE  Live' \subseteq Live /\ Copies' \subseteq Copies /\ (dirty'[1] => dirty[1])
  BY <1>0, <1>1 DEF Lock
<1>2. CASE MainLock
  BY <1>1, <1>2 DEF MainLock
<1>3. CASE EipLock
  BY <1>1, <1>3 DEF EipLock
<1>4. CASE k \in Clients /\ WebLock(k)
  <2>1. k \in {"main", "eip"} \cup Clients /\ k # "main"
    BY <1>4, NamesAssumption
  <2> QED BY <1>1, <1>4, <2>1 DEF WebLock
<1>5. CASE Wipe \/ Read \/ PostBusy(k) \/ Poll(k)
  BY <1>0, <1>5 DEF Wipe, Read, PostBusy, Poll, UnlockRead, lineVars
<1>6. CASE Scan \/ Click(k) \/ PollTimeout(k)
  BY <1>0, <1>6 DEF Scan, Click, PollTimeout, lineVars
<1>7. CASE Exchange
  BY <1>0, <1>7 DEF Exchange
<1>8. CASE Fill(c)
  BY <1>0, <1>8 DEF Fill
<1>9. CASE Evict(c)
  BY <1>0, <1>9 DEF Evict
<1>10. CASE UNCHANGED vars
  BY <1>0, <1>10 DEF vars, lineVars
<1> QED
  BY <1>2, <1>3, <1>4, <1>5, <1>6, <1>7, <1>8, <1>9, <1>10

\* The end of a section adds the line it writes, and only what core 1 wrote
\* without the lock may undo it.
LEMMA Writes ==
  ASSUME Inv, NEW c \in Cores, NEW x \in Line, Unlock(c, x)
  PROVE  /\ \A l \in Live' : l = x \/ (c = 0 /\ dirty[1] /\ l \in Live)
         /\ Copies' \subseteq Copies \cup {x}
         /\ dirty'[1] => c = 0 /\ dirty[1]
<1> USE DEF Live, Copies, CoreOfLock, Cores
<1>0. /\ cache \in [Cores -> Line \cup {NoLine}] /\ dirty \in [Cores -> BOOLEAN]
      /\ mem \in Line /\ ~dirty[0]
  BY DEF Inv, TypeOK, CopiesKeep
<1> QED
  BY <1>0 DEF Unlock

\* What a section sees may still be written.
LEMMA SeenLive ==
  ASSUME Inv
  PROVE  /\ lock # "free" => Seen(CoreOfLock) \in Live
         /\ \A c \in Cores : Seen(c) \in Copies /\ Seen(c) \in Line
<1>0. /\ cache \in [Cores -> Line \cup {NoLine}] /\ mem \in Line /\ NoLine \notin Line
  BY DEF Inv, TypeOK
<1> QED
  BY <1>0 DEF Seen, Live, Copies, CoreOfLock, Cores

\* The steps that write no line, but for MAIN's own.
LEMMA QuietSteps ==
  ASSUME Inv, WordsInv, NEW k, NEW c \in Cores,
         \/ MainLock \/ EipLock \/ Exchange \/ Fill(c) \/ Evict(c)
         \/ k \in Clients /\ (Click(k) \/ WebLock(k) \/ PostBusy(k) \/ PollTimeout(k))
         \/ UNCHANGED vars
  PROVE  WordsInv'
<1>1. Live' \subseteq Live /\ Copies' \subseteq Copies /\ (dirty'[1] => dirty[1])
  BY Moves
<1>2. UNCHANGED <<sys_cmd, main, built, once, eip, scan>>
  BY DEF MainLock, EipLock, Exchange, Fill, Evict, Click, WebLock, PostBusy,
         PollTimeout, mainVars, vars
<1>3. \A j \in Clients :
        /\ client'[j] \in {client[j], "idle"} \/ (client'[j] = "posting" /\ (j \in Early \/ once))
  BY DEF MainLock, EipLock, Exchange, Fill, Evict, Click, WebLock, PostBusy,
         PollTimeout, mainVars, vars, Inv, TypeOK
<1>4. FreshInv'
  BY <1>1, <1>2 DEF WordsInv, FreshInv, Fresh
<1>5. StateInv'
  BY <1>1, <1>2 DEF WordsInv, StateInv
<1>6. StatusInv'
  BY <1>1, <1>2, <1>3 DEF WordsInv, StatusInv
<1> QED
  BY <1>4, <1>5, <1>6 DEF WordsInv

\* A page that polls sees DONE only when its own scan has ended.
LEMMA PollStep ==
  ASSUME Inv, WordsInv, NEW k \in Clients, Poll(k)
  PROVE  WordsInv'
<1>1. Live' \subseteq Live /\ Copies' \subseteq Copies /\ (dirty'[1] => dirty[1])
  BY Moves DEF Cores
<1>2. UNCHANGED <<sys_cmd, main, built, once, eip, scan>>
  BY DEF Poll, mainVars
<1>3. lock = k /\ lock # "main" /\ lock # "free" /\ client[k] = "polling"
  BY NamesAssumption DEF Poll
<1>4. Seen(1) \in Live
  BY <1>3, SeenLive DEF CoreOfLock
<1>5. k \notin Early /\ Seen(1).ws_scan_status = "DONE" => scan[k] = "done"
  BY <1>3, <1>4 DEF WordsInv, StatusInv, Inv, TypeOK
<1>6. \A j \in Clients :
        client'[j] = client[j] \/ (j = k /\ client'[j] = "complete"
                                       /\ Seen(1).ws_scan_status = "DONE")
  BY DEF Poll, Inv, TypeOK
<1>7. FreshInv'
  BY <1>1, <1>2 DEF WordsInv, FreshInv, Fresh
<1>8. StateInv'
  BY <1>1, <1>2 DEF WordsInv, StateInv
<1>9. StatusInv'
  BY <1>1, <1>2, <1>3, <1>5, <1>6 DEF WordsInv, StatusInv
<1> QED
  BY <1>7, <1>8, <1>9 DEF WordsInv

\* A request is accepted only between two scans, and resets the status.
LEMMA PostStep ==
  ASSUME Inv, WordsInv, NEW k \in Clients, PostAccepted(k)
  PROVE  WordsInv'
<1> DEFINE x == [Seen(1) EXCEPT !.ws_scan_status = "IDLE", !.ws_cmd = "SCAN_IO"]
<1>1. lock = k /\ lock # "main" /\ lock # "free" /\ client[k] = "posting"
  BY NamesAssumption DEF PostAccepted
<1>2. Seen(1) \in Live /\ Seen(1) \in Line
  BY <1>1, SeenLive DEF CoreOfLock, Cores
<1>3. x \in Line /\ x.ws_scan_status = "IDLE" /\ x.master_state = Seen(1).master_state
  BY <1>2 DEF Line
<1>4. Unlock(1, x)
  BY DEF PostAccepted
<1>5. ~dirty'[1] /\ \A l \in Live' : l = x
  BY <1>3, <1>4, Writes DEF Cores
<1>6. eip = "up" /\ UNCHANGED <<sys_cmd, main, built, once, eip>>
  BY <1>1 DEF PostAccepted, mainVars, Inv, StartUp
<1>7. /\ scan' = [scan EXCEPT ![k] = "wanted"] /\ client' = [client EXCEPT ![k] = "polling"]
      /\ Seen(1).ws_scan_status # "RUNNING"
  BY DEF PostAccepted
<1> HIDE DEF x
<1>8. FreshInv'
  BY <1>5, <1>6 DEF FreshInv, Fresh
<1>9. StateInv'
  BY <1>2, <1>3, <1>5, <1>6 DEF WordsInv, StateInv
<1>10. k \notin Early => once /\ main \in Idling
  BY <1>1, <1>2, <1>7 DEF WordsInv, StatusInv, StateInv, Inv, TypeOK, Sections, Scanning, Idling
<1>11. once => main \in Idling
  BY <1>2, <1>7 DEF WordsInv, StatusInv, StateInv, Inv, TypeOK, Sections, Scanning, Idling
<1>12. \A j \in Clients :
         /\ j # k => scan'[j] = scan[j] /\ client'[j] = client[j]
         /\ j = k => scan'[j] = "wanted" /\ client'[j] = "polling"
  BY <1>7 DEF Inv, TypeOK
<1>13. StatusInv'
  BY <1>3, <1>5, <1>6, <1>10, <1>11, <1>12 DEF WordsInv, StatusInv, Scanning, Idling
<1> QED
  BY <1>8, <1>9, <1>13 DEF WordsInv

\* Core 1's start-up.
LEMMA StartSteps ==
  ASSUME Inv, WordsInv, InitData1 \/ Register
  PROVE  WordsInv'
<1>1. eip # "up" /\ UNCHANGED <<sys_cmd, main, built, once, client, scan>>
  BY DEF InitData1, Register, mainVars, Inv, StartUp
<1>2. Fresh /\ \A k \in Clients : scan[k] = "none" /\ client[k] = "idle"
  BY <1>1 DEF Fresh, Inv, StartUp
<1>3. PICK x \in Line : /\ x.ws_cmd = "NONE" /\ x.master_state = Seen(1).master_state
                        /\ Copies' \subseteq Copies \cup {x}
                        /\ \A l \in Live' : l = x \/ l \in Live
  <2>1. CASE InitData1
    <3> DEFINE x == [Seen(1) EXCEPT !.active_protocol = "none", !.ws_cmd = "NONE"]
    <3>1. x \in Line /\ x.ws_cmd = "NONE" /\ x.master_state = Seen(1).master_state
      BY SeenLive DEF Line, Cores
    <3>2. Unlock(1, x)
      BY <2>1 DEF InitData1
    <3> HIDE DEF x
    <3> QED BY <3>1, <3>2, Writes DEF Cores
  <2>2. CASE Register
    <3> DEFINE x == [Seen(1) EXCEPT !.active_protocol = "eip"]
    <3>1. Seen(1) \in Copies /\ Seen(1) \in Line
      BY SeenLive DEF Cores
    <3>2. Seen(1).ws_cmd = "NONE"
      BY <1>2, <3>1 DEF WordsInv, FreshInv
    <3>3. x \in Line /\ x.ws_cmd = "NONE" /\ x.master_state = Seen(1).master_state
      BY <3>1, <3>2 DEF Line
    <3>4. /\ cache' = [cache EXCEPT ![1] = x] /\ dirty' = [dirty EXCEPT ![1] = TRUE]
          /\ UNCHANGED <<mem, lock>>
      BY <2>2 DEF Register
    <3> HIDE DEF x
    <3>5. cache \in [Cores -> Line \cup {NoLine}] /\ dirty \in [Cores -> BOOLEAN]
      BY DEF Inv, TypeOK
    <3>6. Copies' \subseteq Copies \cup {x}
      BY <3>4, <3>5 DEF Copies, Cores
    <3>7. \A l \in Live' : l = x \/ l \in Live
      BY <3>4, <3>5 DEF Live, CoreOfLock, Cores
    <3> QED BY <3>3, <3>6, <3>7
  <2> QED BY <2>1, <2>2
<1>4. Seen(1) \in Copies
  BY SeenLive DEF Cores
<1>5. dirty'[1] => eip' = "up"
  BY DEF InitData1, Register, Unlock, Inv, TypeOK, Cores
<1>6. FreshInv'
  BY <1>1, <1>2, <1>3, <1>4, <1>5 DEF WordsInv, FreshInv
<1>7. main \in {"init", "wipe", "boot", "scan", "finish"} => ~once
  BY <1>2 DEF WordsInv, FreshInv
<1>8. main \in {"init", "wipe", "boot", "scan", "finish"} => x.master_state = 0
  BY <1>2, <1>3, <1>4, <1>7 DEF WordsInv, FreshInv
<1>9. StateInv'
  BY <1>1, <1>3, <1>8 DEF WordsInv, StateInv
<1>10. ~(once /\ main \in Scanning)
  BY <1>2 DEF WordsInv, FreshInv, Scanning
<1>11. StatusInv'
  BY <1>1, <1>2, <1>10 DEF WordsInv, StatusInv
<1> QED
  BY <1>6, <1>9, <1>11 DEF WordsInv

\* MAIN's steps that write no line: a command is read only when a page has
\* given one.
LEMMA MainQuiet ==
  ASSUME Inv, WordsInv, Wipe \/ Scan \/ Read
  PROVE  WordsInv'
<1>1. Live' \subseteq Live /\ Copies' \subseteq Copies /\ (dirty'[1] => dirty[1])
  BY Moves DEF Cores
<1>2. UNCHANGED <<once, eip, client, scan>>
  BY DEF Wipe, Scan, Read
<1>3. CASE Wipe \/ Scan
  <2>1. /\ main \in {"wipe", "scan"} /\ main' \in {"boot", "finish"} /\ sys_cmd' = sys_cmd
        /\ main' = "finish" => built'
    BY <1>3 DEF Wipe, Scan, In
  <2>2. FreshInv'
    BY <1>1, <1>2, <2>1 DEF WordsInv, FreshInv, Fresh
  <2>3. StateInv'
    BY <1>1, <1>2, <2>1 DEF WordsInv, StateInv, Idling
  <2>4. StatusInv'
    BY <1>1, <1>2, <2>1 DEF WordsInv, StatusInv, Scanning, Idling
  <2> QED BY <2>2, <2>3, <2>4 DEF WordsInv
<1>4. CASE Read
  <2>1. /\ main = "read" /\ sys_cmd' = Seen(0).ws_cmd /\ built' = built
        /\ main' = IF sys_cmd' = "SCAN_IO" THEN "take" ELSE "beat"
    BY <1>4 DEF Read, In
  <2>2. Fresh => sys_cmd' = "NONE"
    BY <2>1, SeenLive DEF WordsInv, FreshInv, Cores
  <2>3. FreshInv'
    BY <1>1, <1>2, <2>1, <2>2 DEF WordsInv, FreshInv, Fresh
  <2>4. StateInv'
    BY <1>1, <1>2, <2>1 DEF WordsInv, StateInv, Idling
  <2>5. StatusInv'
    BY <1>1, <1>2, <2>1 DEF WordsInv, StatusInv, Scanning, Idling
  <2> QED BY <2>3, <2>4, <2>5 DEF WordsInv
<1> QED
  BY <1>3, <1>4

\* What the end of a section of MAIN may do to the line while core 1 is fresh.
LEMMA FreshKept ==
  ASSUME Inv, WordsInv, NEW x \in Line, Unlock(0, x), lock = "main",
         x.ws_cmd \in {"NONE", Seen(0).ws_cmd},
         UNCHANGED <<sys_cmd, eip>>, once' \in {once, TRUE},
         main' # "take", main' = "drop" => ~Fresh,
         once' => main' \in {"beat", "read"} \/ ~Fresh,
         ~once' => x.master_state \in {0, Seen(0).master_state},
         \A k \in Clients : scan[k] = "none" => scan'[k] = "none"
  PROVE  FreshInv'
<1>1. Copies' \subseteq Copies \cup {x} /\ (dirty'[1] => dirty[1]) /\ Seen(0) \in Copies
  BY Writes, SeenLive DEF Cores
<1>2. Fresh' => Fresh
  BY <1>1 DEF Fresh
<1>3. Fresh => \A l \in Copies' : l.ws_cmd = "NONE"
  BY <1>1 DEF WordsInv, FreshInv
<1>4. Fresh /\ ~once' => ~once /\ \A l \in Copies' : l.master_state = 0
  BY <1>1 DEF WordsInv, FreshInv, Inv, TypeOK
<1>5. Fresh => sys_cmd' = "NONE" /\ \A k \in Clients : scan'[k] = "none"
  BY DEF WordsInv, FreshInv
<1>6. dirty'[1] => eip' = "up"
  BY <1>1 DEF WordsInv, FreshInv
<1>7. Fresh => main' \notin {"take", "drop"} /\ (once' => main' \in {"beat", "read"})
  OBVIOUS
<1> QED
  BY <1>2, <1>3, <1>4, <1>5, <1>6, <1>7 DEF FreshInv

\* Every section of MAIN that writes the line.
LEMMA MainWords ==
  ASSUME Inv, WordsInv, InitData0 \/ Running \/ Finish \/ Beat \/ Take \/ Drop
  PROVE  WordsInv'
<1>1. lock = "main" /\ UNCHANGED <<sys_cmd, built, eip, client>>
  BY DEF InitData0, Running, Finish, Beat, Take, Drop, In
<1>2. Seen(0) \in Live /\ Seen(0) \in Copies /\ Seen(0) \in Line /\ 0 \in Cores
  BY <1>1, SeenLive DEF CoreOfLock, Cores
<1>3. dirty[1] => Fresh
  BY DEF Fresh
<1>4. Fresh => (once => main \in {"beat", "read"}) /\ main \notin {"take", "drop"}
  BY DEF WordsInv, FreshInv
<1>5. CASE InitData0
  <2> DEFINE x == [Seen(0) EXCEPT !.master_state = 0, !.ws_scan_status = "IDLE"]
  <2>1. /\ x \in Line
        /\ x.master_state = 0 /\ x.ws_cmd = Seen(0).ws_cmd
    BY <1>2 DEF Line
  <2>2. Unlock(0, x)
    BY <1>5 DEF InitData0
  <2> HIDE DEF x
  <2>3. /\ main = "init" /\ main' = "wipe"
        /\ once' = once /\ scan' = scan
    BY <1>5 DEF InitData0, In
  <2>4. \A l \in Live' : l = x \/ (dirty[1] /\ l \in Live)
    BY <1>2, <2>1, <2>2, Writes
  <2>5. FreshInv'
    <3>1. once' => main' \in {"beat", "read"} \/ ~Fresh
      BY <1>4, <2>3 DEF WordsInv, StateInv
    <3>2. main' # "take" /\ (main' = "drop" => ~Fresh)
      BY <1>4, <2>3
    <3>3. ~once' => x.master_state \in {0, Seen(0).master_state}
      BY <2>1, <2>3
    <3>4. /\ \A k \in Clients : scan[k] = "none" => scan'[k] = "none"
          /\ once' \in {once, TRUE} /\ x.ws_cmd \in {"NONE", Seen(0).ws_cmd}
      BY <2>1, <2>3
    <3> QED BY <1>1, <2>1, <2>2, <3>1, <3>2, <3>3, <3>4, FreshKept
  <2>6. StateInv'
    BY <1>1, <1>2, <1>3, <1>4, <2>1, <2>3, <2>4 DEF WordsInv, FreshInv, StateInv, Idling, Live, Copies
  <2>7. StatusInv'
    BY <1>1, <1>2, <1>3, <1>4, <2>1, <2>3, <2>4 DEF WordsInv, StateInv, StatusInv, Scanning, Idling
  <2> QED BY <2>5, <2>6, <2>7 DEF WordsInv
<1>6. CASE Running
  <2> DEFINE x == [Seen(0) EXCEPT !.ws_scan_status = "RUNNING"]
  <2>1. /\ x \in Line
        /\ x.ws_scan_status = "RUNNING" /\ x.ws_cmd = Seen(0).ws_cmd
        /\ x.master_state = Seen(0).master_state
    BY <1>2 DEF Line
  <2>2. Unlock(0, x)
    BY <1>6 DEF Running
  <2> HIDE DEF x
  <2>3. /\ main = "boot" /\ main' = "scan"
        /\ once' = once /\ scan' = scan
    BY <1>6 DEF Running, In
  <2>4. \A l \in Live' : l = x \/ (dirty[1] /\ l \in Live)
    BY <1>2, <2>1, <2>2, Writes
  <2>5. FreshInv'
    <3>1. once' => main' \in {"beat", "read"} \/ ~Fresh
      BY <1>4, <2>3 DEF WordsInv, StateInv
    <3>2. main' # "take" /\ (main' = "drop" => ~Fresh)
      BY <1>4, <2>3
    <3>3. ~once' => x.master_state \in {0, Seen(0).master_state}
      BY <2>1, <2>3
    <3>4. /\ \A k \in Clients : scan[k] = "none" => scan'[k] = "none"
          /\ once' \in {once, TRUE} /\ x.ws_cmd \in {"NONE", Seen(0).ws_cmd}
      BY <2>1, <2>3
    <3> QED BY <1>1, <2>1, <2>2, <3>1, <3>2, <3>3, <3>4, FreshKept
  <2>6. StateInv'
    BY <1>1, <1>2, <1>3, <1>4, <2>1, <2>3, <2>4 DEF WordsInv, FreshInv, StateInv, Idling, Live, Copies
  <2>7. StatusInv'
    BY <1>1, <1>2, <1>3, <1>4, <2>1, <2>3, <2>4 DEF WordsInv, StateInv, StatusInv, Scanning, Idling
  <2> QED BY <2>5, <2>6, <2>7 DEF WordsInv
<1>7. CASE Finish
  <2> DEFINE x == [Seen(0) EXCEPT !.master_state = 1, !.ws_scan_status = "DONE"]
  <2>1. /\ x \in Line
        /\ x.ws_cmd = Seen(0).ws_cmd
    BY <1>2 DEF Line
  <2>2. Unlock(0, x)
    BY <1>7 DEF Finish
  <2> HIDE DEF x
  <2>3. /\ main = "finish" /\ main' = "beat"
        /\ once' = TRUE
        /\ \A k \in Clients : scan'[k] = IF scan[k] = "running" THEN "done" ELSE scan[k]
    BY <1>7 DEF Finish, In, Inv, TypeOK
  <2>4. \A l \in Live' : l = x \/ (dirty[1] /\ l \in Live)
    BY <1>2, <2>1, <2>2, Writes
  <2>5. FreshInv'
    <3>1. once' => main' \in {"beat", "read"} \/ ~Fresh
      BY <1>4, <2>3 DEF WordsInv, StateInv
    <3>2. main' # "take" /\ (main' = "drop" => ~Fresh)
      BY <1>4, <2>3
    <3>3. ~once' => x.master_state \in {0, Seen(0).master_state}
      BY <2>1, <2>3
    <3>4. /\ \A k \in Clients : scan[k] = "none" => scan'[k] = "none"
          /\ once' \in {once, TRUE} /\ x.ws_cmd \in {"NONE", Seen(0).ws_cmd}
      BY <2>1, <2>3
    <3> QED BY <1>1, <2>1, <2>2, <3>1, <3>2, <3>3, <3>4, FreshKept
  <2>6. StateInv'
    BY <1>1, <1>2, <1>3, <1>4, <2>1, <2>3, <2>4 DEF WordsInv, FreshInv, StateInv, Idling, Live, Copies
  <2>7. StatusInv'
    BY <1>1, <1>2, <1>3, <1>4, <2>1, <2>3, <2>4 DEF WordsInv, StateInv, StatusInv, Scanning, Idling
  <2> QED BY <2>5, <2>6, <2>7 DEF WordsInv
<1>8. CASE Beat
  <2> DEFINE x == Seen(0)
  <2>1. /\ x \in Line
        /\ x = Seen(0)
    BY <1>2 DEF Line
  <2>2. Unlock(0, x)
    BY <1>8 DEF Beat
  <2> HIDE DEF x
  <2>3. /\ main = "beat" /\ main' = "read"
        /\ once' = once /\ scan' = scan
    BY <1>8 DEF Beat, In
  <2>4. \A l \in Live' : l = x \/ (dirty[1] /\ l \in Live)
    BY <1>2, <2>1, <2>2, Writes
  <2>5. FreshInv'
    <3>1. once' => main' \in {"beat", "read"} \/ ~Fresh
      BY <1>4, <2>3 DEF WordsInv, StateInv
    <3>2. main' # "take" /\ (main' = "drop" => ~Fresh)
      BY <1>4, <2>3
    <3>3. ~once' => x.master_state \in {0, Seen(0).master_state}
      BY <2>1, <2>3
    <3>4. /\ \A k \in Clients : scan[k] = "none" => scan'[k] = "none"
          /\ once' \in {once, TRUE} /\ x.ws_cmd \in {"NONE", Seen(0).ws_cmd}
      BY <2>1, <2>3
    <3> QED BY <1>1, <2>1, <2>2, <3>1, <3>2, <3>3, <3>4, FreshKept
  <2>6. StateInv'
    BY <1>1, <1>2, <1>3, <1>4, <2>1, <2>3, <2>4 DEF WordsInv, FreshInv, StateInv, Idling, Live, Copies
  <2>7. StatusInv'
    BY <1>1, <1>2, <1>3, <1>4, <2>1, <2>3, <2>4 DEF WordsInv, StateInv, StatusInv, Scanning, Idling
  <2> QED BY <2>5, <2>6, <2>7 DEF WordsInv
<1>9. CASE Take
  <2> DEFINE x == [Seen(0) EXCEPT !.ws_cmd = "NONE", !.ws_scan_status = "RUNNING"]
  <2>1. /\ x \in Line
        /\ x.ws_cmd = "NONE" /\ x.ws_scan_status = "RUNNING"
        /\ x.master_state = Seen(0).master_state
    BY <1>2 DEF Line
  <2>2. Unlock(0, x)
    BY <1>9 DEF Take
  <2> HIDE DEF x
  <2>3. /\ main = "take" /\ main' = "drop"
        /\ once' = once
        /\ \A k \in Clients : scan'[k] = IF scan[k] = "wanted" THEN "running" ELSE scan[k]
    BY <1>9 DEF Take, In, Inv, TypeOK
  <2>4. \A l \in Live' : l = x \/ (dirty[1] /\ l \in Live)
    BY <1>2, <2>1, <2>2, Writes
  <2>5. FreshInv'
    <3>1. once' => main' \in {"beat", "read"} \/ ~Fresh
      BY <1>4, <2>3 DEF WordsInv, StateInv
    <3>2. main' # "take" /\ (main' = "drop" => ~Fresh)
      BY <1>4, <2>3
    <3>3. ~once' => x.master_state \in {0, Seen(0).master_state}
      BY <2>1, <2>3
    <3>4. /\ \A k \in Clients : scan[k] = "none" => scan'[k] = "none"
          /\ once' \in {once, TRUE} /\ x.ws_cmd \in {"NONE", Seen(0).ws_cmd}
      BY <2>1, <2>3
    <3> QED BY <1>1, <2>1, <2>2, <3>1, <3>2, <3>3, <3>4, FreshKept
  <2>6. StateInv'
    BY <1>1, <1>2, <1>3, <1>4, <2>1, <2>3, <2>4 DEF WordsInv, FreshInv, StateInv, Idling, Live, Copies
  <2>7. StatusInv'
    BY <1>1, <1>2, <1>3, <1>4, <2>1, <2>3, <2>4 DEF WordsInv, StateInv, StatusInv, Scanning, Idling
  <2> QED BY <2>5, <2>6, <2>7 DEF WordsInv
<1>10. CASE Drop
  <2> DEFINE x == [Seen(0) EXCEPT !.master_state = 0]
  <2>1. /\ x \in Line
        /\ x.master_state = 0 /\ x.ws_cmd = Seen(0).ws_cmd
        /\ x.ws_scan_status = Seen(0).ws_scan_status
    BY <1>2 DEF Line
  <2>2. Unlock(0, x)
    BY <1>10 DEF Drop
  <2> HIDE DEF x
  <2>3. /\ main = "drop" /\ main' = "wipe"
        /\ once' = once /\ scan' = scan
    BY <1>10 DEF Drop, In
  <2>4. \A l \in Live' : l = x \/ (dirty[1] /\ l \in Live)
    BY <1>2, <2>1, <2>2, Writes
  <2>5. FreshInv'
    <3>1. once' => main' \in {"beat", "read"} \/ ~Fresh
      BY <1>4, <2>3 DEF WordsInv, StateInv
    <3>2. main' # "take" /\ (main' = "drop" => ~Fresh)
      BY <1>4, <2>3
    <3>3. ~once' => x.master_state \in {0, Seen(0).master_state}
      BY <2>1, <2>3
    <3>4. /\ \A k \in Clients : scan[k] = "none" => scan'[k] = "none"
          /\ once' \in {once, TRUE} /\ x.ws_cmd \in {"NONE", Seen(0).ws_cmd}
      BY <2>1, <2>3
    <3> QED BY <1>1, <2>1, <2>2, <3>1, <3>2, <3>3, <3>4, FreshKept
  <2>6. StateInv'
    BY <1>1, <1>2, <1>3, <1>4, <2>1, <2>3, <2>4 DEF WordsInv, FreshInv, StateInv, Idling, Live, Copies
  <2>7. StatusInv'
    BY <1>1, <1>2, <1>3, <1>4, <2>1, <2>3, <2>4 DEF WordsInv, StateInv, StatusInv, Scanning, Idling
  <2> QED BY <2>5, <2>6, <2>7 DEF WordsInv
<1> QED
  BY <1>5, <1>6, <1>7, <1>8, <1>9, <1>10

\* With a RAM that held no command and no operational master at power on, the
\* words of the line tell the truth in every reachable state.
THEOREM WordsKept ==
  ASSUME \A l \in Left : l.master_state = 0 /\ l.ws_cmd = "NONE"
  PROVE  Spec => [](Inv /\ WordsInv)
<1>1. Init => WordsInv
  <2> SUFFICES ASSUME Init PROVE WordsInv
    OBVIOUS
  <2>1. mem \in Left /\ Copies = {mem} /\ Live = {mem} /\ ~dirty[1]
    BY DEF Init, Copies, Live, Cores
  <2>2. FreshInv
    BY <2>1 DEF Init, FreshInv
  <2>3. StateInv
    BY <2>1 DEF Init, StateInv, Idling
  <2>4. StatusInv
    BY DEF Init, StatusInv
  <2> QED BY <2>2, <2>3, <2>4 DEF WordsInv
<1>2. Inv /\ WordsInv /\ [Next]_vars => WordsInv'
  <2> SUFFICES ASSUME Inv, WordsInv, [Next]_vars PROVE WordsInv'
    OBVIOUS
  <2>1. CASE MainStep
    BY <2>1, MainQuiet, MainWords DEF MainStep
  <2>2. CASE InitData1 \/ Register
    BY <2>2, StartSteps
  <2>3. CASE MainLock \/ EipLock \/ Exchange \/ UNCHANGED vars
    BY <2>3, QuietSteps DEF Cores
  <2>4. CASE \E c \in Cores : Fill(c) \/ Evict(c)
    BY <2>4, QuietSteps
  <2>5. ASSUME NEW k \in Clients, Click(k) \/ WebLock(k) \/ Web(k) \/ PollTimeout(k)
        PROVE  WordsInv'
    <3>1. CASE Click(k) \/ WebLock(k) \/ PostBusy(k) \/ PollTimeout(k)
      BY <3>1, QuietSteps DEF Cores
    <3>2. CASE PostAccepted(k)
      BY <3>2, PostStep
    <3>3. CASE Poll(k)
      BY <3>3, PollStep
    <3> QED BY <2>5, <3>1, <3>2, <3>3 DEF Web
  <2> QED
    BY <2>1, <2>2, <2>3, <2>4, <2>5 DEF Next
<1> QED
  BY <1>1, <1>2, Invariance, PTL DEF Spec

\* Core 0 says it is operational only while the device table is complete.
THEOREM OperationalIsBuilt ==
  ASSUME \A l \in Left : l.master_state = 0 /\ l.ws_cmd = "NONE"
  PROVE  Spec => []OperationalMeansBuilt
<1>1. Inv /\ WordsInv => OperationalMeansBuilt
  <2>1. Inv => mem \in Live /\ main \in Sections \cup {"scan"}
    BY DEF Inv, TypeOK, Live
  <2> QED
    BY <2>1 DEF WordsInv, StateInv, OperationalMeansBuilt, Sections, Idling
<1> QED
  BY <1>1, WordsKept, PTL

\* A page first used after the first scan announces only the end of a scan that
\* began after its request.
THEOREM CompletionOfOwnScan ==
  ASSUME \A l \in Left : l.master_state = 0 /\ l.ws_cmd = "NONE"
  PROVE  Spec => []CompletionIsReal
<1>1. WordsInv => CompletionIsReal
  BY DEF WordsInv, StatusInv, CompletionIsReal
<1> QED
  BY <1>1, WordsKept, PTL
=============================================================================
