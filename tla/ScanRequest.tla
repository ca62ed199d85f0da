---------------------------- MODULE ScanRequest -----------------------------
(***************************************************************************)
(* How a network scan is asked for and reported: the browser's Scan button  *)
(* (gspws_js.h), the web server on core 1 (web_server.c), and the MAIN task *)
(* on core 0 (Master.c) talk through ws_cmd, ws_scan_status and             *)
(* master_state in gSharedMem.ipc_sys.  These share one cache line with     *)
(* active_protocol, which core 1 writes without the lock.  A locked section *)
(* is two steps here, lock with invalidation and work with write-back, as   *)
(* ShmLock shows is enough; evictions may come between them.                *)
(***************************************************************************)
EXTENDS Naturals

CONSTANTS Clients,    \* browsers showing the page
          Left,       \* what the RAM may hold at power on (the section is NOLOAD)
          Early,      \* those whose button may be pressed before the first
                      \* scan is over
          NoLine

Line == [active_protocol : {"none", "eip"}, master_state : {0, 1},
         ws_cmd : {"NONE", "SCAN_IO"}, ws_scan_status : {"IDLE", "RUNNING", "DONE"}]

ASSUME LeftAssumption == Left \subseteq Line /\ Left # {}
ASSUME NamesAssumption ==
  NoLine \notin Line /\ Clients \cap {"free", "main", "eip"} = {}
ASSUME EarlyAssumption == Early \subseteq Clients

Cores == {0, 1}

VARIABLES
  mem,       \* the line in RAM
  cache, dirty,   \* each core's copy of it
  lock,      \* whose section it is
  main,      \* MAIN's next step
  sys_cmd,
  eip,       \* core 1's start-up: "init", "register", "up"
  client,    \* what each page is doing
  built,     \* the device table is complete
  once,      \* history: the first scan is over
  scan       \* history: how far the scan each page asked for has come

lineVars == <<mem, cache, dirty>>
mainVars == <<main, sys_cmd, built, once>>
vars == <<lineVars, lock, mainVars, eip, client, scan>>

Sections == {"init", "wipe", "boot", "finish", "beat", "read", "take", "drop"}

TypeOK ==
  /\ mem \in Line
  /\ cache \in [Cores -> Line \cup {NoLine}]
  /\ dirty \in [Cores -> BOOLEAN]
  /\ \A c \in Cores : dirty[c] => cache[c] # NoLine
  /\ lock \in {"free", "main", "eip"} \cup Clients
  /\ main \in Sections \cup {"scan"}
  /\ sys_cmd \in {"NONE", "SCAN_IO"}
  /\ eip \in {"init", "register", "up"}
  /\ client \in [Clients -> {"idle", "posting", "polling", "complete"}]
  /\ built \in BOOLEAN /\ once \in BOOLEAN
  /\ scan \in [Clients -> {"none", "wanted", "running", "done"}]

Init ==
  /\ mem \in Left
  /\ cache = [c \in Cores |-> NoLine]
  /\ dirty = [c \in Cores |-> FALSE]
  /\ lock = "free"
  /\ main = "init" /\ sys_cmd = "NONE" /\ built = FALSE /\ once = FALSE
  /\ eip = "init"
  /\ client = [k \in Clients |-> "idle"]
  /\ scan = [k \in Clients |-> "none"]

----------------------------------------------------------------------------
(* the line, the caches and the lock *)

Seen(c) == IF cache[c] = NoLine THEN mem ELSE cache[c]

Fill(c) == /\ cache[c] = NoLine
           /\ cache' = [cache EXCEPT ![c] = mem]
           /\ UNCHANGED <<mem, dirty, lock, mainVars, eip, client, scan>>

Evict(c) == /\ cache[c] # NoLine
            /\ mem' = IF dirty[c] THEN cache[c] ELSE mem
            /\ cache' = [cache EXCEPT ![c] = NoLine]
            /\ dirty' = [dirty EXCEPT ![c] = FALSE]
            /\ UNCHANGED <<lock, mainVars, eip, client, scan>>

\* slip: the copy is dropped, its dirty mark is not
LockDirty(who, c) == /\ lock = "free"
                     /\ lock' = who
                     /\ cache' = [cache EXCEPT ![c] = NoLine]
                     /\ UNCHANGED dirty

\* app_ipc_sharemem_lock by who, on core c
Lock(who, c) == /\ lock = "free"
                /\ lock' = who
                /\ cache' = [cache EXCEPT ![c] = NoLine]
                /\ dirty' = [dirty EXCEPT ![c] = FALSE]

\* the end of a section of core c that leaves the line as x, or ...
Unlock(c, x) == /\ mem' = x
                /\ cache' = [cache EXCEPT ![c] = x]
                /\ dirty' = [dirty EXCEPT ![c] = FALSE]
                /\ lock' = "free"

\* ... that only reads it
UnlockRead == lock' = "free" /\ UNCHANGED lineVars

----------------------------------------------------------------------------
(* core 0: master_main, master_loop, master_rescan, Master_preOperational *)

MainLock == /\ main \in Sections
            /\ Lock("main", 0)
            /\ UNCHANGED <<mem, mainVars, eip, client, scan>>

In(step) == lock = "main" /\ main = step

\* init_ipc_data(true)
InitData0 ==
  /\ In("init")
  /\ Unlock(0, [Seen(0) EXCEPT !.master_state = 0, !.ws_scan_status = "IDLE"])
  /\ main' = "wipe"
  /\ UNCHANGED <<sys_cmd, built, once, eip, client, scan>>

\* IOCoupler_reset: other lines of the region
Wipe == /\ In("wipe")
        /\ UnlockRead
        /\ built' = FALSE
        /\ main' = "boot"
        /\ UNCHANGED <<sys_cmd, once, eip, client, scan>>

\* after the nodes' reset and 15 s
Running == /\ In("boot")
           /\ Unlock(0, [Seen(0) EXCEPT !.ws_scan_status = "RUNNING"])
           /\ main' = "scan"
           /\ UNCHANGED <<sys_cmd, built, once, eip, client, scan>>

\* the scan, the nodes' configuration and the process image
Scan == /\ main = "scan"
        /\ built' = TRUE
        /\ main' = "finish"
        /\ UNCHANGED <<lineVars, lock, sys_cmd, once, eip, client, scan>>

\* slip: the command is cleared once more when the scan is over
FinishClears ==
  /\ In("finish")
  /\ Unlock(0, [Seen(0) EXCEPT !.master_state = 1, !.ws_scan_status = "DONE",
                               !.ws_cmd = "NONE"])
  /\ main' = "beat"
  /\ once' = TRUE
  /\ scan' = [k \in Clients |-> IF scan[k] = "running" THEN "done" ELSE scan[k]]
  /\ UNCHANGED <<sys_cmd, built, eip, client>>

Finish ==
  /\ In("finish")
  /\ Unlock(0, [Seen(0) EXCEPT !.master_state = 1, !.ws_scan_status = "DONE"])
  /\ main' = "beat"
  /\ once' = TRUE
  /\ scan' = [k \in Clients |-> IF scan[k] = "running" THEN "done" ELSE scan[k]]
  /\ UNCHANGED <<sys_cmd, built, eip, client>>

\* cpu_load and heartbeat are counted in the same line
Beat == /\ In("beat")
        /\ Unlock(0, Seen(0))
        /\ main' = "read"
        /\ UNCHANGED <<sys_cmd, built, once, eip, client, scan>>

\* slip: a command counts only while the status is still IDLE
ReadIdle == /\ In("read")
            /\ sys_cmd' = IF Seen(0).ws_scan_status = "IDLE"
                          THEN Seen(0).ws_cmd ELSE "NONE"
            /\ UnlockRead
            /\ main' = IF sys_cmd' = "SCAN_IO" THEN "take" ELSE "beat"
            /\ UNCHANGED <<built, once, eip, client, scan>>

Read == /\ In("read")
        /\ sys_cmd' = Seen(0).ws_cmd
        /\ UnlockRead
        /\ main' = IF sys_cmd' = "SCAN_IO" THEN "take" ELSE "beat"
        /\ UNCHANGED <<built, once, eip, client, scan>>

Take ==
  /\ In("take")
  /\ Unlock(0, [Seen(0) EXCEPT !.ws_cmd = "NONE", !.ws_scan_status = "RUNNING"])
  /\ main' = "drop"
  /\ scan' = [k \in Clients |-> IF scan[k] = "wanted" THEN "running" ELSE scan[k]]
  /\ UNCHANGED <<sys_cmd, built, once, eip, client>>

\* slip: master_state stays 1 during the new scan
DropNot == /\ In("drop")
           /\ UnlockRead
           /\ main' = "wipe"
           /\ UNCHANGED <<sys_cmd, built, once, eip, client, scan>>

Drop == /\ In("drop")
        /\ Unlock(0, [Seen(0) EXCEPT !.master_state = 0])
        /\ main' = "wipe"
        /\ UNCHANGED <<sys_cmd, built, once, eip, client, scan>>

MainStep == \/ InitData0 \/ Wipe \/ Running \/ Scan \/ Finish
            \/ Beat \/ Read \/ Take \/ Drop

----------------------------------------------------------------------------
(* core 1: start-up and the cyclic run *)

EipLock == /\ eip = "init"
           /\ Lock("eip", 1)
           /\ UNCHANGED <<mem, mainVars, eip, client, scan>>

\* init_ipc_data(false)
InitData1 ==
  /\ lock = "eip"
  /\ Unlock(1, [Seen(1) EXCEPT !.active_protocol = "none", !.ws_cmd = "NONE"])
  /\ eip' = "register"
  /\ UNCHANGED <<mainVars, client, scan>>

\* GENERIC_DEVICE_init writes active_protocol, without the lock, and then the
\* web server is started
Register ==
  /\ eip = "register"
  /\ cache' = [cache EXCEPT ![1] = [Seen(1) EXCEPT !.active_protocol = "eip"]]
  /\ dirty' = [dirty EXCEPT ![1] = TRUE]
  /\ eip' = "up"
  /\ UNCHANGED <<mem, lock, mainVars, client, scan>>

\* GENERIC_DEVICE_run: with the master up it locks to copy the I/O buffers
Exchange ==
  /\ eip = "up" /\ lock = "free"
  /\ Seen(1).master_state = 1
  /\ cache' = [cache EXCEPT ![1] = NoLine]
  /\ dirty' = [dirty EXCEPT ![1] = FALSE]
  /\ UNCHANGED <<mem, lock, mainVars, eip, client, scan>>

----------------------------------------------------------------------------
(* the page: triggerHardwareScan, and the web server answering it *)

Click(k) ==
  /\ client[k] \in {"idle", "complete"}
  /\ eip = "up"
  /\ k \in Early \/ once
  /\ client' = [client EXCEPT ![k] = "posting"]
  /\ UNCHANGED <<lineVars, lock, mainVars, eip, scan>>

\* one request is served at a time
WebLock(k) == /\ client[k] \in {"posting", "polling"}
              /\ Lock(k, 1)
              /\ UNCHANGED <<mem, mainVars, eip, client, scan>>

PostBusy(k) ==
  /\ lock = k /\ client[k] = "posting"
  /\ Seen(1).ws_scan_status = "RUNNING"
  /\ UnlockRead
  /\ client' = [client EXCEPT ![k] = "idle"]
  /\ UNCHANGED <<mainVars, eip, scan>>

\* slip: the status of the last scan stays
PostAcceptedQuiet(k) ==
  /\ lock = k /\ client[k] = "posting"
  /\ Seen(1).ws_scan_status # "RUNNING"
  /\ Unlock(1, [Seen(1) EXCEPT !.ws_cmd = "SCAN_IO"])
  /\ client' = [client EXCEPT ![k] = "polling"]
  /\ scan' = [scan EXCEPT ![k] = "wanted"]
  /\ UNCHANGED <<mainVars, eip>>

PostAccepted(k) ==
  /\ lock = k /\ client[k] = "posting"
  /\ Seen(1).ws_scan_status # "RUNNING"
  /\ Unlock(1, [Seen(1) EXCEPT !.ws_scan_status = "IDLE", !.ws_cmd = "SCAN_IO"])
  /\ client' = [client EXCEPT ![k] = "polling"]
  /\ scan' = [scan EXCEPT ![k] = "wanted"]
  /\ UNCHANGED <<mainVars, eip>>

Poll(k) ==
  /\ lock = k /\ client[k] = "polling"
  /\ UnlockRead
  /\ client' = [client EXCEPT ![k] =
       IF Seen(1).ws_scan_status = "DONE" THEN "complete" ELSE "polling"]
  /\ UNCHANGED <<mainVars, eip, scan>>

\* 60 s without "done"
PollTimeout(k) == /\ client[k] = "polling" /\ lock # k
                  /\ client' = [client EXCEPT ![k] = "idle"]
                  /\ UNCHANGED <<lineVars, lock, mainVars, eip, scan>>

Web(k) == PostBusy(k) \/ PostAccepted(k) \/ Poll(k)

----------------------------------------------------------------------------
Next == \/ MainLock \/ MainStep \/ EipLock \/ InitData1 \/ Register \/ Exchange
        \/ \E c \in Cores : Fill(c) \/ Evict(c)
        \/ \E k \in Clients : Click(k) \/ WebLock(k) \/ Web(k) \/ PollTimeout(k)

Spec == Init /\ [][Next]_vars

(* MAIN and core 1's start-up always go on, every section ends, and the      *)
(* other core's sections, microseconds apart by at least a tick, leave the   *)
(* spinlock free again and again.                                            *)
Fairness == /\ SF_vars(MainLock) /\ WF_vars(MainStep)
            /\ WF_vars(InitData1)
            /\ \A k \in Clients : WF_vars(Web(k))

FairSpec == Spec /\ Fairness

----------------------------------------------------------------------------
(* Properties *)

\* A scan the web server said it initiated is never forgotten: ws_cmd stays in
\* the RAM until MAIN takes it, whatever the caches write back and whatever
\* scan is running meanwhile.
CommandKept ==
  \A k \in Clients : scan[k] = "wanted" => mem.ws_cmd = "SCAN_IO"

\* Core 0 says it is operational (master_state = 1, which makes core 1 exchange
\* I/O data) only while the device table is complete.
OperationalMeansBuilt ==
  main # "init" /\ mem.master_state = 1 => built

\* "Poll for completion" (gspws_js.h:506): when a page that was first used after
\* the first scan announces that its scan is complete, a scan that began after
\* its request has ended.  (It does not hold of the pages in Early: their POST
\* is accepted before RUNNING is set, and the first scan's DONE answers it.)
CompletionIsReal ==
  \A k \in Clients \ Early : client[k] = "complete" => scan[k] = "done"

\* "Scan already in progress" (web_server.c:639): a request that finds the
\* status RUNNING is refused for a scan that MAIN is really at.
BusyMeansRunning ==
  mem.ws_scan_status = "RUNNING" => main \in {"drop", "wipe", "boot", "scan", "finish"}

\* Every scan the web server accepted is carried out.
RequestServed == \A k \in Clients : scan[k] = "wanted" ~> scan[k] = "done"
=============================================================================
