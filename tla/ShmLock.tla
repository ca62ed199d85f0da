------------------------------ MODULE ShmLock -------------------------------
(***************************************************************************)
(* The lock around gSharedMem (ipc_shareMem.c), which both cores compile:   *)
(* a mutex between the tasks of one core, then the hardware spinlock        *)
(* between the cores, then an invalidation of the core's cached copy of     *)
(* gSharedMem; the unlock writes the dirty lines back first.  The region    *)
(* is cached on both cores and no hardware keeps the caches coherent, so    *)
(* these steps are all that makes a section see the other core's data.      *)
(* CacheP_inv and CacheP_wb walk the region line by line and may be         *)
(* preempted between two lines.                                             *)
(***************************************************************************)
EXTENDS Naturals, FiniteSets

CONSTANTS Cores, Tasks, CoreOf, Lines, Vals,
          Poked,          \* <<core, line>>: the core writes it without the lock
          NoTask, NoVal

ASSUME CoreOfAssumption == CoreOf \in [Tasks -> Cores]
ASSUME PokedAssumption == Poked \subseteq Cores \X Lines
ASSUME NoAssumption == NoTask \notin Tasks /\ NoVal \notin Vals

VARIABLES
  pc,       \* where each task is in lock ... unlock
  mutex,    \* mutexObj: the task that has it, per core
  taken,    \* the hardware spinlock bit
  todo,     \* lines a running CacheP_inv / CacheP_wb has not reached
  cache,    \* each core's cached copy of each line, or NoVal
  dirty,    \* the lines each core has written and not yet written back
  mem,      \* the shared RAM
  got       \* what each running section last read of a guarded line

vars == <<pc, mutex, taken, todo, cache, dirty, mem, got>>
sync == <<pc, mutex, taken, todo>>

Held == {"inv", "cs", "wb"}     \* between Spinlock_lock and Spinlock_unlock

\* The lines every core writes only under the lock
Guarded == {l \in Lines : \A c \in Cores : <<c, l>> \notin Poked}

TypeOK ==
  /\ pc \in [Tasks -> Held \cup {"idle", "pend", "spin", "post"}]
  /\ mutex \in [Cores -> Tasks \cup {NoTask}]
  /\ taken \in BOOLEAN
  /\ todo \in [Tasks -> SUBSET Lines]
  /\ cache \in [Cores -> [Lines -> Vals \cup {NoVal}]]
  /\ dirty \in [Cores -> SUBSET Lines]
  /\ mem \in [Lines -> Vals]
  /\ got \in [Tasks -> Vals \cup {NoVal}]

\* init_ipc_sharemem makes the mutex; nothing is cached before the first access
Init ==
  /\ pc = [t \in Tasks |-> "idle"]
  /\ mutex = [c \in Cores |-> NoTask]
  /\ taken = FALSE
  /\ todo = [t \in Tasks |-> {}]
  /\ cache = [c \in Cores |-> [l \in Lines |-> NoVal]]
  /\ dirty = [c \in Cores |-> {}]
  /\ mem \in [Lines -> Vals]
  /\ got = [t \in Tasks |-> NoVal]

----------------------------------------------------------------------------
(* app_ipc_sharemem_lock *)

Call(t) == /\ pc[t] = "idle"
           /\ pc' = [pc EXCEPT ![t] = "pend"]
           /\ UNCHANGED <<mutex, taken, todo, cache, dirty, mem, got>>

\* slip: no mutex between the tasks of a core
PendAnyway(t) == /\ pc[t] = "pend"
                 /\ mutex' = [mutex EXCEPT ![CoreOf[t]] = t]
                 /\ pc' = [pc EXCEPT ![t] = "spin"]
                 /\ UNCHANGED <<taken, todo, cache, dirty, mem, got>>

Pend(t) == /\ pc[t] = "pend"
           /\ mutex[CoreOf[t]] = NoTask
           /\ mutex' = [mutex EXCEPT ![CoreOf[t]] = t]
           /\ pc' = [pc EXCEPT ![t] = "spin"]
           /\ UNCHANGED <<taken, todo, cache, dirty, mem, got>>

\* slip: the status Spinlock_lock returns is not tested
TakeSpinUntested(t) == /\ pc[t] = "spin"
                       /\ taken' = TRUE
                       /\ pc' = [pc EXCEPT ![t] = "inv"]
                       /\ todo' = [todo EXCEPT ![t] = Lines]
                       /\ UNCHANGED <<mutex, cache, dirty, mem, got>>

\* slip: no CacheP_inv
TakeSpinStale(t) == /\ pc[t] = "spin"
                    /\ ~taken
                    /\ taken' = TRUE
                    /\ pc' = [pc EXCEPT ![t] = "inv"]
                    /\ UNCHANGED <<mutex, todo, cache, dirty, mem, got>>

TakeSpin(t) == /\ pc[t] = "spin"
               /\ ~taken
               /\ taken' = TRUE
               /\ pc' = [pc EXCEPT ![t] = "inv"]
               /\ todo' = [todo EXCEPT ![t] = Lines]
               /\ UNCHANGED <<mutex, cache, dirty, mem, got>>

\* one line of CacheP_inv: the cached copy is dropped, dirty or not
InvLine(t, l) ==
  LET c == CoreOf[t] IN
  /\ pc[t] = "inv"
  /\ l \in todo[t]
  /\ todo' = [todo EXCEPT ![t] = @ \ {l}]
  /\ cache' = [cache EXCEPT ![c] = [@ EXCEPT ![l] = NoVal]]
  /\ dirty' = [dirty EXCEPT ![c] = @ \ {l}]
  /\ UNCHANGED <<pc, mutex, taken, mem, got>>

Enter(t) == /\ pc[t] = "inv"
            /\ todo[t] = {}
            /\ pc' = [pc EXCEPT ![t] = "cs"]
            /\ UNCHANGED <<mutex, taken, todo, cache, dirty, mem, got>>

----------------------------------------------------------------------------
(* the section: loads and stores through the core's cache *)

Seen(c, l) == IF cache[c][l] = NoVal THEN mem[l] ELSE cache[c][l]

Load(t, l) ==
  LET c == CoreOf[t] IN
  /\ pc[t] = "cs"
  /\ cache' = [cache EXCEPT ![c] = [@ EXCEPT ![l] = Seen(c, l)]]
  /\ got' = IF l \in Guarded THEN [got EXCEPT ![t] = Seen(c, l)] ELSE got
  /\ UNCHANGED <<sync, dirty, mem>>

Store(t, l, v) ==
  LET c == CoreOf[t] IN
  /\ pc[t] = "cs"
  /\ cache' = [cache EXCEPT ![c] = [@ EXCEPT ![l] = v]]
  /\ dirty' = [dirty EXCEPT ![c] = @ \cup {l}]
  /\ UNCHANGED <<sync, mem, got>>

----------------------------------------------------------------------------
(* app_ipc_sharemem_unlock *)

\* slip: no CacheP_wb
UnlockUnwritten(t) == /\ pc[t] = "cs"
                      /\ pc' = [pc EXCEPT ![t] = "wb"]
                      /\ UNCHANGED <<mutex, taken, todo, cache, dirty, mem, got>>

Unlock(t) == /\ pc[t] = "cs"
             /\ pc' = [pc EXCEPT ![t] = "wb"]
             /\ todo' = [todo EXCEPT ![t] = Lines]
             /\ UNCHANGED <<mutex, taken, cache, dirty, mem, got>>

\* slip: a line is written back whether the core has a copy or not
WriteBackBlind(c, l) ==
  /\ mem' = [mem EXCEPT ![l] = cache[c][l]]
  /\ dirty' = [dirty EXCEPT ![c] = @ \ {l}]

\* a dirty line reaches the RAM and stays cached, clean
WriteBack(c, l) ==
  /\ mem' = IF l \in dirty[c] THEN [mem EXCEPT ![l] = cache[c][l]] ELSE mem
  /\ dirty' = [dirty EXCEPT ![c] = @ \ {l}]

WbLine(t, l) ==
  /\ pc[t] = "wb"
  /\ l \in todo[t]
  /\ WriteBack(CoreOf[t], l)
  /\ todo' = [todo EXCEPT ![t] = @ \ {l}]
  /\ UNCHANGED <<pc, mutex, taken, cache, got>>

\* slip: the spinlock is freed before the write-back is done
FreeSpinEarly(t) == /\ pc[t] = "wb"
                    /\ taken' = FALSE
                    /\ pc' = [pc EXCEPT ![t] = "post"]
                    /\ todo' = [todo EXCEPT ![t] = {}]
                    /\ got' = [got EXCEPT ![t] = NoVal]
                    /\ UNCHANGED <<mutex, cache, dirty, mem>>

\* slip: the spinlock is never freed
FreeSpinNot(t) == /\ pc[t] = "wb"
                  /\ todo[t] = {}
                  /\ pc' = [pc EXCEPT ![t] = "post"]
                  /\ got' = [got EXCEPT ![t] = NoVal]
                  /\ UNCHANGED <<mutex, taken, todo, cache, dirty, mem>>

FreeSpin(t) == /\ pc[t] = "wb"
               /\ todo[t] = {}
               /\ taken' = FALSE
               /\ pc' = [pc EXCEPT ![t] = "post"]
               /\ got' = [got EXCEPT ![t] = NoVal]
               /\ UNCHANGED <<mutex, todo, cache, dirty, mem>>

Post(t) == /\ pc[t] = "post"
           /\ mutex' = [mutex EXCEPT ![CoreOf[t]] = NoTask]
           /\ pc' = [pc EXCEPT ![t] = "idle"]
           /\ UNCHANGED <<taken, todo, cache, dirty, mem, got>>

----------------------------------------------------------------------------
(* what happens outside the lock *)

\* code that reads gSharedMem unlocked fills the cache with what the RAM has
Peek(c, l) ==
  /\ cache[c][l] = NoVal
  /\ cache' = [cache EXCEPT ![c] = [@ EXCEPT ![l] = mem[l]]]
  /\ UNCHANGED <<sync, dirty, mem, got>>

\* code that writes gSharedMem unlocked (active_protocol) dirties its line
Poke(c, l, v) ==
  /\ <<c, l>> \in Poked
  /\ cache' = [cache EXCEPT ![c] = [@ EXCEPT ![l] = v]]
  /\ dirty' = [dirty EXCEPT ![c] = @ \cup {l}]
  /\ UNCHANGED <<sync, mem, got>>

\* the cache may replace any line at any time, writing it back if dirty
Evict(c, l) ==
  /\ cache[c][l] # NoVal
  /\ WriteBack(c, l)
  /\ cache' = [cache EXCEPT ![c] = [@ EXCEPT ![l] = NoVal]]
  /\ UNCHANGED <<sync, got>>

----------------------------------------------------------------------------
TaskStep(t) ==
  \/ Call(t) \/ Pend(t) \/ TakeSpin(t) \/ Enter(t)
  \/ Unlock(t) \/ FreeSpin(t) \/ Post(t)
  \/ \E l \in Lines : \/ InvLine(t, l) \/ WbLine(t, l) \/ Load(t, l)
                      \/ \E v \in Vals : Store(t, l, v)

CacheStep(c, l) == \/ Peek(c, l) \/ Evict(c, l)
                   \/ \E v \in Vals : Poke(c, l, v)

Next == \/ \E t \in Tasks : TaskStep(t)
        \/ \E c \in Cores, l \in Lines : CacheStep(c, l)

Spec == Init /\ [][Next]_vars

(* The scheduler runs every task that is ready again and again, sections    *)
(* are straight-line code that ends, and the walks over the region are      *)
(* finite.  No task is obliged to ask for the lock.                         *)
Progress(t) ==
  \/ Pend(t) \/ TakeSpin(t) \/ Enter(t) \/ Unlock(t) \/ FreeSpin(t) \/ Post(t)
  \/ \E l \in Lines : InvLine(t, l) \/ WbLine(t, l)

Fairness == \A t \in Tasks : /\ WF_vars(Progress(t))
                             /\ WF_vars(pc[t] = "cs" /\ Unlock(t))

FairSpec == Spec /\ Fairness

----------------------------------------------------------------------------
(* Properties *)

\* Sections of gSharedMem never overlap, whichever cores they run on
\* (app_ipc_sharemem_lock / _unlock).
MutualExclusion ==
  \A t, u \in Tasks : pc[t] \in Held /\ pc[u] \in Held => t = u

\* A task that spins waits for the other core, never for a task of its own:
\* with strict priorities a spin on a preempted holder of the same core would
\* never end, and taking the mutex first is what rules it out.
SpinsAcrossCores ==
  \A t \in Tasks : pc[t] = "spin" /\ taken =>
     \E u \in Tasks : pc[u] \in Held /\ CoreOf[u] # CoreOf[t]

\* Outside the sections the RAM is the truth about a guarded line: no cache
\* still holds a write of a finished section (CacheP_wb before Spinlock_unlock),
\* so nothing an eviction writes back later can undo another core's update.
NothingLeftDirty ==
  \A c \in Cores : \A l \in Guarded :
     l \in dirty[c] => \E t \in Tasks : CoreOf[t] = c /\ pc[t] \in {"cs", "wb"}

owner == IF \E t \in Tasks : pc[t] \in Held
         THEN CHOOSE t \in Tasks : pc[t] \in Held ELSE NoTask

\* What gSharedMem holds as seen by a section: the owner's unwritten lines,
\* else the RAM.
store == [l \in Guarded |->
            IF owner # NoTask /\ l \in dirty[CoreOf[owner]]
            THEN cache[CoreOf[owner]][l] ELSE mem[l]]

\* In a section the core sees the last committed value of every guarded line,
\* never a copy it cached before the other core's section (CacheP_inv in lock).
Coherence ==
  \A t \in Tasks : pc[t] = "cs" =>
     \A l \in Guarded : Seen(CoreOf[t], l) = store[l]

\* The lock, the caches and the write-backs together look like one memory and
\* one lock, as far as guarded lines go: every read in a section returns the
\* last value any section wrote, on either core.
Abstract == INSTANCE SharedSections WITH Lines <- Guarded
Implements == Abstract!Spec

\* Whenever a task asks for the lock some task gets into a section.
LockProgress ==
  (\E t \in Tasks : pc[t] = "pend") ~> (\E t \in Tasks : pc[t] = "cs")
=============================================================================
