--------------------------- MODULE ShmLock_proofs ---------------------------
(***************************************************************************)
(* Proofs about ShmLock for any number of cores, tasks, lines and values,   *)
(* and any set of lines written without the lock.                           *)
(***************************************************************************)
EXTENDS ShmLock, TLAPS

\* The mutex of a core belongs to the one task of it that is past the pend.
MutexInv ==
  \A t \in Tasks :
     pc[t] \in Held \cup {"spin", "post"} <=> mutex[CoreOf[t]] = t

\* The spinlock bit says whether a section is open, and only one is.
SpinInv == /\ taken <=> \E t \in Tasks : pc[t] \in Held
           /\ MutualExclusion

\* A dirty line is a cached line.
DirtyCached ==
  \A c \in Cores : \A l \in dirty[c] : cache[c][l] # NoVal

\* A guarded line is dirty only in the cache of the open section, and there
\* only until its write-back.
DirtyInSection ==
  \A c \in Cores : \A l \in Guarded \cap dirty[c] :
     \E t \in Tasks : /\ CoreOf[t] = c
                      /\ pc[t] = "cs" \/ (pc[t] = "wb" /\ l \in todo[t])

\* Once the lock has invalidated it, the section's copy of a guarded line is
\* either its own write or what the RAM holds.
CleanIsFresh ==
  \A t \in Tasks : \A l \in Guarded :
     /\ pc[t] \in Held
     /\ pc[t] = "inv" => l \notin todo[t]
     /\ l \notin dirty[CoreOf[t]]
     /\ cache[CoreOf[t]][l] # NoVal
     => cache[CoreOf[t]][l] = mem[l]

SyncInv == MutexInv /\ SpinInv
DataInv == DirtyCached /\ DirtyInSection /\ CleanIsFresh

Inv == TypeOK /\ SyncInv /\ DataInv

USE CoreOfAssumption, PokedAssumption, NoAssumption

-----------------------------------------------------------------------------
LEMMA InitInv == Init => Inv
<1> SUFFICES ASSUME Init PROVE Inv
  OBVIOUS
<1>1. TypeOK
  BY DEF Init, TypeOK, Held
<1>2. SyncInv
  BY DEF Init, SyncInv, MutexInv, SpinInv, MutualExclusion, Held
<1>3. DataInv
  BY DEF Init, DataInv, DirtyCached, DirtyInSection, CleanIsFresh, Held
<1> QED
  BY <1>1, <1>2, <1>3 DEF Inv

\* Every step keeps the variables in their types.  A write-back needs
\* DirtyCached: what it copies to the RAM is a value.
LEMMA TypeStep == TypeOK /\ DirtyCached /\ [Next]_vars => TypeOK'
<1> SUFFICES ASSUME TypeOK, DirtyCached, [Next]_vars PROVE TypeOK'
  OBVIOUS
<1> USE DEF TypeOK, Held
<1>1. ASSUME NEW t \in Tasks, Call(t) \/ Enter(t) PROVE TypeOK'
  <2>1. CASE Call(t)
    BY <2>1 DEF Call
  <2>2. CASE Enter(t)
    <3>1. pc' \in [Tasks -> Held \cup {"idle", "pend", "spin", "post"}]
      BY <2>2 DEF Enter
    <3>2. UNCHANGED <<mutex, taken, todo, cache, dirty, mem, got>>
      BY <2>2 DEF Enter
    <3>3. /\ mutex' \in [Cores -> Tasks \cup {NoTask}]
          /\ taken' \in BOOLEAN
          /\ todo' \in [Tasks -> SUBSET Lines]
      BY <3>2
    <3>4. /\ cache' \in [Cores -> [Lines -> Vals \cup {NoVal}]]
          /\ dirty' \in [Cores -> SUBSET Lines]
          /\ mem' \in [Lines -> Vals]
          /\ got' \in [Tasks -> Vals \cup {NoVal}]
      BY <3>2
    <3> QED BY <3>1, <3>3, <3>4
  <2> QED BY <1>1, <2>1, <2>2
<1>10. ASSUME NEW t \in Tasks, Pend(t) \/ Post(t) PROVE TypeOK'
  <2>1. CASE Pend(t)
    BY <2>1 DEF Pend
  <2>2. CASE Post(t)
    BY <2>2 DEF Post
  <2> QED BY <1>10, <2>1, <2>2
<1>11. ASSUME NEW t \in Tasks, TakeSpin(t) PROVE TypeOK'
  BY <1>11 DEF TakeSpin
<1>12. ASSUME NEW t \in Tasks, Unlock(t) PROVE TypeOK'
  BY <1>12 DEF Unlock
<1>13. ASSUME NEW t \in Tasks, FreeSpin(t) PROVE TypeOK'
  BY <1>13 DEF FreeSpin
<1>2. ASSUME NEW t \in Tasks, NEW l \in Lines, InvLine(t, l)
      PROVE  TypeOK'
  BY <1>2 DEF InvLine
<1>3. ASSUME NEW t \in Tasks, NEW l \in Lines, WbLine(t, l)
      PROVE  TypeOK'
  BY <1>3 DEF WbLine, WriteBack, DirtyCached
<1>4. ASSUME NEW t \in Tasks, NEW l \in Lines, Load(t, l)
      PROVE  TypeOK'
  BY <1>4 DEF Load, Seen, sync
<1>5. ASSUME NEW t \in Tasks, NEW l \in Lines, NEW v \in Vals, Store(t, l, v)
      PROVE  TypeOK'
  BY <1>5 DEF Store, sync
<1>6. ASSUME NEW c \in Cores, NEW l \in Lines, Peek(c, l)
      PROVE  TypeOK'
  BY <1>6 DEF Peek, sync
<1>7. ASSUME NEW c \in Cores, NEW l \in Lines, NEW v \in Vals, Poke(c, l, v)
      PROVE  TypeOK'
  BY <1>7 DEF Poke, sync
<1>8. ASSUME NEW c \in Cores, NEW l \in Lines, Evict(c, l)
      PROVE  TypeOK'
  BY <1>8 DEF Evict, WriteBack, sync, DirtyCached
<1>9. CASE UNCHANGED vars
  BY <1>9 DEF vars
<1> QED
  BY <1>1, <1>10, <1>11, <1>12, <1>13, <1>2, <1>3, <1>4, <1>5, <1>6, <1>7, <1>8,
     <1>9
  DEF Next, TaskStep, CacheStep

\* The two locks: only the seven steps of lock and unlock move them.
LEMMA SyncStep == TypeOK /\ SyncInv /\ [Next]_vars => SyncInv'
<1> SUFFICES ASSUME TypeOK, SyncInv, [Next]_vars PROVE SyncInv'
  OBVIOUS
<1> USE DEF TypeOK, SyncInv, MutexInv, SpinInv, MutualExclusion, Held
<1>1. ASSUME NEW t \in Tasks, Call(t) PROVE SyncInv'
  BY <1>1 DEF Call
<1>2. ASSUME NEW t \in Tasks, Pend(t) PROVE SyncInv'
  BY <1>2 DEF Pend
<1>3. ASSUME NEW t \in Tasks, TakeSpin(t) PROVE SyncInv'
  BY <1>3 DEF TakeSpin
<1>4. ASSUME NEW t \in Tasks, Enter(t) PROVE SyncInv'
  BY <1>4 DEF Enter
<1>5. ASSUME NEW t \in Tasks, Unlock(t) PROVE SyncInv'
  BY <1>5 DEF Unlock
<1>6. ASSUME NEW t \in Tasks, FreeSpin(t) PROVE SyncInv'
  BY <1>6 DEF FreeSpin
<1>7. ASSUME NEW t \in Tasks, Post(t) PROVE SyncInv'
  BY <1>7 DEF Post
<1>8. ASSUME UNCHANGED <<pc, mutex, taken>> PROVE SyncInv'
  BY <1>8
<1> QED
  BY <1>1, <1>2, <1>3, <1>4, <1>5, <1>6, <1>7, <1>8
  DEF Next, TaskStep, CacheStep, InvLine, WbLine, Load, Store, Peek, Poke,
      Evict, sync, vars

\* The steps of lock and unlock that touch neither the caches nor the RAM.
LEMMA DataLockStep ==
  ASSUME TypeOK, SyncInv, DataInv, NEW t \in Tasks,
         Call(t) \/ Pend(t) \/ TakeSpin(t) \/ Enter(t) \/ Unlock(t)
         \/ FreeSpin(t) \/ Post(t)
  PROVE  DataInv'
<1> USE DEF TypeOK, Held
<1>1. UNCHANGED <<cache, dirty, mem>>
  BY DEF Call, Pend, TakeSpin, Enter, Unlock, FreeSpin, Post
<1>2. DirtyCached'
  BY <1>1 DEF DataInv, DirtyCached
<1>3. DirtyInSection'
  <2> SUFFICES ASSUME NEW c \in Cores, NEW l \in Guarded, l \in dirty[c]
               PROVE  (\E u \in Tasks :
                         /\ CoreOf[u] = c
                         /\ pc[u] = "cs" \/ (pc[u] = "wb" /\ l \in todo[u]))'
    BY <1>1 DEF DirtyInSection
  <2>1. PICK u \in Tasks : /\ CoreOf[u] = c
                           /\ pc[u] = "cs" \/ (pc[u] = "wb" /\ l \in todo[u])
    BY DEF DataInv, DirtyInSection
  <2>2. l \in Lines
    BY DEF Guarded
  <2>3. CASE u # t
    <3>1. pc'[u] = pc[u] /\ todo'[u] = todo[u]
      BY <2>3 DEF Call, Pend, TakeSpin, Enter, Unlock, FreeSpin, Post
    <3> QED BY <3>1, <2>1
  <2>4. CASE u = t
    <3>1. CASE pc[t] = "cs"
      <4>1. Unlock(t)
        BY <3>1 DEF Call, Pend, TakeSpin, Enter, Unlock, FreeSpin, Post
      <4>2. pc'[t] = "wb" /\ l \in todo'[t]
        BY <4>1, <2>2 DEF Unlock
      <4> QED BY <4>2, <2>1, <2>4
    <3>2. CASE pc[t] = "wb" /\ l \in todo[t]
      BY <3>2 DEF Call, Pend, TakeSpin, Enter, Unlock, FreeSpin, Post
    <3> QED BY <3>1, <3>2, <2>1, <2>4
  <2> QED BY <2>3, <2>4
<1>4. CleanIsFresh'
  <2> SUFFICES ASSUME NEW u \in Tasks, NEW l \in Guarded,
                      pc'[u] \in Held,
                      pc'[u] = "inv" => l \notin todo'[u],
                      l \notin dirty[CoreOf[u]],
                      cache[CoreOf[u]][l] # NoVal
               PROVE  cache[CoreOf[u]][l] = mem[l]
    BY <1>1 DEF CleanIsFresh
  <2>1. l \in Lines
    BY DEF Guarded
  <2>2. CASE u # t
    <3>1. pc'[u] = pc[u] /\ todo'[u] = todo[u]
      BY <2>2 DEF Call, Pend, TakeSpin, Enter, Unlock, FreeSpin, Post
    <3> QED BY <3>1 DEF DataInv, CleanIsFresh
  <2>3. CASE u = t
    <3>1. pc[t] \in Held /\ (pc[t] = "inv" => l \notin todo[t])
      BY <2>1, <2>3
      DEF Call, Pend, TakeSpin, Enter, Unlock, FreeSpin, Post
    <3> QED BY <3>1, <2>3 DEF DataInv, CleanIsFresh
  <2> QED BY <2>2, <2>3
<1> QED
  BY <1>2, <1>3, <1>4 DEF DataInv

\* A dirty guarded line is dirty in the cache of the open section, so no other
\* core has anything of it to write back.
LEMMA OnlyHolderDirty ==
  ASSUME TypeOK, SyncInv, DataInv, NEW t \in Tasks, pc[t] \in Held,
         NEW c \in Cores, NEW l \in Guarded, l \in dirty[c]
  PROVE  c = CoreOf[t] /\ pc[t] # "inv" /\ (pc[t] = "wb" => l \in todo[t])
<1>1. PICK u \in Tasks : /\ CoreOf[u] = c
                         /\ pc[u] = "cs" \/ (pc[u] = "wb" /\ l \in todo[u])
  BY DEF DataInv, DirtyInSection
<1>2. u = t
  BY <1>1 DEF SyncInv, SpinInv, MutualExclusion, Held
<1> QED
  BY <1>1, <1>2

LEMMA DataInvLine ==
  ASSUME TypeOK, SyncInv, DataInv, NEW t \in Tasks, NEW l \in Lines,
         InvLine(t, l)
  PROVE  DataInv'
<1> USE DEF TypeOK, Held, InvLine
<1>0. \A u \in Tasks : pc[u] \in Held => u = t
  BY DEF SyncInv, SpinInv, MutualExclusion
<1>1. DirtyCached'
  BY DEF DataInv, DirtyCached
<1>2. DirtyInSection'
  BY <1>0 DEF DataInv, DirtyInSection, Guarded
<1>3. CleanIsFresh'
  BY <1>0 DEF DataInv, CleanIsFresh, Guarded
<1> QED
  BY <1>1, <1>2, <1>3 DEF DataInv

LEMMA DataSection ==
  ASSUME TypeOK, SyncInv, DataInv, NEW t \in Tasks, NEW l \in Lines,
         Load(t, l) \/ \E v \in Vals : Store(t, l, v)
  PROVE  DataInv'
<1> USE DEF TypeOK, Held, sync
<1>0. \A u \in Tasks : pc[u] \in Held => u = t
  BY DEF SyncInv, SpinInv, MutualExclusion, Load, Store
<1>1. CASE Load(t, l)
  <2>1. DirtyCached'
    BY <1>1 DEF DataInv, DirtyCached, Load, Seen
  <2>2. DirtyInSection'
    BY <1>1 DEF DataInv, DirtyInSection, Load
  <2>3. CleanIsFresh'
    BY <1>0, <1>1 DEF DataInv, CleanIsFresh, Load, Seen, Guarded
  <2> QED BY <2>1, <2>2, <2>3 DEF DataInv
<1>2. ASSUME NEW v \in Vals, Store(t, l, v) PROVE DataInv'
  <2>1. DirtyCached'
    BY <1>2 DEF DataInv, DirtyCached, Store
  <2>2. DirtyInSection'
    BY <1>2 DEF DataInv, DirtyInSection, Store
  <2>3. CleanIsFresh'
    BY <1>0, <1>2 DEF DataInv, CleanIsFresh, Store, Guarded
  <2> QED BY <2>1, <2>2, <2>3 DEF DataInv
<1> QED
  BY <1>1, <1>2

LEMMA DataWbLine ==
  ASSUME TypeOK, SyncInv, DataInv, NEW t \in Tasks, NEW l \in Lines,
         WbLine(t, l)
  PROVE  DataInv'
<1> USE DEF TypeOK, Held, WbLine, WriteBack
<1>0. \A u \in Tasks : pc[u] \in Held => u = t
  BY DEF SyncInv, SpinInv, MutualExclusion
<1>1. DirtyCached'
  BY DEF DataInv, DirtyCached
<1>2. DirtyInSection'
  BY <1>0 DEF DataInv, DirtyInSection, Guarded
<1>3. CleanIsFresh'
  BY <1>0 DEF DataInv, CleanIsFresh, Guarded
<1> QED
  BY <1>1, <1>2, <1>3 DEF DataInv

\* What happens outside the lock: a fill brings what the RAM has, a write
\* without the lock is to an unguarded line, an eviction writes back nothing
\* of a guarded line unless the open section wrote it.
LEMMA DataCache ==
  ASSUME TypeOK, SyncInv, DataInv, NEW c \in Cores, NEW l \in Lines,
         CacheStep(c, l)
  PROVE  DataInv'
<1> USE DEF TypeOK, Held, sync
<1>1. CASE Peek(c, l)
  <2>1. DirtyCached'
    BY <1>1 DEF DataInv, DirtyCached, Peek
  <2>2. DirtyInSection'
    BY <1>1 DEF DataInv, DirtyInSection, Peek
  <2>3. CleanIsFresh'
    BY <1>1 DEF DataInv, CleanIsFresh, Peek, Guarded
  <2> QED BY <2>1, <2>2, <2>3 DEF DataInv
<1>2. ASSUME NEW v \in Vals, Poke(c, l, v) PROVE DataInv'
  <2>0. l \notin Guarded
    BY <1>2 DEF Poke, Guarded
  <2>1. DirtyCached'
    BY <1>2 DEF DataInv, DirtyCached, Poke
  <2>2. DirtyInSection'
    BY <1>2, <2>0 DEF DataInv, DirtyInSection, Poke
  <2>3. CleanIsFresh'
    BY <1>2, <2>0 DEF DataInv, CleanIsFresh, Poke, Guarded
  <2> QED BY <2>1, <2>2, <2>3 DEF DataInv
<1>3. CASE Evict(c, l)
  <2>1. DirtyCached'
    BY <1>3 DEF DataInv, DirtyCached, Evict, WriteBack
  <2>2. DirtyInSection'
    BY <1>3 DEF DataInv, DirtyInSection, Evict, WriteBack
  <2>3. CleanIsFresh'
    <3> SUFFICES ASSUME NEW u \in Tasks, NEW k \in Guarded,
                        pc[u] \in Held, pc[u] = "inv" => k \notin todo[u],
                        k \notin dirty'[CoreOf[u]],
                        cache'[CoreOf[u]][k] # NoVal
                 PROVE  cache'[CoreOf[u]][k] = mem'[k]
      BY <1>3 DEF CleanIsFresh, Evict
    <3>1. k \in Lines
      BY DEF Guarded
    <3>2. cache'[CoreOf[u]][k] = cache[CoreOf[u]][k]
      BY <1>3, <3>1 DEF Evict
    <3>3. CASE k # l
      BY <1>3, <3>1, <3>2, <3>3 DEF Evict, WriteBack, DataInv, CleanIsFresh
    <3>4. CASE k = l
      <4>1. c # CoreOf[u]
        BY <1>3, <3>1, <3>4 DEF Evict
      <4>2. l \notin dirty[c]
        BY <3>4, <4>1, OnlyHolderDirty
      <4>3. mem' = mem /\ dirty'[CoreOf[u]] = dirty[CoreOf[u]]
        BY <1>3, <4>1, <4>2 DEF Evict, WriteBack
      <4> QED BY <3>2, <3>4, <4>3 DEF DataInv, CleanIsFresh
    <3> QED BY <3>3, <3>4
  <2> QED BY <2>1, <2>2, <2>3 DEF DataInv
<1> QED
  BY <1>1, <1>2, <1>3 DEF CacheStep

LEMMA DataStep == Inv /\ [Next]_vars => DataInv'
<1> SUFFICES ASSUME TypeOK, SyncInv, DataInv, [Next]_vars PROVE DataInv'
  BY DEF Inv
<1>1. CASE UNCHANGED vars
  BY <1>1 DEF vars, DataInv, DirtyCached, DirtyInSection, CleanIsFresh, Held
<1> QED
  BY <1>1, DataLockStep, DataInvLine, DataSection, DataWbLine, DataCache
  DEF Next, TaskStep

-----------------------------------------------------------------------------
(* The theorems *)

\* Inv is an inductive invariant of the lock.
THEOREM Invariance == Spec => []Inv
<1>1. Inv /\ [Next]_vars => Inv'
  BY TypeStep, SyncStep, DataStep DEF Inv, DataInv
<1> QED
  BY <1>1, InitInv, PTL DEF Spec

\* The variables keep their types.
THEOREM TypeCorrect == Spec => []TypeOK
<1>1. Inv => TypeOK
  BY DEF Inv
<1> QED
  BY <1>1, Invariance, PTL

\* At most one section is open on the two cores together.
THEOREM SectionsExclusive == Spec => []MutualExclusion
<1>1. Inv => MutualExclusion
  BY DEF Inv, SyncInv, SpinInv
<1> QED
  BY <1>1, Invariance, PTL

\* A spinning task waits for another core only.
THEOREM NeverSpinsOnOwnCore == Spec => []SpinsAcrossCores
<1>1. Inv => SpinsAcrossCores
  BY DEF Inv, TypeOK, SyncInv, SpinInv, MutexInv, SpinsAcrossCores, Held
<1> QED
  BY <1>1, Invariance, PTL

\* No write of a finished section waits in a cache.
THEOREM WritesReachMemory == Spec => []NothingLeftDirty
<1>1. Inv => NothingLeftDirty
  BY DEF Inv, DataInv, DirtyInSection, NothingLeftDirty
<1> QED
  BY <1>1, Invariance, PTL

-----------------------------------------------------------------------------
(* The refinement *)

\* owner names the open section, and there is none when no task is in one.
OwnerRight == /\ \A t \in Tasks : pc[t] \in Held => owner = t
              /\ (\A t \in Tasks : pc[t] \notin Held) => owner = NoTask

LEMMA OwnerIs == Inv => OwnerRight
<1> SUFFICES ASSUME Inv PROVE OwnerRight
  OBVIOUS
<1>1. ASSUME NEW t \in Tasks, pc[t] \in Held PROVE owner = t
  BY <1>1 DEF owner, Inv, SyncInv, SpinInv, MutualExclusion
<1> QED
  BY <1>1 DEF OwnerRight, owner

\* The owner's dirty guarded lines are the only ones, whoever the owner is.
LEMMA DirtyIsOwners ==
  ASSUME Inv, NEW c \in Cores, NEW l \in Guarded, l \in dirty[c]
  PROVE  owner \in Tasks /\ c = CoreOf[owner] /\ pc[owner] \in Held
<1>1. PICK t \in Tasks : /\ CoreOf[t] = c
                         /\ pc[t] = "cs" \/ (pc[t] = "wb" /\ l \in todo[t])
  BY DEF Inv, DataInv, DirtyInSection
<1>2. owner = t /\ pc[t] \in Held
  BY <1>1, OwnerIs DEF OwnerRight, Held
<1> QED
  BY <1>1, <1>2

LEMMA SeenIsStore ==
  ASSUME Inv, NEW t \in Tasks, pc[t] = "cs", NEW l \in Guarded
  PROVE  Seen(CoreOf[t], l) = store[l]
<1>1. owner = t
  BY OwnerIs DEF OwnerRight, Held
<1>2. store[l] = IF l \in dirty[CoreOf[t]] THEN cache[CoreOf[t]][l] ELSE mem[l]
  BY <1>1 DEF store
<1> QED
  BY <1>2 DEF Inv, TypeOK, DataInv, DirtyCached, CleanIsFresh, Seen, Held

\* A section sees, of every guarded line, the last value a section wrote.
THEOREM CachesCoherent == Spec => []Coherence
<1>1. Inv => Coherence
  BY SeenIsStore DEF Coherence
<1> QED
  BY <1>1, Invariance, PTL

LEMMA StoreType == Inv => store \in [Guarded -> Vals]
<1> SUFFICES ASSUME Inv, NEW l \in Guarded PROVE store[l] \in Vals
  BY DEF store
<1>1. owner # NoTask => owner \in Tasks
  BY DEF owner
<1>2. l \in Lines
  BY DEF Guarded
<1> QED
  BY <1>1, <1>2 DEF store, Inv, TypeOK, DataInv, DirtyCached

\* Opening a section changes nothing a section can see.
LEMMA TakeSpinRefines ==
  ASSUME Inv, Inv', OwnerRight', NEW t \in Tasks, TakeSpin(t)
  PROVE  Abstract!Acquire(t)
<1> USE DEF TakeSpin, Held
<1>1. owner = NoTask
  BY OwnerIs DEF OwnerRight, Inv, SyncInv, SpinInv
<1>2. owner' = t
  BY DEF OwnerRight, Inv, TypeOK
<1>3. ASSUME NEW l \in Guarded PROVE l \notin dirty[CoreOf[t]]
  BY <1>1, DirtyIsOwners DEF Inv, TypeOK
<1>4. store' = store
  BY <1>1, <1>2, <1>3 DEF store
<1> QED
  BY <1>1, <1>2, <1>4 DEF Abstract!Acquire

\* Closing one does not either: everything it wrote is in the RAM.
LEMMA FreeSpinRefines ==
  ASSUME Inv, Inv', OwnerRight', NEW t \in Tasks, FreeSpin(t)
  PROVE  Abstract!Release(t)
<1> USE DEF FreeSpin, Held
<1>1. owner = t
  BY OwnerIs DEF OwnerRight
<1>2. owner' = NoTask
  BY DEF OwnerRight, Inv, TypeOK, SyncInv, SpinInv, MutualExclusion
<1>3. ASSUME NEW l \in Guarded PROVE l \notin dirty[CoreOf[t]]
  BY OnlyHolderDirty DEF Inv, TypeOK
<1>4. store' = store
  BY <1>1, <1>2, <1>3 DEF store
<1> QED
  BY <1>1, <1>2, <1>4 DEF Abstract!Release

\* A load of a guarded line reads it; a load of another line is not promised.
LEMMA LoadRefines ==
  ASSUME Inv, Inv', OwnerRight', NEW t \in Tasks, NEW l \in Lines, Load(t, l)
  PROVE  (l \in Guarded /\ Abstract!Read(t, l))
         \/ UNCHANGED <<owner, store, got>>
<1> USE DEF Load, Held, sync
<1>1. owner = t /\ owner' = t
  BY OwnerIs DEF OwnerRight
<1>2. store' = store
  <2> SUFFICES ASSUME NEW k \in Guarded PROVE store'[k] = store[k]
    BY DEF store
  <2>1. k \in Lines
    BY DEF Guarded
  <2> QED
    BY <1>1, <2>1 DEF store, Inv, TypeOK, DataInv, DirtyCached, Seen
<1>3. CASE l \in Guarded
  <2>1. Seen(CoreOf[t], l) = store[l]
    BY <1>3, SeenIsStore
  <2> QED BY <1>1, <1>2, <1>3, <2>1 DEF Abstract!Read
<1>4. CASE l \notin Guarded
  BY <1>1, <1>2, <1>4
<1> QED
  BY <1>3, <1>4

LEMMA StoreRefines ==
  ASSUME Inv, Inv', OwnerRight', NEW t \in Tasks, NEW l \in Lines,
         NEW v \in Vals, Store(t, l, v)
  PROVE  (l \in Guarded /\ Abstract!Write(t, l, v))
         \/ UNCHANGED <<owner, store, got>>
<1> USE DEF Store, Held, sync
<1>1. owner = t /\ owner' = t
  BY OwnerIs DEF OwnerRight
<1>2. ASSUME NEW k \in Guarded
      PROVE  store'[k] = IF k = l THEN v ELSE store[k]
  <2>1. k \in Lines
    BY DEF Guarded
  <2> QED
    BY <1>1, <2>1 DEF store, Inv, TypeOK
<1>3. CASE l \in Guarded
  <2>1. store' = [store EXCEPT ![l] = v]
    BY <1>2, <1>3 DEF store
  <2> QED BY <1>1, <1>3, <2>1 DEF Abstract!Write
<1>4. CASE l \notin Guarded
  <2>1. store' = store
    BY <1>2, <1>4 DEF store
  <2> QED BY <1>1, <2>1
<1> QED
  BY <1>3, <1>4

\* The other steps of a task leave the owner, and what it sees, as they were.
LEMMA QuietTaskStep ==
  ASSUME Inv, Inv', OwnerRight', NEW t \in Tasks,
         \/ Call(t) \/ Pend(t) \/ Enter(t) \/ Unlock(t) \/ Post(t)
         \/ \E l \in Lines : InvLine(t, l) \/ WbLine(t, l)
  PROVE  UNCHANGED <<owner, store, got>>
<1> USE DEF Held
<1>1. got' = got
  BY DEF Call, Pend, Enter, Unlock, Post, InvLine, WbLine
<1>2. \A u \in Tasks : pc'[u] \in Held <=> pc[u] \in Held
  BY DEF Call, Pend, Enter, Unlock, Post, InvLine, WbLine, Inv, TypeOK
<1>3. owner' = owner
  BY <1>2 DEF owner
<1>4. CASE \/ Call(t) \/ Pend(t) \/ Enter(t) \/ Unlock(t) \/ Post(t)
  <2>1. store' = store
    BY <1>3, <1>4 DEF store, Call, Pend, Enter, Unlock, Post
  <2> QED BY <1>1, <1>3, <2>1
<1>5. ASSUME NEW l \in Lines, InvLine(t, l) PROVE store' = store
  <2>1. ASSUME NEW k \in Guarded PROVE k \notin dirty[CoreOf[t]]
    BY <1>5, OnlyHolderDirty DEF InvLine, Inv, TypeOK
  <2>2. owner = t
    BY <1>5, OwnerIs DEF OwnerRight, InvLine
  <2> QED BY <1>3, <1>5, <2>1, <2>2 DEF store, InvLine, Inv, TypeOK
<1>6. ASSUME NEW l \in Lines, WbLine(t, l) PROVE store' = store
  <2>1. owner = t
    BY <1>6, OwnerIs DEF OwnerRight, WbLine
  <2> SUFFICES ASSUME NEW k \in Guarded PROVE store'[k] = store[k]
    BY DEF store
  <2>2. k \in Lines
    BY DEF Guarded
  <2> QED
    BY <1>3, <1>6, <2>1, <2>2 DEF store, WbLine, WriteBack, Inv, TypeOK
<1> QED
  BY <1>1, <1>3, <1>4, <1>5, <1>6

\* Nothing that happens outside the lock shows in a guarded line.
LEMMA QuietCacheStep ==
  ASSUME Inv, Inv', OwnerRight', NEW c \in Cores, NEW l \in Lines,
         CacheStep(c, l)
  PROVE  UNCHANGED <<owner, store, got>>
<1> USE DEF Held, sync
<1>1. got' = got /\ pc' = pc
  BY DEF CacheStep, Peek, Poke, Evict
<1>2. owner' = owner
  BY <1>1 DEF owner
<1> SUFFICES ASSUME NEW k \in Guarded PROVE store'[k] = store[k]
  BY <1>1, <1>2 DEF store
<1>3. k \in Lines
  BY DEF Guarded
<1>4. owner # NoTask => owner \in Tasks
  BY DEF owner
<1>5. CASE Peek(c, l)
  BY <1>2, <1>3, <1>4, <1>5 DEF store, Peek, Inv, TypeOK, DataInv, DirtyCached
<1>6. ASSUME NEW v \in Vals, Poke(c, l, v) PROVE store'[k] = store[k]
  <2>1. k # l
    BY <1>6 DEF Poke, Guarded
  <2> QED
    BY <1>2, <1>3, <1>4, <1>6, <2>1 DEF store, Poke, Inv, TypeOK
<1>7. CASE Evict(c, l)
  <2>1. CASE k # l
    BY <1>2, <1>3, <1>4, <1>7, <2>1 DEF store, Evict, WriteBack, Inv, TypeOK
  <2>2. CASE k = l /\ l \in dirty[c]
    <3>1. owner \in Tasks /\ c = CoreOf[owner]
      BY <2>2, DirtyIsOwners
    <3> QED
      BY <1>2, <1>3, <1>7, <2>2, <3>1
      DEF store, Evict, WriteBack, Inv, TypeOK
  <2>3. CASE k = l /\ l \notin dirty[c]
    <3>1. mem' = mem /\ (k \in dirty[CoreOf[owner]] => c # CoreOf[owner])
      BY <1>7, <2>3 DEF Evict, WriteBack
    <3> QED
      BY <1>2, <1>3, <1>4, <1>7, <2>3, <3>1
      DEF store, Evict, WriteBack, Inv, TypeOK
  <2> QED BY <2>1, <2>2, <2>3
<1> QED
  BY <1>5, <1>6, <1>7 DEF CacheStep

\* The lock, its invalidations and its write-backs give the sections of both
\* cores one memory: ShmLock implements SharedSections on the guarded lines.
THEOREM Implementation == Spec => Implements
<1>1. Init => Abstract!Init
  <2> SUFFICES ASSUME Init PROVE Abstract!Init
    OBVIOUS
  <2>1. Inv
    BY InitInv
  <2>2. owner = NoTask
    BY <2>1, OwnerIs DEF Init, OwnerRight, Held
  <2> QED BY <2>1, <2>2, StoreType DEF Init, Abstract!Init
<1>2. Inv /\ Inv' /\ OwnerRight' /\ [Next]_vars => [Abstract!Next]_(Abstract!vars)
  <2> SUFFICES ASSUME Inv, Inv', OwnerRight', [Next]_vars
               PROVE  [Abstract!Next]_(Abstract!vars)
    OBVIOUS
  <2> USE DEF Abstract!Next, Abstract!vars
  <2>1. ASSUME NEW t \in Tasks, TaskStep(t)
        PROVE  [Abstract!Next]_(Abstract!vars)
    BY <2>1, TakeSpinRefines, FreeSpinRefines, LoadRefines, StoreRefines,
       QuietTaskStep DEF TaskStep
  <2>2. ASSUME NEW c \in Cores, NEW l \in Lines, CacheStep(c, l)
        PROVE  [Abstract!Next]_(Abstract!vars)
    BY <2>2, QuietCacheStep
  <2>3. CASE UNCHANGED vars
    BY <2>3 DEF vars, owner, store
  <2> QED BY <2>1, <2>2, <2>3 DEF Next
<1>3. Inv => OwnerRight
  BY OwnerIs
<1> QED
  BY <1>1, <1>2, <1>3, Invariance, PTL DEF Spec, Implements, Abstract!Spec
=============================================================================
