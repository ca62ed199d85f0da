--------------------------- MODULE SharedSections ---------------------------
(***************************************************************************)
(* What app_ipc_sharemem_lock / app_ipc_sharemem_unlock promise to the code *)
(* between them: one section at a time runs on either core, and every read  *)
(* in it returns the last value a section wrote, as if the two cores shared *)
(* one uncached memory.  ShmLock is shown to implement this specification.  *)
(***************************************************************************)

CONSTANTS Tasks,    \* every task of both cores that opens sections
          Lines,    \* the pieces of gSharedMem, one per cache line
          Vals,     \* what a piece may hold
          NoTask, NoVal

VARIABLES owner,    \* the task inside a section, or NoTask
          store,    \* the contents of gSharedMem
          got       \* what the section of each task last read

vars == <<owner, store, got>>

Init == /\ owner = NoTask
        /\ store \in [Lines -> Vals]
        /\ got = [t \in Tasks |-> NoVal]

Acquire(t) == /\ owner = NoTask
              /\ owner' = t
              /\ UNCHANGED <<store, got>>

Read(t, l) == /\ owner = t
              /\ got' = [got EXCEPT ![t] = store[l]]
              /\ UNCHANGED <<owner, store>>

Write(t, l, v) == /\ owner = t
                  /\ store' = [store EXCEPT ![l] = v]
                  /\ UNCHANGED <<owner, got>>

Release(t) == /\ owner = t
              /\ owner' = NoTask
              /\ got' = [got EXCEPT ![t] = NoVal]
              /\ UNCHANGED store

Next == \E t \in Tasks :
           \/ Acquire(t)
           \/ Release(t)
           \/ \E l \in Lines : Read(t, l) \/ \E v \in Vals : Write(t, l, v)

Spec == Init /\ [][Next]_vars
=============================================================================
