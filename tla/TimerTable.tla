----------------------------- MODULE TimerTable -----------------------------
(***************************************************************************)
(* The alarm table of the CANopen stack (timer.c, timerdrv.c) and its users  *)
(* in this program: the SYNC producer (sync.c), the heartbeat consumers      *)
(* (lifegrd.c) and the timeouts of the SDO lines (sdo.c).  TIMER polls the   *)
(* table every tick and dispatches it; RPDO renews and deletes alarms as     *)
(* frames arrive; MAIN sets those of the SDO lines it opens.  No lock        *)
(* protects the table.  Time is counted in ticks; lateness is bounded by Lag.*)
(***************************************************************************)
EXTENDS Integers, FiniteSets

CONSTANTS N,                 \* MAX_NB_TIMER
          Consumers, Lines,  \* heartbeat consumer entries, SDO lines
          Sync,              \* the SYNC producer
          Value,             \* the time each owner sets its alarm to
          Never,             \* TIMEVAL_MAX
          Lag,               \* a poll comes at most so many ticks late
          Boot,              \* bound: ticks from power on to StartTimerLoop
          Preempt            \* may a task run while another is in the table?

Owners == Consumers \cup Lines \cup {Sync}
Rows == 0..(N - 1)
TIMER_NONE == -1

ASSUME TableAssumption == N \in Nat \ {0} /\ Lag \in Nat /\ Boot \in Nat
                          /\ Preempt \in BOOLEAN
ASSUME OwnersAssumption == Sync \notin Consumers \cup Lines /\ Consumers \cap Lines = {}
ASSUME ValueAssumption == /\ Value \in [Owners -> Nat \ {0}] /\ Never \in Nat
\* TIMEVAL_MAX is 2^64 - 1 microseconds.
ASSUME NeverAssumption == \A o \in Owners : Value[o] + Boot + Lag < Never

VARIABLES
  tb,       \* state, owner and val of the rows, last_timer_raw,
            \* total_sleep_time and NextTime - now
  elapsed,  \* getElapsedTime(): now - last_time_set
  handle,   \* the owners' handles (syncTimer, ConsumerHeartBeatTimers, timer)
  open,     \* the SDO lines with a transfer in progress
  at, row,  \* where TIMER is in CANTimerCallBack, and at which row
  main,     \* the row and the line of the SetAlarm that MAIN is in
  due       \* history: the time left until each alarm should ring

timer == <<at, row>>
vars == <<tb, elapsed, handle, open, timer, main, due>>

Table == [state : [Rows -> {"free", "armed", "trig", "trig_period"}],
          owner : [Rows -> Owners], val : [Rows -> Int],
          last : -1..(N - 1), total : Int, next : Int]

Nobody == [row |-> TIMER_NONE, line |-> Sync]

TypeOK ==
  /\ tb \in Table /\ elapsed \in Nat /\ open \subseteq Lines
  /\ handle \in [Owners -> Rows \cup {TIMER_NONE}] /\ due \in [Owners -> Int]
  /\ at \in {"off", "boot", "out", "age", "trig", "ring"} /\ row \in 0..N
  /\ at = "ring" => row \in Rows
  /\ main \in [row : Rows, line : Lines] \cup {Nobody}

Init ==
  /\ tb = [state |-> [r \in Rows |-> "free"], owner |-> [r \in Rows |-> Sync],
           val |-> [r \in Rows |-> 0], last |-> -1, total |-> Never, next |-> 0]
  /\ elapsed = 0
  /\ handle = [o \in Owners |-> TIMER_NONE] /\ due = [o \in Owners |-> 0]
  /\ open = {} /\ at = "off" /\ row = 0 /\ main = Nobody

----------------------------------------------------------------------------
(* SetAlarm and DelAlarm *)

Least(S) == CHOOSE r \in S : \A q \in S : r <= q

\* slip: the end of the table is not looked at
RowPastEnd(t) ==
  LET free == {r \in 0..t.last : t.state[r] = "free"}
  IN IF free = {} THEN t.last + 1 ELSE Least(free)

\* The first free row, up to the one after the last
RowFor(t) ==
  LET free == {r \in Rows : r <= t.last + 1 /\ t.state[r] = "free"}
  IN IF free = {} THEN TIMER_NONE ELSE Least(free)

\* slip: the part of the sleep that has passed is not taken off
FoundWhole(t, r, v) ==
  [t EXCEPT !.last = IF r = @ + 1 THEN r ELSE @,
            !.total = IF @ > v THEN elapsed + v ELSE @,
            !.next = IF t.total > v THEN v ELSE @]

\* The row is found: last_timer_raw grows, and the sleep is cut short if the
\* new alarm is the soonest.
Found(t, r, v) ==
  LET sooner == t.total > elapsed /\ t.total - elapsed > v
  IN [t EXCEPT !.last = IF r = @ + 1 THEN r ELSE @,
               !.total = IF sooner THEN elapsed + v ELSE @,
               !.next = IF sooner THEN v ELSE @]

Stored(t, r, o) ==
  [t EXCEPT !.owner[r] = o, !.val[r] = Value[o] + elapsed, !.state[r] = "armed"]

SetAlarm(t, o) == LET r == RowFor(t) IN
  IF r = TIMER_NONE THEN t ELSE Stored(Found(t, r, Value[o]), r, o)

\* slip: the last row is given up whichever row is deleted
DelAlarmShrinks(t, h) ==
  IF h = TIMER_NONE THEN t
  ELSE [t EXCEPT !.last = @ - 1, !.state[h] = "free"]

DelAlarm(t, h) ==
  IF h = TIMER_NONE THEN t
  ELSE [t EXCEPT !.last = IF h = @ THEN @ - 1 ELSE @, !.state[h] = "free"]

Set(o) == handle[o] # TIMER_NONE

\* Owner o leaves the table t with the handle h.
Holds(o, t, h) ==
  /\ tb' = t
  /\ handle' = [handle EXCEPT ![o] = h]
  /\ due' = [due EXCEPT ![o] = IF h = TIMER_NONE THEN 0 ELSE Value[o]]

Renews(o) == LET t == DelAlarm(tb, handle[o]) IN Holds(o, SetAlarm(t, o), RowFor(t))

----------------------------------------------------------------------------
(* RPDO, of a higher priority than TIMER and MAIN *)

\* In "boot", the first scan, TIMER does not run yet.
Outside == at \in {"boot", "out"} /\ main = Nobody

Rpdo == at # "off" /\ (Preempt \/ Outside) /\ UNCHANGED <<elapsed, timer, main>>

\* A heartbeat renews the alarm of its node (proceedNODE_GUARD).
Heartbeat(c) == Rpdo /\ Renews(c) /\ UNCHANGED open

\* An answer that is not the last restarts the timeout, if there is one.
Answer(l) == Rpdo /\ l \in open /\ Set(l) /\ Renews(l) /\ UNCHANGED open

\* The last answer, or an abort, stops it.
Finish(l) ==
  /\ Rpdo /\ l \in open
  /\ Holds(l, DelAlarm(tb, handle[l]), TIMER_NONE)
  /\ open' = open \ {l}

----------------------------------------------------------------------------
(* MAIN, of the lowest priority *)

\* InitNodes starts the SYNC producer, and the first scan.
Start ==
  /\ at = "off"
  /\ at' = "boot"
  /\ Holds(Sync, SetAlarm(tb, Sync), RowFor(tb))
  /\ UNCHANGED <<elapsed, open, row, main>>

Main == UNCHANGED <<elapsed, timer>>

\* After it ODMaster_configure_PDO sets the period to 0 (stopSYNC), if the
\* transmission types are 0xFF, as they are.
StopSync ==
  /\ at = "boot" /\ Outside /\ Main
  /\ Set(Sync)
  /\ Holds(Sync, DelAlarm(tb, handle[Sync]), TIMER_NONE)
  /\ UNCHANGED <<open, main>>

\* InitNodes has returned; TIMER runs from now on.
StartTimerLoop ==
  /\ at = "boot" /\ Outside
  /\ at' = "out"
  /\ UNCHANGED <<tb, elapsed, handle, open, row, main, due>>

\* initSDOline: MAIN finds a row for the timeout of a line, or none.
Find(l) == LET r == RowFor(tb) IN
  /\ Outside /\ Main
  /\ l \notin open
  /\ open' = open \cup {l}
  /\ IF r = TIMER_NONE THEN UNCHANGED <<tb, main>>
     ELSE tb' = Found(tb, r, Value[l]) /\ main' = [row |-> r, line |-> l]
  /\ UNCHANGED <<handle, due>>

\* ... and stores its alarm there.
Store ==
  /\ main # Nobody /\ at \in {"boot", "out"} /\ Main
  /\ Holds(main.line, Stored(tb, main.row, main.line), main.row)
  /\ main' = Nobody
  /\ UNCHANGED open

----------------------------------------------------------------------------
(* TIMER *)

\* CANTimerCallBack: NextTime has passed.
Poll ==
  /\ at = "out" /\ tb.next <= 0 /\ (Preempt \/ main = Nobody)
  /\ elapsed' = 0 /\ at' = "age"
  /\ UNCHANGED <<tb, handle, open, row, main, due>>

Active(r) == r <= tb.last /\ tb.state[r] \in {"armed", "trig_period"}

\* The table after the sleep: every row is aged by the sleep that was asked for,
\* and what the poll was late by is lost.
Aged ==
  LET real == (tb.total + elapsed) % (Never + 1)
      past(r) == Active(r) /\ tb.val[r] <= real
      once(r) == past(r) /\ tb.owner[r] # Sync
      val == [r \in Rows |->
                IF ~Active(r) \/ once(r) THEN tb.val[r]
                ELSE IF past(r) THEN Value[Sync] - (elapsed % Value[Sync])
                ELSE tb.val[r] - real]
      left == {val[r] : r \in {q \in Rows : Active(q) /\ ~once(q)}}
  IN [tb EXCEPT !.val = val,
        !.state = [r \in Rows |-> IF once(r) THEN "trig"
                                  ELSE IF past(r) THEN "trig_period" ELSE @[r]],
        !.total = IF left = {} THEN Never ELSE Least(left),
        !.next = IF left = {} THEN -1 ELSE Least(left)]

\* slip: the alarms that are not past keep the time they had
AgeKeeps ==
  /\ at = "age"
  /\ tb' = [Aged EXCEPT !.val = [r \in Rows |->
              IF tb.owner[r] = Sync THEN @[r] ELSE tb.val[r]]]
  /\ at' = "trig" /\ row' = 0
  /\ UNCHANGED <<elapsed, handle, open, main, due>>

\* TimeDispatch, first run
Age ==
  /\ at = "age"
  /\ tb' = Aged
  /\ at' = "trig" /\ row' = 0
  /\ UNCHANGED <<elapsed, handle, open, main, due>>

Triggered == {r \in row..tb.last : tb.state[r] \in {"trig", "trig_period"}}

\* Second run: the row of the next alarm that is due is free, or armed again
\* if periodic, before the callback is called.
Release == LET r == Least(Triggered) IN
  /\ at = "trig" /\ Triggered # {}
  /\ tb' = [tb EXCEPT !.state[r] = IF @ = "trig" THEN "free" ELSE "armed"]
  /\ at' = "ring" /\ row' = r
  /\ UNCHANGED <<elapsed, handle, open, main, due>>

Return ==
  /\ at = "trig" /\ Triggered = {}
  /\ at' = "out" /\ row' = 0
  /\ UNCHANGED <<tb, elapsed, handle, open, main, due>>

Called == at = "ring" /\ at' = "trig" /\ row' = row + 1 /\ UNCHANGED <<elapsed, main>>

\* SyncAlarm
RingSync ==
  /\ Called /\ tb.owner[row] = Sync
  /\ due' = [due EXCEPT ![Sync] = Value[Sync]]
  /\ UNCHANGED <<tb, handle, open>>

\* slip: the alarm that has rung is still known by its handle
RingConsumerKeeps ==
  /\ Called /\ tb.owner[row] \in Consumers
  /\ due' = [due EXCEPT ![tb.owner[row]] = 0]
  /\ UNCHANGED <<tb, handle, open>>

\* ConsumerHeartbeatAlarm
RingConsumer ==
  /\ Called /\ tb.owner[row] \in Consumers
  /\ Holds(tb.owner[row], tb, TIMER_NONE)
  /\ UNCHANGED open

\* SDOTimeoutAlarm; its callback closes the transfer, and may begin another.
RingLine == LET l == tb.owner[row] IN
  /\ Called /\ l \in Lines
  /\ \/ Holds(l, tb, TIMER_NONE) /\ open' = open \ {l}
     \/ \E k \in Lines \ (open \ {l}) :
          /\ tb' = SetAlarm(tb, k)
          /\ handle' = [handle EXCEPT ![l] = TIMER_NONE, ![k] = RowFor(tb)]
          /\ due' = [due EXCEPT ![l] = 0,
                                ![k] = IF RowFor(tb) = TIMER_NONE THEN 0 ELSE Value[k]]
          /\ open' = (open \ {l}) \cup {k}

----------------------------------------------------------------------------
(* A tick passes; TIMER is never more than Lag late, once it runs. *)
Tick ==
  /\ at # "off" /\ (Preempt \/ Outside)
  /\ IF at = "boot" THEN elapsed < Boot ELSE tb.next > -Lag
  /\ tb' = [tb EXCEPT !.next = @ - 1]
  /\ elapsed' = elapsed + 1
  /\ due' = [o \in Owners |-> IF handle[o] = TIMER_NONE THEN due[o] ELSE due[o] - 1]
  /\ UNCHANGED <<handle, open, timer, main>>

Next == \/ \E c \in Consumers : Heartbeat(c)
        \/ \E l \in Lines : Answer(l) \/ Finish(l) \/ Find(l)
        \/ Start \/ StopSync \/ StartTimerLoop \/ Store \/ Poll \/ Age \/ Release \/ Return
        \/ RingSync \/ RingConsumer \/ RingLine \/ Tick

Spec == Init /\ [][Next]_vars

----------------------------------------------------------------------------
(* Properties *)

Rung(o) == at = "ring" /\ handle[o] = row

\* A handle names a row that is its owner's, until the alarm rings.  RPDO
\* deletes and renews by handle, without a look at whose row it is.
OwnHandle == \A o \in Owners : Set(o) =>
  tb.owner[handle[o]] = o /\ (tb.state[handle[o]] # "free" \/ Rung(o))

\* The next wake-up is not later than any alarm, although it is set by TIMER
\* in the dispatch, and by other tasks when they set a sooner one.
WakeInTime == at = "out" => \A r \in Rows :
  tb.state[r] = "armed" => tb.next <= tb.val[r] - elapsed

\* The dispatch forgets what each poll was late by, so lateness adds up: by Lag
\* for each tick the alarm is set to, those of the sleep it is set in included,
\* and once by Boot, for the first poll comes after the first scan.  A silent
\* module is reported within a multiple of its time.
LateBound == \A o \in Owners : Set(o) =>
  due[o] >= -(Boot + Lag * (Value[o] + Boot + Lag + 1))

A == INSTANCE Alarms WITH Slots <- N, Periodic <- {Sync},
                          set <- {o \in Owners : Set(o)},
                          refused <- {l \in open : ~Set(l) /\ main.line # l}

\* The table gives its users the alarms they are promised: none rings before
\* its time, is lost, or is refused while a row is free.
Implements == A!Spec
=============================================================================
