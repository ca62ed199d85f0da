------------------------- MODULE TimerTable_proofs -------------------------
(***************************************************************************)
(* Proofs about TimerTable for a table of any size, any owners and times.   *)
(***************************************************************************)
EXTENDS TimerTable, TLAPS, WellFoundedInduction, FiniteSetTheorems

USE TableAssumption, OwnersAssumption, ValueAssumption

-----------------------------------------------------------------------------
(* The operators on tables *)

\* A set of naturals has a least element.
LEMMA Minimal ==
  ASSUME NEW S, S \subseteq Nat, S # {}, NEW less, IsWellFoundedOn(less, Nat)
  PROVE  \E r \in S : \A q \in S : ~(<<q, r>> \in less)
BY WFMin

LEMMA LeastIn ==
  ASSUME NEW S, S \subseteq Nat, S # {}
  PROVE  Least(S) \in S /\ \A q \in S : Least(S) <= q
<1> DEFINE less == {ss \in Nat \X Nat : ss[1] < ss[2]}
<1>1. IsWellFoundedOn(less, Nat)
  BY NatLessThanWellFounded DEF OpToRel
<1>2. \E r \in S : \A q \in S : ~(<<q, r>> \in less)
  <2> HIDE DEF less
  <2> QED BY <1>1, Minimal
<1>3. \A q, r \in Nat : q < r => <<q, r>> \in less
  OBVIOUS
<1> HIDE DEF less
<1>4. \E r \in S : \A q \in S : r <= q
  <2>1. PICK r \in S : \A q \in S : ~(<<q, r>> \in less)
    BY <1>2
  <2>2. ASSUME NEW q \in S PROVE r <= q
    <3>1. q \in Nat /\ r \in Nat /\ (r <= q \/ q < r)
      OBVIOUS
    <3> QED BY <1>3, <2>1, <3>1
  <2> QED BY <2>2
<1> QED
  BY <1>4 DEF Least

\* What the dispatch looks for lies in the table.
LEMMA TriggeredRows ==
  ASSUME tb \in Table, row \in 0..N PROVE Triggered \subseteq Rows /\ Triggered \subseteq Nat
<1>1. tb.last \in -1..(N - 1)
  BY DEF Table
<1>2. \A r \in row..tb.last : r \in 0..(N - 1)
  BY <1>1
<1>3. Triggered \subseteq 0..(N - 1)
  BY <1>2 DEF Triggered
<1> QED BY <1>3 DEF Rows

\* The row found is free, and at most one after the last.
LEMMA RowForFacts ==
  ASSUME NEW t \in Table
  PROVE  RowFor(t) = TIMER_NONE \/ /\ RowFor(t) \in Rows
                                   /\ t.state[RowFor(t)] = "free"
                                   /\ RowFor(t) <= t.last + 1
<1> DEFINE free == {r \in Rows : r <= t.last + 1 /\ t.state[r] = "free"}
<1>1. free \subseteq Nat
  BY DEF Rows
<1>2. free # {} => Least(free) \in free
  BY <1>1, LeastIn
<1> QED
  BY <1>2 DEF RowFor

\* What keeps TIMER in time: no alarm lies beyond last_timer_raw, none is sooner
\* than the sleep, and only alarms that ring once are freed by the dispatch.
Timed(t, e) ==
  /\ t.total >= 0 /\ t.next <= t.total - e
  /\ \A r \in Rows : /\ t.state[r] # "free" => r <= t.last
                     /\ t.state[r] \in {"armed", "trig_period"} => t.total <= t.val[r]
                     /\ t.state[r] = "trig" => t.owner[r] # Sync

LEMMA FoundFacts ==
  ASSUME NEW t \in Table, NEW r \in Rows, NEW v \in Nat, elapsed \in Nat
  PROVE  LET u == Found(t, r, v) IN
         /\ u \in Table
         /\ u.state = t.state /\ u.owner = t.owner /\ u.val = t.val
         /\ Timed(t, elapsed) /\ r <= t.last + 1
              => Timed(u, elapsed) /\ r <= u.last /\ u.total <= v + elapsed
<1> DEFINE u == Found(t, r, v)
<1>0. Found(t, r, v) \in Table
  <2>1. elapsed + v \in Int /\ v \in Int /\ r \in -1..(N - 1)
    BY DEF Rows
  <2> QED BY <2>1 DEF Found, Table
<1>1. /\ u.state = t.state /\ u.owner = t.owner /\ u.val = t.val
      /\ u.last = IF r = t.last + 1 THEN r ELSE t.last
      /\ u.total = IF t.total > elapsed /\ t.total - elapsed > v THEN elapsed + v ELSE t.total
      /\ u.next = IF t.total > elapsed /\ t.total - elapsed > v THEN v ELSE t.next
  BY DEF Found, Table, Rows
<1>2. /\ t.total \in Int /\ t.next \in Int /\ t.last \in -1..(N - 1) /\ r \in Nat
      /\ t.val \in [Rows -> Int]
  BY DEF Table, Rows
<1> HIDE DEF u
<1>3. ASSUME Timed(t, elapsed), r <= t.last + 1
      PROVE  Timed(u, elapsed) /\ r <= u.last /\ u.total <= v + elapsed
  <2>1. u.total >= 0 /\ u.next <= u.total - elapsed /\ u.total <= t.total
    BY <1>1, <1>2, <1>3 DEF Timed
  <2>2. r <= u.last /\ t.last <= u.last /\ u.total <= v + elapsed
    BY <1>1, <1>2, <1>3
  <2>3. \A q \in Rows : /\ u.state[q] # "free" => q <= u.last
                        /\ u.state[q] \in {"armed", "trig_period"} => u.total <= u.val[q]
                        /\ u.state[q] = "trig" => u.owner[q] # Sync
    <3> SUFFICES ASSUME NEW q \in Rows
                 PROVE  /\ u.state[q] # "free" => q <= u.last
                        /\ u.state[q] \in {"armed", "trig_period"} => u.total <= u.val[q]
                        /\ u.state[q] = "trig" => u.owner[q] # Sync
      OBVIOUS
    <3>1. q \in Int /\ u.last \in Int /\ t.last \in Int /\ t.val[q] \in Int
          /\ u.total \in Int
      BY <1>1, <1>2 DEF Rows
    <3>2. /\ t.state[q] # "free" => q <= t.last
          /\ t.state[q] \in {"armed", "trig_period"} => t.total <= t.val[q]
          /\ t.state[q] = "trig" => t.owner[q] # Sync
      BY <1>3 DEF Timed
    <3> QED
      BY <1>1, <1>2, <2>1, <2>2, <3>1, <3>2
  <2> QED BY <2>1, <2>2, <2>3 DEF Timed
<1> QED
  BY <1>0, <1>1, <1>3 DEF u

LEMMA StoredFacts ==
  ASSUME NEW t \in Table, NEW r \in Rows, NEW o \in Owners, elapsed \in Nat
  PROVE  LET u == Stored(t, r, o) IN
         /\ u \in Table
         /\ u.owner = [t.owner EXCEPT ![r] = o]
         /\ u.state = [t.state EXCEPT ![r] = "armed"]
         /\ Timed(t, elapsed) /\ r <= t.last /\ t.total <= Value[o] + elapsed
              => Timed(u, elapsed)
<1> DEFINE u == Stored(t, r, o)
<1>0. Stored(t, r, o) \in Table
  <2>1. Value[o] + elapsed \in Int
    OBVIOUS
  <2> QED BY <2>1 DEF Stored, Table
<1>1. /\ u.owner = [t.owner EXCEPT ![r] = o]
      /\ u.state = [t.state EXCEPT ![r] = "armed"]
      /\ u.val = [t.val EXCEPT ![r] = Value[o] + elapsed]
      /\ u.last = t.last /\ u.total = t.total /\ u.next = t.next
  BY DEF Stored, Table
<1>2. /\ t.state \in [Rows -> {"free", "armed", "trig", "trig_period"}]
      /\ t.owner \in [Rows -> Owners] /\ t.val \in [Rows -> Int]
  BY DEF Table
<1> HIDE DEF u
<1>3. Timed(t, elapsed) /\ r <= t.last /\ t.total <= Value[o] + elapsed
        => Timed(u, elapsed)
  BY <1>1, <1>2 DEF Timed
<1> QED
  BY <1>0, <1>1, <1>3 DEF u

LEMMA SetAlarmFacts ==
  ASSUME NEW t \in Table, NEW o \in Owners, elapsed \in Nat
  PROVE  LET u == SetAlarm(t, o)  r == RowFor(t) IN
         /\ u \in Table
         /\ r = TIMER_NONE => u = t
         /\ r # TIMER_NONE => /\ r \in Rows /\ t.state[r] = "free"
                              /\ u.owner = [t.owner EXCEPT ![r] = o]
                              /\ u.state = [t.state EXCEPT ![r] = "armed"]
         /\ Timed(t, elapsed) => Timed(u, elapsed)
<1> DEFINE u == SetAlarm(t, o)
           r == RowFor(t)
           f == Found(t, r, Value[o])
<1>1. CASE r = TIMER_NONE
  BY <1>1 DEF SetAlarm
<1>2. CASE r # TIMER_NONE
  <2>1. r \in Rows /\ t.state[r] = "free" /\ r <= t.last + 1
    BY <1>2, RowForFacts
  <2>2. u = Stored(f, r, o)
    BY <1>2 DEF SetAlarm
  <2>3. Value[o] \in Nat
    OBVIOUS
  <2> HIDE DEF u, r
  <2>4. /\ f \in Table /\ f.state = t.state /\ f.owner = t.owner
        /\ Timed(t, elapsed) => /\ Timed(f, elapsed) /\ r <= f.last
                                /\ f.total <= Value[o] + elapsed
    BY <2>1, <2>3, FoundFacts
  <2> HIDE DEF f
  <2>5. /\ u \in Table
        /\ u.owner = [f.owner EXCEPT ![r] = o]
        /\ u.state = [f.state EXCEPT ![r] = "armed"]
        /\ Timed(f, elapsed) /\ r <= f.last /\ f.total <= Value[o] + elapsed
             => Timed(u, elapsed)
    BY <2>1, <2>2, <2>4, StoredFacts
  <2>6. r # TIMER_NONE
    BY <1>2
  <2> QED BY <2>1, <2>4, <2>5, <2>6 DEF u, r
<1> QED
  BY <1>1, <1>2

LEMMA DelAlarmFacts ==
  ASSUME NEW t \in Table, NEW h \in Rows \cup {TIMER_NONE}, NEW e \in Nat
  PROVE  LET u == DelAlarm(t, h) IN
         /\ u \in Table /\ u.owner = t.owner
         /\ \A r \in Rows : u.state[r] = IF r = h THEN "free" ELSE t.state[r]
         /\ Timed(t, e) => Timed(u, e)
<1> DEFINE u == DelAlarm(t, h)
<1>1. CASE h = TIMER_NONE
  BY <1>1 DEF DelAlarm, TIMER_NONE, Rows
<1>2. CASE h # TIMER_NONE
  <2>0. DelAlarm(t, h) \in Table
    <3>1. h \in Rows /\ (h = t.last => t.last - 1 \in -1..(N - 1))
      BY <1>2 DEF Table, Rows
    <3> QED BY <1>2, <3>1 DEF DelAlarm, Table
  <2>1. /\ u.owner = t.owner /\ u.val = t.val
        /\ u.state = [t.state EXCEPT ![h] = "free"]
        /\ u.last = IF h = t.last THEN t.last - 1 ELSE t.last
        /\ u.total = t.total /\ u.next = t.next
    BY <1>2 DEF DelAlarm, Table, Rows
  <2>2. /\ t.state \in [Rows -> {"free", "armed", "trig", "trig_period"}]
        /\ t.last \in -1..(N - 1)
    BY DEF Table
  <2> HIDE DEF u
  <2>3. \A r \in Rows : u.state[r] = IF r = h THEN "free" ELSE t.state[r]
    BY <1>2, <2>1, <2>2
  <2>4. Timed(t, e) => Timed(u, e)
    BY <1>2, <2>1, <2>2, <2>3 DEF Timed, Rows
  <2> QED BY <2>0, <2>1, <2>3, <2>4 DEF u
<1> QED
  BY <1>1, <1>2

\* The first run of the dispatch: rows stay taken or free, and the new sleep is
\* the time of the soonest alarm.
LEMMA AgedFacts ==
  ASSUME tb \in Table, elapsed \in Nat
  PROVE  /\ Aged \in Table /\ Aged.owner = tb.owner
         /\ \A r \in Rows : Aged.state[r] = "free" <=> tb.state[r] = "free"
         /\ Timed(tb, elapsed) /\ elapsed = 0 => Timed(Aged, elapsed)
<1> DEFINE real == (tb.total + elapsed) % (Never + 1)
           past(r) == Active(r) /\ tb.val[r] <= real
           once(r) == past(r) /\ tb.owner[r] # Sync
           val == [r \in Rows |->
                     IF ~Active(r) \/ once(r) THEN tb.val[r]
                     ELSE IF past(r) THEN Value[Sync] - (elapsed % Value[Sync])
                     ELSE tb.val[r] - real]
           kept == {q \in Rows : Active(q) /\ ~once(q)}
           left == {val[r] : r \in kept}
           state == [r \in Rows |-> IF once(r) THEN "trig"
                       ELSE IF past(r) THEN "trig_period" ELSE tb.state[r]]
           total == IF left = {} THEN Never ELSE Least(left)
           next == IF left = {} THEN -1 ELSE Least(left)
<1>1. /\ tb.total \in Int /\ tb.val \in [Rows -> Int] /\ tb.last \in -1..(N - 1)
      /\ tb.state \in [Rows -> {"free", "armed", "trig", "trig_period"}]
      /\ tb.owner \in [Rows -> Owners]
  BY DEF Table
<1>2. Aged = [tb EXCEPT !.val = val, !.state = state, !.total = total, !.next = next]
  BY <1>1 DEF Aged
<1>3. real \in Nat
  <2>1. Never + 1 \in Nat \ {0} /\ tb.total + elapsed \in Int
    BY <1>1
  <2> QED BY <2>1
<1>4. Value[Sync] - (elapsed % Value[Sync]) \in Nat
  <2>1. Value[Sync] \in Nat \ {0}
    BY DEF Owners
  <2>2. \A n \in Nat \ {0}, e \in Nat : n - (e % n) \in Nat
    OBVIOUS
  <2> QED BY <2>1, <2>2
<1> HIDE DEF real
<1>5. val \in [Rows -> Int] /\ \A r \in kept : val[r] \in Nat
  BY <1>1, <1>3, <1>4
<1>6. state \in [Rows -> {"free", "armed", "trig", "trig_period"}]
  BY <1>1
<1>7. \A r \in Rows : /\ state[r] = "free" <=> tb.state[r] = "free"
                      /\ state[r] = "trig" => once(r) \/ tb.state[r] = "trig"
                      /\ state[r] \in {"armed", "trig_period"}
                           => ~once(r) /\ tb.state[r] \in {"armed", "trig_period"}
  BY <1>1 DEF Active
<1>8. left \subseteq Nat
  BY <1>5
<1>9. left # {} => Least(left) \in Nat /\ \A r \in kept : Least(left) <= val[r]
  <2> HIDE DEF val, kept
  <2>1. left # {} => Least(left) \in left /\ \A q \in left : Least(left) <= q
    BY <1>8, LeastIn
  <2> QED BY <1>8, <2>1
<1>10. total \in Nat /\ next \in Int /\ next <= total
       /\ \A r \in kept : total <= val[r]
  <2> HIDE DEF val, kept
  <2>1. left = {} => kept = {}
    OBVIOUS
  <2> HIDE DEF left
  <2> QED BY <1>9, <2>1
<1>11. Timed(tb, elapsed) => \A r \in Rows :
         /\ state[r] # "free" => r <= tb.last
         /\ state[r] \in {"armed", "trig_period"} => total <= val[r]
         /\ state[r] = "trig" => tb.owner[r] # Sync
  <2> SUFFICES ASSUME Timed(tb, elapsed), NEW r \in Rows
               PROVE  /\ state[r] # "free" => r <= tb.last
                      /\ state[r] \in {"armed", "trig_period"} => total <= val[r]
                      /\ state[r] = "trig" => tb.owner[r] # Sync
    OBVIOUS
  <2>1. state[r] # "free" => r <= tb.last
    BY <1>7 DEF Timed
  <2>2. state[r] \in {"armed", "trig_period"} => r \in kept
    BY <1>7, <2>1 DEF Active
  <2>3. state[r] = "trig" => tb.owner[r] # Sync
    BY <1>7 DEF Timed
  <2> HIDE DEF state, kept, total, val
  <2> QED BY <1>10, <2>1, <2>2, <2>3
<1> HIDE DEF val, state, total, next
<1>12. Aged \in Table
  <2>1. total \in Int /\ next \in Int /\ val \in [Rows -> Int]
    BY <1>5, <1>10
  <2> QED BY <1>2, <1>6, <2>1 DEF Table
<1>13. /\ Aged.owner = tb.owner /\ Aged.state = state /\ Aged.val = val
       /\ Aged.last = tb.last /\ Aged.total = total /\ Aged.next = next
  BY <1>2, <1>5, <1>6, <1>10 DEF Table
<1>14. Timed(tb, elapsed) /\ elapsed = 0 => Timed(Aged, elapsed)
  <2>1. next <= total - 0 /\ total >= 0
    BY <1>10
  <2> QED BY <1>11, <1>13, <2>1 DEF Timed
<1> QED
  BY <1>7, <1>12, <1>13, <1>14

-----------------------------------------------------------------------------
(* Types *)

\* What TypeOK says of the variables that are not the table, so that the steps
\* of an owner need to show no more than these two.
Rest ==
  /\ elapsed \in Nat /\ open \subseteq Lines
  /\ at \in {"off", "boot", "out", "age", "trig", "ring"} /\ row \in 0..N
  /\ at = "ring" => row \in Rows
  /\ main \in [row : Rows, line : Lines] \cup {Nobody}

\* An owner leaves a table with a handle.
LEMMA HoldsTyped ==
  ASSUME TypeOK, NEW o \in Owners, NEW t \in Table, NEW h \in Rows \cup {TIMER_NONE},
         Holds(o, t, h)
  PROVE  /\ tb' \in Table /\ handle' \in [Owners -> Rows \cup {TIMER_NONE}]
         /\ due' \in [Owners -> Int]
<1>1. Value[o] \in Int
  OBVIOUS
<1> QED
  BY <1>1 DEF Holds, TypeOK

\* A handle is a row, or none.
LEMMA RowTyped == ASSUME NEW t \in Table PROVE RowFor(t) \in Rows \cup {TIMER_NONE}
BY RowForFacts

LEMMA RenewsTyped ==
  ASSUME TypeOK, NEW o \in Owners, Renews(o)
  PROVE  /\ tb' \in Table /\ handle' \in [Owners -> Rows \cup {TIMER_NONE}]
         /\ due' \in [Owners -> Int]
<1> DEFINE t == DelAlarm(tb, handle[o])
<1>1. tb \in Table /\ handle[o] \in Rows \cup {TIMER_NONE} /\ elapsed \in Nat
  BY DEF TypeOK
<1>2. t \in Table
  BY <1>1, DelAlarmFacts
<1>3. Holds(o, SetAlarm(t, o), RowFor(t))
  BY DEF Renews
<1> HIDE DEF t
<1>4. SetAlarm(t, o) \in Table /\ RowFor(t) \in Rows \cup {TIMER_NONE}
  BY <1>1, <1>2, SetAlarmFacts, RowTyped
<1> QED
  BY <1>3, <1>4, HoldsTyped

\* TypeOK, from its two halves.
LEMMA TypeParts ==
  /\ TypeOK <=> /\ tb \in Table /\ handle \in [Owners -> Rows \cup {TIMER_NONE}]
                /\ due \in [Owners -> Int] /\ Rest
  /\ TypeOK' <=> /\ tb' \in Table /\ handle' \in [Owners -> Rows \cup {TIMER_NONE}]
                 /\ due' \in [Owners -> Int] /\ Rest'
BY DEF TypeOK, Rest

\* The steps of RPDO and MAIN.
LEMMA TaskTyped ==
  ASSUME TypeOK,
         \/ \E c \in Consumers : Heartbeat(c)
         \/ \E l \in Lines : Answer(l) \/ Finish(l) \/ Find(l)
         \/ Start \/ StopSync \/ StartTimerLoop \/ Store
  PROVE  TypeOK'
<1>0. /\ tb \in Table /\ handle \in [Owners -> Rows \cup {TIMER_NONE}]
      /\ due \in [Owners -> Int] /\ Rest /\ elapsed \in Nat
      /\ Consumers \subseteq Owners /\ Lines \subseteq Owners /\ Sync \in Owners
  BY DEF TypeOK, Rest, Owners
<1>1. ASSUME NEW c \in Consumers, Heartbeat(c) PROVE TypeOK'
  <2>1. Renews(c) /\ UNCHANGED <<elapsed, at, row, main, open>>
    BY <1>1 DEF Heartbeat, Rpdo, timer
  <2>2. Rest'
    BY <1>0, <2>1 DEF Rest
  <2> QED BY <1>0, <2>1, <2>2, RenewsTyped, TypeParts
<1>2. ASSUME NEW l \in Lines, Answer(l) PROVE TypeOK'
  <2>1. Renews(l) /\ UNCHANGED <<elapsed, at, row, main, open>>
    BY <1>2 DEF Answer, Rpdo, timer
  <2>2. Rest'
    BY <1>0, <2>1 DEF Rest
  <2> QED BY <1>0, <2>1, <2>2, RenewsTyped, TypeParts
<1>3. ASSUME NEW l \in Lines, Finish(l) PROVE TypeOK'
  <2>1. /\ Holds(l, DelAlarm(tb, handle[l]), TIMER_NONE)
        /\ UNCHANGED <<elapsed, at, row, main>> /\ open' = open \ {l}
    BY <1>3 DEF Finish, Rpdo, timer
  <2>2. Rest'
    BY <1>0, <2>1 DEF Rest
  <2>3. l \in Owners /\ handle[l] \in Rows \cup {TIMER_NONE}
    BY <1>0
  <2>4. DelAlarm(tb, handle[l]) \in Table
    BY <1>0, <2>3, DelAlarmFacts
  <2> QED BY <2>1, <2>2, <2>3, <2>4, HoldsTyped, TypeParts
<1>4. ASSUME NEW l \in Lines, Find(l) PROVE TypeOK'
  <2> DEFINE r == RowFor(tb)
  <2>1. /\ UNCHANGED <<elapsed, at, row, handle, due>> /\ open' = open \cup {l}
        /\ IF r = TIMER_NONE THEN UNCHANGED <<tb, main>>
           ELSE tb' = Found(tb, r, Value[l]) /\ main' = [row |-> r, line |-> l]
    BY <1>4 DEF Find, Main, timer
  <2>2. r \in Rows \cup {TIMER_NONE}
    BY <1>0, RowTyped
  <2> HIDE DEF r
  <2>3. tb' \in Table /\ main' \in [row : Rows, line : Lines] \cup {Nobody}
    <3>1. CASE r = TIMER_NONE
      BY <1>0, <2>1, <3>1 DEF Rest
    <3>2. CASE r # TIMER_NONE
      <4>1. r \in Rows /\ Value[l] \in Nat /\ l \in Owners
        BY <1>0, <2>2, <3>2
      <4>2. Found(tb, r, Value[l]) \in Table
        BY <1>0, <4>1, FoundFacts
      <4> QED BY <2>1, <3>2, <4>1, <4>2
    <3> QED BY <3>1, <3>2
  <2>4. Rest'
    BY <1>0, <2>1, <2>3 DEF Rest
  <2>5. UNCHANGED <<handle, due>>
    BY <2>1
  <2> QED BY <1>0, <2>3, <2>4, <2>5, TypeParts
<1>5. CASE Start
  <2>1. /\ Holds(Sync, SetAlarm(tb, Sync), RowFor(tb)) /\ at' = "boot"
        /\ UNCHANGED <<elapsed, open, row, main>>
    BY <1>5 DEF Start
  <2>2. Rest'
    BY <1>0, <2>1 DEF Rest
  <2>3. SetAlarm(tb, Sync) \in Table /\ RowFor(tb) \in Rows \cup {TIMER_NONE}
    BY <1>0, SetAlarmFacts, RowTyped
  <2> QED BY <1>0, <2>1, <2>2, <2>3, HoldsTyped, TypeParts
<1>6. CASE StopSync
  <2>1. /\ Holds(Sync, DelAlarm(tb, handle[Sync]), TIMER_NONE)
        /\ UNCHANGED <<elapsed, at, row, open, main>>
    BY <1>6 DEF StopSync, Main, timer
  <2>2. Rest'
    BY <1>0, <2>1 DEF Rest
  <2>3. handle[Sync] \in Rows \cup {TIMER_NONE}
    BY <1>0
  <2>4. DelAlarm(tb, handle[Sync]) \in Table
    BY <1>0, <2>3, DelAlarmFacts
  <2> QED BY <1>0, <2>1, <2>2, <2>4, HoldsTyped, TypeParts
<1>7. CASE StartTimerLoop
  <2>1. Rest'
    BY <1>0, <1>7 DEF StartTimerLoop, Rest
  <2>2. UNCHANGED <<tb, handle, due>>
    BY <1>7 DEF StartTimerLoop
  <2> QED BY <1>0, <2>1, <2>2, TypeParts
<1>8. CASE Store
  <2>1. /\ main # Nobody /\ main' = Nobody /\ UNCHANGED <<elapsed, at, row, open>>
        /\ Holds(main.line, Stored(tb, main.row, main.line), main.row)
    BY <1>8 DEF Store, Main, timer
  <2>2. Rest'
    BY <1>0, <2>1 DEF Rest
  <2>3. main.row \in Rows /\ main.line \in Owners
    BY <1>0, <2>1 DEF Rest
  <2>4. Stored(tb, main.row, main.line) \in Table
    BY <1>0, <2>3, StoredFacts
  <2> QED BY <2>1, <2>2, <2>3, <2>4, HoldsTyped, TypeParts
<1> QED
  BY <1>1, <1>2, <1>3, <1>4, <1>5, <1>6, <1>7, <1>8

\* TIMER's steps, and the clock's.
LEMMA TimerTyped ==
  ASSUME TypeOK,
         \/ Poll \/ Age \/ Release \/ Return \/ RingSync \/ RingConsumer \/ RingLine \/ Tick
  PROVE  TypeOK'
<1>0. /\ tb \in Table /\ handle \in [Owners -> Rows \cup {TIMER_NONE}]
      /\ due \in [Owners -> Int] /\ Rest /\ elapsed \in Nat
      /\ Consumers \subseteq Owners /\ Lines \subseteq Owners /\ Sync \in Owners
      /\ row \in 0..N
  BY DEF TypeOK, Rest, Owners
<1>1. CASE Poll \/ Return
  <2>1. UNCHANGED <<tb, handle, due>>
    BY <1>1 DEF Poll, Return
  <2>2. Rest'
    BY <1>0, <1>1 DEF Poll, Return, Rest
  <2> QED BY <1>0, <2>1, <2>2, TypeParts
<1>2. CASE Age
  <2>1. tb' = Aged /\ UNCHANGED <<handle, due>>
    BY <1>2 DEF Age
  <2>2. Rest'
    BY <1>0, <1>2 DEF Age, Rest
  <2>3. Aged \in Table
    BY <1>0, AgedFacts
  <2> QED BY <1>0, <2>1, <2>2, <2>3, TypeParts
<1>3. CASE Release
  <2> DEFINE r == Least(Triggered)
  <2>1. Triggered # {} /\ Triggered \subseteq Rows /\ Triggered \subseteq Nat
    BY <1>0, <1>3, TriggeredRows DEF Release
  <2>2. r \in Rows
    BY <2>1, LeastIn
  <2>3. /\ tb' = [tb EXCEPT !.state[r] = IF @ = "trig" THEN "free" ELSE "armed"]
        /\ row' = r /\ at' = "ring" /\ UNCHANGED <<elapsed, handle, open, main, due>>
    BY <1>3 DEF Release
  <2> HIDE DEF r
  <2>4. Rest'
    BY <1>0, <2>2, <2>3 DEF Rest, Rows
  <2>5. tb' \in Table
    BY <1>0, <2>2, <2>3 DEF Table
  <2>6. UNCHANGED <<handle, due>>
    BY <2>3
  <2> QED BY <1>0, <2>4, <2>5, <2>6, TypeParts
<1>4. ASSUME Called, UNCHANGED open PROVE Rest'
  BY <1>0, <1>4 DEF Called, Rest, Rows
<1>5. CASE RingSync
  <2>1. UNCHANGED <<tb, handle>> /\ due' = [due EXCEPT ![Sync] = Value[Sync]]
    BY <1>5 DEF RingSync
  <2>2. due' \in [Owners -> Int]
    BY <1>0, <2>1
  <2>3. Rest'
    BY <1>4, <1>5 DEF RingSync
  <2> QED BY <1>0, <2>1, <2>2, <2>3, TypeParts
<1>6. CASE RingConsumer
  <2>1. Holds(tb.owner[row], tb, TIMER_NONE) /\ tb.owner[row] \in Owners
    BY <1>0, <1>6 DEF RingConsumer
  <2>2. Rest'
    BY <1>4, <1>6 DEF RingConsumer
  <2>3. /\ tb' \in Table /\ handle' \in [Owners -> Rows \cup {TIMER_NONE}]
        /\ due' \in [Owners -> Int]
    BY <1>0, <2>1, HoldsTyped
  <2> QED BY <2>2, <2>3, TypeParts
<1>7. CASE RingLine
  <2> DEFINE l == tb.owner[row]
  <2>1. l \in Lines /\ l \in Owners /\ Called
    BY <1>0, <1>7 DEF RingLine
  <2>2. CASE Holds(l, tb, TIMER_NONE) /\ open' = open \ {l}
    <3>1. /\ tb' \in Table /\ handle' \in [Owners -> Rows \cup {TIMER_NONE}]
          /\ due' \in [Owners -> Int]
      BY <1>0, <2>1, <2>2, HoldsTyped
    <3>2. Rest'
      BY <1>0, <2>1, <2>2 DEF Called, Rest, Rows
    <3> QED BY <3>1, <3>2, TypeParts
  <2>3. ASSUME NEW k \in Lines \ (open \ {l}),
               tb' = SetAlarm(tb, k),
               handle' = [handle EXCEPT ![l] = TIMER_NONE, ![k] = RowFor(tb)],
               due' = [due EXCEPT ![l] = 0,
                         ![k] = IF RowFor(tb) = TIMER_NONE THEN 0 ELSE Value[k]],
               open' = (open \ {l}) \cup {k}
        PROVE  TypeOK'
    <3>1. k \in Owners /\ Value[k] \in Int
      BY <1>0
    <3>2. SetAlarm(tb, k) \in Table /\ RowFor(tb) \in Rows \cup {TIMER_NONE}
      BY <1>0, <3>1, SetAlarmFacts, RowTyped
    <3>3. handle' \in [Owners -> Rows \cup {TIMER_NONE}] /\ due' \in [Owners -> Int]
      BY <1>0, <2>1, <2>3, <3>1, <3>2
    <3>4. Rest'
      BY <1>0, <2>1, <2>3 DEF Called, Rest, Rows
    <3> QED BY <2>3, <3>2, <3>3, <3>4, TypeParts
  <2> QED BY <1>7, <2>2, <2>3 DEF RingLine
<1>8. CASE Tick
  <2>1. /\ tb' = [tb EXCEPT !.next = @ - 1] /\ elapsed' = elapsed + 1
        /\ due' = [o \in Owners |-> IF handle[o] = TIMER_NONE THEN due[o] ELSE due[o] - 1]
        /\ UNCHANGED <<handle, open, at, row, main>>
    BY <1>8 DEF Tick, timer
  <2>2. tb.next - 1 \in Int
    BY <1>0 DEF Table
  <2>3. tb' \in Table
    BY <1>0, <2>1, <2>2 DEF Table
  <2>4. due' \in [Owners -> Int]
    BY <1>0, <2>1
  <2>5. Rest'
    BY <1>0, <2>1 DEF Rest
  <2> QED BY <1>0, <2>1, <2>3, <2>4, <2>5, TypeParts
<1> QED
  BY <1>1, <1>2, <1>3, <1>5, <1>6, <1>7, <1>8

LEMMA InitTyped == Init => TypeOK
<1> SUFFICES ASSUME Init PROVE TypeOK
  OBVIOUS
<1>1. N \in Nat /\ Never \in Int /\ Sync \in Owners
  BY DEF Owners
<1>2. tb \in Table
  BY <1>1 DEF Init, Table, Rows
<1>3. /\ handle \in [Owners -> Rows \cup {TIMER_NONE}] /\ due \in [Owners -> Int] /\ Rest
  BY <1>1 DEF Init, Rest
<1> QED
  BY <1>2, <1>3, TypeParts

LEMMA NextTyped == ASSUME TypeOK, [Next]_vars PROVE TypeOK'
<1>1. CASE UNCHANGED vars
  BY <1>1 DEF vars, timer, TypeOK
<1>2. CASE Next
  BY <1>2, TaskTyped, TimerTyped DEF Next
<1> QED
  BY <1>1, <1>2

\* The table, the handles and the actors' places stay in their ranges, also when
\* tasks run while another is in the table.
THEOREM TypeCorrect == Spec => []TypeOK
BY InitTyped, NextTyped, PTL DEF Spec

-----------------------------------------------------------------------------
(* Whose row it is, and when TIMER wakes, if no task runs while another is in  *)
(* the table                                                                   *)

\* Each handle in h names an alarm of its owner that is set.
Owned(t, h) == \A o \in Owners : h[o] # TIMER_NONE =>
  t.owner[h[o]] = o /\ t.state[h[o]] # "free"

\* MAIN between finding its row and storing its alarm there
MainInv == main # Nobody =>
  /\ at \in {"boot", "out"}
  /\ tb.state[main.row] = "free" /\ main.row <= tb.last
  /\ tb.total <= Value[main.line] + elapsed

\* TIMER in the dispatch
DispatchInv ==
  /\ at \in {"age", "trig", "ring"} => elapsed = 0
  /\ at = "ring" /\ tb.owner[row] = Sync => tb.state[row] # "free"

Inv == OwnHandle /\ Timed(tb, elapsed) /\ MainInv /\ DispatchInv

\* What OwnHandle means when no alarm rings, and when one does.
LEMMA OwnedFacts ==
  ASSUME TypeOK, Inv
  PROVE  /\ at # "ring" => Owned(tb, handle)
         /\ at = "ring" /\ tb.owner[row] = Sync => Owned(tb, handle)
         /\ at = "ring" => Owned(tb, [handle EXCEPT ![tb.owner[row]] = TIMER_NONE])
<1>0. handle \in [Owners -> Rows \cup {TIMER_NONE}]
  BY DEF TypeOK
<1> QED
  BY <1>0 DEF Inv, OwnHandle, Set, Rung, Owned, DispatchInv

LEMMA OwnedBack == ASSUME Owned(tb', handle') PROVE OwnHandle'
BY DEF Owned, OwnHandle, Set

LEMMA OwnSet ==
  ASSUME NEW t \in Table, NEW h \in [Owners -> Rows \cup {TIMER_NONE}],
         NEW o \in Owners, elapsed \in Nat,
         Owned(t, [h EXCEPT ![o] = TIMER_NONE])
  PROVE  Owned(SetAlarm(t, o), [h EXCEPT ![o] = RowFor(t)])
<1> DEFINE u == SetAlarm(t, o)
           r == RowFor(t)
<1>1. /\ r = TIMER_NONE => u = t
      /\ r # TIMER_NONE => /\ r \in Rows /\ t.state[r] = "free"
                           /\ u.owner = [t.owner EXCEPT ![r] = o]
                           /\ u.state = [t.state EXCEPT ![r] = "armed"]
  BY SetAlarmFacts
<1>2. /\ t.state \in [Rows -> {"free", "armed", "trig", "trig_period"}]
      /\ t.owner \in [Rows -> Owners]
  BY DEF Table
<1> HIDE DEF u, r
<1>3. \A p \in Owners \ {o} : h[p] # TIMER_NONE =>
        h[p] \in Rows /\ t.owner[h[p]] = p /\ t.state[h[p]] # "free"
  BY DEF Owned
<1>4. Owned(u, [h EXCEPT ![o] = r])
  BY <1>1, <1>2, <1>3 DEF Owned
<1> QED
  BY <1>4 DEF u, r

LEMMA OwnDel ==
  ASSUME NEW t \in Table, NEW h \in [Owners -> Rows \cup {TIMER_NONE}],
         NEW o \in Owners, Owned(t, h)
  PROVE  Owned(DelAlarm(t, h[o]), [h EXCEPT ![o] = TIMER_NONE])
<1> DEFINE u == DelAlarm(t, h[o])
<1>1. u.owner = t.owner /\ \A r \in Rows : u.state[r] = IF r = h[o] THEN "free" ELSE t.state[r]
  BY DelAlarmFacts
<1> HIDE DEF u
<1>2. \A p \in Owners \ {o} : h[p] # TIMER_NONE =>
        h[p] \in Rows /\ h[p] # h[o] /\ t.owner[h[p]] = p /\ t.state[h[p]] # "free"
  BY DEF Owned
<1>3. Owned(u, [h EXCEPT ![o] = TIMER_NONE])
  BY <1>1, <1>2 DEF Owned
<1> QED
  BY <1>3 DEF u

\* A renewed alarm is its owner's.
LEMMA RenewsOwned ==
  ASSUME TypeOK, Inv, at # "ring", NEW o \in Owners, Renews(o)
  PROVE  OwnHandle' /\ (elapsed' = elapsed => Timed(tb', elapsed'))
<1> DEFINE t == DelAlarm(tb, handle[o])
           h == [handle EXCEPT ![o] = TIMER_NONE]
<1>1. /\ tb \in Table /\ handle \in [Owners -> Rows \cup {TIMER_NONE}] /\ elapsed \in Nat
      /\ handle[o] \in Rows \cup {TIMER_NONE}
  BY DEF TypeOK
<1>2. Owned(tb, handle) /\ Timed(tb, elapsed)
  BY OwnedFacts DEF Inv
<1>3. Owned(t, h)
  BY <1>1, <1>2, OwnDel
<1>4. t \in Table /\ Timed(t, elapsed)
  BY <1>1, <1>2, DelAlarmFacts
<1>5. tb' = SetAlarm(t, o) /\ handle' = [handle EXCEPT ![o] = RowFor(t)]
  BY DEF Renews, Holds
<1> HIDE DEF t
<1>6. [h EXCEPT ![o] = TIMER_NONE] = h /\ h \in [Owners -> Rows \cup {TIMER_NONE}]
      /\ [h EXCEPT ![o] = RowFor(t)] = [handle EXCEPT ![o] = RowFor(t)]
  BY <1>1
<1> HIDE DEF h
<1>7. Owned(SetAlarm(t, o), [h EXCEPT ![o] = RowFor(t)])
  BY <1>1, <1>3, <1>4, <1>6, OwnSet
<1>8. OwnHandle'
  BY <1>5, <1>6, <1>7, OwnedBack
<1>9. Timed(SetAlarm(t, o), elapsed)
  BY <1>1, <1>4, SetAlarmFacts
<1> QED
  BY <1>5, <1>8, <1>9

\* A deleted alarm is no one's.
LEMMA DeletesOwned ==
  ASSUME TypeOK, Inv, at # "ring", NEW o \in Owners,
         Holds(o, DelAlarm(tb, handle[o]), TIMER_NONE)
  PROVE  OwnHandle' /\ (elapsed' = elapsed => Timed(tb', elapsed'))
<1>1. /\ tb \in Table /\ handle \in [Owners -> Rows \cup {TIMER_NONE}] /\ elapsed \in Nat
      /\ handle[o] \in Rows \cup {TIMER_NONE}
  BY DEF TypeOK
<1>2. Owned(tb, handle) /\ Timed(tb, elapsed)
  BY OwnedFacts DEF Inv
<1>3. tb' = DelAlarm(tb, handle[o]) /\ handle' = [handle EXCEPT ![o] = TIMER_NONE]
  BY DEF Holds
<1>4. OwnHandle'
  BY <1>1, <1>2, <1>3, OwnDel, OwnedBack
<1>5. Timed(DelAlarm(tb, handle[o]), elapsed)
  BY <1>1, <1>2, DelAlarmFacts
<1> QED
  BY <1>3, <1>4, <1>5

\* The steps of RPDO and MAIN outside the dispatch.
LEMMA TaskInv ==
  ASSUME TypeOK, Inv, ~Preempt,
         \/ \E c \in Consumers : Heartbeat(c)
         \/ \E l \in Lines : Answer(l) \/ Finish(l) \/ Find(l)
         \/ Start \/ StopSync \/ StartTimerLoop \/ Store
  PROVE  Inv'
<1>0. /\ tb \in Table /\ handle \in [Owners -> Rows \cup {TIMER_NONE}] /\ elapsed \in Nat
      /\ Consumers \subseteq Owners /\ Lines \subseteq Owners /\ Sync \in Owners
      /\ main \in [row : Rows, line : Lines] \cup {Nobody}
  BY DEF TypeOK, Owners
<1>1. ASSUME main' = Nobody, at' \in {"boot", "out"}
      PROVE  MainInv' /\ DispatchInv'
  BY <1>1 DEF MainInv, DispatchInv
<1>2. ASSUME NEW o \in Owners, Renews(o), Outside, UNCHANGED <<elapsed, at, row, main>>
      PROVE  Inv'
  <2>1. at # "ring" /\ at \in {"boot", "out"} /\ main = Nobody
    BY <1>2 DEF Outside
  <2> QED BY <1>1, <1>2, <2>1, RenewsOwned DEF Inv
<1>3. ASSUME NEW o \in Owners, Holds(o, DelAlarm(tb, handle[o]), TIMER_NONE), Outside,
             UNCHANGED <<elapsed, at, row, main>>
      PROVE  Inv'
  <2>1. at # "ring" /\ at \in {"boot", "out"} /\ main = Nobody
    BY <1>3 DEF Outside
  <2> QED BY <1>1, <1>3, <2>1, DeletesOwned DEF Inv
<1>4. CASE \E c \in Consumers : Heartbeat(c)
  BY <1>0, <1>2, <1>4 DEF Heartbeat, Rpdo, timer
<1>5. CASE \E l \in Lines : Answer(l)
  BY <1>0, <1>2, <1>5 DEF Answer, Rpdo, timer
<1>6. CASE \E l \in Lines : Finish(l)
  BY <1>0, <1>3, <1>6 DEF Finish, Rpdo, timer
<1>7. CASE StopSync
  BY <1>0, <1>3, <1>7 DEF StopSync, Main, timer
<1>8. ASSUME NEW l \in Lines, Find(l) PROVE Inv'
  <2> DEFINE r == RowFor(tb)
  <2>1. /\ UNCHANGED <<elapsed, at, row, handle>> /\ Outside
        /\ IF r = TIMER_NONE THEN UNCHANGED <<tb, main>>
           ELSE tb' = Found(tb, r, Value[l]) /\ main' = [row |-> r, line |-> l]
    BY <1>8 DEF Find, Main, timer
  <2>2. at \in {"boot", "out"} /\ main = Nobody /\ Owned(tb, handle) /\ Timed(tb, elapsed)
    BY <2>1, OwnedFacts DEF Outside, Inv
  <2>3. r = TIMER_NONE \/ (r \in Rows /\ tb.state[r] = "free" /\ r <= tb.last + 1)
    BY <1>0, RowForFacts
  <2> HIDE DEF r
  <2>4. CASE r = TIMER_NONE
    <3>1. OwnHandle' /\ Timed(tb', elapsed')
      BY <2>1, <2>2, <2>4, OwnedBack
    <3> QED BY <1>1, <2>1, <2>2, <2>4, <3>1 DEF Inv
  <2>5. CASE r # TIMER_NONE
    <3>1. r \in Rows /\ Value[l] \in Nat
      BY <1>0, <2>3, <2>5
    <3>2. /\ tb'.state = tb.state /\ tb'.owner = tb.owner
          /\ Timed(tb', elapsed) /\ r <= tb'.last /\ tb'.total <= Value[l] + elapsed
      <4> DEFINE f == Found(tb, r, Value[l])
      <4>1. /\ f.state = tb.state /\ f.owner = tb.owner
            /\ Timed(tb, elapsed) /\ r <= tb.last + 1
                 => Timed(f, elapsed) /\ r <= f.last /\ f.total <= Value[l] + elapsed
        BY <1>0, <3>1, FoundFacts
      <4>2. tb' = f
        BY <2>1, <2>5
      <4> HIDE DEF f
      <4> QED BY <2>2, <2>3, <2>5, <4>1, <4>2
    <3>3. OwnHandle'
      BY <2>1, <2>2, <3>2, OwnedBack DEF Owned
    <3>4. MainInv'
      BY <2>1, <2>2, <2>3, <2>5, <3>2 DEF MainInv
    <3>5. DispatchInv'
      BY <2>1, <2>2 DEF DispatchInv
    <3>6. Timed(tb', elapsed')
      BY <2>1, <3>2
    <3> QED BY <3>3, <3>4, <3>5, <3>6 DEF Inv
  <2> QED BY <2>4, <2>5
<1>9. CASE Start
  <2>1. /\ tb' = SetAlarm(tb, Sync) /\ handle' = [handle EXCEPT ![Sync] = RowFor(tb)]
        /\ at = "off" /\ at' = "boot" /\ UNCHANGED <<elapsed, main>>
    BY <1>9 DEF Start, Holds
  <2>2. Owned(tb, handle) /\ Timed(tb, elapsed) /\ main = Nobody
    BY <2>1, OwnedFacts DEF Inv, MainInv
  <2>3. Owned(tb, [handle EXCEPT ![Sync] = TIMER_NONE])
    BY <1>0, <2>2 DEF Owned
  <2>4. Owned(SetAlarm(tb, Sync), [handle EXCEPT ![Sync] = RowFor(tb)])
    BY <1>0, <2>3, OwnSet
  <2>5. OwnHandle'
    BY <2>1, <2>4, OwnedBack
  <2>6. Timed(SetAlarm(tb, Sync), elapsed)
    BY <1>0, <2>2, SetAlarmFacts
  <2> QED BY <1>1, <2>1, <2>2, <2>5, <2>6 DEF Inv
<1>10. CASE StartTimerLoop
  <2>1. /\ UNCHANGED <<tb, handle, elapsed, main>> /\ at = "boot" /\ at' = "out"
        /\ main = Nobody
    BY <1>10 DEF StartTimerLoop, Outside
  <2>2. OwnHandle' /\ Timed(tb', elapsed')
    BY <2>1, OwnedFacts, OwnedBack DEF Inv
  <2> QED BY <1>1, <2>1, <2>2 DEF Inv
<1>11. CASE Store
  <2>1. PICK r \in Rows, l \in Owners : r = main.row /\ l = main.line
    BY <1>0, <1>11 DEF Store
  <2> DEFINE u == Stored(tb, r, l)
  <2>2. /\ main # Nobody /\ main' = Nobody /\ UNCHANGED <<elapsed, at, row>>
        /\ at \in {"boot", "out"}
        /\ tb' = u /\ handle' = [handle EXCEPT ![l] = r]
    BY <1>11, <2>1 DEF Store, Main, timer, Holds
  <2>3. /\ Owned(tb, handle) /\ Timed(tb, elapsed)
        /\ tb.state[r] = "free" /\ r <= tb.last /\ tb.total <= Value[l] + elapsed
    BY <2>1, <2>2, OwnedFacts DEF Inv, MainInv
  <2>4. /\ u.owner = [tb.owner EXCEPT ![r] = l]
        /\ u.state = [tb.state EXCEPT ![r] = "armed"]
        /\ Timed(tb, elapsed) /\ r <= tb.last /\ tb.total <= Value[l] + elapsed
             => Timed(u, elapsed)
    BY <1>0, StoredFacts, SMTT(30)
  <2> HIDE DEF u
  <2>5. /\ tb.state \in [Rows -> {"free", "armed", "trig", "trig_period"}]
        /\ tb.owner \in [Rows -> Owners]
    BY <1>0 DEF Table
  <2>6. Owned(u, [handle EXCEPT ![l] = r])
    BY <1>0, <2>3, <2>4, <2>5 DEF Owned
  <2>7. OwnHandle' /\ Timed(tb', elapsed')
    BY <2>2, <2>3, <2>4, <2>6, OwnedBack
  <2> QED BY <1>1, <2>2, <2>7 DEF Inv
<1> QED
  BY <1>4, <1>5, <1>6, <1>7, <1>8, <1>9, <1>10, <1>11

\* TIMER's steps, and the clock's.
LEMMA TimerInv ==
  ASSUME TypeOK, Inv, ~Preempt,
         \/ Poll \/ Age \/ Release \/ Return \/ RingSync \/ RingConsumer \/ RingLine \/ Tick
  PROVE  Inv'
<1>0. /\ tb \in Table /\ handle \in [Owners -> Rows \cup {TIMER_NONE}] /\ elapsed \in Nat
      /\ Consumers \subseteq Owners /\ Lines \subseteq Owners /\ Sync \in Owners
      /\ row \in 0..N /\ (at = "ring" => row \in Rows)
  BY DEF TypeOK, Owners
<1>1. /\ tb.state \in [Rows -> {"free", "armed", "trig", "trig_period"}]
      /\ tb.owner \in [Rows -> Owners] /\ tb.total \in Int /\ tb.next \in Int
  BY <1>0 DEF Table
<1>2. Timed(tb, elapsed) /\ tb.total >= 0
  BY DEF Inv, Timed
<1>3. CASE Poll
  <2>1. /\ at = "out" /\ at' = "age" /\ tb.next <= 0 /\ elapsed' = 0
        /\ main = Nobody /\ UNCHANGED <<tb, handle, main>>
    BY <1>3 DEF Poll
  <2>2. Timed(tb, 0)
    BY <1>1, <1>2, <2>1 DEF Timed
  <2>3. OwnHandle'
    BY <2>1, OwnedFacts, OwnedBack
  <2> QED BY <2>1, <2>2, <2>3 DEF Inv, MainInv, DispatchInv
<1>4. CASE Age
  <2>1. at = "age" /\ at' = "trig" /\ tb' = Aged /\ UNCHANGED <<elapsed, handle, main>>
    BY <1>4 DEF Age
  <2>2. elapsed = 0 /\ main = Nobody /\ Owned(tb, handle)
    BY <2>1, OwnedFacts DEF Inv, DispatchInv, MainInv
  <2>3. /\ Aged.owner = tb.owner /\ Timed(Aged, elapsed)
        /\ \A r \in Rows : Aged.state[r] = "free" <=> tb.state[r] = "free"
    BY <1>0, <1>2, <2>2, AgedFacts
  <2>4. Owned(Aged, handle)
    BY <1>0, <2>2, <2>3 DEF Owned
  <2> QED BY <2>1, <2>2, <2>3, <2>4, OwnedBack DEF Inv, MainInv, DispatchInv
<1>5. CASE Release
  <2> DEFINE r == Least(Triggered)
             v == IF tb.state[r] = "trig" THEN "free" ELSE "armed"
  <2>1. Triggered # {} /\ Triggered \subseteq Rows /\ Triggered \subseteq Nat
    BY <1>0, <1>5, TriggeredRows DEF Release
  <2>2. r \in Rows /\ tb.state[r] \in {"trig", "trig_period"}
    BY <2>1, LeastIn DEF Triggered
  <2>3. /\ tb' = [tb EXCEPT !.state[r] = v]
        /\ row' = r /\ at = "trig" /\ at' = "ring" /\ UNCHANGED <<elapsed, handle, main>>
    BY <1>5 DEF Release
  <2> HIDE DEF r
  <2>4. /\ tb'.state = [tb.state EXCEPT ![r] = v] /\ tb'.owner = tb.owner
        /\ tb'.val = tb.val /\ tb'.last = tb.last /\ tb'.total = tb.total
        /\ tb'.next = tb.next
    BY <1>0, <2>3 DEF Table
  <2>5. elapsed = 0 /\ main = Nobody /\ Owned(tb, handle)
    BY <2>3, OwnedFacts DEF Inv, DispatchInv, MainInv
  <2>6. v = "armed" \/ (v = "free" /\ tb.owner[r] # Sync)
    BY <1>2, <2>2 DEF Timed
  <2>7. v = "armed" => tb.state[r] = "trig_period"
    BY <2>2
  <2> HIDE DEF v
  <2>8. Timed(tb', elapsed')
    BY <1>1, <1>2, <2>2, <2>3, <2>4, <2>6, <2>7 DEF Timed
  <2>9. OwnHandle'
    BY <1>0, <1>1, <2>2, <2>3, <2>4, <2>5 DEF Owned, OwnHandle, Set, Rung
  <2>10. DispatchInv'
    BY <1>1, <2>2, <2>3, <2>4, <2>5, <2>6 DEF DispatchInv
  <2> QED BY <2>3, <2>5, <2>8, <2>9, <2>10 DEF Inv, MainInv
<1>6. CASE Return
  <2>1. at = "trig" /\ at' = "out" /\ UNCHANGED <<tb, elapsed, handle, main>>
    BY <1>6 DEF Return
  <2>2. main = Nobody /\ Owned(tb, handle)
    BY <2>1, OwnedFacts DEF Inv, MainInv
  <2> QED BY <1>2, <2>1, <2>2, OwnedBack DEF Inv, MainInv, DispatchInv
<1>7. ASSUME Called
      PROVE  /\ at = "ring" /\ main = Nobody /\ elapsed = 0 /\ row \in Rows
             /\ MainInv' /\ DispatchInv'
  <2>1. at = "ring" /\ at' = "trig" /\ UNCHANGED <<elapsed, main>>
    BY <1>7 DEF Called
  <2>2. main = Nobody /\ elapsed = 0
    BY <2>1 DEF Inv, MainInv, DispatchInv
  <2> QED BY <1>0, <2>1, <2>2 DEF MainInv, DispatchInv
<1>8. CASE RingSync
  <2>1. Called /\ tb.owner[row] = Sync /\ UNCHANGED <<tb, handle>>
    BY <1>8 DEF RingSync
  <2>2. OwnHandle'
    BY <1>7, <2>1, OwnedFacts, OwnedBack
  <2>3. elapsed' = elapsed
    BY <2>1 DEF Called
  <2> QED BY <1>2, <1>7, <2>1, <2>2, <2>3 DEF Inv
<1>9. ASSUME Called, Holds(tb.owner[row], tb, TIMER_NONE) PROVE Inv'
  <2>1. tb' = tb /\ handle' = [handle EXCEPT ![tb.owner[row]] = TIMER_NONE] /\ elapsed' = elapsed
    BY <1>9 DEF Holds, Called
  <2>2. OwnHandle'
    BY <1>7, <1>9, <2>1, OwnedFacts, OwnedBack
  <2> QED BY <1>2, <1>7, <1>9, <2>1, <2>2 DEF Inv
<1>10. CASE RingConsumer
  BY <1>9, <1>10 DEF RingConsumer
<1>11. CASE RingLine
  <2> DEFINE l == tb.owner[row]
             h == [handle EXCEPT ![l] = TIMER_NONE]
  <2>1. ASSUME NEW k \in Lines, Called, tb' = SetAlarm(tb, k),
               handle' = [handle EXCEPT ![l] = TIMER_NONE, ![k] = RowFor(tb)]
        PROVE  Inv'
    <3>1. Owned(tb, h) /\ h \in [Owners -> Rows \cup {TIMER_NONE}] /\ k \in Owners
      BY <1>0, <1>7, <2>1, OwnedFacts
    <3>2. handle' = [h EXCEPT ![k] = RowFor(tb)]
      BY <2>1
    <3> HIDE DEF h
    <3>3. Owned(tb, [h EXCEPT ![k] = TIMER_NONE])
      BY <3>1 DEF Owned
    <3>4. Owned(SetAlarm(tb, k), [h EXCEPT ![k] = RowFor(tb)])
      BY <1>0, <3>1, <3>3, OwnSet
    <3>5. OwnHandle'
      BY <2>1, <3>2, <3>4, OwnedBack
    <3>6. Timed(SetAlarm(tb, k), elapsed)
      BY <1>0, <1>2, <3>1, SetAlarmFacts
    <3>7. elapsed' = elapsed
      BY <2>1 DEF Called
    <3> QED BY <1>7, <2>1, <3>5, <3>6, <3>7 DEF Inv
  <2> QED BY <1>9, <1>11, <2>1 DEF RingLine
<1>12. CASE Tick
  <2>1. /\ tb' = [tb EXCEPT !.next = @ - 1] /\ elapsed' = elapsed + 1
        /\ UNCHANGED <<handle, at, row, main>> /\ Outside
    BY <1>12 DEF Tick, timer
  <2>2. at \in {"boot", "out"} /\ main = Nobody /\ Owned(tb, handle)
    BY <2>1, OwnedFacts DEF Outside
  <2>3. /\ tb'.state = tb.state /\ tb'.owner = tb.owner
        /\ tb'.val = tb.val /\ tb'.last = tb.last /\ tb'.total = tb.total
        /\ tb'.next = tb.next - 1
    BY <1>0, <2>1 DEF Table
  <2>4. tb'.next <= tb'.total - elapsed'
    BY <1>0, <1>1, <1>2, <2>1, <2>3 DEF Timed
  <2>5. Timed(tb', elapsed')
    BY <1>2, <2>3, <2>4 DEF Timed
  <2>6. OwnHandle'
    BY <2>1, <2>2, <2>3, OwnedBack DEF Owned
  <2> QED BY <2>1, <2>2, <2>5, <2>6 DEF Inv, MainInv, DispatchInv
<1> QED
  BY <1>3, <1>4, <1>5, <1>6, <1>8, <1>10, <1>11, <1>12

\* Inv holds in every reachable state, if no task runs while another is in the
\* table.
THEOREM Invariance == ASSUME ~Preempt PROVE Spec => [](TypeOK /\ Inv)
<1>1. Init => Inv
  <2> SUFFICES ASSUME Init PROVE Inv
    OBVIOUS
  <2>1. OwnHandle
    BY DEF Init, OwnHandle, Set
  <2>2. Timed(tb, elapsed)
    BY DEF Init, Timed
  <2>3. MainInv /\ DispatchInv
    BY DEF Init, MainInv, DispatchInv
  <2> QED BY <2>1, <2>2, <2>3 DEF Inv
<1>2. TypeOK /\ Inv /\ [Next]_vars => Inv'
  <2> SUFFICES ASSUME TypeOK, Inv, [Next]_vars PROVE Inv'
    OBVIOUS
  <2>1. CASE Next
    BY <2>1, TaskInv, TimerInv DEF Next
  <2>2. CASE UNCHANGED vars
    BY <2>2 DEF vars, timer, Inv, OwnHandle, Set, Rung, Timed, MainInv, DispatchInv
  <2> QED BY <2>1, <2>2
<1> QED
  BY <1>1, <1>2, TypeCorrect, PTL DEF Spec

\* If no task runs while another is in the table, a handle names a row of its
\* owner's until the alarm rings, so that nobody deletes another's alarm.
THEOREM RowsOwned == ASSUME ~Preempt PROVE Spec => []OwnHandle
<1>1. Inv => OwnHandle
  BY DEF Inv
<1> QED
  BY <1>1, Invariance, PTL

\* Under the same assumption TIMER wakes no later than the soonest alarm.
THEOREM WakesInTime == ASSUME ~Preempt PROVE Spec => []WakeInTime
<1>1. TypeOK /\ Inv => WakeInTime
  <2> SUFFICES ASSUME TypeOK, Inv, NEW r \in Rows, tb.state[r] = "armed"
               PROVE  tb.next <= tb.val[r] - elapsed
    BY DEF WakeInTime
  <2>1. tb.next <= tb.total - elapsed /\ tb.total <= tb.val[r]
    BY DEF Inv, Timed
  <2>2. /\ tb.next \in Int /\ tb.total \in Int /\ elapsed \in Int
        /\ tb.val[r] \in Int
    BY DEF TypeOK, Table
  <2> QED BY <2>1, <2>2
<1> QED
  BY <1>1, Invariance, PTL


-----------------------------------------------------------------------------
(* How late an alarm can be, and the promise of Alarms                         *)

\* A taken row is known to its owner, by its handle.
Backed(t, h) == \A r \in Rows : t.state[r] # "free" => h[t.owner[r]] = r

\* The users: a line has an alarm only while it is open, MAIN sets one for a
\* line that has none, and nobody has one before InitNodes.
UserInv ==
  /\ \A l \in Lines : Set(l) => l \in open
  /\ main # Nobody => main.line \in open /\ ~Set(main.line)
  /\ \A o \in Owners : ~Set(o) => due[o] = 0
  /\ at = "off" => \A o \in Owners : ~Set(o)

\* Where the dispatch has still to call: the rows from where it is on, and the
\* one it is at.
TrigInv ==
  /\ \A r \in Rows : tb.state[r] \in {"trig", "trig_period"} =>
       \/ at = "trig" /\ row <= r
       \/ at = "ring" /\ row < r
  /\ \A r \in Rows : tb.state[r] = "trig_period" => tb.owner[r] = Sync
  /\ at = "ring" => /\ handle[tb.owner[row]] = row /\ row <= tb.last
                    /\ tb.owner[row] # Sync => tb.state[row] = "free"

\* The sleep: the wake-up is when it ends, or nothing is to come and TIMER
\* wakes anyway.
Running(t) == {r \in Rows : t.state[r] \in {"armed", "trig_period"}}
Awake(t, e) == t.next = t.total - e
Asleep(t, e) == /\ t.total = Never /\ e <= -t.next /\ e <= Boot + Lag
                /\ Running(t) = {}
Sleeps(t, e) == t.total \in 1..Never /\ (Awake(t, e) \/ Asleep(t, e))
SleepInv == /\ IF at = "age" THEN tb.total \in 1..Never ELSE Sleeps(tb, elapsed)
            /\ main # Nobody => Awake(tb, elapsed)

\* An alarm set in this sleep is as late as the table has it; one that was aged
\* k times lost at most Lag by each poll, and Boot by the first.
Most(o) == Value[o] + Boot + Lag + 1
Fresh(o) == due[o] = tb.val[handle[o]] - elapsed /\ due[o] <= Value[o]
Behind(o, v, e) == \E k \in Nat \ {0} :
  /\ v <= Most(o) - k
  /\ due[o] <= v - e /\ due[o] >= v - e - Boot - Lag * k

\* An alarm that is about to ring is due, and not too late.
Pending(o) == /\ due[o] <= 0 /\ due[o] >= -(Boot + Lag * Most(o))
              /\ o = Sync => tb.val[handle[o]] = Value[o]

AlarmOk(o) == Set(o) =>
  IF tb.state[handle[o]] # "armed" \/ Rung(o) THEN Pending(o)
  ELSE IF at = "age" THEN Behind(o, tb.val[handle[o]] - tb.total, 0)
  ELSE Fresh(o) \/ Behind(o, tb.val[handle[o]], elapsed)

AlarmInv == \A o \in Owners : AlarmOk(o)

\* TIMER oversleeps by Lag at most, but for the first time by Boot.
OverInv ==
  LET first == elapsed <= Boot /\ \A o \in Owners : Set(o) => Fresh(o) IN
  /\ elapsed <= tb.total + Lag \/ first
  /\ at \in {"off", "boot"} => first

RowsInv == Backed(tb, handle) /\ UserInv /\ TrigInv
ClockInv == SleepInv /\ AlarmInv /\ OverInv

\* A table with one more alarm, or one less, is backed by the handles with it.
LEMMA BackedSet ==
  ASSUME NEW t \in Table, NEW h \in [Owners -> Rows \cup {TIMER_NONE}],
         NEW o \in Owners, elapsed \in Nat, h[o] = TIMER_NONE, Backed(t, h)
  PROVE  Backed(SetAlarm(t, o), [h EXCEPT ![o] = RowFor(t)])
<1> DEFINE u == SetAlarm(t, o)
           r == RowFor(t)
<1>1. /\ r = TIMER_NONE => u = t
      /\ r # TIMER_NONE => /\ r \in Rows
                           /\ u.owner = [t.owner EXCEPT ![r] = o]
                           /\ u.state = [t.state EXCEPT ![r] = "armed"]
  BY SetAlarmFacts
<1>2. /\ t.state \in [Rows -> {"free", "armed", "trig", "trig_period"}]
      /\ t.owner \in [Rows -> Owners]
  BY DEF Table
<1> HIDE DEF u, r
<1>3. \A q \in Rows : t.state[q] # "free" => t.owner[q] # o /\ h[t.owner[q]] = q
  BY DEF Backed, Rows, TIMER_NONE
<1>4. Backed(u, [h EXCEPT ![o] = r])
  BY <1>1, <1>2, <1>3 DEF Backed
<1> QED
  BY <1>4 DEF u, r

LEMMA BackedDel ==
  ASSUME NEW t \in Table, NEW h \in [Owners -> Rows \cup {TIMER_NONE}],
         NEW o \in Owners, Backed(t, h)
  PROVE  Backed(DelAlarm(t, h[o]), [h EXCEPT ![o] = TIMER_NONE])
<1> DEFINE u == DelAlarm(t, h[o])
<1>1. u.owner = t.owner /\ \A r \in Rows : u.state[r] = IF r = h[o] THEN "free" ELSE t.state[r]
  BY DelAlarmFacts
<1>2. t.owner \in [Rows -> Owners]
  BY DEF Table
<1> HIDE DEF u
<1>3. Backed(u, [h EXCEPT ![o] = TIMER_NONE])
  BY <1>1, <1>2 DEF Backed
<1> QED
  BY <1>3 DEF u

\* An owner's handle becomes h, and its time starts, or stops.
Puts(o, h) == /\ handle' = [handle EXCEPT ![o] = h]
              /\ due' = [due EXCEPT ![o] = IF h = TIMER_NONE THEN 0 ELSE Value[o]]

\* No row is marked for a call of the dispatch that was not before.
Quiet == \A r \in Rows : \/ tb'.state[r] \in {"free", "armed"}
                         \/ tb'.state[r] = tb.state[r] /\ tb'.owner[r] = tb.owner[r]

\* Setting, deleting and renewing an alarm keep the rows backed, and mark none.
LEMMA SetRows ==
  ASSUME NEW t \in Table, NEW o \in Owners, elapsed \in Nat,
         \A r \in Rows : \/ t.state[r] = "free"
                         \/ t.state[r] = tb.state[r] /\ t.owner[r] = tb.owner[r],
         tb' = SetAlarm(t, o)
  PROVE  Quiet
<1> DEFINE r == RowFor(t)
<1>1. /\ r = TIMER_NONE => tb' = t
      /\ r # TIMER_NONE => /\ r \in Rows
                           /\ tb'.owner = [t.owner EXCEPT ![r] = o]
                           /\ tb'.state = [t.state EXCEPT ![r] = "armed"]
  BY SetAlarmFacts
<1>2. /\ t.state \in [Rows -> {"free", "armed", "trig", "trig_period"}]
      /\ t.owner \in [Rows -> Owners]
  BY DEF Table
<1> HIDE DEF r
<1> QED
  BY <1>1, <1>2 DEF Quiet

LEMMA RenewsRows ==
  ASSUME TypeOK, Backed(tb, handle), NEW o \in Owners, Renews(o)
  PROVE  /\ Backed(tb', handle') /\ Quiet
         /\ Puts(o, RowFor(DelAlarm(tb, handle[o])))
<1> DEFINE t == DelAlarm(tb, handle[o])
           h == [handle EXCEPT ![o] = TIMER_NONE]
           r == RowFor(t)
<1>1. /\ tb \in Table /\ handle \in [Owners -> Rows \cup {TIMER_NONE}] /\ elapsed \in Nat
      /\ due \in [Owners -> Int] /\ handle[o] \in Rows \cup {TIMER_NONE}
  BY DEF TypeOK
<1>2. /\ t \in Table
      /\ \A q \in Rows : \/ t.state[q] = "free"
                         \/ t.state[q] = tb.state[q] /\ t.owner[q] = tb.owner[q]
  BY <1>1, DelAlarmFacts
<1>3. Backed(t, h)
  BY <1>1, BackedDel
<1>4. tb' = SetAlarm(t, o) /\ Puts(o, r)
  BY DEF Renews, Holds, Puts
<1> HIDE DEF t
<1>5. h[o] = TIMER_NONE /\ h \in [Owners -> Rows \cup {TIMER_NONE}]
      /\ [h EXCEPT ![o] = r] = [handle EXCEPT ![o] = r]
  BY <1>1
<1>6. Backed(tb', handle')
  <2> HIDE DEF h, r
  <2>1. Backed(SetAlarm(t, o), [h EXCEPT ![o] = RowFor(t)])
    BY <1>1, <1>2, <1>3, <1>5, BackedSet
  <2> QED BY <1>4, <1>5, <2>1 DEF r, Puts
<1>7. Quiet
  BY <1>1, <1>2, <1>4, SetRows
<1> QED
  BY <1>4, <1>6, <1>7 DEF t

LEMMA DeletesRows ==
  ASSUME TypeOK, Backed(tb, handle), NEW o \in Owners,
         Holds(o, DelAlarm(tb, handle[o]), TIMER_NONE)
  PROVE  Backed(tb', handle') /\ Quiet /\ Puts(o, TIMER_NONE)
<1>1. /\ tb \in Table /\ handle \in [Owners -> Rows \cup {TIMER_NONE}]
      /\ handle[o] \in Rows \cup {TIMER_NONE}
  BY DEF TypeOK
<1>2. tb' = DelAlarm(tb, handle[o]) /\ Puts(o, TIMER_NONE)
  BY DEF Holds, Puts
<1>3. Backed(tb', handle')
  BY <1>1, <1>2, BackedDel DEF Puts
<1>4. Quiet
  BY <1>1, <1>2, DelAlarmFacts DEF Quiet
<1> QED
  BY <1>2, <1>3, <1>4

\* A step of RPDO or MAIN that marks no row leaves TIMER where it is.
LEMMA QuietTrig ==
  ASSUME TrigInv, Quiet, at \notin {"age", "trig", "ring"}, at' \notin {"trig", "ring"}
  PROVE  TrigInv'
BY DEF TrigInv, Quiet

\* A new handle of a user, with its time.
LEMMA PutsUser ==
  ASSUME TypeOK, UserInv, NEW o \in Owners, NEW h \in Rows \cup {TIMER_NONE}, Puts(o, h),
         main' = main => (main # Nobody => o # main.line),
         main' \in {main, Nobody},
         at' # "off",
         h # TIMER_NONE /\ o \in Lines => o \in open',
         \A l \in Lines \ {o} : l \in open => l \in open'
  PROVE  UserInv'
<1>1. /\ handle \in [Owners -> Rows \cup {TIMER_NONE}] /\ due \in [Owners -> Int]
      /\ Lines \subseteq Owners
      /\ main \in [row : Rows, line : Lines] \cup {Nobody}
  BY DEF TypeOK, Owners
<1>2. \A p \in Owners \ {o} : handle'[p] = handle[p] /\ due'[p] = due[p]
  BY <1>1 DEF Puts
<1>3. handle'[o] = h /\ (h = TIMER_NONE => due'[o] = 0)
  BY <1>1 DEF Puts
<1>4. \A l \in Lines : Set(l)' => l \in open'
  BY <1>1, <1>2, <1>3 DEF UserInv, Set
<1>5. (main # Nobody => main.line \in open /\ ~Set(main.line))'
  <2>1. CASE main' = Nobody
    BY <2>1
  <2>2. CASE main' = main /\ main # Nobody
    <3>1. main.line \in Lines \ {o}
      BY <1>1, <2>2
    <3> QED BY <1>1, <1>2, <2>2, <3>1 DEF UserInv, Set
  <2> QED BY <2>1, <2>2
<1>6. \A p \in Owners : ~Set(p)' => due'[p] = 0
  BY <1>2, <1>3 DEF UserInv, Set
<1> QED
  BY <1>4, <1>5, <1>6 DEF UserInv

\* The rows, the users and the dispatch in a step of RPDO or MAIN.
LEMMA TaskRows ==
  ASSUME TypeOK, Inv, RowsInv, ~Preempt,
         \/ \E c \in Consumers : Heartbeat(c)
         \/ \E l \in Lines : Answer(l) \/ Finish(l) \/ Find(l)
         \/ Start \/ StopSync \/ StartTimerLoop \/ Store
  PROVE  RowsInv'
<1>0. /\ tb \in Table /\ handle \in [Owners -> Rows \cup {TIMER_NONE}] /\ elapsed \in Nat
      /\ Consumers \subseteq Owners /\ Lines \subseteq Owners /\ Sync \in Owners
      /\ main \in [row : Rows, line : Lines] \cup {Nobody}
      /\ TIMER_NONE \notin Rows
  BY DEF TypeOK, Owners, Rows, TIMER_NONE
<1>1. Backed(tb, handle) /\ UserInv /\ TrigInv
  BY DEF RowsInv
<1>2. ASSUME NEW o \in Owners, Renews(o), Outside, UNCHANGED <<at, row, main, open>>,
             o \in Lines => o \in open
      PROVE  RowsInv'
  <2>1. /\ Backed(tb', handle') /\ Quiet
        /\ Puts(o, RowFor(DelAlarm(tb, handle[o])))
    BY <1>1, <1>2, RenewsRows
  <2>2. RowFor(DelAlarm(tb, handle[o])) \in Rows \cup {TIMER_NONE}
    <3>1. DelAlarm(tb, handle[o]) \in Table
      BY <1>0, DelAlarmFacts
    <3> QED BY <3>1, RowTyped
  <2>3. at \in {"boot", "out"} /\ main = Nobody
    BY <1>2 DEF Outside
  <2>4. TrigInv'
    BY <1>1, <1>2, <2>1, <2>3, QuietTrig
  <2>5. UserInv'
    BY <1>1, <1>2, <2>1, <2>2, <2>3, PutsUser
  <2> QED BY <2>1, <2>4, <2>5 DEF RowsInv
<1>3. ASSUME NEW o \in Owners, Holds(o, DelAlarm(tb, handle[o]), TIMER_NONE), Outside,
             UNCHANGED <<at, row, main>>, open' = open \ {o} \/ open' = open
      PROVE  RowsInv'
  <2>1. Backed(tb', handle') /\ Quiet /\ Puts(o, TIMER_NONE)
    BY <1>1, <1>3, DeletesRows
  <2>2. at \in {"boot", "out"} /\ main = Nobody
    BY <1>3 DEF Outside
  <2>3. TrigInv'
    BY <1>1, <1>3, <2>1, <2>2, QuietTrig
  <2>4. UserInv'
    BY <1>1, <1>3, <2>1, <2>2, PutsUser
  <2> QED BY <2>1, <2>3, <2>4 DEF RowsInv
<1>4. CASE \E c \in Consumers : Heartbeat(c)
  <2>1. \A c \in Consumers : c \notin Lines
    OBVIOUS
  <2> QED BY <1>0, <1>2, <1>4, <2>1 DEF Heartbeat, Rpdo, timer
<1>5. CASE \E l \in Lines : Answer(l)
  BY <1>0, <1>2, <1>5 DEF Answer, Rpdo, timer
<1>6. CASE \E l \in Lines : Finish(l)
  BY <1>0, <1>3, <1>6 DEF Finish, Rpdo, timer
<1>7. CASE StopSync
  BY <1>0, <1>3, <1>7 DEF StopSync, Main, timer
<1>8. ASSUME NEW l \in Lines, Find(l) PROVE RowsInv'
  <2> DEFINE r == RowFor(tb)
  <2>1. /\ UNCHANGED <<at, row, handle, due>> /\ Outside
        /\ l \notin open /\ open' = open \cup {l}
        /\ IF r = TIMER_NONE THEN UNCHANGED <<tb, main>>
           ELSE tb' = Found(tb, r, Value[l]) /\ main' = [row |-> r, line |-> l]
    BY <1>8 DEF Find, Main, timer
  <2>2. r \in Rows \cup {TIMER_NONE}
    BY <1>0, RowTyped
  <2> HIDE DEF r
  <2>3. tb'.state = tb.state /\ tb'.owner = tb.owner
    <3>1. r # TIMER_NONE => /\ Found(tb, r, Value[l]).state = tb.state
                            /\ Found(tb, r, Value[l]).owner = tb.owner
      BY <1>0, <2>2, FoundFacts
    <3> QED BY <2>1, <3>1
  <2>4. Backed(tb', handle')
    BY <1>1, <2>1, <2>3 DEF Backed
  <2>5. at \in {"boot", "out"} /\ main = Nobody
    BY <2>1 DEF Outside
  <2>6. TrigInv'
    BY <1>1, <2>1, <2>3, <2>5, QuietTrig DEF Quiet
  <2>7. main' = Nobody \/ main'.line = l
    BY <2>1, <2>5
  <2>8. UserInv'
    BY <1>0, <1>1, <2>1, <2>5, <2>7 DEF UserInv, Set
  <2> QED BY <2>4, <2>6, <2>8 DEF RowsInv
<1>9. CASE Start
  <2>1. /\ tb' = SetAlarm(tb, Sync) /\ Puts(Sync, RowFor(tb))
        /\ at = "off" /\ at' = "boot" /\ UNCHANGED <<open, main>>
    BY <1>9 DEF Start, Holds, Puts
  <2>2. handle[Sync] = TIMER_NONE /\ Sync \notin Lines
    BY <1>0, <1>1, <2>1 DEF UserInv, Set
  <2>3. Backed(SetAlarm(tb, Sync), [handle EXCEPT ![Sync] = RowFor(tb)])
    BY <1>0, <1>1, <2>2, BackedSet
  <2>4. Backed(tb', handle')
    BY <2>1, <2>3 DEF Puts
  <2>5. Quiet
    BY <1>0, <2>1, SetRows
  <2>6. TrigInv'
    BY <1>1, <2>1, <2>5, QuietTrig
  <2>7. RowFor(tb) \in Rows \cup {TIMER_NONE}
    BY <1>0, RowTyped
  <2>8. main = Nobody
    BY <2>1 DEF Inv, MainInv
  <2>9. UserInv'
    BY <1>0, <1>1, <2>1, <2>2, <2>7, <2>8, PutsUser
  <2> QED BY <2>4, <2>6, <2>9 DEF RowsInv
<1>10. CASE StartTimerLoop
  BY <1>1, <1>10 DEF StartTimerLoop, Outside, RowsInv, Backed, TrigInv, UserInv, Set
<1>11. CASE Store
  <2>1. PICK r \in Rows, l \in Lines : r = main.row /\ l = main.line
    BY <1>0, <1>11 DEF Store
  <2> DEFINE u == Stored(tb, r, l)
  <2>2. /\ main # Nobody /\ main' = Nobody /\ UNCHANGED <<at, row, open>>
        /\ at \in {"boot", "out"}
        /\ tb' = u /\ handle' = [handle EXCEPT ![l] = r] /\ Puts(l, r)
    BY <1>0, <1>11, <2>1 DEF Store, Main, timer, Holds, Puts
  <2>3. tb.state[r] = "free" /\ l \in open /\ handle[l] = TIMER_NONE
    BY <1>0, <1>1, <2>1, <2>2 DEF Inv, MainInv, UserInv, Set
  <2>4. /\ u.owner = [tb.owner EXCEPT ![r] = l]
        /\ u.state = [tb.state EXCEPT ![r] = "armed"]
    BY <1>0, StoredFacts, SMTT(30)
  <2> HIDE DEF u
  <2>5. /\ tb.state \in [Rows -> {"free", "armed", "trig", "trig_period"}]
        /\ tb.owner \in [Rows -> Owners]
    BY <1>0 DEF Table
  <2>6. \A q \in Rows : tb.state[q] # "free" => tb.owner[q] # l /\ handle[tb.owner[q]] = q
    BY <1>0, <1>1, <2>3 DEF Backed
  <2>7. Backed(tb', handle')
    BY <1>0, <2>2, <2>4, <2>5, <2>6 DEF Backed
  <2>8. Quiet
    BY <2>2, <2>4, <2>5 DEF Quiet
  <2>9. TrigInv'
    BY <1>1, <2>2, <2>8, QuietTrig
  <2>10. UserInv'
    BY <1>0, <1>1, <2>2, <2>3, PutsUser
  <2> QED BY <2>7, <2>9, <2>10 DEF RowsInv
<1> QED
  BY <1>4, <1>5, <1>6, <1>7, <1>8, <1>9, <1>10, <1>11

\* What Aged marks of a row.
LEMMA AgedMarks ==
  ASSUME tb \in Table
  PROVE  \A r \in Rows : Aged.state[r] = "trig_period"
                           => tb.owner[r] = Sync \/ tb.state[r] = "trig_period"
BY DEF Aged, Table

\* ... and in a step of TIMER, or of the clock.
LEMMA TimerRows ==
  ASSUME TypeOK, Inv, RowsInv, ~Preempt,
         \/ Poll \/ Age \/ Release \/ Return \/ RingSync \/ RingConsumer \/ RingLine \/ Tick
  PROVE  RowsInv'
<1>0. /\ tb \in Table /\ handle \in [Owners -> Rows \cup {TIMER_NONE}] /\ elapsed \in Nat
      /\ Consumers \subseteq Owners /\ Lines \subseteq Owners /\ Sync \in Owners
      /\ row \in 0..N /\ (at = "ring" => row \in Rows) /\ due \in [Owners -> Int]
      /\ TIMER_NONE \notin Rows /\ Rows \subseteq Nat
      /\ tb.state \in [Rows -> {"free", "armed", "trig", "trig_period"}]
      /\ tb.owner \in [Rows -> Owners]
  BY DEF TypeOK, Owners, Rows, TIMER_NONE, Table
<1>1. Backed(tb, handle) /\ UserInv /\ TrigInv
  BY DEF RowsInv
<1>2. \A r \in Rows : tb.state[r] # "free" => r <= tb.last
  BY DEF Inv, Timed
<1>3. CASE Poll
  BY <1>1, <1>3 DEF Poll, RowsInv, Backed, TrigInv, UserInv, Set
<1>4. CASE Age
  <2>1. /\ tb' = Aged /\ at = "age" /\ at' = "trig" /\ row' = 0
        /\ UNCHANGED <<handle, open, main, due>>
    BY <1>4 DEF Age
  <2>2. elapsed = 0
    BY <2>1 DEF Inv, DispatchInv
  <2>3. /\ Aged.owner = tb.owner
        /\ \A r \in Rows : Aged.state[r] = "free" <=> tb.state[r] = "free"
    BY <1>0, AgedFacts
  <2>4. Backed(tb', handle')
    BY <1>1, <2>1, <2>3 DEF Backed
  <2>5. TrigInv'
    BY <1>0, <1>1, <2>1, <2>3, AgedMarks DEF TrigInv
  <2>6. UserInv'
    BY <1>1, <2>1 DEF UserInv, Set
  <2> QED BY <2>4, <2>5, <2>6 DEF RowsInv
<1>5. CASE Release
  <2> DEFINE r == Least(Triggered)
             v == IF tb.state[r] = "trig" THEN "free" ELSE "armed"
  <2>1. Triggered # {} /\ Triggered \subseteq Rows /\ Triggered \subseteq Nat
    BY <1>0, <1>5, TriggeredRows DEF Release
  <2>2. r \in Rows /\ tb.state[r] \in {"trig", "trig_period"} /\ r <= tb.last
    BY <1>0, <1>2, <2>1, LeastIn DEF Triggered
  <2>3. \A q \in Rows : tb.state[q] \in {"trig", "trig_period"} /\ row <= q => r <= q
    <3>1. \A q \in Rows : tb.state[q] \in {"trig", "trig_period"} /\ row <= q => q \in Triggered
      <4>1. tb.last \in Int /\ row \in Int
        BY <1>0 DEF Table
      <4> QED BY <1>0, <1>2, <4>1 DEF Triggered, Rows
    <3>2. \A q \in Triggered : Least(Triggered) <= q
      BY <2>1, LeastIn
    <3> QED BY <3>1, <3>2
  <2>4. /\ tb' = [tb EXCEPT !.state[r] = v]
        /\ row' = r /\ at = "trig" /\ at' = "ring" /\ UNCHANGED <<handle, open, main, due>>
    BY <1>5 DEF Release
  <2> HIDE DEF r
  <2>5. /\ tb'.state = [tb.state EXCEPT ![r] = v] /\ tb'.owner = tb.owner
        /\ tb'.last = tb.last
    BY <1>0, <2>4 DEF Table
  <2>6. v \in {"free", "armed"} /\ (tb.owner[r] # Sync => v = "free")
    BY <1>1, <2>2 DEF TrigInv
  <2> HIDE DEF v
  <2>7. Backed(tb', handle')
    BY <1>0, <1>1, <2>2, <2>4, <2>5 DEF Backed
  <2>8. TrigInv'
    <3>1. \A q \in Rows : tb'.state[q] \in {"trig", "trig_period"} => r < q
      <4>1. \A q \in Rows : tb'.state[q] \in {"trig", "trig_period"}
              => q # r /\ tb.state[q] \in {"trig", "trig_period"} /\ row <= q
        BY <1>0, <1>1, <2>2, <2>4, <2>5, <2>6 DEF TrigInv
      <4> QED BY <1>0, <2>2, <2>3, <4>1
    <3>2. \A q \in Rows : tb'.state[q] = "trig_period" => tb'.owner[q] = Sync
      BY <1>0, <1>1, <2>2, <2>5, <2>6 DEF TrigInv
    <3>3. handle[tb.owner[r]] = r
      BY <1>1, <2>2 DEF Backed
    <3> QED BY <1>0, <2>2, <2>4, <2>5, <2>6, <3>1, <3>2, <3>3 DEF TrigInv
  <2>9. UserInv'
    BY <1>1, <2>4 DEF UserInv, Set
  <2> QED BY <2>7, <2>8, <2>9 DEF RowsInv
<1>6. CASE Return
  <2>1. \A q \in Rows : tb.state[q] \notin {"trig", "trig_period"}
    <3>1. tb.last \in Int /\ row \in Int
      BY <1>0 DEF Table
    <3> QED BY <1>0, <1>1, <1>2, <1>6, <3>1 DEF Return, TrigInv, Triggered, Rows
  <2> QED BY <1>1, <1>6, <2>1 DEF Return, RowsInv, Backed, TrigInv, UserInv, Set
<1>7. ASSUME Called, Quiet PROVE TrigInv'
  <2>1. at = "ring" /\ at' = "trig" /\ row' = row + 1 /\ row \in Nat
    BY <1>0, <1>7 DEF Called
  <2>2. \A q \in Rows : row < q => row + 1 <= q
    <3>1. \A q \in Nat : row < q => row + 1 <= q
      BY <2>1
    <3> QED BY <3>1, <1>0
  <2> QED BY <1>1, <1>7, <2>1, <2>2 DEF TrigInv, Quiet
<1>8. CASE RingSync
  <2>1. Called /\ tb.owner[row] = Sync /\ UNCHANGED <<tb, handle, open, main>>
        /\ due' = [due EXCEPT ![Sync] = Value[Sync]] /\ at = "ring" /\ at' = "trig"
    BY <1>8 DEF RingSync, Called
  <2>2. TrigInv'
    BY <1>7, <2>1 DEF Quiet
  <2>3. handle[Sync] # TIMER_NONE
    BY <1>0, <1>1, <2>1 DEF TrigInv
  <2>4. UserInv'
    BY <1>0, <1>1, <2>1, <2>3 DEF UserInv, Set
  <2> QED BY <1>1, <2>1, <2>2, <2>4 DEF RowsInv, Backed
<1>9. ASSUME NEW o \in Owners, o = tb.owner[row], o # Sync, Called, Holds(o, tb, TIMER_NONE),
             open' = open \ {o}
      PROVE  RowsInv'
  <2>1. /\ tb' = tb /\ handle' = [handle EXCEPT ![o] = TIMER_NONE] /\ Puts(o, TIMER_NONE)
        /\ at = "ring" /\ at' = "trig" /\ main' = main
    BY <1>9 DEF Holds, Puts, Called
  <2>2. tb.state[row] = "free" /\ handle[o] = row /\ main = Nobody
    BY <1>1, <1>9, <2>1 DEF TrigInv, Inv, MainInv
  <2>3. Backed(tb', handle')
    BY <1>0, <1>1, <2>1, <2>2 DEF Backed
  <2>4. TrigInv'
    BY <1>7, <1>9, <2>1 DEF Quiet
  <2>5. UserInv'
    BY <1>0, <1>1, <1>9, <2>1, <2>2, PutsUser
  <2> QED BY <2>3, <2>4, <2>5 DEF RowsInv
<1>10. CASE RingConsumer
  <2>1. open = open \ {tb.owner[row]}
    BY <1>10 DEF RingConsumer, TypeOK
  <2> QED BY <1>0, <1>9, <1>10, <2>1 DEF RingConsumer
<1>11. CASE RingLine
  <2> DEFINE l == tb.owner[row]
             h == [handle EXCEPT ![l] = TIMER_NONE]
  <2>0. l \in Lines /\ l \in Owners /\ l # Sync /\ Called /\ at = "ring" /\ at' = "trig"
        /\ main' = main
    BY <1>0, <1>11 DEF RingLine, Called
  <2>1. ASSUME NEW k \in Lines \ (open \ {l}), tb' = SetAlarm(tb, k),
               handle' = [handle EXCEPT ![l] = TIMER_NONE, ![k] = RowFor(tb)],
               due' = [due EXCEPT ![l] = 0,
                         ![k] = IF RowFor(tb) = TIMER_NONE THEN 0 ELSE Value[k]],
               open' = (open \ {l}) \cup {k}
        PROVE  RowsInv'
    <3>1. tb.state[row] = "free" /\ handle[l] = row /\ main = Nobody
      BY <1>1, <2>0 DEF TrigInv, Inv, MainInv
    <3>2. h[k] = TIMER_NONE /\ h \in [Owners -> Rows \cup {TIMER_NONE}] /\ k \in Owners
      BY <1>0, <1>1, <2>0 DEF UserInv, Set
    <3>3. Backed(tb, h)
      BY <1>0, <1>1, <2>0, <3>1 DEF Backed
    <3>4. handle' = [h EXCEPT ![k] = RowFor(tb)] /\ tb' = SetAlarm(tb, k)
      BY <2>1
    <3> HIDE DEF h, l
    <3>5. Backed(tb', handle')
      <4>1. Backed(SetAlarm(tb, k), [h EXCEPT ![k] = RowFor(tb)])
        BY <1>0, <3>2, <3>3, BackedSet
      <4> QED BY <3>4, <4>1
    <3>6. Quiet
      <4>1. tb \in Table /\ k \in Owners /\ elapsed \in Nat /\ tb' = SetAlarm(tb, k)
        BY <1>0, <3>2, <3>4
      <4>2. \A r \in Rows : \/ tb.state[r] = "free"
                            \/ tb.state[r] = tb.state[r] /\ tb.owner[r] = tb.owner[r]
        OBVIOUS
      <4> QED BY <4>1, <4>2, SetRows
    <3>7. TrigInv'
      BY <1>7, <2>0, <3>6
    <3>8. RowFor(tb) \in Rows \cup {TIMER_NONE}
      BY <1>0, RowTyped
    <3>9. /\ \A o \in Owners \ {k, l} : handle'[o] = handle[o] /\ due'[o] = due[o]
          /\ handle'[k] = RowFor(tb) /\ (RowFor(tb) = TIMER_NONE => due'[k] = 0)
          /\ l # k => handle'[l] = TIMER_NONE /\ due'[l] = 0
      BY <1>0, <2>0, <2>1, <3>2
    <3>10. UserInv'
      BY <1>0, <1>1, <2>0, <2>1, <3>1, <3>2, <3>9 DEF UserInv, Set
    <3> QED BY <3>5, <3>7, <3>10 DEF RowsInv
  <2> QED BY <1>9, <1>11, <2>0, <2>1 DEF RingLine
<1>12. CASE Tick
  <2>1. /\ tb' = [tb EXCEPT !.next = @ - 1] /\ UNCHANGED <<handle, open, at, row, main>>
        /\ due' = [o \in Owners |-> IF handle[o] = TIMER_NONE THEN due[o] ELSE due[o] - 1]
    BY <1>12 DEF Tick, timer
  <2>2. tb'.state = tb.state /\ tb'.owner = tb.owner /\ tb'.last = tb.last
    BY <1>0, <2>1 DEF Table
  <2>3. UserInv'
    BY <1>1, <2>1 DEF UserInv, Set
  <2> QED BY <1>1, <2>1, <2>2, <2>3 DEF RowsInv, Backed, TrigInv
<1> QED
  BY <1>3, <1>4, <1>5, <1>6, <1>8, <1>10, <1>11, <1>12

-----------------------------------------------------------------------------
(* The clock: the sleep, and how late each alarm is                           *)

\* Lateness grows by Lag with each sleep.
LEMMA LagTimes ==
  /\ \A k \in Nat : Lag * k \in Nat /\ Lag * (k + 1) = Lag * k + Lag
  /\ \A k, m \in Nat : k <= m => Lag * k <= Lag * m
<1>1. \A a \in Nat : \A k \in Nat : a * k \in Nat /\ a * (k + 1) = a * k + a
  OBVIOUS
<1>2. \A a \in Nat : \A k, m \in Nat : k <= m => a * k <= a * m
  OBVIOUS
<1> QED
  BY <1>1, <1>2

\* A row that is found leaves TIMER a wake-up, and does not cut the sleep below
\* the part of it that has passed.
LEMMA FoundClock ==
  ASSUME NEW t \in Table, NEW r \in Rows, NEW o \in Owners, elapsed \in Nat,
         Sleeps(t, elapsed)
  PROVE  LET u == Found(t, r, Value[o]) IN
         /\ u.total \in 1..Never /\ Awake(u, elapsed)
         /\ u.total = t.total \/ u.total >= elapsed
<1> DEFINE u == Found(t, r, Value[o])
           v == Value[o]
           sooner == t.total > elapsed /\ t.total - elapsed > v
<1>1. /\ u.total = IF sooner THEN elapsed + v ELSE t.total
      /\ u.next = IF sooner THEN v ELSE t.next
  BY DEF Found, Table
<1>2. /\ t.total \in Int /\ t.next \in Int /\ v \in Nat \ {0} /\ v + Boot + Lag < Never
      /\ Never \in Nat /\ Boot \in Nat /\ Lag \in Nat
  BY NeverAssumption DEF Table
<1> HIDE DEF u, v
<1>3. /\ u.total \in 1..Never /\ Awake(u, elapsed)
      /\ u.total = t.total \/ u.total >= elapsed
  <2>1. CASE sooner
    BY <1>1, <1>2, <2>1 DEF Sleeps, Awake
  <2>2. CASE ~sooner
    <3>1. Awake(t, elapsed)
      BY <1>2, <2>2 DEF Sleeps, Asleep
    <3> QED BY <1>1, <1>2, <2>2, <3>1 DEF Sleeps, Awake
  <2> QED BY <2>1, <2>2
<1> QED
  BY <1>3 DEF u, v

LEMMA StoredClock ==
  ASSUME NEW t \in Table, NEW r \in Rows, NEW o \in Owners
  PROVE  LET u == Stored(t, r, o) IN
         /\ u.total = t.total /\ u.next = t.next
         /\ u.val = [t.val EXCEPT ![r] = Value[o] + elapsed]
BY DEF Stored, Table

LEMMA SetAlarmClock ==
  ASSUME NEW t \in Table, NEW o \in Owners, elapsed \in Nat, Sleeps(t, elapsed)
  PROVE  LET u == SetAlarm(t, o)  r == RowFor(t) IN
         /\ Sleeps(u, elapsed)
         /\ u.total = t.total \/ u.total >= elapsed
         /\ \A q \in Rows : q # r => u.val[q] = t.val[q]
         /\ r # TIMER_NONE => u.val[r] = Value[o] + elapsed
<1> DEFINE u == SetAlarm(t, o)
           r == RowFor(t)
           f == Found(t, r, Value[o])
<1>1. CASE r = TIMER_NONE
  BY <1>1 DEF SetAlarm
<1>2. CASE r # TIMER_NONE
  <2>1. r \in Rows /\ u = Stored(f, r, o) /\ Value[o] \in Nat
    BY <1>2, RowForFacts DEF SetAlarm
  <2> HIDE DEF u, r
  <2>2. f \in Table /\ f.val = t.val
    BY <2>1, FoundFacts
  <2>3. /\ f.total \in 1..Never /\ Awake(f, elapsed)
        /\ f.total = t.total \/ f.total >= elapsed
    BY <2>1, FoundClock
  <2> HIDE DEF f
  <2>4. /\ u.total = f.total /\ u.next = f.next
        /\ u.val = [f.val EXCEPT ![r] = Value[o] + elapsed]
    BY <2>1, <2>2, StoredClock
  <2>5. t.val \in [Rows -> Int]
    BY DEF Table
  <2>6. Sleeps(u, elapsed)
    BY <2>3, <2>4 DEF Sleeps, Awake
  <2> QED BY <2>1, <2>2, <2>3, <2>4, <2>5, <2>6 DEF u, r
<1> QED
  BY <1>1, <1>2

LEMMA DelAlarmClock ==
  ASSUME NEW t \in Table, NEW h \in Rows \cup {TIMER_NONE}, NEW e \in Nat, Sleeps(t, e)
  PROVE  LET u == DelAlarm(t, h) IN
         /\ Sleeps(u, e) /\ u.total = t.total /\ u.val = t.val
<1> DEFINE u == DelAlarm(t, h)
<1>1. u.total = t.total /\ u.val = t.val /\ u.next = t.next
  BY DEF DelAlarm, Table
<1>2. \A r \in Rows : u.state[r] = IF r = h THEN "free" ELSE t.state[r]
  BY DelAlarmFacts
<1> HIDE DEF u
<1>3. Running(u) \subseteq Running(t)
  BY <1>2 DEF Running
<1>4. Sleeps(u, e)
  BY <1>1, <1>3 DEF Sleeps, Awake, Asleep
<1> QED
  BY <1>1, <1>4 DEF u

\* The alarm of an owner that a step leaves alone, and one that it sets.
Kept(o) == Set(o)' => /\ handle'[o] = handle[o] /\ due'[o] = due[o] /\ ~Rung(o)
                      /\ tb'.state[handle[o]] = tb.state[handle[o]]
                      /\ tb'.val[handle[o]] = tb.val[handle[o]]
New(o) == Set(o)' => /\ due'[o] = Value[o]
                     /\ tb'.state[handle'[o]] = "armed"
                     /\ tb'.val[handle'[o]] = Value[o] + elapsed

\* A step that leaves or sets each alarm, while no time passes, keeps what is
\* said of lateness.
LEMMA AlarmsKept ==
  ASSUME TypeOK, TypeOK', AlarmInv, OverInv, NEW S \in SUBSET Owners,
         \A o \in Owners \ S : Kept(o),
         \A o \in S : New(o),
         UNCHANGED elapsed, at # "age", at' \notin {"age", "ring"},
         at' \in {"off", "boot"} => at \in {"off", "boot"},
         tb'.total = tb.total \/ tb'.total >= elapsed
  PROVE  AlarmInv' /\ OverInv'
<1>0. /\ elapsed \in Nat /\ Lag \in Nat /\ Boot \in Nat
      /\ handle \in [Owners -> Rows \cup {TIMER_NONE}] /\ due \in [Owners -> Int]
      /\ tb.val \in [Rows -> Int] /\ tb.total \in Int /\ tb'.total \in Int
      /\ Value \in [Owners -> Nat \ {0}]
  BY DEF TypeOK, Table
<1>1. ASSUME NEW o \in Owners, Set(o)', Kept(o)
      PROVE  /\ AlarmOk(o)'
             /\ Fresh(o) => Fresh(o)' /\ Set(o)
  <2>1. /\ handle'[o] = handle[o] /\ due'[o] = due[o] /\ ~Rung(o) /\ ~Rung(o)'
        /\ tb'.state[handle[o]] = tb.state[handle[o]]
        /\ tb'.val[handle[o]] = tb.val[handle[o]] /\ Set(o) /\ elapsed' = elapsed
    BY <1>1 DEF Kept, Set, Rung
  <2>2. (Fresh(o) => Fresh(o)') /\ (Pending(o) => Pending(o)')
        /\ (Behind(o, tb.val[handle[o]], elapsed) => Behind(o, tb.val[handle[o]], elapsed)')
    BY <2>1 DEF Fresh, Pending, Behind
  <2>3. AlarmOk(o)
    BY DEF AlarmInv
  <2>4. AlarmOk(o)'
    BY <2>1, <2>2, <2>3 DEF AlarmOk
  <2> QED BY <2>1, <2>2, <2>4
<1>2. ASSUME NEW o \in Owners, Set(o)', New(o)
      PROVE  AlarmOk(o)' /\ Fresh(o)'
  <2>1. /\ due'[o] = Value[o] /\ tb'.state[handle'[o]] = "armed" /\ elapsed' = elapsed
        /\ tb'.val[handle'[o]] = Value[o] + elapsed /\ ~Rung(o)' /\ Value[o] \in Nat
    BY <1>0, <1>2 DEF New, Rung
  <2>2. Fresh(o)'
    BY <1>0, <2>1 DEF Fresh
  <2> QED BY <2>1, <2>2 DEF AlarmOk
<1>3. AlarmInv'
  <2>1. \A o \in Owners : AlarmOk(o)'
    BY <1>1, <1>2 DEF AlarmOk
  <2> QED BY <2>1 DEF AlarmInv
<1> DEFINE first == elapsed <= Boot /\ \A o \in Owners : Set(o) => Fresh(o)
<1>4. ASSUME first PROVE first'
  <2>1. ASSUME NEW o \in Owners, Set(o)' PROVE Fresh(o)'
    BY <1>1, <1>2, <1>4, <2>1 DEF Kept, Set
  <2> QED BY <1>4, <2>1
<1>5. OverInv'
  <2>1. elapsed <= tb.total + Lag \/ first
    BY DEF OverInv
  <2>2. at' \in {"off", "boot"} => first
    BY DEF OverInv
  <2> HIDE DEF first
  <2>3. elapsed' <= tb'.total + Lag \/ first'
    BY <1>0, <1>4, <2>1
  <2> QED BY <1>4, <2>2, <2>3 DEF OverInv, first
<1> QED
  BY <1>3, <1>5

\* An owner renews its alarm.
LEMMA RenewsClock ==
  ASSUME TypeOK, Owned(tb, handle), Sleeps(tb, elapsed), at \notin {"age", "ring"},
         NEW o \in Owners, Renews(o)
  PROVE  /\ Sleeps(tb', elapsed)
         /\ tb'.total = tb.total \/ tb'.total >= elapsed
         /\ New(o) /\ \A p \in Owners \ {o} : Kept(p)
<1> DEFINE t == DelAlarm(tb, handle[o])
           r == RowFor(t)
           u == SetAlarm(t, o)
<1>1. /\ tb \in Table /\ handle \in [Owners -> Rows \cup {TIMER_NONE}] /\ elapsed \in Nat
      /\ due \in [Owners -> Int] /\ handle[o] \in Rows \cup {TIMER_NONE}
      /\ TIMER_NONE \notin Rows
  BY DEF TypeOK, TIMER_NONE, Rows
<1>2. /\ tb' = u /\ handle' = [handle EXCEPT ![o] = r]
      /\ due' = [due EXCEPT ![o] = IF r = TIMER_NONE THEN 0 ELSE Value[o]]
  BY DEF Renews, Holds
<1>3. /\ t \in Table /\ Sleeps(t, elapsed) /\ t.total = tb.total /\ t.val = tb.val
      /\ \A q \in Rows : t.state[q] = IF q = handle[o] THEN "free" ELSE tb.state[q]
  BY <1>1, DelAlarmFacts, DelAlarmClock
<1> HIDE DEF t
<1>4. /\ r = TIMER_NONE => u = t
      /\ r # TIMER_NONE => /\ r \in Rows /\ t.state[r] = "free"
                           /\ u.state = [t.state EXCEPT ![r] = "armed"]
  BY <1>1, <1>3, SetAlarmFacts
<1>5. /\ Sleeps(u, elapsed) /\ (u.total = t.total \/ u.total >= elapsed)
      /\ \A q \in Rows : q # r => u.val[q] = t.val[q]
      /\ r # TIMER_NONE => u.val[r] = Value[o] + elapsed
  BY <1>1, <1>3, SetAlarmClock
<1> HIDE DEF r, u
<1>6. t.state \in [Rows -> {"free", "armed", "trig", "trig_period"}]
  BY <1>3 DEF Table
<1>7. New(o)
  BY <1>1, <1>2, <1>4, <1>5, <1>6 DEF New, Set
<1>8. ASSUME NEW p \in Owners \ {o}, Set(p)' PROVE Kept(p)
  <2>1. handle'[p] = handle[p] /\ due'[p] = due[p] /\ handle[p] \in Rows
    BY <1>1, <1>2, <1>8 DEF Set
  <2>2. tb.owner[handle[p]] = p /\ tb.state[handle[p]] # "free"
    BY <1>1, <2>1 DEF Owned
  <2>3. handle[p] # handle[o]
    BY <1>1, <2>1, <2>2 DEF Owned
  <2>4. handle[p] # r
    BY <1>1, <1>3, <1>4, <2>1, <2>2, <2>3
  <2>5. u.state[handle[p]] = tb.state[handle[p]] /\ u.val[handle[p]] = tb.val[handle[p]]
    BY <1>3, <1>4, <1>5, <1>6, <2>1, <2>3, <2>4
  <2> QED BY <1>2, <2>1, <2>5 DEF Kept, Rung
<1> QED
  BY <1>2, <1>3, <1>5, <1>7, <1>8 DEF Kept

\* An owner deletes its alarm.
LEMMA DeletesClock ==
  ASSUME TypeOK, Owned(tb, handle), Sleeps(tb, elapsed), at \notin {"age", "ring"},
         NEW o \in Owners, Holds(o, DelAlarm(tb, handle[o]), TIMER_NONE)
  PROVE  /\ Sleeps(tb', elapsed) /\ tb'.total = tb.total
         /\ \A p \in Owners : Kept(p)
<1> DEFINE t == DelAlarm(tb, handle[o])
<1>1. /\ tb \in Table /\ handle \in [Owners -> Rows \cup {TIMER_NONE}] /\ elapsed \in Nat
      /\ due \in [Owners -> Int] /\ handle[o] \in Rows \cup {TIMER_NONE}
      /\ TIMER_NONE \notin Rows
  BY DEF TypeOK, TIMER_NONE, Rows
<1>2. /\ tb' = t /\ handle' = [handle EXCEPT ![o] = TIMER_NONE]
      /\ due' = [due EXCEPT ![o] = 0]
  BY DEF Holds
<1>3. /\ t \in Table /\ Sleeps(t, elapsed) /\ t.total = tb.total /\ t.val = tb.val
      /\ \A q \in Rows : t.state[q] = IF q = handle[o] THEN "free" ELSE tb.state[q]
  BY <1>1, DelAlarmFacts, DelAlarmClock
<1> HIDE DEF t
<1>4. ASSUME NEW p \in Owners, Set(p)' PROVE Kept(p)
  <2>1. handle'[p] = handle[p] /\ due'[p] = due[p] /\ handle[p] \in Rows /\ p # o
    BY <1>1, <1>2, <1>4 DEF Set
  <2>2. tb.owner[handle[p]] = p
    BY <1>1, <2>1 DEF Owned
  <2>3. handle[p] # handle[o]
    BY <1>1, <2>1, <2>2 DEF Owned
  <2> QED BY <1>2, <1>3, <2>1, <2>3 DEF Kept, Rung
<1> QED
  BY <1>2, <1>3, <1>4 DEF Kept

\* The clock in a step of RPDO or MAIN.
LEMMA TaskClock ==
  ASSUME TypeOK, TypeOK', Inv, RowsInv, ClockInv, ~Preempt,
         \/ \E c \in Consumers : Heartbeat(c)
         \/ \E l \in Lines : Answer(l) \/ Finish(l) \/ Find(l)
         \/ Start \/ StopSync \/ StartTimerLoop \/ Store
  PROVE  ClockInv'
<1>0. /\ tb \in Table /\ handle \in [Owners -> Rows \cup {TIMER_NONE}] /\ elapsed \in Nat
      /\ Consumers \subseteq Owners /\ Lines \subseteq Owners /\ Sync \in Owners
      /\ main \in [row : Rows, line : Lines] \cup {Nobody} /\ due \in [Owners -> Int]
      /\ TIMER_NONE \notin Rows
  BY DEF TypeOK, Owners, Rows, TIMER_NONE
<1>1. SleepInv /\ AlarmInv /\ OverInv /\ UserInv
  BY DEF ClockInv, RowsInv
<1>2. ASSUME at \notin {"age", "ring"}
      PROVE  Sleeps(tb, elapsed) /\ Owned(tb, handle)
  BY <1>1, <1>2, OwnedFacts DEF SleepInv
<1>3. ASSUME NEW o \in Owners, Renews(o), Outside, UNCHANGED <<elapsed, at, row, main>>
      PROVE  ClockInv'
  <2>1. at \in {"boot", "out"} /\ main = Nobody
    BY <1>3 DEF Outside
  <2>2. /\ Sleeps(tb', elapsed) /\ (tb'.total = tb.total \/ tb'.total >= elapsed)
        /\ New(o) /\ \A p \in Owners \ {o} : Kept(p)
    BY <1>2, <1>3, <2>1, RenewsClock
  <2>3. SleepInv'
    BY <1>3, <2>1, <2>2 DEF SleepInv
  <2>4. \A p \in {o} : New(p)
    BY <2>2
  <2>5. AlarmInv' /\ OverInv'
    <3>1. {o} \in SUBSET Owners
      OBVIOUS
    <3> QED BY <1>1, <1>3, <2>1, <2>2, <2>4, <3>1, AlarmsKept
  <2> QED BY <2>3, <2>5 DEF ClockInv
<1>4. ASSUME Sleeps(tb', elapsed), UNCHANGED elapsed, at' \in {"boot", "out"}, main' = Nobody,
             at \in {"boot", "out"}, at' = "boot" => at = "boot",
             tb'.total = tb.total \/ tb'.total >= elapsed,
             \A p \in Owners : Kept(p)
      PROVE  ClockInv'
  <2>1. SleepInv'
    BY <1>4 DEF SleepInv
  <2>2. AlarmInv' /\ OverInv'
    <3>1. \A p \in Owners \ {} : Kept(p)
      BY <1>4
    <3>2. \A p \in {} : New(p)
      OBVIOUS
    <3>3. {} \in SUBSET Owners /\ at # "age" /\ at' \notin {"age", "ring"}
          /\ (at' \in {"off", "boot"} => at \in {"off", "boot"})
      BY <1>4
    <3> QED BY <1>1, <1>4, <3>1, <3>2, <3>3, AlarmsKept
  <2> QED BY <2>1, <2>2 DEF ClockInv
<1>5. ASSUME NEW o \in Owners, Holds(o, DelAlarm(tb, handle[o]), TIMER_NONE), Outside,
             UNCHANGED <<elapsed, at, row, main>>
      PROVE  ClockInv'
  <2>1. at \in {"boot", "out"} /\ main = Nobody
    BY <1>5 DEF Outside
  <2>2. Sleeps(tb', elapsed) /\ tb'.total = tb.total /\ \A p \in Owners : Kept(p)
    BY <1>2, <1>5, <2>1, DeletesClock
  <2> QED BY <1>4, <1>5, <2>1, <2>2
<1>6. CASE \E c \in Consumers : Heartbeat(c)
  BY <1>0, <1>3, <1>6 DEF Heartbeat, Rpdo, timer
<1>7. CASE \E l \in Lines : Answer(l)
  BY <1>0, <1>3, <1>7 DEF Answer, Rpdo, timer
<1>8. CASE \E l \in Lines : Finish(l)
  BY <1>0, <1>5, <1>8 DEF Finish, Rpdo, timer
<1>9. CASE StopSync
  BY <1>0, <1>5, <1>9 DEF StopSync, Main, timer
<1>10. CASE StartTimerLoop
  <2>1. /\ UNCHANGED <<tb, elapsed, handle, main, due>> /\ at = "boot" /\ at' = "out"
        /\ main = Nobody
    BY <1>10 DEF StartTimerLoop, Outside
  <2>2. \A p \in Owners : Kept(p)
    BY <2>1 DEF Kept, Set, Rung
  <2>3. Sleeps(tb', elapsed)
    BY <1>2, <2>1
  <2> QED BY <1>4, <2>1, <2>2, <2>3
<1>11. ASSUME NEW l \in Lines, Find(l) PROVE ClockInv'
  <2> DEFINE r == RowFor(tb)
             u == Found(tb, r, Value[l])
  <2>1. /\ UNCHANGED <<elapsed, at, row, handle, due>> /\ Outside
        /\ IF r = TIMER_NONE THEN UNCHANGED <<tb, main>>
           ELSE tb' = u /\ main' = [row |-> r, line |-> l]
    BY <1>11 DEF Find, Main, timer
  <2>2. r \in Rows \cup {TIMER_NONE} /\ l \in Owners
    BY <1>0, RowTyped
  <2>3. at \in {"boot", "out"} /\ main = Nobody
    BY <2>1 DEF Outside
  <2>4. Sleeps(tb, elapsed)
    BY <1>2, <2>3
  <2>5. r # TIMER_NONE => /\ u.state = tb.state /\ u.val = tb.val
                          /\ u.total \in 1..Never /\ Awake(u, elapsed)
                          /\ u.total = tb.total \/ u.total >= elapsed
    <3> HIDE DEF r
    <3>1. Value[l] \in Nat
      BY <2>2
    <3> QED BY <1>0, <2>2, <2>4, <3>1, FoundFacts, FoundClock, SMTT(30)
  <2> HIDE DEF r, u
  <2>6. /\ tb'.state = tb.state /\ tb'.val = tb.val
        /\ Sleeps(tb', elapsed) /\ (main' # Nobody => Awake(tb', elapsed))
        /\ tb'.total = tb.total \/ tb'.total >= elapsed
    BY <2>1, <2>3, <2>4, <2>5 DEF Sleeps
  <2>7. SleepInv'
    BY <2>1, <2>3, <2>6 DEF SleepInv
  <2>8. AlarmInv' /\ OverInv'
    <3>1. \A p \in Owners \ {} : Kept(p)
      BY <2>1, <2>3, <2>6 DEF Kept, Set, Rung
    <3>2. \A p \in {} : New(p)
      OBVIOUS
    <3>3. {} \in SUBSET Owners /\ at # "age" /\ at' \notin {"age", "ring"}
          /\ (at' \in {"off", "boot"} => at \in {"off", "boot"})
      BY <2>1, <2>3
    <3> QED BY <1>1, <2>1, <2>6, <3>1, <3>2, <3>3, AlarmsKept
  <2> QED BY <2>7, <2>8 DEF ClockInv
<1>12. CASE Start
  <2> DEFINE r == RowFor(tb)
             u == SetAlarm(tb, Sync)
  <2>1. /\ tb' = u /\ handle' = [handle EXCEPT ![Sync] = r]
        /\ due' = [due EXCEPT ![Sync] = IF r = TIMER_NONE THEN 0 ELSE Value[Sync]]
        /\ at = "off" /\ at' = "boot" /\ UNCHANGED <<elapsed, main>>
    BY <1>12 DEF Start, Holds
  <2>2. Sleeps(tb, elapsed)
    BY <1>2, <2>1
  <2>3. /\ Sleeps(u, elapsed) /\ (u.total = tb.total \/ u.total >= elapsed)
        /\ r # TIMER_NONE => u.val[r] = Value[Sync] + elapsed
    BY <1>0, <2>2, SetAlarmClock
  <2>4. r # TIMER_NONE => r \in Rows /\ u.state = [tb.state EXCEPT ![r] = "armed"]
    BY <1>0, SetAlarmFacts
  <2> HIDE DEF r, u
  <2>5. New(Sync)
    BY <1>0, <2>1, <2>3, <2>4 DEF New, Set, Table
  <2>6. \A p \in Owners \ {Sync} : Kept(p)
    BY <1>0, <1>1, <2>1 DEF UserInv, Kept, Set
  <2>7. main = Nobody
    BY <2>1 DEF Inv, MainInv
  <2>8. SleepInv'
    BY <2>1, <2>3, <2>7 DEF SleepInv
  <2>9. AlarmInv' /\ OverInv'
    <3>1. {Sync} \in SUBSET Owners /\ \A p \in {Sync} : New(p)
      BY <1>0, <2>5
    <3> QED BY <1>1, <2>1, <2>3, <2>6, <3>1, AlarmsKept
  <2> QED BY <2>8, <2>9 DEF ClockInv
<1>13. CASE Store
  <2>1. PICK r \in Rows, l \in Lines : r = main.row /\ l = main.line
    BY <1>0, <1>13 DEF Store
  <2> DEFINE u == Stored(tb, r, l)
  <2>2. /\ main # Nobody /\ main' = Nobody /\ UNCHANGED <<elapsed, at>>
        /\ at \in {"boot", "out"} /\ l \in Owners
        /\ tb' = u /\ handle' = [handle EXCEPT ![l] = r]
        /\ due' = [due EXCEPT ![l] = Value[l]]
    BY <1>0, <1>13, <2>1 DEF Store, Main, timer, Holds
  <2>3. Sleeps(tb, elapsed) /\ Awake(tb, elapsed) /\ Owned(tb, handle) /\ tb.state[r] = "free"
    BY <1>1, <1>2, <2>1, <2>2 DEF SleepInv, Inv, MainInv
  <2>4. /\ u.total = tb.total /\ u.next = tb.next
        /\ u.val = [tb.val EXCEPT ![r] = Value[l] + elapsed]
        /\ u.state = [tb.state EXCEPT ![r] = "armed"]
    <3>1. tb \in Table /\ r \in Rows /\ l \in Owners
      BY <1>0, <2>2
    <3>2. /\ u.total = tb.total /\ u.next = tb.next
          /\ u.val = [tb.val EXCEPT ![r] = Value[l] + elapsed]
      BY <3>1, StoredClock
    <3> QED BY <1>0, <3>1, <3>2, StoredFacts
  <2> HIDE DEF u
  <2>5. Sleeps(tb', elapsed)
    BY <2>2, <2>3, <2>4 DEF Sleeps, Awake
  <2>6. \A p \in {l} : New(p)
    BY <1>0, <2>2, <2>4 DEF New, Set, Table
  <2>7. ASSUME NEW p \in Owners \ {l}, Set(p)' PROVE Kept(p)
    <3>1. handle'[p] = handle[p] /\ due'[p] = due[p] /\ handle[p] \in Rows
      BY <1>0, <2>2, <2>7 DEF Set
    <3>2. handle[p] # r
      BY <1>0, <2>3, <3>1 DEF Owned
    <3> QED BY <1>0, <2>2, <2>4, <3>1, <3>2 DEF Kept, Rung, Table
  <2>8. SleepInv'
    BY <2>2, <2>5 DEF SleepInv
  <2>9. AlarmInv' /\ OverInv'
    <3>1. {l} \in SUBSET Owners /\ \A p \in Owners \ {l} : Kept(p)
      BY <2>2, <2>7 DEF Kept
    <3> QED BY <1>1, <2>2, <2>4, <2>6, <3>1, AlarmsKept
  <2> QED BY <2>8, <2>9 DEF ClockInv
<1> QED
  BY <1>6, <1>7, <1>8, <1>9, <1>10, <1>11, <1>12, <1>13

\* The first run of the dispatch: the alarms that are past are marked, the others
\* are aged by the sleep, and the next sleep is as long as the soonest.
LEMMA AgedClock ==
  ASSUME TypeOK, Timed(tb, 0), elapsed = 0, tb.total \in 1..Never,
         \A r \in Rows : tb.state[r] \in {"free", "armed"},
         \A r \in Rows : tb.state[r] = "armed" => tb.val[r] - tb.total <= Never
  PROVE  /\ \A r \in Rows : tb.state[r] = "armed" =>
              IF tb.val[r] = tb.total
              THEN IF tb.owner[r] = Sync
                   THEN Aged.state[r] = "trig_period" /\ Aged.val[r] = Value[Sync]
                   ELSE Aged.state[r] = "trig"
              ELSE Aged.state[r] = "armed" /\ Aged.val[r] = tb.val[r] - tb.total
         /\ Sleeps(Aged, 0)
<1> DEFINE real == (tb.total + elapsed) % (Never + 1)
           past(r) == Active(r) /\ tb.val[r] <= real
           once(r) == past(r) /\ tb.owner[r] # Sync
           val == [r \in Rows |->
                     IF ~Active(r) \/ once(r) THEN tb.val[r]
                     ELSE IF past(r) THEN Value[Sync] - (elapsed % Value[Sync])
                     ELSE tb.val[r] - real]
           kept == {q \in Rows : Active(q) /\ ~once(q)}
           left == {val[r] : r \in kept}
           state == [r \in Rows |-> IF once(r) THEN "trig"
                       ELSE IF past(r) THEN "trig_period" ELSE tb.state[r]]
           total == IF left = {} THEN Never ELSE Least(left)
           next == IF left = {} THEN -1 ELSE Least(left)
<1>1. /\ tb.total \in Int /\ tb.val \in [Rows -> Int] /\ tb.last \in -1..(N - 1)
      /\ tb.state \in [Rows -> {"free", "armed", "trig", "trig_period"}]
      /\ tb.owner \in [Rows -> Owners] /\ tb \in Table
  BY DEF TypeOK, Table
<1>2. Aged = [tb EXCEPT !.val = val, !.state = state, !.total = total, !.next = next]
  BY <1>1 DEF Aged
<1>3. /\ Aged.state = state /\ Aged.val = val
      /\ Aged.total = total /\ Aged.next = next
  <2> HIDE DEF val, state, total, next
  <2> QED BY <1>1, <1>2 DEF Table
<1>4. real = tb.total
  <2>1. tb.total + elapsed = tb.total
    BY <1>1
  <2>2. \A m, n \in Nat : n <= m => n % (m + 1) = n
    OBVIOUS
  <2> QED BY <2>1, <2>2
<1>5. Value[Sync] - (elapsed % Value[Sync]) = Value[Sync]
  <2>1. \A n \in Nat \ {0} : n - (0 % n) = n
    OBVIOUS
  <2>2. Value[Sync] \in Nat \ {0}
    BY DEF Owners
  <2> QED BY <2>1, <2>2
<1>6. \A r \in Rows : /\ Active(r) <=> tb.state[r] = "armed"
                      /\ tb.state[r] = "armed" => tb.total <= tb.val[r]
  BY DEF Active, Timed
<1>7. \A r \in Rows : past(r) <=> tb.state[r] = "armed" /\ tb.val[r] = tb.total
  BY <1>1, <1>4, <1>6
<1> HIDE DEF real, past
<1>8. \A r \in Rows : tb.state[r] = "armed" =>
        IF tb.val[r] = tb.total
        THEN IF tb.owner[r] = Sync
             THEN state[r] = "trig_period" /\ val[r] = Value[Sync]
             ELSE state[r] = "trig"
        ELSE state[r] = "armed" /\ val[r] = tb.val[r] - tb.total
  BY <1>1, <1>4, <1>5, <1>6, <1>7
<1>9. \A r \in kept : val[r] \in 1..Never
  <2> SUFFICES ASSUME NEW r \in kept PROVE val[r] \in 1..Never
    OBVIOUS
  <2>1. r \in Rows /\ tb.state[r] = "armed" /\ (tb.val[r] = tb.total => tb.owner[r] = Sync)
    BY <1>6, <1>7
  <2>2. tb.val[r] \in Int /\ tb.total <= tb.val[r] /\ tb.val[r] - tb.total <= Never
    BY <1>1, <1>6, <2>1
  <2>3. val[r] = IF tb.val[r] = tb.total THEN Value[Sync] ELSE tb.val[r] - tb.total
    BY <1>8, <2>1
  <2>4. Value[Sync] \in 1..Never
    <3>1. Value[Sync] \in Nat \ {0} /\ Value[Sync] + Boot + Lag < Never
      BY NeverAssumption DEF Owners
    <3> QED BY <3>1
  <2> HIDE DEF val, kept
  <2> QED BY <1>1, <2>2, <2>3, <2>4
<1>10. \A r \in Rows : state[r] \in {"armed", "trig_period"} => r \in kept
  BY <1>1, <1>6, <1>7
<1> HIDE DEF val, state, kept
<1>11. Never \in Nat /\ Never >= 1 /\ Boot + Lag \in Nat
  <2>1. Value[Sync] \in Nat \ {0} /\ Value[Sync] + Boot + Lag < Never
    BY NeverAssumption DEF Owners
  <2> QED BY <2>1
<1>12. Sleeps(Aged, 0)
  <2>1. CASE left = {}
    <3>1. kept = {}
      BY <2>1
    <3>2. Running(Aged) = {}
      BY <1>3, <1>10, <3>1 DEF Running
    <3>3. Asleep(Aged, 0)
      BY <1>3, <1>11, <2>1, <3>2 DEF Asleep
    <3> QED BY <1>3, <1>11, <2>1, <3>3 DEF Sleeps
  <2>2. CASE left # {}
    <3>1. left \subseteq 1..Never /\ left \subseteq Nat
      BY <1>9
    <3> HIDE DEF left
    <3>2. Least(left) \in 1..Never
      BY <2>2, <3>1, LeastIn
    <3> QED BY <1>3, <2>2, <3>2 DEF Sleeps, Awake
  <2> QED BY <2>1, <2>2
<1> QED
  BY <1>3, <1>8, <1>12

\* A poll ends the sleep: an alarm has lost what the poll was late by.
LEMMA PollClock ==
  ASSUME TypeOK, Inv, RowsInv, ClockInv, ~Preempt, Poll
  PROVE  ClockInv'
<1>0. /\ elapsed \in Nat /\ Lag \in Nat /\ Boot \in Nat /\ Never \in Nat
      /\ handle \in [Owners -> Rows \cup {TIMER_NONE}] /\ due \in [Owners -> Int]
      /\ tb.val \in [Rows -> Int] /\ tb.total \in Int /\ tb.next \in Int
      /\ tb.state \in [Rows -> {"free", "armed", "trig", "trig_period"}]
      /\ Value \in [Owners -> Nat \ {0}]
  BY DEF TypeOK, Table
<1>1. /\ UNCHANGED <<tb, handle, due, main>> /\ main = Nobody
      /\ at = "out" /\ tb.next <= 0 /\ elapsed' = 0 /\ at' = "age"
  BY DEF Poll
<1>2. SleepInv /\ AlarmInv /\ OverInv /\ TrigInv
  BY DEF ClockInv, RowsInv
<1>3. Sleeps(tb, elapsed) /\ tb.total \in 1..Never
  BY <1>1, <1>2 DEF SleepInv, Sleeps
<1>4. SleepInv'
  BY <1>1, <1>3 DEF SleepInv
<1>5. OverInv'
  BY <1>0, <1>1, <1>3 DEF OverInv
<1>6. ASSUME NEW o \in Owners, Set(o) PROVE AlarmOk(o)'
  <2> DEFINE v == tb.val[handle[o]]
  <2>1. handle[o] \in Rows /\ ~Rung(o)
    BY <1>0, <1>1, <1>6 DEF Set, Rung
  <2>2. tb.state[handle[o]] = "armed"
    <3>1. tb.state[handle[o]] # "free"
      BY <1>6, <2>1 DEF Inv, OwnHandle
    <3> QED BY <1>0, <1>1, <1>2, <2>1, <3>1 DEF TrigInv
  <2>3. Awake(tb, elapsed)
    <3>1. Running(tb) # {}
      BY <2>1, <2>2 DEF Running
    <3> QED BY <1>3, <3>1 DEF Sleeps, Asleep
  <2>4. tb.total <= elapsed
    BY <1>0, <1>1, <2>3 DEF Awake
  <2>5. Fresh(o) \/ Behind(o, v, elapsed)
    BY <1>1, <1>2, <1>6, <2>1, <2>2 DEF AlarmInv, AlarmOk
  <2>6. elapsed <= tb.total + Lag \/ (elapsed <= Boot /\ Fresh(o))
    BY <1>2, <1>6 DEF OverInv
  <2>7. v \in Int /\ due[o] \in Int /\ Most(o) \in Int /\ Value[o] \in Nat
        /\ Most(o) = Value[o] + Boot + Lag + 1
    BY <1>0, <2>1 DEF Most
  <2>8. Behind(o, v - tb.total, 0)
    <3>1. CASE Fresh(o)
      <4>1. due[o] = v - elapsed /\ due[o] <= Value[o]
        BY <3>1 DEF Fresh
      <4>2. /\ v - tb.total <= Most(o) - 1
            /\ due[o] <= v - tb.total - 0
            /\ due[o] >= v - tb.total - 0 - Boot - Lag
        <5> HIDE DEF v
        <5> QED BY <1>0, <1>3, <2>4, <2>6, <2>7, <4>1
      <4>3. Lag * 1 = Lag
        BY <1>0
      <4> QED BY <4>2, <4>3 DEF Behind
    <3>2. CASE ~Fresh(o)
      <4>1. PICK k \in Nat \ {0} : /\ v <= Most(o) - k
                                   /\ due[o] <= v - elapsed
                                   /\ due[o] >= v - elapsed - Boot - Lag * k
        BY <2>5, <3>2 DEF Behind
      <4>2. Lag * k \in Nat /\ Lag * (k + 1) = Lag * k + Lag
        BY LagTimes
      <4>3. /\ v - tb.total <= Most(o) - (k + 1)
            /\ due[o] <= v - tb.total - 0
            /\ due[o] >= v - tb.total - 0 - Boot - Lag * (k + 1)
        <5> DEFINE x == Lag * k
                   y == Lag * (k + 1)
        <5>1. x \in Nat /\ y = x + Lag /\ due[o] >= v - elapsed - Boot - x
          BY <4>1, <4>2
        <5> HIDE DEF v, x, y
        <5>2. /\ v - tb.total <= Most(o) - (k + 1)
              /\ due[o] <= v - tb.total - 0
              /\ due[o] >= v - tb.total - 0 - Boot - y
          BY <1>0, <1>3, <2>4, <2>6, <2>7, <3>2, <4>1, <5>1
        <5> QED BY <5>2 DEF y
      <4>4. k + 1 \in Nat \ {0}
        OBVIOUS
      <4> QED BY <4>3, <4>4 DEF Behind
    <3> QED BY <3>1, <3>2
  <2>9. Behind(o, v - tb.total, 0)'
    BY <1>1, <2>8 DEF Behind
  <2> QED BY <1>1, <2>2, <2>9 DEF AlarmOk, Rung
<1>7. AlarmInv'
  BY <1>1, <1>6 DEF AlarmInv, AlarmOk, Set
<1> QED
  BY <1>4, <1>5, <1>7 DEF ClockInv

\* The dispatch ages the alarms by the sleep.
LEMMA AgeClock ==
  ASSUME TypeOK, Inv, RowsInv, ClockInv, Age
  PROVE  ClockInv'
<1>0. /\ elapsed \in Nat /\ Lag \in Nat /\ Boot \in Nat /\ Never \in Nat
      /\ handle \in [Owners -> Rows \cup {TIMER_NONE}] /\ due \in [Owners -> Int]
      /\ tb.val \in [Rows -> Int] /\ tb.total \in Int /\ tb.next \in Int
      /\ tb.state \in [Rows -> {"free", "armed", "trig", "trig_period"}]
      /\ tb.owner \in [Rows -> Owners] /\ tb \in Table
      /\ Value \in [Owners -> Nat \ {0}]
  BY DEF TypeOK, Table
<1>1. /\ tb' = Aged /\ UNCHANGED <<elapsed, handle, due, main>> /\ elapsed = 0
      /\ at = "age" /\ at' = "trig"
  BY DEF Age, Inv, DispatchInv
<1>2. SleepInv /\ AlarmInv /\ TrigInv /\ Backed(tb, handle) /\ Timed(tb, 0)
  BY <1>1 DEF ClockInv, RowsInv, Inv
<1>3. tb.total \in 1..Never /\ main = Nobody
  BY <1>1, <1>2 DEF SleepInv, Inv, MainInv
<1>4. \A r \in Rows : tb.state[r] \in {"free", "armed"}
  BY <1>0, <1>1, <1>2 DEF TrigInv
<1>5. ASSUME NEW o \in Owners, Set(o)
      PROVE  /\ handle[o] \in Rows /\ tb.state[handle[o]] = "armed"
             /\ tb.owner[handle[o]] = o
             /\ Behind(o, tb.val[handle[o]] - tb.total, 0)
  <2>1. handle[o] \in Rows /\ ~Rung(o)
    BY <1>0, <1>1, <1>5 DEF Set, Rung
  <2>2. tb.state[handle[o]] = "armed" /\ tb.owner[handle[o]] = o
    BY <1>4, <1>5, <2>1 DEF Inv, OwnHandle
  <2> QED BY <1>1, <1>2, <1>5, <2>1, <2>2 DEF AlarmInv, AlarmOk
<1>6. \A r \in Rows : tb.state[r] = "armed" => tb.val[r] - tb.total <= Never
  <2> SUFFICES ASSUME NEW r \in Rows, tb.state[r] = "armed"
               PROVE  tb.val[r] - tb.total <= Never
    OBVIOUS
  <2>1. PICK o \in Owners : o = tb.owner[r]
    BY <1>0
  <2>2. handle[o] = r /\ Set(o)
    BY <1>2, <2>1 DEF Backed, Set, TIMER_NONE, Rows
  <2>3. PICK k \in Nat \ {0} : tb.val[r] - tb.total <= Most(o) - k
    BY <1>5, <2>2 DEF Behind
  <2>4. tb.val[r] \in Int /\ Value[o] \in Nat /\ Most(o) = Value[o] + Boot + Lag + 1
        /\ Value[o] + Boot + Lag < Never
    BY <1>0, NeverAssumption DEF Most
  <2> QED BY <1>0, <2>3, <2>4
<1>7. /\ \A r \in Rows : tb.state[r] = "armed" =>
              IF tb.val[r] = tb.total
              THEN IF tb.owner[r] = Sync
                   THEN Aged.state[r] = "trig_period" /\ Aged.val[r] = Value[Sync]
                   ELSE Aged.state[r] = "trig"
              ELSE Aged.state[r] = "armed" /\ Aged.val[r] = tb.val[r] - tb.total
      /\ Sleeps(Aged, 0)
  BY <1>1, <1>2, <1>3, <1>4, <1>6, AgedClock
<1>8. SleepInv'
  BY <1>1, <1>3, <1>7 DEF SleepInv
<1>9. OverInv'
  <2>1. Aged.total \in 1..Never
    BY <1>7 DEF Sleeps
  <2> QED BY <1>0, <1>1, <2>1 DEF OverInv
<1>10. ASSUME NEW o \in Owners, Set(o) PROVE AlarmOk(o)'
  <2> DEFINE r == handle[o]
             v == tb.val[r] - tb.total
  <2>1. r \in Rows /\ tb.state[r] = "armed" /\ tb.owner[r] = o /\ Behind(o, v, 0)
    BY <1>5, <1>10
  <2>2. ~Rung(o)' /\ handle'[o] = r
    BY <1>1 DEF Rung
  <2>3. CASE v = 0
    <3>1. tb.val[r] = tb.total
      BY <1>0, <2>1, <2>3
    <3>2. Aged.state[r] # "armed" /\ (o = Sync => Aged.val[r] = Value[o])
      BY <1>7, <2>1, <3>1
    <3>3. due[o] <= 0 /\ due[o] >= -(Boot + Lag * Most(o))
      <4>1. PICK k \in Nat \ {0} : /\ v <= Most(o) - k
                                   /\ due[o] <= v - 0
                                   /\ due[o] >= v - 0 - Boot - Lag * k
        BY <2>1 DEF Behind
      <4>2. Most(o) \in Nat
        BY <1>0 DEF Most
      <4>3. k <= Most(o)
        BY <2>3, <4>1, <4>2
      <4>4. Lag * k <= Lag * Most(o) /\ Lag * k \in Nat /\ Lag * Most(o) \in Nat
        BY <4>2, <4>3, LagTimes
      <4>5. due[o] \in Int
        BY <1>0
      <4> DEFINE x == Lag * k
                 y == Lag * Most(o)
      <4> HIDE DEF x, y, v
      <4>6. due[o] <= 0 /\ due[o] >= 0 - Boot - x /\ x <= y /\ x \in Nat /\ y \in Nat
        BY <2>3, <4>1, <4>4 DEF x, y
      <4>7. due[o] <= 0 /\ due[o] >= -(Boot + y)
        BY <1>0, <4>5, <4>6
      <4> QED BY <4>7 DEF y
    <3>4. Pending(o)'
      BY <1>1, <2>2, <3>2, <3>3 DEF Pending, Most
    <3> QED BY <1>1, <2>2, <3>2, <3>4 DEF AlarmOk
  <2>4. CASE v # 0
    <3>1. tb.val[r] # tb.total
      BY <1>0, <2>1, <2>4
    <3>2. Aged.state[r] = "armed" /\ Aged.val[r] = v
      BY <1>7, <2>1, <3>1
    <3>3. Behind(o, tb.val[handle[o]], elapsed)'
      <4>1. tb'.val[handle'[o]] = v /\ elapsed' = 0 /\ due' = due
        BY <1>1, <2>2, <3>2
      <4> HIDE DEF v
      <4> QED BY <2>1, <4>1 DEF Behind, Most
    <3> QED BY <1>1, <2>2, <3>2, <3>3 DEF AlarmOk
  <2> QED BY <2>3, <2>4
<1>11. AlarmInv'
  BY <1>1, <1>10 DEF AlarmInv, AlarmOk, Set
<1> QED
  BY <1>8, <1>9, <1>11 DEF ClockInv

\* The dispatch goes on to the next alarm that is due, or ends.
LEMMA DispatchClock ==
  ASSUME TypeOK, TypeOK', Inv, RowsInv, ClockInv, Release \/ Return
  PROVE  ClockInv'
<1>0. /\ elapsed \in Nat /\ Lag \in Nat
      /\ handle \in [Owners -> Rows \cup {TIMER_NONE}] /\ due \in [Owners -> Int]
      /\ tb.state \in [Rows -> {"free", "armed", "trig", "trig_period"}]
      /\ tb.owner \in [Rows -> Owners] /\ tb \in Table /\ tb.total \in Int
      /\ tb.last \in -1..(N - 1) /\ row \in 0..N
  BY DEF TypeOK, Table
<1>1. SleepInv /\ AlarmInv /\ OverInv /\ TrigInv /\ Backed(tb, handle)
  BY DEF ClockInv, RowsInv
<1>2. /\ at = "trig" /\ elapsed = 0 /\ UNCHANGED <<elapsed, handle, due, main>>
      /\ main = Nobody /\ Sleeps(tb, 0)
  BY <1>1 DEF Release, Return, Inv, DispatchInv, MainInv, SleepInv
<1>3. CASE Release
  <2> DEFINE r == Least(Triggered)
             v == IF tb.state[r] = "trig" THEN "free" ELSE "armed"
  <2>1. Triggered # {} /\ Triggered \subseteq Rows /\ Triggered \subseteq Nat
    BY <1>0, <1>3, TriggeredRows DEF Release
  <2>2. r \in Rows /\ tb.state[r] \in {"trig", "trig_period"}
    BY <2>1, LeastIn DEF Triggered
  <2>3. tb' = [tb EXCEPT !.state[r] = v] /\ row' = r /\ at' = "ring"
    BY <1>3 DEF Release
  <2> HIDE DEF r
  <2>4. /\ tb'.state = [tb.state EXCEPT ![r] = v] /\ tb'.owner = tb.owner
        /\ tb'.val = tb.val /\ tb'.total = tb.total /\ tb'.next = tb.next
    BY <1>0, <2>3 DEF Table
  <2>5. Running(tb) = {} => Running(tb') = {}
    BY <1>0, <2>2, <2>4 DEF Running
  <2>6. Sleeps(tb', 0)
    BY <1>2, <2>4, <2>5 DEF Sleeps, Awake, Asleep
  <2>7. SleepInv'
    BY <1>2, <2>3, <2>6 DEF SleepInv
  <2>8. OverInv'
    BY <1>0, <1>2, <2>3, <2>4, <2>6 DEF OverInv, Sleeps
  <2>9. ASSUME NEW o \in Owners, Set(o) PROVE AlarmOk(o)'
    <3>1. handle[o] \in Rows /\ handle'[o] = handle[o] /\ ~Rung(o)
      BY <1>0, <1>2, <2>9 DEF Set, Rung
    <3>2. CASE handle[o] = r
      <4>1. Pending(o)
        BY <1>1, <2>2, <2>9, <3>2 DEF AlarmInv, AlarmOk
      <4>2. Pending(o)'
        BY <1>2, <2>4, <4>1 DEF Pending, Most
      <4> QED BY <2>3, <3>1, <3>2, <4>2 DEF AlarmOk, Rung
    <3>3. CASE handle[o] # r
      <4>1. ~Rung(o)' /\ tb'.state[handle[o]] = tb.state[handle[o]]
        BY <1>0, <2>2, <2>3, <2>4, <3>1, <3>3 DEF Rung
      <4>2. AlarmOk(o)
        BY <1>1 DEF AlarmInv
      <4>3. /\ Pending(o) => Pending(o)'
            /\ Fresh(o) => Fresh(o)'
            /\ Behind(o, tb.val[handle[o]], elapsed) => Behind(o, tb.val[handle[o]], elapsed)'
        BY <1>2, <2>4 DEF Pending, Fresh, Behind, Most
      <4> QED BY <1>2, <2>3, <2>9, <3>1, <4>1, <4>2, <4>3 DEF AlarmOk
    <3> QED BY <3>2, <3>3
  <2>10. AlarmInv'
    BY <1>2, <2>9 DEF AlarmInv, AlarmOk, Set
  <2> QED BY <2>7, <2>8, <2>10 DEF ClockInv
<1>4. CASE Return
  <2>1. tb' = tb /\ at' = "out"
    BY <1>4 DEF Return
  <2>2. \A o \in Owners \ {} : Kept(o)
    BY <1>2, <2>1 DEF Kept, Set, Rung
  <2>3. \A o \in {} : New(o)
    OBVIOUS
  <2>4. AlarmInv' /\ OverInv'
    <3>1. {} \in SUBSET Owners
      OBVIOUS
    <3> QED BY <1>1, <1>2, <2>1, <2>2, <2>3, <3>1, AlarmsKept
  <2>5. SleepInv'
    BY <1>1, <1>2, <2>1 DEF SleepInv
  <2> QED BY <2>4, <2>5 DEF ClockInv
<1> QED
  BY <1>3, <1>4

\* An alarm rings.
LEMMA RingClock ==
  ASSUME TypeOK, TypeOK', Inv, RowsInv, ClockInv, RingSync \/ RingConsumer \/ RingLine
  PROVE  ClockInv'
<1>0. /\ elapsed \in Nat /\ Lag \in Nat
      /\ handle \in [Owners -> Rows \cup {TIMER_NONE}] /\ due \in [Owners -> Int]
      /\ tb.state \in [Rows -> {"free", "armed", "trig", "trig_period"}]
      /\ tb.owner \in [Rows -> Owners] /\ tb \in Table /\ tb.total \in Int
      /\ Consumers \subseteq Owners /\ Lines \subseteq Owners /\ Sync \in Owners
      /\ TIMER_NONE \notin Rows
  <2>1. /\ elapsed \in Nat /\ Lag \in Nat
        /\ handle \in [Owners -> Rows \cup {TIMER_NONE}] /\ due \in [Owners -> Int]
        /\ tb \in Table
    BY DEF TypeOK
  <2>2. /\ tb.state \in [Rows -> {"free", "armed", "trig", "trig_period"}]
        /\ tb.owner \in [Rows -> Owners] /\ tb.total \in Int
    BY <2>1 DEF Table
  <2>3. Consumers \subseteq Owners /\ Lines \subseteq Owners /\ Sync \in Owners
    BY DEF Owners
  <2>4. TIMER_NONE \notin Rows
    BY DEF TIMER_NONE, Rows
  <2> QED BY <2>1, <2>2, <2>3, <2>4
<1>1. SleepInv /\ AlarmInv /\ OverInv /\ TrigInv /\ UserInv
  BY DEF ClockInv, RowsInv
<1>2. at = "ring" /\ at' = "trig" /\ UNCHANGED <<elapsed, main>>
  BY DEF RingSync, RingConsumer, RingLine, Called
<1>3. elapsed = 0 /\ main = Nobody /\ Sleeps(tb, elapsed) /\ row \in Rows
  <2>1. row \in Rows
    BY <1>2 DEF TypeOK
  <2>2. elapsed = 0 /\ main = Nobody
    BY <1>2 DEF Inv, DispatchInv, MainInv
  <2>3. Sleeps(tb, elapsed)
    BY <1>1, <1>2, <2>2 DEF SleepInv
  <2> QED BY <2>1, <2>2, <2>3
<1> DEFINE l == tb.owner[row]
<1>4. l \in Owners /\ handle[l] = row
  BY <1>0, <1>1, <1>2, <1>3 DEF TrigInv
<1>5. \A p \in Owners \ {l} : Set(p) => handle[p] \in Rows /\ ~Rung(p)
                                        /\ tb.state[handle[p]] # "free"
  BY <1>0, <1>3, <1>4 DEF Inv, OwnHandle, Set, Rung
<1> HIDE DEF l
<1>6. ASSUME NEW S \in SUBSET Owners,
             \A o \in Owners \ S : Kept(o),
             \A o \in S : New(o),
             Sleeps(tb', elapsed),
             tb'.total = tb.total \/ tb'.total >= elapsed
      PROVE  ClockInv'
  <2>1. AlarmInv' /\ OverInv'
    BY <1>1, <1>2, <1>6, AlarmsKept
  <2>2. SleepInv'
    BY <1>2, <1>3, <1>6 DEF SleepInv
  <2> QED BY <2>1, <2>2 DEF ClockInv
<1>7. CASE RingSync
  <2>1. l = Sync /\ tb' = tb /\ handle' = handle /\ due' = [due EXCEPT ![Sync] = Value[Sync]]
    BY <1>7 DEF RingSync, l
  <2>2. Set(Sync) /\ Rung(Sync)
    BY <1>0, <1>2, <1>3, <1>4, <2>1 DEF Set, Rung
  <2>3. tb.state[row] = "armed"
    <3>1. tb.state[row] # "free"
      BY <1>2, <2>1 DEF Inv, DispatchInv, l
    <3>2. tb.state[row] \notin {"trig", "trig_period"}
      BY <1>1, <1>2, <1>3 DEF TrigInv, Rows
    <3> QED BY <1>0, <1>3, <3>1, <3>2
  <2>4. tb.val[row] = Value[Sync]
    BY <1>0, <1>1, <1>4, <2>1, <2>2 DEF AlarmInv, AlarmOk, Pending
  <2>5. \A o \in {Sync} : New(o)
    <3>1. Value[Sync] + elapsed = Value[Sync]
      BY <1>0, <1>3
    <3> QED BY <1>0, <1>4, <2>1, <2>3, <2>4, <3>1 DEF New
  <2>6. \A p \in Owners \ {Sync} : Kept(p)
    BY <1>0, <1>5, <2>1 DEF Kept, Set
  <2>7. {Sync} \in SUBSET Owners
    BY <1>0
  <2> QED BY <1>3, <1>6, <2>1, <2>5, <2>6, <2>7
<1>8. ASSUME Holds(l, tb, TIMER_NONE) PROVE ClockInv'
  <2>1. /\ tb' = tb /\ handle' = [handle EXCEPT ![l] = TIMER_NONE]
        /\ due' = [due EXCEPT ![l] = 0]
    BY <1>8 DEF Holds
  <2>2. ASSUME NEW p \in Owners, Set(p)' PROVE Kept(p)
    BY <1>0, <1>4, <1>5, <2>1, <2>2 DEF Kept, Set
  <2>3. \A p \in Owners \ {} : Kept(p)
    BY <2>2 DEF Kept
  <2>4. (\A p \in {} : New(p)) /\ {} \in SUBSET Owners
    OBVIOUS
  <2>5. Sleeps(tb', elapsed) /\ tb'.total = tb.total
    BY <1>3, <2>1
  <2> QED BY <1>6, <2>3, <2>4, <2>5
<1>9. CASE RingConsumer
  BY <1>8, <1>9 DEF RingConsumer, l
<1>10. ASSUME NEW k \in Lines \ (open \ {l}), tb' = SetAlarm(tb, k), l \in Lines,
              handle' = [handle EXCEPT ![l] = TIMER_NONE, ![k] = RowFor(tb)],
              due' = [due EXCEPT ![l] = 0,
                         ![k] = IF RowFor(tb) = TIMER_NONE THEN 0 ELSE Value[k]]
       PROVE  ClockInv'
  <2> DEFINE r == RowFor(tb)
             u == SetAlarm(tb, k)
  <2>1. k \in Owners
    BY <1>0
  <2>2. /\ r = TIMER_NONE => u = tb
        /\ r # TIMER_NONE => /\ r \in Rows /\ tb.state[r] = "free"
                             /\ u.state = [tb.state EXCEPT ![r] = "armed"]
    BY <1>0, <2>1, SetAlarmFacts
  <2>3. /\ Sleeps(u, elapsed) /\ (u.total = tb.total \/ u.total >= elapsed)
        /\ \A q \in Rows : q # r => u.val[q] = tb.val[q]
        /\ r # TIMER_NONE => u.val[r] = Value[k] + elapsed
    BY <1>0, <1>3, <2>1, SetAlarmClock
  <2>4. /\ tb' = u /\ handle'[k] = r
        /\ \A p \in Owners \ {k, l} : handle'[p] = handle[p] /\ due'[p] = due[p]
        /\ l # k => handle'[l] = TIMER_NONE
        /\ r # TIMER_NONE => due'[k] = Value[k]
    BY <1>0, <1>4, <1>10, <2>1
  <2> HIDE DEF r, u
  <2>5. New(k)
    BY <1>0, <2>2, <2>3, <2>4 DEF New, Set
  <2>6. ASSUME NEW p \in Owners \ {k}, Set(p)' PROVE Kept(p)
    <3>1. p # l /\ handle'[p] = handle[p] /\ due'[p] = due[p]
      BY <2>4, <2>6 DEF Set
    <3>2. Set(p) /\ handle[p] \in Rows /\ ~Rung(p) /\ tb.state[handle[p]] # "free"
      BY <1>5, <2>6, <3>1 DEF Set
    <3>3. handle[p] # r
      BY <1>0, <2>2, <3>2
    <3> QED BY <1>0, <2>2, <2>3, <2>4, <3>1, <3>2, <3>3 DEF Kept
  <2>7. (\A p \in {k} : New(p)) /\ {k} \in SUBSET Owners /\ \A p \in Owners \ {k} : Kept(p)
    BY <2>1, <2>5, <2>6 DEF Kept
  <2>8. Sleeps(tb', elapsed) /\ (tb'.total = tb.total \/ tb'.total >= elapsed)
    BY <2>3, <2>4
  <2> QED BY <1>6, <2>7, <2>8
<1>11. CASE RingLine
  BY <1>8, <1>10, <1>11 DEF RingLine, l
<1> QED
  BY <1>7, <1>9, <1>11

\* A tick passes.
LEMMA TickClock ==
  ASSUME TypeOK, Inv, RowsInv, ClockInv, ~Preempt, Tick
  PROVE  ClockInv'
<1>0. /\ elapsed \in Nat /\ Lag \in Nat /\ Boot \in Nat /\ Never \in Nat
      /\ handle \in [Owners -> Rows \cup {TIMER_NONE}] /\ due \in [Owners -> Int]
      /\ tb.state \in [Rows -> {"free", "armed", "trig", "trig_period"}]
      /\ tb.val \in [Rows -> Int] /\ tb \in Table /\ tb.total \in Int /\ tb.next \in Int
  BY DEF TypeOK, Table
<1>1. SleepInv /\ AlarmInv /\ OverInv /\ TrigInv
  BY DEF ClockInv, RowsInv
<1>2. /\ at \in {"boot", "out"} /\ main = Nobody /\ UNCHANGED <<handle, at, row, main>>
      /\ tb' = [tb EXCEPT !.next = @ - 1] /\ elapsed' = elapsed + 1
      /\ due' = [o \in Owners |-> IF handle[o] = TIMER_NONE THEN due[o] ELSE due[o] - 1]
      /\ at = "boot" => elapsed < Boot
      /\ at = "out" => tb.next > -Lag
  BY DEF Tick, Outside, timer
<1>3. /\ tb'.next = tb.next - 1 /\ tb'.state = tb.state /\ tb'.val = tb.val
      /\ tb'.total = tb.total
  BY <1>0, <1>2 DEF Table
<1>4. Sleeps(tb, elapsed)
  BY <1>1, <1>2 DEF SleepInv
<1>5. ASSUME NEW o \in Owners, Set(o)
      PROVE  AlarmOk(o)' /\ (Fresh(o) => Fresh(o)')
  <2>1. /\ handle[o] \in Rows /\ ~Rung(o) /\ ~Rung(o)' /\ due'[o] = due[o] - 1
        /\ handle'[o] = handle[o] /\ due[o] \in Int /\ Value[o] \in Nat
    BY <1>0, <1>2, <1>5 DEF Set, Rung
  <2>2. tb.state[handle[o]] = "armed"
    <3>1. tb.state[handle[o]] # "free"
      BY <1>5, <2>1 DEF Inv, OwnHandle
    <3> QED BY <1>0, <1>1, <1>2, <2>1, <3>1 DEF TrigInv
  <2>3. Fresh(o) \/ Behind(o, tb.val[handle[o]], elapsed)
    BY <1>1, <1>2, <1>5, <2>1, <2>2 DEF AlarmInv, AlarmOk
  <2>4. tb.val[handle[o]] \in Int
    BY <1>0, <2>1
  <2>5. Fresh(o) => Fresh(o)'
    BY <1>0, <1>2, <1>3, <2>1, <2>4 DEF Fresh
  <2>6. Behind(o, tb.val[handle[o]], elapsed) => Behind(o, tb.val[handle[o]], elapsed)'
    <3>1. ASSUME NEW k \in Nat \ {0}, tb.val[handle[o]] <= Most(o) - k,
                 due[o] <= tb.val[handle[o]] - elapsed,
                 due[o] >= tb.val[handle[o]] - elapsed - Boot - Lag * k
          PROVE  /\ due[o] - 1 <= tb.val[handle[o]] - (elapsed + 1)
                 /\ due[o] - 1 >= tb.val[handle[o]] - (elapsed + 1) - Boot - Lag * k
      <4>1. Lag * k \in Nat
        BY LagTimes
      <4> QED BY <1>0, <2>1, <2>4, <3>1, <4>1
    <3> QED BY <1>2, <1>3, <2>1, <3>1 DEF Behind, Most
  <2> QED BY <1>2, <1>3, <2>1, <2>2, <2>3, <2>5, <2>6 DEF AlarmOk
<1>6. AlarmInv'
  BY <1>2, <1>5 DEF AlarmInv, AlarmOk, Set
<1>7. Sleeps(tb', elapsed')
  <2>1. CASE Awake(tb, elapsed)
    BY <1>0, <1>2, <1>3, <1>4, <2>1 DEF Sleeps, Awake
  <2>2. CASE Asleep(tb, elapsed)
    <3>1. elapsed + 1 <= Boot + Lag /\ elapsed + 1 <= -(tb.next - 1)
      BY <1>0, <1>2, <2>2 DEF Asleep
    <3>2. Running(tb') = Running(tb)
      BY <1>3 DEF Running
    <3> QED BY <1>2, <1>3, <1>4, <2>2, <3>1, <3>2 DEF Sleeps, Asleep
  <2> QED BY <1>4, <2>1, <2>2 DEF Sleeps
<1>8. SleepInv'
  BY <1>2, <1>7 DEF SleepInv
<1> DEFINE first == elapsed <= Boot /\ \A o \in Owners : Set(o) => Fresh(o)
<1>9. (elapsed <= tb.total + Lag \/ first) /\ (at \in {"off", "boot"} => first)
  BY <1>1 DEF OverInv
<1>10. at = "boot" => first'
  <2>1. \A o \in Owners : Set(o)' => Set(o)
    BY <1>2 DEF Set
  <2> QED BY <1>0, <1>2, <1>5, <1>9, <2>1
<1>11. at = "out" => elapsed' <= tb'.total + Lag
  <2>1. CASE Awake(tb, elapsed)
    BY <1>0, <1>2, <1>3, <2>1 DEF Awake
  <2>2. CASE Asleep(tb, elapsed)
    BY <1>0, <1>2, <1>3, <1>4, <2>2 DEF Asleep, Sleeps
  <2> QED BY <1>4, <2>1, <2>2 DEF Sleeps
<1>12. OverInv'
  <2> HIDE DEF first
  <2>1. elapsed' <= tb'.total + Lag \/ first'
    BY <1>2, <1>10, <1>11
  <2>2. (at \in {"off", "boot"})' => first'
    BY <1>2, <1>10
  <2> QED BY <2>1, <2>2 DEF OverInv, first
<1> QED
  BY <1>6, <1>8, <1>12 DEF ClockInv

LEMMA LateInit == Init => RowsInv /\ ClockInv
<1> SUFFICES ASSUME Init PROVE RowsInv /\ ClockInv
  OBVIOUS
<1>1. /\ tb.state = [r \in Rows |-> "free"] /\ tb.total = Never /\ tb.next = 0
      /\ elapsed = 0 /\ main = Nobody /\ at = "off"
      /\ \A o \in Owners : ~Set(o) /\ due[o] = 0
  BY DEF Init, Set
<1>2. RowsInv
  BY <1>1 DEF RowsInv, Backed, UserInv, TrigInv, Owners
<1>3. Never \in Nat /\ Never >= 1 /\ Boot \in Nat /\ Lag \in Nat
  <2>1. Value[Sync] \in Nat \ {0} /\ Value[Sync] + Boot + Lag < Never
    BY NeverAssumption DEF Owners
  <2> QED BY <2>1
<1>4. SleepInv
  <2>1. Awake(tb, elapsed) \/ Asleep(tb, elapsed)
    BY <1>1, <1>3 DEF Asleep, Running
  <2> QED BY <1>1, <1>3, <2>1 DEF SleepInv, Sleeps
<1>5. AlarmInv /\ OverInv
  BY <1>1, <1>3 DEF AlarmInv, AlarmOk, OverInv
<1> QED
  BY <1>2, <1>4, <1>5 DEF ClockInv

\* Rows, users, dispatch and clock, together an inductive invariant.
LateInv == TypeOK /\ Inv /\ RowsInv /\ ClockInv

LEMMA LateStep ==
  ASSUME ~Preempt, LateInv, TypeOK', Inv', [Next]_vars
  PROVE  LateInv'
<1>1. CASE UNCHANGED vars
  BY <1>1 DEF LateInv, vars, timer, RowsInv, Backed, UserInv, TrigInv, Set, ClockInv,
     SleepInv, Sleeps, Awake, Asleep, Running, AlarmInv, AlarmOk, Fresh, Behind, Pending,
     Rung, OverInv
<1>2. CASE \/ \E c \in Consumers : Heartbeat(c)
           \/ \E l \in Lines : Answer(l) \/ Finish(l) \/ Find(l)
           \/ Start \/ StopSync \/ StartTimerLoop \/ Store
  BY <1>2, TaskRows, TaskClock DEF LateInv
<1>3. CASE \/ Poll \/ Age \/ Release \/ Return \/ RingSync \/ RingConsumer \/ RingLine \/ Tick
  <2>1. RowsInv'
    BY <1>3, TimerRows DEF LateInv
  <2>2. ClockInv'
    BY <1>3, PollClock, AgeClock, DispatchClock, RingClock, TickClock DEF LateInv
  <2> QED BY <2>1, <2>2 DEF LateInv
<1> QED
  BY <1>1, <1>2, <1>3 DEF Next

\* The rows are backed by handles, and lateness adds up as the dispatch lets it.
THEOREM Lateness == ASSUME ~Preempt PROVE Spec => []LateInv
<1>1. Init => RowsInv /\ ClockInv
  BY LateInit
<1>2. TypeOK /\ Inv /\ TypeOK' /\ Inv' /\ RowsInv /\ ClockInv /\ [Next]_vars
        => RowsInv' /\ ClockInv'
  BY LateStep DEF LateInv
<1>3. TypeOK /\ Inv /\ RowsInv /\ ClockInv => LateInv
  BY DEF LateInv
<1> QED
  BY <1>1, <1>2, <1>3, Invariance, PTL DEF Spec

\* While no task runs when another is in the table, no alarm that is set is later
\* than Boot, and Lag for each tick it can have been aged in.
THEOREM LateBounded == ASSUME ~Preempt PROVE Spec => []LateBound
<1>1. ASSUME LateInv, NEW o \in Owners, Set(o)
      PROVE  due[o] >= -(Boot + Lag * Most(o))
  <2> DEFINE v == tb.val[handle[o]]
  <2>0. /\ elapsed \in Nat /\ Lag \in Nat /\ Boot \in Nat
        /\ handle \in [Owners -> Rows \cup {TIMER_NONE}] /\ due \in [Owners -> Int]
        /\ tb.val \in [Rows -> Int] /\ tb.total \in Int
        /\ Most(o) \in Nat /\ Most(o) >= 1
    BY <1>1 DEF LateInv, TypeOK, Table, Most
  <2>1. handle[o] \in Rows /\ due[o] \in Int /\ v \in Int /\ Lag * Most(o) \in Nat
        /\ Lag <= Lag * Most(o)
    <3>1. Lag * 1 = Lag /\ Lag * 1 <= Lag * Most(o)
      BY <2>0, LagTimes
    <3> QED BY <1>1, <2>0, <3>1, LagTimes DEF Set
  <2>2. CASE Pending(o)
    BY <2>2 DEF Pending
  <2>3. ASSUME ~Pending(o), at = "age"
        PROVE  due[o] >= -(Boot + Lag * Most(o))
    <3>1. tb.state[handle[o]] = "armed" /\ Behind(o, v - tb.total, 0)
      BY <1>1, <2>3 DEF LateInv, ClockInv, AlarmInv, AlarmOk
    <3>2. PICK k \in Nat \ {0} : /\ v - tb.total <= Most(o) - k
                                 /\ due[o] >= v - tb.total - 0 - Boot - Lag * k
      BY <3>1 DEF Behind
    <3>3. tb.total <= v
      BY <1>1, <2>1, <3>1 DEF LateInv, Inv, Timed
    <3>4. k <= Most(o)
      <4> HIDE DEF v
      <4> QED BY <2>0, <2>1, <3>2, <3>3
    <3>5. Lag * k \in Nat /\ Lag * k <= Lag * Most(o)
      BY <2>0, <3>4, LagTimes
    <3> DEFINE x == Lag * k
               y == Lag * Most(o)
    <3>6. x \in Nat /\ y \in Nat /\ x <= y /\ due[o] >= v - tb.total - 0 - Boot - x
      BY <2>1, <3>2, <3>5
    <3> HIDE DEF v, x, y
    <3>7. due[o] >= -(Boot + y)
      BY <2>0, <2>1, <3>3, <3>6
    <3> QED BY <3>7 DEF y
  <2>4. ASSUME ~Pending(o), at # "age"
        PROVE  due[o] >= -(Boot + Lag * Most(o))
    <3>1. tb.state[handle[o]] = "armed" /\ (Fresh(o) \/ Behind(o, v, elapsed))
      BY <1>1, <2>4 DEF LateInv, ClockInv, AlarmInv, AlarmOk
    <3>2. tb.total <= v
      BY <1>1, <2>1, <3>1 DEF LateInv, Inv, Timed
    <3>3. elapsed <= tb.total + Lag \/ (elapsed <= Boot /\ Fresh(o))
      BY <1>1 DEF LateInv, ClockInv, OverInv
    <3>4. 1 <= tb.total
      BY <1>1, <2>4 DEF LateInv, ClockInv, SleepInv, Sleeps
    <3> DEFINE y == Lag * Most(o)
    <3>5. y \in Nat /\ Lag <= y
      BY <2>1
    <3>6. CASE Fresh(o)
      <4>1. due[o] = v - elapsed
        BY <3>6 DEF Fresh
      <4> HIDE DEF v, y
      <4>2. due[o] >= -(Boot + y)
        BY <2>0, <2>1, <3>2, <3>3, <3>4, <3>5, <4>1
      <4> QED BY <4>2 DEF y
    <3>7. CASE ~Fresh(o)
      <4>1. PICK k \in Nat \ {0} : /\ v <= Most(o) - k
                                   /\ due[o] >= v - elapsed - Boot - Lag * k
        BY <3>1, <3>7 DEF Behind
      <4>2. k + 1 <= Most(o) /\ k + 1 \in Nat
        <5> HIDE DEF v
        <5> QED BY <2>0, <2>1, <3>2, <3>4, <4>1
      <4> DEFINE x == Lag * k
      <4>3. x \in Nat /\ x + Lag <= y /\ due[o] >= v - elapsed - Boot - x
        BY <2>0, <4>1, <4>2, LagTimes
      <4> HIDE DEF v, x, y
      <4>4. due[o] >= -(Boot + y)
        BY <2>0, <2>1, <3>2, <3>3, <3>5, <3>7, <4>3
      <4> QED BY <4>4 DEF y
    <3> QED BY <3>6, <3>7
  <2> QED BY <2>2, <2>3, <2>4
<1>2. LateInv => LateBound
  BY <1>1 DEF LateBound, Most
<1> QED
  BY <1>2, Lateness, PTL

-----------------------------------------------------------------------------
(* The table keeps the promise of Alarms                                      *)

Sets == {o \in Owners : Set(o)}
Refused == {l \in open : ~Set(l) /\ main.line # l}

\* An owner's handle, as a map of the owners with an alarm into the rows.
LEMMA HandleMap ==
  ASSUME TypeOK, Owned(tb, handle)
  PROVE  /\ [o \in Sets |-> handle[o]] \in Injection(Sets, Rows)
         /\ \A r \in Rows : tb.state[r] = "free"
              => [o \in Sets |-> handle[o]] \in Injection(Sets, Rows \ {r})
         /\ IsFiniteSet(Rows) /\ Cardinality(Rows) = N
<1>1. \A o \in Sets : handle[o] \in Rows /\ tb.owner[handle[o]] = o
                      /\ tb.state[handle[o]] # "free"
  BY DEF TypeOK, Sets, Set, Owned
<1>2. [o \in Sets |-> handle[o]] \in Injection(Sets, Rows)
  BY <1>1 DEF Injection, IsInjective
<1>3. \A r \in Rows : tb.state[r] = "free"
        => [o \in Sets |-> handle[o]] \in Injection(Sets, Rows \ {r})
  BY <1>1 DEF Injection, IsInjective
<1>4. IsFiniteSet(Rows) /\ Cardinality(Rows) = N
  <2>1. 0 \in Int /\ N - 1 \in Int /\ ~(0 > N - 1) /\ N - 1 - 0 + 1 = N
    OBVIOUS
  <2>2. IsFiniteSet(0..(N - 1))
        /\ Cardinality(0..(N - 1)) = IF 0 > N - 1 THEN 0 ELSE N - 1 - 0 + 1
    BY <2>1, FS_Interval
  <2> QED BY <2>1, <2>2 DEF Rows
<1> QED
  BY <1>2, <1>3, <1>4

\* While a row is free, less than N alarms are set.
LEMMA Room ==
  ASSUME TypeOK, Owned(tb, handle), NEW r \in Rows, tb.state[r] = "free"
  PROVE  Cardinality(Sets) < N
<1> DEFINE f == [o \in Sets |-> handle[o]]
           T == Rows \ {r}
<1>1. f \in Injection(Sets, T)
  BY HandleMap
<1>2. IsFiniteSet(T) /\ Cardinality(T) = N - 1
  <2>1. IsFiniteSet(Rows) /\ Cardinality(Rows) = N
    BY HandleMap
  <2> QED BY <2>1, FS_RemoveElement
<1> HIDE DEF f, T
<1>3. IsFiniteSet(Sets) /\ Cardinality(Sets) <= Cardinality(T)
  BY <1>1, <1>2, FS_Injection
<1>4. Cardinality(Sets) \in Nat
  BY <1>3, FS_CardinalityType
<1> QED
  BY <1>2, <1>3, <1>4

\* When no row is found, N alarms are set.
LEMMA Full ==
  ASSUME TypeOK, Inv, Backed(tb, handle), Owned(tb, handle), RowFor(tb) = TIMER_NONE
  PROVE  Cardinality(Sets) = N
<1> DEFINE f == [o \in Sets |-> handle[o]]
<1>1. f \in Injection(Sets, Rows) /\ IsFiniteSet(Rows) /\ Cardinality(Rows) = N
  BY HandleMap
<1>2. /\ tb.state \in [Rows -> {"free", "armed", "trig", "trig_period"}]
      /\ tb.owner \in [Rows -> Owners] /\ tb.last \in -1..(N - 1)
      /\ \A r \in Rows : tb.state[r] # "free" => r <= tb.last
  BY DEF TypeOK, Table, Inv, Timed
<1> DEFINE free == {r \in Rows : r <= tb.last + 1 /\ tb.state[r] = "free"}
<1>3. free = {}
  <2>1. free \subseteq Nat
    BY DEF Rows
  <2>2. free # {} => Least(free) \in free
    BY <2>1, LeastIn
  <2>3. TIMER_NONE \notin free
    BY DEF Rows, TIMER_NONE
  <2> QED BY <2>2, <2>3 DEF RowFor
<1>4. \A r \in Rows : tb.state[r] # "free"
  <2>1. tb.last + 1 \in Rows => FALSE
    <3>1. ASSUME tb.last + 1 \in Rows PROVE FALSE
      <4>1. tb.last + 1 <= tb.last + 1 /\ ~(tb.last + 1 <= tb.last)
        BY <1>2
      <4> QED BY <1>2, <1>3, <3>1, <4>1
    <3> QED BY <3>1
  <2>2. \A r \in Rows : r <= tb.last + 1
    <3>1. tb.last + 1 \in 0..N
      BY <1>2
    <3>2. tb.last + 1 = N
      BY <2>1, <3>1 DEF Rows
    <3> QED BY <3>2 DEF Rows
  <2> QED BY <1>3, <2>2
<1>5. \A r \in Rows : \E o \in Sets : f[o] = r
  <2> SUFFICES ASSUME NEW r \in Rows PROVE \E o \in Sets : f[o] = r
    OBVIOUS
  <2>1. tb.owner[r] \in Owners /\ handle[tb.owner[r]] = r
    BY <1>2, <1>4 DEF Backed
  <2>2. tb.owner[r] \in Sets
    BY <2>1 DEF Sets, Set, TIMER_NONE, Rows
  <2> QED BY <2>1, <2>2
<1>6. f \in Surjection(Sets, Rows)
  BY <1>1, <1>5 DEF Injection, Surjection
<1> HIDE DEF f
<1>7. Cardinality(Sets) = Cardinality(Rows)
  BY <1>1, <1>6, FS_Injection
<1> QED
  BY <1>1, <1>7

LEMMA PutsSets ==
  ASSUME TypeOK, NEW o \in Owners, NEW h \in Rows \cup {TIMER_NONE}, Puts(o, h)
  PROVE  /\ Sets' = IF h = TIMER_NONE THEN Sets \ {o} ELSE Sets \cup {o}
         /\ \A p \in Owners \ {o} : Set(p)' <=> Set(p)
         /\ Set(o)' <=> h # TIMER_NONE
<1>1. handle \in [Owners -> Rows \cup {TIMER_NONE}]
  BY DEF TypeOK
<1>2. /\ \A p \in Owners \ {o} : Set(p)' <=> Set(p)
      /\ Set(o)' <=> h # TIMER_NONE
  BY <1>1 DEF Puts, Set
<1>3. Sets' = {p \in Owners : Set(p)'}
  BY DEF Sets
<1> QED
  BY <1>2, <1>3 DEF Sets

\* The abstract variables and actions, in the words of this module.
AbsHas(s, o) == Sets' = s /\ due' = [due EXCEPT ![o] = IF o \in s THEN Value[o] ELSE 0]
AbsStep ==
  \/ UNCHANGED <<Sets, due, Refused>>
  \/ due' = [o \in Owners |-> IF o \in Sets THEN due[o] - 1 ELSE 0]
     /\ UNCHANGED <<Sets, Refused>>
  \/ \E o \in Owners :
       \/ o \notin Sets /\ Cardinality(Sets) < N /\ AbsHas(Sets \cup {o}, o)
          /\ UNCHANGED Refused
       \/ Cardinality(Sets) = N /\ Refused' = Refused \cup {o} /\ UNCHANGED <<Sets, due>>
       \/ Refused' = Refused \ {o} /\ UNCHANGED <<Sets, due>>
       \/ o \in Sets /\ AbsHas(Sets, o) /\ UNCHANGED Refused
       \/ o \in Sets /\ AbsHas(Sets \ {o}, o) /\ UNCHANGED Refused
       \/ /\ o \in Sets /\ due[o] <= 0 /\ UNCHANGED Refused
          /\ IF o = Sync THEN AbsHas(Sets, o)
             ELSE \/ AbsHas(Sets \ {o}, o)
                  \/ \E p \in Owners \ (Sets \ {o}) :
                       /\ Sets' = (Sets \ {o}) \cup {p}
                       /\ due' = [due EXCEPT ![o] = 0, ![p] = Value[p]]

\* Alarms counts as this module does.
LEMMA SameCardinality == \A S : A!Cardinality(S) = Cardinality(S)
BY DEF A!Cardinality, Cardinality

LEMMA AbsIs == AbsStep => [A!Next]_(A!vars)
<1> SUFFICES ASSUME AbsStep PROVE A!Next \/ UNCHANGED A!vars
  OBVIOUS
<1> USE DEF AbsHas, Sets, Refused
<1>1. CASE UNCHANGED <<Sets, due, Refused>>
  BY <1>1 DEF A!vars
<1>2. CASE due' = [o \in Owners |-> IF o \in Sets THEN due[o] - 1 ELSE 0]
           /\ UNCHANGED <<Sets, Refused>>
  BY <1>2 DEF A!Next, A!Tick
<1>3. ASSUME NEW o \in Owners,
             \/ o \notin Sets /\ Cardinality(Sets) < N /\ AbsHas(Sets \cup {o}, o)
                /\ UNCHANGED Refused
             \/ Cardinality(Sets) = N /\ Refused' = Refused \cup {o}
                /\ UNCHANGED <<Sets, due>>
      PROVE  A!Next
  BY <1>3, SameCardinality DEF A!Next, A!Set, A!Refuse, A!Has
<1>4. ASSUME NEW o \in Owners,
             \/ Refused' = Refused \ {o} /\ UNCHANGED <<Sets, due>>
             \/ o \in Sets /\ AbsHas(Sets, o) /\ UNCHANGED Refused
             \/ o \in Sets /\ AbsHas(Sets \ {o}, o) /\ UNCHANGED Refused
      PROVE  A!Next
  BY <1>4 DEF A!Next, A!GiveUp, A!Renew, A!Delete, A!Has
<1>5. ASSUME NEW o \in Owners, o \in Sets, due[o] <= 0, UNCHANGED Refused,
             IF o = Sync THEN AbsHas(Sets, o)
             ELSE \/ AbsHas(Sets \ {o}, o)
                  \/ \E p \in Owners \ (Sets \ {o}) :
                       /\ Sets' = (Sets \ {o}) \cup {p}
                       /\ due' = [due EXCEPT ![o] = 0, ![p] = Value[p]]
      PROVE  A!Next
  BY <1>5 DEF A!Next, A!Ring, A!Has
<1> QED
  BY <1>1, <1>2, <1>3, <1>4, <1>5 DEF AbsStep

\* The steps of RPDO and MAIN keep the promise.
LEMMA TaskAbs ==
  ASSUME LateInv, ~Preempt,
         \/ \E c \in Consumers : Heartbeat(c)
         \/ \E l \in Lines : Answer(l) \/ Finish(l) \/ Find(l)
         \/ Start \/ StopSync \/ StartTimerLoop \/ Store
  PROVE  AbsStep
<1>0. /\ tb \in Table /\ handle \in [Owners -> Rows \cup {TIMER_NONE}] /\ elapsed \in Nat
      /\ Consumers \subseteq Owners /\ Lines \subseteq Owners /\ Sync \in Owners
      /\ main \in [row : Rows, line : Lines] \cup {Nobody} /\ due \in [Owners -> Int]
      /\ TIMER_NONE \notin Rows /\ open \subseteq Lines /\ TypeOK /\ Inv
      /\ Backed(tb, handle) /\ UserInv
  BY DEF LateInv, TypeOK, Owners, Rows, TIMER_NONE, RowsInv
<1>1. ASSUME at # "ring" PROVE Owned(tb, handle)
  BY <1>0, <1>1, OwnedFacts
<1>2. ASSUME NEW o \in Owners, NEW h \in Rows \cup {TIMER_NONE}, Puts(o, h),
             h = TIMER_NONE => o \notin Sets,
             h # TIMER_NONE /\ o \notin Sets => Cardinality(Sets) < N,
             UNCHANGED Refused
      PROVE  AbsStep
  <2>1. Sets' = IF h = TIMER_NONE THEN Sets \ {o} ELSE Sets \cup {o}
    BY <1>0, <1>2, PutsSets
  <2>2. due' = [due EXCEPT ![o] = IF h = TIMER_NONE THEN 0 ELSE Value[o]]
    BY <1>2 DEF Puts
  <2>3. CASE h = TIMER_NONE
    <3>1. due[o] = 0
      BY <1>0, <1>2, <2>3 DEF Sets, UserInv
    <3>2. Sets' = Sets /\ due' = due
      BY <1>0, <1>2, <2>1, <2>2, <2>3, <3>1
    <3> QED BY <1>2, <3>2 DEF AbsStep
  <2>4. CASE h # TIMER_NONE /\ o \notin Sets
    <3>1. AbsHas(Sets \cup {o}, o)
      BY <2>1, <2>2, <2>4 DEF AbsHas
    <3> QED BY <1>2, <2>4, <3>1 DEF AbsStep
  <2>5. CASE h # TIMER_NONE /\ o \in Sets
    <3>1. AbsHas(Sets, o)
      BY <2>1, <2>2, <2>5 DEF AbsHas
    <3> QED BY <1>2, <2>5, <3>1 DEF AbsStep
  <2> QED BY <2>3, <2>4, <2>5
<1>3. ASSUME NEW o \in Owners, Renews(o), Outside, UNCHANGED <<at, row, main, open>>,
             o \in Lines => Set(o)
      PROVE  AbsStep
  <2> DEFINE t == DelAlarm(tb, handle[o])
             r == RowFor(t)
  <2>1. Puts(o, r)
    BY <1>0, <1>3, RenewsRows
  <2>2. Owned(tb, handle) /\ main = Nobody
    BY <1>1, <1>3 DEF Outside
  <2>3. handle[o] \in Rows \cup {TIMER_NONE}
    BY <1>0
  <2>4. t \in Table /\ \A q \in Rows : t.state[q] = IF q = handle[o] THEN "free" ELSE tb.state[q]
    BY <1>0, <2>3, DelAlarmFacts
  <2>5. r \in Rows \cup {TIMER_NONE}
    BY <2>4, RowTyped
  <2>6. r = TIMER_NONE => o \notin Sets
    <3> SUFFICES ASSUME o \in Sets PROVE r # TIMER_NONE
      OBVIOUS
    <3>1. handle[o] \in Rows /\ tb.state[handle[o]] # "free"
      BY <2>2, <2>3 DEF Sets, Set, Owned
    <3>2. handle[o] <= tb.last /\ tb.last \in Int /\ handle[o] \in Int
      <4>1. Timed(tb, elapsed)
        BY <1>0 DEF Inv
      <4>2. tb.last \in Int /\ handle[o] \in Int
        BY <1>0, <3>1 DEF Table, Rows
      <4> QED BY <3>1, <4>1, <4>2 DEF Timed
    <3>3. t.last = IF handle[o] = tb.last THEN tb.last - 1 ELSE tb.last
      BY <1>0, <3>1 DEF DelAlarm, Table
    <3>4. handle[o] <= t.last + 1 /\ t.state[handle[o]] = "free"
      <4> HIDE DEF t
      <4> QED BY <2>4, <3>1, <3>2, <3>3
    <3> HIDE DEF t
    <3> DEFINE free == {q \in Rows : q <= t.last + 1 /\ t.state[q] = "free"}
    <3>5. free # {} /\ free \subseteq Nat
      BY <3>1, <3>4 DEF Rows
    <3>6. Least(free) \in free
      BY <3>5, LeastIn
    <3>7. RowFor(t) = Least(free)
      BY <3>5 DEF RowFor
    <3> QED BY <1>0, <3>6, <3>7
  <2>7. r # TIMER_NONE /\ o \notin Sets => Cardinality(Sets) < N
    <3> SUFFICES ASSUME r # TIMER_NONE, o \notin Sets PROVE Cardinality(Sets) < N
      OBVIOUS
    <3>1. t = tb
      BY DEF Sets, Set, DelAlarm
    <3>2. r \in Rows /\ tb.state[r] = "free"
      <4> HIDE DEF t
      <4>1. RowFor(tb) \in Rows /\ tb.state[RowFor(tb)] = "free"
        BY <1>0, <3>1, RowForFacts
      <4> QED BY <3>1, <4>1
    <3> HIDE DEF r, t
    <3> QED BY <1>0, <2>2, <3>2, Room
  <2> HIDE DEF r, t
  <2>8. UNCHANGED Refused
    <3>1. \A l \in Lines : Set(l)' <=> Set(l)
      BY <1>0, <1>3, <2>1, <2>5, <2>6, PutsSets DEF Sets
    <3> QED BY <1>0, <1>3, <3>1 DEF Refused
  <2> QED BY <1>2, <2>1, <2>5, <2>6, <2>7, <2>8
<1>4. ASSUME NEW o \in Owners, Holds(o, DelAlarm(tb, handle[o]), TIMER_NONE), o \in Sets,
             UNCHANGED main, open' = open \ {o} \/ (open' = open /\ o \notin Lines)
      PROVE  AbsStep
  <2>1. Puts(o, TIMER_NONE)
    BY <1>4 DEF Holds, Puts
  <2>2. /\ Sets' = Sets \ {o} /\ due' = [due EXCEPT ![o] = 0]
        /\ \A p \in Owners \ {o} : Set(p)' <=> Set(p)
    BY <1>0, <2>1, PutsSets DEF Puts
  <2>3. AbsHas(Sets \ {o}, o)
    BY <2>2 DEF AbsHas
  <2>4. UNCHANGED Refused
    BY <1>0, <1>4, <2>2 DEF Refused, Sets
  <2> QED BY <1>4, <2>3, <2>4 DEF AbsStep
<1>5. CASE \E c \in Consumers : Heartbeat(c)
  <2>1. \A c \in Consumers : c \notin Lines
    OBVIOUS
  <2> QED BY <1>0, <1>3, <1>5, <2>1 DEF Heartbeat, Rpdo, timer
<1>6. CASE \E l \in Lines : Answer(l)
  BY <1>0, <1>3, <1>6 DEF Answer, Rpdo, timer
<1>7. ASSUME NEW l \in Lines, Finish(l) PROVE AbsStep
  <2>1. /\ Holds(l, DelAlarm(tb, handle[l]), TIMER_NONE)
        /\ UNCHANGED <<at, row, main>> /\ open' = open \ {l} /\ main = Nobody
    BY <1>7 DEF Finish, Rpdo, timer, Outside
  <2>2. CASE l \in Sets
    BY <1>0, <1>4, <2>1, <2>2
  <2>3. CASE l \notin Sets
    <3>1. handle[l] = TIMER_NONE /\ due[l] = 0
      BY <1>0, <2>3 DEF Sets, Set, UserInv
    <3>2. UNCHANGED <<handle, due>>
      BY <1>0, <2>1, <3>1 DEF Holds
    <3>3. UNCHANGED Sets
      BY <3>2 DEF Sets, Set
    <3>4. Refused' = Refused \ {l}
      BY <2>1, <3>2 DEF Refused, Set
    <3> QED BY <1>0, <3>2, <3>3, <3>4 DEF AbsStep
  <2> QED BY <2>2, <2>3
<1>8. CASE StopSync
  BY <1>0, <1>4, <1>8 DEF StopSync, Main, Sets
<1>9. CASE StartTimerLoop
  BY <1>9 DEF StartTimerLoop, AbsStep, Sets, Set, Refused
<1>10. CASE Start
  <2>1. Puts(Sync, RowFor(tb)) /\ at = "off" /\ UNCHANGED <<open, main>>
    BY <1>10 DEF Start, Holds, Puts
  <2>2. RowFor(tb) \in Rows \cup {TIMER_NONE}
    BY <1>0, RowTyped
  <2>3. Sync \notin Sets /\ Owned(tb, handle)
    BY <1>0, <1>1, <2>1 DEF Sets, UserInv
  <2>4. RowFor(tb) # TIMER_NONE => Cardinality(Sets) < N
    BY <1>0, <2>3, RowForFacts, Room
  <2>5. UNCHANGED Refused
    BY <1>0, <2>1, <2>2, PutsSets DEF Refused
  <2> QED BY <1>0, <1>2, <2>1, <2>2, <2>3, <2>4, <2>5
<1>11. ASSUME NEW l \in Lines, Find(l) PROVE AbsStep
  <2>1. /\ UNCHANGED <<handle, due, at>> /\ main = Nobody /\ at # "ring"
        /\ l \notin open /\ open' = open \cup {l}
        /\ IF RowFor(tb) = TIMER_NONE THEN main' = main
           ELSE main' = [row |-> RowFor(tb), line |-> l]
    BY <1>11 DEF Find, Main, timer, Outside
  <2>2. /\ UNCHANGED Sets /\ ~Set(l) /\ main.line \notin Lines
        /\ \A k \in Lines : Set(k)' <=> Set(k)
    BY <1>0, <2>1 DEF Sets, Set, UserInv, Nobody
  <2>3. CASE RowFor(tb) = TIMER_NONE
    <3>1. Cardinality(Sets) = N
      BY <1>0, <1>1, <2>1, <2>3, Full
    <3>2. Refused' = Refused \cup {l}
      BY <1>0, <2>1, <2>2, <2>3 DEF Refused
    <3> QED BY <1>0, <2>1, <2>2, <3>1, <3>2 DEF AbsStep
  <2>4. CASE RowFor(tb) # TIMER_NONE
    <3>1. main'.line = l
      BY <2>1, <2>4
    <3>2. UNCHANGED Refused
      BY <1>0, <2>1, <2>2, <3>1 DEF Refused
    <3> QED BY <2>1, <2>2, <3>2 DEF AbsStep
  <2> QED BY <2>3, <2>4
<1>12. CASE Store
  <2>1. PICK r \in Rows, l \in Lines : r = main.row /\ l = main.line
    BY <1>0, <1>12 DEF Store
  <2>2. /\ main # Nobody /\ main' = Nobody /\ at # "ring" /\ UNCHANGED open
        /\ Puts(l, r) /\ l \in Owners /\ r # TIMER_NONE
    BY <1>0, <1>12, <2>1 DEF Store, Holds, Puts
  <2>3. tb.state[r] = "free" /\ l \notin Sets /\ Owned(tb, handle)
    BY <1>0, <1>1, <2>1, <2>2 DEF Inv, MainInv, UserInv, Sets
  <2>4. Cardinality(Sets) < N
    BY <1>0, <2>3, Room
  <2>5. (\A p \in Owners \ {l} : Set(p)' <=> Set(p)) /\ Set(l)'
    BY <1>0, <2>2, PutsSets
  <2>6. main'.line \notin Lines
    BY <2>2 DEF Nobody
  <2>7. UNCHANGED Refused
    BY <1>0, <2>1, <2>2, <2>5, <2>6 DEF Refused
  <2> QED BY <1>2, <2>2, <2>3, <2>4, <2>7
<1> QED
  BY <1>5, <1>6, <1>7, <1>8, <1>9, <1>10, <1>11, <1>12

\* TIMER's steps and the clock's keep it.
LEMMA TimerAbs ==
  ASSUME LateInv, ~Preempt,
         \/ Poll \/ Age \/ Release \/ Return \/ RingSync \/ RingConsumer \/ RingLine \/ Tick
  PROVE  AbsStep
<1>0. /\ tb \in Table /\ handle \in [Owners -> Rows \cup {TIMER_NONE}] /\ elapsed \in Nat
      /\ Consumers \subseteq Owners /\ Lines \subseteq Owners /\ Sync \in Owners
      /\ due \in [Owners -> Int] /\ (at = "ring" => row \in Rows)
      /\ tb.owner \in [Rows -> Owners] /\ tb.last \in -1..(N - 1)
      /\ TIMER_NONE \notin Rows /\ open \subseteq Lines /\ TypeOK /\ Inv
      /\ Backed(tb, handle) /\ UserInv /\ TrigInv /\ AlarmInv
  BY DEF LateInv, TypeOK, Owners, Rows, TIMER_NONE, RowsInv, ClockInv, Table
<1>1. CASE Poll \/ Age \/ Release \/ Return
  BY <1>1 DEF Poll, Age, Release, Return, AbsStep, Sets, Set, Refused
<1>2. CASE Tick
  <2>1. /\ UNCHANGED <<handle, open, main>>
        /\ due' = [o \in Owners |-> IF handle[o] = TIMER_NONE THEN due[o] ELSE due[o] - 1]
    BY <1>2 DEF Tick
  <2>2. UNCHANGED <<Sets, Refused>>
    BY <2>1 DEF Sets, Set, Refused
  <2>3. due' = [o \in Owners |-> IF o \in Sets THEN due[o] - 1 ELSE 0]
    BY <1>0, <2>1 DEF Sets, Set, UserInv
  <2> QED BY <2>2, <2>3 DEF AbsStep
<1> DEFINE l == tb.owner[row]
<1>3. ASSUME Called
      PROVE  /\ at = "ring" /\ main = Nobody /\ main' = Nobody /\ row \in Rows
             /\ l \in Owners /\ l \in Sets /\ handle[l] = row /\ due[l] <= 0
             /\ row <= tb.last /\ (l # Sync => tb.state[row] = "free")
  <2>1. at = "ring" /\ main = Nobody /\ main' = Nobody /\ row \in Rows
    BY <1>0, <1>3 DEF Called, Inv, MainInv
  <2>2. l \in Owners /\ handle[l] = row
        /\ row <= tb.last /\ (l # Sync => tb.state[row] = "free")
    BY <1>0, <2>1 DEF TrigInv
  <2> HIDE DEF l
  <2>3. Set(l) /\ Rung(l)
    BY <1>0, <2>1, <2>2 DEF Set, Rung
  <2>4. due[l] <= 0
    BY <1>0, <2>2, <2>3 DEF AlarmInv, AlarmOk, Pending
  <2> QED BY <2>1, <2>2, <2>3, <2>4 DEF Sets
<1>4. CASE RingSync
  <2>1. l = Sync /\ UNCHANGED <<handle, open>> /\ due' = [due EXCEPT ![Sync] = Value[Sync]]
        /\ Called
    BY <1>4 DEF RingSync
  <2>2. UNCHANGED <<Sets, Refused>>
    BY <1>3, <2>1 DEF Sets, Set, Refused
  <2>3. AbsHas(Sets, Sync)
    BY <1>3, <2>1, <2>2 DEF AbsHas
  <2> QED BY <1>0, <1>3, <2>1, <2>2, <2>3 DEF AbsStep
<1> HIDE DEF l
<1>5. ASSUME Called, l # Sync, Holds(l, tb, TIMER_NONE),
             open' = open \ {l} \/ (open' = open /\ l \notin Lines)
      PROVE  AbsStep
  <2>1. Puts(l, TIMER_NONE) /\ l \in Owners /\ l \in Sets
    BY <1>3, <1>5 DEF Holds, Puts
  <2>2. /\ Sets' = Sets \ {l} /\ due' = [due EXCEPT ![l] = 0]
        /\ \A p \in Owners \ {l} : Set(p)' <=> Set(p)
    BY <1>0, <2>1, PutsSets DEF Puts
  <2>3. AbsHas(Sets \ {l}, l)
    BY <2>2 DEF AbsHas
  <2>4. UNCHANGED Refused
    BY <1>0, <1>3, <1>5, <2>1, <2>2 DEF Refused, Sets
  <2> QED BY <1>5, <2>1, <2>3, <2>4 DEF AbsStep
<1>6. CASE RingConsumer
  <2>1. l \in Consumers /\ Called /\ Holds(l, tb, TIMER_NONE) /\ UNCHANGED open
    BY <1>6 DEF RingConsumer, l
  <2>2. l # Sync /\ l \notin Lines
    BY <2>1
  <2> QED BY <1>5, <2>1, <2>2
<1>7. ASSUME NEW m \in Lines, m = l, NEW k \in Lines \ (open \ {m}), Called,
             handle' = [handle EXCEPT ![m] = TIMER_NONE, ![k] = RowFor(tb)],
             due' = [due EXCEPT ![m] = 0,
                        ![k] = IF RowFor(tb) = TIMER_NONE THEN 0 ELSE Value[k]],
             open' = (open \ {m}) \cup {k}
      PROVE  AbsStep
  <2>1. /\ m \in Owners /\ m \in Sets /\ m # Sync /\ due[m] <= 0 /\ k \in Owners
        /\ main = Nobody /\ main' = Nobody
    BY <1>0, <1>3, <1>7
  <2>2. RowFor(tb) \in Rows
    <3> DEFINE free == {q \in Rows : q <= tb.last + 1 /\ tb.state[q] = "free"}
    <3>1. row <= tb.last + 1
      BY <1>0, <1>3, <1>7 DEF Rows
    <3>2. row \in free
      BY <1>3, <1>7, <2>1, <3>1
    <3>3. free \subseteq Nat
      BY DEF Rows
    <3>4. Least(free) \in free
      BY <3>2, <3>3, LeastIn
    <3>5. RowFor(tb) = Least(free)
      BY <3>2 DEF RowFor
    <3> QED BY <3>4, <3>5
  <2>3. /\ \A p \in Owners \ {k, m} : Set(p)' <=> Set(p)
        /\ Set(k)' /\ (m # k => ~Set(m)')
    BY <1>0, <1>7, <2>1, <2>2 DEF Set
  <2>4. k \in Owners \ (Sets \ {m})
    BY <1>0, <1>7, <2>1 DEF Sets, UserInv
  <2>5. Sets' = (Sets \ {m}) \cup {k}
    <3>1. Sets' = {p \in Owners : Set(p)'}
      BY DEF Sets
    <3> QED BY <2>1, <2>3, <3>1 DEF Sets
  <2>6. due' = [due EXCEPT ![m] = 0, ![k] = Value[k]]
    BY <1>0, <1>7, <2>2
  <2>7. UNCHANGED Refused
    BY <1>0, <1>7, <2>1, <2>3 DEF Refused, Sets
  <2> QED BY <2>1, <2>4, <2>5, <2>6, <2>7 DEF AbsStep
<1>8. CASE RingLine
  BY <1>5, <1>7, <1>8 DEF RingLine, l
<1> QED
  BY <1>1, <1>2, <1>4, <1>6, <1>8

\* While no task runs when another is in the table, the table keeps the promise
\* of Alarms: no alarm rings before its time, none is lost, and none is refused
\* while less than N are set.
THEOREM KeepsPromise == ASSUME ~Preempt PROVE Spec => Implements
<1>1. Init => A!Init
  <2> SUFFICES ASSUME Init PROVE A!Init
    OBVIOUS
  <2>1. Sets = {} /\ Refused = {} /\ due = [o \in Owners |-> 0]
    BY DEF Init, Sets, Set, Refused
  <2> QED BY <2>1 DEF A!Init, Sets, Refused
<1>2. LateInv /\ [Next]_vars => [A!Next]_(A!vars)
  <2> SUFFICES ASSUME LateInv, [Next]_vars PROVE [A!Next]_(A!vars)
    OBVIOUS
  <2>1. AbsStep
    <3>1. CASE UNCHANGED vars
      BY <3>1 DEF vars, timer, AbsStep, Sets, Set, Refused
    <3>2. CASE Next
      BY <3>2, TaskAbs, TimerAbs DEF Next
    <3> QED BY <3>1, <3>2
  <2> QED BY <2>1, AbsIs
<1> QED
  BY <1>1, <1>2, Lateness, PTL DEF Spec, Implements, A!Spec
=============================================================================
