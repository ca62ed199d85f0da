------------------------------- MODULE Alarms -------------------------------
(***************************************************************************)
(* What the alarms of CANopen promise their owners: an alarm that is set     *)
(* rings when its time has passed, unless its owner deletes or renews it     *)
(* before; one that is asked for is refused only while Slots alarms are set. *)
(***************************************************************************)
EXTENDS Integers, FiniteSets

CONSTANTS Owners, Slots, Value, Periodic

VARIABLES set,      \* the owners whose alarm is set
          due,      \* the time left, negative when the alarm is late; 0 if not set
          refused   \* the owners that go on without the alarm they asked for

vars == <<set, due, refused>>

Init == set = {} /\ due = [o \in Owners |-> 0] /\ refused = {}

Has(s, o) == set' = s /\ due' = [due EXCEPT ![o] = IF o \in s THEN Value[o] ELSE 0]

Set(o) == o \notin set /\ Cardinality(set) < Slots /\ Has(set \cup {o}, o)
          /\ UNCHANGED refused

Refuse(o) == Cardinality(set) = Slots /\ refused' = refused \cup {o}
             /\ UNCHANGED <<set, due>>

GiveUp(o) == refused' = refused \ {o} /\ UNCHANGED <<set, due>>

Renew(o) == o \in set /\ Has(set, o) /\ UNCHANGED refused

Delete(o) == o \in set /\ Has(set \ {o}, o) /\ UNCHANGED refused

\* A periodic alarm goes on; one that rings once may start another.
Ring(o) ==
  /\ o \in set /\ due[o] <= 0
  /\ IF o \in Periodic THEN Has(set, o)
     ELSE \/ Has(set \ {o}, o)
          \/ \E p \in Owners \ (set \ {o}) :
               /\ set' = (set \ {o}) \cup {p}
               /\ due' = [due EXCEPT ![o] = 0, ![p] = Value[p]]
  /\ UNCHANGED refused

Tick == due' = [o \in Owners |-> IF o \in set THEN due[o] - 1 ELSE 0]
        /\ UNCHANGED <<set, refused>>

Next == \/ Tick
        \/ \E o \in Owners : \/ Set(o) \/ Refuse(o) \/ GiveUp(o)
                             \/ Renew(o) \/ Delete(o) \/ Ring(o)

Spec == Init /\ [][Next]_vars
=============================================================================
