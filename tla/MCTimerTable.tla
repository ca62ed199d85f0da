---------------------------- MODULE MCTimerTable ----------------------------
(* TimerTable with fewer rows than owners, so that the table may be full. *)
EXTENDS TimerTable

MCValue == [o \in Owners |-> IF o = Sync THEN 2 ELSE IF o \in Consumers THEN 3 ELSE 2]
=============================================================================
