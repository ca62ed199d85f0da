--------------------------- MODULE MCSdoTransfer ---------------------------
(* SdoTransfer with an expedited object and one in two segments. *)
EXTENDS SdoTransfer

MCSegs == [o \in Objs |-> IF o = "type" THEN 1 ELSE 2]
=============================================================================
