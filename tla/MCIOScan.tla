------------------------------ MODULE MCIOScan -------------------------------
(* Three node addresses: enough for a first, a middle and a last one, and for *)
(* two devices of one direction besides one of the other.                     *)
EXTENDS IOScan
=============================================================================
