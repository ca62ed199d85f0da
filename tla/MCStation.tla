----------------------------- MODULE MCStation -----------------------------
(* Station with a queue that holds a frame of the module beside its answers. *)
EXTENDS Station
=============================================================================
