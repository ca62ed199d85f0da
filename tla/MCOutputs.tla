----------------------------- MODULE MCOutputs -----------------------------
(* Outputs with the two tasks that send PDOs, and tables without a hole: the  *)
(* module at node n has slot n.                                             *)
EXTENDS Outputs

MCTasks == {"RPDO", "TPDO", "TIMER", "MAIN"}
MCPrio == [RPDO |-> 30, TPDO |-> 29, TIMER |-> 27, MAIN |-> 22]
MCSenders == {"TPDO", "MAIN"}
Module(n, k) == [node |-> n, kind |-> k]
MCLayouts ==
  {<<Module(1, "AO"), Module(2, "DI"), Module(3, "DO")>>,
   <<Module(1, "DO"), Module(2, "RTD")>>}
=============================================================================
