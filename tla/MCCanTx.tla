------------------------------ MODULE MCCanTx ------------------------------
(* CanTx with the four tasks of the master that send, and their priorities  *)
(* (configMAX_PRIORITIES less 2, 3, 5 and 10, Master.c:82-88).               *)
EXTENDS CanTx

MCTasks == {"RPDO", "TPDO", "TIMER", "MAIN"}
MCPrio == [RPDO |-> 30, TPDO |-> 29, TIMER |-> 27, MAIN |-> 22]
AllSend == MCTasks
OutputsAndMain == {"TPDO", "MAIN"}
=============================================================================
