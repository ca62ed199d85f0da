SPECIFICATION Spec
CONSTANTS
  Tasks <- MCTasks
  Prio <- MCPrio
  Main = "MAIN"
  Tpdo = "TPDO"
  Timer = "TIMER"
  None = "none"
  Senders <- OutputsAndMain
  Gap = FALSE
INVARIANT NodesReset
