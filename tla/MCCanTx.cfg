SPECIFICATION FairSpec
CONSTANTS
  Tasks <- MCTasks
  Prio <- MCPrio
  Main = "MAIN"
  Tpdo = "TPDO"
  Timer = "TIMER"
  None = "none"
  Senders <- AllSend
  Gap = FALSE
INVARIANTS TypeOK SentMeansSent BufferKept
PROPERTY CallReturns
