SPECIFICATION SpecIO
CONSTANTS
  Tasks <- MCTasks
  Prio <- MCPrio
  Main = "MAIN"
  Tpdo = "TPDO"
  Timer = "TIMER"
  None = "none"
  Senders <- MCSenders
  Gap = FALSE
  Nodes = {1, 2, 3}
  Protocols = {"EIP", "ECAT"}
  Layouts <- MCLayouts
  Driven = {"DO"}
INVARIANTS OutputsTypeOK OutputsFollow OwnData
