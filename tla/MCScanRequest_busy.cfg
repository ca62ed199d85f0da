CONSTANTS
  a = a  b = b
  Clients <- MCClients
  Left <- MCCold
  Early = {}
  NoLine = NoLine
SPECIFICATION Spec
INVARIANTS BusyMeansRunning
