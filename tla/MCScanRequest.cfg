CONSTANTS
  a = a  b = b
  Clients <- MCClients
  Left <- MCCold
  Early <- MCEarly
  NoLine = NoLine
SPECIFICATION FairSpec
INVARIANTS TypeOK CommandKept CompletionIsReal OperationalMeansBuilt
PROPERTIES RequestServed
