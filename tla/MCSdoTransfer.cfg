SPECIFICATION FairSpec
CONSTANTS
  Servers = {s1}
  NLines = 2
  Objs = {"type", "name"}
  Segs <- MCSegs
  None = none
  Late = FALSE
  Flight = 2
  s1 = s1
  none = none
INVARIANTS TypeOK NothingTorn LineReturned
PROPERTIES WritesDone Ended
