SPECIFICATION Spec
CONSTANTS
  Servers = {s1}
  NLines = 2
  Objs = {"type", "name"}
  Segs <- MCSegs
  None = none
  Late = TRUE
  Flight = 2
  s1 = s1
  none = none
INVARIANT CallbackAtEnd
