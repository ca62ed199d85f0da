SPECIFICATION Spec
CONSTANTS
  N = 3
  Consumers = {c1}
  Lines = {l1, l2}
  Sync = sync
  Value <- MCValue
  Never = 31
  Lag = 1
  Boot = 2
  Preempt = FALSE
  c1 = c1
  l1 = l1
  l2 = l2
  sync = sync
INVARIANTS TypeOK OwnHandle WakeInTime LateBound
PROPERTY Implements
