CONSTANTS
  c0 = c0  c1 = c1
  t1 = t1  t2 = t2  t3 = t3
  l1 = l1  l2 = l2
  v0 = v0  v1 = v1
  Cores <- MCCores
  Tasks <- MCTasks
  CoreOf <- MCCoreOf
  Lines <- MCLines
  Vals <- MCVals
  Poked <- MCPoked
  NoTask = NoTask
  NoVal = NoVal
SPECIFICATION FairSpec
INVARIANTS TypeOK NothingLeftDirty Coherence
PROPERTIES Implements LockProgress
