CONSTANTS
  MaxDev = 3
  Kinds = {"absent", "foreign", "unknown", "input", "output"}
  Faults = {"busy", "lost", "abort", "early", "late"}
SPECIFICATION FairSpec
INVARIANTS TypeOK LockReleased TableSorted IndexesDense IdentityIsOwn
  AnswersMatch CompleteScan
PROPERTIES ScanEnds
