CONSTANTS
  MaxDev = 3
  Kinds = {"absent", "input"}
  Faults = {"early"}
SPECIFICATION Spec
INVARIANTS EveryNodeAsked
