SPECIFICATION FairSpec
CONSTANTS
  Waiting = 1
INVARIANTS TypeOK TablesAgree NeverLeftDisabled
PROPERTIES BackInService LossReported
