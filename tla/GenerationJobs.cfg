SPECIFICATION Spec
CONSTANTS
  None = none
  Requests = {r1, r2}
  Jobs = {j1, j2}
  Total = 2
  MaxRestarts = 1
INVARIANTS TypeOK JobFilesAddUp ThreadHoldsManager ProgressKept
PROPERTIES EndStays JobsEnd
CHECK_DEADLOCK FALSE
