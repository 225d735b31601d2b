SPECIFICATION Spec
CONSTANTS
  a = a b = b q1 = q1 q2 = q2
  None = none
  Procs = {a, b}
  Ids = {q1, q2}
  PackageIds = {"P1", "P2"}
  Documents <- MCDocuments
  OutputPaths = {"out"}
  MaxJobs = 2
  MaxConfirmations = 1
SYMMETRY Symmetry
INVARIANTS TypeOK PackageLoads SheetsComplete StateJobHasFile StateNamesRun
CHECK_DEADLOCK FALSE
