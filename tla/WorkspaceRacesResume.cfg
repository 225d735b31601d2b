SPECIFICATION Spec
CONSTANTS
  query = query refused = refused t1 = t1 t2 = t2 rej = rej i1 = i1 i2 = i2 a = a b = b
  None = none
  Procs = {a, b}
  Sources = {query, refused}
  Outcome <- MCOutcome
  Texts = {t1, t2, rej}
  RejectionText = rej
  RiskItems = {i1, i2}
  MaxRevision = 2
  MaxReviews = 1
SYMMETRY Symmetry
INVARIANT ResumedGenerationComplete
CHECK_DEADLOCK FALSE
