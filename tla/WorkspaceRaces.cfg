SPECIFICATION Spec
CONSTANTS
  query = query refused = refused t1 = t1 t2 = t2 rej = rej i1 = i1 i2 = i2 a = a b = b
  None = none
  Procs = {a, b}
  Sources = {query, refused}
  Outcome <- NoItems
  Texts = {t1, rej}
  RejectionText = rej
  RiskItems = {}
  MaxRevision = 2
  MaxReviews = 1
SYMMETRY Symmetry
INVARIANTS TypeOK ExportedWasReviewed FinalWasReviewed ExportedIsRendered
PROPERTIES ReportsImmutable ImplementsCertifiedAnswers
CHECK_DEADLOCK FALSE
