SPECIFICATION Spec
CONSTANTS
  q1 = q1 q2 = q2 risky = risky refused = refused classified = classified
  unknown = unknown t = t rej = rej i1 = i1 i2 = i2 e1 = e1 p1 = p1 p2 = p2
  None = none
  Questions = {q1}
  Sources = {risky, refused, classified, unknown}
  Packages = {p1, p2}
  Asks <- RewordedAsks
  Outcome <- MCOutcome
  Texts = {t, rej}
  RejectionText = rej
  RiskItems = {i1, i2}
  EvidenceIds = {e1}
  Documented = {e1}
  OutputPaths = {"out"}
  MaxRevision <- MCMaxRevision
  MaxReviews <- MCMaxReviews
INVARIANT ExportedForPackageWording
CHECK_DEADLOCK FALSE
