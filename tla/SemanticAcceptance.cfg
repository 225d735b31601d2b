SPECIFICATION Spec
CONSTANTS
  Items = {item}
  Reviewers = {"r1", "r2"}
  Blank = " "
  Constraints = {"field", "logic"}
  None = none
INVARIANTS TypeOK AcceptedUnanimously AdjudicationRecorded
