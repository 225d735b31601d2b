SPECIFICATION Spec
CONSTANTS
  None = none
  Writers = {w1, w2}
  Targets = {"state.json", "items/q/current.json", "sheet.json"}
  Sheets = {"sheet.json"}
  Fresh = {"items/q/current.json"}
  MaxVersion = 3
INVARIANTS TypeOK NeverTorn AckedSurvives
PROPERTIES SheetsKept ImplementsAtomicFile
CHECK_DEADLOCK FALSE
