SPECIFICATION Spec
CONSTANTS
  Runs = {r1, r2}
  MaxEdits = 3
  EmitterSchemas = {"v2", "v3"}
  r1 = r1
  r2 = r2
CHECK_DEADLOCK FALSE
INVARIANTS
  BarkMovementDetected
  StaleUseIsLast
  SummaryNamesItsCase
  SummaryIsOneRun
