SPECIFICATION Spec
CONSTANTS
  Runs = {r1}
  MaxEdits = 0
  EmitterSchemas = {"v3"}
  r1 = r1
CHECK_DEADLOCK FALSE
PROPERTY OneRunCompletes
