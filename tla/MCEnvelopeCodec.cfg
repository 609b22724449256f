SPECIFICATION Spec
CONSTANTS
  Base = 4
  MaxVtxo = 1
  MaxTransaction = 2
  MaxScript = 1
  MaxOutcome = 1
  MaxPrevouts = 2
  MaxPayouts = 2
  MaxEnvelope = 23
  Samples <- MCSamples
  Alterations <- MCAlterations
INVARIANTS
  TypeOK
  Canonical
  RoundTrip
CHECK_DEADLOCK FALSE
