SPECIFICATION Spec
CONSTANTS
  U32Max = 7
  U64Max = 15
  Vtxos <- MCVtxos
  DemoVtxo <- VtxoA
  DemoExit <- MCDemoExit
  DemoPayouts <- MCDemoPayouts
  Regtests <- MCRegtests
  Events = {"event"}
  Event = "event"
  Oracles = {"oracle"}
  Oracle = "oracle"
  Outcomes = {"above", "below"}
  DemoOutcome = "above"
  Spends <- MCSpends
  Tables <- MCTables
  Scripts = {"a", "b"}
  Malformed = Malformed
  MaxSpends = 1
  MaxOracle = 2
  MaxAccepted = 1
INVARIANTS
  OwnerAuthorized
  ValueAndDelay
  PaysAsAttested
  OwnerExitNeverRefused
  DemosAsExpected

