SPECIFICATION FairSpec
CONSTANTS
  U32Max = 8
  U64Max = 15
  Policies <- MCPolicies
  BondPolicies <- MCBondPolicies
  Watchers = {"w1", "w2"}
INVARIANTS
  SlashedInTime
  BondCovers
PROPERTIES
  DecisionsStable
  InvalidEventuallySlashed
  HonestEventuallyTakes
