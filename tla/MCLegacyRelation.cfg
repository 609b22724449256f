SPECIFICATION Spec
CONSTANTS
  Prime = 101
  LimbMax = 47
  AmountMax = 47
  DelayMax = 47
  Sample <- MCSample
  Choices <- MCChoices
INVARIANTS
  CollisionsVerify
  CopiesAgree
  SingleChangeNoticed
