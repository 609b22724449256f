SPECIFICATION OuterSpec
CONSTANTS
  ProofLen = 2
  Selector = 9
  Zero = 0
  SignetSteps = 1
  SignetMemory = 1
  RegtestSteps = 2
  RegtestMemory = 2
  Keys = {"setup key", "fresh key"}
  SetupKeys = {"setup key"}
  Verifiers <- MCVerifiers
  StepCounts = {1, 2, 3}
  MemorySizes = {1, 2, 3}
CHECK_DEADLOCK FALSE
PROPERTIES
  CandidateFinal
  FailuresPersist
