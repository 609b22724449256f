SPECIFICATION Spec
CONSTANTS
  Networks = {"regtest", "other"}
  Network = "regtest"
  Claims = {"generic", "bark", "unregistered"}
  Proofs = {"proof of generic", "proof of bark"}
  Checks = {"csv mature", "csv immature"}
  Materials <- MCMaterials
  HonestProof <- MCHonestProof
  HonestCheck = "csv mature"
  Cases = {"honest_true", "bark_true"}
  PinnedClaim <- MCPinnedClaim
  n1 = n1
  n2 = n2
  Nonces = {n1, n2}
  Operators = {"operator", "other operator"}
  Operator = "operator"
  Malformed = Malformed
  ForeignCores <- MCForeignCores
  MaxGates = 2
  MaxAttestations = 2
SYMMETRY NonceSymmetry
INVARIANTS
  TypeOK
  AttestationUsedOnce
  AdmittedOnTruth
  SpentIffIssued
  HonestNeverBlocked
  ReplayReported
PROPERTIES
  ImplementsLedger

