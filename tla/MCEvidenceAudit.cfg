SPECIFICATION AuditSpec
CONSTANTS
  Networks = {"regtest"}
  Network = "regtest"
  Claims = {"generic", "unregistered"}
  Proofs = {"proof of generic", "invalid"}
  Checks = {"csv mature"}
  Materials <- MCMaterials
  HonestProof <- MCHonestProof
  HonestCheck = "csv mature"
  Cases = {"honest_true"}
  PinnedClaim <- MCPinnedClaim
  n1 = n1
  n2 = n2
  Nonces = {n1, n2}
  Operators = {"operator"}
  Operator = "operator"
  Malformed = Malformed
  ForeignCores <- MCForeignCores
  MaxGates = 2
  MaxAttestations = 2
  HonestCase = "honest_true"
  Absent = Absent
  MaxEdits = 1
SYMMETRY NonceSymmetry
INVARIANTS
  
  
  AuditedOnTruth
  IssuedIsAuditable
