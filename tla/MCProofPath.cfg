SPECIFICATION PathSpec
CONSTANTS
  ProofLen = 2
  Selector <- MCSelector
  Zero <- MCZero
  SignetSteps = 1
  SignetMemory = 1
  RegtestSteps = 2
  RegtestMemory = 2
  MaxByte = 2
  DigestLen = 2
  Modulus <- MCModulus
  Journals <- MCJournals
  ClaimDigest <- MCClaimDigest
  RawProofs <- MCRawProofs
  Names <- MCNames
  Repositories <- MCRepositories
  Repository <- MCRepository
  Nibble = 2
  MaxDelivered = 1
  MaxReceipts = 0
  MaxManifests = 1
  MaxFaults = 2
CHECK_DEADLOCK FALSE
PROPERTY EventuallyPublished
