CONSTANTS
  HardenedKeyStart = 4
  Purpose = 2
  MaxPathDepth = 5
  DefaultSeed = "vector"
  IllSizedSeeds = {"short"}
  InvalidKeys = {"zero"}
  PolicyDigest = "policy"
  PathTexts <- MCPathTexts
  HexTexts <- MCHexTexts
  UintTexts <- MCUintTexts
  Lines <- MCLines
  Given <- MCGiven
  MaxLeaves = 2
  MaxWrites = 5
  MaxFaultyWrites = 2
  MaxFaults = 1
SPECIFICATION MCSpec
CHECK_DEADLOCK FALSE
INVARIANTS
  STypeOK
  VerifiedAsTyped
  ChainReachesWitness
  ProvedPairUsable
PROPERTIES
  InputsInOrder
  ProofsAreKept
  LoadableBatchProves
  ImplementsLedger
