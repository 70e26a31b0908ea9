CONSTANTS
  HardenedKeyStart = 4
  Purpose = 2
  MaxPathDepth = 5
  DefaultSeed = "vector"
  IllSizedSeeds = {"short"}
  InvalidKeys = {"zero"}
  PolicyDigest = "policy"
  PathTexts <- MCPathTexts
  HexTexts <- MCHexTexts
  UintTexts <- MCUintTexts
  Script <- MCScript
  Lines <- MCLines
  Given = {}
  MaxLeaves = 2
  MaxWrites = 40
  MaxFaults = 0
SPECIFICATION MakeSpec
CHECK_DEADLOCK FALSE
INVARIANT DocumentedCommandsSucceed
