CONSTANTS
  PolicyDigest = "policy"
  BatchImage = "batch"
  LeafImages = {"taproot", "xpriv"}
  ForeignImages = {"other"}
  Bodies = {"a", "b", "c"}
  Kinds = {1, 2, 3, 4}
  ReceiptKinds = {"succinct", "composite"}
  Given <- MCGiven
  Forged <- MCForged
  MaxLeaves = 2
  Plans <- MCPlans
  IndexWords <- MCIndexWords
  External <- MCExternal
  MaxRuns = 3
SPECIFICATION MCSpec
CHECK_DEADLOCK FALSE
INVARIANTS
  NTypeOK
  OutcomeAsPlanned
  TopAsPlanned
  ChainDisclosesPlan
  ArtifactsKept
PROPERTIES
  ImplementsLedger
  AchievablePlanCompletes
