CONSTANTS
  PolicyDigest = "policy"
  BatchImage = "batch"
  LeafImages = {"taproot", "xpriv"}
  ForeignImages = {"other"}
  Bodies = {"a", "b", "c"}
  Kinds = {1, 2, 3, 4}
  ReceiptKinds = {"succinct", "composite"}
  Given <- MCGiven
  Forged <- MCForged
  MaxLeaves = 2
  Plans <- MCNames
  IndexWords <- MCIndexWords
  External <- MCExternal
  MaxRuns = 1
SPECIFICATION Spec
CHECK_DEADLOCK FALSE
INVARIANT ArtifactsKept
