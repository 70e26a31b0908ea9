CONSTANTS
  PolicyDigest = "policy"
  BatchImage = "batch"
  LeafImages = {"taproot", "xpriv"}
  ForeignImages = {"other"}
  Bodies = {"a", "b"}
  Forged <- MCForged
  Kinds = {1, 3}
  ReceiptKinds = {"succinct"}
  Given = {}
  MaxLeaves = 2
  ForeignOpenings <- MCForeignOpenings
  MaxReceipts = 5
  MaxOpened = 4
  MaxWithComposite = 3
  MaxWithForeign = 4
  MaxLevels = 3
SPECIFICATION MCSpec
CHECK_DEADLOCK FALSE
INVARIANT NestedClaimsProved
