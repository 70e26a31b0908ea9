CONSTANTS
  PolicyDigest = "policy"
  BatchImage = "batch"
  LeafImages = {"taproot", "xpriv"}
  ForeignImages = {}
  Bodies = {"a", "b"}
  Forged = {}
  Kinds = {1, 3}
  ReceiptKinds = {"succinct"}
  Given = {}
  MaxLeaves = 2
  MaxReceipts = 7
SPECIFICATION MCSpec
CHECK_DEADLOCK FALSE
INVARIANT SubtreesShareGuest
