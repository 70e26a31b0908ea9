CONSTANTS
  PolicyDigest = "policy"
  BatchImage = "batch"
  LeafImages = {"xpriv"}
  ForeignImages = {"other"}
  Bodies = {"a", "b"}
  Kinds = {2, 3}
  ReceiptKinds = {"succinct"}
  Given <- MCGivenForeign
  Forged <- MCForged
  MaxLeaves = 2
  Processes = {"p", "q"}
  Slots = {"s1", "s2"}
  ProofSlots = {"x"}
  Ops = {"leaf", "prove", "execute"}
  GivenSlots <- MCGivenForeignSlots
  MaxRuns = 3
SPECIFICATION LaneSpec
CHECK_DEADLOCK FALSE
INVARIANTS
  LaneTypeOK
  LoadedGenuine
  GuestAgreesWithHost
PROPERTY
  ImplementsLedger
