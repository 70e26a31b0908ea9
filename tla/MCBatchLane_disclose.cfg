CONSTANTS
  PolicyDigest = "policy"
  BatchImage = "batch"
  LeafImages = {"xpriv"}
  ForeignImages = {}
  Bodies = {"a", "b"}
  Kinds = {2}
  ReceiptKinds = {"succinct"}
  Given <- MCGivenLeaves
  Forged = {}
  MaxLeaves = 2
  Processes = {p, q}
  Slots = {"s1", "s2"}
  ProofSlots = {"x"}
  Ops = {"prove", "derive", "verify"}
  GivenSlots <- MCGivenLeavesSlots
  MaxRuns = 3
SYMMETRY MCProcesses
SPECIFICATION LaneSpec
CHECK_DEADLOCK FALSE
INVARIANTS
  ReportBacked
