CONSTANTS
  HardenedKeyStart = 4
  Purpose = 2
  MaxPathDepth = 5
  DefaultSeed = "vector"
  IllSizedSeeds = {"short"}
  InvalidKeys = {"zero"}
  Processes = {"p"}
  Slots = {"s"}
  Lanes = {"xpub"}
  Witnesses <- MCWitnesses
  Expectations <- MCExpectations
  Foreign <- MCForeign
  ReceiptKinds = {""}
  MaxRuns = 1
SPECIFICATION Spec
CHECK_DEADLOCK FALSE
INVARIANT XPubTakesAStep
