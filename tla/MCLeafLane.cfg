CONSTANTS
  HardenedKeyStart = 4
  Purpose = 2
  MaxPathDepth = 5
  DefaultSeed = "vector"
  IllSizedSeeds = {"short"}
  InvalidKeys = {"zero"}
  Processes = {p, q}
  Slots = {"s"}
  Lanes = {"taproot", "xpriv", "xpub"}
  Witnesses <- MCWitnesses
  Expectations <- MCExpectations
  Foreign <- MCForeign
  ReceiptKinds = {""}
  MaxRuns = 3
SYMMETRY MCProcesses
SPECIFICATION Spec
CHECK_DEADLOCK FALSE
INVARIANTS
  LTypeOK
  StatementsHold
  ReportTruthful
  TruthAccepted
  HostAgreesWithGuest
