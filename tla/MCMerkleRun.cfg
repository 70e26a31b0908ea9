CONSTANTS
  Claims = {"a", "b"}
  MaxLeaves = 7
  MaxPresented = 3
  Batches <- MCBatches
  LeafIndices <- MCIndices
  Foreign <- MCForeign
  MaxSiblings = 2
SPECIFICATION MCSpec
CHECK_DEADLOCK FALSE
INVARIANTS
  TypeOK
  AcceptedLeafIsInBatch
  LoopsComputeFunctions
  BuiltProofVerifies
  RootBindsBatch
