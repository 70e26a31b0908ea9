---------------------------- MODULE MCMerkleRun ----------------------------
(* Bounds for TLC: every batch of up to MaxLeaves leaves over Claims, with *)
(* the proof the prover builds; proofs of other origin for those of up to  *)
(* MaxPresented leaves.                                                    *)
EXTENDS MerkleRun

CONSTANTS MaxLeaves, MaxPresented

MCBatches == UNION {[1..n -> Claims] : n \in 1..MaxLeaves}
MCIndices == 0..8

\* a leaf and an inner digest of a tree that is not the prover's
MCForeign == {LeafHash(9, "foreign"),
              InnerHash(LeafHash(9, "foreign"), LeafHash(9, "foreign"))}

MCSpec ==
  Init /\ [][(\/ \E batch \in Batches : \E i \in 0..(Len(batch) - 1) : StartBuild(batch, i)
              \/ BuildRound
              \/ FinishBuild
              \/ PresentBuilt
              \/ Len(leaves) <= MaxPresented /\ PresentOther
              \/ WalkRound
              \/ FinishVerify)]_vars
=============================================================================
