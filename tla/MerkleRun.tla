----------------------------- MODULE MerkleRun -----------------------------
(***************************************************************************)
(* BuildProof followed by VerifyProof, loop iteration by loop iteration    *)
(* (batchclaim/merkle.go).  A prover builds the proof of one leaf of a     *)
(* batch; a verifier who knows only the root is then presented a proof:    *)
(* the one that was built, or any other one whose siblings are digests of  *)
(* the tree or foreign digests, of any number and in any order, for any    *)
(* leaf index and leaf claim.                                              *)
(*                                                                         *)
(* trail is a history of the loop: trail[k].nodes and trail[k].at are the  *)
(* code's nodes and currentIndex when the loop condition is tested for the *)
(* k-th time.  Its last element is their current value.                    *)
(***************************************************************************)
EXTENDS MerkleTree

CONSTANTS
  Claims,        \* leaf claims
  Batches,       \* the ordered leaf lists a proof is built for
  Foreign,       \* digests of other trees that a proof may present
  LeafIndices,   \* leaf indices a presented proof may name (a uint32)
  MaxSiblings    \* bound on the length of a presented sibling list

ASSUME BatchesAssumption == Batches \subseteq Seq(Claims) \ {<<>>}
ASSUME LeafIndicesAssumption == LeafIndices \subseteq Nat

VARIABLES
  pc,        \* "idle", "build", "built", "walk" or "done"
  leaves,    \* the batch
  trail,     \* the levels and indices BuildProof has gone through
  siblings,  \* proof.Siblings of the proof being built
  proof,     \* the proof presented to VerifyProof
  walked,    \* how many siblings VerifyProof has consumed
  index,     \* VerifyProof's index
  current,   \* VerifyProof's current
  verdict    \* what VerifyProof returned

vars == <<pc, leaves, trail, siblings, proof, walked, index, current, verdict>>

Nodes        == trail[Len(trail)].nodes
CurrentIndex == trail[Len(trail)].at
TreeRoot     == Nodes[1]

NoProof == [leafIndex |-> 0, leafCount |-> 0, leafClaim |-> <<>>,
            siblings |-> <<>>]

BuiltProof ==
  [leafIndex |-> trail[1].at,
   leafCount |-> Len(leaves),
   leafClaim |-> leaves[trail[1].at + 1],
   siblings  |-> siblings]

Digests == Foreign \cup UNION {{trail[k].nodes[i] : i \in 1..Len(trail[k].nodes)}
                                 : k \in 1..Len(trail)}

Init ==
  /\ pc = "idle"
  /\ leaves = <<>>
  /\ trail = <<>>
  /\ siblings = <<>>
  /\ proof = NoProof
  /\ walked = 0
  /\ index = 0
  /\ current = <<>>
  /\ verdict = FALSE

-----------------------------------------------------------------------------
(* BuildProof *)

StartBuild(batch, i) ==
  /\ pc = "idle"
  /\ i \in 0..(Len(batch) - 1)
  /\ pc' = "build"
  /\ leaves' = batch
  /\ trail' = <<[nodes |-> LeafNodes(batch), at |-> i]>>
  /\ UNCHANGED <<siblings, proof, walked, index, current, verdict>>

BuildRound ==
  /\ pc = "build"
  /\ Len(Nodes) > 1
  /\ siblings' = Append(siblings, Nodes[SiblingIndex(Nodes, CurrentIndex) + 1])
  /\ trail' = Append(trail, [nodes |-> NextLevel(Nodes),
                             at    |-> CurrentIndex \div 2])
  /\ UNCHANGED <<pc, leaves, proof, walked, index, current, verdict>>

FinishBuild ==
  /\ pc = "build"
  /\ Len(Nodes) <= 1
  /\ pc' = "built"
  /\ UNCHANGED <<leaves, trail, siblings, proof, walked, index, current, verdict>>

-----------------------------------------------------------------------------
(* VerifyProof against TreeRoot *)

StartVerify(p) ==
  /\ pc = "built"
  /\ proof' = p
  /\ IF p.leafCount = 0
     THEN /\ pc' = "done"
          /\ UNCHANGED <<walked, index, current, verdict>>
     ELSE /\ pc' = "walk"
          /\ walked' = 0
          /\ index' = p.leafIndex
          /\ current' = LeafHash(p.leafIndex, p.leafClaim)
          /\ UNCHANGED verdict
  /\ UNCHANGED <<leaves, trail, siblings>>

PresentBuilt == StartVerify(BuiltProof)

PresentOther ==
  \E i \in LeafIndices, n \in {0, Len(leaves)}, c \in Claims, m \in 0..MaxSiblings :
    \E s \in [1..m -> Digests] :
      StartVerify([leafIndex |-> i, leafCount |-> n, leafClaim |-> c,
                   siblings |-> s])

(* Mutant: the index is not halved.                                        *)
WalkRoundSameIndex ==
  /\ pc = "walk"
  /\ walked < Len(proof.siblings)
  /\ current' = Combine(index, current, proof.siblings[walked + 1])
  /\ walked' = walked + 1
  /\ UNCHANGED <<pc, leaves, trail, siblings, proof, index, verdict>>

WalkRound ==
  /\ pc = "walk"
  /\ walked < Len(proof.siblings)
  /\ current' = Combine(index, current, proof.siblings[walked + 1])
  /\ index' = index \div 2
  /\ walked' = walked + 1
  /\ UNCHANGED <<pc, leaves, trail, siblings, proof, verdict>>

FinishVerify ==
  /\ pc = "walk"
  /\ walked = Len(proof.siblings)
  /\ pc' = "done"
  /\ verdict' = (current = TreeRoot)
  /\ UNCHANGED <<leaves, trail, siblings, proof, walked, index, current>>

Next ==
  \/ \E batch \in Batches : \E i \in 0..(Len(batch) - 1) : StartBuild(batch, i)
  \/ BuildRound
  \/ FinishBuild
  \/ PresentBuilt
  \/ PresentOther
  \/ WalkRound
  \/ FinishVerify

Spec == Init /\ [][Next]_vars

-----------------------------------------------------------------------------
IsTrail ==
  /\ Len(trail) > 0
  /\ \A k \in 1..Len(trail) :
       /\ Len(trail[k].nodes) \in Nat \ {0}
       /\ trail[k].at \in 0..(Len(trail[k].nodes) - 1)

(* Types of the loop variables: in particular currentIndex always indexes  *)
(* into nodes (BuildProof never reads beyond a level).                     *)
TypeOK ==
  /\ pc \in {"idle", "build", "built", "walk", "done"}
  /\ walked \in Nat
  /\ index \in Nat
  /\ verdict \in BOOLEAN
  /\ pc # "idle" => /\ leaves \in Batches
                    /\ IsTrail
                    /\ Len(trail) = Len(siblings) + 1

(* merkle.go:88-147: a proof BuildProof returns is accepted by VerifyProof *)
(* against the root of the same leaves, for every leaf count, the odd      *)
(* levels with their duplicated last node included.                        *)
BuiltProofVerifies ==
  pc = "done" /\ proof = BuiltProof => verdict

(* docs/batch-merkle-system.md "a valid inclusion proof can only be        *)
(* constructed from the genuine ordered leaf set": whatever siblings are   *)
(* presented, and although VerifyProof compares neither LeafIndex with     *)
(* LeafCount nor the number of siblings with the height of the tree, an    *)
(* accepted proof discloses the claim that is at that index of the batch.  *)
AcceptedLeafIsInBatch ==
  pc = "done" /\ verdict =>
    /\ proof.leafIndex < Len(leaves)
    /\ proof.leafClaim = leaves[proof.leafIndex + 1]

(* The root determines the whole ordered leaf list, its length included:   *)
(* duplicating an odd last node does not make two batches share a root.    *)
RootBindsBatch ==
  pc = "built" => \A other \in Batches : Root(other) = TreeRoot => other = leaves

(* The loops compute the functions Root, BuildProof and VerifyProof of     *)
(* MerkleTree that the other modules call.                                 *)
LoopsComputeFunctions ==
  pc = "done" => /\ TreeRoot = Root(leaves)
                 /\ BuiltProof = BuildProof(leaves, trail[1].at)
                 /\ verdict = VerifyProof(TreeRoot, proof)
=============================================================================
