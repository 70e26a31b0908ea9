---------------------------- MODULE MerkleTree -----------------------------
(***************************************************************************)
(* The Merkle tree of a batch (batchclaim/merkle.go) over an ideal hash:   *)
(* a digest is the term that was hashed, so that two digests are equal     *)
(* exactly when what was hashed is.  The 0x00/0x01 domain prefix of        *)
(* hashNode is the first component of the term, and the tag of LeafHash is *)
(* part of "leaf".                                                         *)
(*                                                                         *)
(* Leaves and nodes are sequences; the code's index i is element i + 1.    *)
(***************************************************************************)
EXTENDS Integers, Sequences

(* Mutants: a leaf hash without its index, a level that drops an odd last  *)
(* node or pairs every node with itself (right shadowed in the if), a walk *)
(* that ignores on which side the sibling is.                              *)
LeafHashUnindexed(index, leafClaim)       == <<"leaf", leafClaim>>
CombineUnordered(index, current, sibling) == <<"inner", current, sibling>>
NextLevelUnpaired(nodes) ==
  [i \in 1..(Len(nodes) \div 2) |-> <<"inner", nodes[2 * i - 1], nodes[2 * i]>>]

NextLevelShadowed(nodes) ==
  [i \in 1..((Len(nodes) + 1) \div 2) |-> <<"inner", nodes[2 * i - 1], nodes[2 * i - 1]>>]

LeafHash(index, leafClaim) == <<"leaf", index, leafClaim>>
InnerHash(left, right)     == <<"inner", left, right>>

LeafNodes(leaves) == [i \in 1..Len(leaves) |-> LeafHash(i - 1, leaves[i])]

(* nextLevel: adjacent nodes are paired, an odd last node with itself.     *)
NextLevel(nodes) ==
  [i \in 1..((Len(nodes) + 1) \div 2) |->
     InnerHash(nodes[2 * i - 1],
               IF 2 * i <= Len(nodes) THEN nodes[2 * i] ELSE nodes[2 * i - 1])]

(* BuildProof's siblingIndex: currentIndex ^ 1, or currentIndex when that  *)
(* is beyond the level.                                                    *)
SiblingIndex(nodes, currentIndex) ==
  LET flipped == IF currentIndex % 2 = 0 THEN currentIndex + 1
                                         ELSE currentIndex - 1
  IN  IF flipped >= Len(nodes) THEN currentIndex ELSE flipped

(* VerifyProof's loop body: the parent digest of current and a sibling.    *)
Combine(index, current, sibling) ==
  IF index % 2 = 0 THEN InnerHash(current, sibling)
                   ELSE InnerHash(sibling, current)

-----------------------------------------------------------------------------
(* The three functions as a caller sees them.  Level(leaves)[k] is nodes   *)
(* after k rounds of the loop; it is defined by recursion on k.            *)

Level(leaves) ==
  LET f[k \in Nat] == IF k = 0 THEN LeafNodes(leaves) ELSE NextLevel(f[k - 1])
  IN  f

(* The rounds that reduce the level to one node.                           *)
Height(leaves) == CHOOSE h \in 0..Len(leaves) :
                    /\ Len(Level(leaves)[h]) = 1
                    /\ \A k \in 0..(h - 1) : Len(Level(leaves)[k]) > 1

Root(leaves) == Level(leaves)[Height(leaves)][1]

(* currentIndex after k rounds of BuildProof.                              *)
IndexAbove(index) ==
  LET at[k \in Nat] == IF k = 0 THEN index ELSE at[k - 1] \div 2
  IN  at

BuildProof(leaves, index) ==
  LET level == Level(leaves)
      at    == IndexAbove(index)
  IN  [leafIndex |-> index,
       leafCount |-> Len(leaves),
       leafClaim |-> leaves[index + 1],
       siblings  |-> [k \in 1..Height(leaves) |->
                        level[k - 1][SiblingIndex(level[k - 1], at[k - 1]) + 1]]]

(* index and current after k rounds of VerifyProof.                        *)
Walk(proof) ==
  LET walk[k \in Nat] ==
        IF k = 0
        THEN [index   |-> proof.leafIndex,
              current |-> LeafHash(proof.leafIndex, proof.leafClaim)]
        ELSE [index   |-> walk[k - 1].index \div 2,
              current |-> Combine(walk[k - 1].index, walk[k - 1].current,
                                  proof.siblings[k])]
  IN  walk

VerifyProof(root, proof) ==
  /\ proof.leafCount # 0
  /\ Walk(proof)[Len(proof.siblings)].current = root
=============================================================================
