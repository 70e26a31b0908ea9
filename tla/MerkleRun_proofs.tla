-------------------------- MODULE MerkleRun_proofs -------------------------
(***************************************************************************)
(* For every batch and every presented proof: the loops of BuildProof and  *)
(* VerifyProof compute the functions of MerkleTree, so that what           *)
(* Guests_proofs says of those functions holds of the run.  Nothing        *)
(* bounds the batch, the sibling list or the foreign digests.              *)
(***************************************************************************)
EXTENDS MerkleRun, Guests_proofs

(* The history is the run of BuildProof's loop: it has gone up the levels  *)
(* of the tree, and none of those it has left was the root.                *)
TrailOK ==
  /\ IsSeq(trail)
  /\ IsSeq(siblings)
  /\ Len(trail) = Len(siblings) + 1
  /\ trail[1].at \in 0..(Len(leaves) - 1)
  /\ \A k \in 1..Len(trail) :
       /\ trail[k].nodes = Level(leaves)[k - 1]
       /\ trail[k].at = IndexAbove(trail[1].at)[k - 1]
       /\ trail[k].at \in 0..(Len(trail[k].nodes) - 1)
  /\ \A k \in 1..Len(siblings) :
       /\ Len(trail[k].nodes) > 1
       /\ siblings[k] = trail[k].nodes[SiblingIndex(trail[k].nodes, trail[k].at) + 1]

(* VerifyProof's loop variables are those of the walk.                     *)
WalkOK ==
  /\ proof.leafCount # 0
  /\ Len(proof.siblings) \in Nat
  /\ walked <= Len(proof.siblings)
  /\ index = Walk(proof)[walked].index
  /\ current = Walk(proof)[walked].current

MerkleInv ==
  /\ TypeOK
  /\ pc # "idle" => TrailOK
  /\ pc = "idle" => trail = <<>> /\ siblings = <<>>
  /\ pc # "done" => verdict = FALSE
  /\ pc \in {"built", "walk", "done"} => Len(Nodes) = 1
  /\ pc = "walk" => WalkOK
  /\ pc = "done" => /\ Len(proof.siblings) \in Nat
                    /\ verdict = VerifyProof(TreeRoot, proof)

-----------------------------------------------------------------------------
LEMMA BatchesAreSeqs ==
  ASSUME NEW batch \in Batches
  PROVE  IsSeq(batch) /\ Len(batch) \in Nat \ {0}
<1>1. batch \in Seq(Claims) /\ batch # <<>>
  BY BatchesAssumption
<1> QED
  BY <1>1 DEF IsSeq

(* The last entry of the history holds the current level and index.        *)
LEMMA TopOfTrail ==
  ASSUME TrailOK, leaves \in Batches
  PROVE  /\ Len(trail) \in Nat \ {0}
         /\ Nodes = Level(leaves)[Len(siblings)]
         /\ CurrentIndex = IndexAbove(trail[1].at)[Len(siblings)]
         /\ Len(siblings) \in Nat
         /\ Len(Nodes) \in Nat \ {0}
         /\ CurrentIndex \in 0..(Len(Nodes) - 1)
<1>1. Len(siblings) \in Nat /\ Len(trail) = Len(siblings) + 1
  BY DEF TrailOK, IsSeq
<1>2. Len(trail) \in 1..Len(trail) /\ Len(trail) - 1 = Len(siblings)
  BY <1>1
<1>3. /\ trail[Len(trail)].nodes = Level(leaves)[Len(trail) - 1]
      /\ trail[Len(trail)].at = IndexAbove(trail[1].at)[Len(trail) - 1]
      /\ trail[Len(trail)].at \in 0..(Len(trail[Len(trail)].nodes) - 1)
  BY <1>2 DEF TrailOK
<1>4. Len(Level(leaves)[Len(siblings)]) \in Nat \ {0}
  BY <1>1, BatchesAreSeqs, LevelLen
<1> QED
  BY <1>1, <1>2, <1>3, <1>4 DEF Nodes, CurrentIndex

LEMMA TrailIsTrail ==
  ASSUME TrailOK, leaves \in Batches
  PROVE  IsTrail
<1>1. Len(trail) > 0
  BY TopOfTrail
<1>2. ASSUME NEW k \in 1..Len(trail)
      PROVE  /\ Len(trail[k].nodes) \in Nat \ {0}
             /\ trail[k].at \in 0..(Len(trail[k].nodes) - 1)
  <2>1. k - 1 \in Nat
    BY TopOfTrail
  <2>2. Len(Level(leaves)[k - 1]) \in Nat \ {0}
    BY <2>1, BatchesAreSeqs, LevelLen
  <2>3. /\ trail[k].nodes = Level(leaves)[k - 1]
        /\ trail[k].at \in 0..(Len(trail[k].nodes) - 1)
    BY DEF TrailOK
  <2> QED
    BY <2>2, <2>3
<1> QED
  BY <1>1, <1>2 DEF IsTrail

(* When one node is left, the loop has computed Root and BuildProof.       *)
LEMMA BuildComputes ==
  ASSUME TrailOK, leaves \in Batches, Len(Nodes) = 1
  PROVE  /\ TreeRoot = Root(leaves)
         /\ BuiltProof = BuildProof(leaves, trail[1].at)
<1> DEFINE n == Len(siblings)
<1>1. n \in Nat /\ Nodes = Level(leaves)[n]
  BY TopOfTrail
<1>2. Len(leaves) \in Nat \ {0}
  BY BatchesAreSeqs
<1>3. Height(leaves) = n
  <2> DEFINE h == Height(leaves)
  <2>1. /\ h \in 0..Len(leaves)
        /\ Len(Level(leaves)[h]) = 1
        /\ \A k \in 0..(h - 1) : Len(Level(leaves)[k]) > 1
    BY <1>2, HeightIs
  <2>2. \A k \in 0..(n - 1) : Len(Level(leaves)[k]) > 1
    <3> TAKE k \in 0..(n - 1)
    <3>1. k + 1 \in 1..n /\ k + 1 \in 1..Len(trail) /\ (k + 1) - 1 = k
      BY <1>1 DEF TrailOK
    <3> QED
      BY <3>1 DEF TrailOK
  <2>3. Len(Level(leaves)[n]) = 1
    BY <1>1
  <2>4. h \in Nat
    BY <1>2, <2>1
  <2> HIDE DEF h, n
  <2>5. ASSUME h < n PROVE FALSE
    <3>1. h \in 0..(n - 1)
      BY <1>1, <2>4, <2>5
    <3>2. Len(Level(leaves)[h]) > 1
      BY <2>2, <3>1
    <3> QED
      BY <2>1, <3>2
  <2>6. ASSUME n < h PROVE FALSE
    <3>1. n \in 0..(h - 1)
      BY <1>1, <2>4, <2>6
    <3>2. Len(Level(leaves)[n]) > 1
      BY <2>1, <3>1
    <3> QED
      BY <2>3, <3>2
  <2>7. h = n
    BY <1>1, <2>4, <2>5, <2>6
  <2> QED
    BY <2>7 DEF h
<1>4. TreeRoot = Root(leaves)
  BY <1>1, <1>3 DEF TreeRoot, Root
<1>5. siblings = BuildProof(leaves, trail[1].at).siblings
  <2> DEFINE s == [k \in 1..n |->
                     Level(leaves)[k - 1][SiblingIndex(Level(leaves)[k - 1],
                                            IndexAbove(trail[1].at)[k - 1]) + 1]]
  <2>1. siblings = [k \in 1..n |-> siblings[k]]
    BY DEF TrailOK, IsSeq
  <2>2. \A k \in 1..n : siblings[k] = s[k]
    <3> TAKE k \in 1..n
    <3>1. k \in 1..Len(trail)
      BY <1>1 DEF TrailOK
    <3>2. siblings[k] = trail[k].nodes[SiblingIndex(trail[k].nodes, trail[k].at) + 1]
      BY DEF TrailOK
    <3>3. trail[k].nodes = Level(leaves)[k - 1]
          /\ trail[k].at = IndexAbove(trail[1].at)[k - 1]
      BY <3>1 DEF TrailOK
    <3> QED
      BY <3>2, <3>3
  <2>3. BuildProof(leaves, trail[1].at).siblings = s
    BY <1>3 DEF BuildProof
  <2>4. s = [k \in 1..n |-> s[k]]
    OBVIOUS
  <2> HIDE DEF s, n
  <2> QED
    BY <2>1, <2>2, <2>3, <2>4
<1>6. /\ BuildProof(leaves, trail[1].at).leafIndex = trail[1].at
      /\ BuildProof(leaves, trail[1].at).leafCount = Len(leaves)
      /\ BuildProof(leaves, trail[1].at).leafClaim = leaves[trail[1].at + 1]
  BY DEF BuildProof
<1>7. BuildProof(leaves, trail[1].at) =
        [leafIndex |-> trail[1].at, leafCount |-> Len(leaves),
         leafClaim |-> leaves[trail[1].at + 1], siblings |-> siblings]
  BY <1>5, <1>6 DEF BuildProof
<1> QED
  BY <1>4, <1>7 DEF BuiltProof

-----------------------------------------------------------------------------
(* The steps of the inductive argument, one lemma per action.              *)

LEMMA StartBuildStep ==
  ASSUME MerkleInv, NEW batch \in Batches, NEW i \in 0..(Len(batch) - 1),
         StartBuild(batch, i)
  PROVE  MerkleInv'
<1>1. IsSeq(batch) /\ Len(batch) \in Nat \ {0}
  BY BatchesAreSeqs
<1>2. /\ pc = "idle" /\ pc' = "build" /\ leaves' = batch
      /\ trail' = <<[nodes |-> LeafNodes(batch), at |-> i]>>
      /\ siblings' = <<>> /\ walked' = walked /\ index' = index
      /\ verdict' = verdict
  BY DEF StartBuild, MerkleInv
<1>3. Len(LeafNodes(batch)) = Len(batch)
  BY <1>1, LeafNodesLen
<1>4. /\ IsSeq(trail') /\ Len(trail') = 1 /\ IsSeq(siblings') /\ Len(siblings') = 0
      /\ trail'[1].nodes = LeafNodes(batch) /\ trail'[1].at = i
  BY <1>2 DEF IsSeq
<1>5. Level(batch)[0] = LeafNodes(batch) /\ IndexAbove(i)[0] = i
  BY LevelUnfolds, IndexUnfolds
<1>6. TrailOK'
  BY <1>1, <1>2, <1>3, <1>4, <1>5 DEF TrailOK
<1>7. IsTrail'
  BY <1>1, <1>3, <1>4 DEF IsTrail
<1>8. TypeOK'
  BY <1>2, <1>4, <1>7 DEF TypeOK, MerkleInv
<1> QED
  BY <1>2, <1>6, <1>8 DEF MerkleInv

LEMMA BuildRoundStep ==
  ASSUME MerkleInv, BuildRound
  PROVE  MerkleInv'
<1> DEFINE n   == Len(trail)
           sib == Nodes[SiblingIndex(Nodes, CurrentIndex) + 1]
           up  == [nodes |-> NextLevel(Nodes), at |-> CurrentIndex \div 2]
<1>1. /\ pc = "build" /\ pc' = pc /\ leaves' = leaves /\ Len(Nodes) > 1
      /\ siblings' = Append(siblings, sib)
      /\ trail' = Append(trail, up)
      /\ walked' = walked /\ index' = index /\ verdict' = verdict
  BY DEF BuildRound
<1>2. TrailOK /\ TypeOK /\ leaves \in Batches
  BY <1>1 DEF MerkleInv, TypeOK
<1>3. /\ n \in Nat /\ n > 0 /\ n = Len(siblings) + 1
      /\ Nodes = trail[n].nodes /\ CurrentIndex = trail[n].at
      /\ Nodes = Level(leaves)[n - 1]
      /\ CurrentIndex = IndexAbove(trail[1].at)[n - 1]
      /\ Len(Nodes) \in Nat /\ CurrentIndex \in 0..(Len(Nodes) - 1)
  <2>1. n = Len(siblings) + 1
    BY <1>2 DEF TrailOK
  <2>2. n - 1 = Len(siblings)
    BY <1>2, <2>1, TopOfTrail
  <2> QED
    BY <1>2, <2>1, <2>2, TopOfTrail DEF Nodes, CurrentIndex
<1>4. /\ IsSeq(trail') /\ Len(trail') = n + 1 /\ trail'[n + 1] = up
      /\ \A k \in 1..n : trail'[k] = trail[k]
  BY <1>1, <1>2, AppendSeq DEF TrailOK
<1>5. /\ IsSeq(siblings') /\ Len(siblings') = n /\ siblings'[n] = sib
      /\ \A k \in 1..(n - 1) : siblings'[k] = siblings[k]
  BY <1>1, <1>2, <1>3, AppendSeq DEF TrailOK
<1>6. trail'[1] = trail[1]
  BY <1>3, <1>4
<1>7. /\ NextLevel(Nodes) = Level(leaves)[n]
      /\ CurrentIndex \div 2 = IndexAbove(trail[1].at)[n]
  <2>1. n - 1 \in Nat /\ (n - 1) + 1 = n
    BY <1>3
  <2>2. /\ Level(leaves)[(n - 1) + 1] = NextLevel(Level(leaves)[n - 1])
        /\ IndexAbove(trail[1].at)[(n - 1) + 1] = IndexAbove(trail[1].at)[n - 1] \div 2
    BY <2>1, LevelUnfolds, IndexUnfolds
  <2> QED
    BY <1>3, <2>1, <2>2
<1>8. CurrentIndex \div 2 \in 0..(Len(NextLevel(Nodes)) - 1)
  BY <1>3, CombineIsParent
<1>9. ASSUME NEW k \in 1..(n + 1)
      PROVE  /\ trail'[k].nodes = Level(leaves)[k - 1]
             /\ trail'[k].at = IndexAbove(trail[1].at)[k - 1]
             /\ trail'[k].at \in 0..(Len(trail'[k].nodes) - 1)
  <2>1. CASE k \in 1..n
    BY <1>2, <1>4, <2>1 DEF TrailOK
  <2>2. CASE k = n + 1
    <3>1. k - 1 = n
      BY <1>3, <2>2
    <3>2. trail'[k].nodes = NextLevel(Nodes) /\ trail'[k].at = CurrentIndex \div 2
      BY <1>4, <2>2
    <3> QED
      BY <1>7, <1>8, <3>1, <3>2
  <2> QED
    BY <1>3, <2>1, <2>2
<1>10. ASSUME NEW k \in 1..n
       PROVE  /\ Len(trail'[k].nodes) > 1
              /\ siblings'[k] = trail'[k].nodes[
                                   SiblingIndex(trail'[k].nodes, trail'[k].at) + 1]
  <2>1. CASE k \in 1..(n - 1)
    <3>1. k \in 1..Len(siblings)
      BY <1>3, <2>1
    <3> QED
      BY <1>2, <1>4, <1>5, <2>1, <3>1 DEF TrailOK
  <2>2. CASE k = n
    BY <1>1, <1>3, <1>4, <1>5, <2>2
  <2> QED
    BY <1>3, <2>1, <2>2
<1>11. TrailOK'
  <2>1. trail'[1].at \in 0..(Len(leaves') - 1)
    BY <1>1, <1>2, <1>6 DEF TrailOK
  <2> QED
    BY <1>1, <1>4, <1>5, <1>6, <1>9, <1>10, <2>1 DEF TrailOK
<1>12. TypeOK'
  <2>1. (TrailOK /\ leaves \in Batches => IsTrail)'
    BY TrailIsTrail, PTL
  <2> QED
    BY <1>1, <1>2, <1>4, <1>5, <1>11, <2>1 DEF TypeOK
<1> QED
  BY <1>1, <1>11, <1>12 DEF MerkleInv

LEMMA FinishBuildStep ==
  ASSUME MerkleInv, FinishBuild
  PROVE  MerkleInv'
<1>1. /\ pc = "build" /\ pc' = "built" /\ Len(Nodes) <= 1
      /\ leaves' = leaves /\ trail' = trail /\ siblings' = siblings
      /\ walked' = walked /\ index' = index /\ verdict' = verdict
  BY DEF FinishBuild
<1>2. TrailOK /\ TypeOK /\ leaves \in Batches
  BY <1>1 DEF MerkleInv, TypeOK
<1>3. Len(Nodes) = 1
  <2>1. Len(Nodes) \in Nat \ {0}
    BY <1>2, TopOfTrail
  <2>2. \A x \in Nat \ {0} : x <= 1 => x = 1
    OBVIOUS
  <2> QED
    BY <1>1, <2>1, <2>2, Zenon
<1>4. TrailOK' /\ Nodes' = Nodes
  BY <1>1, <1>2 DEF TrailOK, Nodes
<1>5. TypeOK'
  BY <1>1, <1>2 DEF TypeOK, IsTrail
<1> QED
  BY <1>1, <1>3, <1>4, <1>5 DEF MerkleInv

LEMMA StartVerifyStep ==
  ASSUME MerkleInv, NEW p, StartVerify(p),
         p.leafIndex \in Nat, IsSeq(p.siblings)
  PROVE  MerkleInv'
<1>1. /\ pc = "built" /\ pc' \in {"walk", "done"} /\ proof' = p
      /\ leaves' = leaves /\ trail' = trail /\ siblings' = siblings
      /\ verdict' = verdict
  BY DEF StartVerify
<1>2. TrailOK /\ TypeOK /\ Len(Nodes) = 1 /\ verdict = FALSE
  BY <1>1 DEF MerkleInv
<1>3. TrailOK' /\ Nodes' = Nodes
  BY <1>1, <1>2 DEF TrailOK, Nodes
<1>4. Len(p.siblings) \in Nat
  BY DEF IsSeq
<1>5. CASE p.leafCount = 0
  <2>1. pc' = "done" /\ walked' = walked /\ index' = index
    BY <1>5 DEF StartVerify
  <2>2. TypeOK'
    BY <1>1, <1>2, <2>1 DEF TypeOK, IsTrail
  <2>3. VerifyProof(TreeRoot', p) = FALSE
    BY <1>5 DEF VerifyProof
  <2> QED
    BY <1>1, <1>2, <1>3, <1>4, <2>1, <2>2, <2>3 DEF MerkleInv
<1>6. CASE p.leafCount # 0
  <2>1. /\ pc' = "walk" /\ walked' = 0 /\ index' = p.leafIndex
        /\ current' = LeafHash(p.leafIndex, p.leafClaim)
    BY <1>6 DEF StartVerify
  <2>2. TypeOK'
    BY <1>1, <1>2, <2>1 DEF TypeOK, IsTrail
  <2>3. Walk(p)[0] = WalkStart(p)
    BY WalkUnfolds
  <2>4. WalkOK'
    BY <1>1, <1>4, <1>6, <2>1, <2>3 DEF WalkOK, WalkStart
  <2> QED
    BY <1>1, <1>2, <1>3, <2>1, <2>2, <2>4 DEF MerkleInv
<1> QED
  BY <1>5, <1>6

LEMMA WalkRoundStep ==
  ASSUME MerkleInv, WalkRound
  PROVE  MerkleInv'
<1>1. /\ pc = "walk" /\ pc' = pc /\ proof' = proof
      /\ leaves' = leaves /\ trail' = trail /\ siblings' = siblings
      /\ verdict' = verdict
      /\ walked < Len(proof.siblings) /\ walked' = walked + 1
      /\ index' = index \div 2
      /\ current' = Combine(index, current, proof.siblings[walked + 1])
  BY DEF WalkRound
<1>2. /\ TrailOK /\ TypeOK /\ Len(Nodes) = 1 /\ WalkOK /\ verdict = FALSE
      /\ walked \in Nat /\ index \in Nat
  BY <1>1 DEF MerkleInv, TypeOK
<1>3. TrailOK' /\ Nodes' = Nodes
  BY <1>1, <1>2 DEF TrailOK, Nodes
<1>4. TypeOK'
  BY <1>1, <1>2 DEF TypeOK, IsTrail
<1>5. Walk(proof)[walked + 1] = WalkStep(proof, walked + 1, Walk(proof)[walked])
  BY <1>2, WalkUnfolds
<1>6. WalkOK'
  <2>1. walked + 1 <= Len(proof.siblings)
    BY <1>1, <1>2 DEF WalkOK
  <2> QED
    BY <1>1, <1>2, <1>5, <2>1 DEF WalkOK, WalkStep
<1> QED
  BY <1>1, <1>2, <1>3, <1>4, <1>6 DEF MerkleInv

LEMMA FinishVerifyStep ==
  ASSUME MerkleInv, FinishVerify
  PROVE  MerkleInv'
<1>1. /\ pc = "walk" /\ pc' = "done" /\ proof' = proof
      /\ leaves' = leaves /\ trail' = trail /\ siblings' = siblings
      /\ walked = Len(proof.siblings) /\ walked' = walked /\ index' = index
      /\ verdict' = (current = TreeRoot)
  BY DEF FinishVerify
<1>2. TrailOK /\ TypeOK /\ Len(Nodes) = 1 /\ WalkOK
  BY <1>1 DEF MerkleInv
<1>3. TrailOK' /\ Nodes' = Nodes /\ TreeRoot' = TreeRoot
  BY <1>1, <1>2 DEF TrailOK, Nodes, TreeRoot
<1>4. TypeOK'
  BY <1>1, <1>2 DEF TypeOK, IsTrail
<1>5. verdict' = VerifyProof(TreeRoot, proof)
  BY <1>1, <1>2 DEF WalkOK, VerifyProof
<1>6. Len(proof.siblings) \in Nat
  BY <1>2 DEF WalkOK
<1> QED
  BY <1>1, <1>2, <1>3, <1>4, <1>5, <1>6 DEF MerkleInv

-----------------------------------------------------------------------------
LEMMA InitEstablishes == Init => MerkleInv
<1> SUFFICES ASSUME Init PROVE MerkleInv
  OBVIOUS
<1>1. /\ pc = "idle" /\ trail = <<>> /\ siblings = <<>>
      /\ walked = 0 /\ index = 0 /\ verdict = FALSE
  BY DEF Init
<1>2. TypeOK
  BY <1>1 DEF TypeOK
<1> QED
  BY <1>1, <1>2 DEF MerkleInv

LEMMA NextPreserves == MerkleInv /\ [Next]_vars => MerkleInv'
<1> SUFFICES ASSUME MerkleInv, [Next]_vars PROVE MerkleInv'
  OBVIOUS
<1>1. CASE \E batch \in Batches : \E i \in 0..(Len(batch) - 1) : StartBuild(batch, i)
  BY <1>1, StartBuildStep
<1>2. CASE BuildRound
  BY <1>2, BuildRoundStep
<1>3. CASE FinishBuild
  BY <1>3, FinishBuildStep
<1>4. CASE PresentBuilt
  <2>1. TrailOK
    BY <1>4 DEF PresentBuilt, StartVerify, MerkleInv
  <2>2. trail[1].at \in Nat
    BY <2>1 DEF TrailOK
  <2>3. BuiltProof.leafIndex \in Nat /\ IsSeq(BuiltProof.siblings)
    BY <2>1, <2>2 DEF BuiltProof, TrailOK
  <2> QED
    BY <1>4, <2>3, StartVerifyStep DEF PresentBuilt
<1>5. CASE PresentOther
  <2>1. PICK i \in LeafIndices, n \in {0, Len(leaves)}, c \in Claims,
             m \in 0..MaxSiblings : \E s \in [1..m -> Digests] :
          StartVerify([leafIndex |-> i, leafCount |-> n, leafClaim |-> c,
                       siblings |-> s])
    BY <1>5 DEF PresentOther
  <2>2. PICK s \in [1..m -> Digests] :
          StartVerify([leafIndex |-> i, leafCount |-> n, leafClaim |-> c,
                       siblings |-> s])
    BY <2>1
  <2>3. i \in Nat /\ IsSeq(s)
    BY LeafIndicesAssumption DEF IsSeq
  <2> QED
    BY <2>2, <2>3, StartVerifyStep
<1>6. CASE WalkRound
  BY <1>6, WalkRoundStep
<1>7. CASE FinishVerify
  BY <1>7, FinishVerifyStep
<1>8. CASE UNCHANGED vars
  BY <1>8 DEF vars, MerkleInv, TypeOK, IsTrail, TrailOK, Nodes, TreeRoot,
     WalkOK
<1> QED
  BY <1>1, <1>2, <1>3, <1>4, <1>5, <1>6, <1>7, <1>8 DEF Next

LEMMA MerkleInvariant == Spec => []MerkleInv
BY InitEstablishes, NextPreserves, PTL DEF Spec

(* Once the proof is built the run is about Root, BuildProof, VerifyProof. *)
LEMMA BuiltMeans ==
  ASSUME MerkleInv, pc \in {"built", "walk", "done"}
  PROVE  /\ leaves \in Batches
         /\ TreeRoot = Root(leaves)
         /\ BuiltProof = BuildProof(leaves, trail[1].at)
         /\ trail[1].at \in 0..(Len(leaves) - 1)
<1>1. leaves \in Batches /\ TrailOK /\ Len(Nodes) = 1
  BY DEF MerkleInv, TypeOK
<1> QED
  BY <1>1, BuildComputes DEF TrailOK

(* BuildProof never indexes outside a level, for every batch.              *)
THEOREM MerkleTypeCorrect == Spec => []TypeOK
<1>1. MerkleInv => TypeOK
  BY DEF MerkleInv
<1> QED
  BY <1>1, MerkleInvariant, PTL

(* The loops of merkle.go:55-147 compute Root, BuildProof and VerifyProof, *)
(* the functions by which the other modules stand for them.                *)
THEOREM LoopsAreFunctions == Spec => []LoopsComputeFunctions
<1>1. MerkleInv => LoopsComputeFunctions
  BY BuiltMeans DEF MerkleInv, LoopsComputeFunctions
<1> QED
  BY <1>1, MerkleInvariant, PTL

(* Completeness: a proof built for any leaf of any batch verifies.         *)
THEOREM MerkleComplete == Spec => []BuiltProofVerifies
<1>1. MerkleInv => BuiltProofVerifies
  <2> SUFFICES ASSUME MerkleInv, pc = "done", proof = BuiltProof
               PROVE  verdict
    BY DEF BuiltProofVerifies
  <2>1. /\ leaves \in Batches /\ TreeRoot = Root(leaves)
        /\ proof = BuildProof(leaves, trail[1].at)
        /\ trail[1].at \in 0..(Len(leaves) - 1)
    BY BuiltMeans
  <2>2. verdict = VerifyProof(Root(leaves), proof)
    BY <2>1 DEF MerkleInv
  <2>3. VerifyProof(Root(leaves), proof)
    BY <2>1, BatchesAreSeqs, VerifyProofComplete
  <2> QED
    BY <2>2, <2>3
<1> QED
  BY <1>1, MerkleInvariant, PTL

(* Soundness: an accepted proof discloses the leaf at its index, whatever  *)
(* siblings were presented.                                                *)
THEOREM MerkleSound == Spec => []AcceptedLeafIsInBatch
<1>1. MerkleInv => AcceptedLeafIsInBatch
  <2> SUFFICES ASSUME MerkleInv, pc = "done", verdict
               PROVE  /\ proof.leafIndex < Len(leaves)
                      /\ proof.leafClaim = leaves[proof.leafIndex + 1]
    BY DEF AcceptedLeafIsInBatch
  <2>1. leaves \in Batches /\ TreeRoot = Root(leaves)
    BY BuiltMeans
  <2>2. Len(leaves) \in Nat \ {0}
    BY <2>1, BatchesAreSeqs
  <2>3. VerifyProof(Root(leaves), proof) /\ Len(proof.siblings) \in Nat
    BY <2>1 DEF MerkleInv
  <2>4. Discloses(leaves, proof)
    BY <2>2, <2>3, VerifyProofSound
  <2> QED
    BY <2>2, <2>4 DEF Discloses
<1> QED
  BY <1>1, MerkleInvariant, PTL

(* Two batches, of any sizes, do not share a root: duplicating an odd last *)
(* node (merkle.go:150-163) does not undo the binding of the leaf list.    *)
THEOREM RootsBindBatches == Spec => []RootBindsBatch
<1>1. MerkleInv => RootBindsBatch
  <2> SUFFICES ASSUME MerkleInv, pc = "built",
                      NEW other \in Batches, Root(other) = TreeRoot
               PROVE  other = leaves
    BY DEF RootBindsBatch
  <2>1. leaves \in Batches /\ Root(other) = Root(leaves)
    BY BuiltMeans
  <2>2. /\ IsSeq(leaves) /\ Len(leaves) # 0
        /\ IsSeq(other) /\ Len(other) # 0
    BY <2>1, BatchesAreSeqs
  <2> QED
    BY <2>1, <2>2, RootInjective
<1> QED
  BY <1>1, MerkleInvariant, PTL
=============================================================================
