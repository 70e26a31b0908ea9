--------------------------- MODULE Guests_proofs ----------------------------
(***************************************************************************)
(* What the checks of the guests give, and those of the verifiers of what  *)
(* the guests commit; facts about operators, for the modules in which      *)
(* processes, files or command lines use them.                             *)
(*                                                                         *)
(* The tree, for every list of leaves: which proofs VerifyProof accepts    *)
(* against the root of a list, that BuildProof's are among them, and that  *)
(* the root determines the list.  Level, IndexAbove and Walk are recursive *)
(* functions; NatRecursion gives the equations that unfold them.           *)
(*                                                                         *)
(* Batches: Sound is the invariant of whoever runs the guests.  The        *)
(* openings are batches the guest accepted on those receipts, the receipts *)
(* are of leaf guests or of openings.  It survives every guest run; and a  *)
(* verifier that starts from the claim of a receipt ends, level by level,  *)
(* at records that a receipt attests.                                      *)
(*                                                                         *)
(* Leaves: paths are read as they are meant, a claim.json matches the      *)
(* receipt it was written from and no other, and a claim meets the         *)
(* expectations that describe its witness.                                 *)
(***************************************************************************)
EXTENDS BatchLoader, LeafClaims, SequencesExt, TLAPS


IsSeq(s) == Len(s) \in Nat /\ s = [k \in 1..Len(s) |-> s[k]]

-----------------------------------------------------------------------------
(* The ideal hash: equal digests have equal preimages.                     *)

LEMMA LeafHashInjective ==
  ASSUME NEW i, NEW j, NEW c, NEW d, LeafHash(i, c) = LeafHash(j, d)
  PROVE  i = j /\ c = d
BY DEF LeafHash

LEMMA InnerHashInjective ==
  ASSUME NEW a, NEW b, NEW x, NEW y, InnerHash(a, b) = InnerHash(x, y)
  PROVE  a = x /\ b = y
BY DEF InnerHash

LEMMA LeafIsNotInner ==
  ASSUME NEW i, NEW c, NEW a, NEW b
  PROVE  LeafHash(i, c) # InnerHash(a, b)
BY DEF LeafHash, InnerHash

(* One level up: the length, what a node is the hash of, and that the      *)
(* sibling rule of BuildProof and the side rule of VerifyProof agree with  *)
(* the pairing of nextLevel.                                               *)
LEMMA NextLevelLen ==
  ASSUME NEW nodes, Len(nodes) \in Nat
  PROVE  /\ Len(NextLevel(nodes)) = (Len(nodes) + 1) \div 2
         /\ IsSeq(NextLevel(nodes))
BY DEF NextLevel, IsSeq

LEMMA NodeIsInner ==
  ASSUME NEW nodes, Len(nodes) \in Nat,
         NEW i \in 1..Len(NextLevel(nodes))
  PROVE  \E a, b \in 1..Len(nodes) :
            NextLevel(nodes)[i] = InnerHash(nodes[a], nodes[b])
<1>1. i \in 1..((Len(nodes) + 1) \div 2)
  BY NextLevelLen
<1>2. CASE 2 * i <= Len(nodes)
  <2>1. 2 * i - 1 \in 1..Len(nodes) /\ 2 * i \in 1..Len(nodes)
    BY <1>1, <1>2
  <2>2. NextLevel(nodes)[i] = InnerHash(nodes[2 * i - 1], nodes[2 * i])
    BY <1>1, <1>2 DEF NextLevel
  <2> QED
    BY <2>1, <2>2
<1>3. CASE ~(2 * i <= Len(nodes))
  <2>1. 2 * i - 1 \in 1..Len(nodes)
    BY <1>1, <1>3
  <2>2. NextLevel(nodes)[i] = InnerHash(nodes[2 * i - 1], nodes[2 * i - 1])
    BY <1>1, <1>3 DEF NextLevel
  <2> QED
    BY <2>1, <2>2
<1> QED
  BY <1>2, <1>3

LEMMA CombineIsParent ==
  ASSUME NEW nodes, Len(nodes) \in Nat,
         NEW at \in 0..(Len(nodes) - 1)
  PROVE  /\ at \div 2 \in 0..(Len(NextLevel(nodes)) - 1)
         /\ Combine(at, nodes[at + 1], nodes[SiblingIndex(nodes, at) + 1])
              = NextLevel(nodes)[at \div 2 + 1]
<1> DEFINE i == at \div 2 + 1
<1>1. i \in 1..((Len(nodes) + 1) \div 2)
  OBVIOUS
<1>2. at \div 2 \in 0..(Len(NextLevel(nodes)) - 1)
  BY <1>1, NextLevelLen
<1>3. CASE at % 2 = 0
  <2>1. 2 * i - 1 = at + 1 /\ 2 * i = at + 2
    BY <1>3
  <2>2. NextLevel(nodes)[i] =
          InnerHash(nodes[at + 1],
                    IF at + 2 <= Len(nodes) THEN nodes[at + 2] ELSE nodes[at + 1])
    BY <1>1, <2>1 DEF NextLevel
  <2>3. SiblingIndex(nodes, at) = IF at + 2 <= Len(nodes) THEN at + 1 ELSE at
    BY <1>3 DEF SiblingIndex
  <2>4. Combine(at, nodes[at + 1], nodes[SiblingIndex(nodes, at) + 1])
          = InnerHash(nodes[at + 1], nodes[SiblingIndex(nodes, at) + 1])
    BY <1>3 DEF Combine
  <2> QED
    BY <1>2, <2>2, <2>3, <2>4
<1>4. CASE at % 2 = 1
  <2>1. 2 * i - 1 = at /\ 2 * i = at + 1
    BY <1>4
  <2>2. NextLevel(nodes)[i] = InnerHash(nodes[at], nodes[at + 1])
    BY <1>1, <2>1 DEF NextLevel
  <2>3. SiblingIndex(nodes, at) = at - 1
    BY <1>4 DEF SiblingIndex
  <2>4. Combine(at, nodes[at + 1], nodes[SiblingIndex(nodes, at) + 1])
          = InnerHash(nodes[SiblingIndex(nodes, at) + 1], nodes[at + 1])
    BY <1>4 DEF Combine
  <2> QED
    BY <1>2, <2>2, <2>3, <2>4
<1> QED
  BY <1>3, <1>4

LEMMA AppendSeq ==
  ASSUME NEW s, IsSeq(s), NEW e
  PROVE  /\ IsSeq(Append(s, e))
         /\ Len(Append(s, e)) = Len(s) + 1
         /\ Append(s, e)[Len(s) + 1] = e
         /\ \A k \in 1..Len(s) : Append(s, e)[k] = s[k]
<1> DEFINE S == {s[k] : k \in 1..Len(s)} \cup {e}
<1>1. s \in Seq(S)
  BY DEF IsSeq
<1>2. Append(s, e) \in Seq(S) /\ Len(Append(s, e)) = Len(s) + 1
  BY <1>1
<1>3. ASSUME NEW t \in Seq(S) PROVE IsSeq(t)
  BY DEF IsSeq
<1>4. IsSeq(Append(s, e))
  BY ONLY <1>2, <1>3
<1>5. /\ Append(s, e)[Len(s) + 1] = e
      /\ \A k \in 1..Len(s) : Append(s, e)[k] = s[k]
  BY <1>1
<1> QED
  BY <1>2, <1>4, <1>5

-----------------------------------------------------------------------------
(* The recursive functions unfold.                                         *)

LevelStep(leaves, k, nodes) == NextLevel(nodes)
IndexStart(index)           == index
IndexStep(index, k, at)     == at \div 2

WalkStart(proof) ==
  [index   |-> proof.leafIndex,
   current |-> LeafHash(proof.leafIndex, proof.leafClaim)]

WalkStep(proof, k, at) ==
  [index   |-> at.index \div 2,
   current |-> Combine(at.index, at.current, proof.siblings[k])]

LevelRec == INSTANCE NatRecursion WITH Base <- LeafNodes,  Step <- LevelStep
IndexRec == INSTANCE NatRecursion WITH Base <- IndexStart, Step <- IndexStep
WalkRec  == INSTANCE NatRecursion WITH Base <- WalkStart,  Step <- WalkStep

LEMMA LevelUnfolds ==
  ASSUME NEW leaves
  PROVE  /\ Level(leaves)[0] = LeafNodes(leaves)
         /\ \A k \in Nat : Level(leaves)[k + 1] = NextLevel(Level(leaves)[k])
<1>1. Level(leaves) = LevelRec!Rec(leaves)
  BY DEF Level, LevelRec!Rec, LevelStep
<1> QED
  BY <1>1, LevelRec!RecUnfolds DEF LevelStep

LEMMA IndexUnfolds ==
  ASSUME NEW index
  PROVE  /\ IndexAbove(index)[0] = index
         /\ \A k \in Nat : IndexAbove(index)[k + 1] = IndexAbove(index)[k] \div 2
<1>1. IndexAbove(index) = IndexRec!Rec(index)
  BY DEF IndexAbove, IndexRec!Rec, IndexStep, IndexStart
<1> QED
  BY <1>1, IndexRec!RecUnfolds DEF IndexStep, IndexStart

LEMMA WalkUnfolds ==
  ASSUME NEW proof
  PROVE  /\ Walk(proof)[0] = WalkStart(proof)
         /\ \A k \in Nat : Walk(proof)[k + 1] = WalkStep(proof, k + 1, Walk(proof)[k])
<1>1. Walk(proof) = WalkRec!Rec(proof)
  BY DEF Walk, WalkRec!Rec, WalkStep, WalkStart
<1> QED
  BY <1>1, WalkRec!RecUnfolds

-----------------------------------------------------------------------------
(* The levels shrink to one node within as many rounds as there are leaves.*)

LEMMA LeafNodesLen ==
  ASSUME NEW leaves, Len(leaves) \in Nat
  PROVE  Len(LeafNodes(leaves)) = Len(leaves) /\ IsSeq(LeafNodes(leaves))
BY DEF LeafNodes, IsSeq

LEMMA LevelLen ==
  ASSUME NEW leaves, Len(leaves) \in Nat \ {0}
  PROVE  \A k \in Nat : Len(Level(leaves)[k]) \in Nat \ {0}
<1> DEFINE S == {k \in Nat : Len(Level(leaves)[k]) \in Nat \ {0}}
<1>1. 0 \in S
  BY LevelUnfolds, LeafNodesLen
<1>2. ASSUME NEW k \in Nat, k \in S
      PROVE  k + 1 \in S
  <2>1. Level(leaves)[k + 1] = NextLevel(Level(leaves)[k])
    BY LevelUnfolds
  <2>2. Len(Level(leaves)[k]) \in Nat \ {0}
    BY <1>2
  <2>3. Len(Level(leaves)[k + 1]) = (Len(Level(leaves)[k]) + 1) \div 2
    BY <2>1, <2>2, NextLevelLen
  <2>4. \A n \in Nat \ {0} : (n + 1) \div 2 \in Nat \ {0}
    OBVIOUS
  <2>5. Len(Level(leaves)[k + 1]) \in Nat \ {0}
    BY <2>2, <2>3, <2>4, Zenon
  <2> QED
    BY <2>5
<1> HIDE DEF S
<1>3. Nat \subseteq S
  BY <1>1, <1>2, LevelRec!SetInduction
<1> QED
  BY <1>3 DEF S

LEMMA LevelShrinks ==
  ASSUME NEW leaves, Len(leaves) \in Nat \ {0}
  PROVE  \A k \in Nat : \/ Len(Level(leaves)[k]) = 1
                        \/ Len(Level(leaves)[k]) <= Len(leaves) - k
<1> DEFINE L(k) == Len(Level(leaves)[k])
           S    == {k \in Nat : L(k) = 1 \/ L(k) <= Len(leaves) - k}
<1>1. 0 \in S
  BY LevelUnfolds, LeafNodesLen
<1>2. ASSUME NEW k \in Nat, k \in S
      PROVE  k + 1 \in S
  <2>1. L(k) \in Nat \ {0}
    BY LevelLen
  <2>2. L(k + 1) = (L(k) + 1) \div 2
    BY <2>1, LevelUnfolds, NextLevelLen
  <2> HIDE DEF L
  <2>3. CASE L(k) = 1
    BY <2>2, <2>3
  <2>4. CASE L(k) # 1
    BY <1>2, <2>1, <2>2, <2>4
  <2> QED
    BY <2>3, <2>4
<1> HIDE DEF S
<1>3. Nat \subseteq S
  BY <1>1, <1>2, LevelRec!SetInduction
<1> QED
  BY <1>3 DEF S

LEMMA HeightIs ==
  ASSUME NEW leaves, Len(leaves) \in Nat \ {0}
  PROVE  /\ Height(leaves) \in 0..Len(leaves)
         /\ Len(Level(leaves)[Height(leaves)]) = 1
         /\ \A k \in 0..(Height(leaves) - 1) : Len(Level(leaves)[k]) > 1
<1> DEFINE T == {k \in Nat : Len(Level(leaves)[k]) = 1}
<1>1. \A k \in Nat : Len(Level(leaves)[k]) \in Nat \ {0}
  BY LevelLen
<1>2. Len(leaves) \in T
  <2>1. \/ Len(Level(leaves)[Len(leaves)]) = 1
        \/ Len(Level(leaves)[Len(leaves)]) <= Len(leaves) - Len(leaves)
    BY LevelShrinks
  <2> QED
    BY <1>1, <2>1
<1>3. PICK h \in T : \A k \in T : h <= k
  BY <1>2, LevelRec!LeastElement
<1>4. /\ h \in 0..Len(leaves)
      /\ Len(Level(leaves)[h]) = 1
  BY <1>2, <1>3
<1>5. \A k \in 0..(h - 1) : Len(Level(leaves)[k]) > 1
  <2> TAKE k \in 0..(h - 1)
  <2>1. k \in Nat /\ k \notin T
    BY <1>3, <1>4
  <2>2. Len(Level(leaves)[k]) \in Nat \ {0} /\ Len(Level(leaves)[k]) # 1
    BY <1>1, <2>1
  <2>3. \A n \in Nat \ {0} : n # 1 => n > 1
    OBVIOUS
  <2> QED
    BY <2>2, <2>3, Zenon
<1> QED
  BY <1>4, <1>5 DEF Height

-----------------------------------------------------------------------------
(* Soundness: what VerifyProof accepts against Root(leaves).               *)

InTree(leaves, d) ==
  \E m \in Nat : \E j \in 1..Len(Level(leaves)[m]) : d = Level(leaves)[m][j]

(* The proof names a position of the list and the claim that is there.     *)
Discloses(leaves, proof) ==
  \E i \in 1..Len(leaves) : /\ proof.leafIndex = i - 1
                            /\ proof.leafClaim = leaves[i]

(* A level above the leaves holds inner nodes over the one below.          *)
LEMMA UpperNode ==
  ASSUME NEW leaves, Len(leaves) \in Nat \ {0},
         NEW m \in Nat \ {0}, NEW j \in 1..Len(Level(leaves)[m])
  PROVE  \E a, b \in 1..Len(Level(leaves)[m - 1]) :
            Level(leaves)[m][j] = InnerHash(Level(leaves)[m - 1][a],
                                            Level(leaves)[m - 1][b])
<1>1. m - 1 \in Nat /\ (m - 1) + 1 = m
  OBVIOUS
<1>2. Level(leaves)[(m - 1) + 1] = NextLevel(Level(leaves)[m - 1])
  BY <1>1, LevelUnfolds
<1>3. Level(leaves)[m] = NextLevel(Level(leaves)[m - 1])
  BY <1>1, <1>2
<1>4. Len(Level(leaves)[m - 1]) \in Nat
  BY <1>1, LevelLen
<1> DEFINE below == Level(leaves)[m - 1]
<1>5. j \in 1..Len(NextLevel(below)) /\ Len(below) \in Nat
  BY <1>3, <1>4
<1> HIDE DEF below
<1>6. \E a, b \in 1..Len(below) : NextLevel(below)[j] = InnerHash(below[a], below[b])
  BY <1>5, NodeIsInner
<1> QED
  BY <1>3, <1>6 DEF below

(* A leaf hash is in the tree only at its index, and never an inner node.  *)
LEMMA LeafInTree ==
  ASSUME NEW leaves, Len(leaves) \in Nat \ {0}, NEW i, NEW c,
         InTree(leaves, LeafHash(i, c))
  PROVE  \E j \in 1..Len(leaves) : i = j - 1 /\ c = leaves[j]
<1>1. PICK m \in Nat : \E j \in 1..Len(Level(leaves)[m]) :
         LeafHash(i, c) = Level(leaves)[m][j]
  BY DEF InTree
<1>2. PICK j \in 1..Len(Level(leaves)[m]) : LeafHash(i, c) = Level(leaves)[m][j]
  BY <1>1
<1>3. CASE m = 0
  <2>1. Level(leaves)[m] = LeafNodes(leaves)
    BY <1>3, LevelUnfolds
  <2>2. j \in 1..Len(leaves)
    BY <1>2, <2>1, LeafNodesLen
  <2>3. Level(leaves)[m][j] = LeafHash(j - 1, leaves[j])
    BY <2>1, <2>2 DEF LeafNodes
  <2>4. i = j - 1 /\ c = leaves[j]
    BY <1>2, <2>3, LeafHashInjective
  <2> QED
    BY <2>2, <2>4
<1>4. CASE m # 0
  <2>1. m \in Nat \ {0}
    BY <1>4
  <2> QED
    <3>1. PICK a, b \in 1..Len(Level(leaves)[m - 1]) :
            Level(leaves)[m][j] = InnerHash(Level(leaves)[m - 1][a],
                                            Level(leaves)[m - 1][b])
      BY <2>1, UpperNode
    <3> QED
      BY <1>2, <3>1, LeafIsNotInner
<1> QED
  BY <1>3, <1>4

(* An inner digest is in the tree only if both its children are.           *)
LEMMA InnerInTree ==
  ASSUME NEW leaves, Len(leaves) \in Nat \ {0}, NEW x, NEW y,
         InTree(leaves, InnerHash(x, y))
  PROVE  InTree(leaves, x) /\ InTree(leaves, y)
<1>1. PICK m \in Nat : \E j \in 1..Len(Level(leaves)[m]) :
         InnerHash(x, y) = Level(leaves)[m][j]
  BY DEF InTree
<1>2. PICK j \in 1..Len(Level(leaves)[m]) : InnerHash(x, y) = Level(leaves)[m][j]
  BY <1>1
<1>3. CASE m = 0
  <2>1. Level(leaves)[m] = LeafNodes(leaves)
    BY <1>3, LevelUnfolds
  <2>2. j \in 1..Len(leaves)
    BY <1>2, <2>1, LeafNodesLen
  <2>3. Level(leaves)[m][j] = LeafHash(j - 1, leaves[j])
    BY <2>1, <2>2 DEF LeafNodes
  <2> QED
    BY <1>2, <2>3, LeafIsNotInner
<1>4. CASE m # 0
  <2>1. m \in Nat \ {0} /\ m - 1 \in Nat
    BY <1>4
  <2>2. PICK a, b \in 1..Len(Level(leaves)[m - 1]) :
          Level(leaves)[m][j] = InnerHash(Level(leaves)[m - 1][a],
                                          Level(leaves)[m - 1][b])
    BY <1>2, <2>1, UpperNode
  <2>3. x = Level(leaves)[m - 1][a] /\ y = Level(leaves)[m - 1][b]
    BY <1>2, <2>2, InnerHashInjective
  <2> QED
    BY <2>1, <2>3 DEF InTree
<1> QED
  BY <1>3, <1>4

LEMMA RootInTree ==
  ASSUME NEW leaves, Len(leaves) \in Nat \ {0}
  PROVE  InTree(leaves, Root(leaves))
<1>1. /\ Height(leaves) \in 0..Len(leaves)
      /\ Len(Level(leaves)[Height(leaves)]) = 1
  BY HeightIs
<1>2. Height(leaves) \in Nat /\ 1 \in 1..Len(Level(leaves)[Height(leaves)])
  BY <1>1
<1> QED
  BY <1>2 DEF InTree, Root

(* While VerifyProof climbs, a digest it holds is in the tree only above   *)
(* the leaf the proof names.                                               *)
LEMMA WalkDiscloses ==
  ASSUME NEW leaves, Len(leaves) \in Nat \ {0}, NEW proof
  PROVE  \A k \in Nat : InTree(leaves, Walk(proof)[k].current) => Discloses(leaves, proof)
<1> DEFINE S == {k \in Nat : InTree(leaves, Walk(proof)[k].current)
                               => Discloses(leaves, proof)}
<1>1. 0 \in S
  <2>1. Walk(proof)[0].current = LeafHash(proof.leafIndex, proof.leafClaim)
    <3>1. Walk(proof)[0] = WalkStart(proof)
      BY WalkUnfolds
    <3> QED
      BY <3>1 DEF WalkStart
  <2> QED
    BY <2>1, LeafInTree DEF Discloses
<1>2. ASSUME NEW k \in Nat, k \in S
      PROVE  k + 1 \in S
  <2> DEFINE at  == Walk(proof)[k]
             sib == proof.siblings[k + 1]
  <2>1. Walk(proof)[k + 1].current = Combine(at.index, at.current, sib)
    <3>1. Walk(proof)[k + 1] = WalkStep(proof, k + 1, Walk(proof)[k])
      BY WalkUnfolds
    <3> QED
      BY <3>1 DEF WalkStep
  <2> SUFFICES ASSUME InTree(leaves, Walk(proof)[k + 1].current)
               PROVE  Discloses(leaves, proof)
    OBVIOUS
  <2>2. InTree(leaves, at.current) => Discloses(leaves, proof)
    BY <1>2
  <2>3. \/ Walk(proof)[k + 1].current = InnerHash(at.current, sib)
        \/ Walk(proof)[k + 1].current = InnerHash(sib, at.current)
    BY <2>1 DEF Combine
  <2> HIDE DEF at, sib
  <2>4. InTree(leaves, at.current)
    BY <2>3, InnerInTree
  <2> QED
    BY <2>2, <2>4
<1> HIDE DEF S
<1>3. Nat \subseteq S
  BY <1>1, <1>2, WalkRec!SetInduction
<1> QED
  BY <1>3 DEF S

(* merkle.go:133-147: whatever the siblings and however many they are, a   *)
(* proof that VerifyProof accepts against the root of a list names a       *)
(* position of that list and the claim that is there, although neither the *)
(* leaf index nor the number of siblings is compared with anything.        *)
THEOREM VerifyProofSound ==
  ASSUME NEW leaves, Len(leaves) \in Nat \ {0},
         NEW proof, Len(proof.siblings) \in Nat,
         VerifyProof(Root(leaves), proof)
  PROVE  Discloses(leaves, proof)
<1>1. Walk(proof)[Len(proof.siblings)].current = Root(leaves)
  BY DEF VerifyProof
<1>2. InTree(leaves, Walk(proof)[Len(proof.siblings)].current)
  BY <1>1, RootInTree
<1> QED
  BY <1>2, WalkDiscloses

-----------------------------------------------------------------------------
(* Completeness: VerifyProof climbs the levels BuildProof went through.    *)

LEMMA WalkClimbs ==
  ASSUME NEW leaves, Len(leaves) \in Nat \ {0},
         NEW i \in 0..(Len(leaves) - 1)
  PROVE  \A k \in Nat : k <= Height(leaves) =>
            /\ IndexAbove(i)[k] \in 0..(Len(Level(leaves)[k]) - 1)
            /\ Walk(BuildProof(leaves, i))[k].index = IndexAbove(i)[k]
            /\ Walk(BuildProof(leaves, i))[k].current
                 = Level(leaves)[k][IndexAbove(i)[k] + 1]
<1> DEFINE P == BuildProof(leaves, i)
           h == Height(leaves)
           L(k)  == Level(leaves)[k]
           at(k) == IndexAbove(i)[k]
           w(k)  == Walk(P)[k]
           S == {k \in Nat : k <= h => /\ at(k) \in 0..(Len(L(k)) - 1)
                                       /\ w(k).index = at(k)
                                       /\ w(k).current = L(k)[at(k) + 1]}
<1>1. 0 \in S
  <2>1. L(0) = LeafNodes(leaves) /\ at(0) = i
    BY LevelUnfolds, IndexUnfolds
  <2>2. w(0).index = i /\ w(0).current = LeafHash(i, leaves[i + 1])
    <3>1. w(0) = WalkStart(P)
      BY WalkUnfolds
    <3>2. P.leafIndex = i /\ P.leafClaim = leaves[i + 1]
      BY DEF BuildProof
    <3> HIDE DEF P, w
    <3> QED
      BY <3>1, <3>2 DEF WalkStart
  <2>3. LeafNodes(leaves)[i + 1] = LeafHash((i + 1) - 1, leaves[i + 1]) /\ (i + 1) - 1 = i
    BY DEF LeafNodes
  <2>4. Len(LeafNodes(leaves)) = Len(leaves)
    BY LeafNodesLen
  <2> HIDE DEF L, at, w
  <2> QED
    BY <2>1, <2>2, <2>3, <2>4
<1>2. ASSUME NEW k \in Nat, k \in S
      PROVE  k + 1 \in S
  <2> SUFFICES ASSUME k + 1 <= h
               PROVE  /\ at(k + 1) \in 0..(Len(L(k + 1)) - 1)
                      /\ w(k + 1).index = at(k + 1)
                      /\ w(k + 1).current = L(k + 1)[at(k + 1) + 1]
    OBVIOUS
  <2>1. h \in Nat
    BY HeightIs
  <2>2. /\ at(k) \in 0..(Len(L(k)) - 1)
        /\ w(k).index = at(k)
        /\ w(k).current = L(k)[at(k) + 1]
    BY <1>2, <2>1
  <2>3. L(k + 1) = NextLevel(L(k)) /\ at(k + 1) = at(k) \div 2 /\ Len(L(k)) \in Nat
    BY LevelUnfolds, IndexUnfolds, LevelLen
  <2>4. P.siblings[k + 1] = L(k)[SiblingIndex(L(k), at(k)) + 1]
    <3>1. k + 1 \in 1..h /\ (k + 1) - 1 = k
      BY <2>1
    <3> QED
      BY <3>1 DEF BuildProof
  <2>5. /\ w(k + 1).index = w(k).index \div 2
        /\ w(k + 1).current = Combine(w(k).index, w(k).current, P.siblings[k + 1])
    <3>1. w(k + 1) = WalkStep(P, k + 1, w(k))
      BY WalkUnfolds
    <3> HIDE DEF P, w
    <3> QED
      BY <3>1 DEF WalkStep
  <2> HIDE DEF L, at, w, P, h
  <2>6. /\ at(k) \div 2 \in 0..(Len(NextLevel(L(k))) - 1)
        /\ Combine(at(k), L(k)[at(k) + 1], L(k)[SiblingIndex(L(k), at(k)) + 1])
             = NextLevel(L(k))[at(k) \div 2 + 1]
    BY <2>2, <2>3, CombineIsParent
  <2> QED
    BY <2>2, <2>3, <2>4, <2>5, <2>6
<1> HIDE DEF S
<1>3. Nat \subseteq S
  BY <1>1, <1>2, WalkRec!SetInduction
<1> QED
  BY <1>3 DEF S

(* merkle.go:88-147: for every list and every position of it, the proof    *)
(* BuildProof returns is accepted against the root, the levels whose odd   *)
(* last node is paired with itself included.                               *)
THEOREM VerifyProofComplete ==
  ASSUME NEW leaves, Len(leaves) \in Nat \ {0},
         NEW i \in 0..(Len(leaves) - 1)
  PROVE  VerifyProof(Root(leaves), BuildProof(leaves, i))
<1> DEFINE h  == Height(leaves)
           at == IndexAbove(i)[h]
<1>1. h \in Nat /\ Len(Level(leaves)[h]) = 1
  BY HeightIs
<1>2. /\ at \in 0..(Len(Level(leaves)[h]) - 1)
      /\ Walk(BuildProof(leaves, i))[h].current = Level(leaves)[h][at + 1]
  <2>1. \A k \in Nat : k <= h =>
            /\ IndexAbove(i)[k] \in 0..(Len(Level(leaves)[k]) - 1)
            /\ Walk(BuildProof(leaves, i))[k].current
                 = Level(leaves)[k][IndexAbove(i)[k] + 1]
    BY WalkClimbs
  <2> HIDE DEF h
  <2>2. h <= h
    BY <1>1
  <2> QED
    BY <1>1, <2>1, <2>2
<1>3. at = 0
  BY <1>1, <1>2
<1>4. Len(BuildProof(leaves, i).siblings) = h
  BY <1>1 DEF BuildProof
<1>5. BuildProof(leaves, i).leafCount # 0
  BY DEF BuildProof
<1> QED
  BY <1>2, <1>3, <1>4, <1>5 DEF VerifyProof, Root

(* The root determines the ordered list, its length included: pairing an   *)
(* odd last node with itself does not give two lists one root.             *)
THEOREM RootInjective ==
  ASSUME NEW a, IsSeq(a), Len(a) # 0,
         NEW b, IsSeq(b), Len(b) # 0,
         Root(a) = Root(b)
  PROVE  a = b
<1>1. ASSUME NEW x, IsSeq(x), Len(x) # 0,
             NEW y, IsSeq(y), Len(y) # 0, Root(x) = Root(y),
             NEW i \in 1..Len(x)
      PROVE  i \in 1..Len(y) /\ x[i] = y[i]
  <2> DEFINE p == BuildProof(x, i - 1)
  <2>1. Len(x) \in Nat \ {0} /\ Len(y) \in Nat \ {0} /\ i - 1 \in 0..(Len(x) - 1)
    BY <1>1 DEF IsSeq
  <2>2. VerifyProof(Root(y), p)
    BY <1>1, <2>1, VerifyProofComplete
  <2>3. Len(p.siblings) \in Nat
    BY <2>1, HeightIs DEF BuildProof
  <2>4. p.leafIndex = i - 1 /\ p.leafClaim = x[i]
    BY <2>1 DEF BuildProof
  <2> HIDE DEF p
  <2>5. Discloses(y, p)
    BY <2>1, <2>2, <2>3, VerifyProofSound
  <2> QED
    BY <2>1, <2>4, <2>5 DEF Discloses
<1>2. \A i \in 1..Len(a) : i \in 1..Len(b) /\ a[i] = b[i]
  BY <1>1
<1>3. \A i \in 1..Len(b) : i \in 1..Len(a)
  BY <1>1
<1>4. Len(a) \in Nat \ {0} /\ Len(b) \in Nat \ {0}
  BY DEF IsSeq
<1>5. Len(a) = Len(b)
  BY <1>2, <1>3, <1>4
<1> QED
  BY <1>2, <1>5 DEF IsSeq

-----------------------------------------------------------------------------
(* The guest accepts the records of an opening on these receipts.          *)
Accepted(o, receipts) ==
  /\ IsSeq(o.records)
  /\ o.claim = GuestClaim(o.claim.leafClaimKind, o.claim.leafGuestImageID, o.records)
  /\ GuestAccepts(o.claim.leafClaimKind, o.claim.leafGuestImageID, o.records, receipts)

(* A receipt is of a leaf guest, of an opening, or of a foreign program.   *)
Attested(r, batches, leafImages, foreignImages, batchImage) ==
  /\ r.kind \in {"composite", "succinct"}
  /\ r.image \in leafImages \cup foreignImages \cup {batchImage}
  /\ RecordSize(r.journal) # 0
  /\ r.image \in leafImages => r.journal.type = "leaf"
  /\ r.image = batchImage => \E o \in batches : r.journal = Encode(o.claim)

Sound(receipts, batches, leafImages, foreignImages, batchImage) ==
  /\ \A o \in batches : Accepted(o, receipts)
  /\ \A r \in receipts : Attested(r, batches, leafImages, foreignImages, batchImage)

-----------------------------------------------------------------------------
(* Sequences.                                                              *)

LEMMA EmptySeq ==
  ASSUME NEW s, IsSeq(s), s # <<>>
  PROVE  Len(s) \in Nat \ {0}
<1>1. Len(s) = 0 => s = <<>>
  BY DEF IsSeq
<1> QED
  BY <1>1 DEF IsSeq

LEMMA NoIndex == 1..Len(<<>>) = {}
OBVIOUS

LEMMA SingleSeq == \A x : <<x>>[1] = x
OBVIOUS

LEMMA BoundedSeqFacts ==
  ASSUME NEW S, NEW n \in Nat, NEW s \in BoundedSeq(S, n)
  PROVE  /\ IsSeq(s) /\ Len(s) <= n
         /\ \A i \in 1..Len(s) : s[i] \in S
BY DEF BoundedSeq, SeqOf, IsSeq

LEMMA SeqIsBounded ==
  ASSUME NEW S, NEW n \in Nat, NEW s, IsSeq(s), Len(s) <= n,
         \A i \in 1..Len(s) : s[i] \in S
  PROVE  s \in BoundedSeq(S, n)
<1>1. Len(s) \in 0..n
  BY DEF IsSeq
<1>2. s \in [1..Len(s) -> S]
  BY DEF IsSeq
<1> QED
  BY <1>1, <1>2 DEF BoundedSeq, SeqOf

-----------------------------------------------------------------------------
(* Claims, journals and their sizes.                                       *)

LEMMA GuestClaimFields ==
  ASSUME NEW kind, NEW context, NEW records
  PROVE  LET c == GuestClaim(kind, context, records)
         IN  /\ c.leafClaimKind = kind
             /\ c.merkleHashKind = MerkleHashSHA256
             /\ c.leafCount = Len(records)
             /\ c.leafGuestImageID = context
             /\ c.merkleRoot = Root(records)
             /\ ValidateVersion(c)
BY DEF GuestClaim, Claim, ValidateVersion, UsesPolicyDigest, Version,
   VersionHeterogeneousParent

LEMMA EncodeDecodes ==
  ASSUME NEW claim
  PROVE  /\ Decodes(Encode(claim))
         /\ Decode(Encode(claim)) = claim
         /\ Encode(claim).type = "batch"
<1>1. Encode(claim).type = "batch" /\ Encode(claim).claim = claim
  BY DEF Encode
<1>2. RecordSize(Encode(claim)) = 84
  BY <1>1 DEF RecordSize
<1>3. LeafClaimSize(LeafKindBatchClaimV1) = 84
  BY DEF LeafClaimSize, LeafKindBatchClaimV1, LeafKindTaproot, LeafKindHardenedXPriv,
     LeafKindHeterogeneousEnvelopeV1
<1> QED
  BY <1>1, <1>2, <1>3 DEF Decode, Decodes

LEMMA LeafDoesNotDecode ==
  ASSUME NEW journal, journal.type = "leaf"
  PROVE  ~ Decodes(journal)
BY DEF Decodes, RecordSize, LeafClaimSize, LeafKindBatchClaimV1,
   LeafKindTaproot, LeafKindHardenedXPriv

-----------------------------------------------------------------------------
(* More receipts never make the guest refuse.                              *)

LEMMA ResolvedGrows ==
  ASSUME NEW A, NEW B, A \subseteq B, NEW image, NEW journal,
         Resolved(A, image, journal)
  PROVE  Resolved(B, image, journal)
BY DEF Resolved

LEMMA GuestAcceptsGrows ==
  ASSUME NEW A, NEW B, A \subseteq B, NEW kind, NEW context, NEW records,
         GuestAccepts(kind, context, records, A)
  PROVE  GuestAccepts(kind, context, records, B)
<1>1. ASSUME NEW record, DirectLeafAccepted(kind, context, record, A)
      PROVE  DirectLeafAccepted(kind, context, record, B)
  BY <1>1, ResolvedGrows DEF DirectLeafAccepted
<1> QED
  BY <1>1 DEF GuestAccepts

LEMMA SoundGrows ==
  ASSUME NEW A, NEW B, A \subseteq B, NEW P, NEW Q, P \subseteq Q,
         NEW leafImages, NEW foreignImages, NEW batchImage,
         Sound(A, P, leafImages, foreignImages, batchImage)
  PROVE  /\ \A o \in P : Accepted(o, B)
         /\ \A r \in A : Attested(r, Q, leafImages, foreignImages, batchImage)
<1>1. ASSUME NEW o \in P
      PROVE  Accepted(o, B)
  BY GuestAcceptsGrows DEF Sound, Accepted
<1>2. ASSUME NEW r \in A
      PROVE  Attested(r, Q, leafImages, foreignImages, batchImage)
  BY DEF Sound, Attested
<1> QED
  BY <1>1, <1>2

LEMMA LeafRunIsSound ==
  ASSUME NEW A, NEW P, NEW leafImages, NEW foreignImages, NEW batchImage,
         batchImage \notin leafImages,
         Sound(A, P, leafImages, foreignImages, batchImage),
         NEW r, r.image \in leafImages, r.journal.type = "leaf",
         r.kind \in {"composite", "succinct"}
  PROVE  Sound(A \cup {r}, P, leafImages, foreignImages, batchImage)
<1>1. Attested(r, P, leafImages, foreignImages, batchImage)
  BY DEF Attested, RecordSize
<1> QED
  BY <1>1, SoundGrows DEF Sound

LEMMA ForeignRunIsSound ==
  ASSUME NEW A, NEW P, NEW leafImages, NEW foreignImages, NEW batchImage,
         foreignImages \cap (leafImages \cup {batchImage}) = {},
         Sound(A, P, leafImages, foreignImages, batchImage),
         NEW r, r.image \in foreignImages, RecordSize(r.journal) # 0,
         r.kind \in {"composite", "succinct"}
  PROVE  Sound(A \cup {r}, P, leafImages, foreignImages, batchImage)
<1>1. Attested(r, P, leafImages, foreignImages, batchImage)
  BY DEF Attested
<1> QED
  BY <1>1, SoundGrows DEF Sound

LEMMA BatchRunIsSound ==
  ASSUME NEW A, NEW P, NEW leafImages, NEW foreignImages, NEW batchImage,
         batchImage \notin leafImages,
         Sound(A, P, leafImages, foreignImages, batchImage),
         NEW kind, NEW context, NEW records, IsSeq(records),
         GuestAccepts(kind, context, records, A),
         NEW o, o.claim = GuestClaim(kind, context, records), o.records = records,
         NEW r, r.image = batchImage, r.journal = Encode(o.claim),
         r.kind \in {"composite", "succinct"}
  PROVE  Sound(A \cup {r}, P \cup {o}, leafImages, foreignImages, batchImage)
<1>1. o.claim.leafClaimKind = kind /\ o.claim.leafGuestImageID = context
  BY GuestClaimFields
<1>2. GuestAccepts(kind, context, records, A \cup {r})
  BY GuestAcceptsGrows
<1>3. Accepted(o, A \cup {r})
  BY <1>1, <1>2 DEF Accepted
<1>4. Attested(r, P \cup {o}, leafImages, foreignImages, batchImage)
  BY EncodeDecodes DEF Attested, RecordSize
<1>5. /\ \A q \in P : Accepted(q, A \cup {r})
      /\ \A q \in A : Attested(q, P \cup {o}, leafImages, foreignImages, batchImage)
  BY SoundGrows
<1> QED
  BY <1>3, <1>4, <1>5 DEF Sound

-----------------------------------------------------------------------------
(* What Sound says of one opening: its claim describes its records, and    *)
(* every record is attested by a succinct receipt.                         *)
LEMMA OpeningFacts ==
  ASSUME NEW A, NEW P, NEW leafImages, NEW foreignImages, NEW batchImage,
         Sound(A, P, leafImages, foreignImages, batchImage), NEW o \in P
  PROVE  /\ IsSeq(o.records)
         /\ Len(o.records) \in Nat \ {0}
         /\ o.claim.leafCount = Len(o.records)
         /\ o.claim.merkleHashKind = MerkleHashSHA256
         /\ o.claim.merkleRoot = Root(o.records)
         /\ ValidateVersion(o.claim)
         /\ SameChildPolicy(o.claim.leafClaimKind, o.records)
         /\ \A i \in 1..Len(o.records) :
              /\ Resolved(A, RecordImage(o.claim.leafClaimKind, o.claim.leafGuestImageID,
                                         o.records[i]),
                             RecordJournal(o.claim.leafClaimKind, o.records[i]))
              /\ o.claim.leafClaimKind = LeafKindHeterogeneousEnvelopeV1
                   => EnvelopeDecodes(o.records[i])
<1> DEFINE c == o.claim
<1>1. /\ IsSeq(o.records)
      /\ c = GuestClaim(c.leafClaimKind, c.leafGuestImageID, o.records)
      /\ GuestAccepts(c.leafClaimKind, c.leafGuestImageID, o.records, A)
  BY DEF Sound, Accepted
<1> HIDE DEF c
<1>2. /\ c.leafCount = Len(o.records)
      /\ c.merkleHashKind = MerkleHashSHA256
      /\ c.merkleRoot = Root(o.records)
      /\ ValidateVersion(c)
  BY <1>1, GuestClaimFields
<1>3. /\ Len(o.records) \in Nat \ {0}
      /\ SameChildPolicy(c.leafClaimKind, o.records)
      /\ \A i \in 1..Len(o.records) :
           DirectLeafAccepted(c.leafClaimKind, c.leafGuestImageID, o.records[i], A)
  BY <1>1 DEF GuestAccepts, IsSeq
<1> QED
  BY <1>1, <1>2, <1>3 DEF c, DirectLeafAccepted

(* batch_support.go verifyBatchInclusionProof: what it accepts against the *)
(* claim of an opening is the record at that index, and it is attested.    *)
LEMMA InclusionSound ==
  ASSUME NEW A, NEW P, NEW leafImages, NEW foreignImages, NEW batchImage,
         Sound(A, P, leafImages, foreignImages, batchImage), NEW o \in P,
         NEW q, Len(q.siblings) \in Nat, verifyBatchInclusionProof(o.claim, q)
  PROVE  /\ q.leafIndex < Len(o.records)
         /\ q.leafJournal = o.records[q.leafIndex + 1]
         /\ Resolved(A, RecordImage(o.claim.leafClaimKind, o.claim.leafGuestImageID,
                                    q.leafJournal),
                        RecordJournal(o.claim.leafClaimKind, q.leafJournal))
<1> DEFINE p == [leafIndex |-> q.leafIndex,
                 leafCount |-> q.leafCount,
                 leafClaim |-> q.leafJournal,
                 siblings  |-> q.siblings]
<1>1. VerifyProof(o.claim.merkleRoot, p)
  BY DEF verifyBatchInclusionProof
<1>2. p.siblings = q.siblings /\ p.leafIndex = q.leafIndex /\ p.leafClaim = q.leafJournal
  OBVIOUS
<1> HIDE DEF p
<1>3. o.claim.merkleRoot = Root(o.records) /\ Len(o.records) \in Nat \ {0}
  BY OpeningFacts
<1>4. Discloses(o.records, p)
  BY <1>1, <1>2, <1>3, VerifyProofSound
<1>5. PICK i \in 1..Len(o.records) : q.leafIndex = i - 1 /\ q.leafJournal = o.records[i]
  BY <1>2, <1>4 DEF Discloses
<1>6. q.leafIndex < Len(o.records) /\ q.leafIndex + 1 = i
  BY <1>3, <1>5
<1>7. Resolved(A, RecordImage(o.claim.leafClaimKind, o.claim.leafGuestImageID, o.records[i]),
                  RecordJournal(o.claim.leafClaimKind, o.records[i]))
  BY OpeningFacts
<1> QED
  BY <1>5, <1>6, <1>7

(* A batch claim attested under the batch guest's image is of an opening.  *)
LEMMA AttestedBatch ==
  ASSUME NEW A, NEW P, NEW leafImages, NEW foreignImages, NEW batchImage,
         Sound(A, P, leafImages, foreignImages, batchImage),
         NEW journal, Resolved(A, batchImage, journal)
  PROVE  \E o \in P : o.claim = Decode(journal) /\ journal = Encode(o.claim)
<1> DEFINE r == [image |-> batchImage, journal |-> journal, kind |-> "succinct"]
<1>1. r \in A /\ r.image = batchImage /\ r.journal = journal
  BY DEF Resolved
<1> HIDE DEF r
<1>2. Attested(r, P, leafImages, foreignImages, batchImage)
  BY <1>1 DEF Sound
<1>3. PICK o \in P : journal = Encode(o.claim)
  BY <1>1, <1>2 DEF Attested
<1> QED
  BY <1>3, EncodeDecodes

(* batch_support.go decodeNextNestedBatchClaim: the nested claim that a    *)
(* verified inclusion discloses under the batch guest's image is the claim *)
(* of an opening, and the batch guest has a receipt for it.                *)
LEMMA NestedClaimSound ==
  ASSUME NEW A, NEW P, NEW leafImages, NEW foreignImages, NEW batchImage,
         Sound(A, P, leafImages, foreignImages, batchImage), NEW o \in P,
         NEW q, Len(q.siblings) \in Nat, verifyBatchInclusionProof(o.claim, q),
         HasNextNestedBatchClaim(o.claim, q),
         RecordImage(o.claim.leafClaimKind, o.claim.leafGuestImageID, q.leafJournal)
           = batchImage
  PROVE  /\ \E p \in P : p.claim = NextNestedBatchClaim(o.claim, q)
         /\ \E r \in A : /\ r.image = batchImage
                         /\ r.journal = Encode(NextNestedBatchClaim(o.claim, q))
<1> DEFINE image   == RecordImage(o.claim.leafClaimKind, o.claim.leafGuestImageID,
                                  q.leafJournal)
           journal == RecordJournal(o.claim.leafClaimKind, q.leafJournal)
<1>1. Resolved(A, image, journal)
  BY InclusionSound
<1>2. image = batchImage /\ NextNestedBatchClaim(o.claim, q) = Decode(journal)
  BY DEF NextNestedBatchClaim
<1> HIDE DEF image, journal
<1>3. \E p \in P : p.claim = Decode(journal) /\ journal = Encode(p.claim)
  BY <1>1, <1>2, AttestedBatch
<1>4. \E r \in A : r.image = batchImage /\ r.journal = journal
  BY <1>1, <1>2 DEF Resolved
<1> QED
  BY <1>2, <1>3, <1>4

LEMMA BuildProofSiblings ==
  ASSUME NEW leaves, Len(leaves) \in Nat \ {0}, NEW i
  PROVE  IsSeq(BuildProof(leaves, i).siblings)
<1>1. Height(leaves) \in Nat
  <2>1. Height(leaves) \in 0..Len(leaves)
    BY HeightIs
  <2> QED
    BY <2>1
<1> QED
  BY <1>1 DEF BuildProof, IsSeq

(* A proof derived from the records of an opening is accepted against its  *)
(* claim: the public fields agree and the path leads to the root.          *)
LEMMA DerivedVerifies ==
  ASSUME NEW A, NEW P, NEW leafImages, NEW foreignImages, NEW batchImage,
         Sound(A, P, leafImages, foreignImages, batchImage), NEW o \in P,
         NEW i \in 0..(Len(o.records) - 1)
  PROVE  verifyBatchInclusionProof(o.claim,
           DeriveInclusion(o.claim.leafClaimKind, o.records, i))
<1> DEFINE kind == o.claim.leafClaimKind
           p    == BuildProof(o.records, i)
           q    == DeriveInclusion(kind, o.records, i)
<1>1. /\ Len(o.records) \in Nat \ {0}
      /\ o.claim.leafCount = Len(o.records)
      /\ o.claim.merkleHashKind = MerkleHashSHA256
      /\ o.claim.merkleRoot = Root(o.records)
      /\ kind = LeafKindHeterogeneousEnvelopeV1 =>
           \A j \in 1..Len(o.records) : EnvelopeDecodes(o.records[j])
  BY OpeningFacts
<1>2. VerifyProof(o.claim.merkleRoot, p)
  BY <1>1, VerifyProofComplete
<1>3. /\ p.leafIndex = i /\ p.leafCount = Len(o.records)
      /\ p.leafClaim = o.records[i + 1]
      /\ p = [leafIndex |-> p.leafIndex, leafCount |-> p.leafCount,
              leafClaim |-> p.leafClaim, siblings |-> p.siblings]
  BY DEF BuildProof
<1> HIDE DEF p
<1>4. /\ q.leafClaimKind = kind /\ q.merkleHashKind = MerkleHashSHA256
      /\ q.leafIndex = p.leafIndex /\ q.leafCount = p.leafCount
      /\ q.leafJournal = p.leafClaim /\ q.siblings = p.siblings
      /\ kind = LeafKindHeterogeneousEnvelopeV1 =>
           /\ q.directLeafKind = p.leafClaim.directLeafKind
           /\ q.directLeafImageID = p.leafClaim.verifyImageID
  BY DEF DeriveInclusion, p
<1> HIDE DEF q
<1>5. kind = LeafKindHeterogeneousEnvelopeV1 => EnvelopeDecodes(q.leafJournal)
  BY <1>1, <1>3, <1>4
<1> QED
  BY <1>1, <1>2, <1>3, <1>4, <1>5 DEF verifyBatchInclusionProof, q

-----------------------------------------------------------------------------
(* A chain: the claim held at every level is that of an opening, as long   *)
(* as the image IDs on the way to it are the batch guest's.                *)

ChainStart(chain)          == chain.root
ChainStep(chain, k, claim) == NextNestedBatchClaim(claim, chain.inclusions[k])

ChainRec == INSTANCE NatRecursion WITH Base <- ChainStart, Step <- ChainStep

LEMMA ChainUnfolds ==
  ASSUME NEW root, NEW inclusions
  PROVE  /\ ClaimAfter(root, inclusions)[0] = root
         /\ \A k \in Nat : ClaimAfter(root, inclusions)[k + 1] =
              NextNestedBatchClaim(ClaimAfter(root, inclusions)[k], inclusions[k + 1])
<1> DEFINE chain == [root |-> root, inclusions |-> inclusions]
<1>1. ClaimAfter(root, inclusions) = ChainRec!Rec(chain)
  BY DEF ClaimAfter, ChainRec!Rec, ChainStart, ChainStep
<1>2. /\ ChainRec!Rec(chain)[0] = ChainStart(chain)
      /\ \A k \in Nat : ChainRec!Rec(chain)[k + 1] = ChainStep(chain, k + 1, ChainRec!Rec(chain)[k])
  BY ChainRec!RecUnfolds
<1>3. ChainStart(chain) = root
  BY DEF ChainStart
<1>4. \A k \in Nat : \A c : ChainStep(chain, k + 1, c) = NextNestedBatchClaim(c, inclusions[k + 1])
  BY DEF ChainStep
<1> HIDE DEF chain
<1> QED
  BY <1>1, <1>2, <1>3, <1>4

(* The records disclosed above the k-th claim are the batch guest's.       *)
VouchedFor(batchImage, claims, inclusions, k) ==
  \A j \in 1..(k - 1) :
    RecordImage(claims[j].leafClaimKind, claims[j].leafGuestImageID,
                inclusions[j].leafJournal) = batchImage

(* A disclosed record that is in the batch of its claim and is attested.   *)
Backs(receipts, batches, claim, q) ==
  /\ \E o \in batches : /\ o.claim = claim
                        /\ q.leafIndex < Len(o.records)
                        /\ q.leafJournal = o.records[q.leafIndex + 1]
  /\ Resolved(receipts, RecordImage(claim.leafClaimKind, claim.leafGuestImageID,
                                    q.leafJournal),
                        RecordJournal(claim.leafClaimKind, q.leafJournal))

LEMMA ChainSound ==
  ASSUME NEW A, NEW P, NEW leafImages, NEW foreignImages, NEW batchImage,
         Sound(A, P, leafImages, foreignImages, batchImage),
         NEW root, \E o \in P : o.claim = root,
         NEW inclusions, Len(inclusions) \in Nat,
         \A k \in 1..Len(inclusions) : Len(inclusions[k].siblings) \in Nat,
         VerifyBatchInclusionChain(root, inclusions)
  PROVE  /\ ChainClaims(root, inclusions)[1] = root
         /\ \A k \in 1..Len(inclusions) :
              VouchedFor(batchImage, ChainClaims(root, inclusions), inclusions, k) =>
                Backs(A, P, ChainClaims(root, inclusions)[k], inclusions[k])
<1> DEFINE n     == Len(inclusions)
           at(k) == ClaimAfter(root, inclusions)[k]
           ok(k) == VouchedFor(batchImage, ChainClaims(root, inclusions), inclusions, k + 1)
           S     == {k \in Nat : k < n /\ ok(k) => \E o \in P : o.claim = at(k)}
<1>1. ASSUME NEW k \in Nat, k < n
      PROVE  /\ verifyBatchInclusionProof(at(k), inclusions[k + 1])
             /\ k + 1 < n => HasNextNestedBatchClaim(at(k), inclusions[k + 1])
             /\ Len(inclusions[k + 1].siblings) \in Nat
             /\ ChainClaims(root, inclusions)[k + 1] = at(k)
  <2>1. k + 1 \in 1..n /\ (k + 1) - 1 = k
    BY <1>1
  <2>2. ChainClaims(root, inclusions)[k + 1] = at(k)
    BY <2>1 DEF ChainClaims
  <2> QED
    BY <2>1, <2>2 DEF VerifyBatchInclusionChain
<1>2. at(0) = root /\ \A k \in Nat : at(k + 1) = NextNestedBatchClaim(at(k), inclusions[k + 1])
  BY ChainUnfolds
<1> HIDE DEF at
<1>3. 0 \in S
  BY <1>2
<1>4. ASSUME NEW k \in Nat, k \in S
      PROVE  k + 1 \in S
  <2> SUFFICES ASSUME k + 1 < n, ok(k + 1)
               PROVE  \E o \in P : o.claim = at(k + 1)
    OBVIOUS
  <2>1. k < n /\ k + 1 < n /\ ok(k)
    BY DEF VouchedFor
  <2>2. PICK o \in P : o.claim = at(k)
    BY <1>4, <2>1
  <2>3. /\ verifyBatchInclusionProof(o.claim, inclusions[k + 1])
        /\ HasNextNestedBatchClaim(o.claim, inclusions[k + 1])
        /\ Len(inclusions[k + 1].siblings) \in Nat
    BY <1>1, <2>1, <2>2
  <2>4. RecordImage(o.claim.leafClaimKind, o.claim.leafGuestImageID,
                    inclusions[k + 1].leafJournal) = batchImage
    <3>1. k + 1 \in 1..((k + 1 + 1) - 1)
      OBVIOUS
    <3> QED
      BY <1>1, <2>1, <2>2, <3>1 DEF VouchedFor
  <2>5. \E p \in P : p.claim = NextNestedBatchClaim(o.claim, inclusions[k + 1])
    BY <2>3, <2>4, NestedClaimSound
  <2> QED
    BY <1>2, <2>2, <2>5
<1> HIDE DEF S
<1>5. Nat \subseteq S
  BY <1>3, <1>4, ChainRec!SetInduction
<1>6. ASSUME NEW k \in Nat, k < n, ok(k)
      PROVE  Backs(A, P, at(k), inclusions[k + 1])
  <2>1. PICK o \in P : o.claim = at(k)
    BY <1>5, <1>6 DEF S
  <2> QED
    BY <1>1, <1>6, <2>1, InclusionSound DEF Backs
<1>7. ASSUME NEW k \in 1..n,
             VouchedFor(batchImage, ChainClaims(root, inclusions), inclusions, k)
      PROVE  Backs(A, P, ChainClaims(root, inclusions)[k], inclusions[k])
  <2>1. k - 1 \in Nat /\ k - 1 < n /\ (k - 1) + 1 = k
    OBVIOUS
  <2>2. ok(k - 1)
    BY <1>7, <2>1
  <2> HIDE DEF ok
  <2> QED
    BY <1>1, <1>6, <2>1, <2>2
<1>8. ChainClaims(root, inclusions)[1] = root
  <2>1. 0 \in Nat /\ 0 < n /\ 0 + 1 = 1
    BY DEF VerifyBatchInclusionChain
  <2>2. ChainClaims(root, inclusions)[0 + 1] = at(0)
    BY <1>1, <2>1
  <2> QED
    BY <1>2, <2>1, <2>2
<1> QED
  BY <1>7, <1>8

-----------------------------------------------------------------------------
(* What loadBatchLeaves knows of the entries it has loaded.                *)

RecordOf(kind, entry) ==
  IF kind = LeafKindHeterogeneousEnvelopeV1
  THEN \E directKind \in SupportedLeafKinds :
         /\ CanEnvelope(directKind, entry.receipt.journal)
         /\ entry.record = Envelope(directKind, entry.receipt.image,
                                    entry.receipt.journal)
  ELSE /\ entry.record = entry.receipt.journal
       /\ RecordSize(entry.record) = LeafClaimSize(kind)

Uniform(kind, entries, i) ==
  kind # LeafKindHeterogeneousEnvelopeV1 =>
    /\ entries[i].receipt.image = entries[1].receipt.image
    /\ kind = LeafKindBatchClaimV1 =>
         ChildBatchPolicy(entries[i].record) = ChildBatchPolicy(entries[1].record)

LoadedOK(receipts, kind, entries) ==
  \A i \in 1..Len(entries) :
    /\ entries[i].receipt \in receipts
    /\ entries[i].receipt.kind = "succinct"
    /\ RecordOf(kind, entries[i])
    /\ Uniform(kind, entries, i)

(* A receipt is nothing but its image, journal and kind.                   *)
Shaped(receipts) ==
  \A r \in receipts : r = [image |-> r.image, journal |-> r.journal, kind |-> r.kind]

(* Where there are only receipts of the repository's guests, whatever is a *)
(* batch claim is the batch guest's, and a chain is backed to its end.     *)
LEMMA OwnChainSound ==
  ASSUME NEW A, NEW P, NEW leafImages, NEW batchImage,
         Sound(A, P, leafImages, {}, batchImage),
         NEW root, \E o \in P : o.claim = root,
         NEW inclusions, Len(inclusions) \in Nat,
         \A k \in 1..Len(inclusions) : Len(inclusions[k].siblings) \in Nat,
         VerifyBatchInclusionChain(root, inclusions)
  PROVE  \A k \in 1..Len(inclusions) :
           Backs(A, P, ChainClaims(root, inclusions)[k], inclusions[k])
<1> DEFINE n      == Len(inclusions)
           c(k)   == ChainClaims(root, inclusions)[k]
           own(k) == RecordImage(c(k).leafClaimKind, c(k).leafGuestImageID,
                                 inclusions[k].leafJournal) = batchImage
           ok(k)  == VouchedFor(batchImage, ChainClaims(root, inclusions), inclusions, k)
           S      == {k \in Nat : k + 1 \in 1..n => ok(k + 1)}
<1>1. ASSUME NEW k \in 1..n, ok(k)
      PROVE  Backs(A, P, c(k), inclusions[k])
  BY <1>1, ChainSound
<1>2. \A k \in 1..n : k < n =>
        Decodes(RecordJournal(c(k).leafClaimKind, inclusions[k].leafJournal))
  BY DEF VerifyBatchInclusionChain, HasNextNestedBatchClaim
<1>3. ASSUME NEW k \in 1..n, k < n, ok(k)
      PROVE  own(k)
  <2> DEFINE image   == RecordImage(c(k).leafClaimKind, c(k).leafGuestImageID,
                                    inclusions[k].leafJournal)
             journal == RecordJournal(c(k).leafClaimKind, inclusions[k].leafJournal)
  <2>1. Resolved(A, image, journal)
    BY <1>1, <1>3 DEF Backs
  <2>2. Decodes(journal)
    BY <1>2, <1>3
  <2> HIDE DEF image, journal
  <2>3. PICK r \in A : r.image = image /\ r.journal = journal
    BY <2>1 DEF Resolved
  <2>4. r.image \in leafImages => r.journal.type = "leaf"
    BY DEF Sound, Attested
  <2>5. r.image = batchImage
    BY <2>2, <2>3, <2>4, LeafDoesNotDecode DEF Sound, Attested
  <2> QED
    BY <2>3, <2>5 DEF image
<1>4. 0 \in S
  BY DEF VouchedFor
<1>5. ASSUME NEW k \in Nat, k \in S
      PROVE  k + 1 \in S
  <2> SUFFICES ASSUME k + 1 + 1 \in 1..n
               PROVE  ok(k + 1 + 1)
    OBVIOUS
  <2>1. k + 1 \in 1..n /\ k + 1 < n /\ ok(k + 1)
    BY <1>5
  <2>2. own(k + 1)
    BY <1>3, <2>1
  <2>3. \A j \in 1..((k + 1 + 1) - 1) : j = k + 1 \/ j \in 1..((k + 1) - 1)
    BY <1>5
  <2>4. \A j \in 1..((k + 1) - 1) : own(j)
    BY <2>1 DEF VouchedFor
  <2> HIDE DEF c
  <2>5. \A j \in 1..((k + 1 + 1) - 1) : own(j)
    BY <2>2, <2>3, <2>4
  <2> QED
    BY <2>5 DEF VouchedFor, c
<1> HIDE DEF S, ok
<1>6. Nat \subseteq S
  BY <1>4, <1>5, ChainRec!SetInduction
<1>7. ASSUME NEW k \in 1..n
      PROVE  ok(k)
  <2>1. k - 1 \in Nat /\ (k - 1) + 1 = k
    OBVIOUS
  <2> QED
    BY <1>6, <2>1 DEF S
<1> QED
  BY <1>1, <1>7

LEMMA KindsDiffer ==
  /\ LeafKindTaproot = 1 /\ LeafKindHardenedXPriv = 2 /\ LeafKindBatchClaimV1 = 3
  /\ LeafKindHeterogeneousEnvelopeV1 = 4
  /\ SupportedLeafKinds = {1, 2, 3, 4}
BY DEF LeafKindTaproot, LeafKindHardenedXPriv, LeafKindBatchClaimV1,
   LeafKindHeterogeneousEnvelopeV1, SupportedLeafKinds

LEMMA LeafClaimSizes ==
  /\ LeafClaimSize(1) = 72 /\ LeafClaimSize(2) = 72
  /\ LeafClaimSize(3) = 84 /\ LeafClaimSize(4) = 128
  /\ \A kind : kind \notin SupportedLeafKinds => LeafClaimSize(kind) = 0
BY KindsDiffer DEF LeafClaimSize

LEMMA EnvelopeFacts ==
  ASSUME NEW directKind, NEW image, NEW journal, CanEnvelope(directKind, journal)
  PROVE  LET e == Envelope(directKind, image, journal)
         IN  /\ EnvelopeDecodes(e)
             /\ RecordSize(e) = LeafClaimSize(LeafKindHeterogeneousEnvelopeV1)
             /\ e.verifyImageID = image
             /\ e.journal = journal
<1> DEFINE e == Envelope(directKind, image, journal)
<1>1. /\ e.type = "envelope" /\ e.version = HeterogeneousEnvelopeVersionV1
      /\ e.directLeafKind = directKind /\ e.verifyImageID = image
      /\ e.journalLen = RecordSize(journal) /\ e.journal = journal
  BY DEF Envelope
<1> HIDE DEF e
<1>2. RecordSize(e) = 128
  BY <1>1 DEF RecordSize
<1>3. LeafClaimSize(LeafKindHeterogeneousEnvelopeV1) = 128
  BY KindsDiffer, LeafClaimSizes
<1> QED
  BY <1>1, <1>2, <1>3 DEF CanEnvelope, EnvelopeDecodes, e

(* The journal of a receipt is a record of some supported kind.            *)
LEMMA AttestedSize ==
  ASSUME NEW A, NEW P, NEW leafImages, NEW foreignImages, NEW batchImage,
         Sound(A, P, leafImages, foreignImages, batchImage), NEW r \in A
  PROVE  RecordSize(r.journal) # 0
BY DEF Sound, Attested

(* The record and the receipt of an entry are those of one zkvm.Verify.    *)
LEMMA EntryAccepted ==
  ASSUME NEW A, NEW P, NEW leafImages, NEW foreignImages, NEW batchImage,
         Sound(A, P, leafImages, foreignImages, batchImage), Shaped(A),
         NEW kind, NEW entries, NEW i \in 1..Len(entries), Len(entries) \in Nat,
         LoadedOK(A, kind, entries)
  PROVE  LET entry == entries[i]
             context == Context(kind, entries)
         IN  /\ entry.receipt.image = RecordImage(kind, context, entry.record)
             /\ entry.receipt.journal = RecordJournal(kind, entry.record)
             /\ kind \in SupportedLeafKinds
             /\ DirectLeafAccepted(kind, context, entry.record, Assumptions(entries))
<1> DEFINE entry   == entries[i]
           context == Context(kind, entries)
<1>1. /\ entry.receipt \in A /\ entry.receipt.kind = "succinct"
      /\ RecordOf(kind, entry) /\ Uniform(kind, entries, i)
  BY DEF LoadedOK
<1>2. entry.receipt \in Assumptions(entries)
  BY DEF Assumptions
<1>3. entry.receipt = [image |-> entry.receipt.image, journal |-> entry.receipt.journal,
                       kind |-> "succinct"]
  BY <1>1 DEF Shaped
<1>4. RecordSize(entry.receipt.journal) # 0
  BY <1>1, AttestedSize
<1>5. kind # LeafKindHeterogeneousEnvelopeV1 =>
        context = entry.receipt.image
  BY <1>1 DEF Uniform, Context
<1>6. kind = LeafKindHeterogeneousEnvelopeV1 => context = PolicyDigest
  BY DEF Context
<1> HIDE DEF entry, context
<1>7. CASE kind = LeafKindHeterogeneousEnvelopeV1
  <2>1. PICK directKind \in SupportedLeafKinds :
          /\ CanEnvelope(directKind, entry.receipt.journal)
          /\ entry.record = Envelope(directKind, entry.receipt.image, entry.receipt.journal)
    BY <1>1, <1>7 DEF RecordOf
  <2>2. /\ EnvelopeDecodes(entry.record)
        /\ RecordSize(entry.record) = LeafClaimSize(LeafKindHeterogeneousEnvelopeV1)
        /\ entry.record.verifyImageID = entry.receipt.image
        /\ entry.record.journal = entry.receipt.journal
    BY <2>1, EnvelopeFacts
  <2>3. /\ entry.receipt.image = RecordImage(kind, context, entry.record)
        /\ entry.receipt.journal = RecordJournal(kind, entry.record)
    BY <1>7, <2>2 DEF RecordImage, RecordJournal
  <2>4. kind \in SupportedLeafKinds
    BY <1>7, KindsDiffer
  <2> QED
    BY <1>2, <1>3, <1>6, <1>7, <2>2, <2>3, <2>4
       DEF DirectLeafAccepted, Resolved, entry, context
<1>8. CASE kind # LeafKindHeterogeneousEnvelopeV1
  <2>1. entry.record = entry.receipt.journal /\ RecordSize(entry.record) = LeafClaimSize(kind)
    BY <1>1, <1>8 DEF RecordOf
  <2>2. /\ entry.receipt.image = RecordImage(kind, context, entry.record)
        /\ entry.receipt.journal = RecordJournal(kind, entry.record)
    BY <1>5, <1>8, <2>1 DEF RecordImage, RecordJournal
  <2>3. kind \in SupportedLeafKinds
    BY <1>4, <2>1, LeafClaimSizes
  <2> QED
    BY <1>2, <1>3, <1>8, <2>1, <2>2, <2>3
       DEF DirectLeafAccepted, Resolved, entry, context
<1> QED
  BY <1>7, <1>8

LEMMA RecordsLen ==
  ASSUME NEW entries, Len(entries) \in Nat
  PROVE  Len(Records(entries)) = Len(entries)
BY DEF Records

(* The host's checks imply the guest's: a batch that loads is accepted.    *)
LEMMA LoadedAccepted ==
  ASSUME NEW A, NEW P, NEW leafImages, NEW foreignImages, NEW batchImage,
         Sound(A, P, leafImages, foreignImages, batchImage), Shaped(A),
         NEW kind, NEW entries, Len(entries) \in Nat \ {0},
         LoadedOK(A, kind, entries)
  PROVE  /\ GuestAccepts(kind, Context(kind, entries), Records(entries),
                         Assumptions(entries))
         /\ Assumptions(entries) \subseteq A
         /\ IsSeq(Records(entries))
<1>1. /\ Len(Records(entries)) = Len(entries)
      /\ \A i \in 1..Len(entries) : Records(entries)[i] = entries[i].record
      /\ IsSeq(Records(entries))
  BY DEF Records, IsSeq
<1>2. ASSUME NEW i \in 1..Len(entries)
      PROVE  /\ kind \in SupportedLeafKinds
             /\ DirectLeafAccepted(kind, Context(kind, entries), Records(entries)[i],
                                   Assumptions(entries))
  BY <1>1, EntryAccepted
<1>3. 1 \in 1..Len(entries)
  OBVIOUS
<1>4. SameChildPolicy(kind, Records(entries))
  BY <1>1, <1>3, KindsDiffer DEF SameChildPolicy, LoadedOK, Uniform
<1>5. Assumptions(entries) \subseteq A
  BY DEF Assumptions, LoadedOK
<1> QED
  BY <1>1, <1>2, <1>3, <1>4, <1>5 DEF GuestAccepts

(* One more input: its claim passed the first checks, its receipt the rest.*)
LEMMA LoadedAppend ==
  ASSUME NEW A, NEW kind, NEW directKind, NEW entries, IsSeq(entries),
         LoadedOK(A, kind, entries),
         NEW r \in A, r.kind = "succinct",
         NEW claim, claim = PublicClaim(r), ClaimAccepted(kind, directKind, entries, claim),
         NEW entry, entry.receipt = r, entry.record = DirectRecord(kind, directKind, claim)
  PROVE  /\ IsSeq(Append(entries, entry))
         /\ Len(Append(entries, entry)) = Len(entries) + 1
         /\ LoadedOK(A, kind, Append(entries, entry))
<1> DEFINE n    == Len(entries)
           more == Append(entries, entry)
<1>1. /\ IsSeq(more) /\ Len(more) = n + 1
      /\ \A i \in 1..n : more[i] = entries[i]
      /\ more[n + 1] = entry
  BY AppendSeq
<1>2. claim.image = r.image /\ claim.journal = r.journal
  BY DEF PublicClaim
<1>3. RecordOf(kind, entry)
  <2>1. CASE kind = LeafKindHeterogeneousEnvelopeV1
    <3>1. CanEnvelope(directKind, r.journal) /\ directKind \in SupportedLeafKinds
      BY <1>2, <2>1 DEF ClaimAccepted, CanEnvelope, SupportedLeafKinds,
         IsAllowedHeterogeneousDirectLeafKindV1
    <3>2. entry.record = Envelope(directKind, r.image, r.journal)
      BY <1>2, <2>1 DEF DirectRecord
    <3> QED
      BY <2>1, <3>1, <3>2 DEF RecordOf
  <2>2. CASE kind # LeafKindHeterogeneousEnvelopeV1
    <3>1. entry.record = r.journal /\ RecordSize(r.journal) = LeafClaimSize(kind)
      BY <1>2, <2>2 DEF ClaimAccepted, DirectRecord
    <3> QED
      BY <2>2, <3>1 DEF RecordOf
  <2> QED
    BY <2>1, <2>2
<1>4. Len(entries) \in Nat
  BY DEF IsSeq
<1>5. n # 0 => entries # <<>>
  OBVIOUS
<1>6. n # 0 /\ kind # LeafKindHeterogeneousEnvelopeV1 =>
        /\ entry.receipt.image = entries[1].receipt.image
        /\ kind = LeafKindBatchClaimV1 =>
             ChildBatchPolicy(entry.record) = ChildBatchPolicy(entries[1].record)
  BY <1>2, <1>5 DEF ClaimAccepted, DirectRecord
<1> HIDE DEF more
<1>7. ASSUME NEW i \in 1..n
      PROVE  /\ more[i].receipt \in A /\ more[i].receipt.kind = "succinct"
             /\ RecordOf(kind, more[i]) /\ Uniform(kind, more, i)
  <2>1. more[i] = entries[i] /\ more[1] = entries[1]
    BY <1>1, <1>4
  <2> QED
    BY <2>1 DEF LoadedOK, Uniform
<1>8. Uniform(kind, more, n + 1)
  <2>1. CASE n = 0
    BY <1>1, <2>1 DEF Uniform
  <2>2. CASE n # 0
    <3>1. more[1] = entries[1] /\ more[n + 1] = entry
      BY <1>1, <1>4, <2>2
    <3> QED
      BY <1>6, <2>2, <3>1 DEF Uniform
  <2> QED
    BY <2>1, <2>2
<1>9. ASSUME NEW i \in 1..Len(more)
      PROVE  i \in 1..n \/ i = n + 1
  BY <1>1, <1>4
<1>10. LoadedOK(A, kind, more)
  BY <1>1, <1>3, <1>7, <1>8, <1>9 DEF LoadedOK
<1> QED
  BY <1>1, <1>10 DEF more

-----------------------------------------------------------------------------
(* The leaf lanes.                                                         *)

LaneNames == {"taproot", "xpriv", "xpub"}

-----------------------------------------------------------------------------
(* Paths.                                                                  *)

LEMMA WordOfMark ==
  \A d \in Indices :
    /\ (d + HardenedKeyStart) % (2 * HardenedKeyStart) \in Indices
    /\ d < HardenedKeyStart =>
         (d + HardenedKeyStart) % (2 * HardenedKeyStart) = d + HardenedKeyStart
<1> DEFINE w == 2 * HardenedKeyStart
<1>1. HardenedKeyStart \in Nat \ {0} /\ w \in Nat \ {0} /\ Indices = 0..(w - 1)
  BY IndicesAssumption DEF Indices
<1>2. \A m \in Nat, k \in Nat \ {0} : m % k \in 0..(k - 1)
  OBVIOUS
<1>3. \A m \in Nat, k \in Nat \ {0} : m < k => m % k = m
  OBVIOUS
<1> SUFFICES ASSUME NEW d \in Indices
             PROVE  /\ (d + HardenedKeyStart) % w \in Indices
                    /\ d < HardenedKeyStart => (d + HardenedKeyStart) % w = d + HardenedKeyStart
  OBVIOUS
<1>4. d + HardenedKeyStart \in Nat
  BY <1>1
<1>5. d < HardenedKeyStart => d + HardenedKeyStart < w
  BY <1>1
<1> HIDE DEF w
<1> QED
  BY <1>1, <1>2, <1>3, <1>4, <1>5

LEMMA ParsedPath ==
  ASSUME NEW text, IsPathText(text), Parses(text)
  PROVE  ParseBIP32Path(text) \in Seq(Indices)
<1> DEFINE n == Len(text.steps)
<1>1. n \in Nat /\ \A i \in 1..n : text.steps[i].digits \in Indices
  BY DEF IsPathText, Parses
<1>2. ASSUME NEW i \in 1..n
      PROVE  (IF text.steps[i].hardened
              THEN (text.steps[i].digits + HardenedKeyStart) % (2 * HardenedKeyStart)
              ELSE text.steps[i].digits) \in Indices
  BY <1>1, WordOfMark
<1>3. ParseBIP32Path(text) \in [1..n -> Indices]
  BY <1>2 DEF ParseBIP32Path
<1> HIDE DEF n
<1> QED
  BY <1>1, <1>3

(* A path text that was meant as one is read as what it means.             *)
LEMMA ParsedAsMeant ==
  ASSUME NEW text, Parses(text), Proper(text), IsPathText(text)
  PROVE  ParseBIP32Path(text) = Meaning(text)
<1> DEFINE n == Len(text.steps)
<1>1. n \in Nat /\ \A i \in 1..n : text.steps[i].digits \in Indices
  BY DEF IsPathText, Parses
<1>2. ASSUME NEW i \in 1..n
      PROVE  (IF text.steps[i].hardened
              THEN (text.steps[i].digits + HardenedKeyStart) % (2 * HardenedKeyStart)
              ELSE text.steps[i].digits)
             = text.steps[i].digits + IF text.steps[i].hardened THEN HardenedKeyStart ELSE 0
  <2>1. text.steps[i].digits \in Nat
    BY <1>1 DEF Indices
  <2> QED
    BY <1>1, <2>1, WordOfMark DEF Proper
<1> QED
  BY <1>2 DEF ParseBIP32Path, Meaning

LEMMA BIP86Shape ==
  ASSUME NEW path \in Seq(Indices), IsBIP86Path(path)
  PROVE  BIP86Path(path)
<1>1. /\ Len(path) = 5
      /\ path[1] = HardenedKeyStart + Purpose
      /\ \A i \in 1..5 : path[i] \in Indices
  BY DEF IsBIP86Path, BIP86Purpose
<1>2. HardenedKeyStart \in Nat
  BY IndicesAssumption
<1> DEFINE coin == path[2] - HardenedKeyStart
           account == path[3] - HardenedKeyStart
<1>3. coin \in 0..(HardenedKeyStart - 1) /\ path[2] = HardenedKeyStart + coin
  BY <1>1, <1>2 DEF IsBIP86Path, Indices
<1>4. account \in 0..(HardenedKeyStart - 1) /\ path[3] = HardenedKeyStart + account
  BY <1>1, <1>2 DEF IsBIP86Path, Indices
<1>5. path[4] \in {0, 1} /\ path[5] \in 0..(HardenedKeyStart - 1)
  BY <1>1, <1>2 DEF IsBIP86Path, Indices
<1> HIDE DEF coin, account
<1>6. path = <<HardenedKeyStart + Purpose, HardenedKeyStart + coin,
               HardenedKeyStart + account, path[4], path[5]>>
  BY <1>1, <1>3, <1>4
<1> QED
  BY <1>3, <1>4, <1>5, <1>6 DEF BIP86Path

-----------------------------------------------------------------------------
(* Claims.                                                                 *)

LEMMA FlagCommitted ==
  ASSUME NEW flags
  PROVE  RequiresBIP86(IF RequiresBIP86(flags) THEN ClaimFlagRequireBIP86 ELSE 0)
           <=> RequiresBIP86(flags)
BY DEF RequiresBIP86, ClaimFlagRequireBIP86

LEMMA JournalOfLane ==
  ASSUME NEW lane \in LaneNames, NEW stdin
  PROVE  DecodesLeaf(lane, LeafGuestJournal(lane, stdin))
BY DEF DecodesLeaf, LeafGuestJournal, Journal, LaneNames

LEMMA TaprootClaim ==
  ASSUME NEW stdin
  PROVE  LET claim == LeafGuestJournal("taproot", stdin).claim
         IN  /\ claim.version = ClaimVersion
             /\ RequiresBIP86(claim.flags) <=> RequiresBIP86(stdin.flags)
             /\ claim.taprootOutputKey = TaprootOutputKey(Child("taproot", stdin))
             /\ claim.pathCommitment = CommitPath(stdin.path)
<1>1. LeafGuestJournal("taproot", stdin).claim = DeriveTaprootClaim(stdin)
  BY DEF LeafGuestJournal, Journal
<1> QED
  BY <1>1, FlagCommitted DEF DeriveTaprootClaim, Child

LEMMA XPrivClaim ==
  ASSUME NEW stdin
  PROVE  LET claim == LeafGuestJournal("xpriv", stdin).claim
         IN  /\ claim.childPrivateKey = PrivateKey(Child("xpriv", stdin))
             /\ claim.chainCode = ChainCode(Child("xpriv", stdin))
<1>1. LeafGuestJournal("xpriv", stdin).claim = DeriveHardenedXPrivClaim(stdin)
  BY DEF LeafGuestJournal, Journal
<1> QED
  BY <1>1 DEF DeriveHardenedXPrivClaim, Child

LEMMA XPubClaim ==
  ASSUME NEW stdin
  PROVE  LET claim == LeafGuestJournal("xpub", stdin).claim
         IN  /\ claim.compressedPubKey = PublicKey(Child("xpub", stdin))
             /\ claim.chainCode = ChainCode(Child("xpub", stdin))
<1>1. LeafGuestJournal("xpub", stdin).claim = DeriveHardenedXPubClaim(stdin)
  BY DEF LeafGuestJournal, Journal
<1> QED
  BY <1>1 DEF DeriveHardenedXPubClaim, Child

LEMMA CommitPathInjective ==
  ASSUME NEW path, NEW other, CommitPath(path) = PathCommitmentFromPath(other)
  PROVE  path = other
<1>1. CommitPath(path).path = path /\ PathCommitmentFromPath(other).path = other
  BY DEF CommitPath, PathCommitmentFromPath
<1> QED
  BY <1>1

-----------------------------------------------------------------------------
(* claim.json.                                                             *)

LEMMA ClaimFileFields ==
  ASSUME NEW r, r.image \in LaneNames
  PROVE  /\ ClaimFileOf(r).imageID = r.image
         /\ ClaimFileOf(r).journal = r.journal
         /\ "imageID" \in DOMAIN ClaimFileOf(r)
<1>1. CASE r.image = "taproot"
  <2>1. ClaimFileOf(r) = NewClaimFile(r.image, r.journal)
    BY <1>1 DEF ClaimFileOf
  <2>2. "imageID" \in DOMAIN NewClaimFile(r.image, r.journal)
    BY DEF NewClaimFile
  <2> QED
    BY <2>1, <2>2 DEF NewClaimFile
<1>2. CASE r.image = "xpriv"
  <2>1. ClaimFileOf(r) = NewHardenedXPrivClaimFile(r.image, r.journal)
    BY <1>2 DEF ClaimFileOf
  <2>2. "imageID" \in DOMAIN NewHardenedXPrivClaimFile(r.image, r.journal)
    BY DEF NewHardenedXPrivClaimFile
  <2> QED
    BY <2>1, <2>2 DEF NewHardenedXPrivClaimFile
<1>3. CASE r.image = "xpub"
  <2>1. ClaimFileOf(r) = NewHardenedXPubClaimFile(r.image, r.journal)
    BY <1>3 DEF ClaimFileOf
  <2>2. "imageID" \in DOMAIN NewHardenedXPubClaimFile(r.image, r.journal)
    BY DEF NewHardenedXPubClaimFile
  <2> QED
    BY <2>1, <2>2 DEF NewHardenedXPubClaimFile
<1> QED
  BY <1>1, <1>2, <1>3 DEF LaneNames

(* Only the claim.json of the same image and journal matches.              *)
LEMMA FileMatches ==
  ASSUME NEW r, NEW s, r.image \in LaneNames, s.image \in LaneNames,
         MatchesClaimFile(s.image, ClaimFileOf(r), s)
  PROVE  ClaimFileOf(r) = ClaimFileOf(s)
<1>1. /\ ClaimFileOf(r).imageID = ClaimFileOf(s).imageID
      /\ ClaimFileOf(r).journal = ClaimFileOf(s).journal
  BY DEF MatchesClaimFile, verifyClaimFileMatches, verifyHardenedXPrivClaimFileMatches,
     verifyHardenedXPubClaimFileMatches, LaneNames
<1>2. r.image = s.image /\ r.journal = s.journal
  BY <1>1, ClaimFileFields
<1> QED
  BY <1>2 DEF ClaimFileOf, LaneNames

LEMMA OwnFileMatches ==
  ASSUME NEW s, s.image \in LaneNames
  PROVE  MatchesClaimFile(s.image, ClaimFileOf(s), s)
BY DEF MatchesClaimFile, verifyClaimFileMatches, verifyHardenedXPrivClaimFileMatches,
   verifyHardenedXPubClaimFileMatches, LaneNames

-----------------------------------------------------------------------------
(* A stdin that the guest of a lane accepts.                               *)
FromLeafGuest(lane, stdin) ==
  /\ lane \in LaneNames
  /\ LeafGuestAccepts(lane, stdin)
  /\ lane = "taproot" => stdin.path \in Seq(Indices)

ReadableExpectations(lane, e) ==
  lane = "taproot" => IsPathText(e.path) /\ e.requireBIP86 \in {"", "yes", "no"}

LEMMA FlagMeansShape ==
  ASSUME NEW lane, NEW stdin, FromLeafGuest(lane, stdin), lane = "taproot", RequiresBIP86(stdin.flags)
  PROVE  BIP86Path(stdin.path)
BY BIP86Shape DEF FromLeafGuest, LeafGuestAccepts, TaprootGuestAccepts

(* A stdin whose claim meets the expectations is described by them.        *)
LEMMA MeetingDescribes ==
  ASSUME NEW lane, NEW stdin, FromLeafGuest(lane, stdin), NEW e, ReadableExpectations(lane, e),
         MeetsExpectations(lane, e, LeafGuestJournal(lane, stdin).claim)
  PROVE  Describes(lane, e, stdin)
<1> DEFINE claim == LeafGuestJournal(lane, stdin).claim
<1>1. CASE lane = "taproot"
  <2>1. IsPathText(e.path) /\ e.requireBIP86 \in {"", "yes", "no"}
    BY <1>1 DEF ReadableExpectations
  <2>2. verifyClaimExpectations(e, claim)
    BY <1>1 DEF MeetsExpectations
  <2>3. /\ RequiresBIP86(claim.flags) <=> RequiresBIP86(stdin.flags)
        /\ claim.taprootOutputKey = TaprootOutputKey(Child("taproot", stdin))
        /\ claim.pathCommitment = CommitPath(stdin.path)
    BY <1>1, TaprootClaim DEF FromLeafGuest
  <2> HIDE DEF claim
  <2>4. ASSUME e.path.given, Proper(e.path)
        PROVE  stdin.path = Meaning(e.path)
    <3>1. /\ Parses(e.path)
          /\ CommitPath(stdin.path) = PathCommitmentFromPath(ParseBIP32Path(e.path))
      BY <2>2, <2>3, <2>4 DEF verifyClaimExpectations
    <3> QED
      BY <2>1, <2>4, <3>1, CommitPathInjective, ParsedAsMeant
  <2>5. e.requireBIP86 = "yes" => RequiresBIP86(stdin.flags)
    BY <2>2, <2>3 DEF verifyClaimExpectations
  <2>6. e.requireBIP86 = "no" => ~ RequiresBIP86(stdin.flags)
    BY <2>2, <2>3 DEF verifyClaimExpectations
  <2>7. /\ e.pubKey \in {Unset, TaprootOutputKey(Child("taproot", stdin))}
        /\ e.pathCommitment \in {Unset, CommitPath(stdin.path)}
    BY <2>2, <2>3 DEF verifyClaimExpectations, Meets
  <2> QED
    BY <1>1, <2>4, <2>5, <2>6, <2>7, FlagMeansShape DEF Describes
<1>2. CASE lane = "xpriv"
  <2>1. verifyHardenedXPrivExpectations(e, claim)
    BY <1>2 DEF MeetsExpectations
  <2>2. /\ claim.childPrivateKey = PrivateKey(Child("xpriv", stdin))
        /\ claim.chainCode = ChainCode(Child("xpriv", stdin))
    BY <1>2, XPrivClaim DEF FromLeafGuest
  <2> QED
    BY <1>2, <2>1, <2>2 DEF verifyHardenedXPrivExpectations, Meets, Describes
<1>3. CASE lane = "xpub"
  <2>1. verifyHardenedXPubExpectations(e, claim)
    BY <1>3 DEF MeetsExpectations
  <2>2. /\ claim.compressedPubKey = PublicKey(Child("xpub", stdin))
        /\ claim.chainCode = ChainCode(Child("xpub", stdin))
    BY <1>3, XPubClaim DEF FromLeafGuest
  <2> QED
    BY <1>3, <2>1, <2>2 DEF verifyHardenedXPubExpectations, Meets, Describes
<1> QED
  BY <1>1, <1>2, <1>3 DEF FromLeafGuest, LaneNames

(* The converse, for the texts that can be read and are not combined.      *)
LEMMA DescribedMeets ==
  ASSUME NEW lane, NEW stdin, FromLeafGuest(lane, stdin), NEW e, ReadableExpectations(lane, e),
         Describes(lane, e, stdin),
         lane = "taproot" =>
           /\ e.pathCommitment = Unset \/ ~e.path.given
           /\ Parses(e.path) /\ Proper(e.path)
  PROVE  MeetsExpectations(lane, e, LeafGuestJournal(lane, stdin).claim)
<1> DEFINE claim == LeafGuestJournal(lane, stdin).claim
<1>1. CASE lane = "taproot"
  <2>1. IsPathText(e.path) /\ e.requireBIP86 \in {"", "yes", "no"}
    BY <1>1 DEF ReadableExpectations
  <2>2. Describes("taproot", e, stdin)
    BY <1>1
  <2>3. /\ RequiresBIP86(claim.flags) <=> RequiresBIP86(stdin.flags)
        /\ claim.taprootOutputKey = TaprootOutputKey(Child("taproot", stdin))
        /\ claim.pathCommitment = CommitPath(stdin.path)
    BY <1>1, TaprootClaim DEF FromLeafGuest
  <2> HIDE DEF claim
  <2>4. Meets(claim.taprootOutputKey, e.pubKey) /\ Meets(claim.pathCommitment, e.pathCommitment)
    BY <2>2, <2>3 DEF Describes, Meets
  <2>5. ASSUME e.path.given
        PROVE  claim.pathCommitment = PathCommitmentFromPath(ParseBIP32Path(e.path))
    <3>1. stdin.path = Meaning(e.path)
      BY <1>1, <2>2, <2>5 DEF Describes
    <3>2. ParseBIP32Path(e.path) = Meaning(e.path)
      BY <1>1, <2>1, ParsedAsMeant
    <3> QED
      BY <2>3, <3>1, <3>2 DEF CommitPath, PathCommitmentFromPath
  <2>6. e.requireBIP86 # "" => (e.requireBIP86 = "yes") = RequiresBIP86(claim.flags)
    <3>1. e.requireBIP86 = "yes" => RequiresBIP86(claim.flags)
      BY <2>2, <2>3 DEF Describes
    <3>2. e.requireBIP86 = "no" => ~ RequiresBIP86(claim.flags)
      BY <2>2, <2>3 DEF Describes
    <3>3. RequiresBIP86(claim.flags) \in BOOLEAN
      BY DEF RequiresBIP86
    <3> QED
      BY <2>1, <3>1, <3>2, <3>3
  <2>7. verifyClaimExpectations(e, claim)
    BY <1>1, <2>4, <2>5, <2>6 DEF verifyClaimExpectations
  <2> QED
    BY <1>1, <2>7 DEF MeetsExpectations, claim
<1>2. CASE lane = "xpriv"
  <2>1. /\ claim.childPrivateKey = PrivateKey(Child("xpriv", stdin))
        /\ claim.chainCode = ChainCode(Child("xpriv", stdin))
    BY <1>2, XPrivClaim DEF FromLeafGuest
  <2>2. verifyHardenedXPrivExpectations(e, claim)
    BY <1>2, <2>1 DEF verifyHardenedXPrivExpectations, Meets, Describes
  <2> QED
    BY <1>2, <2>2 DEF MeetsExpectations
<1>3. CASE lane = "xpub"
  <2>1. /\ claim.compressedPubKey = PublicKey(Child("xpub", stdin))
        /\ claim.chainCode = ChainCode(Child("xpub", stdin))
    BY <1>3, XPubClaim DEF FromLeafGuest
  <2>2. verifyHardenedXPubExpectations(e, claim)
    BY <1>3, <2>1 DEF verifyHardenedXPubExpectations, Meets, Describes
  <2> QED
    BY <1>3, <2>2 DEF MeetsExpectations
<1> QED
  BY <1>1, <1>2, <1>3 DEF FromLeafGuest, LaneNames

(* What the host hands to the Taproot guest holds a path of 32-bit words.  *)
LEMMA StdinPath ==
  ASSUME NEW w, IsPathText(w.path), w.testVector \in BOOLEAN, Resolves("taproot", w)
  PROVE  Stdin("taproot", w).path \in Seq(Indices)
<1>2. resolveWitness(w) /\ Stdin("taproot", w).path = WitnessPath(w)
  BY DEF Resolves, Stdin, BuildWitnessStdin
<1>3. CASE w.testVector
  <2>1. DefaultBIP32Path \in Seq(Indices)
    BY IndicesAssumption DEF DefaultBIP32Path, BIP86Purpose, Indices
  <2> QED
    BY <1>2, <1>3, <2>1 DEF WitnessPath
<1>4. CASE ~ w.testVector
  <2>1. Parses(w.path)
    BY <1>2, <1>4 DEF resolveWitness
  <2> QED
    BY <1>2, <1>4, <2>1, ParsedPath DEF WitnessPath
<1> QED
  BY <1>3, <1>4
=============================================================================
