-------------------------- MODULE NestedPlan_proofs -------------------------
(***************************************************************************)
(* The nested plan wrapper for manifests of any shape, any number of runs  *)
(* and any files left behind by the runs before.                           *)
(*                                                                         *)
(* Whatever the nodes are named, the recursion keeps its shape and every   *)
(* receipt comes from a guest run of the ledger.  What a run leaves on the *)
(* disk, reports and discloses is what the manifest says when no two nodes *)
(* of it have the same artifact base (DistinctArtifacts): TLC finds the    *)
(* run in which they do and ArtifactsKept fails.  The last theorem says    *)
(* for which labels they have not.                                         *)
(***************************************************************************)
EXTENDS NestedPlan, Guests_proofs, FiniteSetTheorems

ST == INSTANCE SequenceTheorems

-----------------------------------------------------------------------------
(* The inductive invariant: the shape of a run, whatever the names are.    *)

(* The phases of proveNestedBatchNode after the call of its guest, all of  *)
(* its phases, and those of the walk down the disclosure path.             *)
Writing == {"write receipt", "write claim", "read claim"}
Proving == Writing \cup {"resolve"}
Walking == {"derive", "write proof", "bundle", "write chain", "verify", "done"}

Done == DOMAIN resolved

(* What resolveNestedBatchLeaf returns for a leaf of the plan.             *)
InputOf(p, path, i) ==
  [slot       |-> IF Inline(p, path, i) THEN Base(p, Append(path, i))
                                        ELSE LeafAt(p, path, i).file,
   directKind |-> DirectKind(p, path, i)]

InputsOK(p, nodes, path, inputs) ==
  /\ IsSeq(inputs) /\ Len(inputs) <= Len(NodeAt(p, path).leaves)
  /\ \A j \in 1..Len(inputs) :
       /\ inputs[j] = InputOf(p, path, j - 1)
       /\ KindResolves(p, path, j - 1)
       /\ Inline(p, path, j - 1) => Append(path, j - 1) \in nodes

CallOK(p, nodes, call) ==
  /\ call.path \in DOMAIN p.nodes \ nodes
  /\ NodeAt(p, call.path).kind \in SupportedLeafKinds
  /\ Len(NodeAt(p, call.path).leaves) # 0
  /\ InputsOK(p, nodes, call.path, call.inputs)

CallsOK(p, nodes, calls) ==
  /\ IsSeq(calls)
  /\ \A i \in 1..Len(calls) :
       /\ CallOK(p, nodes, calls[i])
       /\ Len(calls[i].path) = i - 1
       /\ i > 1 => calls[i].path = Append(calls[i - 1].path, Len(calls[i - 1].inputs))

NodesOK(p, res) ==
  \A path \in DOMAIN res :
    /\ path \in DOMAIN p.nodes
    /\ InputsOK(p, DOMAIN res, path, res[path].inputs)
    /\ Len(res[path].inputs) = Len(NodeAt(p, path).leaves)

(* What is resolved lies below what is resolved, or below an index that a  *)
(* call has passed.                                                        *)
Passed(nodes, calls) ==
  \A path \in nodes :
    \/ path = <<>>
    \/ Front(path) \in nodes
    \/ \E i \in 1..Len(calls) : /\ calls[i].path = Front(path)
                                /\ Last(path) < Len(calls[i].inputs)

ShapeInv ==
  /\ phase \in {"idle", "failed", "killed"} \cup Proving \cup Walking
  /\ runs \in 0..MaxRuns
  /\ phase = "idle" => stack = <<>> /\ resolved = <<>>
  /\ phase # "idle" => /\ plan \in Plans
                       /\ CallsOK(plan, Done, stack)
                       /\ NodesOK(plan, resolved)
  /\ phase \in Proving => Len(stack) # 0 /\ Passed(Done, stack)
  /\ phase \in Writing => Len(Call.inputs) = Len(Node.leaves)
  /\ phase \in Walking => <<>> \in Done

-----------------------------------------------------------------------------
(* The receipts: those that exist are sound, those on disk exist.          *)

FilesOK ==
  /\ receiptFile = [f \in Files |-> receiptFile[f]]
  /\ claimFile = [f \in Files |-> claimFile[f]]
  /\ \A f \in Files : Readable(receiptFile[f]) => receiptFile[f].data \in ledger

ReceiptInv ==
  /\ Sound(ledger, openings, LeafImages, ForeignImages, BatchImage)
  /\ FilesOK
  /\ phase = "write receipt" => held \in ledger

-----------------------------------------------------------------------------
(* The artifacts: a resolved node is proved as planned, and its files hold *)
(* its receipt and claim; so do, up to the write at hand, those of the     *)
(* node whose call is about to return.                                     *)

NodeReceipt(p, path) ==
  [image   |-> BatchImage,
   journal |-> Encode(PlannedClaim(p, path)),
   kind    |-> ReceiptKind(p)]

PlannedOpening(p, path) ==
  [claim |-> PlannedClaim(p, path), records |-> PlannedRecords(p, path)]

Proved(p, path) ==
  /\ NodeProvable(p, path)
  /\ PlannedOpening(p, path) \in openings

Kept(p, path) ==
  /\ receiptFile[Base(p, path)] = Full(NodeReceipt(p, path))
  /\ claimFile[Base(p, path)] = Full(PublicClaim(NodeReceipt(p, path)))

ExternalFiles ==
  \A f \in Files \ Bases :
    /\ receiptFile[f] = IF f \in DOMAIN External THEN Full(External[f]) ELSE Absent
    /\ claimFile[f] = IF f \in DOMAIN External THEN Full(PublicClaim(External[f]))
                                               ELSE Absent

ArtifactInv ==
  /\ ExternalFiles
  /\ \A path \in Done :
       /\ Proved(plan, path) /\ Kept(plan, path)
       /\ resolved[path].claim = PublicClaim(NodeReceipt(plan, path))
  /\ phase \in Writing =>
       /\ held = NodeReceipt(plan, Call.path)
       /\ Proved(plan, Call.path)
  /\ phase \in {"write claim", "read claim"} =>
       receiptFile[Base(plan, Call.path)] = Full(held)
  /\ phase = "read claim" => claimFile[Base(plan, Call.path)] = Full(PublicClaim(held))
  /\ phase \in Walking => report.topClaim = PublicClaim(NodeReceipt(plan, <<>>))

-----------------------------------------------------------------------------
(* The walk: each level derived so far has its planned proof on disk.      *)

Prefix(p, k) == SubSeq(p.disclosurePath, 1, k)

PlannedInclusion(p, k) ==
  DeriveInclusion(NodeAt(p, Prefix(p, k)).kind, PlannedRecords(p, Prefix(p, k)),
                  p.disclosurePath[k + 1])

PlannedChain(p) == [k \in 1..Len(p.disclosurePath) |-> PlannedInclusion(p, k - 1)]

(* The levels for which a proof has been derived.                          *)
LevelsOK ==
  /\ IsSeq(proofPaths) /\ Depth <= Len(plan.disclosurePath)
  /\ \A k \in 0..(Depth - 1) :
       /\ Prefix(plan, k) \in Done
       /\ plan.disclosurePath[k + 1] < Len(NodeAt(plan, Prefix(plan, k)).leaves)
       /\ proofPaths[k + 1] = <<Base(plan, Prefix(plan, k)), k>>
       /\ proofFile[proofPaths[k + 1]] = Full(PlannedInclusion(plan, k))

ChainInv ==
  /\ proofFile = [f \in Bases \X Depths |-> proofFile[f]]
  /\ phase \in Proving => proofPaths = <<>>
  /\ phase \in Proving \cup (Walking \ {"verify", "done"}) => report.chain = FALSE
  /\ phase \in Walking => LevelsOK
  /\ phase \in {"derive", "write proof"} =>
       /\ Depth < Len(plan.disclosurePath)
       /\ Current \in Done
  /\ phase = "write proof" =>
       /\ LeafIndex < Len(NodeAt(plan, Current).leaves)
       /\ held = PlannedInclusion(plan, Depth)
  /\ phase \in Walking \ {"derive", "write proof"} => Depth = Len(plan.disclosurePath)
  /\ phase \in {"bundle", "write chain"} => plan.disclosurePath # <<>>
  /\ phase = "write chain" => held = [proofs |-> PlannedChain(plan)]
  /\ phase \in {"verify", "done"} =>
       /\ report.chain = (plan.disclosurePath # <<>>)
       /\ plan.disclosurePath # <<>> => chainFile = Full(PlannedChain(plan))

(* A run fails only when its plan cannot be carried out.                   *)
OutcomeInv == phase = "failed" => ~ Achievable(plan)
-----------------------------------------------------------------------------
(* Sequences: calls, and paths.                                            *)

LEMMA OnlyOne == \A n \in Nat \ {0} : ~(n > 1) => n = 1
OBVIOUS

LEMMA FrontSeq ==
  ASSUME NEW s, IsSeq(s), Len(s) # 0
  PROVE  /\ IsSeq(Front(s))
         /\ Len(Front(s)) = Len(s) - 1
         /\ \A k \in 1..(Len(s) - 1) : Front(s)[k] = s[k]
<1> DEFINE S == {s[k] : k \in 1..Len(s)}
<1>1. /\ Len(s) \in Nat \ {0} /\ Len(s) - 1 \in Nat /\ 1 \in Int
      /\ \A k \in 1..(Len(s) - 1) : s[k] \in S
  BY DEF IsSeq
<1> HIDE DEF S
<1>2. /\ Front(s) \in Seq(S)
      /\ Len(Front(s)) = IF 1 <= Len(s) - 1 THEN Len(s) - 1 - 1 + 1 ELSE 0
      /\ \A k \in 1..(Len(s) - 1 - 1 + 1) : Front(s)[k] = s[1 + k - 1]
  BY <1>1, ST!SubSeqProperties DEF Front
<1>3. ASSUME NEW t \in Seq(S) PROVE IsSeq(t)
  BY DEF IsSeq
<1>4. Len(Front(s)) = Len(s) - 1
  <2>1. PICK n \in Nat \ {0} : n = Len(s)
    BY <1>1
  <2>2. Len(Front(s)) = IF 1 <= n - 1 THEN n - 1 - 1 + 1 ELSE 0
    BY <1>2, <2>1
  <2> QED
    BY <2>1, <2>2
<1>5. ASSUME NEW k \in 1..(Len(s) - 1) PROVE Front(s)[k] = s[k]
  <2>1. 1 + k - 1 = k /\ k \in 1..(Len(s) - 1 - 1 + 1)
    BY <1>1
  <2> QED
    BY <1>2, <2>1
<1> QED
  BY <1>2, <1>3, <1>4, <1>5

LEMMA PathAppend ==
  ASSUME NEW path \in Seq(Nat), NEW i \in Nat
  PROVE  /\ Append(path, i) \in Seq(Nat)
         /\ Len(Append(path, i)) = Len(path) + 1
         /\ Append(path, i) # <<>>
         /\ Front(Append(path, i)) = path
         /\ Last(Append(path, i)) = i
<1>1. /\ Append(path, i) \in Seq(Nat)
      /\ Len(Append(path, i)) = Len(path) + 1
      /\ Append(path, i) # <<>>
      /\ Last(Append(path, i)) = i
  BY DEF Last
<1>2. /\ IsSeq(Append(path, i)) /\ Len(Append(path, i)) # 0
      /\ Len(path) \in Nat /\ Len(Append(path, i)) - 1 = Len(path)
      /\ \A k \in 1..Len(path) : Append(path, i)[k] = path[k]
  <2>1. IsSeq(path)
    BY DEF IsSeq
  <2> QED
    BY <1>1, <2>1, AppendSeq DEF IsSeq
<1>3. /\ IsSeq(Front(Append(path, i)))
      /\ Len(Front(Append(path, i))) = Len(path)
      /\ \A k \in 1..Len(path) : Front(Append(path, i))[k] = path[k]
  BY <1>1, <1>2, FrontSeq
<1>4. Front(Append(path, i)) = path
  BY <1>3 DEF IsSeq
<1> QED
  BY <1>1, <1>4

LEMMA PathFront ==
  ASSUME NEW path \in Seq(Nat), path # <<>>
  PROVE  /\ Front(path) \in Seq(Nat)
         /\ Len(Front(path)) = Len(path) - 1
         /\ Last(path) \in Nat
         /\ path = Append(Front(path), Last(path))
<1>1. Len(path) \in Nat \ {0}
  OBVIOUS
<1>2. /\ Front(path) \in Seq(Nat) /\ Len(Front(path)) = Len(path) - 1
      /\ \A k \in 1..(Len(path) - 1) : Front(path)[k] = path[k]
      /\ Last(path) \in Nat
  <2>1. IsSeq(path) /\ \A k \in 1..Len(path) : path[k] \in Nat
    BY DEF IsSeq
  <2>2. /\ IsSeq(Front(path)) /\ Len(Front(path)) = Len(path) - 1
        /\ \A k \in 1..(Len(path) - 1) : Front(path)[k] = path[k]
    BY <1>1, <2>1, FrontSeq
  <2>3. Front(path) \in Seq(Nat)
    <3>1. 1 \in Int /\ Len(path) - 1 \in Int /\ \A k \in 1..(Len(path) - 1) : path[k] \in Nat
      BY <1>1, <2>1
    <3> QED
      BY <3>1, ST!SubSeqProperties DEF Front
  <2> QED
    BY <1>1, <2>1, <2>2, <2>3 DEF Last
<1>3. path = Append(Front(path), Last(path))
  BY <1>1, <1>2 DEF Last
<1> QED
  BY <1>2, <1>3

(* The paths with a property are all of them when the root is one and each *)
(* child of one is one.                                                    *)
LEMMA PathInduction ==
  ASSUME NEW N, NEW S, <<>> \in S,
         \A path \in N : /\ path \in Seq(Nat)
                         /\ path # <<>> => Front(path) \in N,
         \A path \in N : path # <<>> => (Front(path) \in S => path \in S)
  PROVE  N \subseteq S
<1> DEFINE T == {n \in Nat : \A path \in N : Len(path) <= n => path \in S}
<1>1. 0 \in T
  <2>1. ASSUME NEW path \in N, Len(path) <= 0
        PROVE  path = <<>>
    BY <2>1
  <2> QED
    BY <2>1
<1>2. ASSUME NEW n \in Nat, n \in T
      PROVE  n + 1 \in T
  <2>1. ASSUME NEW path \in N, Len(path) <= n + 1, path # <<>>
        PROVE  path \in S
    <3>1. path \in Seq(Nat) /\ Front(path) \in N /\ Len(Front(path)) = Len(path) - 1
      BY <2>1, PathFront
    <3>2. Len(path) \in Nat
      BY <3>1
    <3>3. Front(path) \in S
      BY <1>2, <2>1, <3>1, <3>2
    <3> QED
      BY <2>1, <3>3
  <2> QED
    BY <2>1
<1> HIDE DEF T
<1>3. Nat \subseteq T
  BY <1>1, <1>2, ChainRec!SetInduction
<1>4. ASSUME NEW path \in N
      PROVE  path \in S
  <2>1. Len(path) \in Nat
    OBVIOUS
  <2> QED
    BY <1>3, <2>1 DEF T
<1> QED
  BY <1>4

-----------------------------------------------------------------------------
(* Manifests.                                                              *)

LEMMA PlanFacts ==
  ASSUME NEW p \in Plans
  PROVE  /\ <<>> \in DOMAIN p.nodes
         /\ IsFiniteSet(DOMAIN p.nodes)
         /\ \A path \in DOMAIN p.nodes :
              /\ path \in Seq(Nat)
              /\ path # <<>> => /\ Front(path) \in DOMAIN p.nodes
                                /\ Last(path) < Len(NodeAt(p, Front(path)).leaves)
              /\ NodeAt(p, path).name \in Seq(STRING)
              /\ NodeAt(p, path).kind \in Nat
              /\ Len(NodeAt(p, path).leaves) \in 0..Len(IndexWords)
              /\ Len(NodeAt(p, path).leaves) \in Nat
              /\ NodeAt(p, path).leaves = <<>> <=> Len(NodeAt(p, path).leaves) = 0
         /\ ReceiptKind(p) \in {"composite", "succinct"}
         /\ p.disclosurePath \in Seq(Nat)
BY PlansAssumption, IndexWordsAssumption DEF IsTree, IsNode, NodeAt

LEMMA ChildIsLeaf ==
  ASSUME NEW p \in Plans, NEW path \in DOMAIN p.nodes, NEW i \in Nat, Inline(p, path, i)
  PROVE  /\ Append(path, i) \in DOMAIN p.nodes
         /\ i < Len(NodeAt(p, path).leaves)
<1>1. path \in Seq(Nat)
  BY PlanFacts
<1>2. Append(path, i) \in DOMAIN p.nodes
  BY DEF Inline
<1>3. Append(path, i) # <<>> /\ Front(Append(path, i)) = path /\ Last(Append(path, i)) = i
  BY <1>1, PathAppend
<1> QED
  BY <1>2, <1>3, PlanFacts

LEMMA FilesOfPlan ==
  ASSUME NEW p \in Plans, NEW path \in DOMAIN p.nodes
  PROVE  /\ Base(p, path) \in Bases /\ Base(p, path) \in Files
         /\ \A i \in Leaves(p, path) : ~Inline(p, path, i) =>
              LeafAt(p, path, i).file \in Files \ Bases
<1>1. Base(p, path) \in Bases
  BY DEF Bases
<1>2. ASSUME NEW i \in Leaves(p, path), ~Inline(p, path, i)
      PROVE  LeafAt(p, path, i).file \in LeafFiles(p)
  BY <1>2 DEF LeafFiles, Leaves
<1> QED
  BY <1>1, <1>2, OutputDirAssumption DEF Files
-----------------------------------------------------------------------------
(* The recursion: calls are entered, move on to their next leaf, return.   *)

LEMMA LastCall ==
  ASSUME NEW p, NEW nodes, NEW calls, CallsOK(p, nodes, calls), Len(calls) # 0
  PROVE  /\ Len(calls) \in Nat \ {0}
         /\ Last(calls) = calls[Len(calls)]
         /\ CallOK(p, nodes, Last(calls))
         /\ Len(Last(calls).path) = Len(calls) - 1
         /\ Len(calls) > 1 => Last(calls).path = Append(Last(Front(calls)).path,
                                                        Len(Last(Front(calls)).inputs))
         /\ IsSeq(Front(calls)) /\ Len(Front(calls)) = Len(calls) - 1
         /\ \A k \in 1..(Len(calls) - 1) : Front(calls)[k] = calls[k]
<1>1. IsSeq(calls) /\ Len(calls) \in Nat \ {0}
  BY DEF CallsOK, IsSeq
<1>2. Last(calls) = calls[Len(calls)] /\ Len(calls) \in 1..Len(calls)
  BY <1>1 DEF Last
<1>3. /\ IsSeq(Front(calls)) /\ Len(Front(calls)) = Len(calls) - 1
      /\ \A k \in 1..(Len(calls) - 1) : Front(calls)[k] = calls[k]
  BY <1>1, FrontSeq
<1>4. Len(calls) > 1 => Last(Front(calls)) = calls[Len(calls) - 1]
  BY <1>1, <1>3 DEF Last
<1> QED
  BY <1>1, <1>2, <1>3, <1>4 DEF CallsOK

LEMMA InputsGrow ==
  ASSUME NEW p, NEW nodes, NEW more, nodes \subseteq more, NEW path, NEW inputs,
         InputsOK(p, nodes, path, inputs)
  PROVE  InputsOK(p, more, path, inputs)
BY DEF InputsOK

LEMMA EnterCalls ==
  ASSUME NEW p \in Plans, NEW nodes, NEW calls, CallsOK(p, nodes, calls),
         NEW path \in DOMAIN p.nodes \ nodes, Len(path) = Len(calls),
         Len(calls) # 0 => path = Append(Last(calls).path, Len(Last(calls).inputs)),
         NodeAt(p, path).kind \in SupportedLeafKinds, NodeAt(p, path).leaves # <<>>
  PROVE  LET call == [path |-> path, inputs |-> <<>>]
         IN  /\ CallsOK(p, nodes, Append(calls, call))
             /\ Len(Append(calls, call)) # 0
             /\ Passed(nodes, calls) => Passed(nodes, Append(calls, call))
<1> DEFINE call == [path |-> path, inputs |-> <<>>]
           more == Append(calls, call)
<1>1. IsSeq(calls) /\ Len(calls) \in Nat
  BY DEF CallsOK, IsSeq
<1>2. /\ IsSeq(more) /\ Len(more) = Len(calls) + 1
      /\ more[Len(calls) + 1] = call
      /\ \A k \in 1..Len(calls) : more[k] = calls[k]
  BY <1>1, AppendSeq
<1>3. CallOK(p, nodes, call)
  <2>1. IsSeq(<<>>) /\ Len(<<>>) = 0 /\ 1..0 = {}
    BY DEF IsSeq
  <2>2. InputsOK(p, nodes, path, <<>>)
    BY <2>1, PlanFacts DEF InputsOK
  <2> QED
    BY <2>2, PlanFacts DEF CallOK
<1>4. call.path = path
  OBVIOUS
<1> HIDE DEF call, more
<1>5. ASSUME NEW i \in 1..Len(more)
      PROVE  /\ CallOK(p, nodes, more[i])
             /\ Len(more[i].path) = i - 1
             /\ i > 1 => more[i].path = Append(more[i - 1].path, Len(more[i - 1].inputs))
  <2>1. CASE i \in 1..Len(calls)
    <3>1. i > 1 => i - 1 \in 1..Len(calls)
      BY <1>1, <2>1
    <3> QED
      BY <1>2, <2>1, <3>1 DEF CallsOK
  <2>2. CASE i = Len(calls) + 1
    <3>1. i > 1 => Len(calls) # 0 /\ i - 1 = Len(calls) /\ Len(calls) \in 1..Len(calls)
      BY <1>1, <2>2
    <3> QED
      BY <1>1, <1>2, <1>3, <1>4, <2>2, <3>1 DEF Last
  <2> QED
    BY <1>1, <1>2, <2>1, <2>2
<1>6. CallsOK(p, nodes, more) /\ Len(more) # 0
  BY <1>1, <1>2, <1>5 DEF CallsOK
<1>7. Passed(nodes, calls) => Passed(nodes, more)
  <2>1. \A i \in 1..Len(calls) : i \in 1..Len(more) /\ more[i] = calls[i]
    BY <1>1, <1>2
  <2> QED
    BY <2>1 DEF Passed
<1> QED
  BY <1>6, <1>7 DEF call, more

LEMMA ResolveCalls ==
  ASSUME NEW p \in Plans, NEW nodes, NEW calls, CallsOK(p, nodes, calls), Len(calls) # 0,
         Len(Last(calls).inputs) < Len(NodeAt(p, Last(calls).path).leaves),
         KindResolves(p, Last(calls).path, Len(Last(calls).inputs)),
         Inline(p, Last(calls).path, Len(Last(calls).inputs))
           => Append(Last(calls).path, Len(Last(calls).inputs)) \in nodes,
         NEW input, input = InputOf(p, Last(calls).path, Len(Last(calls).inputs)),
         NEW call, call.path = Last(calls).path, call.inputs = Append(Last(calls).inputs, input)
  PROVE  /\ CallsOK(p, nodes, Append(Front(calls), call))
         /\ Len(Append(Front(calls), call)) = Len(calls)
         /\ Len(call.inputs) = Len(Last(calls).inputs) + 1
         /\ Append(Front(calls), call)[Len(calls)] = call
         /\ \A k \in 1..(Len(calls) - 1) : Append(Front(calls), call)[k] = calls[k]
<1> DEFINE path == Last(calls).path
           inputs == Last(calls).inputs
           more == Append(Front(calls), call)
<1>1. /\ IsSeq(calls) /\ Len(calls) \in Nat \ {0}
      /\ Last(calls) = calls[Len(calls)] /\ Len(calls) \in 1..Len(calls)
      /\ CallOK(p, nodes, Last(calls))
      /\ IsSeq(Front(calls)) /\ Len(Front(calls)) = Len(calls) - 1
      /\ \A k \in 1..(Len(calls) - 1) : Front(calls)[k] = calls[k]
  BY LastCall, FrontSeq DEF CallsOK
<1>2. /\ IsSeq(more) /\ Len(more) = Len(calls)
      /\ more[Len(calls)] = call
      /\ \A k \in 1..(Len(calls) - 1) : more[k] = calls[k]
  <2>1. /\ IsSeq(more) /\ Len(more) = (Len(calls) - 1) + 1
        /\ more[(Len(calls) - 1) + 1] = call
        /\ \A k \in 1..(Len(calls) - 1) : more[k] = Front(calls)[k]
    BY <1>1, AppendSeq
  <2> HIDE DEF more
  <2> QED
    BY <1>1, <2>1
<1>3. InputsOK(p, nodes, path, inputs) /\ IsSeq(inputs) /\ Len(inputs) \in Nat
  BY <1>1 DEF CallOK, InputsOK, IsSeq
<1>4. call.path = path /\ call.inputs = Append(inputs, input)
  OBVIOUS
<1>0. /\ Len(inputs) < Len(NodeAt(p, path).leaves)
      /\ KindResolves(p, path, Len(inputs))
      /\ Inline(p, path, Len(inputs)) => Append(path, Len(inputs)) \in nodes
      /\ input = InputOf(p, path, Len(inputs))
      /\ path = Last(calls).path /\ inputs = Last(calls).inputs
  OBVIOUS
<1> HIDE DEF more, path, inputs
<1>5. InputsOK(p, nodes, path, Append(inputs, input)) /\ Len(Append(inputs, input)) = Len(inputs) + 1
  <2>1. /\ IsSeq(Append(inputs, input)) /\ Len(Append(inputs, input)) = Len(inputs) + 1
        /\ Append(inputs, input)[Len(inputs) + 1] = input
        /\ \A k \in 1..Len(inputs) : Append(inputs, input)[k] = inputs[k]
    BY <1>3, AppendSeq
  <2>2. path \in DOMAIN p.nodes /\ Len(NodeAt(p, path).leaves) \in Nat
    BY <1>0, <1>1, PlanFacts DEF CallOK
  <2>3. Len(inputs) + 1 <= Len(NodeAt(p, path).leaves)
    BY <1>0, <1>3, <2>2
  <2>4. ASSUME NEW j \in 1..(Len(inputs) + 1)
        PROVE  /\ Append(inputs, input)[j] = InputOf(p, path, j - 1)
               /\ KindResolves(p, path, j - 1)
               /\ Inline(p, path, j - 1) => Append(path, j - 1) \in nodes
    <3>1. CASE j \in 1..Len(inputs)
      BY <1>3, <2>1, <3>1 DEF InputsOK
    <3>2. CASE j = Len(inputs) + 1
      <4>1. j - 1 = Len(inputs)
        BY <1>3, <3>2
      <4> QED
        BY <1>0, <2>1, <3>2, <4>1
    <3> QED
      BY <1>3, <3>1, <3>2
  <2> QED
    BY <2>1, <2>3, <2>4 DEF InputsOK
<1>6. CallOK(p, nodes, call)
  BY <1>0, <1>1, <1>4, <1>5 DEF CallOK
<1>7. ASSUME NEW i \in 1..Len(more)
      PROVE  /\ CallOK(p, nodes, more[i])
             /\ Len(more[i].path) = i - 1
             /\ i > 1 => more[i].path = Append(more[i - 1].path, Len(more[i - 1].inputs))
  <2>1. i > 1 => i - 1 \in 1..(Len(calls) - 1) /\ i - 1 \in 1..Len(calls)
    BY <1>1, <1>2
  <2>2. more[i].path = calls[i].path /\ CallOK(p, nodes, more[i])
    <3>1. CASE i \in 1..(Len(calls) - 1)
      BY <1>1, <1>2, <3>1 DEF CallsOK
    <3>2. CASE i = Len(calls)
      BY <1>0, <1>1, <1>2, <1>4, <1>6, <3>2
    <3> QED
      BY <1>1, <1>2, <3>1, <3>2
  <2>3. /\ Len(calls[i].path) = i - 1
        /\ i > 1 => calls[i].path = Append(calls[i - 1].path, Len(calls[i - 1].inputs))
    BY <1>2 DEF CallsOK
  <2> QED
    BY <1>2, <2>1, <2>2, <2>3
<1>8. CallsOK(p, nodes, more)
  BY <1>2, <1>7 DEF CallsOK
<1> QED
  BY <1>2, <1>4, <1>5, <1>8 DEF more, path, inputs

LEMMA ReturnCalls ==
  ASSUME NEW p \in Plans, NEW nodes, NEW calls, CallsOK(p, nodes, calls), Len(calls) # 0
  PROVE  CallsOK(p, nodes \cup {Last(calls).path}, Front(calls))
<1>1. /\ IsSeq(calls) /\ Len(calls) \in Nat \ {0}
      /\ Len(Last(calls).path) = Len(calls) - 1
      /\ IsSeq(Front(calls)) /\ Len(Front(calls)) = Len(calls) - 1
      /\ \A k \in 1..(Len(calls) - 1) : Front(calls)[k] = calls[k]
  <2>1. IsSeq(calls)
    BY DEF CallsOK
  <2> QED
    BY <2>1, LastCall
<1> DEFINE more == nodes \cup {Last(calls).path}
<1>2. ASSUME NEW i \in 1..(Len(calls) - 1)
      PROVE  /\ CallOK(p, more, calls[i])
             /\ Len(calls[i].path) = i - 1
             /\ i > 1 => calls[i].path = Append(calls[i - 1].path, Len(calls[i - 1].inputs))
             /\ i > 1 => i - 1 \in 1..(Len(calls) - 1)
  <2>1. i \in 1..Len(calls) /\ i - 1 # Len(calls) - 1 /\ (i > 1 => i - 1 \in 1..(Len(calls) - 1))
    BY <1>1
  <2>2. /\ CallOK(p, nodes, calls[i]) /\ Len(calls[i].path) = i - 1
        /\ i > 1 => calls[i].path = Append(calls[i - 1].path, Len(calls[i - 1].inputs))
    BY <2>1 DEF CallsOK
  <2>3. calls[i].path # Last(calls).path
    BY <1>1, <2>1, <2>2
  <2>4. InputsOK(p, more, calls[i].path, calls[i].inputs)
    BY <2>2, InputsGrow DEF CallOK
  <2> QED
    BY <2>1, <2>2, <2>3, <2>4 DEF CallOK
<1> HIDE DEF more
<1>3. CallsOK(p, more, Front(calls))
  BY <1>1, <1>2 DEF CallsOK
<1> QED
  BY <1>3 DEF more

-----------------------------------------------------------------------------
(* The shape of a run, for manifests with any names.                       *)

LEMMA NoPaths == DOMAIN <<>> = {}
OBVIOUS

LEMMA EmptyShape ==
  ASSUME NEW p, NEW nodes
  PROVE  CallsOK(p, nodes, <<>>) /\ NodesOK(p, <<>>) /\ Passed({}, <<>>)
<1>1. IsSeq(<<>>) /\ Len(<<>>) = 0 /\ 1..0 = {}
  BY DEF IsSeq
<1> QED
  BY <1>1, NoPaths DEF CallsOK, NodesOK, Passed

LEMMA PhaseKept ==
  ASSUME ShapeInv, UNCHANGED <<plan, stack, resolved, runs>>, phase # "idle",
         phase' \in {"failed", "killed"} \cup Proving \cup Walking,
         phase' \in Proving => phase \in Proving,
         phase' \in Writing => Len(Call.inputs) = Len(Node.leaves),
         phase' \in Walking => phase \in Walking
  PROVE  ShapeInv'
BY DEF ShapeInv, Done, Call, Node, Writing, Proving, Walking

LEMMA StartShape ==
  ASSUME ShapeInv, NEW p \in Plans, StartPlan(p)
  PROVE  ShapeInv'
<1>1. /\ plan' = p /\ resolved' = <<>> /\ runs' = runs + 1 /\ runs < MaxRuns
      /\ Enter(p, <<>>, <<>>)
  BY DEF StartPlan
<1>2. Done' = {} /\ runs' \in 0..MaxRuns
  BY <1>1, NoPaths, MaxRunsAssumption DEF ShapeInv, Done
<1>3. /\ CallsOK(p, {}, <<>>) /\ NodesOK(p, <<>>) /\ Passed({}, <<>>)
      /\ Len(<<>>) = 0 /\ <<>> \in DOMAIN p.nodes \ {}
  BY EmptyShape, PlanFacts
<1>4. CASE NodeAt(p, <<>>).kind \in SupportedLeafKinds /\ NodeAt(p, <<>>).leaves # <<>>
  <2>1. stack' = Append(<<>>, [path |-> <<>>, inputs |-> <<>>]) /\ phase' = "resolve"
    BY <1>1, <1>4 DEF Enter
  <2>2. CallsOK(p, {}, stack') /\ Len(stack') # 0 /\ Passed({}, stack')
    BY <1>3, <1>4, <2>1, EnterCalls
  <2> QED
    BY <1>1, <1>2, <1>3, <2>1, <2>2 DEF ShapeInv, Proving, Walking, Writing
<1>5. CASE ~ (NodeAt(p, <<>>).kind \in SupportedLeafKinds /\ NodeAt(p, <<>>).leaves # <<>>)
  <2>1. stack' = <<>> /\ phase' = "failed"
    BY <1>1, <1>5 DEF Enter
  <2> QED
    BY <1>1, <1>2, <1>3, <2>1 DEF ShapeInv, Proving, Walking, Writing
<1> QED
  BY <1>4, <1>5

(* The topmost call is of a node that is not resolved, and neither is the  *)
(* child at its next leaf.                                                 *)
LEMMA CallFacts ==
  ASSUME ShapeInv, phase \in Proving
  PROVE  /\ plan \in Plans
         /\ CallsOK(plan, Done, stack) /\ NodesOK(plan, resolved) /\ Passed(Done, stack)
         /\ Len(stack) \in Nat \ {0} /\ Call = stack[Len(stack)]
         /\ Len(Call.path) = Len(stack) - 1
         /\ Call.path \in DOMAIN plan.nodes /\ Call.path \notin Done
         /\ Call.path \in Seq(Nat)
         /\ Node.kind \in SupportedLeafKinds /\ Len(Node.leaves) \in Nat \ {0}
         /\ InputsOK(plan, Done, Call.path, Call.inputs)
         /\ Index \in Nat /\ Index <= Len(Node.leaves)
<1>1. /\ plan \in Plans /\ CallsOK(plan, Done, stack) /\ NodesOK(plan, resolved)
      /\ Len(stack) # 0 /\ Passed(Done, stack)
  BY DEF ShapeInv, Proving, Writing
<1>2. /\ Len(stack) \in Nat \ {0} /\ Call = stack[Len(stack)] /\ CallOK(plan, Done, Call)
      /\ Len(Call.path) = Len(stack) - 1
  BY <1>1, LastCall DEF Call
<1>3. Call.path \in DOMAIN plan.nodes /\ Call.path \notin Done
  BY <1>2 DEF CallOK
<1>4. Call.path \in Seq(Nat) /\ Len(NodeAt(plan, Call.path).leaves) \in Nat
  BY <1>1, <1>3, PlanFacts
<1> QED
  BY <1>1, <1>2, <1>3, <1>4 DEF CallOK, InputsOK, Node, Index, IsSeq

LEMMA ChildNotDone ==
  ASSUME ShapeInv, HasLeaf, Inline(plan, Call.path, Index)
  PROVE  /\ Append(Call.path, Index) \in DOMAIN plan.nodes \ Done
         /\ Len(Append(Call.path, Index)) = Len(stack)
<1>1. phase \in Proving
  BY DEF HasLeaf, Proving
<1> DEFINE child == Append(Call.path, Index)
<1>2. /\ child # <<>> /\ Front(child) = Call.path /\ Last(child) = Index
      /\ Len(child) = Len(Call.path) + 1
  BY <1>1, CallFacts, PathAppend
<1>3. child \in DOMAIN plan.nodes
  BY DEF Inline
<1> HIDE DEF child
<1>4. child \notin Done
  <2> SUFFICES ASSUME child \in Done
               PROVE  FALSE
    OBVIOUS
  <2>1. Call.path \notin Done /\ Passed(Done, stack)
    BY <1>1, CallFacts
  <2>2. PICK i \in 1..Len(stack) : stack[i].path = Call.path /\ Index < Len(stack[i].inputs)
    BY <1>2, <2>1 DEF Passed
  <2>3. Len(stack[i].path) = i - 1
    BY <1>1, <2>2, CallFacts DEF CallsOK
  <2>4. i = Len(stack)
    BY <1>1, <2>2, <2>3, CallFacts
  <2>5. stack[i] = Call /\ Index = Len(Call.inputs) /\ Index \in Nat
    BY <1>1, <2>4, CallFacts DEF Index
  <2> QED
    BY <2>2, <2>5
<1> QED
  BY <1>1, <1>2, <1>3, <1>4, CallFacts DEF child

LEMMA ProveInlineShape ==
  ASSUME ShapeInv, ProveInline
  PROVE  ShapeInv'
<1>1. /\ HasLeaf /\ Inline(plan, Call.path, Index) /\ phase \in Proving
      /\ UNCHANGED <<plan, resolved, runs>>
      /\ Enter(plan, stack, Append(Call.path, Index))
  BY DEF ProveInline, HasLeaf, Proving
<1> DEFINE child == Append(Call.path, Index)
<1>2. child \in DOMAIN plan.nodes \ Done /\ Len(child) = Len(stack)
  BY <1>1, ChildNotDone
<1>3. child = Append(Last(stack).path, Len(Last(stack).inputs))
  BY DEF Call, Index
<1>4. Done' = Done
  BY <1>1 DEF Done
<1> HIDE DEF child
<1>5. CASE NodeAt(plan, child).kind \in SupportedLeafKinds /\ NodeAt(plan, child).leaves # <<>>
  <2>1. stack' = Append(stack, [path |-> child, inputs |-> <<>>]) /\ phase' = "resolve"
    BY <1>1, <1>5 DEF Enter, child
  <2>2. CallsOK(plan, Done, stack') /\ Len(stack') # 0 /\ Passed(Done, stack')
    BY <1>1, <1>2, <1>3, <1>5, <2>1, CallFacts, EnterCalls
  <2> QED
    BY <1>1, <1>4, <2>1, <2>2 DEF ShapeInv, Proving, Writing, Walking
<1>6. CASE ~ (NodeAt(plan, child).kind \in SupportedLeafKinds /\ NodeAt(plan, child).leaves # <<>>)
  <2>1. stack' = stack /\ phase' = "failed"
    BY <1>1, <1>6 DEF Enter, child
  <2> QED
    BY <1>1, <1>4, <2>1 DEF ShapeInv, Proving, Writing, Walking
<1> QED
  BY <1>5, <1>6

LEMMA ResolveExternalShape ==
  ASSUME ShapeInv, ResolveExternal
  PROVE  ShapeInv'
<1>1. /\ HasLeaf /\ ~Inline(plan, Call.path, Index) /\ phase = "resolve" /\ phase \in Proving
      /\ UNCHANGED <<plan, resolved, runs>>
      /\ Index < Len(Node.leaves)
  BY DEF ResolveExternal, HasLeaf, Proving
<1>2. Done' = Done
  BY <1>1 DEF Done
<1> DEFINE file   == LeafAt(plan, Call.path, Index).file
           inputs == Call.inputs
<1>3. CASE stack' = stack /\ phase' = "failed"
  BY <1>1, <1>2, <1>3 DEF ShapeInv, Proving, Writing, Walking
<1>4. CASE Resolve(stack, file) /\ KindResolves(plan, Call.path, Index)
  <2> DEFINE call == [path   |-> Call.path,
                      inputs |-> Append(inputs, InputOf(plan, Call.path, Len(inputs)))]
  <2>1. InputOf(plan, Call.path, Len(inputs))
          = [slot |-> file, directKind |-> DirectKind(plan, Call.path, Len(inputs))]
    BY <1>1 DEF InputOf, Index
  <2>2. stack' = Append(Front(stack), call) /\ phase' = "resolve"
    BY <1>4, <2>1 DEF Resolve, Call, Index
  <2>3. /\ CallsOK(plan, Done, stack') /\ Len(stack') = Len(stack)
        /\ Len(call.inputs) = Len(inputs) + 1
        /\ stack'[Len(stack)] = call
        /\ \A k \in 1..(Len(stack) - 1) : stack'[k] = stack[k]
    <3>1. /\ plan \in Plans /\ CallsOK(plan, Done, stack) /\ Len(stack) # 0
          /\ Call.path = Last(stack).path /\ inputs = Last(stack).inputs
          /\ Len(Last(stack).inputs) < Len(NodeAt(plan, Last(stack).path).leaves)
          /\ KindResolves(plan, Last(stack).path, Len(Last(stack).inputs))
          /\ ~Inline(plan, Last(stack).path, Len(Last(stack).inputs))
      BY <1>1, <1>4, CallFacts DEF Call, Index, Node
    <3>2. /\ call.path = Last(stack).path
          /\ call.inputs = Append(Last(stack).inputs,
                                  InputOf(plan, Last(stack).path, Len(Last(stack).inputs)))
      BY DEF Call
    <3> HIDE DEF call, inputs
    <3>3. /\ CallsOK(plan, Done, Append(Front(stack), call))
          /\ Len(Append(Front(stack), call)) = Len(stack)
          /\ Len(call.inputs) = Len(Last(stack).inputs) + 1
          /\ Append(Front(stack), call)[Len(stack)] = call
          /\ \A k \in 1..(Len(stack) - 1) : Append(Front(stack), call)[k] = stack[k]
      BY <3>1, <3>2, ResolveCalls
    <3> QED
      BY <2>2, <3>1, <3>3
  <2>4. call.path = Call.path
    OBVIOUS
  <2> HIDE DEF call
  <2>5. Passed(Done, stack')
    <3>1. Len(stack) \in Nat \ {0} /\ Call = stack[Len(stack)] /\ Len(inputs) \in Nat
      BY <1>1, CallFacts DEF Index
    <3>2. ASSUME NEW i \in 1..Len(stack)
          PROVE  stack'[i].path = stack[i].path /\ \A n \in Nat : n < Len(stack[i].inputs) => n < Len(stack'[i].inputs)
      <4>1. CASE i = Len(stack)
        BY <2>3, <2>4, <3>1, <4>1
      <4>2. CASE i \in 1..(Len(stack) - 1)
        BY <2>3, <4>2
      <4> QED
        BY <3>1, <4>1, <4>2
    <3>3. ASSUME NEW path \in Done, path # <<>> PROVE Last(path) \in Nat
      BY <1>1, <3>3, CallFacts, PlanFacts, PathFront DEF NodesOK, Done
    <3> QED
      BY <1>1, <2>3, <3>2, <3>3, CallFacts DEF Passed
  <2> QED
    BY <1>1, <1>2, <2>2, <2>3, <2>5, CallFacts DEF ShapeInv, Proving, Writing, Walking
<1> QED
  BY <1>1, <1>3, <1>4 DEF ResolveExternal, Resolve, Call, Index

(* The call of a node that is proved returns.                              *)
LEMMA ReturnShape ==
  ASSUME ShapeInv, FinishNode, Readable(claimFile[Base(plan, Call.path)])
  PROVE  /\ Done' = Done \cup {Call.path}
         /\ NodesOK(plan, resolved')
         /\ CallsOK(plan, Done', Front(stack))
         /\ \A path \in Done : resolved'[path] = resolved[path]
         /\ resolved'[Call.path].inputs = Call.inputs
         /\ resolved'[Call.path].claim = claimFile[Base(plan, Call.path)].data
<1> DEFINE cp == Call.path
<1>1. /\ phase = "read claim" /\ phase \in Proving /\ phase \in Writing
      /\ resolved' = [path \in Done \cup {cp} |->
                        IF path = cp
                        THEN [inputs |-> Call.inputs,
                              claim  |-> claimFile[Base(plan, Call.path)].data]
                        ELSE resolved[path]]
  BY DEF FinishNode, Proving, Writing, Done
<1>2. /\ plan \in Plans /\ CallsOK(plan, Done, stack) /\ Len(stack) # 0
      /\ cp \notin Done /\ cp = Last(stack).path /\ cp \in DOMAIN plan.nodes
      /\ NodesOK(plan, resolved)
      /\ InputsOK(plan, Done, cp, Call.inputs)
      /\ Len(Call.inputs) = Len(NodeAt(plan, cp).leaves)
  BY <1>1, CallFacts DEF ShapeInv, Call, Node
<1>3. /\ Done' = Done \cup {cp}
      /\ \A path \in Done : resolved'[path] = resolved[path]
      /\ resolved'[cp].inputs = Call.inputs
      /\ resolved'[cp].claim = claimFile[Base(plan, Call.path)].data
  BY <1>1, <1>2 DEF Done
<1> HIDE DEF cp
<1>4. CallsOK(plan, Done', Front(stack))
  BY <1>2, <1>3, ReturnCalls
<1>5. NodesOK(plan, resolved')
  <2>1. Done \subseteq DOMAIN resolved' /\ DOMAIN resolved' = Done \cup {cp}
    BY <1>3 DEF Done
  <2>2. ASSUME NEW path \in Done
        PROVE  /\ path \in DOMAIN plan.nodes
               /\ InputsOK(plan, DOMAIN resolved', path, resolved'[path].inputs)
               /\ Len(resolved'[path].inputs) = Len(NodeAt(plan, path).leaves)
    BY <1>2, <1>3, <2>1, InputsGrow DEF NodesOK, Done
  <2>3. /\ InputsOK(plan, DOMAIN resolved', cp, resolved'[cp].inputs)
        /\ Len(resolved'[cp].inputs) = Len(NodeAt(plan, cp).leaves)
    BY <1>2, <1>3, <2>1, InputsGrow
  <2> QED
    BY <1>2, <2>1, <2>2, <2>3 DEF NodesOK
<1> QED
  BY <1>3, <1>4, <1>5 DEF cp

(* Below the root it returns to the call that was made for it.             *)
LEMMA ReturnsTo ==
  ASSUME ShapeInv, FinishNode, Readable(claimFile[Base(plan, Call.path)]), Len(stack) > 1
  PROVE  LET calls == Front(stack)
             path  == Last(calls).path
             i     == Len(Last(calls).inputs)
         IN  /\ Len(calls) # 0 /\ i \in Nat
             /\ path \in DOMAIN plan.nodes /\ path \in Seq(Nat) /\ path \notin Done'
             /\ Call.path = Append(path, i)
             /\ Inline(plan, path, i)
             /\ i < Len(NodeAt(plan, path).leaves)
             /\ InputOf(plan, path, i) = [slot       |-> Base(plan, Call.path),
                                          directKind |-> DirectKind(plan, path, i)]
<1>1. phase \in Proving
  BY DEF FinishNode, Proving, Writing
<1> DEFINE calls == Front(stack)
           path  == Last(calls).path
           i     == Len(Last(calls).inputs)
<1>2. /\ Len(stack) \in Nat \ {0} /\ Len(calls) = Len(stack) - 1
      /\ Last(stack).path = Append(path, i)
      /\ CallsOK(plan, Done', calls) /\ plan \in Plans
      /\ Call.path \in DOMAIN plan.nodes
  BY <1>1, CallFacts, LastCall, ReturnShape
<1>3. Len(calls) # 0
  <2>1. Len(stack) \in Nat /\ Len(calls) = Len(stack) - 1
    BY <1>2
  <2> HIDE DEF calls
  <2> QED
    BY <2>1
<1>4. Call.path = Append(path, i)
  BY <1>2 DEF Call
<1> HIDE DEF calls
<1>5. CallOK(plan, Done', Last(calls))
  BY <1>2, <1>3, LastCall
<1>6. path \in DOMAIN plan.nodes /\ path \notin Done' /\ i \in Nat
  BY <1>5 DEF CallOK, InputsOK, IsSeq
<1> HIDE DEF path, i
<1>7. Inline(plan, path, i)
  BY <1>2, <1>4 DEF Inline
<1>8. i < Len(NodeAt(plan, path).leaves) /\ path \in Seq(Nat)
  BY <1>2, <1>6, <1>7, ChildIsLeaf, PlanFacts
<1>9. InputOf(plan, path, i) = [slot       |-> Base(plan, Call.path),
                                directKind |-> DirectKind(plan, path, i)]
  BY <1>4, <1>7 DEF InputOf
<1> QED
  BY <1>3, <1>4, <1>6, <1>7, <1>8, <1>9 DEF calls, path, i

LEMMA ReturnPassed ==
  ASSUME ShapeInv, FinishNode, Readable(claimFile[Base(plan, Call.path)]), Len(stack) > 1,
         NEW calls, Len(calls) = Len(stack) - 1,
         \A k \in 1..(Len(stack) - 2) : calls[k] = stack[k],
         calls[Len(stack) - 1].path = Last(Front(stack)).path,
         Len(calls[Len(stack) - 1].inputs) = Len(Last(Front(stack)).inputs) + 1
  PROVE  Passed(Done', calls)
<1> DEFINE n     == Len(stack)
           above == Last(Front(stack))
<1>1. /\ phase \in Proving /\ n \in Nat \ {0} /\ n > 1 /\ Call = stack[n]
      /\ Passed(Done, stack) /\ NodesOK(plan, resolved) /\ plan \in Plans
  BY CallFacts DEF FinishNode, Proving, Writing
<1>2. /\ above = stack[n - 1] /\ IsSeq(Front(stack))
  <2>1. /\ Len(Front(stack)) = n - 1 /\ IsSeq(Front(stack))
        /\ \A k \in 1..(n - 1) : Front(stack)[k] = stack[k]
    BY <1>1, CallFacts, LastCall
  <2>2. n - 1 \in 1..(n - 1)
    BY <1>1
  <2> QED
    BY <2>1, <2>2 DEF Last
<1>3. /\ Call.path = Append(above.path, Len(above.inputs))
      /\ Len(above.inputs) \in Nat /\ above.path \in Seq(Nat)
      /\ Done' = Done \cup {Call.path}
  BY ReturnsTo, ReturnShape
<1>4. Front(Call.path) = above.path /\ Last(Call.path) = Len(above.inputs)
  BY <1>3, PathAppend
<1>5. calls[n - 1].path = above.path /\ Len(calls[n - 1].inputs) = Len(above.inputs) + 1
  OBVIOUS
<1> HIDE DEF n, above
<1>6. n - 1 \in 1..Len(calls) /\ Len(above.inputs) < Len(calls[n - 1].inputs)
  BY <1>1, <1>3, <1>5 DEF n
<1> SUFFICES ASSUME NEW path \in Done', path # <<>>, Front(path) \notin Done'
             PROVE  \E i \in 1..Len(calls) : /\ calls[i].path = Front(path)
                                             /\ Last(path) < Len(calls[i].inputs)
  BY DEF Passed
<1>7. CASE path = Call.path
  BY <1>4, <1>5, <1>6, <1>7
<1>8. CASE path \in Done
  <2>1. PICK i \in 1..n : stack[i].path = Front(path) /\ Last(path) < Len(stack[i].inputs)
    BY <1>1, <1>3, <1>8 DEF Passed, n
  <2>2. i # n
    BY <1>1, <1>3, <2>1
  <2>3. Last(path) \in Nat
    BY <1>1, <1>8, PlanFacts, PathFront DEF NodesOK, Done
  <2>4. CASE i = n - 1
    <3>1. above.path = Front(path) /\ Last(path) < Len(above.inputs)
      BY <1>2, <2>1, <2>4
    <3>2. Last(path) < Len(above.inputs) + 1
      BY <1>3, <2>3, <3>1
    <3> QED
      BY <1>5, <1>6, <3>1, <3>2
  <2>5. CASE i \in 1..(n - 2)
    <3>1. calls[i] = stack[i] /\ i \in 1..Len(calls)
      BY <1>1, <2>5 DEF n
    <3> QED
      BY <2>1, <3>1
  <2> QED
    BY <1>1, <2>2, <2>4, <2>5
<1> QED
  BY <1>3, <1>7, <1>8

LEMMA FinishNodeShape ==
  ASSUME ShapeInv, FinishNode
  PROVE  ShapeInv'
<1>1. /\ phase = "read claim" /\ phase \in Proving /\ UNCHANGED <<plan, runs>>
  BY DEF FinishNode, Proving, Writing
<1> DEFINE file == claimFile[Base(plan, Call.path)]
<1>2. CASE ~ Readable(file)
  <2>1. phase' = "failed" /\ UNCHANGED <<plan, stack, resolved, runs>>
    BY <1>2 DEF FinishNode
  <2> QED
    BY <1>1, <2>1, PhaseKept DEF Proving, Writing, Walking
<1>3. CASE Readable(file) /\ Len(stack) > 1
  <2> DEFINE calls == Front(stack)
             path  == Last(calls).path
             inputs == Last(calls).inputs
             call  == [path   |-> path,
                       inputs |-> Append(inputs, InputOf(plan, path, Len(inputs)))]
             more  == Append(Front(calls), call)
  <2>1. /\ Resolve(calls, Base(plan, Call.path))
        /\ CallsOK(plan, Done', calls) /\ NodesOK(plan, resolved') /\ plan \in Plans
        /\ Len(calls) # 0 /\ Len(inputs) < Len(NodeAt(plan, path).leaves)
        /\ Inline(plan, path, Len(inputs))
        /\ Append(path, Len(inputs)) \in Done'
        /\ InputOf(plan, path, Len(inputs))
             = [slot       |-> Base(plan, Call.path),
                directKind |-> DirectKind(plan, path, Len(inputs))]
    BY <1>1, <1>3, ReturnShape, ReturnsTo, CallFacts DEF FinishNode
  <2>2. CASE KindResolves(plan, path, Len(inputs))
    <3>1. stack' = more /\ phase' = "resolve"
      BY <2>1, <2>2 DEF Resolve
    <3>2. path = Last(calls).path /\ inputs = Last(calls).inputs
      OBVIOUS
    <3>3. Len(calls) = Len(stack) - 1 /\ (\A k \in 1..(Len(stack) - 1) : calls[k] = stack[k])
          /\ Len(stack) \in Nat \ {0}
      BY <1>1, CallFacts, LastCall
    <3>4. /\ call.path = path
          /\ call.inputs = Append(inputs, InputOf(plan, path, Len(inputs)))
      OBVIOUS
    <3> HIDE DEF calls, call
    <3>5. /\ CallsOK(plan, Done', more) /\ Len(more) = Len(calls)
          /\ Len(call.inputs) = Len(inputs) + 1
          /\ more[Len(calls)] = call
          /\ \A k \in 1..(Len(calls) - 1) : more[k] = calls[k]
      BY <2>1, <2>2, <3>4, ResolveCalls
    <3> HIDE DEF more
    <3>6. /\ Len(more) = Len(stack) - 1 /\ Len(more) # 0
          /\ \A k \in 1..(Len(stack) - 2) : more[k] = stack[k]
          /\ more[Len(stack) - 1].path = path
          /\ Len(more[Len(stack) - 1].inputs) = Len(inputs) + 1
      BY <2>1, <3>3, <3>4, <3>5
    <3>7. Passed(Done', more)
      BY <1>3, <3>6, ReturnPassed DEF calls
    <3> QED
      BY <1>1, <2>1, <3>1, <3>5, <3>6, <3>7 DEF ShapeInv, Proving, Writing, Walking
  <2>3. CASE ~ KindResolves(plan, path, Len(inputs))
    <3>1. stack' = calls /\ phase' = "failed"
      BY <2>1, <2>3 DEF Resolve
    <3> HIDE DEF calls
    <3> QED
      BY <1>1, <2>1, <3>1 DEF ShapeInv, Proving, Writing, Walking
  <2> QED
    BY <2>2, <2>3
<1>4. CASE Readable(file) /\ ~ (Len(stack) > 1)
  <2>1. /\ stack' = <<>>
        /\ phase' = IF plan.disclosurePath # <<>> THEN "derive" ELSE AfterProofs
    BY <1>4 DEF FinishNode
  <2>2. phase' \in Walking /\ phase' \notin Proving /\ phase' # "idle"
    BY <2>1 DEF AfterProofs, Walking, Proving, Writing
  <2>3. Call.path = <<>>
    <3>1. Len(stack) \in Nat \ {0} /\ Len(Call.path) = Len(stack) - 1 /\ Call.path \in Seq(Nat)
      BY <1>1, CallFacts
    <3>2. Len(stack) = 1
      BY <1>4, <3>1, OnlyOne
    <3>3. Len(Call.path) = 0
      BY <3>1, <3>2
    <3> QED
      BY <3>1, <3>3
  <2>4. <<>> \in Done' /\ NodesOK(plan, resolved') /\ plan \in Plans
    BY <1>1, <1>4, <2>3, ReturnShape, CallFacts
  <2>5. CallsOK(plan, Done', <<>>)
    BY EmptyShape
  <2> QED
    BY <1>1, <2>1, <2>2, <2>4, <2>5 DEF ShapeInv, Proving, Writing, Walking
<1> QED
  BY <1>2, <1>3, <1>4

LEMMA ProveNodeShape ==
  ASSUME ShapeInv, ProveNode
  PROVE  ShapeInv'
<1>1. /\ phase = "resolve" /\ ~HasLeaf /\ phase' \in {"write receipt", "failed"}
      /\ UNCHANGED <<plan, stack, resolved, runs>>
  BY DEF ProveNode
<1>2. phase \in Proving
  BY <1>1 DEF Proving
<1>3. Len(Call.inputs) = Len(Node.leaves)
  <2>1. ~ (Index < Len(Node.leaves))
    BY <1>1 DEF HasLeaf
  <2>2. Index \in Nat /\ Len(Node.leaves) \in Nat /\ Index <= Len(Node.leaves)
    BY <1>2, CallFacts
  <2>3. Index = Len(Node.leaves)
    BY <2>1, <2>2
  <2> QED
    BY <2>3 DEF Index
<1> QED
  BY <1>1, <1>2, <1>3, PhaseKept DEF Proving, Writing, Walking

LEMMA OtherStepsShape ==
  ASSUME ShapeInv,
         \/ WriteReceipt \/ WriteClaim \/ Derive \/ WriteProof \/ Bundle \/ WriteChain
         \/ VerifyFinal \/ KillBetween \/ KillWithin
  PROVE  ShapeInv'
<1>1. phase \in Writing => Len(Call.inputs) = Len(Node.leaves)
  BY DEF ShapeInv
<1>2. CASE WriteReceipt \/ WriteClaim
  BY <1>1, <1>2, PhaseKept DEF WriteReceipt, WriteClaim, Proving, Writing, Walking
<1>3. CASE Derive \/ WriteProof \/ Bundle
  BY <1>1, <1>3, PhaseKept DEF Derive, WriteProof, Bundle, Proving, Writing, Walking
<1>4. CASE WriteChain \/ VerifyFinal
  BY <1>1, <1>4, PhaseKept
     DEF WriteChain, VerifyFinal, AfterProofs, Proving, Writing, Walking
<1>5. CASE KillBetween \/ KillWithin
  BY <1>1, <1>5, PhaseKept
     DEF KillBetween, KillWithin, Kill, Ended, Proving, Writing, Walking
<1> QED
  BY <1>2, <1>3, <1>4, <1>5

LEMMA ShapeInvariant == Spec => []ShapeInv
<1>1. Init => ShapeInv
  BY MaxRunsAssumption DEF Init, ShapeInv, Proving, Writing, Walking
<1>2. ShapeInv /\ [Next]_planVars => ShapeInv'
  <2> SUFFICES ASSUME ShapeInv, [Next]_planVars
               PROVE  ShapeInv'
    OBVIOUS
  <2>1. CASE UNCHANGED planVars
    BY <2>1 DEF planVars, ShapeInv, Done, Call, Node
  <2>2. CASE Next
    BY <2>2, StartShape, ProveInlineShape, ResolveExternalShape, ProveNodeShape,
       FinishNodeShape, OtherStepsShape DEF Next, Step
  <2> QED
    BY <2>1, <2>2
<1> QED
  BY <1>1, <1>2, PTL DEF Spec

-----------------------------------------------------------------------------
(* The receipts.                                                           *)

LEMMA FileFacts ==
  ASSUME NEW data
  PROVE  /\ Readable(Full(data)) /\ Full(data).data = data
         /\ ~ Readable(Empty) /\ ~ Readable(Absent)
         /\ \A other : Full(data) = Full(other) => data = other
BY DEF Readable, Full, Empty, Absent

(* What is loaded for a node of a plan comes from receipts that exist.     *)
LEMMA LoadedReceipts ==
  ASSUME FilesOK, NEW p \in Plans, NEW path \in DOMAIN p.nodes, NEW nodes, NEW inputs,
         InputsOK(p, nodes, path, inputs), NEW kind, Loads(kind, inputs)
  PROVE  LET entries == Loaded(kind, inputs)
         IN  /\ Len(entries) = Len(inputs) /\ Len(inputs) \in Nat \ {0} /\ IsSeq(entries)
             /\ Len(inputs) <= Len(NodeAt(p, path).leaves)
             /\ \A i \in 1..Len(inputs) :
                  /\ entries[i].receipt \in ledger
                  /\ entries[i].receipt.kind = "succinct"
                  /\ RecordOf(kind, entries[i])
<1> DEFINE entries == Loaded(kind, inputs)
<1>1. /\ IsSeq(inputs) /\ Len(inputs) \in Nat \ {0}
      /\ Len(inputs) <= Len(NodeAt(p, path).leaves)
  <2>1. IsSeq(inputs) /\ inputs # <<>>
    BY DEF Loads, loadBatchLeaves, InputsOK
  <2> QED
    BY <2>1, EmptySeq DEF InputsOK
<1>2. /\ Len(entries) = Len(inputs) /\ IsSeq(entries)
      /\ \A i \in 1..Len(inputs) :
           /\ entries[i].receipt = receiptFile[inputs[i].slot].data
           /\ entries[i].record = DirectRecord(kind, inputs[i].directKind,
                                               claimFile[inputs[i].slot].data)
  BY <1>1 DEF Loaded, LoadedLeaves, IsSeq
<1> HIDE DEF entries
<1>3. ASSUME NEW i \in 1..Len(inputs)
      PROVE  /\ entries[i].receipt \in ledger
             /\ entries[i].receipt.kind = "succinct"
             /\ RecordOf(kind, entries[i])
  <2> DEFINE slot    == inputs[i].slot
             claim   == claimFile[slot].data
             receipt == receiptFile[slot].data
  <2>1. PICK before :
          /\ ClaimAccepted(kind, inputs[i].directKind, before, claim)
          /\ ReceiptAccepted(receiptFile[slot], claim)
    BY DEF Loads, loadBatchLeaves
  <2>2. slot \in Files
    <3>1. i - 1 \in Leaves(p, path) /\ inputs[i] = InputOf(p, path, i - 1)
      BY <1>1, PlanFacts DEF InputsOK, Leaves
    <3>2. CASE Inline(p, path, i - 1)
      BY <3>1, <3>2, FilesOfPlan DEF Inline, InputOf
    <3>3. CASE ~ Inline(p, path, i - 1)
      BY <3>1, <3>3, FilesOfPlan DEF InputOf
    <3> QED
      BY <3>2, <3>3
  <2>3. receipt \in ledger /\ receipt.kind = "succinct" /\ PublicClaim(receipt) = claim
    BY <2>1, <2>2 DEF ReceiptAccepted, FilesOK
  <2>4. claim.image = receipt.image /\ claim.journal = receipt.journal
    BY <2>3 DEF PublicClaim
  <2>5. RecordOf(kind, entries[i])
    <3>1. /\ entries[i].receipt = receipt
          /\ entries[i].record = DirectRecord(kind, inputs[i].directKind, claim)
      BY <1>2
    <3> HIDE DEF slot, claim, receipt
    <3>2. CASE kind = LeafKindHeterogeneousEnvelopeV1
      <4>1. CanEnvelope(inputs[i].directKind, receipt.journal)
        BY <2>1, <2>4, <3>2 DEF ClaimAccepted
      <4>2. inputs[i].directKind \in SupportedLeafKinds
        BY <4>1 DEF CanEnvelope, IsAllowedHeterogeneousDirectLeafKindV1, SupportedLeafKinds
      <4>3. entries[i].record = Envelope(inputs[i].directKind, receipt.image, receipt.journal)
        BY <2>4, <3>1, <3>2 DEF DirectRecord
      <4> QED
        BY <3>1, <3>2, <4>1, <4>2, <4>3 DEF RecordOf
    <3>3. CASE kind # LeafKindHeterogeneousEnvelopeV1
      BY <2>1, <2>4, <3>1, <3>3 DEF RecordOf, ClaimAccepted, DirectRecord
    <3> QED
      BY <3>2, <3>3
  <2> QED
    BY <1>2, <2>3, <2>5
<1> QED
  BY <1>1, <1>2, <1>3 DEF entries

(* What a node's run of the guest adds.                                    *)
NodeAccepted ==
  LET entries == Loaded(Node.kind, Call.inputs)
  IN  /\ Loads(Node.kind, Call.inputs)
      /\ GuestAccepts(Node.kind, Context(Node.kind, entries), Records(entries),
                      Assumptions(entries))

LEMMA NodeRun ==
  ASSUME ShapeInv, ReceiptInv, ProveNode, NodeAccepted
  PROVE  LET entries == Loaded(Node.kind, Call.inputs)
             context == Context(Node.kind, entries)
         IN  /\ Len(entries) \in Nat \ {0} /\ IsSeq(Records(entries))
             /\ Len(Records(entries)) = Len(entries)
             /\ Len(entries) <= Len(Node.leaves)
             /\ \A i \in 1..Len(entries) :
                  entries[i].receipt \in ledger /\ RecordOf(Node.kind, entries[i])
             /\ GuestAccepts(Node.kind, context, Records(entries), ledger)
             /\ ledger' = ledger \cup {held'}
             /\ openings' = openings \cup
                  {[claim   |-> GuestClaim(Node.kind, context, Records(entries)),
                    records |-> Records(entries)]}
             /\ held' = [image   |-> BatchImage,
                         journal |-> Encode(GuestClaim(Node.kind, context, Records(entries))),
                         kind    |-> ReceiptKind(plan)]
             /\ phase' = "write receipt"
<1> DEFINE kind    == Node.kind
           entries == Loaded(kind, Call.inputs)
           context == Context(kind, entries)
           records == Records(entries)
           claim   == GuestClaim(kind, context, records)
<1>1. phase \in Proving
  BY DEF ProveNode, Proving
<1>2. /\ plan \in Plans /\ Call.path \in DOMAIN plan.nodes
      /\ InputsOK(plan, Done, Call.path, Call.inputs)
      /\ Loads(kind, Call.inputs) /\ FilesOK
      /\ GuestAccepts(kind, context, records, Assumptions(entries))
  BY <1>1, CallFacts DEF ReceiptInv, NodeAccepted
<1>3. /\ Len(entries) = Len(Call.inputs) /\ Len(Call.inputs) \in Nat \ {0}
      /\ Len(Call.inputs) <= Len(NodeAt(plan, Call.path).leaves)
      /\ \A i \in 1..Len(Call.inputs) :
           entries[i].receipt \in ledger /\ RecordOf(kind, entries[i])
  <2> HIDE DEF kind
  <2> QED
    BY <1>2, LoadedReceipts
<1>4. ValidateVersion(claim)
  BY GuestClaimFields
<1>5. /\ ledger' = ledger \cup {[image |-> BatchImage, journal |-> Encode(claim),
                                kind |-> ReceiptKind(plan)]}
      /\ openings' = openings \cup {[claim |-> claim, records |-> records]}
      /\ held' = [image |-> BatchImage, journal |-> Encode(claim), kind |-> ReceiptKind(plan)]
      /\ phase' = "write receipt"
  BY <1>4 DEF ProveNode, NodeAccepted, NodeClaim
<1> HIDE DEF entries, claim
<1>6. Assumptions(entries) \subseteq ledger
  BY <1>3 DEF Assumptions
<1>7. GuestAccepts(kind, context, records, ledger)
  BY <1>2, <1>6, GuestAcceptsGrows
<1>8. IsSeq(records) /\ Len(records) = Len(entries)
  BY <1>3, RecordsLen DEF Records, IsSeq
<1> QED
  BY <1>3, <1>5, <1>7, <1>8 DEF entries, claim, Node

LEMMA ProveNodeReceipts ==
  ASSUME ShapeInv, ReceiptInv, ProveNode
  PROVE  ReceiptInv'
<1>1. UNCHANGED <<receiptFile, claimFile>>
  BY DEF ProveNode
<1>2. CASE NodeAccepted
  <2> DEFINE entries == Loaded(Node.kind, Call.inputs)
             context == Context(Node.kind, entries)
             records == Records(entries)
             claim   == GuestClaim(Node.kind, context, records)
  <2>0. /\ IsSeq(records) /\ GuestAccepts(Node.kind, context, records, ledger)
        /\ ledger' = ledger \cup {held'}
        /\ openings' = openings \cup {[claim |-> claim, records |-> records]}
        /\ held' = [image |-> BatchImage, journal |-> Encode(claim),
                    kind |-> ReceiptKind(plan)]
    BY <1>2, NodeRun
  <2> HIDE DEF entries, context, records, claim
  <2>1. PICK o : o = [claim |-> claim, records |-> records]
    OBVIOUS
  <2>2. /\ o.claim = claim /\ o.records = records
        /\ openings' = openings \cup {o}
        /\ held'.image = BatchImage /\ held'.journal = Encode(o.claim)
        /\ held'.kind = ReceiptKind(plan)
    BY <2>0, <2>1
  <2>3. held'.kind \in {"composite", "succinct"}
    BY <2>2, CallFacts, PlanFacts DEF ProveNode, Proving
  <2>4. Sound(ledger', openings', LeafImages, ForeignImages, BatchImage)
    <3>1. PICK r : r = held'
      OBVIOUS
    <3>2. r.image = BatchImage /\ r.journal = Encode(o.claim) /\ r.kind \in {"composite", "succinct"}
      BY <2>2, <2>3, <3>1
    <3>3. o.claim = GuestClaim(Node.kind, context, records) /\ o.records = records
      BY <2>2 DEF claim
    <3>4. Sound(ledger, openings, LeafImages, ForeignImages, BatchImage)
      BY DEF ReceiptInv
    <3>5. Sound(ledger \cup {r}, openings \cup {o}, LeafImages, ForeignImages, BatchImage)
      BY <2>0, <3>2, <3>3, <3>4, ImagesAssumption, BatchRunIsSound
    <3> QED
      BY <2>0, <2>2, <3>1, <3>5
  <2>5. FilesOK' /\ held' \in ledger'
    BY <1>1, <2>0 DEF ReceiptInv, FilesOK
  <2> QED
    BY <2>4, <2>5 DEF ReceiptInv
<1>3. CASE ~ NodeAccepted
  <2>1. phase' = "failed" /\ UNCHANGED <<ledger, openings, held>>
    BY <1>3 DEF ProveNode, NodeAccepted
  <2> QED
    BY <1>1, <2>1 DEF ReceiptInv, FilesOK
<1> QED
  BY <1>2, <1>3

LEMMA ReceiptsKept ==
  ASSUME ReceiptInv, UNCHANGED <<ledger, openings, receiptFile, claimFile>>,
         phase' # "write receipt"
  PROVE  ReceiptInv'
BY DEF ReceiptInv, FilesOK

LEMMA WritesReceipts ==
  ASSUME ReceiptInv, WriteReceipt \/ WriteClaim \/ KillWithin
  PROVE  ReceiptInv'
<1>1. UNCHANGED <<ledger, openings>> /\ phase' # "write receipt"
  BY DEF WriteReceipt, WriteClaim, KillWithin, Kill
<1>2. ASSUME NEW file, Readable(file) => file.data \in ledger,
             receiptFile' = [receiptFile EXCEPT ![Base(plan, Call.path)] = file]
      PROVE  /\ receiptFile' = [f \in Files |-> receiptFile'[f]]
             /\ \A f \in Files : Readable(receiptFile'[f]) => receiptFile'[f].data \in ledger
  BY <1>2 DEF ReceiptInv, FilesOK
<1>3. ASSUME NEW file, claimFile' = [claimFile EXCEPT ![Base(plan, Call.path)] = file]
      PROVE  claimFile' = [f \in Files |-> claimFile'[f]]
  BY <1>3 DEF ReceiptInv, FilesOK
<1>4. CASE WriteReceipt
  <2>1. /\ receiptFile' = [receiptFile EXCEPT ![Base(plan, Call.path)] = Full(held)]
        /\ claimFile' = claimFile /\ held \in ledger
    BY <1>4 DEF WriteReceipt, ReceiptInv
  <2> QED
    BY <1>1, <1>2, <2>1, FileFacts DEF ReceiptInv, FilesOK
<1>5. CASE WriteClaim
  <2>1. /\ claimFile' = [claimFile EXCEPT ![Base(plan, Call.path)] = Full(PublicClaim(held))]
        /\ receiptFile' = receiptFile
    BY <1>5 DEF WriteClaim
  <2> QED
    BY <1>1, <1>3, <2>1 DEF ReceiptInv, FilesOK
<1>6. CASE KillWithin
  <2>1. \/ /\ receiptFile' = [receiptFile EXCEPT ![Base(plan, Call.path)] = Empty]
           /\ claimFile' = claimFile
        \/ /\ claimFile' = [claimFile EXCEPT ![Base(plan, Call.path)] = Empty]
           /\ receiptFile' = receiptFile
        \/ UNCHANGED <<receiptFile, claimFile>>
    BY <1>6 DEF KillWithin
  <2>2. CASE receiptFile' = [receiptFile EXCEPT ![Base(plan, Call.path)] = Empty]
             /\ claimFile' = claimFile
    BY <1>1, <1>2, <2>2, FileFacts DEF ReceiptInv, FilesOK
  <2>3. CASE claimFile' = [claimFile EXCEPT ![Base(plan, Call.path)] = Empty]
             /\ receiptFile' = receiptFile
    BY <1>1, <1>3, <2>3 DEF ReceiptInv, FilesOK
  <2>4. CASE UNCHANGED <<receiptFile, claimFile>>
    BY <1>1, <2>4 DEF ReceiptInv, FilesOK
  <2> QED
    BY <2>1, <2>2, <2>3, <2>4
<1> QED
  BY <1>4, <1>5, <1>6

LEMMA InitReceipts == Init => ReceiptInv
<1> SUFFICES ASSUME Init
             PROVE  ReceiptInv
  OBVIOUS
<1>1. ledger = Given /\ openings = {} /\ phase = "idle"
  BY DEF Init
<1>2. ASSUME NEW r \in Given
      PROVE  Attested(r, {}, LeafImages, ForeignImages, BatchImage)
  <2>1. CASE r \in Ledger!LeafReceipts
    BY <2>1, ImagesAssumption
       DEF Ledger!LeafReceipts, Ledger!Receipt, Ledger!LeafJournal, Attested, RecordSize
  <2>2. CASE r \in Ledger!ForeignReceipts
    <3>1. PICK image \in ForeignImages,
               journal \in {Ledger!LeafJournal(body) : body \in Bodies} \cup Forged,
               kind \in {"composite", "succinct"} :
             r = Ledger!Receipt(image, journal, kind)
      BY <2>2 DEF Ledger!ForeignReceipts
    <3>2. CASE journal \in Forged
      <4>1. RecordSize(journal) # 0
        BY <3>2, ForgedAssumption, LeafClaimSizes, KindsDiffer DEF Decodes
      <4> QED
        BY <3>1, <4>1, ImagesAssumption DEF Ledger!Receipt, Attested
    <3>3. CASE journal \in {Ledger!LeafJournal(body) : body \in Bodies}
      <4>1. RecordSize(journal) # 0
        BY <3>3 DEF Ledger!LeafJournal, RecordSize
      <4> QED
        BY <3>1, <4>1, ImagesAssumption DEF Ledger!Receipt, Attested
    <3> QED
      BY <3>1, <3>2, <3>3
  <2> QED
    BY <2>1, <2>2, GivenAssumption
<1>3. Sound(ledger, openings, LeafImages, ForeignImages, BatchImage)
  BY <1>1, <1>2 DEF Sound
<1>4. /\ receiptFile = [f \in Files |-> IF f \in DOMAIN External
                                       THEN Full(External[f]) ELSE Absent]
      /\ claimFile = [f \in Files |-> IF f \in DOMAIN External
                                     THEN Full(PublicClaim(External[f])) ELSE Absent]
  BY DEF Init
<1>5. receiptFile = [f \in Files |-> receiptFile[f]] /\ claimFile = [f \in Files |-> claimFile[f]]
  BY <1>4
<1>6. ASSUME NEW f \in Files, Readable(receiptFile[f])
      PROVE  receiptFile[f].data \in ledger
  BY <1>1, <1>4, <1>6, FileFacts, ExternalAssumption
<1> QED
  BY <1>1, <1>3, <1>5, <1>6 DEF ReceiptInv, FilesOK

LEMMA ReceiptInvariant == Spec => [](ShapeInv /\ ReceiptInv)
<1>1. ShapeInv /\ ReceiptInv /\ [Next]_planVars => ReceiptInv'
  <2> SUFFICES ASSUME ShapeInv, ReceiptInv, [Next]_planVars
               PROVE  ReceiptInv'
    OBVIOUS
  <2>1. CASE UNCHANGED planVars
    BY <2>1 DEF planVars, ReceiptInv, FilesOK
  <2>2. CASE ProveNode
    BY <2>2, ProveNodeReceipts
  <2>3. CASE WriteReceipt \/ WriteClaim \/ KillWithin
    BY <2>3, WritesReceipts
  <2>4. CASE (\E p \in Plans : StartPlan(p)) \/ ProveInline
    BY <2>4, ReceiptsKept DEF StartPlan, ProveInline, Enter
  <2>5. CASE ResolveExternal \/ FinishNode
    <3>1. phase' # "write receipt" /\ UNCHANGED <<ledger, openings, receiptFile, claimFile>>
      BY <2>5 DEF ResolveExternal, FinishNode, Resolve, AfterProofs
    <3> QED
      BY <3>1, ReceiptsKept
  <2>6. CASE Derive \/ WriteProof \/ Bundle \/ WriteChain \/ VerifyFinal \/ KillBetween
    <3>1. phase' # "write receipt" /\ UNCHANGED <<ledger, openings, receiptFile, claimFile>>
      BY <2>6 DEF Derive, WriteProof, Bundle, WriteChain, VerifyFinal, KillBetween, Kill,
         AfterProofs, diskVars
    <3> QED
      BY <3>1, ReceiptsKept
  <2> QED
    BY <2>1, <2>2, <2>3, <2>4, <2>5, <2>6 DEF Next, Step
<1> QED
  BY <1>1, InitReceipts, ShapeInvariant, PTL DEF Spec

-----------------------------------------------------------------------------
(* nested_plan.go proveNestedBatchNode: the calls on the stack are the     *)
(* ancestors of the node at hand, and a node is resolved after its inline  *)
(* children, for every manifest, whatever its nodes are named.             *)
THEOREM PlanTypeCorrect == Spec => []NTypeOK
<1>1. ShapeInv /\ ReceiptInv => NTypeOK
  <2> SUFFICES ASSUME ShapeInv, ReceiptInv
               PROVE  NTypeOK
    OBVIOUS
  <2>1. \A i \in 1..Len(stack) :
          /\ Len(stack[i].path) = i - 1
          /\ i > 1 => stack[i].path = Append(stack[i - 1].path, Len(stack[i - 1].inputs))
    <3>1. CASE phase = "idle"
      BY <3>1, NoIndex DEF ShapeInv
    <3>2. CASE phase # "idle"
      BY <3>2 DEF ShapeInv, CallsOK
    <3> QED
      BY <3>1, <3>2
  <2>2. ASSUME NEW path \in DOMAIN resolved
        PROVE  /\ Len(resolved[path].inputs) = Len(NodeAt(plan, path).leaves)
               /\ \A i \in 1..Len(NodeAt(plan, path).leaves) :
                    Inline(plan, path, i - 1) => Append(path, i - 1) \in DOMAIN resolved
    <3>1. phase # "idle"
      BY <2>2, NoPaths DEF ShapeInv
    <3> QED
      BY <3>1 DEF ShapeInv, NodesOK, InputsOK
  <2>3. \A r \in ledger : r.kind \in {"composite", "succinct"}
    BY DEF ReceiptInv, Sound, Attested
  <2> QED
    BY <2>1, <2>2, <2>3 DEF NTypeOK, ShapeInv
<1> QED
  BY <1>1, ReceiptInvariant, PTL

-----------------------------------------------------------------------------
(* The wrapper implements the ledger.  The operators of the two modules    *)
(* are the same ones, instantiated with the same constants.                *)

LEMMA SameGuestAccepts ==
  ASSUME NEW kind, NEW context, NEW records, NEW assumptions
  PROVE  Ledger!GuestAccepts(kind, context, records, assumptions)
           <=> GuestAccepts(kind, context, records, assumptions)
BY DEF GuestAccepts, DirectLeafAccepted, SameChildPolicy, Resolved, EnvelopeDecodes,
   RecordImage, RecordJournal, ChildBatchPolicy, Decode, RecordSize, LeafClaimSize,
   SupportedLeafKinds, IsAllowedHeterogeneousDirectLeafKindV1,
   LeafKindTaproot, LeafKindHardenedXPriv, LeafKindBatchClaimV1,
   LeafKindHeterogeneousEnvelopeV1, HeterogeneousEnvelopeVersionV1,
   Ledger!GuestAccepts, Ledger!DirectLeafAccepted, Ledger!SameChildPolicy,
   Ledger!Resolved, Ledger!EnvelopeDecodes, Ledger!RecordImage, Ledger!RecordJournal,
   Ledger!ChildBatchPolicy, Ledger!Decode, Ledger!RecordSize, Ledger!LeafClaimSize,
   Ledger!SupportedLeafKinds, Ledger!IsAllowedHeterogeneousDirectLeafKindV1,
   Ledger!LeafKindTaproot, Ledger!LeafKindHardenedXPriv, Ledger!LeafKindBatchClaimV1,
   Ledger!LeafKindHeterogeneousEnvelopeV1, Ledger!HeterogeneousEnvelopeVersionV1

LEMMA SameRoot ==
  ASSUME NEW records
  PROVE  Ledger!Root(records) = Root(records)
BY DEF Root, Height, Level, LeafNodes, NextLevel, LeafHash, InnerHash,
   Ledger!Root, Ledger!Height, Ledger!Level, Ledger!LeafNodes, Ledger!NextLevel,
   Ledger!LeafHash, Ledger!InnerHash

LEMMA SameGuestClaim ==
  ASSUME NEW kind, NEW context, NEW records
  PROVE  Ledger!GuestClaim(kind, context, records) = GuestClaim(kind, context, records)
BY SameRoot
   DEF GuestClaim, Claim, LeafKindHeterogeneousEnvelopeV1, VersionHeterogeneousParent,
       Version, FlagsNone, MerkleHashSHA256,
       Ledger!GuestClaim, Ledger!Claim, Ledger!LeafKindHeterogeneousEnvelopeV1,
       Ledger!VersionHeterogeneousParent, Ledger!Version, Ledger!FlagsNone,
       Ledger!MerkleHashSHA256

LEMMA SameEnvelope ==
  ASSUME NEW directKind, NEW image, NEW journal
  PROVE  /\ Ledger!Envelope(directKind, image, journal)
              = Envelope(directKind, image, journal)
         /\ Ledger!CanEnvelope(directKind, journal) <=> CanEnvelope(directKind, journal)
BY DEF Envelope, CanEnvelope, RecordSize, LeafClaimSize, HeterogeneousEnvelopeVersionV1,
   IsAllowedHeterogeneousDirectLeafKindV1,
   LeafKindTaproot, LeafKindHardenedXPriv, LeafKindBatchClaimV1,
   LeafKindHeterogeneousEnvelopeV1,
   Ledger!Envelope, Ledger!CanEnvelope, Ledger!RecordSize, Ledger!LeafClaimSize,
   Ledger!HeterogeneousEnvelopeVersionV1,
   Ledger!IsAllowedHeterogeneousDirectLeafKindV1,
   Ledger!LeafKindTaproot, Ledger!LeafKindHardenedXPriv, Ledger!LeafKindBatchClaimV1,
   Ledger!LeafKindHeterogeneousEnvelopeV1

LEMMA SameKinds ==
  /\ Ledger!SupportedLeafKinds = SupportedLeafKinds
  /\ Ledger!LeafKindHeterogeneousEnvelopeV1 = LeafKindHeterogeneousEnvelopeV1
BY DEF SupportedLeafKinds, LeafKindTaproot, LeafKindHardenedXPriv, LeafKindBatchClaimV1,
   LeafKindHeterogeneousEnvelopeV1,
   Ledger!SupportedLeafKinds, Ledger!LeafKindTaproot, Ledger!LeafKindHardenedXPriv,
   Ledger!LeafKindBatchClaimV1, Ledger!LeafKindHeterogeneousEnvelopeV1

(* What a loader passes to the guest is among the records the ledger's     *)
(* guest may be given.                                                     *)
LEMMA LoadedRecords ==
  ASSUME ReceiptInv, NEW kind, NEW entry, entry.receipt \in ledger, RecordOf(kind, entry)
  PROVE  entry.record \in Ledger!StdinRecords(kind)
<1>1. entry.receipt.image \in Ledger!Images /\ entry.receipt.journal \in Ledger!Journals
  BY DEF ReceiptInv, Sound, Attested, Ledger!Images, Ledger!Journals
<1>2. CASE kind = LeafKindHeterogeneousEnvelopeV1
  <2>1. PICK directKind \in SupportedLeafKinds :
          /\ CanEnvelope(directKind, entry.receipt.journal)
          /\ entry.record = Envelope(directKind, entry.receipt.image, entry.receipt.journal)
    BY <1>2 DEF RecordOf
  <2> DEFINE e == <<directKind, entry.receipt.image, entry.receipt.journal>>
             D == {d \in Ledger!SupportedLeafKinds \X Ledger!Images \X Ledger!Journals :
                     Ledger!CanEnvelope(d[1], d[3])}
  <2>2. e \in Ledger!SupportedLeafKinds \X Ledger!Images \X Ledger!Journals
    BY <1>1, <2>1, SameKinds
  <2>3. e[1] = directKind /\ e[2] = entry.receipt.image /\ e[3] = entry.receipt.journal
    OBVIOUS
  <2>4. e \in D /\ entry.record = Ledger!Envelope(e[1], e[2], e[3])
    BY <2>1, <2>2, <2>3, SameEnvelope
  <2> HIDE DEF e
  <2>5. entry.record \in Ledger!Envelopes
    BY <2>4 DEF Ledger!Envelopes
  <2> QED
    BY <1>2, <2>5, SameKinds DEF Ledger!StdinRecords
<1>3. CASE kind # LeafKindHeterogeneousEnvelopeV1
  BY <1>1, <1>3, SameKinds DEF RecordOf, Ledger!StdinRecords
<1> QED
  BY <1>2, <1>3

LEMMA ProveNodeImplements ==
  ASSUME ShapeInv, ReceiptInv, ProveNode, NodeAccepted
  PROVE  Ledger!Next
<1> DEFINE kind    == Node.kind
           entries == Loaded(kind, Call.inputs)
           context == Context(kind, entries)
           records == Records(entries)
           claim   == GuestClaim(kind, context, records)
<1>1. /\ Len(entries) \in Nat \ {0} /\ IsSeq(records) /\ Len(records) = Len(entries)
      /\ Len(entries) <= Len(Node.leaves)
      /\ \A i \in 1..Len(entries) : entries[i].receipt \in ledger /\ RecordOf(kind, entries[i])
      /\ GuestAccepts(kind, context, records, ledger)
      /\ ledger' = ledger \cup {[image |-> BatchImage, journal |-> Encode(claim),
                                kind |-> ReceiptKind(plan)]}
      /\ openings' = openings \cup {[claim |-> claim, records |-> records]}
  BY NodeRun
<1>2. /\ kind \in Kinds /\ ReceiptKind(plan) \in ReceiptKinds
      /\ Len(Node.leaves) <= MaxLeaves /\ Len(Node.leaves) \in Nat /\ MaxLeaves \in Nat
  BY CallFacts, BoundsAssumption DEF ProveNode, Proving, Node
<1>3. ASSUME NEW i \in 1..Len(entries)
      PROVE  records[i] \in Ledger!StdinRecords(kind)
  <2>1. records[i] = entries[i].record
    BY DEF Records
  <2> QED
    BY <1>1, <2>1, LoadedRecords
<1>4. context \in Ledger!Images \cup {PolicyDigest}
  <2>1. 1 \in 1..Len(entries)
    BY <1>1
  <2>2. entries[1].receipt \in ledger
    BY <1>1, <2>1
  <2> QED
    BY <2>2 DEF Context, ReceiptInv, Sound, Attested, Ledger!Images
<1> HIDE DEF kind, entries, context, records
<1>5. records \in BoundedSeq(Ledger!StdinRecords(kind), MaxLeaves)
  <2>1. Len(records) <= MaxLeaves
    BY <1>1, <1>2
  <2> QED
    BY <1>1, <1>2, <1>3, <2>1, SeqIsBounded
<1>6. /\ claim = Ledger!GuestClaim(kind, context, records)
      /\ Ledger!GuestAccepts(kind, context, records, ledger)
  BY <1>1, SameGuestClaim, SameGuestAccepts
<1> HIDE DEF claim
<1>7. Ledger!ProveBatch(kind, context, records, ledger, ReceiptKind(plan))
  BY <1>1, <1>6
     DEF Ledger!ProveBatch, Ledger!Opening, Ledger!Receipt, Encode, Ledger!Encode
<1> QED
  BY <1>2, <1>4, <1>5, <1>7 DEF Ledger!Next, Ledger!BoundedSeq, BoundedSeq,
     Ledger!SeqOf, SeqOf

(* The refinement: the wrapper makes receipts only as BatchLedger lets a   *)
(* guest run make them, whatever the manifests, files and kills.  So all   *)
(* that is proved of the ledger holds of the wrapper's receipts.           *)
THEOREM PlanImplementsLedger == Spec => ImplementsLedger
<1>1. Init => Ledger!Init
  BY DEF Init, Ledger!Init
<1>2. ShapeInv /\ ReceiptInv /\ [Next]_planVars => [Ledger!Next]_(Ledger!ledgerVars)
  <2> SUFFICES ASSUME ShapeInv, ReceiptInv, [Next]_planVars
               PROVE  Ledger!Next \/ UNCHANGED Ledger!ledgerVars
    OBVIOUS
  <2>1. CASE UNCHANGED planVars
    BY <2>1 DEF planVars, Ledger!ledgerVars
  <2>2. CASE ProveNode /\ NodeAccepted
    BY <2>2, ProveNodeImplements
  <2>3. CASE ProveNode /\ ~ NodeAccepted
    BY <2>3 DEF ProveNode, NodeAccepted, Ledger!ledgerVars
  <2>4. CASE \/ \E p \in Plans : StartPlan(p)
             \/ ProveInline \/ ResolveExternal \/ WriteReceipt \/ WriteClaim \/ FinishNode
             \/ Derive \/ WriteProof \/ Bundle \/ WriteChain \/ VerifyFinal
             \/ KillBetween \/ KillWithin
    BY <2>4 DEF StartPlan, ProveInline, ResolveExternal, WriteReceipt, WriteClaim,
       FinishNode, Derive, WriteProof, Bundle, WriteChain, VerifyFinal, KillBetween,
       KillWithin, Kill, Ledger!ledgerVars
  <2> QED
    BY <2>1, <2>2, <2>3, <2>4 DEF Next, Step
<1> QED
  BY <1>1, <1>2, ReceiptInvariant, PTL DEF Spec, ImplementsLedger, Ledger!Spec

-----------------------------------------------------------------------------
(* The claims of a plan: PlannedClaims is a recursive function, and that   *)
(* it satisfies its equation rests on the plan being finite.               *)

LEMMA FiniteIsBounded ==
  ASSUME NEW N, IsFiniteSet(N), \A path \in N : path \in Seq(Nat)
  PROVE  \E m \in Nat : \A path \in N : Len(path) <= m
<1>1. PICK n \in Nat : ExistsSurjection(1..n, N)
  BY FS_NatSurjection
<1>2. PICK f : f \in [1..n -> N] /\ \A path \in N : \E i \in 1..n : f[i] = path
  BY <1>1 DEF ExistsSurjection, Surjection
<1> DEFINE S == {k \in Nat : k <= n => \E m \in Nat : \A i \in 1..k : Len(f[i]) <= m}
<1>3. 0 \in S
  <2>1. \A i \in 1..0 : Len(f[i]) <= 0
    OBVIOUS
  <2> QED
    BY <2>1
<1>4. ASSUME NEW k \in Nat, k \in S
      PROVE  k + 1 \in S
  <2> SUFFICES ASSUME k + 1 <= n
               PROVE  \E m \in Nat : \A i \in 1..(k + 1) : Len(f[i]) <= m
    OBVIOUS
  <2>1. PICK m \in Nat : \A i \in 1..k : Len(f[i]) <= m
    BY <1>4
  <2>2. f[k + 1] \in Seq(Nat)
    BY <1>2
  <2>3. PICK l \in Nat : l = Len(f[k + 1])
    BY <2>2
  <2>4. ASSUME NEW i \in 1..(k + 1)
        PROVE  Len(f[i]) <= m + l
    <3>1. CASE i = k + 1
      BY <2>3, <3>1
    <3>2. CASE i \in 1..k
      <4>1. f[i] \in Seq(Nat) /\ Len(f[i]) <= m
        BY <1>2, <2>1, <3>2
      <4>2. Len(f[i]) \in Nat
        BY <4>1
      <4> QED
        BY <4>1, <4>2
    <3> QED
      BY <3>1, <3>2
  <2>5. PICK b \in Nat : b = m + l
    OBVIOUS
  <2> QED
    BY <2>4, <2>5
<1> HIDE DEF S
<1>5. Nat \subseteq S
  BY <1>3, <1>4, ChainRec!SetInduction
<1>6. PICK m \in Nat : \A i \in 1..n : Len(f[i]) <= m
  <2>1. n \in S /\ n <= n
    BY <1>5
  <2> QED
    BY <2>1 DEF S
<1> QED
  BY <1>2, <1>6

(* One node's claim, and the claims of all nodes from given ones below.    *)
ClaimFrom(p, claims, path) ==
  GuestClaim(NodeAt(p, path).kind, ContextOf(p, claims, path), RecordsOf(p, claims, path))

ClaimsStart(p)           == [path \in DOMAIN p.nodes |-> 0]
ClaimsStep(p, k, claims) == [path \in DOMAIN p.nodes |-> ClaimFrom(p, claims, path)]

ClaimsRec == INSTANCE NatRecursion WITH Base <- ClaimsStart, Step <- ClaimsStep

LEMMA ClaimFromChildren ==
  ASSUME NEW p \in Plans, NEW path \in DOMAIN p.nodes, NEW f, NEW g,
         \A i \in Nat : Inline(p, path, i) => f[Append(path, i)] = g[Append(path, i)]
  PROVE  ClaimFrom(p, f, path) = ClaimFrom(p, g, path)
<1>1. ASSUME NEW i \in Nat
      PROVE  ChildReceipt(p, f, path, i) = ChildReceipt(p, g, path, i)
  BY DEF ChildReceipt
<1>2. ContextOf(p, f, path) = ContextOf(p, g, path)
  BY <1>1 DEF ContextOf
<1>3. \A i \in 1..Len(NodeAt(p, path).leaves) : i - 1 \in Nat
  BY PlanFacts
<1>4. RecordsOf(p, f, path) = RecordsOf(p, g, path)
  BY <1>1, <1>3 DEF RecordsOf
<1> QED
  BY <1>2, <1>4 DEF ClaimFrom

LEMMA ClaimsSettle ==
  ASSUME NEW p \in Plans
  PROVE  \E f : f = [path \in DOMAIN p.nodes |-> ClaimFrom(p, f, path)]
<1> DEFINE N     == DOMAIN p.nodes
           at(k) == ClaimsRec!Rec(p)[k]
<1>1. PICK m \in Nat : \A path \in N : Len(path) <= m
  BY PlanFacts, FiniteIsBounded
<1>2. \A k \in Nat : at(k + 1) = [path \in N |-> ClaimFrom(p, at(k), path)]
  <2>1. \A k \in Nat : at(k + 1) = ClaimsStep(p, k + 1, at(k))
    BY ClaimsRec!RecUnfolds
  <2> HIDE DEF at
  <2> QED
    BY <2>1 DEF ClaimsStep
<1> DEFINE S == {k \in Nat : \A path \in N : Len(path) + k > m => at(k + 1)[path] = at(k)[path]}
<1> HIDE DEF at, N
<1>3. 0 \in S
  <2>1. ASSUME NEW path \in N
        PROVE  ~ (Len(path) + 0 > m)
    <3>1. Len(path) \in Nat /\ Len(path) <= m
      BY <1>1, PlanFacts DEF N
    <3> QED
      BY <3>1
  <2> QED
    BY <2>1
<1>4. ASSUME NEW k \in Nat, k \in S
      PROVE  k + 1 \in S
  <2> SUFFICES ASSUME NEW path \in N, Len(path) + (k + 1) > m
               PROVE  at((k + 1) + 1)[path] = at(k + 1)[path]
    OBVIOUS
  <2>1. /\ at((k + 1) + 1)[path] = ClaimFrom(p, at(k + 1), path)
        /\ at(k + 1)[path] = ClaimFrom(p, at(k), path)
    <3>1. /\ at((k + 1) + 1) = [q \in N |-> ClaimFrom(p, at(k + 1), q)]
          /\ at(k + 1) = [q \in N |-> ClaimFrom(p, at(k), q)]
      BY <1>2
    <3> QED
      BY <3>1
  <2>2. ASSUME NEW i \in Nat, Inline(p, path, i)
        PROVE  at(k + 1)[Append(path, i)] = at(k)[Append(path, i)]
    <3>1. path \in Seq(Nat) /\ Append(path, i) \in N
      BY <2>2, PlanFacts, ChildIsLeaf DEF N
    <3>2. Len(Append(path, i)) = Len(path) + 1 /\ Len(path) \in Nat
      BY <3>1, PathAppend
    <3>3. Len(Append(path, i)) + k > m
      BY <3>2
    <3> QED
      BY <1>4, <3>1, <3>3
  <2>3. ClaimFrom(p, at(k + 1), path) = ClaimFrom(p, at(k), path)
    BY <2>2, ClaimFromChildren DEF N
  <2> QED
    BY <2>1, <2>3
<1> HIDE DEF S
<1>5. Nat \subseteq S
  BY <1>3, <1>4, ClaimsRec!SetInduction
<1> DEFINE f == at(m + 1)
<1>6. ASSUME NEW path \in N
      PROVE  at((m + 1) + 1)[path] = f[path]
  <2>1. m + 1 \in S
    BY <1>5
  <2>2. Len(path) \in Nat
    BY PlanFacts DEF N
  <2>3. Len(path) + (m + 1) > m
    BY <2>2
  <2> QED
    BY <2>1, <2>3 DEF S
<1>7. f = [path \in N |-> f[path]]
  BY <1>2
<1>8. at((m + 1) + 1) = [path \in N |-> ClaimFrom(p, f, path)]
  BY <1>2
<1> HIDE DEF f
<1>9. f = [path \in N |-> ClaimFrom(p, f, path)]
  BY <1>6, <1>7, <1>8
<1> QED
  BY <1>9 DEF N

LEMMA PlannedClaimsUnfold ==
  ASSUME NEW p \in Plans, NEW path \in DOMAIN p.nodes
  PROVE  PlannedClaim(p, path)
           = GuestClaim(NodeAt(p, path).kind, PlannedContext(p, path), PlannedRecords(p, path))
<1>1. PlannedClaims(p) = [q \in DOMAIN p.nodes |-> ClaimFrom(p, PlannedClaims(p), q)]
  BY ClaimsSettle DEF PlannedClaims, ClaimFrom
<1>2. PlannedClaims(p)[path] = ClaimFrom(p, PlannedClaims(p), path)
  BY <1>1
<1> QED
  BY <1>2 DEF PlannedClaim, PlannedContext, PlannedRecords, ClaimFrom

-----------------------------------------------------------------------------
(* What loadBatchLeaves makes of files that hold the planned receipts.     *)

LEMMA BeforeFacts ==
  ASSUME NEW inputs, IsSeq(inputs), NEW i \in 1..Len(inputs),
         NEW kind, NEW claims, NEW receipts
  PROVE  LET before  == LoadedLeaves(kind, SubSeq(inputs, 1, i - 1), claims, receipts)
             entries == LoadedLeaves(kind, inputs, claims, receipts)
         IN  /\ before # <<>> => i > 1
             /\ i > 1 => before # <<>> /\ before[1] = entries[1]
<1> DEFINE s       == SubSeq(inputs, 1, i - 1)
           before  == LoadedLeaves(kind, s, claims, receipts)
           entries == LoadedLeaves(kind, inputs, claims, receipts)
           S       == {inputs[k] : k \in 1..Len(inputs)}
           n       == i - 1
<1>1. Len(inputs) \in Nat /\ i \in Nat /\ i <= Len(inputs) /\ n \in Nat /\ n \in Int /\ 1 \in Int
  BY DEF IsSeq
<1>2. \A k \in 1..n : inputs[k] \in S
  BY <1>1
<1> HIDE DEF S
<1>3. /\ Len(s) = IF 1 <= n THEN n - 1 + 1 ELSE 0
      /\ \A k \in 1..(n - 1 + 1) : s[k] = inputs[1 + k - 1]
  BY <1>1, <1>2, ST!SubSeqProperties
<1> HIDE DEF s, n
<1>4. Len(s) = n
  BY <1>1, <1>3
<1>5. n >= 1 => s[1] = inputs[1]
  <2> SUFFICES ASSUME n >= 1
               PROVE  s[1] = inputs[1]
    OBVIOUS
  <2>1. 1 \in 1..(n - 1 + 1) /\ 1 + 1 - 1 = 1
    BY <1>1
  <2> QED
    BY <1>3, <2>1
<1>6. Len(before) = n /\ IsSeq(before)
  BY <1>1, <1>4 DEF LoadedLeaves, IsSeq
<1>7. n >= 1 => before[1] = entries[1]
  <2> SUFFICES ASSUME n >= 1
               PROVE  before[1] = entries[1]
    OBVIOUS
  <2>1. 1 \in 1..Len(s) /\ 1 \in 1..Len(inputs)
    BY <1>1, <1>4 DEF n
  <2> QED
    BY <1>5, <2>1 DEF LoadedLeaves
<1> HIDE DEF before, entries
<1>8. before # <<>> => n >= 1
  BY <1>1, <1>6, EmptySeq
<1>9. n >= 1 => before # <<>>
  BY <1>6
<1>10. n >= 1 <=> i > 1
  BY <1>1 DEF n
<1> QED
  BY <1>7, <1>8, <1>9, <1>10 DEF before, entries, s

(* Leaf i of the node has a receipt.                                       *)
Available(p, path, i) ==
  Inline(p, path, i) \/ LeafAt(p, path, i).file \in DOMAIN External

(* The files of the children hold what is planned.                         *)
FilesAsPlanned(p, path) ==
  \A i \in Leaves(p, path) :
    IF Inline(p, path, i) THEN Kept(p, Append(path, i))
    ELSE LET f == LeafAt(p, path, i).file
         IN  IF f \in DOMAIN External
             THEN /\ receiptFile[f] = Full(External[f])
                  /\ claimFile[f] = Full(PublicClaim(External[f]))
             ELSE claimFile[f] = Absent

(* A receipt is no more than its image, journal and kind.                  *)
LEMMA PlannedReceiptShape ==
  ASSUME NEW p, NEW path, NEW i, Available(p, path, i)
  PROVE  LET r == PlannedReceipt(p, path, i)
         IN  r = [image |-> r.image, journal |-> r.journal, kind |-> r.kind]
<1>1. CASE Inline(p, path, i)
  BY <1>1 DEF PlannedReceipt, ChildReceipt
<1>2. CASE ~Inline(p, path, i)
  <2>1. External[LeafAt(p, path, i).file] \in Ledger!LeafReceipts \cup Ledger!ForeignReceipts
    BY <1>2, ExternalAssumption, GivenAssumption DEF Available
  <2>2. \E image, journal, kind :
          External[LeafAt(p, path, i).file] = Ledger!Receipt(image, journal, kind)
    BY <2>1 DEF Ledger!LeafReceipts, Ledger!ForeignReceipts
  <2> QED
    BY <1>2, <2>2 DEF PlannedReceipt, ChildReceipt, Ledger!Receipt
<1> QED
  BY <1>1, <1>2

LEMMA ChildFiles ==
  ASSUME NEW p \in Plans, NEW path \in DOMAIN p.nodes, NEW nodes, NEW inputs,
         InputsOK(p, nodes, path, inputs), FilesAsPlanned(p, path),
         NEW i \in 1..Len(inputs)
  PROVE  LET slot == inputs[i].slot
             r    == PlannedReceipt(p, path, i - 1)
         IN  /\ i - 1 \in Leaves(p, path)
             /\ inputs[i].directKind = DirectKind(p, path, i - 1)
             /\ Available(p, path, i - 1) =>
                  receiptFile[slot] = Full(r) /\ claimFile[slot] = Full(PublicClaim(r))
             /\ ~ Available(p, path, i - 1) => claimFile[slot] = Absent
<1>1. i - 1 \in Leaves(p, path) /\ inputs[i] = InputOf(p, path, i - 1)
  <2>1. Len(inputs) \in Nat /\ Len(inputs) <= Len(NodeAt(p, path).leaves)
    BY DEF InputsOK, IsSeq
  <2>2. Len(NodeAt(p, path).leaves) \in Nat
    BY PlanFacts
  <2> QED
    BY <2>1, <2>2 DEF InputsOK, Leaves
<1>2. inputs[i].directKind = DirectKind(p, path, i - 1)
  BY <1>1 DEF InputOf
<1>3. CASE Inline(p, path, i - 1)
  <2>1. inputs[i].slot = Base(p, Append(path, i - 1)) /\ Kept(p, Append(path, i - 1))
    BY <1>1, <1>3 DEF InputOf, FilesAsPlanned
  <2>2. PlannedReceipt(p, path, i - 1) = NodeReceipt(p, Append(path, i - 1))
    BY <1>3 DEF PlannedReceipt, ChildReceipt, NodeReceipt, PlannedClaim
  <2> QED
    BY <1>1, <1>2, <1>3, <2>1, <2>2 DEF Kept, Available
<1>4. CASE ~Inline(p, path, i - 1)
  <2>1. inputs[i].slot = LeafAt(p, path, i - 1).file
    BY <1>1, <1>4 DEF InputOf
  <2>2. PlannedReceipt(p, path, i - 1) = External[LeafAt(p, path, i - 1).file]
    BY <1>4 DEF PlannedReceipt, ChildReceipt
  <2> QED
    BY <1>1, <1>2, <1>4, <2>1, <2>2 DEF FilesAsPlanned, Available
<1> QED
  BY <1>3, <1>4

(* The inputs of a node whose call has come to its end.                    *)
AllInputs(p, nodes, path, inputs) ==
  /\ InputsOK(p, nodes, path, inputs)
  /\ Len(inputs) = Len(NodeAt(p, path).leaves)
  /\ Len(inputs) # 0

LEMMA LoadedAsPlanned ==
  ASSUME NEW p \in Plans, NEW path \in DOMAIN p.nodes, NEW nodes, NEW inputs,
         AllInputs(p, nodes, path, inputs), FilesAsPlanned(p, path),
         \A i \in Leaves(p, path) : Available(p, path, i),
         NEW kind, kind = NodeAt(p, path).kind
  PROVE  LET entries == Loaded(kind, inputs)
         IN  /\ Len(entries) = Len(inputs) /\ Len(inputs) \in Nat \ {0}
             /\ \A i \in 1..Len(inputs) :
                  /\ entries[i].receipt = PlannedReceipt(p, path, i - 1)
                  /\ entries[i].record = PlannedRecords(p, path)[i]
             /\ Records(entries) = PlannedRecords(p, path)
             /\ Context(kind, entries) = PlannedContext(p, path)
             /\ Assumptions(entries) = {PlannedReceipt(p, path, i) : i \in Leaves(p, path)}
<1> DEFINE entries == Loaded(kind, inputs)
           n       == Len(inputs)
<1>1. /\ n \in Nat \ {0} /\ n = Len(NodeAt(p, path).leaves)
      /\ InputsOK(p, nodes, path, inputs)
  BY DEF AllInputs, InputsOK, IsSeq
<1>2. /\ Len(entries) = n
      /\ \A i \in 1..n :
           /\ entries[i].receipt = receiptFile[inputs[i].slot].data
           /\ entries[i].record = DirectRecord(kind, inputs[i].directKind,
                                               claimFile[inputs[i].slot].data)
  BY <1>1 DEF Loaded, LoadedLeaves
<1> HIDE DEF entries
<1>3. ASSUME NEW i \in 1..n
      PROVE  /\ entries[i].receipt = PlannedReceipt(p, path, i - 1)
             /\ entries[i].record = PlannedRecords(p, path)[i]
  <2>1. /\ inputs[i].directKind = DirectKind(p, path, i - 1)
        /\ receiptFile[inputs[i].slot].data = PlannedReceipt(p, path, i - 1)
        /\ claimFile[inputs[i].slot].data = PublicClaim(PlannedReceipt(p, path, i - 1))
    BY <1>1, ChildFiles, FileFacts
  <2>2. PlannedRecords(p, path)[i]
          = DirectRecord(kind, DirectKind(p, path, i - 1),
                         PublicClaim(PlannedReceipt(p, path, i - 1)))
    BY <1>1 DEF PlannedRecords, RecordsOf, PlannedReceipt
  <2> QED
    BY <1>2, <2>1, <2>2
<1>4. Records(entries) = PlannedRecords(p, path)
  <2>1. Records(entries) = [i \in 1..n |-> entries[i].record]
    BY <1>2 DEF Records
  <2>2. PlannedRecords(p, path) = [i \in 1..n |-> PlannedRecords(p, path)[i]]
    BY <1>1 DEF PlannedRecords, RecordsOf
  <2> QED
    BY <1>3, <2>1, <2>2
<1>5. Context(kind, entries) = PlannedContext(p, path)
  <2>1. 1 \in 1..n /\ 1 - 1 = 0
    BY <1>1
  <2>2. entries[1].receipt = PlannedReceipt(p, path, 0)
    BY <1>3, <2>1
  <2> QED
    BY <2>2 DEF Context, PlannedContext, ContextOf, PlannedReceipt
<1>6. Assumptions(entries) = {PlannedReceipt(p, path, i) : i \in Leaves(p, path)}
  <2>1. Assumptions(entries) = {PlannedReceipt(p, path, i - 1) : i \in 1..n}
    BY <1>2, <1>3 DEF Assumptions
  <2>2. \A i \in 1..n : i - 1 \in Leaves(p, path)
    BY <1>1 DEF Leaves
  <2>3. \A i \in Leaves(p, path) : i + 1 \in 1..n /\ (i + 1) - 1 = i
    BY <1>1 DEF Leaves
  <2> QED
    BY <2>1, <2>2, <2>3
<1> QED
  BY <1>1, <1>2, <1>3, <1>4, <1>5, <1>6 DEF entries

(* The host's checks and the guest's, on what is planned.                  *)
LEMMA LoadsIffProvable ==
  ASSUME NEW p \in Plans, NEW path \in DOMAIN p.nodes, NEW nodes, NEW inputs,
         AllInputs(p, nodes, path, inputs), FilesAsPlanned(p, path),
         \A i \in Leaves(p, path) : Available(p, path, i),
         NEW kind, kind = NodeAt(p, path).kind,
         GuestAccepts(kind, PlannedContext(p, path), PlannedRecords(p, path),
                      {PlannedReceipt(p, path, i) : i \in Leaves(p, path)})
  PROVE  Loads(kind, inputs) <=>
           \A i \in Leaves(p, path) :
             Resolved({PlannedReceipt(p, path, i)},
                      RecordImage(kind, PlannedContext(p, path), PlannedRecords(p, path)[i + 1]),
                      RecordJournal(kind, PlannedRecords(p, path)[i + 1]))
<1> DEFINE n          == Len(inputs)
           records    == PlannedRecords(p, path)
           context    == PlannedContext(p, path)
           receipt(i) == PlannedReceipt(p, path, i - 1)
           direct(i)  == DirectKind(p, path, i - 1)
           entries    == Loaded(kind, inputs)
           before(i)  == LoadedLeaves(kind, SubSeq(inputs, 1, i - 1), claimFile, receiptFile)
           good(i)    == Resolved({receipt(i)}, RecordImage(kind, context, records[i]),
                                  RecordJournal(kind, records[i]))
<1>1. /\ n \in Nat \ {0} /\ n = Len(NodeAt(p, path).leaves)
      /\ IsSeq(inputs) /\ inputs # <<>> /\ InputsOK(p, nodes, path, inputs)
      /\ 1 \in 1..n
  BY DEF AllInputs, InputsOK, IsSeq
<1>2. /\ \A i \in 1..n : /\ entries[i].receipt = receipt(i)
                         /\ entries[i].record = records[i]
      /\ Records(entries) = records /\ Context(kind, entries) = context
      /\ Len(records) = n
  <2>1. Len(records) = n
    BY <1>1 DEF PlannedRecords, RecordsOf
  <2> HIDE DEF records
  <2> QED
    BY <2>1, LoadedAsPlanned DEF records
<1>3. ASSUME NEW i \in 1..n
      PROVE  /\ claimFile[inputs[i].slot] = Full(PublicClaim(receipt(i)))
             /\ receiptFile[inputs[i].slot] = Full(receipt(i))
             /\ inputs[i].directKind = direct(i)
             /\ receipt(i) = [image |-> receipt(i).image, journal |-> receipt(i).journal,
                              kind |-> receipt(i).kind]
  BY <1>1, ChildFiles, PlannedReceiptShape
<1>4. ASSUME NEW i \in 1..n
      PROVE  records[i] = DirectRecord(kind, direct(i), PublicClaim(receipt(i)))
  BY <1>1 DEF PlannedRecords, RecordsOf, PlannedReceipt
<1>5. context = IF kind = LeafKindHeterogeneousEnvelopeV1 THEN PolicyDigest ELSE receipt(1).image
  <2>1. 1 - 1 = 0
    OBVIOUS
  <2> QED
    BY <2>1 DEF PlannedContext, ContextOf, PlannedReceipt
<1>6. ASSUME NEW i \in 1..n
      PROVE  /\ before(i) # <<>> => i > 1
             /\ i > 1 => before(i) # <<>> /\ before(i)[1] = entries[1]
  BY <1>1, BeforeFacts DEF Loaded
<1>7. /\ \A i \in 1..n : DirectLeafAccepted(kind, context, records[i],
                           {PlannedReceipt(p, path, j) : j \in Leaves(p, path)})
      /\ SameChildPolicy(kind, records)
  BY <1>2 DEF GuestAccepts
<1>8. Loads(kind, inputs) <=>
        \A i \in 1..n : /\ ClaimAccepted(kind, direct(i), before(i), PublicClaim(receipt(i)))
                        /\ receipt(i).kind = "succinct"
  <2>1. ASSUME NEW i \in 1..n
        PROVE  /\ Readable(claimFile[inputs[i].slot])
               /\ claimFile[inputs[i].slot].data = PublicClaim(receipt(i))
               /\ ReceiptAccepted(receiptFile[inputs[i].slot], PublicClaim(receipt(i)))
                    <=> receipt(i).kind = "succinct"
    BY <1>3, FileFacts DEF ReceiptAccepted
  <2> HIDE DEF receipt, direct
  <2> QED
    BY <1>1, <1>3, <2>1 DEF Loads, loadBatchLeaves
<1> HIDE DEF receipt, direct, entries, before, records, context
<1>9. ASSUME NEW i \in 1..n
      PROVE  /\ PublicClaim(receipt(i)).image = receipt(i).image
             /\ PublicClaim(receipt(i)).journal = receipt(i).journal
             /\ good(i) <=> /\ receipt(i).kind = "succinct"
                            /\ receipt(i).image = RecordImage(kind, context, records[i])
                            /\ receipt(i).journal = RecordJournal(kind, records[i])
  <2>1. receipt(i) = [image |-> receipt(i).image, journal |-> receipt(i).journal,
                      kind |-> receipt(i).kind]
    BY <1>3
  <2>2. PICK r : r = receipt(i)
    OBVIOUS
  <2>3. PICK image, journal : /\ image = RecordImage(kind, context, records[i])
                              /\ journal = RecordJournal(kind, records[i])
    OBVIOUS
  <2>4. Resolved({r}, image, journal)
          <=> r.kind = "succinct" /\ r.image = image /\ r.journal = journal
    <3>1. r = [image |-> r.image, journal |-> r.journal, kind |-> r.kind]
      BY <2>1, <2>2
    <3> QED
      BY <3>1 DEF Resolved
  <2> QED
    BY <2>2, <2>3, <2>4 DEF PublicClaim
<1>10. ASSUME kind = LeafKindHeterogeneousEnvelopeV1
       PROVE  Loads(kind, inputs) <=> \A i \in 1..n : good(i)
  <2>1. ASSUME NEW i \in 1..n
        PROVE  /\ records[i] = Envelope(direct(i), receipt(i).image, receipt(i).journal)
               /\ EnvelopeDecodes(records[i])
    <3>1. PublicClaim(receipt(i)).image = receipt(i).image
            /\ PublicClaim(receipt(i)).journal = receipt(i).journal
      BY <1>9
    <3>2. records[i] = DirectRecord(kind, direct(i), PublicClaim(receipt(i)))
      BY <1>4
    <3> HIDE DEF good
    <3> QED
      BY <1>7, <1>10, <3>1, <3>2 DEF DirectRecord, DirectLeafAccepted
  <2>2. ASSUME NEW i \in 1..n
        PROVE  /\ receipt(i).image = RecordImage(kind, context, records[i])
               /\ receipt(i).journal = RecordJournal(kind, records[i])
               /\ ClaimAccepted(kind, direct(i), before(i), PublicClaim(receipt(i)))
    <3>1. PICK r, claim, d, journal, image, b :
            /\ r = records[i] /\ claim = PublicClaim(receipt(i)) /\ d = direct(i)
            /\ journal = receipt(i).journal /\ image = receipt(i).image /\ b = before(i)
      OBVIOUS
    <3>2. r = Envelope(d, image, journal) /\ EnvelopeDecodes(r)
      BY <2>1, <3>1
    <3>3. claim.image = image /\ claim.journal = journal
      BY <1>9, <3>1
    <3>4. image = RecordImage(kind, context, r) /\ journal = RecordJournal(kind, r)
      BY <1>10, <3>2 DEF Envelope, RecordImage, RecordJournal
    <3>5. ClaimAccepted(kind, d, b, claim)
      BY <1>10, <3>2, <3>3 DEF ClaimAccepted, CanEnvelope, Envelope, EnvelopeDecodes
    <3> QED
      BY <3>1, <3>4, <3>5
  <2> QED
    BY <1>8, <1>9, <2>2
<1>11. ASSUME kind # LeafKindHeterogeneousEnvelopeV1
       PROVE  Loads(kind, inputs) <=> \A i \in 1..n : good(i)
  <2>1. context = receipt(1).image /\ context = entries[1].receipt.image
    BY <1>1, <1>2, <1>5, <1>11
  <2>2. ASSUME NEW i \in 1..n
        PROVE  /\ records[i] = receipt(i).journal
               /\ RecordImage(kind, context, records[i]) = context
               /\ RecordJournal(kind, records[i]) = records[i]
               /\ RecordSize(records[i]) = LeafClaimSize(kind)
               /\ kind = LeafKindBatchClaimV1 =>
                    ChildBatchPolicy(records[i]) = ChildBatchPolicy(records[1])
    BY <1>2, <1>4, <1>7, <1>9, <1>11
       DEF DirectRecord, RecordImage, RecordJournal, DirectLeafAccepted, SameChildPolicy
  <2>3. ASSUME NEW i \in 1..n
        PROVE  ClaimAccepted(kind, direct(i), before(i), PublicClaim(receipt(i)))
                 <=> (i > 1 => receipt(i).image = context)
    <3>1. entries[1].record = records[1] /\ PublicClaim(receipt(i)).journal = records[i]
      BY <1>1, <1>2, <1>9, <2>2
    <3> QED
      BY <1>6, <1>9, <1>11, <2>1, <2>2, <3>1 DEF ClaimAccepted
  <2>4. ASSUME NEW i \in 1..n
        PROVE  (i > 1 => receipt(i).image = context) <=> receipt(i).image = context
    <3>1. CASE i = 1
      BY <2>1, <3>1
    <3>2. CASE i > 1
      BY <3>2
    <3> QED
      BY <1>1, <3>1, <3>2
  <2> QED
    BY <1>8, <1>9, <2>2, <2>3, <2>4
<1>12. Loads(kind, inputs) <=> \A i \in 1..n : good(i)
  BY <1>10, <1>11
<1>13. ASSUME NEW i \in Leaves(p, path)
       PROVE  i + 1 \in 1..n /\ (i + 1) - 1 = i
  BY <1>1 DEF Leaves
<1>14. ASSUME NEW i \in 1..n
       PROVE  i - 1 \in Leaves(p, path) /\ (i - 1) + 1 = i
  BY <1>1 DEF Leaves
<1> HIDE DEF n, good
<1>15. (\A i \in 1..n : good(i)) <=> (\A i \in Leaves(p, path) : good(i + 1))
  BY <1>13, <1>14
<1>16. ASSUME NEW i \in Leaves(p, path)
       PROVE  good(i + 1) <=>
                Resolved({PlannedReceipt(p, path, i)},
                         RecordImage(kind, context, records[i + 1]),
                         RecordJournal(kind, records[i + 1]))
  BY <1>13 DEF good, receipt
<1> QED
  BY <1>12, <1>15, <1>16 DEF records, context

(* A missing leaf fails the load, and the plan is not provable.            *)
LEMMA AcceptedIffProvable ==
  ASSUME NEW p \in Plans, NEW path \in DOMAIN p.nodes, NEW nodes, NEW inputs,
         AllInputs(p, nodes, path, inputs), FilesAsPlanned(p, path),
         NEW kind, kind = NodeAt(p, path).kind
  PROVE  LET entries == Loaded(kind, inputs)
         IN  /\ Loads(kind, inputs)
             /\ GuestAccepts(kind, Context(kind, entries), Records(entries),
                             Assumptions(entries))
             <=> NodeProvable(p, path)
<1> DEFINE entries == Loaded(kind, inputs)
<1>1. CASE \A i \in Leaves(p, path) : Available(p, path, i)
  <2>1. /\ Records(entries) = PlannedRecords(p, path)
        /\ Context(kind, entries) = PlannedContext(p, path)
        /\ Assumptions(entries) = {PlannedReceipt(p, path, i) : i \in Leaves(p, path)}
    BY <1>1, LoadedAsPlanned
  <2> HIDE DEF entries
  <2>2. CASE GuestAccepts(kind, PlannedContext(p, path), PlannedRecords(p, path),
                          {PlannedReceipt(p, path, i) : i \in Leaves(p, path)})
    <3>1. Loads(kind, inputs) <=>
            \A i \in Leaves(p, path) :
              Resolved({PlannedReceipt(p, path, i)},
                       RecordImage(kind, PlannedContext(p, path), PlannedRecords(p, path)[i + 1]),
                       RecordJournal(kind, PlannedRecords(p, path)[i + 1]))
      BY <1>1, <2>2, LoadsIffProvable
    <3> QED
      BY <1>1, <2>1, <2>2, <3>1 DEF NodeProvable, Available, entries
  <2>3. CASE ~ GuestAccepts(kind, PlannedContext(p, path), PlannedRecords(p, path),
                            {PlannedReceipt(p, path, i) : i \in Leaves(p, path)})
    BY <2>1, <2>3 DEF NodeProvable, entries
  <2> QED
    BY <2>2, <2>3
<1>2. CASE ~ \A i \in Leaves(p, path) : Available(p, path, i)
  <2>1. PICK i \in Leaves(p, path) : ~ Available(p, path, i)
    BY <1>2
  <2>2. i + 1 \in 1..Len(inputs) /\ (i + 1) - 1 = i
    BY PlanFacts DEF AllInputs, Leaves
  <2>3. claimFile[inputs[i + 1].slot] = Absent
    BY <2>1, <2>2, ChildFiles DEF AllInputs
  <2>4. ~ Loads(kind, inputs)
    BY <2>2, <2>3, FileFacts DEF Loads, loadBatchLeaves
  <2>5. ~ NodeProvable(p, path)
    BY <2>1 DEF NodeProvable, Available
  <2> QED
    BY <2>4, <2>5
<1> QED
  BY <1>1, <1>2

-----------------------------------------------------------------------------
(* The artifacts of a node: no two nodes of a manifest have the same files.*)

DistinctArtifacts ==
  \A p \in Plans : \A a, b \in DOMAIN p.nodes : Base(p, a) = Base(p, b) => a = b

ReportInv ==
  report = [topClaim |-> report.topClaim, chain |-> report.chain, verified |-> report.verified]

LEMMA ReportKept ==
  ASSUME ReportInv, [Next]_planVars
  PROVE  ReportInv'
<1>1. CASE UNCHANGED report
  BY <1>1 DEF ReportInv
<1>2. CASE \E p \in Plans : StartPlan(p)
  BY <1>2 DEF StartPlan, NoReport, ReportInv
<1>3. CASE FinishNode \/ WriteChain \/ VerifyFinal
  <2>1. PICK c, d, v : report = [topClaim |-> c, chain |-> d, verified |-> v]
    BY DEF ReportInv
  <2>2. \/ UNCHANGED report
        \/ \E c2 : report' = [report EXCEPT !.topClaim = c2]
        \/ report' = [report EXCEPT !.chain = TRUE]
        \/ report' = [report EXCEPT !.verified = TRUE]
    BY <1>3 DEF FinishNode, WriteChain, VerifyFinal
  <2>3. \E c2, d2, v2 : report' = [topClaim |-> c2, chain |-> d2, verified |-> v2]
    BY <2>1, <2>2
  <2> QED
    BY <2>3 DEF ReportInv
<1> QED
  BY <1>1, <1>2, <1>3 DEF Next, Step, ProveInline, ResolveExternal, ProveNode, WriteReceipt,
     WriteClaim, Derive, WriteProof, Bundle, KillBetween, KillWithin, Kill, planVars

LEMMA ReportSet ==
  ASSUME ReportInv, NEW c
  PROVE  /\ [report EXCEPT !.topClaim = c].topClaim = c
         /\ [report EXCEPT !.topClaim = c].chain = report.chain
         /\ [report EXCEPT !.chain = TRUE].topClaim = report.topClaim
         /\ [report EXCEPT !.chain = TRUE].chain = TRUE
         /\ [report EXCEPT !.verified = TRUE].topClaim = report.topClaim
         /\ [report EXCEPT !.verified = TRUE].chain = report.chain
BY DEF ReportInv

(* The root's call is the only one left when it returns.                   *)
LEMMA RootReturns ==
  ASSUME ShapeInv, FinishNode, ~ (Len(stack) > 1)
  PROVE  Call.path = <<>>
<1>1. phase \in Proving
  BY DEF FinishNode, Proving, Writing
<1>2. Len(stack) \in Nat \ {0} /\ Len(Call.path) = Len(stack) - 1 /\ Call.path \in Seq(Nat)
  BY <1>1, CallFacts
<1>3. Len(stack) = 1
  BY <1>2, OnlyOne
<1>4. Len(Call.path) = 0
  BY <1>2, <1>3
<1> QED
  BY <1>2, <1>4

LEMMA FilesPlanned ==
  ASSUME ArtifactInv, plan \in Plans, NEW path \in DOMAIN plan.nodes, NEW inputs,
         InputsOK(plan, Done, path, inputs), Len(inputs) = Len(NodeAt(plan, path).leaves)
  PROVE  FilesAsPlanned(plan, path)
<1> SUFFICES ASSUME NEW i \in Leaves(plan, path)
             PROVE  IF Inline(plan, path, i) THEN Kept(plan, Append(path, i))
                    ELSE LET f == LeafAt(plan, path, i).file
                         IN  IF f \in DOMAIN External
                             THEN /\ receiptFile[f] = Full(External[f])
                                  /\ claimFile[f] = Full(PublicClaim(External[f]))
                             ELSE claimFile[f] = Absent
  BY DEF FilesAsPlanned
<1>1. CASE Inline(plan, path, i)
  <2>1. i + 1 \in 1..Len(inputs) /\ (i + 1) - 1 = i
    BY PlanFacts DEF Leaves
  <2>2. Append(path, i) \in Done
    BY <1>1, <2>1 DEF InputsOK
  <2> QED
    BY <1>1, <2>2 DEF ArtifactInv
<1>2. CASE ~ Inline(plan, path, i)
  <2>1. LeafAt(plan, path, i).file \in Files \ Bases
    BY <1>2, FilesOfPlan
  <2> QED
    BY <1>2, <2>1 DEF ArtifactInv, ExternalFiles
<1> QED
  BY <1>1, <1>2

(* At the end of its call, the guest takes a node exactly when the plan    *)
(* says so, and the claim is the planned one.                              *)
LEMMA NodeAsPlanned ==
  ASSUME ShapeInv, ArtifactInv, ProveNode
  PROVE  LET entries == Loaded(Node.kind, Call.inputs)
         IN  /\ NodeAccepted <=> NodeProvable(plan, Call.path)
             /\ NodeAccepted => /\ Records(entries) = PlannedRecords(plan, Call.path)
                                /\ GuestClaim(Node.kind, Context(Node.kind, entries), Records(entries))
                                     = PlannedClaim(plan, Call.path)
<1> DEFINE entries == Loaded(Node.kind, Call.inputs)
<1>1. /\ phase \in Proving /\ ~HasLeaf /\ phase = "resolve"
  BY DEF ProveNode, Proving
<1>2. /\ plan \in Plans /\ Call.path \in DOMAIN plan.nodes
      /\ InputsOK(plan, Done, Call.path, Call.inputs)
      /\ Len(Call.inputs) \in Nat /\ Len(Node.leaves) \in Nat \ {0}
      /\ Len(Call.inputs) <= Len(Node.leaves)
  BY <1>1, CallFacts DEF Index
<1>3. ~ (Len(Call.inputs) < Len(Node.leaves))
  BY <1>1 DEF HasLeaf, Index
<1>4. Len(Call.inputs) = Len(Node.leaves)
  BY <1>2, <1>3
<1>5. AllInputs(plan, Done, Call.path, Call.inputs)
  BY <1>2, <1>4 DEF AllInputs, Node
<1>6. FilesAsPlanned(plan, Call.path)
  BY <1>2, <1>4, FilesPlanned DEF Node
<1>7. Node.kind = NodeAt(plan, Call.path).kind
  BY DEF Node
<1>8. NodeAccepted <=> NodeProvable(plan, Call.path)
  BY <1>2, <1>5, <1>6, <1>7, AcceptedIffProvable DEF NodeAccepted
<1>9. ASSUME NodeProvable(plan, Call.path)
      PROVE  /\ Records(entries) = PlannedRecords(plan, Call.path)
             /\ GuestClaim(Node.kind, Context(Node.kind, entries), Records(entries))
                  = PlannedClaim(plan, Call.path)
  <2>1. \A i \in Leaves(plan, Call.path) : Available(plan, Call.path, i)
    BY <1>9 DEF NodeProvable, Available
  <2>2. /\ Records(entries) = PlannedRecords(plan, Call.path)
        /\ Context(Node.kind, entries) = PlannedContext(plan, Call.path)
    BY <1>2, <1>5, <1>6, <1>7, <2>1, LoadedAsPlanned
  <2> HIDE DEF entries
  <2> QED
    BY <1>2, <1>7, <2>2, PlannedClaimsUnfold
<1> QED
  BY <1>8, <1>9

(* Steps that write no artifact and resolve no node.                       *)
LEMMA ArtifactsStay ==
  ASSUME ArtifactInv, openings \subseteq openings',
         UNCHANGED <<receiptFile, claimFile, plan, resolved>>, phase' \notin Writing,
         phase' \in Walking => phase \in Walking /\ report'.topClaim = report.topClaim
  PROVE  ArtifactInv'
<1>1. ExternalFiles'
  BY DEF ArtifactInv, ExternalFiles
<1>2. ASSUME NEW path \in Done'
      PROVE  /\ Proved(plan, path)' /\ Kept(plan, path)'
             /\ resolved'[path].claim = PublicClaim(NodeReceipt(plan', path))
  BY DEF ArtifactInv, Done, Proved, Kept
<1> QED
  BY <1>1, <1>2 DEF ArtifactInv, Writing

(* Writing an artifact of the node at hand touches no other node's.        *)
LEMMA WriteTouchesOwn ==
  ASSUME DistinctArtifacts, ShapeInv, ReceiptInv, ArtifactInv, phase \in Writing, NEW file,
         UNCHANGED <<openings, plan, stack, resolved>>,
         \/ /\ receiptFile' = [receiptFile EXCEPT ![Base(plan, Call.path)] = file]
            /\ claimFile' = claimFile
         \/ /\ claimFile' = [claimFile EXCEPT ![Base(plan, Call.path)] = file]
            /\ receiptFile' = receiptFile
  PROVE  /\ ExternalFiles'
         /\ \A path \in Done' :
              /\ Proved(plan, path)' /\ Kept(plan, path)'
              /\ resolved'[path].claim = PublicClaim(NodeReceipt(plan', path))
         /\ Base(plan, Call.path) \in Files
<1> DEFINE base == Base(plan, Call.path)
<1>1. /\ plan \in Plans /\ Call.path \in DOMAIN plan.nodes /\ Call.path \notin Done
      /\ NodesOK(plan, resolved)
  BY CallFacts DEF Proving
<1>2. base \in Bases /\ base \in Files
  BY <1>1, FilesOfPlan
<1>3. ASSUME NEW path \in Done
      PROVE  Base(plan, path) # base /\ Base(plan, path) \in Files
  <2>1. path \in DOMAIN plan.nodes
    BY <1>1 DEF NodesOK, Done
  <2> QED
    BY <1>1, <1>3, <2>1, FilesOfPlan DEF DistinctArtifacts
<1> HIDE DEF base
<1>4. ASSUME NEW f \in Files, f # base
      PROVE  receiptFile'[f] = receiptFile[f] /\ claimFile'[f] = claimFile[f]
  BY <1>4 DEF base, ReceiptInv, FilesOK
<1>5. ExternalFiles'
  <2>1. \A f \in Files \ Bases : f # base
    BY <1>2
  <2> QED
    BY <1>4, <2>1 DEF ArtifactInv, ExternalFiles
<1>6. ASSUME NEW path \in Done
      PROVE  /\ Proved(plan, path)' /\ Kept(plan, path)'
             /\ resolved'[path].claim = PublicClaim(NodeReceipt(plan', path))
  <2>1. /\ receiptFile'[Base(plan, path)] = receiptFile[Base(plan, path)]
        /\ claimFile'[Base(plan, path)] = claimFile[Base(plan, path)]
    BY <1>3, <1>4
  <2> QED
    BY <2>1 DEF ArtifactInv, Proved, Kept
<1> QED
  BY <1>2, <1>5, <1>6 DEF base, Done

LEMMA ProveNodeArtifacts ==
  ASSUME ShapeInv, ReceiptInv, ArtifactInv, ProveNode
  PROVE  ArtifactInv'
<1>1. UNCHANGED <<receiptFile, claimFile, plan, stack, resolved>>
  BY DEF ProveNode
<1>2. CASE NodeAccepted
  <2> DEFINE entries == Loaded(Node.kind, Call.inputs)
             claim   == GuestClaim(Node.kind, Context(Node.kind, entries), Records(entries))
  <2>1. /\ openings' = openings \cup {[claim |-> claim, records |-> Records(entries)]}
        /\ held' = [image |-> BatchImage, journal |-> Encode(claim),
                    kind |-> ReceiptKind(plan)]
        /\ phase' = "write receipt"
    BY <1>2, NodeRun
  <2>2. /\ NodeProvable(plan, Call.path)
        /\ Records(entries) = PlannedRecords(plan, Call.path)
        /\ claim = PlannedClaim(plan, Call.path)
    BY <1>2, NodeAsPlanned
  <2> HIDE DEF entries, claim
  <2>3. /\ held' = NodeReceipt(plan, Call.path)
        /\ openings' = openings \cup {PlannedOpening(plan, Call.path)}
    BY <2>1, <2>2 DEF NodeReceipt, PlannedOpening
  <2>4. Call' = Call
    BY <1>1 DEF Call
  <2>5. ExternalFiles'
    BY <1>1 DEF ArtifactInv, ExternalFiles
  <2>6. ASSUME NEW path \in Done'
        PROVE  /\ Proved(plan, path)' /\ Kept(plan, path)'
               /\ resolved'[path].claim = PublicClaim(NodeReceipt(plan', path))
    BY <1>1, <2>3 DEF ArtifactInv, Done, Proved, Kept
  <2>7. Proved(plan, Call.path)'
    BY <1>1, <2>2, <2>3, <2>4 DEF Proved
  <2>8. phase' \notin Walking /\ phase' # "write claim" /\ phase' # "read claim"
    BY <2>1 DEF Walking
  <2> QED
    BY <1>1, <2>3, <2>4, <2>5, <2>6, <2>7, <2>8 DEF ArtifactInv
<1>3. CASE ~ NodeAccepted
  <2>1. phase' = "failed" /\ UNCHANGED openings
    BY <1>3 DEF ProveNode, NodeAccepted
  <2>2. phase' \notin Writing /\ phase' \notin Walking
    BY <2>1 DEF Writing, Walking
  <2> QED
    BY <1>1, <2>1, <2>2, ArtifactsStay
<1> QED
  BY <1>2, <1>3

LEMMA WriteReceiptArtifacts ==
  ASSUME DistinctArtifacts, ShapeInv, ReceiptInv, ArtifactInv, WriteReceipt
  PROVE  ArtifactInv'
<1> DEFINE base == Base(plan, Call.path)
<1>1. /\ phase \in Writing /\ phase' = "write claim"
      /\ receiptFile' = [receiptFile EXCEPT ![base] = Full(held)]
      /\ UNCHANGED <<openings, claimFile, plan, stack, resolved, held>>
  BY DEF WriteReceipt, Writing
<1>2. /\ ExternalFiles'
      /\ \A path \in Done' :
           /\ Proved(plan, path)' /\ Kept(plan, path)'
           /\ resolved'[path].claim = PublicClaim(NodeReceipt(plan', path))
      /\ base \in Files
  BY <1>1, WriteTouchesOwn
<1>3. held = NodeReceipt(plan, Call.path) /\ Proved(plan, Call.path)
  BY <1>1 DEF ArtifactInv
<1>4. Call' = Call
  BY <1>1 DEF Call
<1>5. receiptFile'[base] = Full(held)
  BY <1>1, <1>2 DEF ReceiptInv, FilesOK
<1>6. Proved(plan, Call.path)'
  BY <1>1, <1>3, <1>4 DEF Proved
<1>7. phase' \notin Walking /\ phase' # "read claim"
  BY <1>1 DEF Walking
<1> QED
  BY <1>1, <1>2, <1>3, <1>4, <1>5, <1>6, <1>7 DEF ArtifactInv

LEMMA WriteClaimArtifacts ==
  ASSUME DistinctArtifacts, ShapeInv, ReceiptInv, ArtifactInv, WriteClaim
  PROVE  ArtifactInv'
<1> DEFINE base == Base(plan, Call.path)
<1>1. /\ phase \in Writing /\ phase = "write claim" /\ phase' = "read claim"
      /\ claimFile' = [claimFile EXCEPT ![base] = Full(PublicClaim(held))]
      /\ UNCHANGED <<openings, receiptFile, plan, stack, resolved, held>>
  BY DEF WriteClaim, Writing
<1>2. /\ ExternalFiles'
      /\ \A path \in Done' :
           /\ Proved(plan, path)' /\ Kept(plan, path)'
           /\ resolved'[path].claim = PublicClaim(NodeReceipt(plan', path))
      /\ base \in Files
  BY <1>1, WriteTouchesOwn
<1>3. /\ held = NodeReceipt(plan, Call.path) /\ Proved(plan, Call.path)
      /\ receiptFile[base] = Full(held)
  BY <1>1 DEF ArtifactInv
<1>4. Call' = Call
  BY <1>1 DEF Call
<1>5. claimFile'[base] = Full(PublicClaim(held))
  BY <1>1, <1>2 DEF ReceiptInv, FilesOK
<1>6. Proved(plan, Call.path)'
  BY <1>1, <1>3, <1>4 DEF Proved
<1>7. phase' \notin Walking
  BY <1>1 DEF Walking
<1> QED
  BY <1>1, <1>2, <1>3, <1>4, <1>5, <1>6, <1>7 DEF ArtifactInv

LEMMA FinishNodeArtifacts ==
  ASSUME ShapeInv, ArtifactInv, ReportInv, FinishNode
  PROVE  /\ ArtifactInv'
         /\ Readable(claimFile[Base(plan, Call.path)])
<1> DEFINE cp   == Call.path
           file == claimFile[Base(plan, cp)]
<1>1. /\ phase = "read claim" /\ phase \in Writing
      /\ UNCHANGED <<openings, receiptFile, claimFile, plan>>
  BY DEF FinishNode, Writing
<1>2. /\ Proved(plan, cp) /\ Kept(plan, cp)
      /\ file = Full(PublicClaim(NodeReceipt(plan, cp)))
  BY <1>1 DEF ArtifactInv, Kept
<1>3. Readable(file) /\ file.data = PublicClaim(NodeReceipt(plan, cp))
  BY <1>2, FileFacts
<1>4. /\ Done' = Done \cup {cp}
      /\ \A path \in Done : resolved'[path] = resolved[path]
      /\ resolved'[cp].claim = PublicClaim(NodeReceipt(plan, cp))
  BY <1>3, ReturnShape
<1>5. ASSUME NEW path \in Done'
      PROVE  /\ Proved(plan, path)' /\ Kept(plan, path)'
             /\ resolved'[path].claim = PublicClaim(NodeReceipt(plan', path))
  <2> HIDE DEF cp, file
  <2> QED
    BY <1>1, <1>2, <1>4 DEF ArtifactInv, Proved, Kept
<1>6. ExternalFiles'
  BY <1>1 DEF ArtifactInv, ExternalFiles
<1>7. /\ phase' \notin Writing
      /\ phase' \in Walking => report'.topClaim = PublicClaim(NodeReceipt(plan', <<>>))
  <2>1. CASE Len(stack) > 1
    BY <1>3, <2>1 DEF FinishNode, Resolve, Writing, Walking
  <2>2. CASE ~ (Len(stack) > 1)
    <3>1. /\ report' = [report EXCEPT !.topClaim = file.data]
          /\ phase' \in {"derive", "verify", "done"}
      BY <1>3, <2>2 DEF FinishNode, AfterProofs
    <3>2. cp = <<>>
      BY <2>2, RootReturns
    <3>3. report'.topClaim = file.data
      BY <3>1, ReportSet
    <3> HIDE DEF file
    <3> QED
      BY <1>1, <1>3, <3>1, <3>2, <3>3 DEF Writing
  <2> QED
    BY <2>1, <2>2
<1> HIDE DEF file
<1>8. /\ phase' # "write claim" /\ phase' # "read claim"
  BY <1>7 DEF Writing
<1> QED
  BY <1>3, <1>5, <1>6, <1>7, <1>8 DEF ArtifactInv, file, cp

LEMMA OtherStepsArtifacts ==
  ASSUME DistinctArtifacts, ShapeInv, ReceiptInv, ReportInv, ArtifactInv,
         \/ ProveInline \/ ResolveExternal \/ Derive \/ WriteProof \/ Bundle \/ WriteChain
         \/ VerifyFinal \/ KillBetween \/ KillWithin
  PROVE  ArtifactInv'
<1>1. CASE ProveInline \/ ResolveExternal
  <2>1. phase' \in {"resolve", "failed"}
    BY <1>1 DEF ProveInline, ResolveExternal, Enter, Resolve
  <2>2. UNCHANGED <<openings, receiptFile, claimFile, plan, resolved>>
    BY <1>1 DEF ProveInline, ResolveExternal
  <2>3. phase' \notin Writing /\ phase' \notin Walking
    BY <2>1 DEF Writing, Walking
  <2> QED
    BY <2>2, <2>3, ArtifactsStay
<1>2. CASE Derive \/ WriteProof \/ Bundle
  <2>1. /\ UNCHANGED <<openings, receiptFile, claimFile, plan, resolved, report>>
        /\ phase \in Walking /\ phase' \notin Writing
    BY <1>2 DEF Derive, WriteProof, Bundle, Walking, Writing
  <2> QED
    BY <2>1, ArtifactsStay
<1>3. CASE WriteChain \/ VerifyFinal
  <2>1. /\ UNCHANGED <<openings, receiptFile, claimFile, plan, resolved>>
        /\ phase \in Walking /\ phase' \notin Writing
        /\ \/ UNCHANGED report
           \/ report' = [report EXCEPT !.chain = TRUE]
           \/ report' = [report EXCEPT !.verified = TRUE]
    BY <1>3 DEF WriteChain, VerifyFinal, AfterProofs, Walking, Writing
  <2>2. report'.topClaim = report.topClaim
    BY <2>1, ReportSet
  <2> QED
    BY <2>1, <2>2, ArtifactsStay
<1>4. CASE KillBetween
  <2>1. /\ UNCHANGED <<openings, receiptFile, claimFile, plan, resolved>>
        /\ phase' \notin Writing /\ phase' \notin Walking
    BY <1>4 DEF KillBetween, Kill, diskVars, Writing, Walking
  <2> QED
    BY <2>1, ArtifactsStay
<1>5. CASE KillWithin
  <2>1. /\ UNCHANGED <<openings, plan, stack, resolved>>
        /\ phase' = "killed" /\ phase' \notin Writing /\ phase' \notin Walking
    BY <1>5 DEF KillWithin, Kill, Writing, Walking
  <2>2. \/ /\ phase \in Writing
           /\ receiptFile' = [receiptFile EXCEPT ![Base(plan, Call.path)] = Empty]
           /\ claimFile' = claimFile
        \/ /\ phase \in Writing
           /\ claimFile' = [claimFile EXCEPT ![Base(plan, Call.path)] = Empty]
           /\ receiptFile' = receiptFile
        \/ UNCHANGED <<receiptFile, claimFile>>
    BY <1>5 DEF KillWithin, Writing
  <2>3. CASE UNCHANGED <<receiptFile, claimFile>>
    BY <2>1, <2>3, ArtifactsStay
  <2>4. CASE ~ UNCHANGED <<receiptFile, claimFile>>
    <3>1. /\ ExternalFiles'
          /\ \A path \in Done' :
               /\ Proved(plan, path)' /\ Kept(plan, path)'
               /\ resolved'[path].claim = PublicClaim(NodeReceipt(plan', path))
      BY <2>1, <2>2, <2>4, WriteTouchesOwn
    <3> QED
      BY <2>1, <3>1 DEF ArtifactInv
  <2> QED
    BY <2>3, <2>4
<1> QED
  BY <1>1, <1>2, <1>3, <1>4, <1>5

LEMMA StartArtifacts ==
  ASSUME ArtifactInv, NEW p \in Plans, StartPlan(p)
  PROVE  ArtifactInv'
<1>1. resolved' = <<>> /\ UNCHANGED <<receiptFile, claimFile>> /\ phase' \in {"resolve", "failed"}
  BY DEF StartPlan, Enter
<1>2. Done' = {} /\ phase' \notin Walking /\ phase' \notin Writing
  BY <1>1, NoPaths DEF Done, Walking, Writing
<1>3. ExternalFiles'
  BY <1>1 DEF ArtifactInv, ExternalFiles
<1> QED
  BY <1>1, <1>2, <1>3 DEF ArtifactInv

LEMMA InitArtifacts == Init => ArtifactInv /\ ReportInv
<1> SUFFICES ASSUME Init
             PROVE  ArtifactInv /\ ReportInv
  OBVIOUS
<1>1. phase = "idle" /\ resolved = <<>> /\ report = NoReport
  BY DEF Init
<1>2. Done = {} /\ phase \notin Walking /\ phase \notin Writing
  BY <1>1, NoPaths DEF Done, Walking, Writing
<1>3. ExternalFiles
  <2>1. \A f \in Files \ Bases : f \in Files
    OBVIOUS
  <2> QED
    BY <2>1 DEF Init, ExternalFiles
<1> QED
  BY <1>1, <1>2, <1>3 DEF ArtifactInv, ReportInv, NoReport, Writing

ArtifactsInv == ShapeInv /\ ReceiptInv /\ ReportInv /\ ArtifactInv

LEMMA ArtifactStep ==
  ASSUME DistinctArtifacts, ArtifactsInv, [Next]_planVars
  PROVE  ReportInv' /\ ArtifactInv'
<1>0. ReportInv'
  BY ReportKept DEF ArtifactsInv
<1>1. CASE UNCHANGED planVars
  <2>1. /\ UNCHANGED <<openings, receiptFile, claimFile, plan, stack, resolved, phase, held,
                       report>>
    BY <1>1 DEF planVars
  <2>2. Call' = Call
    BY <2>1 DEF Call
  <2> QED
    BY <1>0, <2>1, <2>2 DEF ArtifactsInv, ArtifactInv, ExternalFiles, Done, Proved, Kept
<1>2. CASE \E p \in Plans : StartPlan(p)
  BY <1>0, <1>2, StartArtifacts DEF ArtifactsInv
<1>3. CASE ProveNode
  BY <1>0, <1>3, ProveNodeArtifacts DEF ArtifactsInv
<1>4. CASE WriteReceipt
  BY <1>0, <1>4, WriteReceiptArtifacts DEF ArtifactsInv
<1>5. CASE WriteClaim
  BY <1>0, <1>5, WriteClaimArtifacts DEF ArtifactsInv
<1>6. CASE FinishNode
  BY <1>0, <1>6, FinishNodeArtifacts DEF ArtifactsInv
<1>7. CASE \/ ProveInline \/ ResolveExternal \/ Derive \/ WriteProof \/ Bundle \/ WriteChain
           \/ VerifyFinal \/ KillBetween \/ KillWithin
  BY <1>0, <1>7, OtherStepsArtifacts DEF ArtifactsInv
<1> QED
  BY <1>1, <1>2, <1>3, <1>4, <1>5, <1>6, <1>7 DEF Next, Step

LEMMA ArtifactInvariant ==
  ASSUME DistinctArtifacts
  PROVE  Spec => []ArtifactsInv
<1>1. ArtifactsInv /\ [Next]_planVars => ReportInv' /\ ArtifactInv'
  BY ArtifactStep
<1>2. ArtifactsInv <=> ShapeInv /\ ReceiptInv /\ ReportInv /\ ArtifactInv
  BY DEF ArtifactsInv
<1> QED
  BY <1>1, <1>2, InitArtifacts, ReceiptInvariant, PTL DEF Spec

(* nested_plan.go:479-482: when no two nodes of a manifest have the same   *)
(* artifact base, what a node wrote is what is found there for as long as  *)
(* the run goes on, whatever earlier runs left on the disk and wherever    *)
(* they were killed.                                                       *)
THEOREM ArtifactsAreKept ==
  ASSUME DistinctArtifacts
  PROVE  Spec => []ArtifactsKept
<1>1. ArtifactsInv => ArtifactsKept
  <2> SUFFICES ASSUME ArtifactInv, NEW path \in Done
               PROVE  LET receipt == receiptFile[Base(plan, path)]
                      IN  /\ claimFile[Base(plan, path)] = Full(resolved[path].claim)
                          /\ Readable(receipt)
                          /\ PublicClaim(receipt.data) = resolved[path].claim
    BY DEF ArtifactsInv, ArtifactsKept, Done
  <2>1. /\ receiptFile[Base(plan, path)] = Full(NodeReceipt(plan, path))
        /\ claimFile[Base(plan, path)] = Full(PublicClaim(NodeReceipt(plan, path)))
        /\ resolved[path].claim = PublicClaim(NodeReceipt(plan, path))
    BY DEF ArtifactInv, Kept
  <2> QED
    BY <2>1, FileFacts
<1> QED
  BY <1>1, ArtifactInvariant, PTL

-----------------------------------------------------------------------------
(* The walk down the disclosure path.                                      *)

LEMMA PrefixFacts ==
  ASSUME NEW p \in Plans, NEW k \in Nat
  PROVE  /\ Prefix(p, 0) = <<>>
         /\ k < Len(p.disclosurePath) =>
              Prefix(p, k + 1) = Append(Prefix(p, k), p.disclosurePath[k + 1])
<1> DEFINE d == p.disclosurePath
<1>1. d \in Seq(Nat) /\ Len(d) \in Nat
  BY PlanFacts
<1>2. Prefix(p, 0) = <<>>
  BY ST!SubSeqEmpty DEF Prefix
<1>3. ASSUME k < Len(d)
      PROVE  Prefix(p, k + 1) = Append(Prefix(p, k), d[k + 1])
  <2>1. /\ 1 \in Int /\ k \in Int /\ k + 1 \in Int
        /\ (\A i \in 1..k : d[i] \in Nat) /\ (\A i \in 1..(k + 1) : d[i] \in Nat)
        /\ d[k + 1] \in Nat
    BY <1>1, <1>3
  <2>2. PICK s \in Seq(Nat) : s = SubSeq(d, 1, k)
    BY <2>1, ST!SubSeqProperties
  <2>3. /\ Len(s) = IF 1 <= k THEN k - 1 + 1 ELSE 0
        /\ \A i \in 1..(k - 1 + 1) : s[i] = d[1 + i - 1]
    BY <2>1, <2>2, ST!SubSeqProperties
  <2>4. PICK t \in Seq(Nat) : t = SubSeq(d, 1, k + 1)
    BY <2>1, ST!SubSeqProperties
  <2>5. /\ Len(t) = IF 1 <= k + 1 THEN k + 1 - 1 + 1 ELSE 0
        /\ \A i \in 1..(k + 1 - 1 + 1) : t[i] = d[1 + i - 1]
    BY <2>1, <2>4, ST!SubSeqProperties
  <2> HIDE DEF d
  <2>6. /\ Len(s) = k /\ Len(t) = k + 1
        /\ (\A i \in 1..k : s[i] = d[i] /\ t[i] = d[i]) /\ t[k + 1] = d[k + 1]
    <3>1. k - 1 + 1 = k /\ k + 1 - 1 + 1 = k + 1 /\ 1 <= k + 1 /\ (~ (1 <= k) => k = 0)
      OBVIOUS
    <3>2. \A i \in 1..(k + 1) : 1 + i - 1 = i
      OBVIOUS
    <3>3. Len(s) = k /\ \A i \in 1..k : s[i] = d[1 + i - 1]
      BY <2>3, <3>1
    <3>4. Len(t) = k + 1 /\ \A i \in 1..(k + 1) : t[i] = d[1 + i - 1]
      BY <2>5, <3>1
    <3>5. (\A i \in 1..k : i \in 1..(k + 1)) /\ k + 1 \in 1..(k + 1)
      OBVIOUS
    <3> QED
      BY <3>2, <3>3, <3>4, <3>5
  <2>7. IsSeq(s) /\ IsSeq(t)
    BY <2>6 DEF IsSeq
  <2>8. /\ IsSeq(Append(s, d[k + 1])) /\ Len(Append(s, d[k + 1])) = k + 1
        /\ Append(s, d[k + 1])[k + 1] = d[k + 1]
        /\ \A i \in 1..k : Append(s, d[k + 1])[i] = s[i]
    BY <2>6, <2>7, AppendSeq
  <2>9. t = Append(s, d[k + 1])
    <3>1. \A i \in 1..(k + 1) : t[i] = Append(s, d[k + 1])[i]
      <4>1. \A i \in 1..(k + 1) : i \in 1..k \/ i = k + 1
        OBVIOUS
      <4> QED
        BY <4>1, <2>6, <2>8
    <3> QED
      BY <2>6, <2>7, <2>8, <3>1 DEF IsSeq
  <2> QED
    BY <2>2, <2>4, <2>9 DEF Prefix, d
<1> QED
  BY <1>2, <1>3

(* The files of a node that is resolved still load, as what is planned.    *)
LEMMA ResolvedLoads ==
  ASSUME ShapeInv, ArtifactInv, phase \in Walking, NEW path \in Done
  PROVE  LET kind   == NodeAt(plan, path).kind
             inputs == resolved[path].inputs
         IN  /\ plan \in Plans /\ path \in DOMAIN plan.nodes
             /\ Len(inputs) = Len(NodeAt(plan, path).leaves)
             /\ Loads(kind, inputs)
             /\ Records(Loaded(kind, inputs)) = PlannedRecords(plan, path)
<1> DEFINE kind   == NodeAt(plan, path).kind
           inputs == resolved[path].inputs
<1>1. /\ plan \in Plans /\ path \in DOMAIN plan.nodes
      /\ InputsOK(plan, Done, path, inputs)
      /\ Len(inputs) = Len(NodeAt(plan, path).leaves)
  BY DEF ShapeInv, NodesOK, Done, Walking
<1>2. NodeProvable(plan, path)
  BY DEF ArtifactInv, Proved
<1>3. Len(inputs) # 0
  <2>1. NodeAt(plan, path).leaves # <<>>
    <3>1. GuestAccepts(kind, PlannedContext(plan, path), PlannedRecords(plan, path),
                       {PlannedReceipt(plan, path, i) : i \in Leaves(plan, path)})
      BY <1>2 DEF NodeProvable
    <3>2. PlannedRecords(plan, path) # <<>>
      BY <3>1 DEF GuestAccepts
    <3> QED
      BY <1>1, <3>2, PlanFacts DEF PlannedRecords, RecordsOf
  <2> QED
    BY <1>1, <2>1, PlanFacts
<1>4. AllInputs(plan, Done, path, inputs) /\ FilesAsPlanned(plan, path)
  BY <1>1, <1>3, FilesPlanned DEF AllInputs
<1>5. \A i \in Leaves(plan, path) : Available(plan, path, i)
  BY <1>2 DEF NodeProvable, Available
<1> HIDE DEF inputs
<1>6. Loads(kind, inputs)
  BY <1>1, <1>2, <1>4, AcceptedIffProvable
<1>7. Records(Loaded(kind, inputs)) = PlannedRecords(plan, path)
  BY <1>1, <1>4, <1>5, LoadedAsPlanned
<1> QED
  BY <1>1, <1>6, <1>7 DEF inputs

ProofFiles == proofFile = [f \in Bases \X Depths |-> proofFile[f]]

(* Before the walk.                                                        *)
LEMMA ProvingChain ==
  ASSUME ChainInv, UNCHANGED <<proofFile, proofPaths, report>>, phase \in Proving,
         phase' \in Proving \cup {"failed"}
  PROVE  ChainInv'
BY DEF ChainInv, Proving, Writing, Walking

LEMMA EndedChain ==
  ASSUME ProofFiles', phase' \in {"failed", "killed"}
  PROVE  ChainInv'
BY DEF ChainInv, ProofFiles, Proving, Writing, Walking

LEMMA FinishNodeChain ==
  ASSUME ShapeInv, ArtifactInv, ReportInv, ChainInv, FinishNode
  PROVE  ChainInv'
<1>1. /\ phase \in Proving /\ UNCHANGED <<proofFile, proofPaths, plan>>
      /\ proofPaths = <<>> /\ report.chain = FALSE /\ plan \in Plans
      /\ ProofFiles
  <2>1. phase \in Proving
    BY DEF FinishNode, Proving, Writing
  <2> QED
    BY <2>1, CallFacts DEF FinishNode, ChainInv, ProofFiles
<1>2. Readable(claimFile[Base(plan, Call.path)])
  BY FinishNodeArtifacts
<1>3. CASE Len(stack) > 1
  <2>1. phase' \in {"resolve", "failed"} /\ UNCHANGED report
    BY <1>2, <1>3 DEF FinishNode, Resolve
  <2> QED
    BY <1>1, <2>1, ProvingChain DEF Proving
<1>4. CASE ~ (Len(stack) > 1)
  <2>1. /\ report' = [report EXCEPT !.topClaim = claimFile[Base(plan, Call.path)].data]
        /\ phase' = IF plan.disclosurePath # <<>> THEN "derive" ELSE AfterProofs
    BY <1>2, <1>4 DEF FinishNode
  <2>2. report'.chain = FALSE
    BY <1>1, <2>1, ReportSet
  <2>3. Call.path = <<>> /\ <<>> \in Done'
    BY <1>2, <1>4, RootReturns, ReturnShape
  <2>4. (LevelsOK /\ Depth = 0 /\ Current = <<>>)'
    <3>1. proofPaths' = <<>> /\ plan' \in Plans
      BY <1>1
    <3>2. Depth' = 0 /\ IsSeq(proofPaths)' /\ 0..(Depth' - 1) = {}
      BY <3>1 DEF Depth, IsSeq
    <3>3. Current' = <<>>
      BY <3>1, <3>2, PrefixFacts DEF Current, Prefix
    <3>4. 0 <= Len(plan'.disclosurePath)
      BY <3>1, PlanFacts
    <3> QED
      BY <3>2, <3>3, <3>4 DEF LevelsOK
  <2>5. ProofFiles'
    BY <1>1 DEF ProofFiles
  <2>6. CASE plan.disclosurePath # <<>>
    <3>1. 0 < Len(plan.disclosurePath)
      BY <1>1, <2>6, PlanFacts
    <3> QED
      BY <1>1, <2>1, <2>2, <2>3, <2>4, <2>5, <2>6, <3>1
         DEF ChainInv, ProofFiles, Proving, Writing, Walking
  <2>7. CASE plan.disclosurePath = <<>>
    <3>1. Len(plan.disclosurePath) = 0 /\ phase' \in {"verify", "done"}
      BY <2>1, <2>7 DEF AfterProofs
    <3> QED
      BY <1>1, <2>2, <2>4, <2>5, <2>7, <3>1
         DEF ChainInv, ProofFiles, Proving, Writing, Walking
  <2> QED
    BY <2>6, <2>7
<1> QED
  BY <1>3, <1>4

LEMMA DeriveFacts ==
  ASSUME ShapeInv, ArtifactInv, ChainInv, Derive
  PROVE  /\ ChainInv'
         /\ phase' = "failed" => ~ (LeafIndex < Len(NodeAt(plan, Current).leaves))
<1>1. /\ phase = "derive" /\ phase \in Walking
      /\ UNCHANGED <<proofFile, plan, resolved, proofPaths, report>>
  BY DEF Derive, Walking
<1>2. /\ ProofFiles /\ report.chain = FALSE /\ LevelsOK
      /\ Depth < Len(plan.disclosurePath) /\ Current \in Done
  BY <1>1 DEF ChainInv, ProofFiles, Proving, Writing
<1> DEFINE kind   == NodeAt(plan, Current).kind
           inputs == resolved[Current].inputs
<1>3. /\ Len(inputs) = Len(NodeAt(plan, Current).leaves)
      /\ Loads(kind, inputs)
      /\ Records(Loaded(kind, inputs)) = PlannedRecords(plan, Current)
  BY <1>1, <1>2, ResolvedLoads
<1>4. Current = Prefix(plan, Depth)
  BY DEF Current, Prefix
<1>5. Disclosed(kind, inputs) = PlannedInclusion(plan, Depth)
  BY <1>3, <1>4 DEF Disclosed, PlannedInclusion, LeafIndex
<1>6. /\ LeafIndex' = LeafIndex /\ Current' = Current /\ Depth' = Depth
      /\ PlannedInclusion(plan, Depth)' = PlannedInclusion(plan, Depth)
      /\ Done' = Done /\ LevelsOK' /\ ProofFiles'
  BY <1>1, <1>2 DEF LeafIndex, Current, Depth, Done, LevelsOK, ProofFiles
<1>7. CASE LeafIndex < Len(inputs)
  <2>1. held' = PlannedInclusion(plan, Depth) /\ phase' = "write proof"
    <3>1. held' = Disclosed(kind, inputs) /\ phase' = "write proof"
      BY <1>3, <1>7 DEF Derive
    <3> QED
      BY <1>5, <3>1
  <2> QED
    BY <1>1, <1>2, <1>3, <1>6, <1>7, <2>1 DEF ChainInv, ProofFiles, Proving, Writing, Walking
<1>8. CASE ~ (LeafIndex < Len(inputs))
  <2>1. phase' = "failed"
    BY <1>8 DEF Derive
  <2> QED
    BY <1>3, <1>6, <1>8, <2>1, EndedChain
<1> QED
  BY <1>7, <1>8

LEMMA WriteProofFacts ==
  ASSUME ShapeInv, ArtifactInv, ChainInv, WriteProof
  PROVE  /\ ChainInv'
         /\ phase' = "failed" => /\ Depth + 1 \in Nat /\ Depth + 1 < Len(plan.disclosurePath)
                                 /\ Prefix(plan, Depth + 1) \notin Done
<1> DEFINE d     == plan.disclosurePath
           n     == Depth
           proof == ProofPath
<1>1. /\ phase = "write proof" /\ phase \in Walking
      /\ UNCHANGED <<plan, resolved, report>>
      /\ proofFile' = [proofFile EXCEPT ![proof] = Full(held)]
      /\ proofPaths' = Append(proofPaths, proof)
      /\ phase' = IF Len(proofPaths') = Len(d) THEN "bundle"
                  ELSE IF Append(Current, LeafIndex) \in Done THEN "derive" ELSE "failed"
  BY DEF WriteProof, Walking, NextProofPaths, Done
<1>2. /\ ProofFiles /\ report.chain = FALSE /\ LevelsOK
      /\ n < Len(d) /\ Current \in Done
      /\ LeafIndex < Len(NodeAt(plan, Current).leaves)
      /\ held = PlannedInclusion(plan, n)
  BY <1>1 DEF ChainInv, ProofFiles, Proving, Writing
<1>3. plan \in Plans /\ Len(d) \in Nat /\ n \in Nat /\ IsSeq(proofPaths)
  <2>1. plan \in Plans
    BY <1>1 DEF ShapeInv, Walking
  <2> QED
    BY <1>2, <2>1, PlanFacts DEF LevelsOK, IsSeq, Depth
<1>4. Current = Prefix(plan, n) /\ proof = <<Base(plan, Prefix(plan, n)), n>>
  BY DEF Current, Prefix, ProofPath
<1>5. ASSUME NEW path \in Done, NEW k \in 0..n
      PROVE  <<Base(plan, path), k>> \in Bases \X Depths
  <2>1. path \in DOMAIN plan.nodes
    BY <1>1 DEF ShapeInv, NodesOK, Done, Walking
  <2>2. Base(plan, path) \in Bases
    BY <1>3, <2>1, FilesOfPlan
  <2>3. k \in 0..Len(d)
    BY <1>2, <1>3
  <2>4. k \in Depths
    BY <1>3, <2>3 DEF Depths
  <2> QED
    BY <2>2, <2>4
<1>6. proof \in Bases \X Depths
  <2>1. n \in 0..n
    BY <1>3
  <2> QED
    BY <1>2, <1>4, <1>5, <2>1
<1>7. /\ IsSeq(proofPaths') /\ Len(proofPaths') = n + 1
      /\ proofPaths'[n + 1] = proof
      /\ \A k \in 1..n : proofPaths'[k] = proofPaths[k]
  BY <1>1, <1>3, AppendSeq DEF Depth
<1> HIDE DEF n, proof
<1>8. /\ ProofFiles' /\ proofFile'[proof] = Full(held)
      /\ \A f \in Bases \X Depths : f # proof => proofFile'[f] = proofFile[f]
  <2>1. proofFile = [f \in Bases \X Depths |-> proofFile[f]]
    BY <1>2 DEF ProofFiles
  <2> QED
    BY <1>1, <1>6, <2>1 DEF ProofFiles
<1>9. ASSUME NEW k \in 0..n
      PROVE  /\ Prefix(plan, k) \in Done
             /\ d[k + 1] < Len(NodeAt(plan, Prefix(plan, k)).leaves)
             /\ proofPaths'[k + 1] = <<Base(plan, Prefix(plan, k)), k>>
             /\ proofFile'[proofPaths'[k + 1]] = Full(PlannedInclusion(plan, k))
  <2>1. CASE k = n
    BY <1>2, <1>4, <1>7, <1>8, <2>1 DEF LeafIndex, n
  <2>2. CASE k # n
    <3>1. k \in 0..(n - 1) /\ k + 1 \in 1..n
      BY <1>3, <2>2
    <3>2. /\ Prefix(plan, k) \in Done
          /\ d[k + 1] < Len(NodeAt(plan, Prefix(plan, k)).leaves)
          /\ proofPaths[k + 1] = <<Base(plan, Prefix(plan, k)), k>>
          /\ proofFile[proofPaths[k + 1]] = Full(PlannedInclusion(plan, k))
      BY <1>2, <3>1 DEF LevelsOK, n
    <3>3. proofPaths'[k + 1] = proofPaths[k + 1] /\ proofPaths[k + 1] \in Bases \X Depths
      BY <1>5, <1>7, <3>1, <3>2
    <3>4. proofPaths[k + 1] # proof
      BY <1>4, <2>2, <3>2
    <3> QED
      BY <1>8, <3>2, <3>3, <3>4
  <2> QED
    BY <2>1, <2>2
<1>10. Depth' = n + 1 /\ Depth' <= Len(d) /\ Depth' - 1 = n
  BY <1>2, <1>3, <1>7 DEF Depth
<1>11. LevelsOK'
  <2>1. Done' = Done
    BY <1>1 DEF Done
  <2>2. \A k \in 0..(Depth' - 1) :
          /\ Prefix(plan', k) \in Done'
          /\ plan'.disclosurePath[k + 1] < Len(NodeAt(plan', Prefix(plan', k)).leaves)
          /\ proofPaths'[k + 1] = <<Base(plan', Prefix(plan', k)), k>>
          /\ proofFile'[proofPaths'[k + 1]] = Full(PlannedInclusion(plan', k))
    BY <1>1, <1>9, <1>10, <2>1
  <2>3. IsSeq(proofPaths)' /\ Depth' <= Len(plan'.disclosurePath)
    BY <1>1, <1>7, <1>10 DEF IsSeq
  <2> QED
    BY <2>2, <2>3 DEF LevelsOK
<1>12. Prefix(plan, n + 1) = Append(Current, LeafIndex)
  BY <1>2, <1>3, <1>4, PrefixFacts DEF LeafIndex, n
<1>13. CASE phase' = "bundle"
  <2>1. Depth' = Len(plan'.disclosurePath) /\ plan'.disclosurePath # <<>>
    <3>1. Len(d) = n + 1
      BY <1>1, <1>7, <1>13
    <3>2. d # <<>>
      BY <1>3, <3>1
    <3> QED
      BY <1>1, <1>7, <3>1, <3>2 DEF Depth
  <2> QED
    BY <1>1, <1>2, <1>8, <1>11, <1>13, <2>1 DEF ChainInv, ProofFiles, Proving, Writing, Walking
<1>14. CASE phase' = "derive"
  <2>1. Append(Current, LeafIndex) \in Done /\ Depth' # Len(d)
    BY <1>1, <1>14 DEF Depth
  <2>2. Current' = Prefix(plan, n + 1)
    BY <1>1, <1>10 DEF Current, Prefix
  <2>3. Depth' < Len(plan'.disclosurePath) /\ Current' \in Done'
    <3>1. Current' \in Done'
      BY <1>1, <1>12, <2>1, <2>2 DEF Done
    <3>2. PICK l \in Nat : l = Len(d)
      BY <1>3
    <3>3. n + 1 < l
      BY <1>3, <1>10, <2>1, <3>2
    <3> QED
      BY <1>1, <1>10, <3>1, <3>2, <3>3
  <2> QED
    BY <1>1, <1>2, <1>8, <1>11, <1>14, <2>3 DEF ChainInv, ProofFiles, Proving, Writing, Walking
<1>15. CASE phase' = "failed"
  <2>1. Append(Current, LeafIndex) \notin Done /\ Depth' # Len(d)
    BY <1>1, <1>15 DEF Depth
  <2>2. n + 1 < Len(d) /\ n + 1 \in Nat
    BY <1>3, <1>10, <2>1
  <2>3. ChainInv'
    BY <1>8, <1>15, EndedChain
  <2> QED
    BY <1>12, <2>1, <2>2, <2>3 DEF n
<1> QED
  BY <1>1, <1>13, <1>14, <1>15

LEMMA BundleFacts ==
  ASSUME ShapeInv, ChainInv, Bundle
  PROVE  ChainInv' /\ phase' = "write chain"
<1>1. /\ phase = "bundle" /\ phase \in Walking
      /\ UNCHANGED <<proofFile, plan, resolved, proofPaths, report>>
  BY DEF Bundle, Walking
<1>2. /\ ProofFiles /\ report.chain = FALSE /\ LevelsOK /\ plan \in Plans
      /\ Depth = Len(plan.disclosurePath) /\ Depth \in Nat
      /\ plan.disclosurePath # <<>>
  <2>1. plan \in Plans
    BY <1>1 DEF ShapeInv, Walking
  <2> QED
    BY <1>1, <2>1, PlanFacts DEF ChainInv, ProofFiles, Walking
<1>3. ASSUME NEW k \in 1..Depth
      PROVE  proofFile[proofPaths[k]] = Full(PlannedInclusion(plan, k - 1))
  <2>1. k - 1 \in 0..(Depth - 1) /\ (k - 1) + 1 = k
    BY <1>2
  <2> QED
    BY <1>2, <2>1 DEF LevelsOK
<1>4. /\ \A k \in 1..Depth : Readable(proofFile[proofPaths[k]])
      /\ [k \in 1..Depth |-> proofFile[proofPaths[k]].data] = PlannedChain(plan)
  <2>1. \A k \in 1..Depth : /\ Readable(proofFile[proofPaths[k]])
                            /\ proofFile[proofPaths[k]].data = PlannedInclusion(plan, k - 1)
    BY <1>3, FileFacts
  <2> QED
    BY <1>2, <2>1 DEF PlannedChain
<1>5. phase' = "write chain" /\ held' = [proofs |-> PlannedChain(plan)]
  BY <1>4 DEF Bundle
<1>6. LevelsOK' /\ ProofFiles' /\ Depth' = Depth
  BY <1>1, <1>2 DEF LevelsOK, ProofFiles, Depth, Done
<1> QED
  BY <1>1, <1>2, <1>5, <1>6 DEF ChainInv, ProofFiles, Proving, Writing, Walking

LEMMA WriteChainFacts ==
  ASSUME ShapeInv, ReportInv, ChainInv, WriteChain
  PROVE  ChainInv' /\ phase' \in {"verify", "done"}
<1>1. /\ phase = "write chain" /\ phase \in Walking /\ phase' \in {"verify", "done"}
      /\ UNCHANGED <<proofFile, plan, resolved, proofPaths>>
      /\ report' = [report EXCEPT !.chain = TRUE]
      /\ chainFile' = Full(held.proofs)
  BY DEF WriteChain, AfterProofs, Walking
<1>2. /\ ProofFiles /\ LevelsOK /\ Depth = Len(plan.disclosurePath)
      /\ held = [proofs |-> PlannedChain(plan)]
  BY <1>1 DEF ChainInv, ProofFiles, Walking
<1>3. report'.chain = TRUE
  BY <1>1, ReportSet
<1>4. LevelsOK' /\ ProofFiles' /\ Depth' = Depth
  BY <1>1, <1>2 DEF LevelsOK, ProofFiles, Depth, Done
<1>5. chainFile' = Full(PlannedChain(plan))
  BY <1>1, <1>2
<1>6. plan.disclosurePath # <<>>
  BY <1>1 DEF ChainInv
<1> QED
  BY <1>1, <1>2, <1>3, <1>4, <1>5, <1>6 DEF ChainInv, ProofFiles, Proving, Writing, Walking

LEMMA VerifyFinalChain ==
  ASSUME ShapeInv, ReportInv, ChainInv, VerifyFinal
  PROVE  ChainInv'
<1>1. /\ phase = "verify" /\ phase \in Walking /\ phase' \in {"done", "failed"}
      /\ UNCHANGED <<proofFile, chainFile, plan, resolved, proofPaths>>
      /\ UNCHANGED report \/ report' = [report EXCEPT !.verified = TRUE]
  BY DEF VerifyFinal, Walking
<1>2. report'.chain = report.chain
  BY <1>1, ReportSet
<1>3. LevelsOK' /\ ProofFiles' /\ Depth' = Depth
  BY <1>1 DEF ChainInv, LevelsOK, ProofFiles, Depth, Done
<1> QED
  BY <1>1, <1>2, <1>3 DEF ChainInv, ProofFiles, Proving, Writing, Walking

LEMMA KillChain ==
  ASSUME ChainInv, KillBetween \/ KillWithin
  PROVE  ChainInv'
<1>1. phase' = "killed"
  BY DEF KillBetween, KillWithin, Kill
<1>2. proofFile = [f \in Bases \X Depths |-> proofFile[f]]
  BY DEF ChainInv
<1>3. ProofFiles'
  <2>1. UNCHANGED proofFile \/ proofFile' = [proofFile EXCEPT ![ProofPath] = Empty]
    BY DEF KillBetween, KillWithin, diskVars
  <2> QED
    BY <1>2, <2>1 DEF ProofFiles
<1> QED
  BY <1>1, <1>3, EndedChain

LEMMA StartChain ==
  ASSUME ChainInv, NEW p \in Plans, StartPlan(p)
  PROVE  ChainInv'
<1>1. /\ phase' \in {"resolve", "failed"} /\ proofPaths' = <<>> /\ report' = NoReport
      /\ UNCHANGED proofFile
  BY DEF StartPlan, Enter
<1>2. report'.chain = FALSE
  BY <1>1 DEF NoReport
<1>3. phase' \notin Walking
  BY <1>1 DEF Walking
<1> QED
  BY <1>1, <1>2, <1>3 DEF ChainInv, Walking

LEMMA PlanWalkStep ==
  ASSUME ArtifactsInv, ChainInv, [Next]_planVars
  PROVE  ChainInv'
<1>1. CASE UNCHANGED planVars
  <2>1. UNCHANGED <<proofFile, chainFile, plan, resolved, proofPaths, phase, held, report>>
    BY <1>1 DEF planVars
  <2>2. UNCHANGED <<Depth, Current, LeafIndex, Done>>
    BY <2>1 DEF Depth, Current, LeafIndex, Done
  <2>3. LevelsOK' <=> LevelsOK
    BY <2>1, <2>2 DEF LevelsOK, IsSeq
  <2> QED
    BY <2>1, <2>2, <2>3 DEF ChainInv
<1>2. CASE \E p \in Plans : StartPlan(p)
  BY <1>2, StartChain
<1>3. CASE ProveInline \/ ResolveExternal \/ ProveNode \/ WriteReceipt \/ WriteClaim
  <2>1. /\ phase \in Proving /\ phase' \in Proving \cup {"failed"}
        /\ UNCHANGED <<proofFile, proofPaths, report>>
    BY <1>3 DEF ProveInline, ResolveExternal, ProveNode, WriteReceipt, WriteClaim, HasLeaf,
       Enter, Resolve, Proving, Writing
  <2> QED
    BY <2>1, ProvingChain
<1>4. CASE FinishNode
  BY <1>4, FinishNodeChain DEF ArtifactsInv
<1>5. CASE Derive
  BY <1>5, DeriveFacts DEF ArtifactsInv
<1>6. CASE WriteProof
  BY <1>6, WriteProofFacts DEF ArtifactsInv
<1>7. CASE Bundle
  BY <1>7, BundleFacts DEF ArtifactsInv
<1>8. CASE WriteChain
  BY <1>8, WriteChainFacts DEF ArtifactsInv
<1>9. CASE VerifyFinal
  BY <1>9, VerifyFinalChain DEF ArtifactsInv
<1>10. CASE KillBetween \/ KillWithin
  BY <1>10, KillChain
<1> QED
  BY <1>1, <1>2, <1>3, <1>4, <1>5, <1>6, <1>7, <1>8, <1>9, <1>10 DEF Next, Step

LEMMA InitChain == Init => ChainInv
<1> SUFFICES ASSUME Init
             PROVE  ChainInv
  OBVIOUS
<1>1. phase = "idle" /\ proofFile = [f \in Bases \X Depths |-> Absent]
  BY DEF Init
<1>2. proofFile = [f \in Bases \X Depths |-> proofFile[f]]
  BY <1>1
<1> QED
  BY <1>1, <1>2 DEF ChainInv, Proving, Writing, Walking

WalkInv == ArtifactsInv /\ ChainInv

LEMMA WalkInvariant ==
  ASSUME DistinctArtifacts
  PROVE  Spec => []WalkInv
<1>1. ArtifactsInv /\ ChainInv /\ [Next]_planVars => ChainInv'
  BY PlanWalkStep
<1>2. WalkInv <=> ArtifactsInv /\ ChainInv
  BY DEF WalkInv
<1> QED
  BY <1>1, <1>2, InitChain, ArtifactInvariant, PTL DEF Spec

-----------------------------------------------------------------------------
(* What a run that has come to its end leaves.                             *)

(* The reported receipt verifies on its own.                               *)
LEMMA TopVerifies ==
  ASSUME ShapeInv, ArtifactInv, phase \in Walking
  PROVE  /\ plan \in Plans /\ <<>> \in DOMAIN plan.nodes
         /\ receiptFile[Base(plan, <<>>)] = Full(NodeReceipt(plan, <<>>))
         /\ report.topClaim = PublicClaim(NodeReceipt(plan, <<>>))
         /\ claimFile[Base(plan, <<>>)] = Full(report.topClaim)
         /\ VerifyBatch(Base(plan, <<>>), FALSE)
         /\ Decode(NodeReceipt(plan, <<>>).journal) = PlannedClaim(plan, <<>>)
<1> DEFINE base == Base(plan, <<>>)
<1>1. <<>> \in Done /\ plan \in Plans
  BY DEF ShapeInv, Walking
<1>2. <<>> \in DOMAIN plan.nodes
  BY <1>1, PlanFacts
<1>3. /\ receiptFile[base] = Full(NodeReceipt(plan, <<>>))
      /\ claimFile[base] = Full(PublicClaim(NodeReceipt(plan, <<>>)))
      /\ report.topClaim = PublicClaim(NodeReceipt(plan, <<>>))
  BY <1>1 DEF ArtifactInv, Kept
<1>4. Readable(receiptFile[base]) /\ receiptFile[base].data = NodeReceipt(plan, <<>>)
  BY <1>3, FileFacts
<1>5. /\ NodeReceipt(plan, <<>>).image = BatchImage
      /\ NodeReceipt(plan, <<>>).journal = Encode(PlannedClaim(plan, <<>>))
  BY DEF NodeReceipt
<1>6. /\ Decodes(NodeReceipt(plan, <<>>).journal)
      /\ Decode(NodeReceipt(plan, <<>>).journal) = PlannedClaim(plan, <<>>)
  BY <1>5, EncodeDecodes
<1>7. ValidateVersion(PlannedClaim(plan, <<>>))
  BY <1>1, <1>2, PlannedClaimsUnfold, GuestClaimFields
<1> HIDE DEF base
<1>8. VerifyBatch(base, FALSE)
  BY <1>3, <1>4, <1>5, <1>6, <1>7 DEF VerifyBatch
<1> QED
  BY <1>1, <1>2, <1>3, <1>6, <1>8 DEF base

(* nested_plan.go:220-252: the batch that a finished run reports and       *)
(* leaves on the disk is the one that its manifest describes, for every    *)
(* manifest of distinct artifacts.                                         *)
THEOREM TopIsAsPlanned ==
  ASSUME DistinctArtifacts
  PROVE  Spec => []TopAsPlanned
<1>1. WalkInv => TopAsPlanned
  <2> SUFFICES ASSUME WalkInv, phase = "done"
               PROVE  /\ report.topClaim = [image   |-> BatchImage,
                                            journal |-> Encode(PlannedClaim(plan, <<>>))]
                      /\ VerifyBatch(Base(plan, <<>>), FALSE)
                      /\ claimFile[Base(plan, <<>>)] = Full(report.topClaim)
    BY DEF TopAsPlanned
  <2>1. ShapeInv /\ ArtifactInv /\ phase \in Walking
    BY DEF WalkInv, ArtifactsInv, Walking
  <2>2. PublicClaim(NodeReceipt(plan, <<>>))
          = [image |-> BatchImage, journal |-> Encode(PlannedClaim(plan, <<>>))]
    BY DEF PublicClaim, NodeReceipt
  <2> QED
    BY <2>1, <2>2, TopVerifies
<1> QED
  BY <1>1, WalkInvariant, PTL

-----------------------------------------------------------------------------
(* The chain of a disclosure path.                                         *)

(* An inline child is disclosed as a batch: its claim.                     *)
LEMMA ChildRecord ==
  ASSUME NEW p \in Plans, NEW path \in DOMAIN p.nodes, NodeProvable(p, path),
         NEW i \in Nat, Inline(p, path, i)
  PROVE  LET kind   == NodeAt(p, path).kind
             record == PlannedRecords(p, path)[i + 1]
         IN  /\ DisclosesBatch(kind, record)
             /\ RecordJournal(kind, record) = Encode(PlannedClaim(p, Append(path, i)))
<1> DEFINE kind    == NodeAt(p, path).kind
           context == PlannedContext(p, path)
           record  == PlannedRecords(p, path)[i + 1]
           journal == Encode(PlannedClaim(p, Append(path, i)))
<1>1. /\ i \in Leaves(p, path) /\ i + 1 \in 1..Len(NodeAt(p, path).leaves)
      /\ (i + 1) - 1 = i
  BY ChildIsLeaf, PlanFacts DEF Leaves
<1>2. PlannedReceipt(p, path, i) = [image |-> BatchImage, journal |-> journal,
                                    kind |-> ReceiptKind(p)]
  BY DEF PlannedReceipt, ChildReceipt, PlannedClaim
<1>3. /\ Resolved({PlannedReceipt(p, path, i)}, RecordImage(kind, context, record),
                  RecordJournal(kind, record))
      /\ kind \in SupportedLeafKinds
      /\ RecordSize(record) = LeafClaimSize(kind)
      /\ kind = LeafKindHeterogeneousEnvelopeV1 => EnvelopeDecodes(record)
  <2>1. Len(PlannedRecords(p, path)) = Len(NodeAt(p, path).leaves)
    BY PlanFacts DEF PlannedRecords, RecordsOf
  <2> QED
    BY <1>1, <2>1 DEF NodeProvable, GuestAccepts, DirectLeafAccepted
<1>4. record = DirectRecord(kind, DirectKind(p, path, i),
                            PublicClaim(PlannedReceipt(p, path, i)))
  BY <1>1 DEF PlannedRecords, RecordsOf, PlannedReceipt
<1> HIDE DEF record, journal, kind, context
<1>5. RecordJournal(kind, record) = journal
  <2>1. PICK image, other : image = RecordImage(kind, context, record)
                            /\ other = RecordJournal(kind, record)
    OBVIOUS
  <2>2. [image |-> image, journal |-> other, kind |-> "succinct"]
          = [image |-> BatchImage, journal |-> journal, kind |-> ReceiptKind(p)]
    BY <1>2, <1>3, <2>1 DEF Resolved
  <2>3. other = journal
    BY <2>2
  <2> QED
    BY <2>1, <2>3
<1>6. RecordSize(journal) = 84
  BY EncodeDecodes, KindsDiffer, LeafClaimSizes DEF Decodes, journal
<1>7. CASE kind = LeafKindHeterogeneousEnvelopeV1
  <2>1. PICK image, d, j : record = Envelope(d, image, j)
    BY <1>4, <1>7 DEF DirectRecord
  <2>2. record.journalLen = RecordSize(j) /\ record.journal = j /\ record.directLeafKind = d
    BY <2>1 DEF Envelope
  <2>3. j = journal
    BY <1>5, <1>7, <2>2 DEF RecordJournal
  <2>4. LeafClaimSize(d) = 84 /\ d \in {1, 2, 3}
    BY <1>3, <1>6, <1>7, <2>2, <2>3, KindsDiffer
       DEF EnvelopeDecodes, IsAllowedHeterogeneousDirectLeafKindV1
  <2>5. d = LeafKindBatchClaimV1
    BY <2>4, KindsDiffer, LeafClaimSizes
  <2> QED
    BY <1>5, <1>7, <2>2, <2>5 DEF DisclosesBatch, kind, record, journal
<1>8. CASE kind # LeafKindHeterogeneousEnvelopeV1
  <2>1. record = journal
    BY <1>5, <1>8 DEF RecordJournal
  <2>2. LeafClaimSize(kind) = 84 /\ kind \in {1, 2, 3}
    BY <1>3, <1>6, <1>8, <2>1, KindsDiffer
  <2>3. kind = LeafKindBatchClaimV1
    BY <2>2, KindsDiffer, LeafClaimSizes
  <2> QED
    BY <1>5, <2>3 DEF DisclosesBatch, kind, record, journal
<1> QED
  BY <1>7, <1>8

(* One level of the chain.                                                 *)
LEMMA LevelFacts ==
  ASSUME WalkInv, phase \in Walking, NEW k \in 0..(Depth - 1)
  PROVE  LET path  == Prefix(plan, k)
             i     == plan.disclosurePath[k + 1]
             claim == PlannedClaim(plan, path)
             proof == PlannedInclusion(plan, k)
         IN  /\ path \in DOMAIN plan.nodes /\ path \in Done
             /\ verifyBatchInclusionProof(claim, proof)
             /\ proof.leafJournal = PlannedRecords(plan, path)[i + 1]
             /\ k + 1 < Depth =>
                  /\ HasNextNestedBatchClaim(claim, proof)
                  /\ NextNestedBatchClaim(claim, proof)
                       = PlannedClaim(plan, Prefix(plan, k + 1))
<1> DEFINE path  == Prefix(plan, k)
           i     == plan.disclosurePath[k + 1]
           claim == PlannedClaim(plan, path)
           proof == PlannedInclusion(plan, k)
           kind  == NodeAt(plan, path).kind
           o     == PlannedOpening(plan, path)
<1>1. /\ ShapeInv /\ ReceiptInv /\ ArtifactInv /\ LevelsOK
      /\ plan \in Plans /\ Depth \in Nat /\ Depth <= Len(plan.disclosurePath)
  BY DEF WalkInv, ArtifactsInv, ChainInv, ShapeInv, Walking, LevelsOK, IsSeq, Depth
<1>2. path \in Done /\ i < Len(NodeAt(plan, path).leaves)
  BY <1>1 DEF LevelsOK
<1>3. path \in DOMAIN plan.nodes /\ NodeProvable(plan, path) /\ o \in openings
  BY <1>1, <1>2 DEF ShapeInv, NodesOK, Done, ArtifactInv, Proved, Walking
<1>4. i \in Nat /\ k \in Nat /\ k < Len(plan.disclosurePath) /\ k + 1 < Len(plan.disclosurePath) + 1
  <2>1. plan.disclosurePath \in Seq(Nat)
    BY <1>1, PlanFacts
  <2> QED
    BY <1>1, <2>1
<1>5. /\ claim.leafClaimKind = kind
      /\ o.claim = claim /\ o.records = PlannedRecords(plan, path)
      /\ Len(o.records) = Len(NodeAt(plan, path).leaves)
      /\ Len(NodeAt(plan, path).leaves) \in Nat
  <2>1. claim.leafClaimKind = kind
    BY <1>1, <1>3, PlannedClaimsUnfold, GuestClaimFields
  <2>2. o.claim = claim /\ o.records = PlannedRecords(plan, path)
    BY DEF PlannedOpening
  <2>3. Len(NodeAt(plan, path).leaves) \in Nat
    BY <1>1, <1>3, PlanFacts
  <2>4. Len(PlannedRecords(plan, path)) = Len(NodeAt(plan, path).leaves)
    BY <2>3 DEF PlannedRecords, RecordsOf
  <2> QED
    BY <2>1, <2>2, <2>3, <2>4
<1>6. proof = DeriveInclusion(kind, o.records, i)
  BY <1>5 DEF PlannedInclusion
<1>7. proof.leafJournal = PlannedRecords(plan, path)[i + 1]
  BY <1>5, <1>6 DEF DeriveInclusion, BuildProof
<1> HIDE DEF path, i, claim, proof, kind, o
<1>8. verifyBatchInclusionProof(claim, proof)
  <2>1. i \in 0..(Len(o.records) - 1)
    BY <1>2, <1>4, <1>5
  <2>2. Sound(ledger, openings, LeafImages, ForeignImages, BatchImage)
    BY <1>1 DEF ReceiptInv
  <2>3. verifyBatchInclusionProof(o.claim,
          DeriveInclusion(o.claim.leafClaimKind, o.records, i))
    BY <1>3, <2>1, <2>2, DerivedVerifies
  <2> QED
    BY <1>5, <1>6, <2>3
<1>9. ASSUME k + 1 < Depth
      PROVE  /\ HasNextNestedBatchClaim(claim, proof)
             /\ NextNestedBatchClaim(claim, proof) = PlannedClaim(plan, Prefix(plan, k + 1))
  <2>1. k + 1 \in 0..(Depth - 1)
    BY <1>1, <1>4, <1>9
  <2>2. Prefix(plan, k + 1) \in Done
    BY <1>1, <2>1 DEF LevelsOK
  <2>3. Prefix(plan, k + 1) \in DOMAIN plan.nodes
    BY <1>1, <2>2 DEF ShapeInv, NodesOK, Done, Walking
  <2>4. Prefix(plan, k + 1) = Append(path, i)
    BY <1>1, <1>4, PrefixFacts DEF path, i
  <2>5. Inline(plan, path, i)
    BY <2>3, <2>4 DEF Inline
  <2>6. /\ DisclosesBatch(kind, PlannedRecords(plan, path)[i + 1])
        /\ RecordJournal(kind, PlannedRecords(plan, path)[i + 1])
             = Encode(PlannedClaim(plan, Append(path, i)))
    BY <1>1, <1>3, <1>4, <2>5, ChildRecord DEF kind
  <2> QED
    BY <1>5, <1>7, <2>4, <2>6, EncodeDecodes
       DEF HasNextNestedBatchClaim, NextNestedBatchClaim
<1> QED
  BY <1>2, <1>3, <1>7, <1>8, <1>9 DEF path, i, claim, proof

LEMMA ChainAsPlanned ==
  ASSUME WalkInv, phase \in Walking, Depth = Len(plan.disclosurePath),
         plan.disclosurePath # <<>>
  PROVE  LET root  == PlannedClaim(plan, <<>>)
             chain == PlannedChain(plan)
         IN  /\ Len(chain) = Depth
             /\ \A k \in 1..Depth :
                  /\ ChainClaims(root, chain)[k] = PlannedClaim(plan, Prefix(plan, k - 1))
                  /\ chain[k].leafJournal
                       = PlannedRecords(plan, Prefix(plan, k - 1))[plan.disclosurePath[k] + 1]
             /\ VerifyBatchInclusionChain(root, chain)
<1> DEFINE n        == Depth
           root     == PlannedClaim(plan, <<>>)
           chain    == PlannedChain(plan)
           at(k)    == PlannedClaim(plan, Prefix(plan, k))
           after(k) == ClaimAfter(root, chain)[k]
           S        == {k \in Nat : k < n => after(k) = at(k)}
<1>1. plan \in Plans /\ n \in Nat \ {0}
  <2>1. plan \in Plans
    BY DEF WalkInv, ArtifactsInv, ShapeInv, Walking
  <2> QED
    BY <2>1, PlanFacts
<1>2. Len(chain) = n /\ \A k \in Nat : k < n => chain[k + 1] = PlannedInclusion(plan, k)
  <2>1. chain = [k \in 1..n |-> PlannedInclusion(plan, k - 1)]
    BY DEF PlannedChain
  <2> HIDE DEF chain, n
  <2>2. \A k \in Nat : k < n => k + 1 \in 1..n /\ (k + 1) - 1 = k
    BY <1>1
  <2> QED
    BY <1>1, <2>1, <2>2
<1> HIDE DEF chain
<1>3. after(0) = root /\ \A k \in Nat : after(k + 1) = NextNestedBatchClaim(after(k), chain[k + 1])
  BY ChainUnfolds
<1>4. ASSUME NEW k \in Nat, k < n
      PROVE  /\ verifyBatchInclusionProof(at(k), chain[k + 1])
             /\ chain[k + 1].leafJournal
                  = PlannedRecords(plan, Prefix(plan, k))[plan.disclosurePath[k + 1] + 1]
             /\ k + 1 < n => /\ HasNextNestedBatchClaim(at(k), chain[k + 1])
                             /\ NextNestedBatchClaim(at(k), chain[k + 1]) = at(k + 1)
  <2>1. k \in 0..(Depth - 1)
    BY <1>1, <1>4
  <2> QED
    BY <1>2, <1>4, <2>1, LevelFacts
<1>5. root = at(0)
  BY <1>1, PrefixFacts
<1> HIDE DEF n, root, at, after
<1>6. 0 \in S
  BY <1>3, <1>5
<1>7. ASSUME NEW k \in Nat, k \in S
      PROVE  k + 1 \in S
  <2> SUFFICES ASSUME k + 1 < n
               PROVE  after(k + 1) = at(k + 1)
    OBVIOUS
  <2>1. k < n
    BY <1>1
  <2>2. after(k) = at(k)
    BY <1>7, <2>1
  <2> QED
    BY <1>3, <1>4, <2>1, <2>2
<1> HIDE DEF S
<1>8. Nat \subseteq S
  BY <1>6, <1>7, ChainRec!SetInduction
<1>9. ASSUME NEW k \in 1..n
      PROVE  /\ ChainClaims(root, chain)[k] = at(k - 1)
             /\ verifyBatchInclusionProof(at(k - 1), chain[k])
             /\ chain[k].leafJournal
                  = PlannedRecords(plan, Prefix(plan, k - 1))[plan.disclosurePath[k] + 1]
             /\ k < n => HasNextNestedBatchClaim(at(k - 1), chain[k])
  <2>1. PICK j \in Nat : j = k - 1 /\ j + 1 = k /\ j < n
    BY <1>1
  <2>2. after(j) = at(j)
    BY <1>8, <2>1 DEF S
  <2>3. ChainClaims(root, chain)[k] = after(k - 1)
    BY <1>2 DEF ChainClaims, after
  <2> QED
    BY <1>4, <2>1, <2>2, <2>3
<1>10. VerifyBatchInclusionChain(root, chain)
  BY <1>1, <1>2, <1>9 DEF VerifyBatchInclusionChain
<1> QED
  BY <1>2, <1>9, <1>10 DEF n, root, chain, at

(* The final verification of a run that bundles a chain.                   *)
LEMMA FinalFacts ==
  ASSUME WalkInv, phase \in {"verify", "done"}, plan.disclosurePath # <<>>
  PROVE  ChainDisclosesPlan /\ VerifyBatch(Base(plan, <<>>), TRUE)
<1> DEFINE base  == Base(plan, <<>>)
           root  == PlannedClaim(plan, <<>>)
           chain == PlannedChain(plan)
<1>1. /\ ShapeInv /\ ArtifactInv /\ phase \in Walking
      /\ chainFile = Full(chain) /\ Depth = Len(plan.disclosurePath)
  BY DEF WalkInv, ArtifactsInv, ChainInv, Walking
<1>2. chainFile.data = chain /\ Readable(chainFile)
  BY <1>1, FileFacts
<1>3. /\ receiptFile[base] = Full(NodeReceipt(plan, <<>>))
      /\ report.topClaim = PublicClaim(NodeReceipt(plan, <<>>))
      /\ VerifyBatch(base, FALSE)
      /\ Decode(NodeReceipt(plan, <<>>).journal) = root
  BY <1>1, TopVerifies
<1>4. Decode(report.topClaim.journal) = root
  BY <1>3 DEF PublicClaim
<1>5. /\ Len(chain) = Depth
      /\ \A k \in 1..Depth :
           /\ ChainClaims(root, chain)[k] = PlannedClaim(plan, Prefix(plan, k - 1))
           /\ chain[k].leafJournal
                = PlannedRecords(plan, Prefix(plan, k - 1))[plan.disclosurePath[k] + 1]
      /\ VerifyBatchInclusionChain(root, chain)
  BY <1>1, ChainAsPlanned
<1> HIDE DEF base, root, chain
<1>6. VerifyBatch(base, TRUE)
  <2>1. receiptFile[base].data = NodeReceipt(plan, <<>>)
    BY <1>3, FileFacts
  <2> QED
    BY <1>2, <1>3, <1>5, <2>1 DEF VerifyBatch
<1> QED
  BY <1>1, <1>2, <1>4, <1>5, <1>6 DEF ChainDisclosesPlan, Prefix, base

(* nested_plan.go:220-252: the chain that a finished run bundles verifies  *)
(* under the claim it reports, and discloses level by level the records    *)
(* along the manifest's disclosure path.                                   *)
THEOREM ChainShowsPlan ==
  ASSUME DistinctArtifacts
  PROVE  Spec => []ChainDisclosesPlan
<1>1. WalkInv => ChainDisclosesPlan
  <2>1. phase = "done" => phase \in {"verify", "done"}
    OBVIOUS
  <2> QED
    BY <2>1, FinalFacts DEF ChainDisclosesPlan
<1> QED
  BY <1>1, WalkInvariant, PTL

-----------------------------------------------------------------------------
(* When a run fails.                                                       *)

LEMMA ProvableSupported ==
  ASSUME NEW p \in Plans, NEW path \in DOMAIN p.nodes, NodeProvable(p, path)
  PROVE  NodeAt(p, path).kind \in SupportedLeafKinds /\ NodeAt(p, path).leaves # <<>>
<1>1. /\ NodeAt(p, path).kind \in SupportedLeafKinds
      /\ Len(PlannedRecords(p, path)) # 0
  BY DEF NodeProvable, GuestAccepts
<1>2. Len(PlannedRecords(p, path)) = Len(NodeAt(p, path).leaves)
  BY PlanFacts DEF PlannedRecords, RecordsOf
<1> QED
  BY <1>1, <1>2, PlanFacts

LEMMA ProvableResolves ==
  ASSUME NEW p \in Plans, NEW path \in DOMAIN p.nodes, NodeProvable(p, path),
         NEW i \in Nat, i < Len(NodeAt(p, path).leaves)
  PROVE  KindResolves(p, path, i) /\ Available(p, path, i)
<1> DEFINE kind   == NodeAt(p, path).kind
           record == PlannedRecords(p, path)[i + 1]
<1>1. i \in Leaves(p, path) /\ i + 1 \in 1..Len(NodeAt(p, path).leaves) /\ (i + 1) - 1 = i
  BY PlanFacts DEF Leaves
<1>2. Available(p, path, i)
  BY <1>1 DEF NodeProvable, Available
<1>3. ASSUME kind = LeafKindHeterogeneousEnvelopeV1
      PROVE  IsAllowedHeterogeneousDirectLeafKindV1(DirectKind(p, path, i))
  <2>1. Len(PlannedRecords(p, path)) = Len(NodeAt(p, path).leaves)
    BY PlanFacts DEF PlannedRecords, RecordsOf
  <2>2. EnvelopeDecodes(record)
    BY <1>1, <1>3, <2>1 DEF NodeProvable, GuestAccepts, DirectLeafAccepted
  <2>3. record = DirectRecord(kind, DirectKind(p, path, i),
                              PublicClaim(PlannedReceipt(p, path, i)))
    BY <1>1 DEF PlannedRecords, RecordsOf, PlannedReceipt
  <2> HIDE DEF record
  <2>4. PICK d, image, j : record = Envelope(d, image, j) /\ d = DirectKind(p, path, i)
    BY <1>3, <2>3 DEF DirectRecord
  <2>5. record.directLeafKind = d
    BY <2>4 DEF Envelope
  <2> QED
    BY <2>2, <2>4, <2>5 DEF EnvelopeDecodes
<1> QED
  BY <1>2, <1>3 DEF KindResolves

(* When the root is resolved, every node is.                               *)
LEMMA AllResolved ==
  ASSUME ShapeInv, phase \in Walking
  PROVE  Done = DOMAIN plan.nodes
<1>1. plan \in Plans /\ NodesOK(plan, resolved) /\ <<>> \in Done
  BY DEF ShapeInv, Walking
<1>2. Done \subseteq DOMAIN plan.nodes
  BY <1>1 DEF NodesOK, Done
<1>3. ASSUME NEW path \in DOMAIN plan.nodes, path # <<>>, Front(path) \in Done
      PROVE  path \in Done
  <2> DEFINE front == Front(path)
             i     == Last(path)
  <2>1. /\ path \in Seq(Nat) /\ i < Len(NodeAt(plan, front).leaves)
        /\ Len(NodeAt(plan, front).leaves) \in Nat
    BY <1>1, <1>2, <1>3, PlanFacts
  <2>2. path = Append(front, i) /\ i \in Nat
    BY <1>3, <2>1, PathFront
  <2> HIDE DEF front, i
  <2>3. Inline(plan, front, i)
    BY <2>2 DEF Inline
  <2>4. /\ InputsOK(plan, Done, front, resolved[front].inputs)
        /\ Len(resolved[front].inputs) = Len(NodeAt(plan, front).leaves)
    BY <1>1, <1>3 DEF NodesOK, Done, front
  <2>5. i + 1 \in 1..Len(resolved[front].inputs) /\ (i + 1) - 1 = i
    BY <2>1, <2>2, <2>4
  <2> QED
    BY <2>2, <2>3, <2>4, <2>5 DEF InputsOK
<1>4. \A path \in DOMAIN plan.nodes : /\ path \in Seq(Nat)
                                      /\ path # <<>> => Front(path) \in DOMAIN plan.nodes
  BY <1>1, PlanFacts
<1>5. DOMAIN plan.nodes \subseteq Done
  BY <1>1, <1>3, <1>4, PathInduction
<1> QED
  BY <1>2, <1>5

LEMMA NotAchievable ==
  ASSUME NEW p \in Plans, NEW path \in DOMAIN p.nodes, ~ NodeProvable(p, path)
  PROVE  ~ Achievable(p)
BY DEF Achievable, Provable

(* The disclosure path leads nowhere at level k.                           *)
LEMMA NotDisclosable ==
  ASSUME NEW p \in Plans, NEW k \in Nat, k < Len(p.disclosurePath),
         ~ (/\ Prefix(p, k) \in DOMAIN p.nodes
            /\ p.disclosurePath[k + 1] < Len(NodeAt(p, Prefix(p, k)).leaves))
  PROVE  ~ Achievable(p)
<1>1. Len(p.disclosurePath) \in Nat
  BY PlanFacts
<1>2. k + 1 \in 1..Len(p.disclosurePath) /\ (k + 1) - 1 = k
  BY <1>1
<1> QED
  BY <1>2 DEF Achievable, Disclosable, Prefix

LEMMA EnterFails ==
  ASSUME NEW p \in Plans, NEW path \in DOMAIN p.nodes, NEW calls, Enter(p, calls, path),
         phase' = "failed"
  PROVE  ~ Achievable(p)
<1>1. ~ (NodeAt(p, path).kind \in SupportedLeafKinds /\ NodeAt(p, path).leaves # <<>>)
  BY DEF Enter
<1> QED
  BY <1>1, ProvableSupported, NotAchievable

LEMMA ProveNodeFails ==
  ASSUME WalkInv, \/ ProveInline \/ ResolveExternal \/ ProveNode, phase' = "failed"
  PROVE  ~ Achievable(plan)
<1>1. ShapeInv /\ ReceiptInv /\ ArtifactInv /\ phase \in Proving /\ phase = "resolve"
  BY DEF WalkInv, ArtifactsInv, ProveInline, ResolveExternal, ProveNode, HasLeaf, Proving
<1>2. plan \in Plans /\ Call.path \in DOMAIN plan.nodes /\ Index \in Nat
  BY <1>1, CallFacts
<1>3. CASE ProveInline
  <2>1. HasLeaf /\ Inline(plan, Call.path, Index) /\ Enter(plan, stack, Append(Call.path, Index))
    BY <1>3 DEF ProveInline
  <2>2. Append(Call.path, Index) \in DOMAIN plan.nodes
    BY <2>1 DEF Inline
  <2> QED
    BY <1>2, <2>1, <2>2, EnterFails
<1>4. CASE ResolveExternal
  <2>1. Index < Len(NodeAt(plan, Call.path).leaves) /\ ~ Inline(plan, Call.path, Index)
    BY <1>4 DEF ResolveExternal, HasLeaf, Node
  <2>2. \/ LeafAt(plan, Call.path, Index).file = NoFile
        \/ ~ KindResolves(plan, Call.path, Index)
    BY <1>4 DEF ResolveExternal, Resolve, Call, Index
  <2>3. ~ (KindResolves(plan, Call.path, Index) /\ Available(plan, Call.path, Index))
    BY <2>1, <2>2, ExternalAssumption DEF Available
  <2> QED
    BY <1>2, <2>1, <2>3, ProvableResolves, NotAchievable
<1>5. CASE ProveNode
  <2>1. ~ NodeAccepted
    <3>1. NodeAccepted => phase' = "write receipt"
      BY <1>1, <1>5, NodeRun
    <3> QED
      BY <3>1
  <2>2. ~ NodeProvable(plan, Call.path)
    BY <1>1, <1>5, <2>1, NodeAsPlanned
  <2> QED
    BY <1>2, <2>2, NotAchievable
<1> QED
  BY <1>3, <1>4, <1>5

LEMMA FinishNodeFails ==
  ASSUME WalkInv, FinishNode, phase' = "failed"
  PROVE  ~ Achievable(plan)
<1>1. /\ ShapeInv /\ ArtifactInv /\ ReportInv /\ plan \in Plans
      /\ Readable(claimFile[Base(plan, Call.path)])
  <2>1. ShapeInv /\ ArtifactInv /\ ReportInv /\ phase \in Proving
    BY DEF WalkInv, ArtifactsInv, FinishNode, Proving, Writing
  <2> QED
    BY <2>1, FinishNodeArtifacts, CallFacts
<1> DEFINE calls == Front(stack)
           path  == Last(calls).path
           i     == Len(Last(calls).inputs)
<1>2. Len(stack) > 1 /\ Resolve(calls, Base(plan, Call.path))
  BY <1>1 DEF FinishNode, AfterProofs
<1>3. path \in DOMAIN plan.nodes /\ i \in Nat /\ i < Len(NodeAt(plan, path).leaves)
  BY <1>1, <1>2, ReturnsTo
<1>4. ~ KindResolves(plan, path, i)
  BY <1>2 DEF Resolve
<1> HIDE DEF path, i
<1> QED
  BY <1>1, <1>3, <1>4, ProvableResolves, NotAchievable

LEMMA WalkFails ==
  ASSUME WalkInv, Derive \/ WriteProof, phase' = "failed"
  PROVE  ~ Achievable(plan)
<1>1. /\ ShapeInv /\ ArtifactInv /\ ChainInv /\ phase \in Walking /\ plan \in Plans
      /\ Depth \in Nat /\ Depth < Len(plan.disclosurePath) /\ Current = Prefix(plan, Depth)
  <2>1. /\ ShapeInv /\ ArtifactInv /\ ChainInv /\ phase \in Walking /\ plan \in Plans
        /\ Depth < Len(plan.disclosurePath)
    BY DEF WalkInv, ArtifactsInv, ChainInv, ShapeInv, Derive, WriteProof, Walking
  <2>2. Depth \in Nat
    BY <2>1 DEF ChainInv, LevelsOK, IsSeq, Depth
  <2> QED
    BY <2>1, <2>2 DEF Current, Prefix
<1>2. CASE Derive
  <2>1. ~ (LeafIndex < Len(NodeAt(plan, Current).leaves))
    BY <1>1, <1>2, DeriveFacts
  <2> QED
    BY <1>1, <2>1, NotDisclosable DEF LeafIndex
<1>3. CASE WriteProof
  <2>1. /\ Depth + 1 \in Nat /\ Depth + 1 < Len(plan.disclosurePath)
        /\ Prefix(plan, Depth + 1) \notin DOMAIN plan.nodes
    BY <1>1, <1>3, WriteProofFacts, AllResolved
  <2> QED
    BY <1>1, <2>1, NotDisclosable
<1> QED
  BY <1>2, <1>3

(* The final verification never fails.                                     *)
LEMMA VerifyFinalPasses ==
  ASSUME WalkInv, VerifyFinal
  PROVE  phase' = "done"
<1>1. /\ ShapeInv /\ ArtifactInv /\ ChainInv /\ phase \in Walking /\ phase \in {"verify", "done"}
      /\ report.chain = (plan.disclosurePath # <<>>)
  BY DEF WalkInv, ArtifactsInv, ChainInv, VerifyFinal, Walking
<1>2. VerifyBatch(Base(plan, <<>>), report.chain)
  <2>1. CASE plan.disclosurePath # <<>>
    <3>1. VerifyBatch(Base(plan, <<>>), TRUE)
      BY <1>1, <2>1, FinalFacts
    <3>2. report.chain = TRUE
      BY <1>1, <2>1
    <3> QED
      BY <3>1, <3>2
  <2>2. CASE plan.disclosurePath = <<>>
    <3>1. VerifyBatch(Base(plan, <<>>), FALSE)
      BY <1>1, TopVerifies
    <3>2. report.chain = FALSE
      BY <1>1, <2>2
    <3> QED
      BY <3>1, <3>2
  <2> QED
    BY <2>1, <2>2
<1> QED
  BY <1>2 DEF VerifyFinal

LEMMA OutcomeStep ==
  ASSUME WalkInv, OutcomeInv, [Next]_planVars
  PROVE  OutcomeInv'
<1> SUFFICES ASSUME phase' = "failed"
             PROVE  ~ Achievable(plan')
  BY DEF OutcomeInv
<1>1. CASE UNCHANGED planVars
  BY <1>1 DEF planVars, OutcomeInv
<1>2. CASE \E p \in Plans : StartPlan(p)
  <2>1. PICK p \in Plans : StartPlan(p)
    BY <1>2
  <2>2. plan' = p /\ Enter(p, <<>>, <<>>) /\ <<>> \in DOMAIN p.nodes
    BY <2>1, PlanFacts DEF StartPlan
  <2> QED
    BY <2>2, EnterFails
<1>3. CASE ProveInline \/ ResolveExternal \/ ProveNode
  BY <1>3, ProveNodeFails DEF ProveInline, ResolveExternal, ProveNode
<1>4. CASE FinishNode
  BY <1>4, FinishNodeFails DEF FinishNode
<1>5. CASE Derive \/ WriteProof
  BY <1>5, WalkFails DEF Derive, WriteProof
<1>6. CASE Bundle \/ WriteChain
  <2>1. ShapeInv /\ ReportInv /\ ChainInv
    BY DEF WalkInv, ArtifactsInv
  <2> QED
    BY <1>6, <2>1, BundleFacts, WriteChainFacts
<1>7. CASE VerifyFinal
  BY <1>7, VerifyFinalPasses
<1>8. CASE WriteReceipt \/ WriteClaim \/ KillBetween \/ KillWithin
  BY <1>8 DEF WriteReceipt, WriteClaim, KillBetween, KillWithin, Kill
<1> QED
  BY <1>1, <1>2, <1>3, <1>4, <1>5, <1>6, <1>7, <1>8 DEF Next, Step

LEMMA DoneIsAchievable ==
  ASSUME WalkInv, phase = "done"
  PROVE  Achievable(plan)
<1>1. /\ ShapeInv /\ ArtifactInv /\ ChainInv /\ phase \in Walking /\ plan \in Plans
      /\ LevelsOK /\ Depth = Len(plan.disclosurePath)
  BY DEF WalkInv, ArtifactsInv, ChainInv, ShapeInv, Walking
<1>2. Provable(plan)
  <2>1. Done = DOMAIN plan.nodes
    BY <1>1, AllResolved
  <2> QED
    BY <1>1, <2>1 DEF Provable, ArtifactInv, Proved
<1>3. Disclosable(plan)
  <2>1. Len(plan.disclosurePath) \in Nat
    BY <1>1, PlanFacts
  <2>2. ASSUME NEW k \in 1..Len(plan.disclosurePath)
        PROVE  /\ Prefix(plan, k - 1) \in DOMAIN plan.nodes
               /\ plan.disclosurePath[k] < Len(NodeAt(plan, Prefix(plan, k - 1)).leaves)
    <3>1. k - 1 \in 0..(Depth - 1) /\ (k - 1) + 1 = k
      BY <1>1, <2>1
    <3> QED
      BY <1>1, <3>1, AllResolved DEF LevelsOK
  <2> QED
    BY <2>2 DEF Disclosable, Prefix
<1> QED
  BY <1>2, <1>3 DEF Achievable

(* nested_plan.go:220-252: for every manifest of distinct artifacts, a run *)
(* fails only when the guest would refuse a node of the tree or the        *)
(* disclosure path leads nowhere, and it finishes only when neither is so: *)
(* whatever files earlier runs left, half-written ones among them.         *)
THEOREM OutcomeIsAsPlanned ==
  ASSUME DistinctArtifacts
  PROVE  Spec => []OutcomeAsPlanned
<1>1. Init => OutcomeInv
  BY DEF Init, OutcomeInv
<1>2. WalkInv /\ OutcomeInv /\ [Next]_planVars => OutcomeInv'
  BY OutcomeStep
<1>3. WalkInv /\ OutcomeInv => OutcomeAsPlanned
  BY DoneIsAchievable DEF OutcomeInv, OutcomeAsPlanned
<1> QED
  BY <1>1, <1>2, <1>3, WalkInvariant, PTL DEF Spec

-----------------------------------------------------------------------------
(* Which labels keep the artifacts apart.                                  *)

(* No label begins with a word that is an index.                           *)
Unnumbered ==
  \A p \in Plans : \A path \in DOMAIN p.nodes :
    NodeAt(p, path).name # <<>> =>
      \A i \in 1..Len(IndexWords) : NodeAt(p, path).name[1] # IndexWords[i]

LEMMA SeqIsSeq ==
  ASSUME NEW S, NEW u \in Seq(S)
  PROVE  IsSeq(u)
BY DEF IsSeq

LEMMA ConcatSeq ==
  ASSUME NEW s, IsSeq(s), NEW t, IsSeq(t)
  PROVE  /\ IsSeq(s \o t) /\ Len(s \o t) = Len(s) + Len(t)
         /\ \A i \in 1..Len(s) : (s \o t)[i] = s[i]
         /\ \A i \in 1..Len(t) : (s \o t)[Len(s) + i] = t[i]
<1> DEFINE S == {s[i] : i \in 1..Len(s)} \cup {t[i] : i \in 1..Len(t)}
<1>1. s \in Seq(S) /\ t \in Seq(S)
  <2>1. s \in [1..Len(s) -> S] /\ t \in [1..Len(t) -> S]
    BY DEF IsSeq
  <2> HIDE DEF S
  <2> QED
    BY <2>1 DEF IsSeq
<1> HIDE DEF S
<1>2. PICK m \in Nat, n \in Nat : m = Len(s) /\ n = Len(t)
  BY DEF IsSeq
<1>3. /\ s \o t \in Seq(S) /\ Len(s \o t) = m + n
      /\ \A i \in 1..(m + n) : (s \o t)[i] = IF i <= m THEN s[i] ELSE t[i - m]
  BY <1>1, <1>2, ST!ConcatProperties
<1>4. IsSeq(s \o t)
  BY <1>3, SeqIsSeq
<1>5. \A i \in 1..m : (s \o t)[i] = s[i]
  BY <1>2, <1>3
<1>6. ASSUME NEW i \in 1..n
      PROVE  (s \o t)[m + i] = t[i]
  <2>1. m + i \in 1..(m + n) /\ ~ (m + i <= m) /\ (m + i) - m = i
    BY <1>2
  <2> QED
    BY <1>3, <2>1
<1> QED
  BY <1>2, <1>3, <1>4, <1>5, <1>6

(* An artifact base: the indices of the path, then the words of the label. *)
LEMMA BaseWords ==
  ASSUME NEW p \in Plans, NEW path \in DOMAIN p.nodes
  PROVE  LET name == NodeAt(p, path).name
             base == Base(p, path)
         IN  /\ Len(base) = 1 + Len(path) + Len(name)
             /\ \A i \in 1..Len(path) : base[1 + i] = IndexWords[path[i] + 1]
             /\ \A i \in 1..Len(name) : base[1 + Len(path) + i] = name[i]
<1> DEFINE name  == NodeAt(p, path).name
           words == [i \in 1..Len(path) |-> TwoDigits(path[i])]
           head  == <<"node">> \o words
<1>1. path \in Seq(Nat) /\ name \in Seq(STRING) /\ Len(path) \in Nat /\ Len(name) \in Nat
  BY PlanFacts
<1>2. IsSeq(name) /\ IsSeq(words) /\ Len(words) = Len(path)
  BY <1>1 DEF IsSeq
<1>3. IsSeq(<<"node">>) /\ Len(<<"node">>) = 1
  BY DEF IsSeq
<1> HIDE DEF name, words
<1>4. /\ IsSeq(head) /\ Len(head) = 1 + Len(path)
      /\ \A i \in 1..Len(path) : head[1 + i] = words[i]
  BY <1>2, <1>3, ConcatSeq
<1>5. Base(p, path) = head \o name
  BY DEF Base, nestedNodeArtifactBase, words, name
<1> HIDE DEF head
<1>6. /\ Len(Base(p, path)) = 1 + Len(path) + Len(name)
      /\ \A i \in 1..(1 + Len(path)) : Base(p, path)[i] = head[i]
      /\ \A i \in 1..Len(name) : Base(p, path)[1 + Len(path) + i] = name[i]
  <2>1. /\ Len(head \o name) = Len(head) + Len(name)
        /\ \A i \in 1..Len(head) : (head \o name)[i] = head[i]
        /\ \A i \in 1..Len(name) : (head \o name)[Len(head) + i] = name[i]
    BY <1>2, <1>4, ConcatSeq
  <2> QED
    BY <1>4, <1>5, <2>1
<1>7. ASSUME NEW i \in 1..Len(path)
      PROVE  Base(p, path)[1 + i] = IndexWords[path[i] + 1]
  <2>1. 1 + i \in 1..(1 + Len(path))
    BY <1>1
  <2>2. words[i] = IndexWords[path[i] + 1]
    BY DEF words, TwoDigits
  <2> QED
    BY <1>4, <1>6, <2>1, <2>2
<1> QED
  BY <1>6, <1>7 DEF name

LEMMA PathIndices ==
  ASSUME NEW p \in Plans
  PROVE  \A path \in DOMAIN p.nodes : \A i \in 1..Len(path) :
           path[i] \in Nat /\ path[i] + 1 \in 1..Len(IndexWords)
<1> DEFINE S == {path \in Seq(Nat) : \A i \in 1..Len(path) : path[i] + 1 \in 1..Len(IndexWords)}
<1>1. <<>> \in S
  OBVIOUS
<1>2. ASSUME NEW path \in DOMAIN p.nodes, path # <<>>, Front(path) \in S
      PROVE  path \in S
  <2>1. /\ path \in Seq(Nat) /\ Front(path) \in DOMAIN p.nodes
        /\ Last(path) < Len(NodeAt(p, Front(path)).leaves)
    BY <1>2, PlanFacts
  <2>2. Last(path) \in Nat /\ Last(path) + 1 \in 1..Len(IndexWords)
    <3>1. Last(path) \in Nat
      BY <1>2, <2>1, PathFront
    <3>2. Len(NodeAt(p, Front(path)).leaves) \in 0..Len(IndexWords)
      BY <2>1, PlanFacts
    <3> QED
      BY <2>1, <3>1, <3>2, IndexWordsAssumption
  <2>3. /\ Len(path) \in Nat \ {0} /\ IsSeq(path)
        /\ \A i \in 1..(Len(path) - 1) : Front(path)[i] = path[i]
        /\ Len(Front(path)) = Len(path) - 1
    <3>1. IsSeq(path)
      BY <2>1 DEF IsSeq
    <3>2. Len(path) # 0
      BY <1>2, <2>1
    <3> QED
      BY <2>1, <3>1, <3>2, FrontSeq
  <2>4. ASSUME NEW i \in 1..Len(path)
        PROVE  path[i] + 1 \in 1..Len(IndexWords)
    <3>1. CASE i = Len(path)
      BY <2>2, <3>1 DEF Last
    <3>2. CASE i # Len(path)
      <4>1. i \in 1..Len(Front(path)) /\ Front(path)[i] = path[i]
        BY <2>3, <3>2
      <4> QED
        BY <1>2, <4>1
    <3> QED
      BY <3>1, <3>2
  <2> QED
    BY <2>1, <2>4
<1>3. \A path \in DOMAIN p.nodes : /\ path \in Seq(Nat)
                                   /\ path # <<>> => Front(path) \in DOMAIN p.nodes
  BY PlanFacts
<1> HIDE DEF S
<1>4. DOMAIN p.nodes \subseteq S
  BY <1>1, <1>2, <1>3, PathInduction
<1> QED
  BY <1>4 DEF S

(* A node is no higher in the tree than another of the same base.          *)
LEMMA SameBaseDepth ==
  ASSUME Unnumbered, NEW p \in Plans, NEW a \in DOMAIN p.nodes, NEW b \in DOMAIN p.nodes,
         Base(p, a) = Base(p, b)
  PROVE  ~ (Len(a) < Len(b))
<1> SUFFICES ASSUME Len(a) < Len(b)
             PROVE  FALSE
  OBVIOUS
<1> DEFINE m    == Len(a)
           name == NodeAt(p, a).name
           base == Base(p, a)
<1>1. /\ m \in Nat /\ Len(b) \in Nat /\ name \in Seq(STRING)
      /\ Len(name) \in Nat /\ Len(NodeAt(p, b).name) \in Nat
  BY PlanFacts
<1>2. /\ Len(base) = 1 + m + Len(name)
      /\ \A i \in 1..Len(name) : base[1 + m + i] = name[i]
      /\ Len(base) = 1 + Len(b) + Len(NodeAt(p, b).name)
      /\ \A i \in 1..Len(b) : base[1 + i] = IndexWords[b[i] + 1]
  <2>1. /\ Len(base) = 1 + m + Len(name)
        /\ \A i \in 1..Len(name) : base[1 + m + i] = name[i]
    BY BaseWords
  <2>2. /\ Len(Base(p, b)) = 1 + Len(b) + Len(NodeAt(p, b).name)
        /\ \A i \in 1..Len(b) : Base(p, b)[1 + i] = IndexWords[b[i] + 1]
    BY BaseWords
  <2> QED
    BY <2>1, <2>2
<1> HIDE DEF base, name
<1>3. /\ 1 \in 1..Len(name) /\ m + 1 \in 1..Len(b)
      /\ 1 + m + 1 = 1 + (m + 1)
  <2>1. PICK w \in Nat, x \in Nat, y \in Nat, z \in Nat :
          w = Len(a) /\ x = Len(b) /\ y = Len(name) /\ z = Len(NodeAt(p, b).name)
    BY <1>1
  <2>2. 1 + w + y = 1 + x + z /\ w < x
    BY <1>2, <2>1
  <2>3. 1 \in 1..y /\ w + 1 \in 1..x /\ 1 + w + 1 = 1 + (w + 1)
    BY <2>2
  <2> QED
    BY <2>1, <2>3
<1>4. name[1] = IndexWords[b[m + 1] + 1]
  BY <1>2, <1>3
<1>5. b[m + 1] + 1 \in 1..Len(IndexWords)
  BY <1>3, PathIndices
<1>6. name # <<>>
  BY <1>3
<1> QED
  BY <1>4, <1>5, <1>6 DEF Unnumbered, name

(* nested_plan.go:479-482: the base encodes the node's position in the     *)
(* tree, provided that no label begins with what "%02d" makes of an index: *)
(* then no two nodes of a manifest have the same files.                    *)
THEOREM UnnumberedLabelsAreDistinct ==
  ASSUME Unnumbered
  PROVE  DistinctArtifacts
<1> SUFFICES ASSUME NEW p \in Plans, NEW a \in DOMAIN p.nodes, NEW b \in DOMAIN p.nodes,
                    Base(p, a) = Base(p, b)
             PROVE  a = b
  BY DEF DistinctArtifacts
<1>1. /\ a \in Seq(Nat) /\ b \in Seq(Nat) /\ Len(a) \in Nat /\ Len(b) \in Nat
  BY PlanFacts
<1>2. Len(a) = Len(b)
  <2>1. ~ (Len(a) < Len(b)) /\ ~ (Len(b) < Len(a))
    BY SameBaseDepth
  <2> QED
    BY <1>1, <2>1
<1>3. ASSUME NEW i \in 1..Len(a)
      PROVE  a[i] = b[i]
  <2>1. IndexWords[a[i] + 1] = IndexWords[b[i] + 1]
    <3>1. Base(p, a)[1 + i] = IndexWords[a[i] + 1]
      BY BaseWords
    <3>2. Base(p, b)[1 + i] = IndexWords[b[i] + 1]
      BY <1>2, BaseWords
    <3> QED
      BY <3>1, <3>2
  <2>2. /\ a[i] + 1 \in 1..Len(IndexWords) /\ b[i] + 1 \in 1..Len(IndexWords)
        /\ a[i] \in Nat /\ b[i] \in Nat
    BY <1>2, PathIndices
  <2>3. a[i] + 1 = b[i] + 1
    BY <2>1, <2>2, IndexWordsAssumption
  <2> QED
    BY <2>2, <2>3
<1> QED
  BY <1>1, <1>2, <1>3
=============================================================================
