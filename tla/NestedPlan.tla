----------------------------- MODULE NestedPlan -----------------------------
(***************************************************************************)
(* RunNestedBatchPlan of nested_plan.go: one invocation of the command     *)
(* line tool that proves a tree of batches depth first from a manifest,    *)
(* each node through files in one output directory, then derives and       *)
(* bundles the inclusion proofs along a disclosure path and verifies the   *)
(* top receipt.  Invocations follow one another, over the files that the   *)
(* last one left when it ended, failed or was killed.                      *)
(*                                                                         *)
(* A plan is [nodes, receiptKind, disclosurePath, verifyFinal].  A node is *)
(* addressed by the path of indices that leads to it, as in the code's     *)
(* path argument: nodes is a function from paths to [name, kind, leaves],  *)
(* a leaf is [file, kind], and it is inline, that is, has a batch of its   *)
(* own, when there is a node at its path.  A kind is 0 when its label is   *)
(* omitted and any other number outside 1..4 when it does not parse.  The  *)
(* code's index i is element i + 1.                                        *)
(***************************************************************************)
EXTENDS BatchLoader, FiniteSets, SequencesExt, TLC

CONSTANTS
  BatchImage, LeafImages, ForeignImages,
  Bodies, Kinds, ReceiptKinds, Given, Forged, MaxLeaves,
  Plans,       \* the manifests that are run
  IndexWords,  \* what "%02d" makes of the indices 0, 1, ...
  External,    \* file name -> given receipt there, with its claim beside it
  MaxRuns      \* bound on the invocations started

VARIABLES
  ledger, openings,   \* the receipts that exist (BatchLedger)
  receiptFile, claimFile, proofFile, chainFile,
  plan, phase,        \* the manifest, and the next step
  stack,              \* calls of proveNestedBatchNode: [path, inputs]
  resolved,           \* path -> [inputs, claim] of the nodes proved so far
  proofPaths,         \* inclusion proofs derived so far
  held,               \* what is about to be written
  report, runs

diskVars == <<receiptFile, claimFile, proofFile, chainFile>>
planVars == <<ledger, openings, receiptFile, claimFile, proofFile, chainFile, plan,
              phase, stack, resolved, proofPaths, held, report, runs>>

Ledger == INSTANCE BatchLedger

-----------------------------------------------------------------------------
(* Reading a plan *)

NoFile == <<"">>

NodeAt(p, path)    == p.nodes[path]
LeafAt(p, path, i) == NodeAt(p, path).leaves[i + 1]

Inline(p, path, i) == Append(path, i) \in DOMAIN p.nodes

ReceiptKind(p) == IF p.receiptKind = "" THEN "composite" ELSE p.receiptKind

(* The label is sanitized to words, and joining words with dashes keeps    *)
(* them apart: a base is the sequence that is joined.                      *)
TwoDigits(idx) == IndexWords[idx + 1]

(* Mutant: the label alone.                                                *)
BaseUnpositioned(name, path) == <<"node">> \o name

nestedNodeArtifactBase(name, path) ==
  <<"node">> \o [i \in 1..Len(path) |-> TwoDigits(path[i])] \o name

Base(p, path) == nestedNodeArtifactBase(NodeAt(p, path).name, path)

LeafFiles(p) ==
  UNION {{LeafAt(p, path, i).file :
            i \in {j \in 0..(Len(NodeAt(p, path).leaves) - 1) : ~Inline(p, path, j)}} :
         path \in DOMAIN p.nodes}

Bases  == UNION {{Base(p, path) : path \in DOMAIN p.nodes} : p \in Plans}
Files  == Bases \cup DOMAIN External \cup UNION {LeafFiles(p) : p \in Plans}
Depths == UNION {0..Len(p.disclosurePath) : p \in Plans}

-----------------------------------------------------------------------------
(* A node is reached through its parent, and the manifest is finite.       *)
IsTree(nodes) ==
  /\ <<>> \in DOMAIN nodes
  /\ IsFiniteSet(DOMAIN nodes)
  /\ \A path \in DOMAIN nodes :
       /\ path \in Seq(Nat)
       /\ path # <<>> => /\ Front(path) \in DOMAIN nodes
                         /\ Last(path) < Len(nodes[Front(path)].leaves)

IsNode(node) ==
  /\ node.name \in Seq(STRING)
  /\ node.kind \in Nat
  /\ node.leaves \in Seq([file : Seq(STRING), kind : Nat])
  /\ Len(node.leaves) <= Len(IndexWords)

ASSUME PlansAssumption ==
  \A p \in Plans :
    /\ IsTree(p.nodes)
    /\ \A path \in DOMAIN p.nodes : IsNode(p.nodes[path])
    /\ ReceiptKind(p) \in {"composite", "succinct"}
    /\ p.disclosurePath \in Seq(Nat)
    /\ p.verifyFinal \in BOOLEAN

(* Sprintf prints different numbers differently.                           *)
ASSUME IndexWordsAssumption ==
  /\ Len(IndexWords) \in Nat
  /\ \A i, j \in 1..Len(IndexWords) : IndexWords[i] = IndexWords[j] => i = j

ASSUME ExternalAssumption ==
  /\ NoFile \notin DOMAIN External
  /\ \A f \in DOMAIN External : External[f] \in Given

ASSUME OutputDirAssumption == \A p \in Plans : LeafFiles(p) \cap Bases = {}

ASSUME ImagesAssumption ==
  BatchImage \notin LeafImages /\ ForeignImages \cap (LeafImages \cup {BatchImage}) = {}
ASSUME ForgedAssumption == \A journal \in Forged : Decodes(journal)
ASSUME GivenAssumption  == Given \subseteq Ledger!LeafReceipts \cup Ledger!ForeignReceipts
ASSUME MaxRunsAssumption == MaxRuns \in Nat

(* Only the bounds of the ledger's next-state relation depend on these.    *)
ASSUME BoundsAssumption ==
  /\ MaxLeaves \in Nat
  /\ \A p \in Plans :
       /\ ReceiptKind(p) \in ReceiptKinds
       /\ \A path \in DOMAIN p.nodes :
            /\ Len(NodeAt(p, path).leaves) <= MaxLeaves
            /\ NodeAt(p, path).kind \in SupportedLeafKinds => NodeAt(p, path).kind \in Kinds

-----------------------------------------------------------------------------
Nothing  == [type |-> "nothing"]
NoReport == [topClaim |-> Nothing, chain |-> FALSE, verified |-> FALSE]

Init ==
  /\ ledger = Given
  /\ openings = {}
  /\ receiptFile = [f \in Files |-> IF f \in DOMAIN External
                                    THEN Full(External[f]) ELSE Absent]
  /\ claimFile = [f \in Files |-> IF f \in DOMAIN External
                                  THEN Full(PublicClaim(External[f])) ELSE Absent]
  /\ proofFile = [f \in Bases \X Depths |-> Absent]
  /\ chainFile = Absent
  /\ plan = Nothing
  /\ phase = "idle"
  /\ stack = <<>>
  /\ resolved = <<>>
  /\ proofPaths = <<>>
  /\ held = Nothing
  /\ report = NoReport
  /\ runs = 0

Ended == phase \in {"idle", "done", "failed", "killed"}

(* Mutant: the index is not appended to the path.                          *)
EnterSamePath(p, calls, path) ==
  IF NodeAt(p, path).kind \in SupportedLeafKinds /\ NodeAt(p, path).leaves # <<>>
  THEN /\ stack' = Append(calls, [path |-> <<>>, inputs |-> <<>>])
       /\ phase' = "resolve"
  ELSE /\ stack' = calls
       /\ phase' = "failed"

(* proveNestedBatchNode up to its loop.                                    *)
Enter(p, calls, path) ==
  IF NodeAt(p, path).kind \in SupportedLeafKinds /\ NodeAt(p, path).leaves # <<>>
  THEN /\ stack' = Append(calls, [path |-> path, inputs |-> <<>>])
       /\ phase' = "resolve"
  ELSE /\ stack' = calls
       /\ phase' = "failed"

StartPlan(p) ==
  /\ Ended
  /\ runs < MaxRuns
  /\ plan' = p
  /\ Enter(p, <<>>, <<>>)
  /\ resolved' = <<>>
  /\ proofPaths' = <<>>
  /\ held' = Nothing
  /\ report' = NoReport
  /\ runs' = runs + 1
  /\ UNCHANGED <<ledger, openings, receiptFile, claimFile, proofFile, chainFile>>

-----------------------------------------------------------------------------
(* The loop of proveNestedBatchNode over the leaves of the topmost call *)

Call    == Last(stack)
Node    == NodeAt(plan, Call.path)
Index   == Len(Call.inputs)
HasLeaf == phase = "resolve" /\ Index < Len(Node.leaves)

DirectKind(p, path, i) ==
  IF NodeAt(p, path).kind # LeafKindHeterogeneousEnvelopeV1 THEN 0
  ELSE IF LeafAt(p, path, i).kind = 0 /\ Inline(p, path, i)
       THEN LeafKindBatchClaimV1 ELSE LeafAt(p, path, i).kind

KindResolves(p, path, i) ==
  NodeAt(p, path).kind = LeafKindHeterogeneousEnvelopeV1 =>
    IsAllowedHeterogeneousDirectLeafKindV1(DirectKind(p, path, i))

(* What resolveNestedBatchLeaf returns to the call for its next leaf.      *)
Resolve(calls, file) ==
  LET path   == Last(calls).path
      inputs == Last(calls).inputs
      input  == [slot |-> file, directKind |-> DirectKind(plan, path, Len(inputs))]
  IN  IF KindResolves(plan, path, Len(inputs))
      THEN /\ stack' = Append(Front(calls),
                              [path |-> path, inputs |-> Append(inputs, input)])
           /\ phase' = "resolve"
      ELSE /\ stack' = calls
           /\ phase' = "failed"

ProveInline ==
  /\ HasLeaf /\ Inline(plan, Call.path, Index)
  /\ Enter(plan, stack, Append(Call.path, Index))
  /\ UNCHANGED <<ledger, openings, receiptFile, claimFile, proofFile, chainFile,
                 plan, resolved, proofPaths, held, report, runs>>

ResolveExternal ==
  /\ HasLeaf /\ ~Inline(plan, Call.path, Index)
  /\ LET file == LeafAt(plan, Call.path, Index).file
     IN  IF file = NoFile THEN phase' = "failed" /\ UNCHANGED stack
                          ELSE Resolve(stack, file)
  /\ UNCHANGED <<ledger, openings, receiptFile, claimFile, proofFile, chainFile,
                 plan, resolved, proofPaths, held, report, runs>>

-----------------------------------------------------------------------------
(* ProveBatch on the resolved leaves; nobody else touches the files *)

Loads(kind, inputs)  == loadBatchLeaves(kind, inputs, claimFile, receiptFile)
Loaded(kind, inputs) == LoadedLeaves(kind, inputs, claimFile, receiptFile)

(* Mutant: the policy digest is committed as the context of every kind.    *)
NodeClaimAnyContext(kind, entries) ==
  GuestClaim(kind, PolicyDigest, Records(entries))

NodeClaim(kind, entries) ==
  GuestClaim(kind, Context(kind, entries), Records(entries))

ProveNode ==
  /\ phase = "resolve" /\ ~HasLeaf
  /\ LET kind    == Node.kind
         entries == Loaded(kind, Call.inputs)
         claim   == NodeClaim(kind, entries)
         receipt == [image   |-> BatchImage,
                     journal |-> Encode(claim),
                     kind    |-> ReceiptKind(plan)]
     IN  IF /\ Loads(kind, Call.inputs)
            /\ GuestAccepts(kind, Context(kind, entries), Records(entries),
                            Assumptions(entries))
         THEN /\ ledger' = ledger \cup {receipt}
              /\ openings' = openings \cup
                               {[claim |-> claim, records |-> Records(entries)]}
              /\ held' = receipt
              /\ phase' = IF ValidateVersion(claim) THEN "write receipt" ELSE "failed"
         ELSE /\ phase' = "failed"
              /\ UNCHANGED <<ledger, openings, held>>
  /\ UNCHANGED <<receiptFile, claimFile, proofFile, chainFile, plan, stack, resolved,
                 proofPaths, report, runs>>

WriteReceipt ==
  /\ phase = "write receipt"
  /\ receiptFile' = [receiptFile EXCEPT ![Base(plan, Call.path)] = Full(held)]
  /\ phase' = "write claim"
  /\ UNCHANGED <<ledger, openings, claimFile, proofFile, chainFile, plan, stack,
                 resolved, proofPaths, held, report, runs>>

(* Mutant: a claim file that is already there is kept.                     *)
WriteClaimOnce ==
  /\ phase = "write claim"
  /\ claimFile' = [claimFile EXCEPT ![Base(plan, Call.path)] =
                     IF @ = Absent THEN Full(PublicClaim(held)) ELSE @]
  /\ phase' = "read claim"
  /\ UNCHANGED <<ledger, openings, receiptFile, proofFile, chainFile, plan, stack,
                 resolved, proofPaths, held, report, runs>>

WriteClaim ==
  /\ phase = "write claim"
  /\ claimFile' = [claimFile EXCEPT ![Base(plan, Call.path)] = Full(PublicClaim(held))]
  /\ phase' = "read claim"
  /\ UNCHANGED <<ledger, openings, receiptFile, proofFile, chainFile, plan, stack,
                 resolved, proofPaths, held, report, runs>>

AfterProofs == IF plan.verifyFinal THEN "verify" ELSE "done"

(* The claim file is read back, and the call returns to its parent's.      *)
FinishNode ==
  /\ phase = "read claim"
  /\ LET file == claimFile[Base(plan, Call.path)]
     IN  IF ~Readable(file)
         THEN phase' = "failed" /\ UNCHANGED <<stack, resolved, report>>
         ELSE /\ resolved' =
                   [path \in DOMAIN resolved \cup {Call.path} |->
                      IF path = Call.path
                      THEN [inputs |-> Call.inputs, claim |-> file.data]
                      ELSE resolved[path]]
              /\ IF Len(stack) > 1
                 THEN /\ Resolve(Front(stack), Base(plan, Call.path))
                      /\ UNCHANGED report
                 ELSE /\ stack' = <<>>
                      /\ report' = [report EXCEPT !.topClaim = file.data]
                      /\ phase' = IF plan.disclosurePath # <<>> THEN "derive"
                                                                ELSE AfterProofs
  /\ held' = Nothing
  /\ UNCHANGED <<ledger, openings, receiptFile, claimFile, proofFile, chainFile,
                 plan, proofPaths, runs>>

-----------------------------------------------------------------------------
(* deriveNestedPlanChain and VerifyBatch *)

Depth     == Len(proofPaths)
Current   == SubSeq(plan.disclosurePath, 1, Depth)
LeafIndex == plan.disclosurePath[Depth + 1]

(* Mutant: always the first leaf.                                          *)
DisclosedFirst(kind, inputs) ==
  DeriveInclusion(kind, Records(Loaded(kind, inputs)), 0)

Disclosed(kind, inputs) ==
  DeriveInclusion(kind, Records(Loaded(kind, inputs)), LeafIndex)

Derive ==
  /\ phase = "derive"
  /\ LET kind   == NodeAt(plan, Current).kind
         inputs == resolved[Current].inputs
     IN  IF LeafIndex < Len(inputs) /\ Loads(kind, inputs)
         THEN held' = Disclosed(kind, inputs) /\ phase' = "write proof"
         ELSE phase' = "failed" /\ UNCHANGED held
  /\ UNCHANGED <<ledger, openings, receiptFile, claimFile, proofFile, chainFile,
                 plan, stack, resolved, proofPaths, report, runs>>

ProofPath == <<Base(plan, Current), Depth>>

(* Mutant: the level is not advanced.                                      *)
NextProofPathsStuck == proofPaths
NextProofPaths      == Append(proofPaths, ProofPath)

(* The proof is on disk by when the path turns out to lead past a leaf.    *)
WriteProof ==
  /\ phase = "write proof"
  /\ proofFile' = [proofFile EXCEPT ![ProofPath] = Full(held)]
  /\ proofPaths' = NextProofPaths
  /\ phase' = IF Len(proofPaths') = Len(plan.disclosurePath) THEN "bundle"
              ELSE IF Append(Current, LeafIndex) \in DOMAIN resolved THEN "derive"
              ELSE "failed"
  /\ held' = Nothing
  /\ UNCHANGED <<ledger, openings, receiptFile, claimFile, chainFile, plan, stack,
                 resolved, report, runs>>

Bundle ==
  /\ phase = "bundle"
  /\ IF \A i \in 1..Depth : Readable(proofFile[proofPaths[i]])
     THEN /\ held' = [proofs |-> [i \in 1..Depth |-> proofFile[proofPaths[i]].data]]
          /\ phase' = "write chain"
     ELSE phase' = "failed" /\ UNCHANGED held
  /\ UNCHANGED <<ledger, openings, receiptFile, claimFile, proofFile, chainFile,
                 plan, stack, resolved, proofPaths, report, runs>>

WriteChain ==
  /\ phase = "write chain"
  /\ chainFile' = Full(held.proofs)
  /\ report' = [report EXCEPT !.chain = TRUE]
  /\ phase' = AfterProofs
  /\ held' = Nothing
  /\ UNCHANGED <<ledger, openings, receiptFile, claimFile, proofFile, plan, stack,
                 resolved, proofPaths, runs>>

(* VerifyBatch of a receipt file, the claim file beside it and a bundled   *)
(* chain, when there is one.                                               *)
VerifyBatch(file, withChain) ==
  LET receipt == receiptFile[file]
  IN  /\ Readable(receipt)
      /\ receipt.data.image = BatchImage
      /\ Decodes(receipt.data.journal)
      /\ ValidateVersion(Decode(receipt.data.journal))
      /\ claimFile[file] = Full(PublicClaim(receipt.data))
      /\ withChain => /\ Readable(chainFile)
                      /\ VerifyBatchInclusionChain(Decode(receipt.data.journal),
                                                   chainFile.data)

VerifyFinal ==
  /\ phase = "verify"
  /\ IF VerifyBatch(Base(plan, <<>>), report.chain)
     THEN phase' = "done" /\ report' = [report EXCEPT !.verified = TRUE]
     ELSE phase' = "failed" /\ UNCHANGED report
  /\ UNCHANGED <<ledger, openings, receiptFile, claimFile, proofFile, chainFile,
                 plan, stack, resolved, proofPaths, held, runs>>

-----------------------------------------------------------------------------
(* Killed between two steps, or within a write: the file is left empty.    *)

Kill ==
  /\ ~Ended
  /\ phase' = "killed"
  /\ UNCHANGED <<ledger, openings, plan, stack, resolved, proofPaths, held, report, runs>>

KillBetween == Kill /\ UNCHANGED diskVars

KillWithin ==
  /\ Kill
  /\ \/ /\ phase = "write receipt"
        /\ receiptFile' = [receiptFile EXCEPT ![Base(plan, Call.path)] = Empty]
        /\ UNCHANGED <<claimFile, proofFile, chainFile>>
     \/ /\ phase = "write claim"
        /\ claimFile' = [claimFile EXCEPT ![Base(plan, Call.path)] = Empty]
        /\ UNCHANGED <<receiptFile, proofFile, chainFile>>
     \/ /\ phase = "write proof"
        /\ proofFile' = [proofFile EXCEPT ![ProofPath] = Empty]
        /\ UNCHANGED <<receiptFile, claimFile, chainFile>>
     \/ /\ phase = "write chain"
        /\ chainFile' = Empty
        /\ UNCHANGED <<receiptFile, claimFile, proofFile>>

Step ==
  \/ ProveInline \/ ResolveExternal \/ ProveNode
  \/ WriteReceipt \/ WriteClaim \/ FinishNode
  \/ Derive \/ WriteProof \/ Bundle \/ WriteChain
  \/ VerifyFinal

Next == (\E p \in Plans : StartPlan(p)) \/ Step \/ KillBetween \/ KillWithin

(* One goroutine runs an invocation from its start, and nothing it calls   *)
(* waits for anybody else.                                                 *)
Spec == Init /\ [][Next]_planVars /\ WF_planVars(Step)

-----------------------------------------------------------------------------
(* What a plan asks for, read off the manifest without running it.         *)

(* The receipt of leaf i of a node, given the claims of the nodes below.   *)
ChildReceipt(p, claims, path, i) ==
  IF Inline(p, path, i)
  THEN [image   |-> BatchImage,
        journal |-> Encode(claims[Append(path, i)]),
        kind    |-> ReceiptKind(p)]
  ELSE External[LeafAt(p, path, i).file]

RecordsOf(p, claims, path) ==
  [i \in 1..Len(NodeAt(p, path).leaves) |->
     DirectRecord(NodeAt(p, path).kind, DirectKind(p, path, i - 1),
                  PublicClaim(ChildReceipt(p, claims, path, i - 1)))]

ContextOf(p, claims, path) ==
  IF NodeAt(p, path).kind = LeafKindHeterogeneousEnvelopeV1
  THEN PolicyDigest ELSE ChildReceipt(p, claims, path, 0).image

(* The claim of every node, from those of its children.                    *)
PlannedClaims(p) ==
  LET claims[path \in DOMAIN p.nodes] ==
        GuestClaim(NodeAt(p, path).kind, ContextOf(p, claims, path),
                   RecordsOf(p, claims, path))
  IN  claims

PlannedClaim(p, path)    == PlannedClaims(p)[path]
PlannedRecords(p, path)  == RecordsOf(p, PlannedClaims(p), path)
PlannedContext(p, path)  == ContextOf(p, PlannedClaims(p), path)
PlannedReceipt(p, path, i) == ChildReceipt(p, PlannedClaims(p), path, i)

Leaves(p, path) == 0..(Len(NodeAt(p, path).leaves) - 1)

(* The guest accepts the node, and it is the receipt of the child itself,  *)
(* not of another one with the same journal, that attests each record.     *)
NodeProvable(p, path) ==
  LET kind    == NodeAt(p, path).kind
      context == PlannedContext(p, path)
      records == PlannedRecords(p, path)
  IN  /\ \A i \in Leaves(p, path) :
           Inline(p, path, i) \/ LeafAt(p, path, i).file \in DOMAIN External
      /\ GuestAccepts(kind, context, records,
                      {PlannedReceipt(p, path, i) : i \in Leaves(p, path)})
      /\ \A i \in Leaves(p, path) :
           Resolved({PlannedReceipt(p, path, i)},
                    RecordImage(kind, context, records[i + 1]),
                    RecordJournal(kind, records[i + 1]))

Provable(p) == \A path \in DOMAIN p.nodes : NodeProvable(p, path)

(* The disclosure path leads from node to node, and to a leaf of the last. *)
Disclosable(p) ==
  \A k \in 1..Len(p.disclosurePath) :
    LET above == SubSeq(p.disclosurePath, 1, k - 1)
    IN  /\ above \in DOMAIN p.nodes
        /\ p.disclosurePath[k] < Len(NodeAt(p, above).leaves)

Achievable(p) == Provable(p) /\ Disclosable(p)

-----------------------------------------------------------------------------
(* The calls on the stack are the ancestors of the node at hand, each one  *)
(* at the leaf that the next call was made for; what is resolved are nodes *)
(* of the plan whose inline children were resolved before them.            *)
NTypeOK ==
  /\ \A i \in 1..Len(stack) :
       /\ Len(stack[i].path) = i - 1
       /\ i > 1 => stack[i].path = Append(stack[i - 1].path, Len(stack[i - 1].inputs))
  /\ \A path \in DOMAIN resolved :
       LET node == NodeAt(plan, path)
       IN  /\ Len(resolved[path].inputs) = Len(node.leaves)
           /\ \A i \in 1..Len(node.leaves) :
                Inline(plan, path, i - 1) => Append(path, i - 1) \in DOMAIN resolved
  /\ \A r \in ledger : r.kind \in {"composite", "succinct"}
  /\ runs \in 0..MaxRuns

(* nested_plan.go:220-252: the run fails exactly when the guest would      *)
(* refuse a node of the tree or the disclosure path leads nowhere: not     *)
(* because of files that an earlier run left half-written, of the order    *)
(* the nodes are proved in or of a check of the wrapper's own, and never   *)
(* at the final verification.                                              *)
OutcomeAsPlanned ==
  /\ phase = "done"   => Achievable(plan)
  /\ phase = "failed" => ~Achievable(plan)

(* What a finished run reports, and leaves on disk, is the batch that the  *)
(* manifest describes, and it verifies whether or not that was asked for.  *)
TopAsPlanned ==
  phase = "done" =>
    /\ report.topClaim = [image   |-> BatchImage,
                          journal |-> Encode(PlannedClaim(plan, <<>>))]
    /\ VerifyBatch(Base(plan, <<>>), FALSE)
    /\ claimFile[Base(plan, <<>>)] = Full(report.topClaim)

(* The bundled chain is derived from the files of the nodes after they     *)
(* were all proved.  It shows, under the reported claim, the records along *)
(* the disclosure path of the manifest.                                    *)
ChainDisclosesPlan ==
  phase = "done" /\ plan.disclosurePath # <<>> =>
    /\ VerifyBatch(Base(plan, <<>>), TRUE)
    /\ Len(chainFile.data) = Len(plan.disclosurePath)
    /\ \A k \in 1..Len(plan.disclosurePath) :
         LET path == SubSeq(plan.disclosurePath, 1, k - 1)
         IN  /\ ChainClaims(Decode(report.topClaim.journal), chainFile.data)[k]
                  = PlannedClaim(plan, path)
             /\ chainFile.data[k].leafJournal
                  = PlannedRecords(plan, path)[plan.disclosurePath[k] + 1]

(* nested_plan.go:479-482: "The name encodes the node's position in the    *)
(* tree (as a dash-separated path of zero-padded indices) plus an optional *)
(* sanitized human-readable label."  So no node writes where another node  *)
(* of the tree has written, and the artifacts of a resolved node are its   *)
(* own for as long as the run reads them.                                  *)
ArtifactsKept ==
  \A path \in DOMAIN resolved :
    LET receipt == receiptFile[Base(plan, path)]
    IN  /\ claimFile[Base(plan, path)] = Full(resolved[path].claim)
        /\ Readable(receipt)
        /\ PublicClaim(receipt.data) = resolved[path].claim

(* The wrapper makes receipts only as the proof system lets a guest run    *)
(* make them.                                                              *)
ImplementsLedger == Ledger!Spec

(* A plan that can be carried out is, unless its process is killed: the    *)
(* recursion and the walk down the disclosure path come to an end.         *)
AchievablePlanCompletes ==
  (~Ended /\ Achievable(plan)) ~> (phase \in {"done", "killed"})
=============================================================================
