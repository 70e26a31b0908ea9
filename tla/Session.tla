------------------------------ MODULE Session ------------------------------
(***************************************************************************)
(* A user's session: command lines typed one after another, each taken     *)
(* from its words to its effect on the files.  It composes CommandLine,    *)
(* the three leaf lanes (LeafClaims) and the batch lane (BatchLoader),     *)
(* which meet in the artifact files only: one name space of paths, in      *)
(* which a file may hold anything and be read as anything.                 *)
(*                                                                         *)
(* A command is one step here; LeafLane and BatchLane interleave them.     *)
(* Any write may fail, or the process be killed in it, which leaves the    *)
(* same files.  A lane is also the image ID of its guest.                  *)
(* Every receipt is of a guest of the repository, which are all that these *)
(* commands can prove; files of foreign programs are left to BatchLane.    *)
(***************************************************************************)
EXTENDS CommandLine

CONSTANTS
  Lines,          \* the lines that are typed: [command, argv]
  Given,          \* leaf artifacts at first: [lane, stdin, kind, receipt, claim]
  MaxLeaves,      \* bound on the leaf claims of a line
  MaxWrites,      \* bound on the commands that write
  MaxFaults       \* bound on the writes that fail

VARIABLES
  ledger,         \* the receipts that exist
  openings,       \* [claim, records] of every batch that was proved
  witnesses,      \* [image, journal, stdin] of every leaf that was proved
  files,          \* path -> file, for the paths that were ever written
  last,           \* the last line, its exit status and what it reported
  writes, faults

sessionVars == <<ledger, openings, witnesses, files, last, writes, faults>>
proofVars   == <<ledger, openings, witnesses>>
diskVars    == <<files, writes, faults>>

Lanes      == {"taproot", "xpriv", "xpub"}
BatchImage == "batch"

LeafRecord(lane, stdin) ==
  LET journal == LeafGuestJournal(lane, stdin)
  IN  [type |-> IF lane = "xpub" THEN "xpub" ELSE "leaf", body |-> journal.claim]

JournalOf(record) == Journal(RecordSize(record), record.body)

(* The content of a file is a receipt, a claim (a claim.json of any lane), *)
(* an inclusion proof or a chain of them.                                  *)
Content(as, data) == [as |-> as, data |-> data]

-----------------------------------------------------------------------------
(* Reading.  A receipt is not JSON; JSON of another type leaves the fields *)
(* that it does not have at zero.                                          *)

File(path)         == IF path \in DOMAIN files THEN files[path] ELSE Absent
Holds(path, as)    == Readable(File(path)) /\ File(path).data.as = as
IsJSON(path)       == Readable(File(path)) /\ File(path).data.as # "receipt"
DataIn(path)       == File(path).data.data

(* What ReadClaimFile and its siblings make of a JSON file.                *)
ReadClaimFile(path) ==
  IF ~Holds(path, "claim") THEN [imageID |-> ""]
  ELSE LET claim == DataIn(path)
       IN  IF claim.image \in Lanes
           THEN ClaimFileOf([image |-> claim.image, journal |-> JournalOf(claim.journal)])
           ELSE [imageID |-> claim.image]

BlankInclusion ==
  [leafClaimKind |-> 0, merkleHashKind |-> 0, leafIndex |-> 0, leafCount |-> 0,
   leafJournal |-> [type |-> "none"], siblings |-> <<>>, directLeafKind |-> 0,
   directLeafImageID |-> NoImage]

(* A batch claim.json has some fields of an inclusion proof.               *)
ReadBatchInclusionProofFile(path) ==
  IF Holds(path, "inclusion") THEN DataIn(path)
  ELSE IF Holds(path, "claim") /\ DataIn(path).image = BatchImage
  THEN LET claim == Decode(DataIn(path).journal)
       IN  [BlankInclusion EXCEPT !.leafClaimKind = claim.leafClaimKind,
                                  !.merkleHashKind = claim.merkleHashKind,
                                  !.leafCount = claim.leafCount]
  ELSE BlankInclusion

ReadBatchInclusionChainFile(path) ==
  IF Holds(path, "chain") THEN DataIn(path).inclusions ELSE <<>>

(* readGenericLeafClaimFile wants an image_id and a journal_hex.           *)
GenericClaims(inputs) ==
  [s \in {i.slot : i \in Range(inputs)} |->
     IF Holds(s.claim, "claim") THEN Full(DataIn(s.claim)) ELSE Absent]

LeafReceiptFiles(inputs) ==
  [s \in {i.slot : i \in Range(inputs)} |->
     IF Holds(s.receipt, "receipt") THEN Full(DataIn(s.receipt)) ELSE Absent]

-----------------------------------------------------------------------------
(* How a command ends *)

NoReport == [of |-> "nothing"]

Exit(line, code, report) == last' = [line |-> line, exit |-> code, report |-> report]

Fails(line)   == Exit(line, 1, NoReport) /\ UNCHANGED diskVars
Refuses(line) == Fails(line) /\ UNCHANGED proofVars
Reports(line, accepted, report) ==
  /\ IF accepted THEN Exit(line, 0, report) ELSE Exit(line, 1, NoReport)
  /\ UNCHANGED <<proofVars, diskVars>>

Put(disk, path, file) ==
  [p \in DOMAIN disk \cup {path} |-> IF p = path THEN file ELSE disk[p]]

(* The disk after the first k of the writes.                               *)
Written(puts, k) ==
  LET after[i \in Nat] ==
        IF i = 0 THEN files
        ELSE Put(after[i - 1], puts[i].path, Full(puts[i].content))
  IN  after[k]

(* Every write succeeds, or one does not and may leave its file empty.     *)
WriteFiles(line, puts) ==
  /\ writes < MaxWrites
  /\ writes' = writes + 1
  /\ \/ /\ files' = Written(puts, Len(puts))
        /\ Exit(line, 0, NoReport)
        /\ UNCHANGED faults
     \/ /\ faults < MaxFaults
        /\ \E k \in 0..(Len(puts) - 1) :
             \/ files' = Written(puts, k)
             \/ files' = Put(Written(puts, k), puts[k + 1].path, Empty)
        /\ Exit(line, 1, NoReport)
        /\ faults' = faults + 1

(* Mutants: the two paths are mixed up; claim.json holds the receipt kind. *)
ArtifactsSwapped(args, receipt) ==
  <<[path |-> args.claimOut, content |-> Content("receipt", receipt)],
    [path |-> args.receiptOut, content |-> Content("claim", PublicClaim(receipt))]>>

ArtifactsWithKind(args, receipt) ==
  <<[path |-> args.receiptOut, content |-> Content("receipt", receipt)],
    [path |-> args.claimOut, content |-> Content("claim", receipt)]>>

(* writeReceipt, then the lane's writer of claim.json; nothing compares    *)
(* the two paths.                                                          *)
Artifacts(args, receipt) ==
  <<[path |-> args.receiptOut, content |-> Content("receipt", receipt)],
    [path |-> args.claimOut, content |-> Content("claim", PublicClaim(receipt))]>>

ProofAsked(args) ==
  /\ args.receiptOut # ""
  /\ args.claimOut # ""
  /\ resolveReceiptKind(args.receiptKind) \in {"composite", "succinct"}

-----------------------------------------------------------------------------
(* The leaf commands *)

ParsedExecute(lane, argv) ==
  CASE lane = "taproot" -> parseExecuteArgs(argv)
    [] lane = "xpriv"   -> parseExecuteHardenedXPrivArgs(argv)
    [] lane = "xpub"    -> parseExecuteHardenedXPubArgs(argv)

ParsedProve(lane, argv) ==
  CASE lane = "taproot" -> parseProveArgs(argv)
    [] lane = "xpriv"   -> parseProveHardenedXPrivArgs(argv)
    [] lane = "xpub"    -> parseProveHardenedXPubArgs(argv)

ParsedVerify(lane, argv) ==
  CASE lane = "taproot" -> parseVerifyArgs(argv)
    [] lane = "xpriv"   -> parseVerifyHardenedXPrivArgs(argv)
    [] lane = "xpub"    -> parseVerifyHardenedXPubArgs(argv)

RunExecute(lane, line) ==
  LET args == ParsedExecute(lane, line.argv)
  IN  Reports(line, args.ok /\ LeafGuestRuns(lane, args.witness), NoReport)

RunProve(lane, line) ==
  LET args == ParsedProve(lane, line.argv)
  IN  IF args.ok /\ ProofAsked(args) /\ LeafGuestRuns(lane, args.witness)
      THEN LET stdin   == Stdin(lane, args.witness)
               record  == LeafRecord(lane, stdin)
               receipt == [image |-> lane, journal |-> record,
                           kind  |-> resolveReceiptKind(args.receiptKind)]
           IN  /\ ledger' = ledger \cup {receipt}
               /\ witnesses' = witnesses \cup
                    {[image |-> lane, journal |-> record, stdin |-> stdin]}
               /\ UNCHANGED openings
               /\ IF LeafClaimAccepted(lane, args.witness, record.body)
                  THEN WriteFiles(line, Artifacts(args, receipt))
                  ELSE Fails(line)
      ELSE Refuses(line)

(* Verify of a lane succeeds on these arguments.                           *)
Verifies(lane, args) ==
  /\ args.ok
  /\ Holds(args.receiptIn, "receipt")
  /\ args.claimIn # "" => IsJSON(args.claimIn)
  /\ args.claimIn # "" \/ HasExpectations(lane, args.expect)
  /\ LET receipt == DataIn(args.receiptIn)
         journal == JournalOf(receipt.journal)
     IN  /\ receipt.image = lane
         /\ DecodesLeaf(lane, journal)
         /\ args.claimIn # "" =>
              MatchesClaimFile(lane, ReadClaimFile(args.claimIn),
                               [image |-> lane, journal |-> journal])
         /\ MeetsExpectations(lane, args.expect, journal.claim)

RunVerify(lane, line) ==
  LET args == ParsedVerify(lane, line.argv)
  IN  Reports(line, Verifies(lane, args), [of |-> lane])

Execute(line)              == line.command = "execute" /\ RunExecute("taproot", line)
ExecuteHardenedXPriv(line) == line.command = "execute-hardened-xpriv" /\ RunExecute("xpriv", line)
ExecuteHardenedXPub(line)  == line.command = "execute-hardened-xpub" /\ RunExecute("xpub", line)
Prove(line)                == line.command = "prove" /\ RunProve("taproot", line)
ProveHardenedXPriv(line)   == line.command = "prove-hardened-xpriv" /\ RunProve("xpriv", line)
ProveHardenedXPub(line)    == line.command = "prove-hardened-xpub" /\ RunProve("xpub", line)
Verify(line)               == line.command = "verify" /\ RunVerify("taproot", line)
VerifyHardenedXPriv(line)  == line.command = "verify-hardened-xpriv" /\ RunVerify("xpriv", line)
VerifyHardenedXPub(line)   == line.command = "verify-hardened-xpub" /\ RunVerify("xpub", line)

-----------------------------------------------------------------------------
(* The batch commands *)

Loads(leaves) ==
  /\ leaves.ok
  /\ loadBatchLeaves(leaves.kind, leaves.inputs, GenericClaims(leaves.inputs),
                     LeafReceiptFiles(leaves.inputs))

Entries(leaves) ==
  LoadedLeaves(leaves.kind, leaves.inputs, GenericClaims(leaves.inputs),
               LeafReceiptFiles(leaves.inputs))

(* Mutant: the policy digest is committed as the context of every kind.    *)
BatchOutputAnyContext(leaves) ==
  GuestClaim(leaves.kind, PolicyDigest, Records(Entries(leaves)))

BatchOutput(leaves) ==
  GuestClaim(leaves.kind, Context(leaves.kind, Entries(leaves)), Records(Entries(leaves)))

BatchRuns(leaves) ==
  /\ Loads(leaves)
  /\ GuestAccepts(leaves.kind, Context(leaves.kind, Entries(leaves)),
                  Records(Entries(leaves)), Assumptions(Entries(leaves)))

ExecuteBatch(line) ==
  /\ line.command = "execute-batch"
  /\ LET leaves == parseExecuteBatchArgs(line.argv).leaves
     IN  Reports(line, BatchRuns(leaves) /\ ValidateVersion(BatchOutput(leaves)), NoReport)

ProveBatch(line) ==
  /\ line.command = "prove-batch"
  /\ LET args   == parseProveBatchArgs(line.argv)
         leaves == args.leaves
     IN  IF ProofAsked(args) /\ BatchRuns(leaves)
         THEN LET receipt == [image   |-> BatchImage,
                              journal |-> Encode(BatchOutput(leaves)),
                              kind    |-> resolveReceiptKind(args.receiptKind)]
              IN  /\ ledger' = ledger \cup {receipt}
                  /\ openings' = openings \cup {[claim   |-> BatchOutput(leaves),
                                                 records |-> Records(Entries(leaves))]}
                  /\ UNCHANGED witnesses
                  /\ IF ValidateVersion(BatchOutput(leaves))
                     THEN WriteFiles(line, Artifacts(args, receipt))
                     ELSE Fails(line)
         ELSE Refuses(line)

DeriveBatchInclusion(line) ==
  /\ line.command = "derive-batch-inclusion"
  /\ UNCHANGED proofVars
  /\ LET args    == parseDeriveBatchInclusionArgs(line.argv)
         leaves  == args.leaves
     IN  IF /\ args.proofOut # ""
            /\ Loads(leaves)
            /\ args.leafIndex < Len(leaves.inputs)
         THEN WriteFiles(line, <<[path    |-> args.proofOut,
                                  content |-> Content("inclusion",
                                    DeriveInclusion(leaves.kind, Records(Entries(leaves)),
                                                    args.leafIndex))]>>)
         ELSE Fails(line)

(* loadBatchInclusionProofs fails, or returns the proofs it has read.      *)
CanLoadProofs(inclusionIns, chainIn) ==
  IF chainIn # ""
  THEN /\ inclusionIns = <<>>
       /\ IsJSON(chainIn)
       /\ ReadBatchInclusionChainFile(chainIn) # <<>>
  ELSE \A path \in Range(inclusionIns) : IsJSON(path)

loadBatchInclusionProofs(inclusionIns, chainIn) ==
  IF chainIn # "" THEN ReadBatchInclusionChainFile(chainIn)
  ELSE [i \in 1..Len(inclusionIns) |-> ReadBatchInclusionProofFile(inclusionIns[i])]

(* The proofs are bundled as they are, in the order of the line.           *)
BundleBatchInclusionChain(line) ==
  /\ line.command = "bundle-batch-inclusion-chain"
  /\ UNCHANGED proofVars
  /\ LET args == parseBundleBatchInclusionChainArgs(line.argv)
     IN  IF /\ args.ok
            /\ args.chainOut # ""
            /\ args.inclusionIns # <<>>
            /\ CanLoadProofs(args.inclusionIns, "")
         THEN WriteFiles(line, <<[path    |-> args.chainOut,
                                  content |-> Content("chain",
                                    [inclusions |-> loadBatchInclusionProofs(
                                                      args.inclusionIns, "")])]>>)
         ELSE Fails(line)

VerifiesBatch(args) ==
  /\ args.ok
  /\ Holds(args.receiptIn, "receipt")
  /\ LET receipt == DataIn(args.receiptIn)
         proofs  == loadBatchInclusionProofs(args.inclusionIns, args.chainIn)
     IN  /\ receipt.image = BatchImage
         /\ Decodes(receipt.journal)
         /\ ValidateVersion(Decode(receipt.journal))
         /\ args.claimIn # "" =>
              /\ Holds(args.claimIn, "claim")
              /\ DataIn(args.claimIn) = PublicClaim(receipt)
         /\ CanLoadProofs(args.inclusionIns, args.chainIn)
         /\ proofs # <<>> => VerifyBatchInclusionChain(Decode(receipt.journal), proofs)

VerifyBatch(line) ==
  /\ line.command = "verify-batch"
  /\ LET args   == parseVerifyBatchArgs(line.argv)
         proofs == loadBatchInclusionProofs(args.inclusionIns, args.chainIn)
         claim  == Decode(DataIn(args.receiptIn).journal)
     IN  Reports(line, VerifiesBatch(args),
                 [of         |-> "batch",
                  claims     |-> IF proofs = <<>> THEN <<claim>> ELSE ChainClaims(claim, proofs),
                  inclusions |-> proofs])

-----------------------------------------------------------------------------
Commands ==
  {"execute", "prove", "verify",
   "execute-hardened-xpriv", "prove-hardened-xpriv", "verify-hardened-xpriv",
   "execute-hardened-xpub", "prove-hardened-xpub", "verify-hardened-xpub",
   "execute-batch", "prove-batch", "derive-batch-inclusion",
   "bundle-batch-inclusion-chain", "verify-batch"}

(* The one other command, run-nested-batch-plan, is modelled in NestedPlan.*)
ASSUME LinesAssumption ==
  \A line \in Lines :
    /\ line.command # "run-nested-batch-plan"
    /\ Len(line.argv) \in Nat
    /\ \A i \in 1..Len(line.argv) : line.argv[i].flag # "guest"

ASSUME GivenAssumption ==
  \A g \in Given :
    /\ g.lane \in Lanes
    /\ g.kind \in {"composite", "succinct"}
    /\ LeafGuestAccepts(g.lane, g.stdin)
    /\ g.lane = "taproot" => g.stdin.path \in Seq(Indices)

ASSUME BoundsAssumption ==
  /\ MaxLeaves \in Nat /\ MaxWrites \in Nat /\ MaxFaults \in Nat
  /\ \A line \in Lines :
       line.command = "prove-batch" =>
         Len(parseProveBatchArgs(line.argv).leaves.inputs) <= MaxLeaves

Usage(line) ==
  /\ line.command \notin Commands
  /\ Exit(line, 2, NoReport)
  /\ UNCHANGED <<proofVars, diskVars>>

GivenReceipt(g) ==
  [image |-> g.lane, journal |-> LeafRecord(g.lane, g.stdin), kind |-> g.kind]

Init ==
  /\ ledger = {GivenReceipt(g) : g \in Given}
  /\ openings = {}
  /\ witnesses = {[image |-> g.lane, journal |-> LeafRecord(g.lane, g.stdin),
                   stdin |-> g.stdin] : g \in Given}
  /\ files = [path \in {g.receipt : g \in Given} \cup {g.claim : g \in Given} |->
                LET g == CHOOSE h \in Given : path \in {h.receipt, h.claim}
                IN  Full(IF path = g.receipt
                         THEN Content("receipt", GivenReceipt(g))
                         ELSE Content("claim", PublicClaim(GivenReceipt(g))))]
  /\ last = [line |-> [command |-> "", argv |-> <<>>], exit |-> 0, report |-> NoReport]
  /\ writes = 0
  /\ faults = 0

Type(line) ==
  \/ Execute(line) \/ ExecuteHardenedXPriv(line) \/ ExecuteHardenedXPub(line)
  \/ Prove(line) \/ ProveHardenedXPriv(line) \/ ProveHardenedXPub(line)
  \/ Verify(line) \/ VerifyHardenedXPriv(line) \/ VerifyHardenedXPub(line)
  \/ ExecuteBatch(line) \/ ProveBatch(line) \/ DeriveBatchInclusion(line)
  \/ BundleBatchInclusionChain(line) \/ VerifyBatch(line)
  \/ Usage(line)

Next == \E line \in Lines : Type(line)

Spec == Init /\ [][Next]_sessionVars

-----------------------------------------------------------------------------
(* What a user means by a line: the texts typed for a flag, in order, up   *)
(* to the first word that stands for nothing.                              *)

Switches(line) ==
  {"use-test-vector"} \cup
  IF line.command \in {"execute", "prove"} THEN {"require-bip86"} ELSE {}

WantsText(line, i) ==
  LET word == line.argv[i]
  IN  IsFlag(word) /\ ~word.attached /\ word.flag \notin Switches(line)

Stray(line, i) == ~IsFlag(line.argv[i]) /\ (i = 1 \/ ~WantsText(line, i - 1))

\* no flag is left without its text
Complete(line) ==
  \A i \in 1..Len(line.argv) :
    WantsText(line, i) => i < Len(line.argv) /\ ~IsFlag(line.argv[i + 1])

TypedAt(line, name) ==
  {i \in 1..Len(line.argv) : /\ line.argv[i].flag = name
                             /\ \A j \in 1..i : ~Stray(line, j)}

Typed(line, name) ==
  InOrder([i \in TypedAt(line, name) |->
             IF line.argv[i].attached THEN line.argv[i].text ELSE line.argv[i + 1].text])

LastTyped(line, name) ==
  LET texts == Typed(line, name) IN IF texts = <<>> THEN "" ELSE Last(texts)

(* docs/claim.md: verify wants a BIP-86 claim unless it is told otherwise. *)
MeantExpectations(lane, line) ==
  IF lane = "taproot"
  THEN [pubKey         |-> HexText(LastTyped(line, "expected-pubkey")),
        pathCommitment |-> HexText(LastTyped(line, "expected-path-commitment")),
        path           |-> PathText(LastTyped(line, "expected-path")),
        requireBIP86   |-> IF LastTyped(line, "require-bip86") \in FalseTexts
                           THEN "no" ELSE "yes"]
  ELSE [key       |-> HexText(LastTyped(line, IF lane = "xpriv"
                                              THEN "expected-child-private-key"
                                              ELSE "expected-compressed-pubkey")),
        chainCode |-> HexText(LastTyped(line, "expected-chain-code"))]

VerifyCommand(lane) ==
  CASE lane = "taproot" -> "verify"
    [] lane = "xpriv"   -> "verify-hardened-xpriv"
    [] lane = "xpub"    -> "verify-hardened-xpub"

ProveCommand(lane) ==
  CASE lane = "taproot" -> "prove"
    [] lane = "xpriv"   -> "prove-hardened-xpriv"
    [] lane = "xpub"    -> "prove-hardened-xpub"

-----------------------------------------------------------------------------
(* Whatever was overwritten, mixed up or left half-written, a file that    *)
(* holds a receipt holds one that was proved, and a claim.json holds the   *)
(* public part of one.  Only a command that succeeded reports anything.    *)
STypeOK ==
  /\ \A path \in DOMAIN files :
       /\ Holds(path, "receipt") => DataIn(path) \in ledger
       /\ Holds(path, "claim") => \E r \in ledger : DataIn(path) = PublicClaim(r)
  /\ last.exit \in {0, 1, 2}
  /\ last.report # NoReport => last.exit = 0
  /\ writes \in 0..MaxWrites
  /\ faults \in 0..MaxFaults

(* runner.go:158-160, from the words typed: when a verify command of a     *)
(* lane succeeds, the receipt it was pointed to was proved from a private  *)
(* witness that is as every word typed before a stray one says (and        *)
(* BIP-86, unless told otherwise), and claim.json, if named, is of it.     *)
VerifiedAsTyped ==
  \A lane \in Lanes :
    LET line      == last.line
        receiptIn == LastTyped(line, "receipt-in")
        claimIn   == LastTyped(line, "claim-in")
    IN  line.command = VerifyCommand(lane) /\ last.exit = 0 /\ Complete(line) =>
          \E w \in witnesses :
            /\ w.image = lane
            /\ Describes(lane, MeantExpectations(lane, line), w.stdin)
            /\ Holds(receiptIn, "receipt")
            /\ DataIn(receiptIn).image = lane
            /\ DataIn(receiptIn).journal = w.journal
            /\ claimIn # "" =>
                 File(claimIn) = Full(Content("claim", [image |-> lane, journal |-> w.journal]))

(* docs/batch-merkle-system.md, "Nested Sparse Disclosure", down to the    *)
(* secret: when verify-batch accepts a chain, its last record was          *)
(* committed by the guest that the claim above it names (its envelope,     *)
(* under a mixed parent) from a private witness, or is itself a batch that *)
(* was proved.  The declared leaf kind is compared by size alone           *)
(* (batch_support.go:485) and so says nothing; the image does.             *)
ChainReachesWitness ==
  last.line.command = "verify-batch" /\ last.exit = 0 /\ last.report.inclusions # <<>> =>
    LET claim   == Last(last.report.claims)
        record  == Last(last.report.inclusions).leafJournal
        image   == RecordImage(claim.leafClaimKind, claim.leafGuestImageID, record)
        journal == RecordJournal(claim.leafClaimKind, record)
    IN  IF image = BatchImage
        THEN \E o \in openings : Encode(o.claim) = journal
        ELSE \E w \in witnesses :
               /\ w.image = image
               /\ w.journal = journal
               /\ journal.body = LeafGuestJournal(image, w.stdin).claim

(* batch.go:440-461 pairs three lists by position.  A batch that is proved *)
(* holds the claims typed, in that order, each attested by the receipt     *)
(* typed at its place and wrapped as the direct kind typed at its place;   *)
(* an inclusion proof discloses the claim typed at --leaf-index, as long   *)
(* as that number fits 32 bits (batch.go:361).                             *)
ClaimTyped(line, i) == DataIn(Typed(line, "leaf-claim")[i])

InputsAsTyped(line, kind, records) ==
  /\ Len(Typed(line, "leaf-claim")) = Len(records)
  /\ \A i \in 1..Len(records) :
       LET receipt == DataIn(Typed(line, "leaf-receipt")[i])
       IN  /\ ClaimTyped(line, i) = PublicClaim(receipt)
           /\ receipt.kind = "succinct"
           /\ RecordJournal(kind, records[i]) = ClaimTyped(line, i).journal
           /\ kind = LeafKindHeterogeneousEnvelopeV1 =>
                /\ records[i].verifyImageID = receipt.image
                /\ records[i].directLeafKind
                     = ParseBatchLeafKindName(Typed(line, "direct-leaf-kind")[i])

InputsInOrder ==
  [][LET line  == last'.line
         index == LastTyped(line, "leaf-index")
     IN  Complete(line) =>
           /\ \A o \in openings' \ openings :
                InputsAsTyped(line, o.claim.leafClaimKind, o.records)
           /\ /\ line.command = "derive-batch-inclusion"
              /\ last'.exit = 0
              /\ index # "" /\ UintTexts[index] < 2 * HardenedKeyStart
              => LET proof == files'[LastTyped(line, "proof-out")].data.data
                 IN  RecordJournal(proof.leafClaimKind, proof.leafJournal)
                       = ClaimTyped(line, UintTexts[index] + 1).journal
    ]_sessionVars

(* batch_runner.go:140 and its siblings: a proof takes minutes and is in   *)
(* memory only until it is written.  A command that proved something       *)
(* leaves the receipt in the file it was told to, unless a write failed;   *)
(* in particular no check after the proof throws it away.  (Given the same *)
(* path twice, it is overwritten by its claim.json.)                       *)
ProofsAreKept ==
  [][\A r \in ledger' \ ledger :
       LET line       == last'.line
           receiptOut == LastTyped(line, "receipt-out")
       IN  \/ faults' # faults
           \/ /\ last'.exit = 0
              /\ \/ ~Complete(line)
                 \/ receiptOut = LastTyped(line, "claim-out")
                 \/ files'[receiptOut] = Full(Content("receipt", r))
    ]_sessionVars

(* What a prove command leaves under two paths is what the verify command  *)
(* of its lane takes under the same two paths, with the policy the claim   *)
(* declares.                                                               *)
PairWords(line) ==
  <<Flag("receipt-in"), Plain(LastTyped(line, "receipt-out")),
    Flag("claim-in"), Plain(LastTyped(line, "claim-out"))>>

PolicyWords(lane, receipt) ==
  IF lane = "taproot" /\ ~RequiresBIP86(receipt.journal.body.flags)
  THEN <<Flag("require-bip86"), Plain("false")>> ELSE <<>>

ProvedPairUsable ==
  LET line    == last.line
      receipt == LastTyped(line, "receipt-out")
  IN  last.exit = 0 /\ Complete(line) /\ receipt # LastTyped(line, "claim-out") =>
        /\ \A lane \in Lanes : line.command = ProveCommand(lane) =>
             /\ Holds(receipt, "receipt")
             /\ Verifies(lane, ParsedVerify(lane,
                  PairWords(line) \o PolicyWords(lane, DataIn(receipt))))
        /\ line.command = "prove-batch" =>
             VerifiesBatch(parseVerifyBatchArgs(PairWords(line)))

(* batch_support.go:380-602 against guest_batch/main.go:50-160, from the   *)
(* command line: once its inputs load, a batch command fails only by a     *)
(* write, so no prover run is started in vain.                             *)
LoadableBatchProves ==
  [][LET line == last'.line
         args == parseProveBatchArgs(line.argv)
     IN  last'.exit # 0 /\ faults' = faults =>
           /\ line.command = "execute-batch" => ~Loads(parseExecuteBatchArgs(line.argv).leaves)
           /\ line.command = "prove-batch" => ~Loads(args.leaves) \/ ~ProofAsked(args)
    ]_sessionVars

(* The receipts of a session are those of BatchLedger, by whatever files   *)
(* they got to one another; the hardened-xpub ones stay outside.           *)
ProvableBodies ==
  {LeafRecord(g.lane, g.stdin).body : g \in Given} \cup
  UNION {{LeafRecord(lane, Stdin(lane, ParsedProve(lane, line.argv).witness)).body :
            line \in {l \in Lines : /\ l.command = (IF lane = "taproot" THEN "prove"
                                                    ELSE "prove-hardened-xpriv")
                                   /\ ParsedProve(lane, l.argv).ok
                                   /\ LeafGuestRuns(lane, ParsedProve(lane, l.argv).witness)}} :
         lane \in {"taproot", "xpriv"}}

Ledger ==
  INSTANCE BatchLedger WITH
    ledger        <- {r \in ledger : r.image # "xpub"},
    LeafImages    <- {"taproot", "xpriv"},
    ForeignImages <- {},
    Bodies        <- ProvableBodies,
    Forged        <- {},
    Kinds         <- SupportedLeafKinds,
    ReceiptKinds  <- {"composite", "succinct"},
    Given         <- {GivenReceipt(g) : g \in {g \in Given : g.lane # "xpub"}},
    MaxLeaves     <- MaxLeaves

\* Ledger!Spec, with the stuttering steps first
ImplementsLedger ==
  Ledger!Init /\ [][UNCHANGED Ledger!ledgerVars \/ Ledger!Next]_sessionVars
=============================================================================
