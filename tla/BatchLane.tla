----------------------------- MODULE BatchLane ------------------------------
(***************************************************************************)
(* The host side of the batch lane: concurrent invocations of the command  *)
(* line tool (each an operating-system process with a Runner of its own)   *)
(* that share a directory of artifacts.  A slot is a receipt path and the  *)
(* claim.json path beside it; a proof slot is the path of an inclusion     *)
(* proof.  Nothing is locked, a file is written by truncating and then     *)
(* filling it, and a process may be killed between any two steps.          *)
(*                                                                         *)
(*   leaf     Prove and ProveHardenedXPriv                                 *)
(*   prove    ProveBatch          execute  ExecuteBatch                    *)
(*   derive   DeriveBatchInclusionProof                                    *)
(*   verify   VerifyBatch                                                  *)
(*                                                                         *)
(* The step that runs a guest extends the ledger of BatchLedger, whose     *)
(* receipts are the files' contents but can outlive them.  Receipts of     *)
(* foreign programs, and of leaves proved elsewhere, are there at first.   *)
(***************************************************************************)
EXTENDS BatchLoader, FiniteSets, SequencesExt

CONSTANTS
  BatchImage, LeafImages, ForeignImages,
  Bodies, Kinds, ReceiptKinds, Given, Forged, MaxLeaves,
  Processes,      \* invocations that may run at the same time
  Slots,          \* artifact pairs
  ProofSlots,     \* inclusion proof files
  Ops,            \* the operations that are started
  GivenSlots,     \* [subset of Slots -> Given]: the artifacts on disk at first
  MaxRuns         \* bound on the invocations started

ASSUME GivenSlotsAssumption ==
  /\ DOMAIN GivenSlots \subseteq Slots
  /\ \A s \in DOMAIN GivenSlots : GivenSlots[s] \in Given

VARIABLES
  ledger, openings,      \* the receipts that exist (BatchLedger)
  receiptFile,           \* slot -> file holding a receipt
  claimFile,             \* slot -> file holding [image, journal]
  proofFile,             \* proof slot -> file holding an inclusion
  pc, job,               \* each process's next step, and its configuration
  loaded,                \* direct children, or inclusions, it has read
  held,                  \* what it has just read or is about to write
  exit,                  \* how its last invocation ended
  report,                \* what its last VerifyBatch returned
  runs                   \* invocations started

diskVars == <<receiptFile, claimFile, proofFile>>
laneVars == <<ledger, openings, receiptFile, claimFile, proofFile,
              pc, job, loaded, held, exit, report, runs>>

Ledger == INSTANCE BatchLedger

ASSUME ImagesAssumption ==
  BatchImage \notin LeafImages /\ ForeignImages \cap (LeafImages \cup {BatchImage}) = {}
ASSUME ForgedAssumption       == \A journal \in Forged : Decodes(journal)
ASSUME GivenAssumption        ==
  Given \subseteq Ledger!LeafReceipts \cup Ledger!ForeignReceipts
ASSUME ReceiptKindsAssumption == ReceiptKinds \subseteq {"composite", "succinct"}
ASSUME BoundsAssumption       == MaxLeaves \in Nat /\ MaxRuns \in Nat

Nothing  == [type |-> "nothing"]
NoJob    == [op |-> "none"]
NoReport == [claims |-> <<>>, inclusions |-> <<>>]

LaneInit ==
  /\ ledger = Given
  /\ openings = {}
  /\ receiptFile = [s \in Slots |-> IF s \in DOMAIN GivenSlots
                                    THEN Full(GivenSlots[s]) ELSE Absent]
  /\ claimFile = [s \in Slots |-> IF s \in DOMAIN GivenSlots
                                  THEN Full(PublicClaim(GivenSlots[s])) ELSE Absent]
  /\ proofFile = [s \in ProofSlots |-> Absent]
  /\ pc = [p \in Processes |-> "idle"]
  /\ job = [p \in Processes |-> NoJob]
  /\ loaded = [p \in Processes |-> <<>>]
  /\ held = [p \in Processes |-> Nothing]
  /\ exit = [p \in Processes |-> [op |-> "none", how |-> "none"]]
  /\ report = [p \in Processes |-> NoReport]
  /\ runs = 0

-----------------------------------------------------------------------------
(* The configurations of the operations.  Only a heterogeneous parent has  *)
(* a direct kind per input (0 otherwise), and it may be missing.           *)

Inputs(kind) ==
  [slot : Slots,
   directKind : IF kind = LeafKindHeterogeneousEnvelopeV1
                THEN SupportedLeafKinds \cup {0} ELSE {0}]

LeafJobs ==
  [op : {"leaf"}, image : LeafImages, body : Bodies, out : Slots,
   receiptKind : ReceiptKinds]

InputLists(kind) == BoundedSeq(Inputs(kind), MaxLeaves)

ExecuteJobs ==
  UNION {[op : {"execute"}, kind : {k}, inputs : InputLists(k)] : k \in Kinds}

ProveJobs ==
  UNION {[op : {"prove"}, kind : {k}, inputs : InputLists(k), out : Slots,
          receiptKind : ReceiptKinds] : k \in Kinds}

DeriveJobs ==
  UNION {[op : {"derive"}, kind : {k}, inputs : InputLists(k), out : ProofSlots,
          leafIndex : 0..MaxLeaves] : k \in Kinds}

(* --claim-in is optional.                                                 *)
VerifyJobs ==
  [op : {"verify"}, slot : Slots, withClaim : BOOLEAN,
   proofs : BoundedSeq(ProofSlots, MaxLeaves)]

Jobs ==
  {j \in LeafJobs \cup ExecuteJobs \cup ProveJobs \cup DeriveJobs \cup VerifyJobs :
     j.op \in Ops}

-----------------------------------------------------------------------------
(* Steps of a process *)

Goto(p, step) == pc' = [pc EXCEPT ![p] = step]

(* Mutant: the buffer of the invocation outlives it.                       *)
EndHolding(p, how) ==
  /\ Goto(p, "idle")
  /\ job' = [job EXCEPT ![p] = NoJob]
  /\ loaded' = [loaded EXCEPT ![p] = <<>>]
  /\ exit' = [exit EXCEPT ![p] = [op |-> job[p].op, how |-> how]]
  /\ UNCHANGED held

End(p, how) ==
  /\ Goto(p, "idle")
  /\ job' = [job EXCEPT ![p] = NoJob]
  /\ loaded' = [loaded EXCEPT ![p] = <<>>]
  /\ held' = [held EXCEPT ![p] = Nothing]
  /\ exit' = [exit EXCEPT ![p] = [op |-> job[p].op, how |-> how]]

FirstStep(j) ==
  CASE j.op = "leaf"   -> "leaf guest"
    [] j.op = "verify" -> "verify receipt"
    [] OTHER           -> "load claim"

Start(p, j) ==
  /\ pc[p] = "idle"
  /\ runs < MaxRuns
  /\ Goto(p, FirstStep(j))
  /\ job' = [job EXCEPT ![p] = j]
  /\ exit' = [exit EXCEPT ![p] = [op |-> j.op, how |-> "running"]]
  /\ report' = [report EXCEPT ![p] = NoReport]
  /\ runs' = runs + 1
  /\ UNCHANGED <<ledger, openings, receiptFile, claimFile, proofFile, loaded, held>>

Crash(p) ==
  /\ pc[p] # "idle"
  /\ End(p, "killed")
  /\ UNCHANGED <<ledger, openings, receiptFile, claimFile, proofFile, report, runs>>

-----------------------------------------------------------------------------
(* loadBatchLeaves: per input its claim.json, then its receipt *)

Input(p) == job[p].inputs[Len(loaded[p]) + 1]

LoadClaim(p) ==
  /\ pc[p] = "load claim"
  /\ UNCHANGED <<ledger, openings, receiptFile, claimFile, proofFile, report, runs>>
  /\ IF /\ job[p].inputs # <<>>
        /\ Readable(claimFile[Input(p).slot])
        /\ ClaimAccepted(job[p].kind, Input(p).directKind, loaded[p],
                         claimFile[Input(p).slot].data)
     THEN /\ held' = [held EXCEPT ![p] = claimFile[Input(p).slot].data]
          /\ Goto(p, "load receipt")
          /\ UNCHANGED <<job, loaded, exit>>
     ELSE End(p, "error")

LoadReceipt(p) ==
  /\ pc[p] = "load receipt"
  /\ UNCHANGED <<ledger, openings, receiptFile, claimFile, proofFile, report, runs>>
  /\ LET file == receiptFile[Input(p).slot]
     IN  IF ReceiptAccepted(file, held[p])
         THEN /\ loaded' = [loaded EXCEPT ![p] = Append(loaded[p],
                   [record  |-> DirectRecord(job[p].kind, Input(p).directKind, held[p]),
                    receipt |-> file.data])]
              /\ held' = [held EXCEPT ![p] = Nothing]
              /\ Goto(p, IF Len(loaded'[p]) = Len(job[p].inputs)
                         THEN "loaded" ELSE "load claim")
              /\ UNCHANGED <<job, exit>>
         ELSE End(p, IF file = Absent THEN "no receipt" ELSE "error")

-----------------------------------------------------------------------------
(* Running a guest.  client.Execute and client.Prove fail unless the guest *)
(* halts with 0; the journal is decoded and its version checked before     *)
(* anything is written, by when the receipt already exists.                *)

GuestRuns(p) ==
  GuestAccepts(job[p].kind, Context(job[p].kind, loaded[p]), Records(loaded[p]),
               Assumptions(loaded[p]))

(* Mutant: the policy digest is committed as the context of every kind.    *)
GuestOutputAnyContext(p) ==
  GuestClaim(job[p].kind, PolicyDigest, Records(loaded[p]))

GuestOutput(p) ==
  GuestClaim(job[p].kind, Context(job[p].kind, loaded[p]), Records(loaded[p]))

ExecuteBatch(p) ==
  /\ pc[p] = "loaded" /\ job[p].op = "execute"
  /\ End(p, IF GuestRuns(p) /\ ValidateVersion(GuestOutput(p)) THEN "ok" ELSE "error")
  /\ UNCHANGED <<ledger, openings, receiptFile, claimFile, proofFile, report, runs>>

ProveBatch(p) ==
  /\ pc[p] = "loaded" /\ job[p].op = "prove"
  /\ UNCHANGED <<receiptFile, claimFile, proofFile, report, runs>>
  /\ IF GuestRuns(p)
     THEN LET receipt == [image   |-> BatchImage,
                          journal |-> Encode(GuestOutput(p)),
                          kind    |-> job[p].receiptKind]
          IN  /\ ledger' = ledger \cup {receipt}
              /\ openings' = openings \cup {[claim   |-> GuestOutput(p),
                                             records |-> Records(loaded[p])]}
              /\ IF ValidateVersion(GuestOutput(p))
                 THEN /\ held' = [held EXCEPT ![p] = receipt]
                      /\ Goto(p, "truncate receipt")
                      /\ UNCHANGED <<job, loaded, exit>>
                 ELSE End(p, "error")
     ELSE /\ End(p, "error")
          /\ UNCHANGED <<ledger, openings>>

ProveLeaf(p) ==
  /\ pc[p] = "leaf guest"
  /\ LET receipt == [image   |-> job[p].image,
                     journal |-> LeafJournal(job[p].body),
                     kind    |-> job[p].receiptKind]
     IN  /\ ledger' = ledger \cup {receipt}
         /\ held' = [held EXCEPT ![p] = receipt]
  /\ Goto(p, "truncate receipt")
  /\ UNCHANGED <<openings, receiptFile, claimFile, proofFile, job, loaded, exit,
                 report, runs>>

-----------------------------------------------------------------------------
(* writeReceipt, then WriteBatchClaimFile (or the leaf lane's writer) *)

Write(p, step, next) ==
  /\ pc[p] = step
  /\ Goto(p, next)
  /\ UNCHANGED <<ledger, openings, job, loaded, held, exit, report, runs>>

TruncateReceipt(p) ==
  /\ Write(p, "truncate receipt", "fill receipt")
  /\ receiptFile' = [receiptFile EXCEPT ![job[p].out] = Empty]
  /\ UNCHANGED <<claimFile, proofFile>>

FillReceipt(p) ==
  /\ Write(p, "fill receipt", "truncate claim")
  /\ \E file \in Filled(receiptFile[job[p].out], held[p]) :
       receiptFile' = [receiptFile EXCEPT ![job[p].out] = file]
  /\ UNCHANGED <<claimFile, proofFile>>

TruncateClaim(p) ==
  /\ Write(p, "truncate claim", "fill claim")
  /\ claimFile' = [claimFile EXCEPT ![job[p].out] = Empty]
  /\ UNCHANGED <<receiptFile, proofFile>>

FillClaim(p) ==
  /\ pc[p] = "fill claim"
  /\ \E file \in Filled(claimFile[job[p].out], PublicClaim(held[p])) :
       claimFile' = [claimFile EXCEPT ![job[p].out] = file]
  /\ End(p, "ok")
  /\ UNCHANGED <<ledger, openings, receiptFile, proofFile, report, runs>>

-----------------------------------------------------------------------------
(* DeriveBatchInclusionProof after loadBatchLeaves *)

Derive(p) ==
  /\ pc[p] = "loaded" /\ job[p].op = "derive"
  /\ UNCHANGED <<ledger, openings, receiptFile, claimFile, proofFile, report, runs>>
  /\ IF job[p].leafIndex < Len(loaded[p])
     THEN /\ held' = [held EXCEPT ![p] =
                        DeriveInclusion(job[p].kind, Records(loaded[p]),
                                        job[p].leafIndex)]
          /\ Goto(p, "truncate proof")
          /\ UNCHANGED <<job, loaded, exit>>
     ELSE End(p, "error")

TruncateProof(p) ==
  /\ Write(p, "truncate proof", "fill proof")
  /\ proofFile' = [proofFile EXCEPT ![job[p].out] = Empty]
  /\ UNCHANGED <<receiptFile, claimFile>>

FillProof(p) ==
  /\ pc[p] = "fill proof"
  /\ \E file \in Filled(proofFile[job[p].out], held[p]) :
       proofFile' = [proofFile EXCEPT ![job[p].out] = file]
  /\ End(p, "ok")
  /\ UNCHANGED <<ledger, openings, receiptFile, claimFile, report, runs>>

-----------------------------------------------------------------------------
(* VerifyBatch: the receipt, then the claim file, then the proof files *)

VerifyReceipt(p) ==
  /\ pc[p] = "verify receipt"
  /\ UNCHANGED <<ledger, openings, receiptFile, claimFile, proofFile, report, runs>>
  /\ LET file == receiptFile[job[p].slot]
     IN  IF /\ Readable(file)
            /\ file.data.image = BatchImage
            /\ Decodes(file.data.journal)
            /\ ValidateVersion(Decode(file.data.journal))
         THEN /\ held' = [held EXCEPT ![p] = file.data]
              /\ Goto(p, IF job[p].withClaim THEN "verify claim" ELSE "read proofs")
              /\ UNCHANGED <<job, loaded, exit>>
         ELSE End(p, "error")

VerifyClaim(p) ==
  /\ pc[p] = "verify claim"
  /\ UNCHANGED <<ledger, openings, receiptFile, claimFile, proofFile, report, runs>>
  /\ IF claimFile[job[p].slot] = Full(PublicClaim(held[p]))
     THEN /\ Goto(p, "read proofs")
          /\ UNCHANGED <<job, loaded, held, exit>>
     ELSE End(p, "error")

ReadProof(p) ==
  /\ pc[p] = "read proofs"
  /\ Len(loaded[p]) < Len(job[p].proofs)
  /\ UNCHANGED <<ledger, openings, receiptFile, claimFile, proofFile, report, runs>>
  /\ LET file == proofFile[job[p].proofs[Len(loaded[p]) + 1]]
     IN  IF Readable(file)
         THEN /\ loaded' = [loaded EXCEPT ![p] = Append(loaded[p], file.data)]
              /\ UNCHANGED <<pc, job, held, exit>>
         ELSE End(p, "error")

VerifyChain(p) ==
  /\ pc[p] = "read proofs"
  /\ Len(loaded[p]) = Len(job[p].proofs)
  /\ LET claim == Decode(held[p].journal)
     IN  IF loaded[p] = <<>> \/ VerifyBatchInclusionChain(claim, loaded[p])
         THEN /\ report' = [report EXCEPT ![p] =
                   [claims     |-> IF loaded[p] = <<>> THEN <<claim>>
                                   ELSE ChainClaims(claim, loaded[p]),
                    inclusions |-> loaded[p]]]
              /\ End(p, "ok")
         ELSE /\ End(p, "error")
              /\ UNCHANGED report
  /\ UNCHANGED <<ledger, openings, receiptFile, claimFile, proofFile, runs>>

-----------------------------------------------------------------------------
Step(p) ==
  \/ LoadClaim(p) \/ LoadReceipt(p)
  \/ ExecuteBatch(p) \/ ProveBatch(p) \/ ProveLeaf(p)
  \/ TruncateReceipt(p) \/ FillReceipt(p) \/ TruncateClaim(p) \/ FillClaim(p)
  \/ Derive(p) \/ TruncateProof(p) \/ FillProof(p)
  \/ VerifyReceipt(p) \/ VerifyClaim(p) \/ ReadProof(p) \/ VerifyChain(p)

LaneNext ==
  \E p \in Processes :
    \/ \E j \in Jobs : Start(p, j)
    \/ Step(p)
    \/ Crash(p)

LaneSpec == LaneInit /\ [][LaneNext]_laneVars

-----------------------------------------------------------------------------
LaneTypeOK ==
  /\ \A r \in ledger : r.kind \in {"composite", "succinct"}
  /\ \A p \in Processes :
       /\ (job[p] = NoJob) <=> (pc[p] = "idle")
       /\ pc[p] = "idle" => loaded[p] = <<>> /\ held[p] = Nothing
       /\ exit[p].how \in {"none", "running", "ok", "error", "no receipt", "killed"}
       /\ job[p].op \in {"prove", "execute", "derive"}
            => Len(loaded[p]) <= Len(job[p].inputs)
       /\ pc[p] \in {"load claim", "load receipt"} /\ job[p].inputs # <<>>
            => Len(loaded[p]) < Len(job[p].inputs)
  /\ runs \in 0..MaxRuns

Loaders == {p \in Processes : job[p].op \in {"prove", "execute", "derive"}}

(* batch_support.go:369-379: whatever other processes write into the slots *)
(* between two reads, and whichever mixture of old and new files is left   *)
(* by a killed one, what a loader hands to the guest are records that      *)
(* exactly the succinct receipt read beside each of them attests, and all  *)
(* of one leaf guest unless the parent is heterogeneous.                   *)
LoadedGenuine ==
  \A p \in Loaders : \A i \in 1..Len(loaded[p]) :
    LET entry == loaded[p][i]
        kind  == job[p].kind
    IN  /\ entry.receipt \in ledger
        /\ entry.receipt.kind = "succinct"
        /\ entry.receipt.image
             = RecordImage(kind, Context(kind, loaded[p]), entry.record)
        /\ entry.receipt.journal = RecordJournal(kind, entry.record)

(* The checks that the host makes while loading and those of the guest are *)
(* written twice (batch_support.go:380-602, guest_batch/main.go:50-160):   *)
(* inputs that load never make the guest halt with 1 or leave an           *)
(* assumption unresolved after a proof was started, and the claim it       *)
(* commits passes the version check of the host.                           *)
GuestAgreesWithHost ==
  \A p \in Processes : pc[p] = "loaded" =>
    GuestRuns(p) /\ ValidateVersion(GuestOutput(p))

(* The image that a level of a report names for the record it discloses.   *)
DisclosedImage(rep, j) ==
  LET c == rep.claims[j]
  IN  RecordImage(c.leafClaimKind, c.leafGuestImageID, rep.inclusions[j].leafJournal)

(* VerifyBatch reads its receipt, claim and proof files at different       *)
(* times, and the proofs may have been derived before any of them was      *)
(* last replaced.  What it reports is backed all the same: every disclosed *)
(* record is in the batch it is reported for and has a succinct receipt,   *)
(* even one whose files are long overwritten.  That goes as far down as    *)
(* the image IDs reported are the batch guest's; VerifyBatch does not look *)
(* at them, and a foreign program's batch claim vouches for nothing.       *)
ReportBacked ==
  \A p \in Processes :
    /\ report[p].claims # <<>> =>
         \E r \in ledger : /\ r.image = BatchImage
                           /\ r.journal = Encode(report[p].claims[1])
    /\ \A k \in 1..Len(report[p].inclusions) :
         (\A j \in 1..(k - 1) : DisclosedImage(report[p], j) = BatchImage) =>
         LET c == report[p].claims[k]
             q == report[p].inclusions[k]
         IN  /\ \E o \in openings : /\ o.claim = c
                                   /\ q.leafIndex < Len(o.records)
                                   /\ q.leafJournal = o.records[q.leafIndex + 1]
             /\ Resolved(ledger, DisclosedImage(report[p], k),
                                 RecordJournal(c.leafClaimKind, q.leafJournal))

(* The lane implements the ledger: its processes, however they interleave, *)
(* add only the receipts that the proof system lets one guest run add.     *)
ImplementsLedger == Ledger!Spec
=============================================================================
