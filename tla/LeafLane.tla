------------------------------ MODULE LeafLane ------------------------------
(***************************************************************************)
(* The three leaf lanes of the host: Execute, Prove and Verify of the      *)
(* Taproot, hardened-xpriv and hardened-xpub runners, as processes that    *)
(* share a directory of receipts and claim.json files.  As in BatchLane,   *)
(* nothing is locked, a file is truncated and then filled, and a process   *)
(* may be killed between any two steps.                                    *)
(*                                                                         *)
(* Every lane uses its own guest (the default of --guest); a lane is also  *)
(* the image ID of its guest.  The ledger holds, with each receipt that    *)
(* exists, the private stdin it was proved from, which no step reads.      *)
(***************************************************************************)
EXTENDS LeafClaims, ArtifactFile

CONSTANTS
  Processes,       \* invocations that may run at the same time
  Slots,           \* pairs of a receipt path and a claim.json path
  Lanes,           \* the lanes whose operations are started
  Witnesses,       \* [Lanes -> set of witness configurations]
  Expectations,    \* [Lanes -> set of expectations of Verify]
  Foreign,         \* [Lanes -> set of stdins that other provers try]
  ReceiptKinds,    \* values of --receipt-kind, "" when it is not given
  MaxRuns          \* bound on the invocations started

ASSUME LanesAssumption        == Lanes \subseteq {"taproot", "xpriv", "xpub"}
ASSUME ReceiptKindsAssumption == ReceiptKinds \subseteq {"", "composite", "succinct"}
ASSUME MaxRunsAssumption      == MaxRuns \in Nat

ASSUME WitnessesAssumption ==
  \A lane \in Lanes : \A w \in Witnesses[lane] :
    /\ IsPathText(w.path)
    /\ w.testVector \in BOOLEAN
    /\ lane = "taproot" => w.requireBIP86 \in BOOLEAN

\* paths of 32-bit words; the flags are any word
ASSUME ForeignAssumption ==
  "taproot" \in Lanes => \A stdin \in Foreign["taproot"] : stdin.path \in Seq(Indices)

ASSUME ExpectationsAssumption ==
  "taproot" \in Lanes => \A e \in Expectations["taproot"] :
    IsPathText(e.path) /\ e.requireBIP86 \in {"", "yes", "no"}

VARIABLES
  ledger,          \* {[receipt, stdin]}: what was proved, and from what
  receiptFile,     \* slot -> file holding a receipt [image, journal, kind]
  claimFile,       \* slot -> file holding a claim file
  pc, job,         \* each process's next step, and its configuration
  held,            \* the receipt it is about to write, or has read
  expected,        \* the claim file it has read
  exit,            \* how its last invocation ended
  report,          \* what its last Verify returned
  runs             \* invocations started

leafVars == <<ledger, receiptFile, claimFile, pc, job, held, expected, exit,
              report, runs>>

Nothing  == [type |-> "nothing"]
NoJob    == [op |-> "none"]

Init ==
  /\ ledger = {}
  /\ receiptFile = [s \in Slots |-> Absent]
  /\ claimFile = [s \in Slots |-> Absent]
  /\ pc = [p \in Processes |-> "idle"]
  /\ job = [p \in Processes |-> NoJob]
  /\ held = [p \in Processes |-> Nothing]
  /\ expected = [p \in Processes |-> Nothing]
  /\ exit = [p \in Processes |-> "none"]
  /\ report = [p \in Processes |-> Nothing]
  /\ runs = 0

ProveJobs(lane) ==
  [op : {"prove"}, lane : {lane}, witness : Witnesses[lane], slot : Slots,
   receiptKind : ReceiptKinds]
ExecuteJobs(lane) ==
  [op : {"execute"}, lane : {lane}, witness : Witnesses[lane]]
VerifyJobs(lane) ==
  [op : {"verify"}, lane : {lane}, slot : Slots, withClaim : BOOLEAN,
   expect : Expectations[lane]]

Jobs == UNION {ProveJobs(l) \cup ExecuteJobs(l) \cup VerifyJobs(l) : l \in Lanes}

-----------------------------------------------------------------------------
Goto(p, step) == pc' = [pc EXCEPT ![p] = step]

(* Mutant: the process keeps what the invocation read.                     *)
EndHolding(p, how) ==
  /\ Goto(p, "idle")
  /\ job' = [job EXCEPT ![p] = NoJob]
  /\ exit' = [exit EXCEPT ![p] = how]
  /\ UNCHANGED <<held, expected>>

End(p, how) ==
  /\ Goto(p, "idle")
  /\ job' = [job EXCEPT ![p] = NoJob]
  /\ held' = [held EXCEPT ![p] = Nothing]
  /\ expected' = [expected EXCEPT ![p] = Nothing]
  /\ exit' = [exit EXCEPT ![p] = how]

FirstStep(j) == IF j.op = "verify" THEN "read receipt" ELSE "build witness"

Start(p, j) ==
  /\ pc[p] = "idle"
  /\ runs < MaxRuns
  /\ Goto(p, FirstStep(j))
  /\ job' = [job EXCEPT ![p] = j]
  /\ exit' = [exit EXCEPT ![p] = "running"]
  /\ report' = [report EXCEPT ![p] = Nothing]
  /\ runs' = runs + 1
  /\ UNCHANGED <<ledger, receiptFile, claimFile, held, expected>>

Crash(p) ==
  /\ pc[p] # "idle"
  /\ End(p, "killed")
  /\ UNCHANGED <<ledger, receiptFile, claimFile, report, runs>>

(* A receipt proved elsewhere, from a stdin that no host checked, is put   *)
(* into a slot, with its claim.json or without.                            *)
Deliver(lane, stdin, s) ==
  /\ runs < MaxRuns
  /\ LeafGuestAccepts(lane, stdin)
  /\ LET receipt == [image |-> lane, journal |-> LeafGuestJournal(lane, stdin),
                     kind  |-> "composite"]
     IN  /\ ledger' = ledger \cup {[receipt |-> receipt, stdin |-> stdin]}
         /\ receiptFile' = [receiptFile EXCEPT ![s] = Full(receipt)]
         /\ \E file \in {claimFile[s], Full(ClaimFileOf(receipt))} :
              claimFile' = [claimFile EXCEPT ![s] = file]
  /\ runs' = runs + 1
  /\ UNCHANGED <<pc, job, held, expected, exit, report>>

-----------------------------------------------------------------------------
(* Execute and Prove up to the first write.  client.Execute and            *)
(* client.Prove fail unless the guest halts with 0.                        *)

RunExecute(p, lane) ==
  /\ pc[p] = "build witness" /\ job[p].op = "execute" /\ job[p].lane = lane
  /\ End(p, IF LeafGuestRuns(lane, job[p].witness) THEN "ok" ELSE "error")
  /\ UNCHANGED <<ledger, receiptFile, claimFile, report, runs>>

Execute(p)              == RunExecute(p, "taproot")
ExecuteHardenedXPriv(p) == RunExecute(p, "xpriv")
ExecuteHardenedXPub(p)  == RunExecute(p, "xpub")

(* The receipt exists before the claim is looked at.                       *)
RunProve(p, lane) ==
  /\ pc[p] = "build witness" /\ job[p].op = "prove" /\ job[p].lane = lane
  /\ UNCHANGED <<receiptFile, claimFile, report, runs>>
  /\ IF LeafGuestRuns(lane, job[p].witness)
     THEN LET stdin   == Stdin(lane, job[p].witness)
              receipt == [image   |-> lane,
                          journal |-> LeafGuestJournal(lane, stdin),
                          kind    |-> resolveReceiptKind(job[p].receiptKind)]
          IN  /\ ledger' = ledger \cup {[receipt |-> receipt, stdin |-> stdin]}
              /\ IF LeafClaimAccepted(lane, job[p].witness, receipt.journal.claim)
                 THEN /\ held' = [held EXCEPT ![p] = receipt]
                      /\ Goto(p, "truncate receipt")
                      /\ UNCHANGED <<job, expected, exit>>
                 ELSE End(p, "error")
     ELSE End(p, "error") /\ UNCHANGED ledger

Prove(p)              == RunProve(p, "taproot")
ProveHardenedXPriv(p) == RunProve(p, "xpriv")
ProveHardenedXPub(p)  == RunProve(p, "xpub")

-----------------------------------------------------------------------------
(* writeReceipt, then the lane's writer of claim.json *)

Write(p, step, next) ==
  /\ pc[p] = step
  /\ Goto(p, next)
  /\ UNCHANGED <<ledger, job, held, expected, exit, report, runs>>

TruncateReceipt(p) ==
  /\ Write(p, "truncate receipt", "fill receipt")
  /\ receiptFile' = [receiptFile EXCEPT ![job[p].slot] = Empty]
  /\ UNCHANGED claimFile

FillReceipt(p) ==
  /\ Write(p, "fill receipt", "truncate claim")
  /\ \E file \in Filled(receiptFile[job[p].slot], held[p]) :
       receiptFile' = [receiptFile EXCEPT ![job[p].slot] = file]
  /\ UNCHANGED claimFile

TruncateClaim(p) ==
  /\ Write(p, "truncate claim", "fill claim")
  /\ claimFile' = [claimFile EXCEPT ![job[p].slot] = Empty]
  /\ UNCHANGED receiptFile

FillClaim(p) ==
  /\ pc[p] = "fill claim"
  /\ \E file \in Filled(claimFile[job[p].slot], ClaimFileOf(held[p])) :
       claimFile' = [claimFile EXCEPT ![job[p].slot] = file]
  /\ End(p, "ok")
  /\ UNCHANGED <<ledger, receiptFile, report, runs>>

-----------------------------------------------------------------------------
(* Verify: the receipt, then claim.json when --claim-in names it, then the *)
(* verification and the comparisons.                                       *)

ReadReceipt(p) ==
  /\ pc[p] = "read receipt"
  /\ UNCHANGED <<ledger, receiptFile, claimFile, report, runs>>
  /\ LET file == receiptFile[job[p].slot]
     IN  IF Readable(file)
         THEN /\ held' = [held EXCEPT ![p] = file.data]
              /\ Goto(p, IF job[p].withClaim THEN "read claim" ELSE "verify")
              /\ UNCHANGED <<job, expected, exit>>
         ELSE End(p, "error")

ReadClaim(p) ==
  /\ pc[p] = "read claim"
  /\ UNCHANGED <<ledger, receiptFile, claimFile, report, runs>>
  /\ LET file == claimFile[job[p].slot]
     IN  IF Readable(file)
         THEN /\ expected' = [expected EXCEPT ![p] = file.data]
              /\ Goto(p, "verify")
              /\ UNCHANGED <<job, held, exit>>
         ELSE End(p, "error")

(* What process p has read and been told passes.                           *)
Passes(p) ==
  /\ job[p].withClaim \/ HasExpectations(job[p].lane, job[p].expect)
  /\ held[p].image = job[p].lane
  /\ DecodesLeaf(job[p].lane, held[p].journal)
  /\ job[p].withClaim => MatchesClaimFile(job[p].lane, expected[p], held[p])
  /\ MeetsExpectations(job[p].lane, job[p].expect, held[p].journal.claim)

RunVerify(p, lane) ==
  /\ pc[p] = "verify" /\ job[p].lane = lane
  /\ IF Passes(p)
     THEN /\ report' = [report EXCEPT ![p] =
               [lane |-> lane, claim |-> held[p].journal.claim,
                expect |-> job[p].expect, file |-> expected[p]]]
          /\ End(p, "ok")
     ELSE End(p, "error") /\ UNCHANGED report
  /\ UNCHANGED <<ledger, receiptFile, claimFile, runs>>

Verify(p)              == RunVerify(p, "taproot")
VerifyHardenedXPriv(p) == RunVerify(p, "xpriv")
VerifyHardenedXPub(p)  == RunVerify(p, "xpub")

-----------------------------------------------------------------------------
Step(p) ==
  \/ Execute(p) \/ ExecuteHardenedXPriv(p) \/ ExecuteHardenedXPub(p)
  \/ Prove(p) \/ ProveHardenedXPriv(p) \/ ProveHardenedXPub(p)
  \/ TruncateReceipt(p) \/ FillReceipt(p) \/ TruncateClaim(p) \/ FillClaim(p)
  \/ ReadReceipt(p) \/ ReadClaim(p)
  \/ Verify(p) \/ VerifyHardenedXPriv(p) \/ VerifyHardenedXPub(p)

Next ==
  \/ \E p \in Processes :
       \/ \E j \in Jobs : Start(p, j)
       \/ Step(p)
       \/ Crash(p)
  \/ \E lane \in Lanes : \E stdin \in Foreign[lane], s \in Slots :
       Deliver(lane, stdin, s)

Spec == Init /\ [][Next]_leafVars

-----------------------------------------------------------------------------
LTypeOK ==
  /\ \A x \in ledger : x.receipt.kind \in {"composite", "succinct"}
  /\ \A p \in Processes :
       /\ (job[p] = NoJob) <=> (pc[p] = "idle")
       /\ pc[p] = "idle" => held[p] = Nothing /\ expected[p] = Nothing
       /\ pc[p] = "verify" => (expected[p] # Nothing <=> job[p].withClaim)
       /\ exit[p] \in {"none", "running", "ok", "error", "killed"}
       /\ report[p] # Nothing => exit[p] = "ok"
  /\ runs \in 0..MaxRuns

(* docs/claim.md:67-74, 98-125: a receipt attests that its private witness *)
(* derives the public keys.  When its claim says that BIP-86 is required,  *)
(* the private path has the BIP-86 shape; a hardened-xpriv receipt is over *)
(* one hardened step and a hardened-xpub one over hardened steps only.     *)
StatementsHold ==
  \A x \in ledger :
    LET claim == x.receipt.journal.claim
    IN  /\ x.receipt.image = "taproot" =>
             /\ RequiresBIP86(claim.flags) => BIP86Path(x.stdin.path)
             /\ claim.taprootOutputKey = TaprootOutputKey(Child("taproot", x.stdin))
        /\ x.receipt.image = "xpriv" => x.stdin.index >= HardenedKeyStart
        /\ x.receipt.image = "xpub" =>
             \A i \in 1..Len(x.stdin.path) : x.stdin.path[i] >= HardenedKeyStart

(* runner.go:158-160 and its siblings: when Verify succeeds, there is a    *)
(* receipt of the lane's own guest whose private witness is as the         *)
(* expectations and the claim.json say, whatever mixture of old and new    *)
(* files was read, and although the verifier sees no path.                 *)
ReportTruthful ==
  \A p \in Processes : report[p] # Nothing =>
    \E x \in ledger :
      /\ x.receipt.image = report[p].lane
      /\ x.receipt.journal.claim = report[p].claim
      /\ Describes(report[p].lane, report[p].expect, x.stdin)
      /\ report[p].file # Nothing => report[p].file = ClaimFileOf(x.receipt)

(* A receipt with the claim.json of the same claim, or with expectations   *)
(* that describe its witness, is not refused (a path and a path commitment *)
(* may not both be expected: claim_support.go:177-182).                    *)
TruthAccepted ==
  \A p \in Processes :
    LET lane == job[p].lane
        e    == job[p].expect
    IN  /\ pc[p] = "verify"
        /\ job[p].withClaim \/ HasExpectations(lane, e)
        /\ job[p].withClaim => expected[p] = ClaimFileOf(held[p])
        /\ \E x \in ledger : /\ x.receipt = held[p]
                            /\ x.receipt.image = lane
                            /\ Describes(lane, e, x.stdin)
        /\ lane = "taproot" => /\ e.pathCommitment = Unset \/ ~e.path.given
                               /\ Parses(e.path) /\ Proper(e.path)
        => Passes(p)

(* The checks on a witness are written once in the host and once in the    *)
(* guest.  On a configuration that can be read, they agree but for the two *)
(* sizes that only the guest looks at (guest/main.go:46 and 60,            *)
(* guest_hardened_xpub/main.go:56): the host neither starts a proof that   *)
(* the guest will refuse nor refuses one that would succeed.               *)
WellFormed(lane, w) ==
  /\ ~w.testVector /\ w.path.given /\ Parses(w.path)
  /\ IF lane = "taproot" THEN w.seed \notin {"", "?"}
                         ELSE w.key \notin {"", "?"} /\ w.chain \notin {"", "?"}
  /\ lane = "xpriv" => Len(w.path.steps) = 1

FitsGuest(lane, stdin) ==
  /\ lane = "taproot" => stdin.seed \notin IllSizedSeeds
  /\ lane # "xpriv" => Len(stdin.path) <= MaxPathDepth

HostAgreesWithGuest ==
  \A p \in Processes :
    LET lane == job[p].lane
        w    == job[p].witness
    IN  pc[p] = "build witness" /\ WellFormed(lane, w) =>
          (/\ Resolves(lane, w)
           /\ FitsGuest(lane, Stdin(lane, w))) <=> LeafGuestAccepts(lane, Stdin(lane, w))

(* docs/claim.md:102-104: "I know a parent BIP-32 xpriv and chain code     *)
(* such that, after one or more hardened child derivation steps, the       *)
(* resulting child xpub and chain code are exactly these public bytes."    *)
XPubTakesAStep ==
  \A x \in ledger : x.receipt.image = "xpub" => x.stdin.path # <<>>
=============================================================================
