-------------------------- MODULE LeafLane_proofs ---------------------------
(***************************************************************************)
(* The leaf lanes for any number of processes, slots and invocations, any  *)
(* witnesses and any expectations.                                         *)
(*                                                                         *)
(* A receipt is genuine: its guest accepted the stdin it is listed with    *)
(* and committed the journal.  What a process holds is a receipt that      *)
(* exists and the claim.json of a receipt that exists, not always of the   *)
(* same one; the comparisons of Verify are what brings the two together.   *)
(***************************************************************************)
EXTENDS LeafLane, Guests_proofs

-----------------------------------------------------------------------------
(* What exists was accepted by its guest.                                  *)

Genuine(x) ==
  LET image == x.receipt.image
  IN  /\ image \in Lanes
      /\ LeafGuestAccepts(image, x.stdin)
      /\ x.receipt.journal = LeafGuestJournal(image, x.stdin)
      /\ x.receipt.kind \in {"composite", "succinct"}
      /\ image = "taproot" => x.stdin.path \in Seq(Indices)

LEMMA LaneName == Lanes \subseteq LaneNames
BY LanesAssumption DEF LaneNames

LEMMA GenuineIs ==
  ASSUME NEW x, Genuine(x)
  PROVE  /\ FromLeafGuest(x.receipt.image, x.stdin)
         /\ x.receipt.journal = LeafGuestJournal(x.receipt.image, x.stdin)
         /\ \A e \in Expectations[x.receipt.image] : ReadableExpectations(x.receipt.image, e)
BY LaneName, ExpectationsAssumption DEF Genuine, FromLeafGuest, ReadableExpectations

(* What a process found the expectations to be met by is described by them.*)
LEMMA MetIsDescribed ==
  ASSUME NEW x, Genuine(x), NEW e \in Expectations[x.receipt.image],
         MeetsExpectations(x.receipt.image, e, x.receipt.journal.claim)
  PROVE  Describes(x.receipt.image, e, x.stdin)
BY GenuineIs, MeetingDescribes

(* The converse, for the texts that can be read and are not combined.      *)
LEMMA DescribedIsMet ==
  ASSUME NEW x, Genuine(x), NEW e \in Expectations[x.receipt.image],
         Describes(x.receipt.image, e, x.stdin),
         x.receipt.image = "taproot" =>
           /\ e.pathCommitment = Unset \/ ~e.path.given
           /\ Parses(e.path) /\ Proper(e.path)
  PROVE  MeetsExpectations(x.receipt.image, e, x.receipt.journal.claim)
BY GenuineIs, DescribedMeets

-----------------------------------------------------------------------------
(* Witnesses.                                                              *)

LEMMA LenOfOne == \A f : Len([i \in 1..1 |-> f[i]]) = 1
OBVIOUS

(* The two sets of checks on a witness that can be read.                   *)
LEMMA ChecksAgree ==
  ASSUME NEW lane \in Lanes, NEW w \in Witnesses[lane], WellFormed(lane, w)
  PROVE  (Resolves(lane, w) /\ FitsGuest(lane, Stdin(lane, w)))
           <=> LeafGuestAccepts(lane, Stdin(lane, w))
<1>1. CASE lane = "taproot"
  <2>1. w.requireBIP86 \in BOOLEAN
    BY <1>1, WitnessesAssumption
  <2>2. /\ w.seed \notin {"", "?"} /\ w.path.given /\ ~ w.testVector /\ Parses(w.path)
    BY <1>1 DEF WellFormed
  <2>3. resolveWitness(w) <=> (w.requireBIP86 => IsBIP86Path(ParseBIP32Path(w.path)))
    BY <2>2 DEF resolveWitness, DecodesHex, WitnessPath, IsBIP86Path, ValidateBIP86Path
  <2>4. /\ Stdin(lane, w).seed = w.seed /\ Stdin(lane, w).path = ParseBIP32Path(w.path)
        /\ Stdin(lane, w).flags = IF w.requireBIP86 THEN 1 ELSE 0
    BY <1>1, <2>2 DEF Stdin, BuildWitnessStdin, WitnessPath
  <2>5. RequiresBIP86(Stdin(lane, w).flags) <=> w.requireBIP86
    BY <2>4 DEF RequiresBIP86, ClaimFlagRequireBIP86
  <2> QED
    BY <1>1, <2>1, <2>3, <2>4, <2>5
       DEF Resolves, FitsGuest, LeafGuestAccepts, TaprootGuestAccepts
<1>2. CASE lane \in {"xpriv", "xpub"}
  <2> DEFINE path == ParseBIP32Path(w.path)
             parent == Parent(w.key, w.chain)
  <2>1. /\ w.key \notin {"", "?"} /\ w.chain \notin {"", "?"} /\ w.path.given
        /\ ~ w.testVector /\ Parses(w.path)
    BY <1>2 DEF WellFormed
  <2>2. /\ ResolvesParent(w) <=> ValidParent(parent)
        /\ ReducedParent(w) = parent /\ ReducedPath(w) = path
    BY <2>1 DEF ResolvesParent, DecodesHex, ReducedParent, ReducedPath
  <2>3. CASE lane = "xpub"
    BY <2>2, <2>3 DEF Resolves, FitsGuest, LeafGuestAccepts, XPubGuestAccepts, Stdin,
       BuildHardenedXPubWitnessStdin, resolveHardenedXPubWitness
  <2>4. CASE lane = "xpriv"
    <3>1. Len(path) = 1
      <4>1. Len(w.path.steps) = 1
        BY <2>4 DEF WellFormed
      <4>2. DOMAIN path = 1..1 /\ path = [i \in 1..1 |-> path[i]]
        BY <4>1 DEF ParseBIP32Path
      <4> HIDE DEF path
      <4> QED
        BY <4>2, LenOfOne
    <3> HIDE DEF path, parent
    <3>2. SingleHardenedChild(path) <=> SingleHardenedChild(<<path[1]>>)
      BY <3>1 DEF SingleHardenedChild
    <3> QED
      BY <2>2, <2>4, <3>2 DEF Resolves, FitsGuest, LeafGuestAccepts, XPrivGuestAccepts,
         Stdin, BuildHardenedXPrivWitnessStdin, resolveHardenedXPrivWitness
  <2> QED
    BY <1>2, <2>3, <2>4
<1> QED
  BY <1>1, <1>2, LaneName DEF LaneNames

-----------------------------------------------------------------------------
(* The inductive invariant.                                                *)

Outcomes == {"none", "running", "ok", "error", "killed"}

StepFitsJob(step, j) ==
  /\ step \in {"truncate receipt", "fill receipt", "truncate claim", "fill claim"}
       => j.op = "prove"
  /\ step = "build witness" => j.op \in {"prove", "execute"}
  /\ step \in {"read receipt", "read claim", "verify"} => j.op = "verify"
  /\ step = "read claim" => j.withClaim

HoldsReceipt(A, h) == \E x \in A : h = x.receipt
HoldsClaimFile(A, c) == \E x \in A : c = ClaimFileOf(x.receipt)

HoldingOK(A, step, j, h, c) ==
  /\ step \in {"truncate receipt", "fill receipt", "truncate claim", "fill claim",
               "read claim", "verify"} => HoldsReceipt(A, h)
  /\ step = "read claim" => c = Nothing
  /\ step = "verify" => IF j.withClaim THEN HoldsClaimFile(A, c) ELSE c = Nothing
  /\ step \in {"idle", "build witness", "read receipt"} => h = Nothing /\ c = Nothing
  /\ step \in {"truncate receipt", "fill receipt", "truncate claim", "fill claim"}
       => c = Nothing

ReportOK(A, rep) ==
  rep # Nothing =>
    \E x \in A :
      /\ x.receipt.image = rep.lane
      /\ x.receipt.journal.claim = rep.claim
      /\ Describes(rep.lane, rep.expect, x.stdin)
      /\ rep.file # Nothing => rep.file = ClaimFileOf(x.receipt)

ProcessOK(A, step, j, h, c, e, rep) ==
  /\ j \in Jobs \cup {NoJob}
  /\ j = NoJob <=> step = "idle"
  /\ e \in Outcomes
  /\ rep # Nothing => e = "ok"
  /\ step # "idle" => rep = Nothing
  /\ StepFitsJob(step, j)
  /\ HoldingOK(A, step, j, h, c)
  /\ ReportOK(A, rep)

ProcessesOK ==
  \A p \in Processes :
    ProcessOK(ledger, pc[p], job[p], held[p], expected[p], exit[p], report[p])

FilesOK ==
  /\ receiptFile = [s \in Slots |-> receiptFile[s]]
  /\ claimFile = [s \in Slots |-> claimFile[s]]
  /\ \A s \in Slots :
       /\ Readable(receiptFile[s]) => HoldsReceipt(ledger, receiptFile[s].data)
       /\ Readable(claimFile[s]) => HoldsClaimFile(ledger, claimFile[s].data)

ShapesOK ==
  /\ pc = [p \in Processes |-> pc[p]]
  /\ job = [p \in Processes |-> job[p]]
  /\ held = [p \in Processes |-> held[p]]
  /\ expected = [p \in Processes |-> expected[p]]
  /\ exit = [p \in Processes |-> exit[p]]
  /\ report = [p \in Processes |-> report[p]]

LeafInv ==
  /\ \A x \in ledger : Genuine(x)
  /\ runs \in 0..MaxRuns
  /\ ShapesOK
  /\ FilesOK
  /\ ProcessesOK

-----------------------------------------------------------------------------
(* Configurations.                                                         *)

LEMMA JobFacts ==
  ASSUME NEW j \in Jobs
  PROVE  /\ j.op \in {"prove", "execute", "verify"} /\ j.lane \in Lanes
         /\ j.op \in {"prove", "execute"} => j.witness \in Witnesses[j.lane]
         /\ j.op = "prove" => j.slot \in Slots /\ j.receiptKind \in ReceiptKinds
         /\ j.op = "verify" => /\ j.slot \in Slots /\ j.withClaim \in BOOLEAN
                               /\ j.expect \in Expectations[j.lane]
<1>1. PICK lane \in Lanes : \/ j \in ProveJobs(lane)
                            \/ j \in ExecuteJobs(lane)
                            \/ j \in VerifyJobs(lane)
  BY DEF Jobs
<1>2. CASE j \in ProveJobs(lane)
  BY <1>2 DEF ProveJobs
<1>3. CASE j \in ExecuteJobs(lane)
  BY <1>3 DEF ExecuteJobs
<1>4. CASE j \in VerifyJobs(lane)
  BY <1>4 DEF VerifyJobs
<1> QED
  BY <1>1, <1>2, <1>3, <1>4

LEMMA NoJobIsNoJob == NoJob.op = "none" /\ NoJob \notin Jobs
<1>1. NoJob.op = "none"
  BY DEF NoJob
<1> QED
  BY <1>1, JobFacts

-----------------------------------------------------------------------------
(* More receipts leave a process and a file as they are.                   *)

LEMMA ProcessGrows ==
  ASSUME NEW A, NEW B, A \subseteq B,
         NEW step, NEW j, NEW h, NEW c, NEW e, NEW rep,
         ProcessOK(A, step, j, h, c, e, rep)
  PROVE  ProcessOK(B, step, j, h, c, e, rep)
<1>1. HoldingOK(B, step, j, h, c)
  BY DEF ProcessOK, HoldingOK, HoldsReceipt, HoldsClaimFile
<1>2. ReportOK(B, rep)
  BY DEF ProcessOK, ReportOK
<1> QED
  BY <1>1, <1>2 DEF ProcessOK

LEMMA FilesGrow ==
  ASSUME FilesOK, ledger \subseteq ledger', UNCHANGED <<receiptFile, claimFile>>
  PROVE  FilesOK'
BY DEF FilesOK, HoldsReceipt, HoldsClaimFile

LEMMA IdleOK ==
  ASSUME NEW A, NEW e \in Outcomes, NEW rep, ReportOK(A, rep), rep # Nothing => e = "ok"
  PROVE  ProcessOK(A, "idle", NoJob, Nothing, Nothing, e, rep)
BY NoJobIsNoJob DEF ProcessOK, StepFitsJob, HoldingOK

(* One process moves; the others keep their values.                        *)
Others(p) ==
  \A q \in Processes \ {p} :
    /\ pc'[q] = pc[q] /\ job'[q] = job[q] /\ held'[q] = held[q]
    /\ expected'[q] = expected[q] /\ exit'[q] = exit[q] /\ report'[q] = report[q]

LEMMA OneMoves ==
  ASSUME ProcessesOK, NEW p \in Processes, Others(p), ledger \subseteq ledger',
         ProcessOK(ledger', pc'[p], job'[p], held'[p], expected'[p], exit'[p], report'[p])
  PROVE  ProcessesOK'
<1>1. ASSUME NEW q \in Processes \ {p}
      PROVE  ProcessOK(ledger', pc'[q], job'[q], held'[q], expected'[q], exit'[q], report'[q])
  <2>1. ProcessOK(ledger, pc[q], job[q], held[q], expected[q], exit[q], report[q])
    BY DEF ProcessesOK
  <2>2. ProcessOK(ledger', pc[q], job[q], held[q], expected[q], exit[q], report[q])
    BY <2>1, ProcessGrows
  <2> QED
    BY <2>2 DEF Others
<1> QED
  BY <1>1 DEF ProcessesOK

LEMMA AtEnd ==
  ASSUME ShapesOK, NEW p \in Processes, NEW how, End(p, how)
  PROVE  /\ pc'[p] = "idle" /\ job'[p] = NoJob /\ held'[p] = Nothing
         /\ expected'[p] = Nothing /\ exit'[p] = how
         /\ \A q \in Processes \ {p} :
              /\ pc'[q] = pc[q] /\ job'[q] = job[q] /\ held'[q] = held[q]
              /\ expected'[q] = expected[q] /\ exit'[q] = exit[q]
         /\ pc' = [q \in Processes |-> pc'[q]]
         /\ job' = [q \in Processes |-> job'[q]]
         /\ held' = [q \in Processes |-> held'[q]]
         /\ expected' = [q \in Processes |-> expected'[q]]
         /\ exit' = [q \in Processes |-> exit'[q]]
BY DEF ShapesOK, End, Goto

(* What is left to show of a step of process p that may add a receipt.     *)
LEMMA ProcessStep ==
  ASSUME LeafInv, NEW p \in Processes, Others(p), ShapesOK', FilesOK',
         ledger \subseteq ledger', \A x \in ledger' : Genuine(x), UNCHANGED runs,
         ProcessOK(ledger', pc'[p], job'[p], held'[p], expected'[p], exit'[p], report'[p])
  PROVE  LeafInv'
<1>1. ProcessesOK'
  BY OneMoves DEF LeafInv
<1>2. \A x \in ledger' : Genuine(x)'
  BY DEF Genuine
<1> QED
  BY <1>1, <1>2 DEF LeafInv

LEMMA FilesUnchanged ==
  ASSUME LeafInv, ledger \subseteq ledger', UNCHANGED <<receiptFile, claimFile>>
  PROVE  FilesOK'
BY FilesGrow DEF LeafInv

(* An invocation that ends without a report.                               *)
LEMMA EndIsQuiet ==
  ASSUME LeafInv, NEW p \in Processes, pc[p] # "idle",
         NEW how \in Outcomes, End(p, how), FilesOK',
         ledger \subseteq ledger', \A x \in ledger' : Genuine(x),
         UNCHANGED <<report, runs>>
  PROVE  LeafInv'
<1>1. ShapesOK /\ report[p] = Nothing
  BY DEF LeafInv, ProcessesOK, ProcessOK
<1>2. Others(p) /\ ShapesOK'
  BY <1>1, AtEnd DEF Others, ShapesOK
<1>3. ProcessOK(ledger', pc'[p], job'[p], held'[p], expected'[p], exit'[p], report'[p])
  BY <1>1, AtEnd, IdleOK DEF ReportOK
<1> QED
  BY <1>2, <1>3, ProcessStep

-----------------------------------------------------------------------------
(* The actions, one lemma each.                                            *)

LEMMA StartPreserves ==
  ASSUME LeafInv, NEW p \in Processes, NEW j \in Jobs, Start(p, j)
  PROVE  LeafInv'
<1>1. ProcessOK(ledger, pc[p], job[p], held[p], expected[p], exit[p], report[p])
  BY DEF LeafInv, ProcessesOK
<1>2. held[p] = Nothing /\ expected[p] = Nothing
  BY <1>1 DEF Start, ProcessOK, HoldingOK
<1>3. /\ pc'[p] = FirstStep(j) /\ job'[p] = j /\ held'[p] = Nothing
      /\ expected'[p] = Nothing /\ exit'[p] = "running" /\ report'[p] = Nothing
      /\ Others(p) /\ ShapesOK'
  BY <1>2 DEF Start, Goto, LeafInv, ShapesOK, Others
<1>4. j # NoJob /\ FirstStep(j) \in {"build witness", "read receipt"}
  BY NoJobIsNoJob DEF FirstStep
<1>5. StepFitsJob(FirstStep(j), j)
  BY JobFacts DEF FirstStep, StepFitsJob
<1>6. ProcessOK(ledger, FirstStep(j), j, Nothing, Nothing, "running", Nothing)
  BY <1>4, <1>5 DEF ProcessOK, HoldingOK, ReportOK, Outcomes
<1>7. FilesOK'
  BY FilesUnchanged DEF Start
<1>8. runs' \in 0..MaxRuns
  BY MaxRunsAssumption DEF Start, LeafInv
<1>9. UNCHANGED ledger
  BY DEF Start
<1>10. ProcessesOK'
  BY <1>3, <1>6, <1>9, OneMoves DEF LeafInv
<1>11. \A x \in ledger' : Genuine(x)'
  BY <1>9 DEF LeafInv, Genuine
<1> QED
  BY <1>3, <1>7, <1>8, <1>10, <1>11 DEF LeafInv

LEMMA CrashPreserves ==
  ASSUME LeafInv, NEW p \in Processes, Crash(p)
  PROVE  LeafInv'
<1>1. /\ ledger \subseteq ledger' /\ pc[p] # "idle" /\ End(p, "killed")
      /\ UNCHANGED <<report, runs>>
      /\ \A x \in ledger' : Genuine(x)
  BY DEF Crash, LeafInv
<1>2. FilesOK'
  BY FilesUnchanged DEF Crash
<1> QED
  BY <1>1, <1>2, EndIsQuiet DEF Outcomes

(* A receipt from another prover says no more than its guest checked.      *)
LEMMA DeliverPreserves ==
  ASSUME LeafInv, NEW lane \in Lanes, NEW stdin \in Foreign[lane], NEW s \in Slots,
         Deliver(lane, stdin, s)
  PROVE  LeafInv'
<1> DEFINE receipt == [image |-> lane, journal |-> LeafGuestJournal(lane, stdin),
                       kind  |-> "composite"]
           x == [receipt |-> receipt, stdin |-> stdin]
<1>1. PICK file \in {claimFile[s], Full(ClaimFileOf(receipt))} :
        claimFile' = [claimFile EXCEPT ![s] = file]
  BY DEF Deliver
<1>2. /\ ledger' = ledger \cup {x}
      /\ receiptFile' = [receiptFile EXCEPT ![s] = Full(receipt)]
      /\ LeafGuestAccepts(lane, stdin)
      /\ runs < MaxRuns /\ runs' = runs + 1
      /\ UNCHANGED <<pc, job, held, expected, exit, report>>
  BY DEF Deliver
<1>3. /\ x.receipt = receipt /\ x.stdin = stdin /\ receipt.image = lane
      /\ receipt.journal = LeafGuestJournal(lane, stdin) /\ receipt.kind = "composite"
  OBVIOUS
<1> HIDE DEF receipt, x
<1>4. Genuine(x)
  BY <1>2, <1>3, ForeignAssumption DEF Genuine
<1>5. HoldsReceipt(ledger', receipt) /\ HoldsClaimFile(ledger', ClaimFileOf(receipt))
  BY <1>2, <1>3 DEF HoldsReceipt, HoldsClaimFile
<1>6. ledger \subseteq ledger'
  BY <1>2
<1>7. FilesOK'
  <2>1. ASSUME NEW t \in Slots, Readable(receiptFile'[t])
        PROVE  HoldsReceipt(ledger', receiptFile'[t].data)
    BY <1>2, <1>5, <1>6, <2>1 DEF LeafInv, FilesOK, HoldsReceipt, Full
  <2>2. ASSUME NEW t \in Slots, Readable(claimFile'[t])
        PROVE  HoldsClaimFile(ledger', claimFile'[t].data)
    BY <1>1, <1>5, <1>6, <2>2 DEF LeafInv, FilesOK, HoldsClaimFile, Full
  <2>3. /\ receiptFile' = [t \in Slots |-> receiptFile'[t]]
        /\ claimFile' = [t \in Slots |-> claimFile'[t]]
    BY <1>1, <1>2 DEF LeafInv, FilesOK
  <2> QED
    BY <2>1, <2>2, <2>3 DEF FilesOK
<1>8. ProcessesOK'
  BY <1>2, <1>6, ProcessGrows DEF LeafInv, ProcessesOK
<1>9. runs' \in 0..MaxRuns /\ ShapesOK'
  BY <1>2, MaxRunsAssumption DEF LeafInv, ShapesOK
<1>10. \A y \in ledger' : Genuine(y)'
  BY <1>2, <1>4 DEF LeafInv, Genuine
<1> QED
  BY <1>7, <1>8, <1>9, <1>10 DEF LeafInv

LEMMA RunExecutePreserves ==
  ASSUME LeafInv, NEW p \in Processes, NEW lane, RunExecute(p, lane)
  PROVE  LeafInv'
<1>1. PICK how \in {"ok", "error"} : End(p, how)
  BY DEF RunExecute
<1>2. /\ ledger \subseteq ledger' /\ pc[p] # "idle" /\ UNCHANGED <<report, runs>>
      /\ \A x \in ledger' : Genuine(x)
  BY DEF RunExecute, LeafInv
<1>3. FilesOK'
  BY FilesUnchanged DEF RunExecute
<1> QED
  BY <1>1, <1>2, <1>3, EndIsQuiet DEF Outcomes

(* The guest ran: there is a receipt, whether or not it will be written.   *)
LEMMA RunProvePreserves ==
  ASSUME LeafInv, NEW p \in Processes, NEW lane, RunProve(p, lane)
  PROVE  LeafInv'
<1> DEFINE stdin   == Stdin(lane, job[p].witness)
           receipt == [image   |-> lane,
                       journal |-> LeafGuestJournal(lane, stdin),
                       kind    |-> resolveReceiptKind(job[p].receiptKind)]
           x == [receipt |-> receipt, stdin |-> stdin]
<1>1. /\ pc[p] = "build witness" /\ job[p].op = "prove" /\ job[p].lane = lane
      /\ UNCHANGED <<receiptFile, claimFile, report, runs>>
  BY DEF RunProve
<1>2. ProcessOK(ledger, pc[p], job[p], held[p], expected[p], exit[p], report[p])
  BY DEF LeafInv, ProcessesOK
<1>3. job[p] \in Jobs
  BY <1>1, <1>2 DEF ProcessOK
<1>4. /\ lane \in Lanes /\ job[p].witness \in Witnesses[lane]
      /\ job[p].receiptKind \in ReceiptKinds
  BY <1>1, <1>3, JobFacts
<1>5. CASE LeafGuestRuns(lane, job[p].witness)
  <2>1. ledger' = ledger \cup {x}
    BY <1>5 DEF RunProve
  <2>2. /\ x.receipt = receipt /\ x.stdin = stdin /\ receipt.image = lane
        /\ receipt.journal = LeafGuestJournal(lane, stdin)
        /\ receipt.kind \in {"composite", "succinct"}
    BY <1>4, ReceiptKindsAssumption DEF resolveReceiptKind
  <2>3. LeafClaimAccepted(lane, job[p].witness, receipt.journal.claim)
          => held' = [held EXCEPT ![p] = receipt] /\ Goto(p, "truncate receipt")
             /\ UNCHANGED <<job, expected, exit>>
    BY <1>5 DEF RunProve
  <2>4. ~ LeafClaimAccepted(lane, job[p].witness, receipt.journal.claim) => End(p, "error")
    BY <1>5 DEF RunProve
  <2>5. /\ LeafGuestAccepts(lane, stdin)
        /\ lane = "taproot" => stdin.path \in Seq(Indices)
    BY <1>4, <1>5, StdinPath, WitnessesAssumption DEF LeafGuestRuns
  <2> HIDE DEF stdin, receipt, x
  <2>6. Genuine(x)
    BY <1>4, <2>2, <2>5 DEF Genuine
  <2>7. ledger \subseteq ledger' /\ \A y \in ledger' : Genuine(y)
    BY <2>1, <2>6 DEF LeafInv
  <2>8. FilesOK'
    BY <1>1, <2>7, FilesUnchanged
  <2>9. CASE LeafClaimAccepted(lane, job[p].witness, receipt.journal.claim)
    <3>1. /\ held'[p] = receipt /\ pc'[p] = "truncate receipt"
          /\ UNCHANGED <<job, expected, exit>>
          /\ Others(p) /\ ShapesOK'
      BY <1>1, <2>3, <2>9 DEF Goto, LeafInv, ShapesOK, Others
    <3>2. HoldsReceipt(ledger', receipt)
      BY <2>1, <2>2 DEF HoldsReceipt
    <3>3. ProcessOK(ledger', pc[p], job[p], held[p], expected[p], exit[p], report[p])
      BY <1>2, <2>7, ProcessGrows
    <3>4. ProcessOK(ledger', "truncate receipt", job[p], receipt, expected[p], exit[p],
                    report[p])
      BY <1>1, <3>2, <3>3 DEF ProcessOK, StepFitsJob, HoldingOK
    <3> QED
      BY <1>1, <2>7, <2>8, <3>1, <3>4, ProcessStep
  <2>10. CASE ~ LeafClaimAccepted(lane, job[p].witness, receipt.journal.claim)
    BY <1>1, <2>4, <2>7, <2>8, <2>10, EndIsQuiet DEF Outcomes
  <2> QED
    BY <2>9, <2>10
<1>6. CASE ~ LeafGuestRuns(lane, job[p].witness)
  <2>1. End(p, "error") /\ UNCHANGED ledger
    BY <1>6 DEF RunProve
  <2>2. FilesOK'
    BY <1>1, <2>1, FilesUnchanged
  <2> QED
    BY <1>1, <2>1, <2>2, EndIsQuiet DEF Outcomes, LeafInv
<1> QED
  BY <1>5, <1>6

-----------------------------------------------------------------------------
(* Writing the artifacts.                                                  *)

LEMMA FilledIs ==
  ASSUME NEW old, NEW data, NEW file \in Filled(old, data)
  PROVE  /\ ~ Readable(Empty)
         /\ Readable(file) => file.data = data
BY DEF Filled, Full, Garbled, Empty, Readable

LEMMA WriteStep ==
  ASSUME LeafInv, NEW p \in Processes, NEW step, NEW next, Write(p, step, next),
         \/ step = "truncate receipt" /\ next = "fill receipt"
         \/ step = "fill receipt" /\ next = "truncate claim"
         \/ step = "truncate claim" /\ next = "fill claim",
         FilesOK'
  PROVE  LeafInv'
<1>1. /\ pc[p] = step /\ pc'[p] = next
      /\ UNCHANGED <<ledger, job, held, expected, exit, report, runs>>
      /\ Others(p) /\ ShapesOK'
  BY DEF Write, Goto, LeafInv, ShapesOK, Others
<1>2. ProcessOK(ledger, step, job[p], held[p], expected[p], exit[p], report[p])
  BY <1>1 DEF LeafInv, ProcessesOK
<1>3. ProcessOK(ledger, next, job[p], held[p], expected[p], exit[p], report[p])
  BY <1>2 DEF ProcessOK, StepFitsJob, HoldingOK
<1> QED
  BY <1>1, <1>3, ProcessStep DEF LeafInv

LEMMA WriterFacts ==
  ASSUME LeafInv, NEW p \in Processes,
         pc[p] \in {"truncate receipt", "fill receipt", "truncate claim", "fill claim"}
  PROVE  job[p].slot \in Slots /\ HoldsReceipt(ledger, held[p])
<1>1. ProcessOK(ledger, pc[p], job[p], held[p], expected[p], exit[p], report[p])
  BY DEF LeafInv, ProcessesOK
<1>2. job[p] \in Jobs /\ job[p].op = "prove" /\ HoldsReceipt(ledger, held[p])
  BY <1>1 DEF ProcessOK, StepFitsJob, HoldingOK
<1> QED
  BY <1>2, JobFacts

LEMMA TruncateReceiptPreserves ==
  ASSUME LeafInv, NEW p \in Processes, TruncateReceipt(p)
  PROVE  LeafInv'
<1>1. FilesOK'
  BY DEF TruncateReceipt, Write, LeafInv, FilesOK, Readable, Empty, HoldsReceipt, HoldsClaimFile
<1> QED
  BY <1>1, WriteStep DEF TruncateReceipt

LEMMA FillReceiptPreserves ==
  ASSUME LeafInv, NEW p \in Processes, FillReceipt(p)
  PROVE  LeafInv'
<1>1. PICK file \in Filled(receiptFile[job[p].slot], held[p]) :
        receiptFile' = [receiptFile EXCEPT ![job[p].slot] = file]
  BY DEF FillReceipt
<1>2. pc[p] = "fill receipt" /\ UNCHANGED <<ledger, claimFile>>
  BY DEF FillReceipt, Write
<1>3. Readable(file) => HoldsReceipt(ledger, file.data)
  BY <1>1, <1>2, FilledIs, WriterFacts
<1>4. FilesOK'
  BY <1>1, <1>2, <1>3 DEF LeafInv, FilesOK, HoldsReceipt, HoldsClaimFile
<1> QED
  BY <1>4, WriteStep DEF FillReceipt

LEMMA TruncateClaimPreserves ==
  ASSUME LeafInv, NEW p \in Processes, TruncateClaim(p)
  PROVE  LeafInv'
<1>1. FilesOK'
  BY DEF TruncateClaim, Write, LeafInv, FilesOK, Readable, Empty, HoldsReceipt, HoldsClaimFile
<1> QED
  BY <1>1, WriteStep DEF TruncateClaim

LEMMA FillClaimPreserves ==
  ASSUME LeafInv, NEW p \in Processes, FillClaim(p)
  PROVE  LeafInv'
<1>1. PICK file \in Filled(claimFile[job[p].slot], ClaimFileOf(held[p])) :
        claimFile' = [claimFile EXCEPT ![job[p].slot] = file]
  BY DEF FillClaim
<1>2. /\ pc[p] = "fill claim" /\ End(p, "ok")
      /\ UNCHANGED <<ledger, receiptFile, report, runs>>
  BY DEF FillClaim
<1>3. PICK x \in ledger : held[p] = x.receipt
  BY <1>2, WriterFacts DEF HoldsReceipt
<1>4. Readable(file) => HoldsClaimFile(ledger, file.data)
  BY <1>1, <1>3, FilledIs DEF HoldsClaimFile
<1>5. FilesOK'
  BY <1>1, <1>2, <1>4 DEF LeafInv, FilesOK, HoldsReceipt, HoldsClaimFile
<1>6. ledger \subseteq ledger' /\ \A y \in ledger' : Genuine(y)
  BY <1>2 DEF LeafInv
<1> QED
  BY <1>2, <1>5, <1>6, EndIsQuiet DEF Outcomes

-----------------------------------------------------------------------------
(* Verify.                                                                 *)

LEMMA ReaderFacts ==
  ASSUME LeafInv, NEW p \in Processes, pc[p] \in {"read receipt", "read claim", "verify"}
  PROVE  /\ job[p] \in Jobs /\ job[p].op = "verify" /\ job[p].slot \in Slots
         /\ job[p].lane \in Lanes /\ job[p].withClaim \in BOOLEAN
         /\ job[p].expect \in Expectations[job[p].lane]
         /\ ProcessOK(ledger, pc[p], job[p], held[p], expected[p], exit[p], report[p])
<1>1. ProcessOK(ledger, pc[p], job[p], held[p], expected[p], exit[p], report[p])
  BY DEF LeafInv, ProcessesOK
<1>2. job[p] \in Jobs /\ job[p].op = "verify"
  BY <1>1 DEF ProcessOK, StepFitsJob
<1> QED
  BY <1>1, <1>2, JobFacts

LEMMA ReadReceiptPreserves ==
  ASSUME LeafInv, NEW p \in Processes, ReadReceipt(p)
  PROVE  LeafInv'
<1> DEFINE file == receiptFile[job[p].slot]
           next == IF job[p].withClaim THEN "read claim" ELSE "verify"
<1>1. /\ pc[p] = "read receipt"
      /\ UNCHANGED <<ledger, receiptFile, claimFile, report, runs>>
  BY DEF ReadReceipt
<1>2. FilesOK' /\ ledger \subseteq ledger' /\ \A x \in ledger' : Genuine(x)
  BY <1>1, FilesUnchanged DEF LeafInv
<1>3. /\ job[p].op = "verify" /\ job[p].slot \in Slots /\ job[p].withClaim \in BOOLEAN
      /\ ProcessOK(ledger, "read receipt", job[p], held[p], expected[p], exit[p], report[p])
  BY <1>1, ReaderFacts
<1>4. CASE Readable(file)
  <2>1. /\ pc'[p] = next /\ held'[p] = file.data /\ UNCHANGED <<job, expected, exit>>
        /\ Others(p) /\ ShapesOK'
    BY <1>4 DEF ReadReceipt, Goto, LeafInv, ShapesOK, Others
  <2>2. HoldsReceipt(ledger, file.data)
    BY <1>3, <1>4 DEF LeafInv, FilesOK
  <2>3. /\ next \in {"read claim", "verify"}
        /\ next = "read claim" <=> job[p].withClaim
    OBVIOUS
  <2> HIDE DEF file, next
  <2>4. ProcessOK(ledger, next, job[p], file.data, expected[p], exit[p], report[p])
    BY <1>3, <2>2, <2>3 DEF ProcessOK, StepFitsJob, HoldingOK
  <2> QED
    BY <1>1, <1>2, <2>1, <2>4, ProcessStep
<1>5. CASE ~ Readable(file)
  <2>1. End(p, "error")
    BY <1>5 DEF ReadReceipt
  <2> QED
    BY <1>1, <1>2, <2>1, EndIsQuiet DEF Outcomes
<1> QED
  BY <1>4, <1>5

LEMMA ReadClaimPreserves ==
  ASSUME LeafInv, NEW p \in Processes, ReadClaim(p)
  PROVE  LeafInv'
<1> DEFINE file == claimFile[job[p].slot]
<1>1. /\ pc[p] = "read claim"
      /\ UNCHANGED <<ledger, receiptFile, claimFile, report, runs>>
  BY DEF ReadClaim
<1>2. FilesOK' /\ ledger \subseteq ledger' /\ \A x \in ledger' : Genuine(x)
  BY <1>1, FilesUnchanged DEF LeafInv
<1>3. /\ job[p].op = "verify" /\ job[p].slot \in Slots
      /\ ProcessOK(ledger, "read claim", job[p], held[p], expected[p], exit[p], report[p])
  BY <1>1, ReaderFacts
<1>4. CASE Readable(file)
  <2>1. /\ pc'[p] = "verify" /\ expected'[p] = file.data /\ UNCHANGED <<job, held, exit>>
        /\ Others(p) /\ ShapesOK'
    BY <1>4 DEF ReadClaim, Goto, LeafInv, ShapesOK, Others
  <2>2. HoldsClaimFile(ledger, file.data)
    BY <1>3, <1>4 DEF LeafInv, FilesOK
  <2> HIDE DEF file
  <2>3. ProcessOK(ledger, "verify", job[p], held[p], file.data, exit[p], report[p])
    BY <1>3, <2>2 DEF ProcessOK, StepFitsJob, HoldingOK
  <2> QED
    BY <1>1, <1>2, <2>1, <2>3, ProcessStep
<1>5. CASE ~ Readable(file)
  <2>1. End(p, "error")
    BY <1>5 DEF ReadClaim
  <2> QED
    BY <1>1, <1>2, <2>1, EndIsQuiet DEF Outcomes
<1> QED
  BY <1>4, <1>5

(* What a process that verifies holds.                                     *)
LEMMA VerifierFacts ==
  ASSUME LeafInv, NEW p \in Processes, pc[p] = "verify"
  PROVE  /\ HoldsReceipt(ledger, held[p])
         /\ IF job[p].withClaim THEN HoldsClaimFile(ledger, expected[p])
                                ELSE expected[p] = Nothing
BY ReaderFacts DEF ProcessOK, HoldingOK

(* The receipt and the claim.json may be of two runs, but not when the     *)
(* comparisons pass.                                                       *)
LEMMA PassedIsTrue ==
  ASSUME LeafInv, NEW p \in Processes, pc[p] = "verify", Passes(p),
         NEW rep, rep = [lane |-> job[p].lane, claim |-> held[p].journal.claim,
                         expect |-> job[p].expect, file |-> expected[p]]
  PROVE  ReportOK(ledger, rep)
<1>1. PICK x \in ledger : held[p] = x.receipt
  BY VerifierFacts DEF HoldsReceipt
<1>2. Genuine(x) /\ x.receipt.image = job[p].lane
  BY <1>1 DEF LeafInv, Passes
<1>3. job[p].expect \in Expectations[x.receipt.image]
  BY <1>2, ReaderFacts
<1>4. MeetsExpectations(x.receipt.image, job[p].expect, x.receipt.journal.claim)
  BY <1>1, <1>2 DEF Passes
<1>5. Describes(job[p].lane, job[p].expect, x.stdin)
  BY <1>2, <1>3, <1>4, MetIsDescribed
<1>6. expected[p] # Nothing => expected[p] = ClaimFileOf(x.receipt)
  <2> SUFFICES ASSUME expected[p] # Nothing
               PROVE  expected[p] = ClaimFileOf(x.receipt)
    OBVIOUS
  <2>1. job[p].withClaim /\ HoldsClaimFile(ledger, expected[p])
    BY VerifierFacts
  <2>2. PICK y \in ledger : expected[p] = ClaimFileOf(y.receipt)
    BY <2>1 DEF HoldsClaimFile
  <2>3. MatchesClaimFile(x.receipt.image, ClaimFileOf(y.receipt), x.receipt)
    BY <1>1, <1>2, <2>1, <2>2 DEF Passes
  <2>4. x.receipt.image \in LaneNames /\ y.receipt.image \in LaneNames
    BY LaneName DEF LeafInv, Genuine
  <2> QED
    BY <2>2, <2>3, <2>4, FileMatches
<1>7. /\ rep.lane = job[p].lane /\ rep.claim = held[p].journal.claim
      /\ rep.expect = job[p].expect /\ rep.file = expected[p]
  OBVIOUS
<1> QED
  BY <1>1, <1>2, <1>5, <1>6, <1>7 DEF ReportOK

LEMMA RunVerifyPreserves ==
  ASSUME LeafInv, NEW p \in Processes, NEW lane, RunVerify(p, lane)
  PROVE  LeafInv'
<1> DEFINE rep == [lane |-> job[p].lane, claim |-> held[p].journal.claim,
                   expect |-> job[p].expect, file |-> expected[p]]
<1>1. /\ pc[p] = "verify" /\ job[p].lane = lane
      /\ UNCHANGED <<ledger, receiptFile, claimFile, runs>>
  BY DEF RunVerify
<1>2. FilesOK' /\ ledger \subseteq ledger' /\ \A x \in ledger' : Genuine(x)
  BY <1>1, FilesUnchanged DEF LeafInv
<1>3. CASE Passes(p)
  <2>1. report' = [report EXCEPT ![p] = rep] /\ End(p, "ok")
    BY <1>1, <1>3 DEF RunVerify
  <2>2. ReportOK(ledger, rep)
    BY <1>1, <1>3, PassedIsTrue
  <2> HIDE DEF rep
  <2>3. ShapesOK
    BY DEF LeafInv
  <2>4. Others(p) /\ ShapesOK' /\ report'[p] = rep
    BY <2>1, <2>3, AtEnd DEF Others, ShapesOK
  <2>5. ProcessOK(ledger, pc'[p], job'[p], held'[p], expected'[p], exit'[p], report'[p])
    <3>1. /\ pc'[p] = "idle" /\ job'[p] = NoJob /\ held'[p] = Nothing
          /\ expected'[p] = Nothing /\ exit'[p] = "ok"
      BY <2>1, <2>3, AtEnd
    <3>2. "ok" \in Outcomes
      BY DEF Outcomes
    <3> QED
      BY <2>2, <2>4, <3>1, <3>2, IdleOK
  <2> QED
    BY <1>1, <1>2, <2>4, <2>5, ProcessStep
<1>4. CASE ~ Passes(p)
  <2>1. End(p, "error") /\ UNCHANGED report
    BY <1>1, <1>4 DEF RunVerify
  <2> QED
    BY <1>1, <1>2, <2>1, EndIsQuiet DEF Outcomes
<1> QED
  BY <1>3, <1>4

-----------------------------------------------------------------------------
LEMMA LeafInit == Init => LeafInv
<1> SUFFICES ASSUME Init PROVE LeafInv
  OBVIOUS
<1>1. FilesOK
  BY DEF Init, FilesOK, Readable, Absent
<1>2. ProcessesOK
  <2>1. ReportOK(ledger, Nothing)
    BY DEF ReportOK
  <2>2. "none" \in Outcomes
    BY DEF Outcomes
  <2>3. ProcessOK(ledger, "idle", NoJob, Nothing, Nothing, "none", Nothing)
    BY <2>1, <2>2, IdleOK
  <2> QED
    BY <2>3 DEF Init, ProcessesOK
<1>3. runs \in 0..MaxRuns
  BY MaxRunsAssumption DEF Init
<1> QED
  BY <1>1, <1>2, <1>3 DEF Init, LeafInv, ShapesOK

LEMMA LeafStep == LeafInv /\ [Next]_leafVars => LeafInv'
<1> SUFFICES ASSUME LeafInv, [Next]_leafVars PROVE LeafInv'
  OBVIOUS
<1>1. CASE \E p \in Processes : \E j \in Jobs : Start(p, j)
  BY <1>1, StartPreserves
<1>2. CASE \E p \in Processes : Step(p)
  <2>1. PICK p \in Processes : Step(p)
    BY <1>2
  <2>2. CASE Execute(p) \/ ExecuteHardenedXPriv(p) \/ ExecuteHardenedXPub(p)
    BY <2>2, RunExecutePreserves DEF Execute, ExecuteHardenedXPriv, ExecuteHardenedXPub
  <2>3. CASE Prove(p) \/ ProveHardenedXPriv(p) \/ ProveHardenedXPub(p)
    BY <2>3, RunProvePreserves DEF Prove, ProveHardenedXPriv, ProveHardenedXPub
  <2>4. CASE TruncateReceipt(p) \/ FillReceipt(p) \/ TruncateClaim(p) \/ FillClaim(p)
    BY <2>4, TruncateReceiptPreserves, FillReceiptPreserves, TruncateClaimPreserves,
       FillClaimPreserves
  <2>5. CASE ReadReceipt(p) \/ ReadClaim(p)
    BY <2>5, ReadReceiptPreserves, ReadClaimPreserves
  <2>6. CASE Verify(p) \/ VerifyHardenedXPriv(p) \/ VerifyHardenedXPub(p)
    BY <2>6, RunVerifyPreserves DEF Verify, VerifyHardenedXPriv, VerifyHardenedXPub
  <2> QED
    BY <2>1, <2>2, <2>3, <2>4, <2>5, <2>6 DEF Step
<1>3. CASE \E p \in Processes : Crash(p)
  BY <1>3, CrashPreserves
<1>4. CASE \E lane \in Lanes : \E stdin \in Foreign[lane], s \in Slots : Deliver(lane, stdin, s)
  BY <1>4, DeliverPreserves
<1>5. CASE UNCHANGED leafVars
  <2>1. FilesOK' /\ ProcessesOK' /\ ShapesOK'
    BY <1>5 DEF LeafInv, FilesOK, ProcessesOK, ShapesOK, leafVars
  <2>2. \A x \in ledger' : Genuine(x)'
    BY <1>5 DEF LeafInv, Genuine, leafVars
  <2> QED
    BY <1>5, <2>1, <2>2 DEF LeafInv, leafVars
<1> QED
  BY <1>1, <1>2, <1>3, <1>4, <1>5 DEF Next

LEMMA LeafInvariant == Spec => []LeafInv
BY LeafInit, LeafStep, PTL DEF Spec

-----------------------------------------------------------------------------
(* The theorems.                                                           *)

(* What a process knows fits the step it is at: only a Verify that was     *)
(* given a claim.json compares one, nothing is kept from an invocation to  *)
(* the next, and a report is there only after a success.                   *)
THEOREM LeafTypeCorrect == Spec => []LTypeOK
<1>1. ASSUME LeafInv PROVE LTypeOK
  <2>1. ASSUME NEW p \in Processes
        PROVE  /\ (job[p] = NoJob) <=> (pc[p] = "idle")
               /\ pc[p] = "idle" => held[p] = Nothing /\ expected[p] = Nothing
               /\ pc[p] = "verify" => (expected[p] # Nothing <=> job[p].withClaim)
               /\ exit[p] \in {"none", "running", "ok", "error", "killed"}
               /\ report[p] # Nothing => exit[p] = "ok"
    <3>1. ProcessOK(ledger, pc[p], job[p], held[p], expected[p], exit[p], report[p])
      BY <1>1 DEF LeafInv, ProcessesOK
    <3>2. ASSUME pc[p] = "verify", job[p].withClaim
          PROVE  expected[p] # Nothing
      <4>1. PICK x \in ledger : expected[p] = ClaimFileOf(x.receipt)
        BY <1>1, <3>2, VerifierFacts DEF HoldsClaimFile
      <4> QED
        BY <1>1, <4>1, LaneName, ClaimFileFields DEF LeafInv, Genuine, Nothing
    <3>3. pc[p] = "verify" /\ expected[p] # Nothing => job[p].withClaim
      BY <1>1, VerifierFacts
    <3>4. pc[p] = "verify" => (expected[p] # Nothing <=> job[p].withClaim)
      BY <3>2, <3>3
    <3> QED
      BY <3>1, <3>4 DEF ProcessOK, HoldingOK, Outcomes
  <2>2. \A x \in ledger : x.receipt.kind \in {"composite", "succinct"}
    BY <1>1 DEF LeafInv, Genuine
  <2> QED
    BY <1>1, <2>1, <2>2 DEF LTypeOK, LeafInv
<1> QED
  BY <1>1, LeafInvariant, PTL

(* A receipt says the truth about the private witness it was proved from,  *)
(* whoever proved it: the public key is derived from it, its path has the  *)
(* BIP-86 shape when the claim says so, and its steps are hardened in the  *)
(* lanes that promise that.                                                *)
THEOREM ReceiptsTellTheTruth == Spec => []StatementsHold
<1>1. ASSUME LeafInv PROVE StatementsHold
  <2> SUFFICES ASSUME NEW x \in ledger
               PROVE  LET claim == x.receipt.journal.claim
                      IN  /\ x.receipt.image = "taproot" =>
                               /\ RequiresBIP86(claim.flags) => BIP86Path(x.stdin.path)
                               /\ claim.taprootOutputKey =
                                    TaprootOutputKey(Child("taproot", x.stdin))
                          /\ x.receipt.image = "xpriv" => x.stdin.index >= HardenedKeyStart
                          /\ x.receipt.image = "xpub" =>
                               \A i \in 1..Len(x.stdin.path) :
                                 x.stdin.path[i] >= HardenedKeyStart
    BY DEF StatementsHold
  <2>1. Genuine(x)
    BY <1>1 DEF LeafInv
  <2>2. CASE x.receipt.image = "taproot"
    BY <2>1, <2>2, GenuineIs, TaprootClaim, FlagMeansShape DEF Genuine
  <2>3. x.receipt.image = "xpriv" => x.stdin.index >= HardenedKeyStart
    BY <2>1 DEF Genuine, LeafGuestAccepts, XPrivGuestAccepts, SingleHardenedChild
  <2>4. x.receipt.image = "xpub" => ValidateAllHardened(x.stdin.path)
    BY <2>1 DEF Genuine, LeafGuestAccepts, XPubGuestAccepts
  <2> QED
    BY <2>2, <2>3, <2>4 DEF ValidateAllHardened
<1> QED
  BY <1>1, LeafInvariant, PTL

(* A Verify that succeeded has a receipt of its own guest behind it, over  *)
(* a private witness that is as every expectation and the claim.json say,  *)
(* although the receipt and the claim.json may have been written, truncated*)
(* and overwritten by others between the two reads.                        *)
THEOREM ReportsAreTruthful == Spec => []ReportTruthful
<1>1. ASSUME LeafInv PROVE ReportTruthful
  BY <1>1 DEF LeafInv, ProcessesOK, ProcessOK, ReportOK, ReportTruthful
<1> QED
  BY <1>1, LeafInvariant, PTL

(* Verify refuses no receipt that is as it is expected to be.              *)
THEOREM TruthIsAccepted == Spec => []TruthAccepted
<1>1. ASSUME LeafInv PROVE TruthAccepted
  <2> SUFFICES ASSUME NEW p \in Processes, pc[p] = "verify",
                      job[p].withClaim \/ HasExpectations(job[p].lane, job[p].expect),
                      job[p].withClaim => expected[p] = ClaimFileOf(held[p]),
                      NEW x \in ledger, x.receipt = held[p], x.receipt.image = job[p].lane,
                      Describes(job[p].lane, job[p].expect, x.stdin),
                      job[p].lane = "taproot" =>
                        /\ job[p].expect.pathCommitment = Unset \/ ~job[p].expect.path.given
                        /\ Parses(job[p].expect.path) /\ Proper(job[p].expect.path)
               PROVE  Passes(p)
    BY DEF TruthAccepted
  <2>1. Genuine(x) /\ x.receipt.image \in LaneNames
    BY <1>1, LaneName DEF LeafInv, Genuine
  <2>2. job[p].expect \in Expectations[x.receipt.image]
    BY <1>1, ReaderFacts
  <2>3. DecodesLeaf(job[p].lane, held[p].journal)
    BY <2>1, JournalOfLane DEF Genuine
  <2>4. job[p].withClaim => MatchesClaimFile(job[p].lane, expected[p], held[p])
    BY <2>1, OwnFileMatches
  <2>5. MeetsExpectations(job[p].lane, job[p].expect, held[p].journal.claim)
    BY <2>1, <2>2, DescribedIsMet
  <2> QED
    BY <2>3, <2>4, <2>5 DEF Passes
<1> QED
  BY <1>1, LeafInvariant, PTL

(* The two copies of the checks on a witness, the host's and the guest's,  *)
(* decide alike on every configuration that can be read, but for the two   *)
(* sizes that the guest alone looks at.                                    *)
THEOREM HostAndGuestAgree == Spec => []HostAgreesWithGuest
<1>1. ASSUME LeafInv PROVE HostAgreesWithGuest
  <2> SUFFICES ASSUME NEW p \in Processes, pc[p] = "build witness",
                      WellFormed(job[p].lane, job[p].witness)
               PROVE  (/\ Resolves(job[p].lane, job[p].witness)
                       /\ FitsGuest(job[p].lane, Stdin(job[p].lane, job[p].witness)))
                        <=> LeafGuestAccepts(job[p].lane, Stdin(job[p].lane, job[p].witness))
    BY DEF HostAgreesWithGuest
  <2>1. ProcessOK(ledger, pc[p], job[p], held[p], expected[p], exit[p], report[p])
    BY <1>1 DEF LeafInv, ProcessesOK
  <2>2. job[p] \in Jobs /\ job[p].op \in {"prove", "execute"}
    BY <2>1 DEF ProcessOK, StepFitsJob
  <2>3. job[p].lane \in Lanes /\ job[p].witness \in Witnesses[job[p].lane]
    BY <2>2, JobFacts
  <2> QED
    BY <2>3, ChecksAgree
<1> QED
  BY <1>1, LeafInvariant, PTL
=============================================================================
