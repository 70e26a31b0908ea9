-------------------------- MODULE BatchLane_proofs --------------------------
(***************************************************************************)
(* The batch lane for any number of processes, slots and invocations, and  *)
(* batches of any size.                                                    *)
(*                                                                         *)
(* A process's files change under it, so nothing is said of what a slot    *)
(* holds beyond "a receipt file that can be read holds a receipt that      *)
(* exists".  What a process knows sits in what it has loaded and holds;    *)
(* since receipts and openings are only added, no step of another process  *)
(* can make it false (ProcessGrows), and each of its own steps extends it. *)
(***************************************************************************)
EXTENDS BatchLane, Guests_proofs

-----------------------------------------------------------------------------
(* The inductive invariant.  A process is described by its seven values    *)
(* and by the receipts A and openings P there are.                         *)

LoaderOps == {"prove", "execute", "derive"}
Outcomes  == {"none", "running", "ok", "error", "no receipt", "killed"}

StepFitsJob(step, j) ==
  /\ step \in {"load claim", "load receipt", "loaded"} => j.op \in LoaderOps
  /\ step = "leaf guest" => j.op = "leaf"
  /\ step \in {"truncate receipt", "fill receipt", "truncate claim", "fill claim"}
       => j.op \in {"leaf", "prove"}
  /\ step \in {"truncate proof", "fill proof"} => j.op = "derive"
  /\ step \in {"verify receipt", "verify claim", "read proofs"} => j.op = "verify"

LoadingOK(A, step, j, entries, h) ==
  /\ j.op \in LoaderOps =>
       Len(entries) <= Len(j.inputs) /\ LoadedOK(A, j.kind, entries)
  /\ step \in {"load claim", "load receipt"} /\ j.inputs # <<>>
       => Len(entries) < Len(j.inputs)
  /\ step = "load receipt" =>
       /\ j.inputs # <<>>
       /\ ClaimAccepted(j.kind, j.inputs[Len(entries) + 1].directKind, entries, h)
  /\ step = "loaded" => Len(entries) = Len(j.inputs) /\ j.inputs # <<>>

WritingOK(A, step, h) ==
  /\ step \in {"truncate receipt", "fill receipt"} => h \in A
  /\ step \in {"truncate proof", "fill proof"}     => Len(h.siblings) \in Nat

VerifyingOK(A, step, entries, h) ==
  /\ step \in {"verify receipt", "verify claim"} => entries = <<>>
  /\ step = "read proofs" =>
       \A k \in 1..Len(entries) : Len(entries[k].siblings) \in Nat
  /\ step \in {"verify claim", "read proofs"} => h \in A /\ h.image = BatchImage

ReportOK(A, P, rep) ==
  /\ rep.claims # <<>> =>
       \E r \in A : r.image = BatchImage /\ r.journal = Encode(rep.claims[1])
  /\ \A k \in 1..Len(rep.inclusions) :
       VouchedFor(BatchImage, rep.claims, rep.inclusions, k) =>
         Backs(A, P, rep.claims[k], rep.inclusions[k])

ProcessOK(A, P, step, j, entries, h, e, rep) ==
  /\ j \in Jobs \cup {NoJob}
  /\ j = NoJob <=> step = "idle"
  /\ step = "idle" => entries = <<>> /\ h = Nothing
  /\ IsSeq(entries)
  /\ e.how \in Outcomes
  /\ StepFitsJob(step, j)
  /\ LoadingOK(A, step, j, entries, h)
  /\ WritingOK(A, step, h)
  /\ VerifyingOK(A, step, entries, h)
  /\ ReportOK(A, P, rep)

ProcessesOK ==
  \A p \in Processes :
    ProcessOK(ledger, openings, pc[p], job[p], loaded[p], held[p], exit[p], report[p])

FilesOK ==
  /\ receiptFile = [s \in Slots |-> receiptFile[s]]
  /\ proofFile = [s \in ProofSlots |-> proofFile[s]]
  /\ \A s \in Slots : Readable(receiptFile[s]) => receiptFile[s].data \in ledger
  /\ \A s \in ProofSlots :
       Readable(proofFile[s]) => Len(proofFile[s].data.siblings) \in Nat

ShapesOK ==
  /\ pc = [p \in Processes |-> pc[p]]
  /\ job = [p \in Processes |-> job[p]]
  /\ loaded = [p \in Processes |-> loaded[p]]
  /\ held = [p \in Processes |-> held[p]]
  /\ exit = [p \in Processes |-> exit[p]]
  /\ report = [p \in Processes |-> report[p]]

LaneInv ==
  /\ Sound(ledger, openings, LeafImages, ForeignImages, BatchImage)
  /\ Shaped(ledger)
  /\ runs \in 0..MaxRuns
  /\ ShapesOK
  /\ FilesOK
  /\ ProcessesOK

-----------------------------------------------------------------------------
(* The configurations.                                                     *)

LEMMA InputListFacts ==
  ASSUME NEW kind, NEW inputs \in InputLists(kind)
  PROVE  /\ IsSeq(inputs) /\ Len(inputs) <= MaxLeaves
         /\ \A i \in 1..Len(inputs) : inputs[i].slot \in Slots
<1>1. /\ IsSeq(inputs) /\ Len(inputs) <= MaxLeaves
      /\ \A i \in 1..Len(inputs) : inputs[i] \in Inputs(kind)
  BY BoundedSeqFacts, BoundsAssumption DEF InputLists
<1>2. \A x \in Inputs(kind) : x.slot \in Slots
  BY DEF Inputs
<1> QED
  BY <1>1, <1>2

LEMMA JobFacts ==
  ASSUME NEW j \in Jobs
  PROVE  /\ j.op \in {"leaf", "prove", "execute", "derive", "verify"}
         /\ j.op = "leaf" => /\ j.image \in LeafImages /\ j.body \in Bodies
                             /\ j.out \in Slots /\ j.receiptKind \in ReceiptKinds
         /\ j.op \in LoaderOps =>
              /\ j.kind \in Kinds
              /\ IsSeq(j.inputs) /\ Len(j.inputs) <= MaxLeaves
              /\ \A i \in 1..Len(j.inputs) : j.inputs[i].slot \in Slots
         /\ j.op = "prove" => j.out \in Slots /\ j.receiptKind \in ReceiptKinds
         /\ j.op = "derive" => j.out \in ProofSlots /\ j.leafIndex \in 0..MaxLeaves
         /\ j.op = "verify" =>
              /\ j.slot \in Slots
              /\ IsSeq(j.proofs)
              /\ \A k \in 1..Len(j.proofs) : j.proofs[k] \in ProofSlots
<1>1. CASE j \in LeafJobs
  BY <1>1 DEF LeafJobs, LoaderOps
<1>2. CASE j \in ExecuteJobs
  <2>1. PICK k \in Kinds : j \in [op : {"execute"}, kind : {k}, inputs : InputLists(k)]
    BY <1>2 DEF ExecuteJobs
  <2>2. j.op = "execute" /\ j.kind \in Kinds /\ j.inputs \in InputLists(k)
    BY <2>1
  <2> QED
    BY <2>2, InputListFacts
<1>3. CASE j \in ProveJobs
  <2>1. PICK k \in Kinds :
          j \in [op : {"prove"}, kind : {k}, inputs : InputLists(k), out : Slots,
                 receiptKind : ReceiptKinds]
    BY <1>3 DEF ProveJobs
  <2>2. /\ j.op = "prove" /\ j.kind \in Kinds /\ j.inputs \in InputLists(k)
        /\ j.out \in Slots /\ j.receiptKind \in ReceiptKinds
    BY <2>1
  <2> QED
    BY <2>2, InputListFacts
<1>4. CASE j \in DeriveJobs
  <2>1. PICK k \in Kinds :
          j \in [op : {"derive"}, kind : {k}, inputs : InputLists(k), out : ProofSlots,
                 leafIndex : 0..MaxLeaves]
    BY <1>4 DEF DeriveJobs
  <2>2. /\ j.op = "derive" /\ j.kind \in Kinds /\ j.inputs \in InputLists(k)
        /\ j.out \in ProofSlots /\ j.leafIndex \in 0..MaxLeaves
    BY <2>1
  <2> QED
    BY <2>2, InputListFacts
<1>5. CASE j \in VerifyJobs
  <2>1. /\ j.op = "verify" /\ j.slot \in Slots
        /\ j.proofs \in BoundedSeq(ProofSlots, MaxLeaves)
    BY <1>5 DEF VerifyJobs
  <2> QED
    BY <2>1, BoundedSeqFacts, BoundsAssumption DEF LoaderOps
<1> QED
  BY <1>1, <1>2, <1>3, <1>4, <1>5 DEF Jobs

LEMMA NoJobIsNoJob == NoJob.op = "none" /\ NoJob \notin Jobs
<1>1. NoJob.op = "none"
  BY DEF NoJob
<1> QED
  BY <1>1, JobFacts

-----------------------------------------------------------------------------
(* More receipts and openings leave a process as it is.                    *)

LEMMA BacksGrows ==
  ASSUME NEW A, NEW B, A \subseteq B, NEW P, NEW Q, P \subseteq Q,
         NEW claim, NEW q, Backs(A, P, claim, q)
  PROVE  Backs(B, Q, claim, q)
BY ResolvedGrows DEF Backs

LEMMA ReportGrows ==
  ASSUME NEW A, NEW B, A \subseteq B, NEW P, NEW Q, P \subseteq Q,
         NEW rep, ReportOK(A, P, rep)
  PROVE  ReportOK(B, Q, rep)
BY BacksGrows DEF ReportOK

LEMMA ProcessGrows ==
  ASSUME NEW A, NEW B, A \subseteq B, NEW P, NEW Q, P \subseteq Q,
         NEW step, NEW j, NEW entries, NEW h, NEW e, NEW rep,
         ProcessOK(A, P, step, j, entries, h, e, rep)
  PROVE  ProcessOK(B, Q, step, j, entries, h, e, rep)
<1>1. LoadedOK(A, j.kind, entries) => LoadedOK(B, j.kind, entries)
  BY DEF LoadedOK
<1>2. LoadingOK(B, step, j, entries, h)
  BY <1>1 DEF ProcessOK, LoadingOK
<1>3. WritingOK(B, step, h) /\ VerifyingOK(B, step, entries, h)
  BY DEF ProcessOK, WritingOK, VerifyingOK
<1>4. ReportOK(B, Q, rep)
  BY ReportGrows DEF ProcessOK
<1> QED
  BY <1>2, <1>3, <1>4 DEF ProcessOK

LEMMA FilesGrow ==
  ASSUME FilesOK, ledger \subseteq ledger', UNCHANGED <<receiptFile, proofFile>>
  PROVE  FilesOK'
BY DEF FilesOK

(* A process that ends keeps nothing but its report.                       *)
LEMMA IdleOK ==
  ASSUME NEW A, NEW P, NEW e, e.how \in Outcomes, NEW rep, ReportOK(A, P, rep)
  PROVE  ProcessOK(A, P, "idle", NoJob, <<>>, Nothing, e, rep)
<1>1. IsSeq(<<>>)
  BY DEF IsSeq
<1>2. NoJob.op = "none"
  BY NoJobIsNoJob
<1> QED
  BY <1>1, <1>2 DEF ProcessOK, StepFitsJob, LoadingOK, WritingOK, VerifyingOK, LoaderOps

(* One process moves; the others keep their values.                        *)
Others(p) ==
  \A q \in Processes \ {p} :
    /\ pc'[q] = pc[q] /\ job'[q] = job[q] /\ loaded'[q] = loaded[q]
    /\ held'[q] = held[q] /\ exit'[q] = exit[q] /\ report'[q] = report[q]

LEMMA OneMoves ==
  ASSUME ProcessesOK, NEW p \in Processes, Others(p),
         ledger \subseteq ledger', openings \subseteq openings',
         ProcessOK(ledger', openings', pc'[p], job'[p], loaded'[p], held'[p],
                   exit'[p], report'[p])
  PROVE  ProcessesOK'
<1>1. ASSUME NEW q \in Processes \ {p}
      PROVE  ProcessOK(ledger', openings', pc'[q], job'[q], loaded'[q], held'[q],
                       exit'[q], report'[q])
  <2>1. ProcessOK(ledger, openings, pc[q], job[q], loaded[q], held[q], exit[q], report[q])
    BY DEF ProcessesOK
  <2>2. ProcessOK(ledger', openings', pc[q], job[q], loaded[q], held[q], exit[q], report[q])
    BY <2>1, ProcessGrows
  <2> QED
    BY <2>2 DEF Others
<1> QED
  BY <1>1 DEF ProcessesOK

LEMMA AtEnd ==
  ASSUME ShapesOK, NEW p \in Processes, NEW how, End(p, how)
  PROVE  /\ pc'[p] = "idle" /\ job'[p] = NoJob /\ loaded'[p] = <<>>
         /\ held'[p] = Nothing /\ exit'[p].how = how
         /\ \A q \in Processes \ {p} :
              /\ pc'[q] = pc[q] /\ job'[q] = job[q] /\ loaded'[q] = loaded[q]
              /\ held'[q] = held[q] /\ exit'[q] = exit[q]
         /\ pc' = [q \in Processes |-> pc'[q]]
         /\ job' = [q \in Processes |-> job'[q]]
         /\ loaded' = [q \in Processes |-> loaded'[q]]
         /\ held' = [q \in Processes |-> held'[q]]
         /\ exit' = [q \in Processes |-> exit'[q]]
BY DEF ShapesOK, End, Goto

(* What is left to show of a step that adds no receipt.                    *)
LEMMA QuietStep ==
  ASSUME LaneInv, NEW p \in Processes, Others(p), ShapesOK', FilesOK',
         UNCHANGED <<ledger, openings, runs>>,
         ProcessOK(ledger, openings, pc'[p], job'[p], loaded'[p], held'[p],
                   exit'[p], report'[p])
  PROVE  LaneInv'
<1>1. ledger \subseteq ledger' /\ openings \subseteq openings'
  OBVIOUS
<1>2. ProcessesOK'
  BY <1>1, OneMoves DEF LaneInv
<1> QED
  BY <1>2 DEF LaneInv

LEMMA FilesUnchanged ==
  ASSUME LaneInv, UNCHANGED <<ledger, receiptFile, proofFile>>
  PROVE  FilesOK'
BY DEF LaneInv, FilesOK

LEMMA EndIsQuiet ==
  ASSUME LaneInv, NEW p \in Processes, NEW how \in Outcomes, End(p, how),
         FilesOK', UNCHANGED <<ledger, openings, report, runs>>
  PROVE  LaneInv'
<1>1. ShapesOK /\ ReportOK(ledger, openings, report[p])
  BY DEF LaneInv, ProcessesOK, ProcessOK
<1>2. Others(p) /\ ShapesOK'
  BY <1>1, AtEnd DEF Others, ShapesOK
<1>3. ProcessOK(ledger, openings, pc'[p], job'[p], loaded'[p], held'[p], exit'[p], report'[p])
  BY <1>1, AtEnd, IdleOK
<1> QED
  BY <1>2, <1>3, QuietStep

-----------------------------------------------------------------------------
(* The actions of an invocation, one lemma each.                           *)

LEMMA StartPreserves ==
  ASSUME LaneInv, NEW p \in Processes, NEW j \in Jobs, Start(p, j)
  PROVE  LaneInv'
<1>1. ProcessOK(ledger, openings, pc[p], job[p], loaded[p], held[p], exit[p], report[p])
  BY DEF LaneInv, ProcessesOK
<1>2. loaded[p] = <<>> /\ held[p] = Nothing
  BY <1>1 DEF Start, ProcessOK
<1>3. /\ pc'[p] = FirstStep(j) /\ job'[p] = j /\ loaded'[p] = <<>>
      /\ held'[p] = Nothing /\ exit'[p].how = "running" /\ report'[p] = NoReport
      /\ Others(p) /\ ShapesOK'
  BY <1>2 DEF Start, Goto, LaneInv, ShapesOK, Others
<1>4. FirstStep(j) # "idle" /\ j # NoJob
  BY NoJobIsNoJob DEF FirstStep
<1>5. StepFitsJob(FirstStep(j), j)
  BY JobFacts DEF FirstStep, StepFitsJob, LoaderOps
<1>6. LoadingOK(ledger, FirstStep(j), j, <<>>, Nothing)
  <2>1. FirstStep(j) \in {"leaf guest", "verify receipt", "load claim"}
    BY DEF FirstStep
  <2>2. FirstStep(j) = "load claim" => j.op \in LoaderOps
    BY <1>5 DEF StepFitsJob
  <2>3. Len(<<>>) = 0
    OBVIOUS
  <2>4. \A n \in Nat \ {0} : 0 < n
    OBVIOUS
  <2>5. \A n \in Nat : 0 <= n
    OBVIOUS
  <2>6. ASSUME j.op \in LoaderOps
        PROVE  0 <= Len(j.inputs) /\ (j.inputs # <<>> => 0 < Len(j.inputs))
    <3>1. IsSeq(j.inputs)
      BY <2>6, JobFacts
    <3>2. Len(j.inputs) \in Nat
      BY <3>1 DEF IsSeq
    <3>3. 0 <= Len(j.inputs)
      BY <2>5, <3>2, Zenon
    <3>4. j.inputs # <<>> => Len(j.inputs) \in Nat \ {0}
      BY <3>1, EmptySeq
    <3>5. j.inputs # <<>> => 0 < Len(j.inputs)
      BY <2>4, <3>4, Zenon
    <3> QED
      BY <3>3, <3>5
  <2>7. LoadedOK(ledger, j.kind, <<>>)
    BY DEF LoadedOK
  <2> QED
    BY <2>1, <2>2, <2>3, <2>6, <2>7 DEF LoadingOK
<1>7. WritingOK(ledger, FirstStep(j), Nothing) /\ VerifyingOK(ledger, FirstStep(j), <<>>, Nothing)
  BY DEF FirstStep, WritingOK, VerifyingOK
<1>8. ReportOK(ledger, openings, NoReport)
  BY DEF ReportOK, NoReport
<1>9. ProcessOK(ledger, openings, pc'[p], job'[p], loaded'[p], held'[p], exit'[p], report'[p])
  <2>1. IsSeq(<<>>)
    BY DEF IsSeq
  <2> QED
    BY <1>3, <1>4, <1>5, <1>6, <1>7, <1>8, <2>1 DEF ProcessOK, Outcomes
<1>10. FilesOK'
  BY FilesUnchanged DEF Start
<1>11. runs' \in 0..MaxRuns
  BY BoundsAssumption DEF Start, LaneInv
<1>12. UNCHANGED <<ledger, openings>>
  BY DEF Start
<1>13. ProcessesOK'
  BY <1>3, <1>9, <1>12, OneMoves DEF LaneInv
<1> QED
  BY <1>3, <1>10, <1>11, <1>12, <1>13 DEF LaneInv

LEMMA CrashPreserves ==
  ASSUME LaneInv, NEW p \in Processes, Crash(p)
  PROVE  LaneInv'
BY EndIsQuiet, FilesUnchanged DEF Crash, Outcomes

LEMMA NextIndex == \A m \in Nat, n \in Nat : m < n => m + 1 \in 1..n
OBVIOUS

LEMMA LastOrBefore == \A n \in Nat : \A k \in 1..(n + 1) : k \in 1..n \/ k = n + 1
OBVIOUS

(* What the input that is being loaded is.                                 *)
LEMMA InputFacts ==
  ASSUME LaneInv, NEW p \in Processes, pc[p] \in {"load claim", "load receipt"},
         job[p].inputs # <<>>
  PROVE  /\ Input(p) = job[p].inputs[Len(loaded[p]) + 1]
         /\ Input(p).slot \in Slots
         /\ Len(loaded[p]) \in Nat /\ Len(job[p].inputs) \in Nat
         /\ Len(loaded[p]) < Len(job[p].inputs)
         /\ LoadedOK(ledger, job[p].kind, loaded[p])
<1>1. ProcessOK(ledger, openings, pc[p], job[p], loaded[p], held[p], exit[p], report[p])
  BY DEF LaneInv, ProcessesOK
<1>2. job[p] \in Jobs /\ job[p].op \in LoaderOps
  BY <1>1 DEF ProcessOK, StepFitsJob
<1>3. /\ Len(loaded[p]) \in Nat /\ Len(loaded[p]) < Len(job[p].inputs)
      /\ LoadedOK(ledger, job[p].kind, loaded[p])
  BY <1>1, <1>2 DEF ProcessOK, LoadingOK, IsSeq
<1>4. /\ Len(job[p].inputs) \in Nat
      /\ \A i \in 1..Len(job[p].inputs) : job[p].inputs[i].slot \in Slots
  BY <1>2, JobFacts DEF IsSeq
<1>5. Len(loaded[p]) + 1 \in 1..Len(job[p].inputs)
  BY <1>3, <1>4, NextIndex, Zenon
<1> QED
  BY <1>3, <1>4, <1>5 DEF Input

LEMMA LoadClaimPreserves ==
  ASSUME LaneInv, NEW p \in Processes, LoadClaim(p)
  PROVE  LaneInv'
<1> DEFINE claim == claimFile[Input(p).slot].data
<1>1. FilesOK'
  BY FilesUnchanged DEF LoadClaim
<1>2. CASE /\ job[p].inputs # <<>>
           /\ Readable(claimFile[Input(p).slot])
           /\ ClaimAccepted(job[p].kind, Input(p).directKind, loaded[p], claim)
  <2>1. ProcessOK(ledger, openings, pc[p], job[p], loaded[p], held[p], exit[p], report[p])
    BY DEF LaneInv, ProcessesOK
  <2>2. /\ pc'[p] = "load receipt" /\ held'[p] = claim
        /\ UNCHANGED <<job, loaded, exit, report>>
        /\ Others(p) /\ ShapesOK'
    BY <1>2 DEF LoadClaim, Goto, LaneInv, ShapesOK, Others
  <2>3. Input(p) = job[p].inputs[Len(loaded[p]) + 1] /\ pc[p] = "load claim"
    BY DEF Input, LoadClaim
  <2> HIDE DEF claim
  <2>4. LoadingOK(ledger, "load receipt", job[p], loaded[p], claim)
    BY <1>2, <2>1, <2>3 DEF ProcessOK, LoadingOK
  <2>5. StepFitsJob("load receipt", job[p])
    BY <2>1, <2>3 DEF ProcessOK, StepFitsJob
  <2>6. ProcessOK(ledger, openings, "load receipt", job[p], loaded[p], claim, exit[p], report[p])
    BY <2>1, <2>3, <2>4, <2>5 DEF ProcessOK, WritingOK, VerifyingOK
  <2> QED
    BY <1>1, <2>2, <2>6, QuietStep DEF LoadClaim
<1>3. CASE ~ /\ job[p].inputs # <<>>
             /\ Readable(claimFile[Input(p).slot])
             /\ ClaimAccepted(job[p].kind, Input(p).directKind, loaded[p], claim)
  <2>1. End(p, "error")
    BY <1>3 DEF LoadClaim
  <2> QED
    BY <1>1, <2>1, EndIsQuiet DEF LoadClaim, Outcomes
<1> QED
  BY <1>2, <1>3

LEMMA MoreLoaded ==
  \A m \in Nat, n \in Nat : m < n => m + 1 <= n /\ (m + 1 # n => m + 1 < n)
OBVIOUS

LEMMA LoadReceiptPreserves ==
  ASSUME LaneInv, NEW p \in Processes, LoadReceipt(p)
  PROVE  LaneInv'
<1> DEFINE file  == receiptFile[Input(p).slot]
           entry == [record  |-> DirectRecord(job[p].kind, Input(p).directKind, held[p]),
                     receipt |-> file.data]
           more  == Append(loaded[p], entry)
           next  == IF Len(more) = Len(job[p].inputs) THEN "loaded" ELSE "load claim"
<1>1. FilesOK'
  BY FilesUnchanged DEF LoadReceipt
<1>2. ProcessOK(ledger, openings, pc[p], job[p], loaded[p], held[p], exit[p], report[p])
  BY DEF LaneInv, ProcessesOK
<1>3. pc[p] = "load receipt"
  BY DEF LoadReceipt
<1>4. /\ job[p].inputs # <<>>
      /\ ClaimAccepted(job[p].kind, Input(p).directKind, loaded[p], held[p])
  BY <1>2, <1>3 DEF ProcessOK, LoadingOK, Input
<1>5. CASE ReceiptAccepted(file, held[p])
  <2>1. /\ pc'[p] = next /\ held'[p] = Nothing /\ loaded'[p] = more
        /\ UNCHANGED <<job, exit, report>>
        /\ Others(p) /\ ShapesOK'
    BY <1>5 DEF LoadReceipt, Goto, LaneInv, ShapesOK, Others
  <2>2. Input(p).slot \in Slots /\ LoadedOK(ledger, job[p].kind, loaded[p])
    BY <1>3, <1>4, InputFacts
  <2>3. file.data \in ledger /\ file.data.kind = "succinct" /\ held[p] = PublicClaim(file.data)
    BY <1>5, <2>2 DEF LaneInv, FilesOK, ReceiptAccepted
  <2>4. /\ entry.receipt = file.data
        /\ entry.record = DirectRecord(job[p].kind, Input(p).directKind, held[p])
    OBVIOUS
  <2> HIDE DEF file, entry
  <2>5. IsSeq(loaded[p])
    BY <1>2 DEF ProcessOK
  <2>6. /\ IsSeq(more) /\ Len(more) = Len(loaded[p]) + 1
        /\ LoadedOK(ledger, job[p].kind, more)
    BY <1>4, <2>2, <2>3, <2>4, <2>5, LoadedAppend
  <2> HIDE DEF more
  <2>7. /\ Len(more) <= Len(job[p].inputs)
        /\ next = "load claim" => Len(more) < Len(job[p].inputs)
        /\ next = "loaded" => Len(more) = Len(job[p].inputs)
    <3>1. /\ Len(loaded[p]) \in Nat /\ Len(job[p].inputs) \in Nat
          /\ Len(loaded[p]) < Len(job[p].inputs)
      BY <1>3, <1>4, InputFacts
    <3>2. /\ Len(more) <= Len(job[p].inputs)
          /\ Len(more) # Len(job[p].inputs) => Len(more) < Len(job[p].inputs)
      BY <2>6, <3>1, MoreLoaded, Zenon
    <3> QED
      BY <3>2
  <2>8. next \in {"loaded", "load claim"}
    OBVIOUS
  <2> HIDE DEF next
  <2>9. LoadingOK(ledger, next, job[p], more, Nothing)
    BY <1>4, <2>6, <2>7, <2>8 DEF LoadingOK
  <2>10. /\ job[p] \in Jobs \cup {NoJob} /\ job[p] # NoJob /\ job[p].op \in LoaderOps
         /\ exit[p].how \in Outcomes /\ ReportOK(ledger, openings, report[p])
    BY <1>2, <1>3 DEF ProcessOK, StepFitsJob
  <2>11. StepFitsJob(next, job[p])
    BY <2>8, <2>10 DEF StepFitsJob
  <2>12. ProcessOK(ledger, openings, next, job[p], more, Nothing, exit[p], report[p])
    BY <2>6, <2>8, <2>9, <2>10, <2>11 DEF ProcessOK, WritingOK, VerifyingOK
  <2> QED
    BY <1>1, <2>1, <2>12, QuietStep DEF LoadReceipt
<1>6. CASE ~ ReceiptAccepted(file, held[p])
  <2>1. PICK how \in {"no receipt", "error"} : End(p, how)
    BY <1>6 DEF LoadReceipt
  <2> QED
    BY <1>1, <2>1, EndIsQuiet DEF LoadReceipt, Outcomes
<1> QED
  BY <1>5, <1>6

LEMMA ExecuteBatchPreserves ==
  ASSUME LaneInv, NEW p \in Processes, ExecuteBatch(p)
  PROVE  LaneInv'
<1>1. PICK how \in {"ok", "error"} : End(p, how)
  BY DEF ExecuteBatch
<1>2. FilesOK'
  BY FilesUnchanged DEF ExecuteBatch
<1> QED
  BY <1>1, <1>2, EndIsQuiet DEF ExecuteBatch, Outcomes

(* What is loaded runs, and runs on receipts that exist.                   *)
LEMMA LoadedFacts ==
  ASSUME LaneInv, NEW p \in Processes, pc[p] = "loaded"
  PROVE  /\ GuestRuns(p)
         /\ ValidateVersion(GuestOutput(p))
         /\ GuestAccepts(job[p].kind, Context(job[p].kind, loaded[p]), Records(loaded[p]),
                         ledger)
         /\ IsSeq(Records(loaded[p]))
         /\ Len(loaded[p]) \in Nat \ {0} /\ Len(loaded[p]) = Len(job[p].inputs)
         /\ LoadedOK(ledger, job[p].kind, loaded[p])
         /\ job[p] \in Jobs /\ job[p].op \in LoaderOps
<1>1. ProcessOK(ledger, openings, pc[p], job[p], loaded[p], held[p], exit[p], report[p])
  BY DEF LaneInv, ProcessesOK
<1>2. job[p] \in Jobs /\ job[p].op \in LoaderOps
  BY <1>1 DEF ProcessOK, StepFitsJob
<1>3. /\ LoadedOK(ledger, job[p].kind, loaded[p])
      /\ Len(loaded[p]) = Len(job[p].inputs) /\ job[p].inputs # <<>>
  BY <1>1, <1>2 DEF ProcessOK, LoadingOK
<1>4. Len(loaded[p]) \in Nat \ {0}
  BY <1>2, <1>3, JobFacts, EmptySeq
<1>5. /\ GuestAccepts(job[p].kind, Context(job[p].kind, loaded[p]), Records(loaded[p]),
                      Assumptions(loaded[p]))
      /\ Assumptions(loaded[p]) \subseteq ledger
      /\ IsSeq(Records(loaded[p]))
  BY <1>3, <1>4, LoadedAccepted DEF LaneInv
<1>6. GuestAccepts(job[p].kind, Context(job[p].kind, loaded[p]), Records(loaded[p]), ledger)
  BY <1>5, GuestAcceptsGrows
<1>7. GuestRuns(p)
  BY <1>5 DEF GuestRuns
<1>8. ValidateVersion(GuestOutput(p))
  BY GuestClaimFields DEF GuestOutput
<1> QED
  BY <1>2, <1>3, <1>4, <1>5, <1>6, <1>7, <1>8

(* A guest run has added r, and the process is about to write it.          *)
LEMMA RunStep ==
  ASSUME LaneInv, NEW p \in Processes, pc[p] \in {"loaded", "leaf guest"},
         job[p].op \in {"leaf", "prove"},
         NEW r, r = [image |-> r.image, journal |-> r.journal, kind |-> r.kind],
         ledger' = ledger \cup {r}, openings \subseteq openings',
         Sound(ledger', openings', LeafImages, ForeignImages, BatchImage),
         pc' = [pc EXCEPT ![p] = "truncate receipt"],
         held' = [held EXCEPT ![p] = r],
         UNCHANGED <<receiptFile, proofFile, job, loaded, exit, report, runs>>
  PROVE  LaneInv'
<1>1. ledger \subseteq ledger'
  OBVIOUS
<1>2. /\ pc'[p] = "truncate receipt" /\ held'[p] = r
      /\ Others(p) /\ ShapesOK'
  BY DEF LaneInv, ShapesOK, Others
<1>3. FilesOK'
  BY <1>1, FilesGrow DEF LaneInv
<1>4. Shaped(ledger')
  BY DEF LaneInv, Shaped
<1>5. ProcessOK(ledger, openings, pc[p], job[p], loaded[p], held[p], exit[p], report[p])
  BY DEF LaneInv, ProcessesOK
<1>6. ProcessOK(ledger', openings', pc[p], job[p], loaded[p], held[p], exit[p], report[p])
  BY <1>1, <1>5, ProcessGrows
<1>7. ProcessOK(ledger', openings', "truncate receipt", job[p], loaded[p], r, exit[p], report[p])
  BY <1>6 DEF ProcessOK, StepFitsJob, LoadingOK, WritingOK, VerifyingOK
<1>8. ProcessesOK'
  BY <1>1, <1>2, <1>7, OneMoves DEF LaneInv
<1> QED
  BY <1>2, <1>3, <1>4, <1>8 DEF LaneInv

(* The receipt and the opening that ProveBatch adds.                       *)
LEMMA BatchRun ==
  ASSUME LaneInv, NEW p \in Processes, ProveBatch(p)
  PROVE  LET receipt == [image   |-> BatchImage,
                         journal |-> Encode(GuestOutput(p)),
                         kind    |-> job[p].receiptKind]
             opening == [claim |-> GuestOutput(p), records |-> Records(loaded[p])]
         IN  /\ ledger' = ledger \cup {receipt}
             /\ openings' = openings \cup {opening}
             /\ held' = [held EXCEPT ![p] = receipt]
             /\ pc' = [pc EXCEPT ![p] = "truncate receipt"]
             /\ UNCHANGED <<receiptFile, claimFile, proofFile, job, loaded, exit,
                            report, runs>>
             /\ pc[p] = "loaded" /\ job[p].op = "prove"
             /\ job[p].receiptKind \in {"composite", "succinct"}
<1>1. pc[p] = "loaded" /\ job[p].op = "prove"
  BY DEF ProveBatch
<1>2. GuestRuns(p) /\ ValidateVersion(GuestOutput(p)) /\ job[p] \in Jobs
  BY <1>1, LoadedFacts
<1>3. job[p].receiptKind \in {"composite", "succinct"}
  BY <1>1, <1>2, JobFacts, ReceiptKindsAssumption
<1> QED
  BY <1>1, <1>2, <1>3 DEF ProveBatch, Goto

LEMMA ProveBatchPreserves ==
  ASSUME LaneInv, NEW p \in Processes, ProveBatch(p)
  PROVE  LaneInv'
<1> DEFINE receipt == [image   |-> BatchImage,
                       journal |-> Encode(GuestOutput(p)),
                       kind    |-> job[p].receiptKind]
           opening == [claim |-> GuestOutput(p), records |-> Records(loaded[p])]
<1>1. /\ ledger' = ledger \cup {receipt}
      /\ openings' = openings \cup {opening}
      /\ held' = [held EXCEPT ![p] = receipt]
      /\ pc' = [pc EXCEPT ![p] = "truncate receipt"]
      /\ UNCHANGED <<receiptFile, claimFile, proofFile, job, loaded, exit, report, runs>>
      /\ pc[p] = "loaded" /\ job[p].op = "prove"
      /\ job[p].receiptKind \in {"composite", "succinct"}
  BY BatchRun
<1>2. /\ receipt.image = BatchImage /\ receipt.journal = Encode(opening.claim)
      /\ receipt.kind \in {"composite", "succinct"}
      /\ receipt = [image |-> receipt.image, journal |-> receipt.journal,
                    kind |-> receipt.kind]
  BY <1>1
<1>3. /\ opening.claim = GuestClaim(job[p].kind, Context(job[p].kind, loaded[p]),
                                    Records(loaded[p]))
      /\ opening.records = Records(loaded[p])
  BY DEF GuestOutput
<1> HIDE DEF receipt, opening
<1>4. /\ GuestAccepts(job[p].kind, Context(job[p].kind, loaded[p]), Records(loaded[p]),
                      ledger)
      /\ IsSeq(Records(loaded[p]))
  BY <1>1, LoadedFacts
<1>5. Sound(ledger \cup {receipt}, openings \cup {opening}, LeafImages, ForeignImages, BatchImage)
  BY <1>2, <1>3, <1>4, ImagesAssumption, BatchRunIsSound DEF LaneInv
<1>6. Sound(ledger', openings', LeafImages, ForeignImages, BatchImage) /\ openings \subseteq openings'
  BY <1>1, <1>5
<1> QED
  BY <1>1, <1>2, <1>6, RunStep

LEMMA ProveLeafPreserves ==
  ASSUME LaneInv, NEW p \in Processes, ProveLeaf(p)
  PROVE  LaneInv'
<1> DEFINE receipt == [image   |-> job[p].image,
                       journal |-> LeafJournal(job[p].body),
                       kind    |-> job[p].receiptKind]
<1>1. /\ ledger' = ledger \cup {receipt} /\ openings' = openings
      /\ held' = [held EXCEPT ![p] = receipt]
      /\ pc' = [pc EXCEPT ![p] = "truncate receipt"]
      /\ UNCHANGED <<receiptFile, claimFile, proofFile, job, loaded, exit, report, runs>>
      /\ pc[p] = "leaf guest"
  BY DEF ProveLeaf, Goto
<1>2. job[p].op = "leaf" /\ job[p] \in Jobs
  BY <1>1, NoJobIsNoJob DEF LaneInv, ProcessesOK, ProcessOK, StepFitsJob
<1>3. job[p].image \in LeafImages /\ job[p].receiptKind \in {"composite", "succinct"}
  BY <1>2, JobFacts, ReceiptKindsAssumption
<1>4. /\ receipt.image \in LeafImages /\ receipt.journal.type = "leaf"
      /\ receipt.kind \in {"composite", "succinct"}
      /\ receipt = [image |-> receipt.image, journal |-> receipt.journal,
                    kind |-> receipt.kind]
  BY <1>3 DEF LeafJournal
<1> HIDE DEF receipt
<1>5. Sound(ledger \cup {receipt}, openings, LeafImages, ForeignImages, BatchImage)
  BY <1>4, ImagesAssumption, LeafRunIsSound DEF LaneInv
<1>6. Sound(ledger', openings', LeafImages, ForeignImages, BatchImage) /\ openings \subseteq openings'
  BY <1>1, <1>5
<1> QED
  BY <1>1, <1>2, <1>4, <1>6, RunStep

-----------------------------------------------------------------------------
(* Writing the artifacts.                                                  *)

LEMMA FilledIs ==
  ASSUME NEW old, NEW data, NEW file \in Filled(old, data)
  PROVE  /\ ~ Readable(Empty)
         /\ Readable(file) => file.data = data
BY DEF Filled, Full, Garbled, Empty, Readable

(* A step of a process from one point of its writing to the next.          *)
LEMMA WriteStep ==
  ASSUME LaneInv, NEW p \in Processes, NEW step, NEW next, Write(p, step, next),
         \/ step = "truncate receipt" /\ next = "fill receipt"
         \/ step = "fill receipt" /\ next = "truncate claim"
         \/ step = "truncate claim" /\ next = "fill claim"
         \/ step = "truncate proof" /\ next = "fill proof",
         FilesOK'
  PROVE  LaneInv'
<1>1. /\ pc[p] = step /\ pc'[p] = next
      /\ UNCHANGED <<ledger, openings, job, loaded, held, exit, report, runs>>
      /\ Others(p) /\ ShapesOK'
  BY DEF Write, Goto, LaneInv, ShapesOK, Others
<1>2. ProcessOK(ledger, openings, step, job[p], loaded[p], held[p], exit[p], report[p])
  BY <1>1 DEF LaneInv, ProcessesOK
<1>3. ProcessOK(ledger, openings, next, job[p], loaded[p], held[p], exit[p], report[p])
  BY <1>2 DEF ProcessOK, StepFitsJob, LoadingOK, WritingOK, VerifyingOK
<1> QED
  BY <1>1, <1>3, QuietStep

(* A process that writes has an output path, and what it writes exists.    *)
LEMMA WriterFacts ==
  ASSUME LaneInv, NEW p \in Processes
  PROVE  /\ pc[p] \in {"truncate receipt", "fill receipt", "truncate claim", "fill claim"}
              => job[p].out \in Slots
         /\ pc[p] = "fill receipt" => held[p] \in ledger
         /\ pc[p] \in {"truncate proof", "fill proof"}
              => job[p].out \in ProofSlots /\ Len(held[p].siblings) \in Nat
<1>1. ProcessOK(ledger, openings, pc[p], job[p], loaded[p], held[p], exit[p], report[p])
  BY DEF LaneInv, ProcessesOK
<1>2. StepFitsJob(pc[p], job[p]) /\ WritingOK(ledger, pc[p], held[p])
  BY <1>1 DEF ProcessOK
<1>3. pc[p] # "idle" => job[p] \in Jobs
  BY <1>1 DEF ProcessOK
<1> QED
  BY <1>2, <1>3, JobFacts DEF StepFitsJob, WritingOK

LEMMA TruncateReceiptPreserves ==
  ASSUME LaneInv, NEW p \in Processes, TruncateReceipt(p)
  PROVE  LaneInv'
<1>1. FilesOK'
  BY FilledIs DEF TruncateReceipt, Write, LaneInv, FilesOK, Readable, Empty
<1> QED
  BY <1>1, WriteStep DEF TruncateReceipt

LEMMA FillReceiptPreserves ==
  ASSUME LaneInv, NEW p \in Processes, FillReceipt(p)
  PROVE  LaneInv'
<1>1. PICK file \in Filled(receiptFile[job[p].out], held[p]) :
        receiptFile' = [receiptFile EXCEPT ![job[p].out] = file]
  BY DEF FillReceipt
<1>2. pc[p] = "fill receipt" /\ UNCHANGED <<ledger, proofFile>>
  BY DEF FillReceipt, Write
<1>3. Readable(file) => file.data \in ledger
  BY <1>1, <1>2, FilledIs, WriterFacts
<1>4. FilesOK'
  BY <1>1, <1>2, <1>3 DEF LaneInv, FilesOK
<1> QED
  BY <1>4, WriteStep DEF FillReceipt

LEMMA TruncateClaimPreserves ==
  ASSUME LaneInv, NEW p \in Processes, TruncateClaim(p)
  PROVE  LaneInv'
BY FilesUnchanged, WriteStep DEF TruncateClaim, Write

LEMMA FillClaimPreserves ==
  ASSUME LaneInv, NEW p \in Processes, FillClaim(p)
  PROVE  LaneInv'
BY FilesUnchanged, EndIsQuiet DEF FillClaim, Outcomes

LEMMA TruncateProofPreserves ==
  ASSUME LaneInv, NEW p \in Processes, TruncateProof(p)
  PROVE  LaneInv'
<1>1. FilesOK'
  BY DEF TruncateProof, Write, LaneInv, FilesOK, Readable, Empty
<1> QED
  BY <1>1, WriteStep DEF TruncateProof

LEMMA FillProofPreserves ==
  ASSUME LaneInv, NEW p \in Processes, FillProof(p)
  PROVE  LaneInv'
<1>1. PICK file \in Filled(proofFile[job[p].out], held[p]) :
        proofFile' = [proofFile EXCEPT ![job[p].out] = file]
  BY DEF FillProof
<1>2. pc[p] = "fill proof" /\ UNCHANGED <<ledger, receiptFile>>
  BY DEF FillProof
<1>3. Readable(file) => Len(file.data.siblings) \in Nat
  BY <1>1, <1>2, FilledIs, WriterFacts
<1>4. FilesOK'
  BY <1>1, <1>2, <1>3 DEF LaneInv, FilesOK
<1> QED
  BY <1>4, EndIsQuiet DEF FillProof, Outcomes

LEMMA DerivePreserves ==
  ASSUME LaneInv, NEW p \in Processes, Derive(p)
  PROVE  LaneInv'
<1> DEFINE q == DeriveInclusion(job[p].kind, Records(loaded[p]), job[p].leafIndex)
<1>1. FilesOK'
  BY FilesUnchanged DEF Derive
<1>2. pc[p] = "loaded" /\ job[p].op = "derive"
  BY DEF Derive
<1>3. CASE job[p].leafIndex < Len(loaded[p])
  <2>1. /\ pc'[p] = "truncate proof" /\ held'[p] = q
        /\ UNCHANGED <<job, loaded, exit, report>>
        /\ Others(p) /\ ShapesOK'
    BY <1>3 DEF Derive, Goto, LaneInv, ShapesOK, Others
  <2>2. q.siblings = BuildProof(Records(loaded[p]), job[p].leafIndex).siblings
    BY DEF DeriveInclusion
  <2>3. Len(Records(loaded[p])) \in Nat \ {0}
    <3>1. Len(loaded[p]) \in Nat \ {0}
      BY <1>2, LoadedFacts
    <3>2. Len(Records(loaded[p])) = Len(loaded[p])
      BY <3>1, RecordsLen
    <3> QED
      BY <3>1, <3>2
  <2>4. Len(q.siblings) \in Nat
    BY <2>2, <2>3, BuildProofSiblings DEF IsSeq
  <2> HIDE DEF q
  <2>5. ProcessOK(ledger, openings, pc[p], job[p], loaded[p], held[p], exit[p], report[p])
    BY DEF LaneInv, ProcessesOK
  <2>6. ProcessOK(ledger, openings, "truncate proof", job[p], loaded[p], q, exit[p], report[p])
    BY <1>2, <2>4, <2>5 DEF ProcessOK, StepFitsJob, LoadingOK, WritingOK, VerifyingOK
  <2> QED
    BY <1>1, <2>1, <2>6, QuietStep DEF Derive
<1>4. CASE ~ (job[p].leafIndex < Len(loaded[p]))
  <2>1. End(p, "error")
    BY <1>4 DEF Derive
  <2> QED
    BY <1>1, <2>1, EndIsQuiet DEF Derive, Outcomes
<1> QED
  BY <1>3, <1>4

-----------------------------------------------------------------------------
(* VerifyBatch.                                                            *)

LEMMA NothingRead ==
  ASSUME NEW A, NEW h \in A, h.image = BatchImage,
         NEW step \in {"verify claim", "read proofs"}
  PROVE  VerifyingOK(A, step, <<>>, h)
<1>1. \A k \in 1..Len(<<>>) : Len(<<>>[k].siblings) \in Nat
  BY NoIndex, Zenon
<1> QED
  BY <1>1 DEF VerifyingOK

LEMMA VerifyReceiptPreserves ==
  ASSUME LaneInv, NEW p \in Processes, VerifyReceipt(p)
  PROVE  LaneInv'
<1> DEFINE file == receiptFile[job[p].slot]
           next == IF job[p].withClaim THEN "verify claim" ELSE "read proofs"
<1>1. FilesOK'
  BY FilesUnchanged DEF VerifyReceipt
<1>2. CASE /\ Readable(file) /\ file.data.image = BatchImage
           /\ Decodes(file.data.journal) /\ ValidateVersion(Decode(file.data.journal))
  <2>1. /\ pc'[p] = next /\ held'[p] = file.data
        /\ UNCHANGED <<job, loaded, exit, report>>
        /\ Others(p) /\ ShapesOK'
    BY <1>2 DEF VerifyReceipt, Goto, LaneInv, ShapesOK, Others
  <2>2. ProcessOK(ledger, openings, pc[p], job[p], loaded[p], held[p], exit[p], report[p])
    BY DEF LaneInv, ProcessesOK
  <2>3. pc[p] = "verify receipt"
    BY DEF VerifyReceipt
  <2>4. job[p] \in Jobs /\ job[p].op = "verify" /\ loaded[p] = <<>>
    BY <2>2, <2>3 DEF ProcessOK, StepFitsJob, VerifyingOK
  <2>5. file.data \in ledger
    BY <1>2, <2>4, JobFacts DEF LaneInv, FilesOK
  <2>6. next \in {"verify claim", "read proofs"}
    OBVIOUS
  <2> HIDE DEF file, next
  <2>7. StepFitsJob(next, job[p])
    BY <2>4, <2>6 DEF StepFitsJob
  <2>8. LoadingOK(ledger, next, job[p], loaded[p], file.data)
    BY <2>4, <2>6 DEF LoadingOK, LoaderOps
  <2>9. VerifyingOK(ledger, next, loaded[p], file.data)
    BY <1>2, <2>4, <2>5, <2>6, NothingRead
  <2>10. ProcessOK(ledger, openings, next, job[p], loaded[p], file.data, exit[p], report[p])
    BY <2>2, <2>3, <2>6, <2>7, <2>8, <2>9 DEF ProcessOK, WritingOK
  <2> QED
    BY <1>1, <2>1, <2>10, QuietStep DEF VerifyReceipt
<1>3. CASE ~ /\ Readable(file) /\ file.data.image = BatchImage
             /\ Decodes(file.data.journal) /\ ValidateVersion(Decode(file.data.journal))
  <2>1. End(p, "error")
    BY <1>3 DEF VerifyReceipt
  <2> QED
    BY <1>1, <2>1, EndIsQuiet DEF VerifyReceipt, Outcomes
<1> QED
  BY <1>2, <1>3

LEMMA VerifyClaimPreserves ==
  ASSUME LaneInv, NEW p \in Processes, VerifyClaim(p)
  PROVE  LaneInv'
<1>1. FilesOK'
  BY FilesUnchanged DEF VerifyClaim
<1>2. CASE claimFile[job[p].slot] = Full(PublicClaim(held[p]))
  <2>1. /\ pc'[p] = "read proofs" /\ UNCHANGED <<job, loaded, held, exit, report>>
        /\ Others(p) /\ ShapesOK'
    BY <1>2 DEF VerifyClaim, Goto, LaneInv, ShapesOK, Others
  <2>2. ProcessOK(ledger, openings, pc[p], job[p], loaded[p], held[p], exit[p], report[p])
    BY DEF LaneInv, ProcessesOK
  <2>3. pc[p] = "verify claim"
    BY DEF VerifyClaim
  <2>4. loaded[p] = <<>> /\ held[p] \in ledger /\ held[p].image = BatchImage
    BY <2>2, <2>3 DEF ProcessOK, VerifyingOK
  <2>5. VerifyingOK(ledger, "read proofs", loaded[p], held[p])
    BY <2>4, NothingRead
  <2>6. ProcessOK(ledger, openings, "read proofs", job[p], loaded[p], held[p], exit[p], report[p])
    BY <2>2, <2>3, <2>5 DEF ProcessOK, StepFitsJob, LoadingOK, WritingOK
  <2> QED
    BY <1>1, <2>1, <2>6, QuietStep DEF VerifyClaim
<1>3. CASE claimFile[job[p].slot] # Full(PublicClaim(held[p]))
  <2>1. End(p, "error")
    BY <1>3 DEF VerifyClaim
  <2> QED
    BY <1>1, <2>1, EndIsQuiet DEF VerifyClaim, Outcomes
<1> QED
  BY <1>2, <1>3

(* A process that is reading proofs verifies a receipt of the batch guest. *)
LEMMA ReaderFacts ==
  ASSUME LaneInv, NEW p \in Processes, pc[p] = "read proofs"
  PROVE  /\ job[p] \in Jobs /\ job[p].op = "verify"
         /\ held[p] \in ledger /\ held[p].image = BatchImage
         /\ IsSeq(loaded[p])
         /\ \A k \in 1..Len(loaded[p]) : Len(loaded[p][k].siblings) \in Nat
BY DEF LaneInv, ProcessesOK, ProcessOK, StepFitsJob, VerifyingOK

LEMMA ReadProofPreserves ==
  ASSUME LaneInv, NEW p \in Processes, ReadProof(p)
  PROVE  LaneInv'
<1> DEFINE file == proofFile[job[p].proofs[Len(loaded[p]) + 1]]
           more == Append(loaded[p], file.data)
<1>1. FilesOK'
  BY FilesUnchanged DEF ReadProof
<1>2. pc[p] = "read proofs" /\ Len(loaded[p]) < Len(job[p].proofs)
  BY DEF ReadProof
<1>3. CASE Readable(file)
  <2>1. /\ loaded'[p] = more /\ UNCHANGED <<pc, job, held, exit, report>>
        /\ Others(p) /\ ShapesOK'
    BY <1>3 DEF ReadProof, LaneInv, ShapesOK, Others
  <2>2. /\ job[p] \in Jobs /\ job[p].op = "verify" /\ IsSeq(loaded[p])
        /\ held[p] \in ledger /\ held[p].image = BatchImage
        /\ \A k \in 1..Len(loaded[p]) : Len(loaded[p][k].siblings) \in Nat
    BY <1>2, ReaderFacts
  <2>3. Len(loaded[p]) \in Nat /\ Len(job[p].proofs) \in Nat
    BY <2>2, JobFacts DEF IsSeq
  <2>4. Len(loaded[p]) + 1 \in 1..Len(job[p].proofs)
    BY <1>2, <2>3, NextIndex, Zenon
  <2>5. job[p].proofs[Len(loaded[p]) + 1] \in ProofSlots
    BY <2>2, <2>4, JobFacts
  <2>6. Len(file.data.siblings) \in Nat
    BY <1>3, <2>5 DEF LaneInv, FilesOK
  <2> HIDE DEF file
  <2>7. /\ IsSeq(more) /\ Len(more) = Len(loaded[p]) + 1
        /\ more[Len(loaded[p]) + 1] = file.data
        /\ \A k \in 1..Len(loaded[p]) : more[k] = loaded[p][k]
    BY <2>2, AppendSeq
  <2> HIDE DEF more
  <2>8. \A n \in Nat : \A k \in 1..(n + 1) : k \in 1..n \/ k = n + 1
    BY LastOrBefore
  <2>9. \A k \in 1..Len(more) : Len(more[k].siblings) \in Nat
    BY <2>2, <2>3, <2>6, <2>7, <2>8, Zenon
  <2>10. ProcessOK(ledger, openings, pc[p], job[p], loaded[p], held[p], exit[p], report[p])
    BY DEF LaneInv, ProcessesOK
  <2>11. LoadingOK(ledger, "read proofs", job[p], more, held[p])
    BY <2>2 DEF LoadingOK, LoaderOps
  <2>12. VerifyingOK(ledger, "read proofs", more, held[p])
    BY <2>2, <2>9 DEF VerifyingOK
  <2>13. ProcessOK(ledger, openings, pc[p], job[p], more, held[p], exit[p], report[p])
    BY <1>2, <2>7, <2>10, <2>11, <2>12 DEF ProcessOK, WritingOK
  <2> QED
    BY <1>1, <2>1, <2>13, QuietStep DEF ReadProof
<1>4. CASE ~ Readable(file)
  <2>1. End(p, "error")
    BY <1>4 DEF ReadProof
  <2> QED
    BY <1>1, <2>1, EndIsQuiet DEF ReadProof, Outcomes
<1> QED
  BY <1>3, <1>4

(* What VerifyBatch reports is backed when it returns.                     *)
LEMMA ReportIsBacked ==
  ASSUME LaneInv, NEW p \in Processes, pc[p] = "read proofs",
         NEW claim, claim = Decode(held[p].journal),
         loaded[p] = <<>> \/ VerifyBatchInclusionChain(claim, loaded[p]),
         NEW rep, rep.inclusions = loaded[p],
         rep.claims = IF loaded[p] = <<>> THEN <<claim>> ELSE ChainClaims(claim, loaded[p])
  PROVE  ReportOK(ledger, openings, rep)
<1>1. /\ held[p] \in ledger /\ held[p].image = BatchImage
      /\ IsSeq(loaded[p])
      /\ \A k \in 1..Len(loaded[p]) : Len(loaded[p][k].siblings) \in Nat
  BY ReaderFacts
<1>2. PICK o \in openings : held[p].journal = Encode(o.claim)
  BY <1>1 DEF LaneInv, Sound, Attested
<1>3. o.claim = claim /\ held[p].journal = Encode(claim)
  BY <1>2, EncodeDecodes
<1>4. CASE loaded[p] = <<>>
  <2>1. rep.claims = <<claim>> /\ rep.inclusions = <<>>
    BY <1>4
  <2>2. rep.claims[1] = claim
    BY <2>1, SingleSeq, Zenon
  <2>3. 1..Len(rep.inclusions) = {}
    BY <2>1, NoIndex, Zenon
  <2> QED
    BY <1>1, <1>3, <2>2, <2>3 DEF ReportOK
<1>5. CASE loaded[p] # <<>>
  <2>1. Len(loaded[p]) \in Nat
    BY <1>1 DEF IsSeq
  <2>2. /\ ChainClaims(claim, loaded[p])[1] = claim
        /\ \A k \in 1..Len(loaded[p]) :
             VouchedFor(BatchImage, ChainClaims(claim, loaded[p]), loaded[p], k) =>
               Backs(ledger, openings, ChainClaims(claim, loaded[p])[k], loaded[p][k])
    <3> DEFINE list == loaded[p]
    <3>1. /\ Sound(ledger, openings, LeafImages, ForeignImages, BatchImage)
          /\ \E q \in openings : q.claim = claim
          /\ Len(list) \in Nat
          /\ \A k \in 1..Len(list) : Len(list[k].siblings) \in Nat
          /\ VerifyBatchInclusionChain(claim, list)
      BY <1>1, <1>3, <1>5, <2>1 DEF LaneInv
    <3> HIDE DEF list
    <3>2. /\ ChainClaims(claim, list)[1] = claim
          /\ \A k \in 1..Len(list) :
               VouchedFor(BatchImage, ChainClaims(claim, list), list, k) =>
                 Backs(ledger, openings, ChainClaims(claim, list)[k], list[k])
      BY ONLY <3>1, ChainSound
    <3> QED
      BY <3>2 DEF list
  <2> QED
    BY <1>1, <1>3, <1>5, <2>2 DEF ReportOK
<1> QED
  BY <1>4, <1>5

LEMMA VerifyChainPreserves ==
  ASSUME LaneInv, NEW p \in Processes, VerifyChain(p)
  PROVE  LaneInv'
<1> DEFINE claim == Decode(held[p].journal)
           rep   == [claims     |-> IF loaded[p] = <<>> THEN <<claim>>
                                    ELSE ChainClaims(claim, loaded[p]),
                     inclusions |-> loaded[p]]
<1>1. FilesOK'
  BY FilesUnchanged DEF VerifyChain
<1>2. pc[p] = "read proofs"
  BY DEF VerifyChain
<1>3. CASE loaded[p] = <<>> \/ VerifyBatchInclusionChain(claim, loaded[p])
  <2>1. report' = [report EXCEPT ![p] = rep] /\ End(p, "ok")
    BY <1>3 DEF VerifyChain
  <2>2. ReportOK(ledger, openings, rep)
    BY <1>2, <1>3, ReportIsBacked
  <2> HIDE DEF rep
  <2>3. ShapesOK
    BY DEF LaneInv
  <2>4. Others(p) /\ ShapesOK' /\ report'[p] = rep
    BY <2>1, <2>3, AtEnd DEF Others, ShapesOK
  <2>5. ProcessOK(ledger, openings, pc'[p], job'[p], loaded'[p], held'[p], exit'[p],
                  report'[p])
    <3>1. /\ pc'[p] = "idle" /\ job'[p] = NoJob /\ loaded'[p] = <<>>
          /\ held'[p] = Nothing /\ exit'[p].how = "ok"
      BY <2>1, <2>3, AtEnd
    <3>2. exit'[p].how \in Outcomes
      BY <3>1 DEF Outcomes
    <3> QED
      BY <2>2, <2>4, <3>1, <3>2, IdleOK
  <2> QED
    BY <1>1, <2>4, <2>5, QuietStep DEF VerifyChain
<1>4. CASE ~ (loaded[p] = <<>> \/ VerifyBatchInclusionChain(claim, loaded[p]))
  <2>1. End(p, "error") /\ UNCHANGED report
    BY <1>4 DEF VerifyChain
  <2> QED
    BY <1>1, <2>1, EndIsQuiet DEF VerifyChain, Outcomes
<1> QED
  BY <1>3, <1>4

-----------------------------------------------------------------------------
LEMMA InitEstablishes == LaneInit => LaneInv
<1> SUFFICES ASSUME LaneInit
             PROVE  LaneInv
  OBVIOUS
<1>1. ledger = Given /\ openings = {} /\ runs = 0
  BY DEF LaneInit
<1>2. ASSUME NEW r \in Given
      PROVE  /\ Attested(r, {}, LeafImages, ForeignImages, BatchImage)
             /\ r = [image |-> r.image, journal |-> r.journal, kind |-> r.kind]
  <2>1. CASE r \in Ledger!LeafReceipts
    BY <2>1, ImagesAssumption
       DEF Ledger!LeafReceipts, Ledger!Receipt, Ledger!LeafJournal, Attested, RecordSize
  <2>2. CASE r \in Ledger!ForeignReceipts
    <3>1. PICK image \in ForeignImages,
               journal \in {Ledger!LeafJournal(body) : body \in Bodies} \cup Forged,
               kind \in {"composite", "succinct"} :
             r = Ledger!Receipt(image, journal, kind)
      BY <2>2 DEF Ledger!ForeignReceipts
    <3>2. RecordSize(journal) # 0
      <4>1. CASE journal \in Forged
        BY <4>1, ForgedAssumption, LeafClaimSizes, KindsDiffer DEF Decodes
      <4>2. CASE journal \in {Ledger!LeafJournal(body) : body \in Bodies}
        BY <4>2 DEF Ledger!LeafJournal, RecordSize
      <4> QED
        BY <4>1, <4>2
    <3> QED
      BY <3>1, <3>2, ImagesAssumption DEF Ledger!Receipt, Attested
  <2> QED
    BY <2>1, <2>2, GivenAssumption
<1>3. Sound(ledger, openings, LeafImages, ForeignImages, BatchImage) /\ Shaped(ledger)
  BY <1>1, <1>2 DEF Sound, Shaped
<1>4. FilesOK
  <2>1. \A s \in DOMAIN GivenSlots : GivenSlots[s] \in Given
    BY GivenSlotsAssumption
  <2>2. /\ receiptFile = [s \in Slots |-> receiptFile[s]]
        /\ proofFile = [s \in ProofSlots |-> proofFile[s]]
        /\ \A s \in Slots : receiptFile[s] = IF s \in DOMAIN GivenSlots
                                             THEN Full(GivenSlots[s]) ELSE Absent
        /\ \A s \in ProofSlots : proofFile[s] = Absent
    BY DEF LaneInit
  <2>3. ~ Readable(Absent) /\ \A d : Full(d).data = d
    BY DEF Readable, Absent, Full
  <2> QED
    BY <1>1, <2>1, <2>2, <2>3 DEF FilesOK
<1>5. ShapesOK
  BY DEF LaneInit, ShapesOK
<1>6. ReportOK(ledger, openings, NoReport)
  BY NoIndex DEF ReportOK, NoReport
<1>7. ProcessesOK
  <2>1. ASSUME NEW p \in Processes
        PROVE  /\ pc[p] = "idle" /\ job[p] = NoJob /\ loaded[p] = <<>> /\ held[p] = Nothing
               /\ exit[p].how \in Outcomes /\ report[p] = NoReport
    BY DEF LaneInit, Outcomes
  <2> QED
    BY <1>6, <2>1, IdleOK DEF ProcessesOK
<1>8. runs \in 0..MaxRuns
  BY <1>1, BoundsAssumption
<1> QED
  BY <1>3, <1>4, <1>5, <1>7, <1>8 DEF LaneInv

LEMMA StepPreserves ==
  ASSUME LaneInv, NEW p \in Processes, Step(p)
  PROVE  LaneInv'
<1>1. CASE LoadClaim(p)       BY <1>1, LoadClaimPreserves
<1>2. CASE LoadReceipt(p)     BY <1>2, LoadReceiptPreserves
<1>3. CASE ExecuteBatch(p)    BY <1>3, ExecuteBatchPreserves
<1>4. CASE ProveBatch(p)      BY <1>4, ProveBatchPreserves
<1>5. CASE ProveLeaf(p)       BY <1>5, ProveLeafPreserves
<1>6. CASE TruncateReceipt(p) BY <1>6, TruncateReceiptPreserves
<1>7. CASE FillReceipt(p)     BY <1>7, FillReceiptPreserves
<1>8. CASE TruncateClaim(p)   BY <1>8, TruncateClaimPreserves
<1>9. CASE FillClaim(p)       BY <1>9, FillClaimPreserves
<1>10. CASE Derive(p)         BY <1>10, DerivePreserves
<1>11. CASE TruncateProof(p)  BY <1>11, TruncateProofPreserves
<1>12. CASE FillProof(p)      BY <1>12, FillProofPreserves
<1>13. CASE VerifyReceipt(p)  BY <1>13, VerifyReceiptPreserves
<1>14. CASE VerifyClaim(p)    BY <1>14, VerifyClaimPreserves
<1>15. CASE ReadProof(p)      BY <1>15, ReadProofPreserves
<1>16. CASE VerifyChain(p)    BY <1>16, VerifyChainPreserves
<1> QED
  BY <1>1, <1>2, <1>3, <1>4, <1>5, <1>6, <1>7, <1>8, <1>9, <1>10, <1>11, <1>12,
     <1>13, <1>14, <1>15, <1>16 DEF Step

LEMMA NextPreserves == LaneInv /\ [LaneNext]_laneVars => LaneInv'
<1> SUFFICES ASSUME LaneInv, [LaneNext]_laneVars
             PROVE  LaneInv'
  OBVIOUS
<1>1. CASE LaneNext
  <2>1. PICK p \in Processes : (\E j \in Jobs : Start(p, j)) \/ Step(p) \/ Crash(p)
    BY <1>1 DEF LaneNext
  <2> QED
    BY <2>1, StartPreserves, StepPreserves, CrashPreserves
<1>2. CASE UNCHANGED laneVars
  BY <1>2 DEF laneVars, LaneInv, ShapesOK, FilesOK, ProcessesOK
<1> QED
  BY <1>1, <1>2

LEMMA LaneInvariant == LaneSpec => []LaneInv
BY InitEstablishes, NextPreserves, PTL DEF LaneSpec

-----------------------------------------------------------------------------
(* The type invariant, for any number of processes and invocations: a      *)
(* process has a job exactly while it is not idle, it never has loaded     *)
(* more than its job names, and no buffer outlives an invocation.          *)
THEOREM LaneTypeCorrect == LaneSpec => []LaneTypeOK
<1>1. LaneInv => LaneTypeOK
  <2> SUFFICES ASSUME LaneInv
               PROVE  LaneTypeOK
    OBVIOUS
  <2>1. \A r \in ledger : r.kind \in {"composite", "succinct"}
    BY DEF LaneInv, Sound, Attested
  <2>2. ASSUME NEW p \in Processes
        PROVE  /\ (job[p] = NoJob) <=> (pc[p] = "idle")
               /\ pc[p] = "idle" => loaded[p] = <<>> /\ held[p] = Nothing
               /\ exit[p].how \in {"none", "running", "ok", "error", "no receipt", "killed"}
               /\ job[p].op \in {"prove", "execute", "derive"}
                    => Len(loaded[p]) <= Len(job[p].inputs)
               /\ pc[p] \in {"load claim", "load receipt"} /\ job[p].inputs # <<>>
                    => Len(loaded[p]) < Len(job[p].inputs)
    BY DEF LaneInv, ProcessesOK, ProcessOK, Outcomes, LoadingOK, LoaderOps
  <2> QED
    BY <2>1, <2>2 DEF LaneTypeOK, LaneInv
<1> QED
  BY <1>1, LaneInvariant, PTL

(* Whatever files are replaced, truncated or garbled between the reads of  *)
(* loadBatchLeaves (batch_support.go:369-620), each loaded record is what  *)
(* the succinct receipt loaded with it attests.                            *)
THEOREM LoadedIsGenuine == LaneSpec => []LoadedGenuine
<1>1. LaneInv => LoadedGenuine
  <2> SUFFICES ASSUME LaneInv, NEW p \in Processes,
                      job[p].op \in {"prove", "execute", "derive"},
                      NEW i \in 1..Len(loaded[p])
               PROVE  LET entry == loaded[p][i]
                          kind  == job[p].kind
                      IN  /\ entry.receipt \in ledger
                          /\ entry.receipt.kind = "succinct"
                          /\ entry.receipt.image
                               = RecordImage(kind, Context(kind, loaded[p]), entry.record)
                          /\ entry.receipt.journal = RecordJournal(kind, entry.record)
    BY DEF LoadedGenuine, Loaders
  <2>1. LoadedOK(ledger, job[p].kind, loaded[p]) /\ Len(loaded[p]) \in Nat
    BY DEF LaneInv, ProcessesOK, ProcessOK, LoadingOK, LoaderOps, IsSeq
  <2>2. /\ loaded[p][i].receipt \in ledger
        /\ loaded[p][i].receipt.kind = "succinct"
    BY <2>1 DEF LoadedOK
  <2>3. /\ loaded[p][i].receipt.image
             = RecordImage(job[p].kind, Context(job[p].kind, loaded[p]), loaded[p][i].record)
        /\ loaded[p][i].receipt.journal = RecordJournal(job[p].kind, loaded[p][i].record)
    <3>1. Sound(ledger, openings, LeafImages, ForeignImages, BatchImage) /\ Shaped(ledger)
      BY DEF LaneInv
    <3> DEFINE kind    == job[p].kind
               entries == loaded[p]
    <3>2. LoadedOK(ledger, kind, entries) /\ Len(entries) \in Nat /\ i \in 1..Len(entries)
      BY <2>1
    <3> HIDE DEF kind, entries
    <3>3. LET entry == entries[i]
              context == Context(kind, entries)
          IN  /\ entry.receipt.image = RecordImage(kind, context, entry.record)
              /\ entry.receipt.journal = RecordJournal(kind, entry.record)
              /\ kind \in SupportedLeafKinds
              /\ DirectLeafAccepted(kind, context, entry.record, Assumptions(entries))
      BY <3>1, <3>2, EntryAccepted, Zenon
    <3> QED
      BY <3>3 DEF kind, entries
  <2> QED
    BY <2>2, <2>3
<1> QED
  BY <1>1, LaneInvariant, PTL

(* The two copies of the checks agree for batches of any size: what the    *)
(* host loads (batch_support.go:380-602) the guest accepts                 *)
(* (guest_batch/main.go:50-160), in a claim whose version the host takes.  *)
THEOREM GuestAndHostAgree == LaneSpec => []GuestAgreesWithHost
<1>1. LaneInv => GuestAgreesWithHost
  BY LoadedFacts DEF GuestAgreesWithHost
<1> QED
  BY <1>1, LaneInvariant, PTL

(* What VerifyBatch reports (batch_support.go VerifyBatchInclusionChain)   *)
(* is backed as far down as the image IDs it reports are the batch         *)
(* guest's, for chains of any length, any journals of foreign programs and *)
(* whatever has become of the files since they were read.                  *)
THEOREM ReportsAreBacked == LaneSpec => []ReportBacked
<1>1. LaneInv => ReportBacked
  <2> SUFFICES ASSUME LaneInv, NEW p \in Processes
               PROVE  ReportOK(ledger, openings, report[p])
    BY DEF ReportBacked, ReportOK, Backs, VouchedFor, DisclosedImage
  <2> QED
    BY DEF LaneInv, ProcessesOK, ProcessOK
<1> QED
  BY <1>1, LaneInvariant, PTL

-----------------------------------------------------------------------------
(* The lane implements the ledger.  The operators of the two modules are   *)
(* the same ones, instantiated with the same constants.                    *)

LEMMA SameGuestAccepts ==
  ASSUME NEW kind, NEW context, NEW records, NEW assumptions
  PROVE  Ledger!GuestAccepts(kind, context, records, assumptions)
           <=> GuestAccepts(kind, context, records, assumptions)
BY DEF GuestAccepts, DirectLeafAccepted, SameChildPolicy, Resolved, EnvelopeDecodes,
   RecordImage, RecordJournal, ChildBatchPolicy, Decode, RecordSize, LeafClaimSize,
   SupportedLeafKinds, IsAllowedHeterogeneousDirectLeafKindV1,
   LeafKindTaproot, LeafKindHardenedXPriv, LeafKindBatchClaimV1,
   LeafKindHeterogeneousEnvelopeV1, HeterogeneousEnvelopeVersionV1,
   Ledger!GuestAccepts, Ledger!DirectLeafAccepted, Ledger!SameChildPolicy,
   Ledger!Resolved, Ledger!EnvelopeDecodes, Ledger!RecordImage, Ledger!RecordJournal,
   Ledger!ChildBatchPolicy, Ledger!Decode, Ledger!RecordSize, Ledger!LeafClaimSize,
   Ledger!SupportedLeafKinds, Ledger!IsAllowedHeterogeneousDirectLeafKindV1,
   Ledger!LeafKindTaproot, Ledger!LeafKindHardenedXPriv, Ledger!LeafKindBatchClaimV1,
   Ledger!LeafKindHeterogeneousEnvelopeV1, Ledger!HeterogeneousEnvelopeVersionV1

LEMMA SameRoot ==
  ASSUME NEW records
  PROVE  Ledger!Root(records) = Root(records)
BY DEF Root, Height, Level, LeafNodes, NextLevel, LeafHash, InnerHash,
   Ledger!Root, Ledger!Height, Ledger!Level, Ledger!LeafNodes, Ledger!NextLevel,
   Ledger!LeafHash, Ledger!InnerHash

LEMMA SameGuestClaim ==
  ASSUME NEW kind, NEW context, NEW records
  PROVE  Ledger!GuestClaim(kind, context, records) = GuestClaim(kind, context, records)
BY SameRoot
   DEF GuestClaim, Claim, LeafKindHeterogeneousEnvelopeV1, VersionHeterogeneousParent,
       Version, FlagsNone, MerkleHashSHA256,
       Ledger!GuestClaim, Ledger!Claim, Ledger!LeafKindHeterogeneousEnvelopeV1,
       Ledger!VersionHeterogeneousParent, Ledger!Version, Ledger!FlagsNone,
       Ledger!MerkleHashSHA256

LEMMA SameEnvelope ==
  ASSUME NEW directKind, NEW image, NEW journal
  PROVE  /\ Ledger!Envelope(directKind, image, journal)
              = Envelope(directKind, image, journal)
         /\ Ledger!CanEnvelope(directKind, journal) <=> CanEnvelope(directKind, journal)
BY DEF Envelope, CanEnvelope, RecordSize, LeafClaimSize, HeterogeneousEnvelopeVersionV1,
   IsAllowedHeterogeneousDirectLeafKindV1,
   LeafKindTaproot, LeafKindHardenedXPriv, LeafKindBatchClaimV1,
   LeafKindHeterogeneousEnvelopeV1,
   Ledger!Envelope, Ledger!CanEnvelope, Ledger!RecordSize, Ledger!LeafClaimSize,
   Ledger!HeterogeneousEnvelopeVersionV1,
   Ledger!IsAllowedHeterogeneousDirectLeafKindV1,
   Ledger!LeafKindTaproot, Ledger!LeafKindHardenedXPriv, Ledger!LeafKindBatchClaimV1,
   Ledger!LeafKindHeterogeneousEnvelopeV1

LEMMA SameKinds ==
  /\ Ledger!SupportedLeafKinds = SupportedLeafKinds
  /\ Ledger!LeafKindHeterogeneousEnvelopeV1 = LeafKindHeterogeneousEnvelopeV1
BY DEF SupportedLeafKinds, LeafKindTaproot, LeafKindHardenedXPriv, LeafKindBatchClaimV1,
   LeafKindHeterogeneousEnvelopeV1,
   Ledger!SupportedLeafKinds, Ledger!LeafKindTaproot, Ledger!LeafKindHardenedXPriv,
   Ledger!LeafKindBatchClaimV1, Ledger!LeafKindHeterogeneousEnvelopeV1

(* What a loader passes to the guest is among the records the ledger's     *)
(* guest may be given.                                                     *)
LEMMA LoadedRecords ==
  ASSUME LaneInv, NEW kind, NEW entry, entry.receipt \in ledger, RecordOf(kind, entry)
  PROVE  entry.record \in Ledger!StdinRecords(kind)
<1>1. entry.receipt.image \in Ledger!Images /\ entry.receipt.journal \in Ledger!Journals
  BY DEF LaneInv, Sound, Attested, Ledger!Images, Ledger!Journals
<1>2. CASE kind = LeafKindHeterogeneousEnvelopeV1
  <2>1. PICK directKind \in SupportedLeafKinds :
          /\ CanEnvelope(directKind, entry.receipt.journal)
          /\ entry.record = Envelope(directKind, entry.receipt.image, entry.receipt.journal)
    BY <1>2 DEF RecordOf
  <2> DEFINE e == <<directKind, entry.receipt.image, entry.receipt.journal>>
             D == {d \in Ledger!SupportedLeafKinds \X Ledger!Images \X Ledger!Journals :
                     Ledger!CanEnvelope(d[1], d[3])}
  <2>2. e \in Ledger!SupportedLeafKinds \X Ledger!Images \X Ledger!Journals
    BY <1>1, <2>1, SameKinds
  <2>3. e[1] = directKind /\ e[2] = entry.receipt.image /\ e[3] = entry.receipt.journal
    OBVIOUS
  <2>4. e \in D /\ entry.record = Ledger!Envelope(e[1], e[2], e[3])
    BY <2>1, <2>2, <2>3, SameEnvelope
  <2> HIDE DEF e
  <2>5. entry.record \in Ledger!Envelopes
    BY <2>4 DEF Ledger!Envelopes
  <2> QED
    BY <1>2, <2>5, SameKinds DEF Ledger!StdinRecords
<1>3. CASE kind # LeafKindHeterogeneousEnvelopeV1
  BY <1>1, <1>3, SameKinds DEF RecordOf, Ledger!StdinRecords
<1> QED
  BY <1>2, <1>3

LEMMA ProveLeafImplements ==
  ASSUME LaneInv, NEW p \in Processes, ProveLeaf(p)
  PROVE  Ledger!Next
<1>1. job[p].op = "leaf" /\ job[p] \in Jobs
  BY NoJobIsNoJob DEF ProveLeaf, LaneInv, ProcessesOK, ProcessOK, StepFitsJob
<1>2. job[p].image \in LeafImages /\ job[p].body \in Bodies /\ job[p].receiptKind \in ReceiptKinds
  BY <1>1, JobFacts
<1>3. Ledger!ProveLeaf(job[p].image, job[p].body, job[p].receiptKind)
  BY DEF ProveLeaf, Ledger!ProveLeaf, Ledger!Receipt, LeafJournal, Ledger!LeafJournal
<1> QED
  BY <1>2, <1>3 DEF Ledger!Next

LEMMA ProveBatchImplements ==
  ASSUME LaneInv, NEW p \in Processes, ProveBatch(p)
  PROVE  Ledger!Next
<1> DEFINE kind    == job[p].kind
           context == Context(kind, loaded[p])
           records == Records(loaded[p])
<1>1. pc[p] = "loaded" /\ job[p].op = "prove"
  BY DEF ProveBatch
<1>2. /\ GuestAccepts(kind, context, records, ledger)
      /\ IsSeq(records)
      /\ Len(loaded[p]) \in Nat \ {0} /\ Len(loaded[p]) = Len(job[p].inputs)
      /\ LoadedOK(ledger, kind, loaded[p])
      /\ job[p] \in Jobs
  BY <1>1, LoadedFacts
<1>3. /\ kind \in Kinds /\ job[p].receiptKind \in ReceiptKinds
      /\ Len(loaded[p]) <= MaxLeaves
  BY <1>1, <1>2, JobFacts DEF LoaderOps
<1>4. Len(records) = Len(loaded[p])
  BY <1>2, RecordsLen
<1>5. ASSUME NEW i \in 1..Len(loaded[p])
      PROVE  records[i] \in Ledger!StdinRecords(kind)
  <2>1. records[i] = loaded[p][i].record
    BY DEF Records
  <2> QED
    BY <1>2, <2>1, LoadedRecords DEF LoadedOK
<1>6. records \in BoundedSeq(Ledger!StdinRecords(kind), MaxLeaves)
  <2> HIDE DEF records
  <2> QED
    BY <1>2, <1>3, <1>4, <1>5, BoundsAssumption, SeqIsBounded
<1>7. context \in Ledger!Images \cup {PolicyDigest}
  <2>1. 1 \in 1..Len(loaded[p])
    BY <1>2
  <2>2. loaded[p][1].receipt \in ledger
    BY <1>2, <2>1 DEF LoadedOK
  <2> QED
    BY <2>2 DEF Context, LaneInv, Sound, Attested, Ledger!Images
<1>8. /\ ledger' = ledger \cup {[image   |-> BatchImage,
                                journal |-> Encode(GuestOutput(p)),
                                kind    |-> job[p].receiptKind]}
      /\ openings' = openings \cup {[claim |-> GuestOutput(p), records |-> records]}
  BY BatchRun
<1>9. /\ GuestOutput(p) = Ledger!GuestClaim(kind, context, records)
      /\ Ledger!GuestAccepts(kind, context, records, ledger)
  BY <1>2, SameGuestClaim, SameGuestAccepts DEF GuestOutput
<1> HIDE DEF kind, context, records
<1>10. Ledger!ProveBatch(kind, context, records, ledger, job[p].receiptKind)
  BY <1>8, <1>9
     DEF Ledger!ProveBatch, Ledger!Opening, Ledger!Receipt, Encode, Ledger!Encode
<1> QED
  BY <1>3, <1>6, <1>7, <1>10 DEF Ledger!Next, Ledger!BoundedSeq, BoundedSeq,
     Ledger!SeqOf, SeqOf

LEMMA OthersStutter ==
  ASSUME NEW p \in Processes,
         \/ \E j \in Jobs : Start(p, j)
         \/ Step(p) /\ ~ ProveLeaf(p) /\ ~ ProveBatch(p)
         \/ Crash(p)
  PROVE  UNCHANGED Ledger!ledgerVars
BY DEF Start, Crash, Step, LoadClaim, LoadReceipt, ExecuteBatch, TruncateReceipt,
   FillReceipt, TruncateClaim, FillClaim, Derive, TruncateProof, FillProof,
   VerifyReceipt, VerifyClaim, ReadProof, VerifyChain, Write, Ledger!ledgerVars

(* The refinement: whatever the processes, files and crashes do, the       *)
(* receipts and openings change only as BatchLedger lets one guest run     *)
(* change them.  So all that is proved of the ledger holds of the lane.    *)
THEOREM LaneImplementsLedger == LaneSpec => ImplementsLedger
<1>1. LaneInit => Ledger!Init
  BY DEF LaneInit, Ledger!Init
<1>2. LaneInv /\ [LaneNext]_laneVars => [Ledger!Next]_(Ledger!ledgerVars)
  <2> SUFFICES ASSUME LaneInv, [LaneNext]_laneVars
               PROVE  Ledger!Next \/ UNCHANGED Ledger!ledgerVars
    OBVIOUS
  <2>1. CASE UNCHANGED laneVars
    BY <2>1 DEF laneVars, Ledger!ledgerVars
  <2>2. CASE LaneNext
    <3>1. PICK p \in Processes : (\E j \in Jobs : Start(p, j)) \/ Step(p) \/ Crash(p)
      BY <2>2 DEF LaneNext
    <3> QED
      BY <3>1, ProveLeafImplements, ProveBatchImplements, OthersStutter
  <2> QED
    BY <2>1, <2>2
<1> QED
  BY <1>1, <1>2, LaneInvariant, PTL DEF LaneSpec, ImplementsLedger, Ledger!Spec
=============================================================================
