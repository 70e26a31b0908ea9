---------------------------- MODULE BatchLoader ----------------------------
(***************************************************************************)
(* What loadBatchLeaves of batch_support.go decides about one input: the   *)
(* checks on its claim.json, then on the receipt beside it, and the record *)
(* it contributes to the batch.  BatchLane makes these checks file by      *)
(* file, other processes in between; NestedPlan, alone on its files, makes *)
(* them all at once.                                                       *)
(***************************************************************************)
EXTENDS BatchGuest, ArtifactFile

PublicClaim(receipt) == [image |-> receipt.image, journal |-> receipt.journal]

-----------------------------------------------------------------------------
(* An input is [slot, directKind]; an entry, what is kept of a loaded one, *)
(* is [record, receipt].                                                   *)

Records(entries)     == [i \in 1..Len(entries) |-> entries[i].record]
Assumptions(entries) == {entries[i].receipt : i \in 1..Len(entries)}

Context(kind, entries) ==
  IF kind = LeafKindHeterogeneousEnvelopeV1 THEN PolicyDigest
                                            ELSE entries[1].receipt.image

(* Mutant: the child policies are not compared.                            *)
ClaimAcceptedAnyPolicy(kind, directKind, entries, claim) ==
  IF kind = LeafKindHeterogeneousEnvelopeV1
  THEN CanEnvelope(directKind, claim.journal)
  ELSE /\ RecordSize(claim.journal) = LeafClaimSize(kind)
       /\ entries # <<>> => claim.image = entries[1].receipt.image

(* The checks on the claim before its receipt is read.                     *)
ClaimAccepted(kind, directKind, entries, claim) ==
  IF kind = LeafKindHeterogeneousEnvelopeV1
  THEN CanEnvelope(directKind, claim.journal)
  ELSE /\ RecordSize(claim.journal) = LeafClaimSize(kind)
       /\ entries # <<>> =>
            /\ claim.image = entries[1].receipt.image
            /\ kind = LeafKindBatchClaimV1 =>
                 ChildBatchPolicy(claim.journal) = ChildBatchPolicy(entries[1].record)

DirectRecord(kind, directKind, claim) ==
  IF kind = LeafKindHeterogeneousEnvelopeV1
  THEN Envelope(directKind, claim.image, claim.journal) ELSE claim.journal

(* Mutants: no expected journal in the request; composite ones are let in. *)
ReceiptAcceptedAnyJournal(file, claim) ==
  /\ Readable(file)
  /\ file.data.image = claim.image
  /\ file.data.kind = "succinct"

ReceiptAcceptedAnyKind(file, claim) ==
  /\ Readable(file)
  /\ PublicClaim(file.data) = claim

(* client.Verify(receipt, image, journal) and the succinct check.          *)
ReceiptAccepted(file, claim) ==
  /\ Readable(file)
  /\ PublicClaim(file.data) = claim
  /\ file.data.kind = "succinct"

-----------------------------------------------------------------------------
(* The whole loop over files nobody else touches: what it returns, and     *)
(* when it does not fail.                                                  *)

LoadedLeaves(kind, inputs, claimFile, receiptFile) ==
  [i \in 1..Len(inputs) |->
     [record  |-> DirectRecord(kind, inputs[i].directKind,
                               claimFile[inputs[i].slot].data),
      receipt |-> receiptFile[inputs[i].slot].data]]

loadBatchLeaves(kind, inputs, claimFile, receiptFile) ==
  /\ inputs # <<>>
  /\ \A i \in 1..Len(inputs) :
       LET claim   == claimFile[inputs[i].slot]
           receipt == receiptFile[inputs[i].slot]
           before  == LoadedLeaves(kind, SubSeq(inputs, 1, i - 1),
                                   claimFile, receiptFile)
       IN  /\ Readable(claim)
           /\ ClaimAccepted(kind, inputs[i].directKind, before, claim.data)
           /\ ReceiptAccepted(receipt, claim.data)
=============================================================================
