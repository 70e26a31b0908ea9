-------------------------- MODULE BatchDisclosure ---------------------------
(***************************************************************************)
(* VerifyBatch of batch_runner.go against the receipts of BatchLedger, and *)
(* the loop of VerifyBatchInclusionChain in batch_support.go, one          *)
(* inclusion proof per step.  Anyone may hand the verifier any receipt of  *)
(* the ledger and any proof files: proofs derived from a batch, or from a  *)
(* batch that only a foreign program claims, proofs of another batch or    *)
(* another level, and proofs whose index, record, siblings or public       *)
(* fields were changed.                                                    *)
(*                                                                         *)
(* The batches are all proved before the verifier starts: a receipt stays  *)
(* valid for ever, so later ones only add to what backs a disclosure.      *)
(***************************************************************************)
EXTENDS BatchLedger

CONSTANTS
  ForeignOpenings,  \* [claim, records] of batches that were never proved
  MaxReceipts,      \* bound on the receipts proved
  MaxLevels         \* bound on the proofs of a chain

ASSUME ForeignOpeningsAssumption == \A o \in ForeignOpenings : Len(o.records) \in Nat \ {0}
ASSUME MaxLevelsAssumption == MaxLevels \in Nat \ {0}

VARIABLES
  phase,       \* "prove", "verify", "accepted" or "rejected"
  current,     \* currentClaim
  disclosed    \* [claim, leafIndex, record] of the levels verified so far

disclosureVars == <<ledger, openings, phase, current, disclosed>>

NoClaim == Claim(0, 0, 0, NoImage, <<>>)

DInit ==
  /\ Init
  /\ phase = "prove"
  /\ current = NoClaim
  /\ disclosed = <<>>

Prove ==
  /\ phase = "prove"
  /\ Cardinality(ledger) < MaxReceipts
  /\ Next
  /\ UNCHANGED <<phase, current, disclosed>>

(* The checks of VerifyBatch before it loads the inclusion proofs: the     *)
(* receipt verifies against the batch guest's image ID, its journal is a   *)
(* batch claim and the version of the claim fits its kind.                 *)
VerifyReceipt(receipt) ==
  /\ phase = "prove"
  /\ IF /\ receipt.image = BatchImage
        /\ Decodes(receipt.journal)
        /\ ValidateVersion(Decode(receipt.journal))
     THEN /\ phase' = "verify"
          /\ current' = Decode(receipt.journal)
     ELSE /\ phase' = "rejected"
          /\ UNCHANGED current
  /\ UNCHANGED <<ledger, openings, disclosed>>

(* A failed check returns the error and nothing else.                      *)
Reject ==
  /\ phase' = "rejected"
  /\ current' = NoClaim
  /\ disclosed' = <<>>

Disclose(inclusion) ==
  Append(disclosed, [claim     |-> current,
                     leafIndex |-> inclusion.leafIndex,
                     record    |-> inclusion.leafJournal])

(* Mutant: the last record is not reported.                                *)
FinalInclusionUnreported(inclusion) ==
  /\ phase = "verify"
  /\ verifyBatchInclusionProof(current, inclusion)
  /\ phase' = "accepted"
  /\ UNCHANGED <<ledger, openings, current, disclosed>>

(* idx == len(inclusions)-1 *)
FinalInclusion(inclusion) ==
  /\ phase = "verify"
  /\ verifyBatchInclusionProof(current, inclusion)
  /\ phase' = "accepted"
  /\ disclosed' = Disclose(inclusion)
  /\ UNCHANGED <<ledger, openings, current>>

NestedInclusion(inclusion) ==
  /\ phase = "verify"
  /\ Len(disclosed) + 1 < MaxLevels
  /\ verifyBatchInclusionProof(current, inclusion)
  /\ IF HasNextNestedBatchClaim(current, inclusion)
     THEN /\ current' = NextNestedBatchClaim(current, inclusion)
          /\ disclosed' = Disclose(inclusion)
          /\ UNCHANGED phase
     ELSE Reject
  /\ UNCHANGED <<ledger, openings>>

RefuseInclusion(inclusion) ==
  /\ phase = "verify"
  /\ ~ verifyBatchInclusionProof(current, inclusion)
  /\ Reject
  /\ UNCHANGED <<ledger, openings>>

-----------------------------------------------------------------------------
(* The proof files there are: derived from the records of some batch,      *)
(* proved or not, or from one of a proved batch by changing the index, the *)
(* record, the siblings or the public fields.                              *)
InclusionsOf(batches) ==
  UNION {{DeriveInclusion(o.claim.leafClaimKind, o.records, i) :
            i \in 0..(Len(o.records) - 1)} : o \in batches}

Derived == InclusionsOf(openings)

WithPublicFields(inclusion, kind, count) ==
  [inclusion EXCEPT !.leafClaimKind = kind, !.leafCount = count]

WithDirectLeaf(inclusion, kind, image) ==
  [inclusion EXCEPT !.directLeafKind = kind, !.directLeafImageID = image]

Changed(inclusion) ==
  {[inclusion EXCEPT !.leafIndex = i] : i \in 0..MaxLeaves}
  \cup {[inclusion EXCEPT !.leafJournal = d.leafJournal] : d \in Derived}
  \cup {[inclusion EXCEPT !.siblings = s] :
          s \in {<<>>, inclusion.siblings \o inclusion.siblings}
                \cup {d.siblings : d \in Derived}}
  \cup {WithPublicFields(inclusion, k, n) : k \in Kinds, n \in 0..MaxLeaves}
  \cup {WithDirectLeaf(inclusion, k, m) :
          k \in {0, LeafKindTaproot}, m \in LeafImages \cup {NoImage}}

Inclusions == UNION {Changed(d) : d \in Derived} \cup InclusionsOf(ForeignOpenings)

DNext ==
  \/ Prove
  \/ \E receipt \in ledger : VerifyReceipt(receipt)
  \/ \E inclusion \in Inclusions :
       \/ FinalInclusion(inclusion)
       \/ NestedInclusion(inclusion)
       \/ RefuseInclusion(inclusion)

DSpec == DInit /\ [][DNext]_disclosureVars

-----------------------------------------------------------------------------
DTypeOK ==
  /\ TypeOK
  /\ phase \in {"prove", "verify", "accepted", "rejected"}
  /\ Len(disclosed) <= MaxLevels
  /\ phase = "accepted" => Len(disclosed) > 0

(* The image ID that a level's record was verified under by the guest that *)
(* committed the level's claim: the claim's or the envelope's.             *)
DisclosedImage(level) ==
  RecordImage(level.claim.leafClaimKind, level.claim.leafGuestImageID, level.record)

(* Every level above the k-th discloses what the batch guest committed, so *)
(* far as the image IDs go.  The verifier does not look at them; someone   *)
(* who reads its report can.                                               *)
Vouched(k) == \A j \in 1..(k - 1) : DisclosedImage(disclosed[j]) = BatchImage

(* batch_support.go:744-747 and docs/batch-merkle-system.md "Nested Sparse *)
(* Disclosure": at every level of a chain the disclosed record is the one  *)
(* the prover put at that index of that very batch, and a succinct receipt *)
(* of the image named there attests it, though the verifier only ever      *)
(* checked the one top-level receipt.  It takes that the image IDs of the  *)
(* levels above are the batch guest's: what a foreign program committed as *)
(* a batch claim opens to anything.                                        *)
DisclosureBacked ==
  \A k \in 1..Len(disclosed) : Vouched(k) =>
    LET c == disclosed[k].claim
        r == disclosed[k].record
    IN  /\ \E o \in openings :
             /\ o.claim = c
             /\ disclosed[k].leafIndex < Len(o.records)
             /\ r = o.records[disclosed[k].leafIndex + 1]
        /\ Resolved(ledger, DisclosedImage(disclosed[k]),
                            RecordJournal(c.leafClaimKind, r))

(* VerifyBatchInclusionChain does not call ValidateVersion on the nested   *)
(* claims it reports, and foreign programs commit claims of any version.   *)
(* As long as the image IDs disclosed on the way down are the batch        *)
(* guest's, a nested claim is one that VerifyBatch would accept as a root. *)
NestedClaimsVerify ==
  \A k \in 1..Len(disclosed) : Vouched(k) =>
    /\ ValidateVersion(disclosed[k].claim)
    /\ \E r \in ledger : r.image = BatchImage /\ r.journal = Encode(disclosed[k].claim)

(* docs/batch-merkle-system.md:99-101, of a child of a batch_claim_v1      *)
(* parent: "The parent guest calls `zkvm.Verify` against the child batch   *)
(* guest's image ID with the 84-byte child claim as the expected journal." *)
(* So the nested claims of a chain of such parents were committed by the   *)
(* batch guest, all of them.                                               *)
NestedClaimsProved ==
  \A k \in 1..Len(disclosed) :
    (\A j \in 1..(k - 1) : disclosed[j].claim.leafClaimKind = LeafKindBatchClaimV1) =>
      \E r \in ledger : r.image = BatchImage /\ r.journal = Encode(disclosed[k].claim)

(* batch_runner.go:262-326: a proof derived from the records of the        *)
(* current batch is never refused, at any level and for any leaf.          *)
DerivedProofsVerify ==
  phase = "verify" =>
    \A o \in {q \in openings : q.claim = current} :
      \A i \in 0..(Len(o.records) - 1) :
        verifyBatchInclusionProof(current,
          DeriveInclusion(o.claim.leafClaimKind, o.records, i))
=============================================================================
