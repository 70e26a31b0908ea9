----------------------------- MODULE BatchGuest -----------------------------
(***************************************************************************)
(* The batch aggregation guest (guest_batch/main.go) as a predicate and a  *)
(* function of its private input: GuestAccepts holds when it reaches       *)
(* Halt(0) and every zkvm.Verify of it is resolved, GuestClaim is the      *)
(* claim it then commits.  And the host code that later opens such a claim *)
(* level by level (verifyBatchInclusionProof, decodeNextNestedBatchClaim   *)
(* and VerifyBatchInclusionChain of batch_support.go).                     *)
(*                                                                         *)
(* A receipt is [image, journal, kind]: the proof system vouches that the  *)
(* program with that image ID committed that journal.                      *)
(***************************************************************************)
EXTENDS BatchClaims, MerkleTree

(* zkvm.Verify(image, journal) leaves an assumption that the prover        *)
(* resolves with a succinct receipt it was given for exactly that pair.    *)
Resolved(assumptions, image, journal) ==
  [image |-> image, journal |-> journal, kind |-> "succinct"] \in assumptions

(* Mutant: zkvm.Verify is not called.                                      *)
DirectLeafUnverified(kind, context, record, assumptions) ==
  /\ RecordSize(record) = LeafClaimSize(kind)
  /\ kind = LeafKindHeterogeneousEnvelopeV1 =>
       EnvelopeDecodes(record) /\ context = PolicyDigest

DirectLeafAccepted(kind, context, record, assumptions) ==
  /\ RecordSize(record) = LeafClaimSize(kind)
  /\ kind = LeafKindHeterogeneousEnvelopeV1 =>
       /\ EnvelopeDecodes(record)
       /\ context = PolicyDigest
  /\ Resolved(assumptions, RecordImage(kind, context, record),
              RecordJournal(kind, record))

(* Mutant: only the leaf kinds of the children are compared.               *)
SameChildKind(kind, records) ==
  kind = LeafKindBatchClaimV1 =>
    \A i \in 1..Len(records) :
      Decode(records[i]).leafClaimKind = Decode(records[1]).leafClaimKind

(* The first child pins the policy and every later one must match it.      *)
SameChildPolicy(kind, records) ==
  kind = LeafKindBatchClaimV1 =>
    \A i \in 1..Len(records) :
      ChildBatchPolicy(records[i]) = ChildBatchPolicy(records[1])

GuestAccepts(kind, context, records, assumptions) ==
  /\ Len(records) # 0
  /\ kind \in SupportedLeafKinds
  /\ \A i \in 1..Len(records) :
       DirectLeafAccepted(kind, context, records[i], assumptions)
  /\ SameChildPolicy(kind, records)

(* Mutants: the leaf count is off by one; version 2 for every parent.      *)
GuestClaimMiscounted(kind, context, records) ==
  Claim(IF kind = LeafKindHeterogeneousEnvelopeV1
        THEN VersionHeterogeneousParent ELSE Version,
        kind, Len(records) - 1, context, Root(records))

GuestClaimParentVersion(kind, context, records) ==
  Claim(IF kind \in {LeafKindBatchClaimV1, LeafKindHeterogeneousEnvelopeV1}
        THEN VersionHeterogeneousParent ELSE Version,
        kind, Len(records), context, Root(records))

GuestClaim(kind, context, records) ==
  Claim(IF kind = LeafKindHeterogeneousEnvelopeV1
        THEN VersionHeterogeneousParent ELSE Version,
        kind, Len(records), context, Root(records))

-----------------------------------------------------------------------------
(* Opening a claim.  An inclusion is the content of a proof file: the      *)
(* disclosed record, its index, its siblings and the public fields that    *)
(* the verifier compares.  The optional DirectLeafKind and                 *)
(* DirectLeafImageID are 0 and NoImage when the file leaves them out.      *)

NoImage == "no image"

DeriveInclusion(kind, records, leafIndex) ==
  LET p == BuildProof(records, leafIndex)
      isEnvelope == kind = LeafKindHeterogeneousEnvelopeV1
  IN  [leafClaimKind     |-> kind,
       merkleHashKind    |-> MerkleHashSHA256,
       leafIndex         |-> p.leafIndex,
       leafCount         |-> p.leafCount,
       leafJournal       |-> p.leafClaim,
       siblings          |-> p.siblings,
       directLeafKind    |-> IF isEnvelope THEN p.leafClaim.directLeafKind ELSE 0,
       directLeafImageID |-> IF isEnvelope THEN p.leafClaim.verifyImageID
                                           ELSE NoImage]

(* Mutant: the public fields are compared, the Merkle path is not walked.  *)
verifyInclusionFields(claim, inclusion) ==
  /\ inclusion.leafClaimKind = claim.leafClaimKind
  /\ inclusion.merkleHashKind = claim.merkleHashKind
  /\ inclusion.leafCount = claim.leafCount

verifyBatchInclusionProof(claim, inclusion) ==
  /\ inclusion.leafClaimKind = claim.leafClaimKind
  /\ inclusion.merkleHashKind = claim.merkleHashKind
  /\ inclusion.leafCount = claim.leafCount
  /\ claim.leafClaimKind = LeafKindHeterogeneousEnvelopeV1 =>
       /\ EnvelopeDecodes(inclusion.leafJournal)
       /\ inclusion.directLeafKind \in {0, inclusion.leafJournal.directLeafKind}
       /\ inclusion.directLeafImageID
            \in {NoImage, inclusion.leafJournal.verifyImageID}
  /\ VerifyProof(claim.merkleRoot,
                 [leafIndex |-> inclusion.leafIndex,
                  leafCount |-> inclusion.leafCount,
                  leafClaim |-> inclusion.leafJournal,
                  siblings  |-> inclusion.siblings])

(* The batch claim a record of a claim of the given kind discloses, if any.*)
DisclosesBatch(kind, record) ==
  \/ kind = LeafKindBatchClaimV1
  \/ /\ kind = LeafKindHeterogeneousEnvelopeV1
     /\ record.directLeafKind = LeafKindBatchClaimV1

HasNextNestedBatchClaim(claim, inclusion) ==
  /\ DisclosesBatch(claim.leafClaimKind, inclusion.leafJournal)
  /\ Decodes(RecordJournal(claim.leafClaimKind, inclusion.leafJournal))

NextNestedBatchClaim(claim, inclusion) ==
  Decode(RecordJournal(claim.leafClaimKind, inclusion.leafJournal))

(* currentClaim after k rounds of the chain's loop; it is defined for the  *)
(* rounds a verification gets through.                                     *)
ClaimAfter(rootClaim, inclusions) ==
  LET currentClaim[k \in Nat] ==
        IF k = 0 THEN rootClaim
        ELSE NextNestedBatchClaim(currentClaim[k - 1], inclusions[k])
  IN  currentClaim

(* The claims of the levels, rootClaim first.                              *)
ChainClaims(rootClaim, inclusions) ==
  [k \in 1..Len(inclusions) |-> ClaimAfter(rootClaim, inclusions)[k - 1]]

VerifyBatchInclusionChain(rootClaim, inclusions) ==
  /\ Len(inclusions) # 0
  /\ \A k \in 1..Len(inclusions) :
       LET claim == ChainClaims(rootClaim, inclusions)[k]
       IN  /\ verifyBatchInclusionProof(claim, inclusions[k])
           /\ k < Len(inclusions) => HasNextNestedBatchClaim(claim, inclusions[k])
=============================================================================
