---------------------------- MODULE BatchClaims ----------------------------
(***************************************************************************)
(* The public data of the batch lane: leaf kinds, leaf records, the claim  *)
(* a batch guest commits to its journal, and the pure checks the host and  *)
(* the guest make on them (batchclaim/claim.go, batchclaim/envelope.go and *)
(* the child policy of batch_support.go and guest_batch/main.go).          *)
(*                                                                         *)
(* Byte strings are abstracted to the value they encode together with the  *)
(* size that the code checks.  A leaf record is one of                     *)
(*   [type |-> "leaf",     body  |-> b]   a 72-byte journal of the Taproot *)
(*                                        or the hardened-xpriv guest      *)
(*   [type |-> "batch",    claim |-> c]   an 84-byte encoded batch claim   *)
(*   [type |-> "envelope", ...]           a 128-byte envelope              *)
(* The first two are journals, which is what a receipt attests; so is      *)
(*   [type |-> "xpub",     body  |-> b]   73 bytes of the hardened-xpub    *)
(*                                        guest, which no batch takes      *)
(* and [type |-> "none"] is what a file without a record is read as.       *)
(***************************************************************************)
EXTENDS Naturals, Sequences

CONSTANTS
  PolicyDigest    \* the digest HeterogeneousPolicyDigestV1 returns

Version                    == 1
VersionHeterogeneousParent == 2
FlagsNone                  == 0
MerkleHashSHA256           == 1

LeafKindTaproot                 == 1
LeafKindHardenedXPriv           == 2
LeafKindBatchClaimV1            == 3
LeafKindHeterogeneousEnvelopeV1 == 4

HeterogeneousEnvelopeVersionV1 == 1

SupportedLeafKinds ==
  {LeafKindTaproot, LeafKindHardenedXPriv, LeafKindBatchClaimV1,
   LeafKindHeterogeneousEnvelopeV1}

(* LeafClaimSize; an unsupported kind has the size 0, that of no record.   *)
LeafClaimSize(kind) ==
  CASE kind \in {LeafKindTaproot, LeafKindHardenedXPriv} -> 72
    [] kind = LeafKindBatchClaimV1                       -> 84
    [] kind = LeafKindHeterogeneousEnvelopeV1            -> 128
    [] OTHER                                             -> 0

(* The length of the byte string a record stands for.                      *)
RecordSize(record) ==
  CASE record.type = "leaf"     -> 72
    [] record.type = "batch"    -> 84
    [] record.type = "envelope" -> 128
    [] record.type = "xpub"     -> 73
    [] record.type = "none"     -> 0

LeafJournal(body) == [type |-> "leaf", body |-> body]

-----------------------------------------------------------------------------
(* The claim of a batch (batchclaim/claim.go).                             *)

Claim(version, kind, count, context, root) ==
  [version          |-> version,
   flags            |-> FlagsNone,
   leafClaimKind    |-> kind,
   merkleHashKind   |-> MerkleHashSHA256,
   leafCount        |-> count,
   leafGuestImageID |-> context,
   merkleRoot       |-> root]

Encode(claim) == [type |-> "batch", claim |-> claim]

(* Decode only checks the size; any 84 bytes are some claim.               *)
Decodes(journal) == RecordSize(journal) = LeafClaimSize(LeafKindBatchClaimV1)
Decode(journal)  == journal.claim

UsesPolicyDigest(claim) ==
  /\ claim.version = VersionHeterogeneousParent
  /\ claim.leafClaimKind = LeafKindHeterogeneousEnvelopeV1

ValidateVersion(claim) ==
  claim.version = IF UsesPolicyDigest(claim)
                  THEN VersionHeterogeneousParent ELSE Version

-----------------------------------------------------------------------------
(* Heterogeneous envelopes (batchclaim/envelope.go).                       *)

IsAllowedHeterogeneousDirectLeafKindV1(kind) ==
  kind \in {LeafKindTaproot, LeafKindHardenedXPriv, LeafKindBatchClaimV1}

(* Mutant: an envelope of a journal of any size.                           *)
CanEnvelopeUnsized(directKind, journal) ==
  IsAllowedHeterogeneousDirectLeafKindV1(directKind)

(* NewHeterogeneousEnvelopeV1 succeeds, and what it then returns.          *)
CanEnvelope(directKind, journal) ==
  /\ IsAllowedHeterogeneousDirectLeafKindV1(directKind)
  /\ RecordSize(journal) = LeafClaimSize(directKind)

Envelope(directKind, imageID, journal) ==
  [type           |-> "envelope",
   version        |-> HeterogeneousEnvelopeVersionV1,
   directLeafKind |-> directKind,
   verifyImageID  |-> imageID,
   journalLen     |-> RecordSize(journal),
   journal        |-> journal]

(* DecodeHeterogeneousEnvelopeV1 succeeds on a record.                     *)
EnvelopeDecodes(record) ==
  /\ RecordSize(record) = LeafClaimSize(LeafKindHeterogeneousEnvelopeV1)
  /\ record.version = HeterogeneousEnvelopeVersionV1
  /\ IsAllowedHeterogeneousDirectLeafKindV1(record.directLeafKind)
  /\ record.journalLen = LeafClaimSize(record.directLeafKind)

-----------------------------------------------------------------------------
(* What a record of a batch asserts: the image ID and the journal that     *)
(* zkvm.Verify is called with.                                             *)
RecordImage(kind, context, record) ==
  IF kind = LeafKindHeterogeneousEnvelopeV1
  THEN record.verifyImageID ELSE context

RecordJournal(kind, record) ==
  IF kind = LeafKindHeterogeneousEnvelopeV1 THEN record.journal ELSE record

(* childBatchPolicy: the fields every batch_claim_v1 child must share.     *)
ChildBatchPolicy(journal) ==
  LET c == Decode(journal)
  IN  [version          |-> c.version,
       flags            |-> c.flags,
       leafClaimKind    |-> c.leafClaimKind,
       merkleHashKind   |-> c.merkleHashKind,
       leafGuestImageID |-> c.leafGuestImageID]
=============================================================================
