---------------------------- MODULE BatchLedger -----------------------------
(***************************************************************************)
(* What the proof system promises the batch lane, without a host, files or *)
(* processes: the set of receipts that exist, each of which a prover run   *)
(* of some program added.  The leaf guests (guest/main.go and              *)
(* guest_hardened_xpriv/main.go) commit a 72-byte journal, the batch guest *)
(* (guest_batch/main.go) a batch claim.  A receipt says only that the      *)
(* program with its image ID committed its journal, and anyone may write a *)
(* program: the foreign ones commit whatever they like, leaf journals and  *)
(* batch claims included.  The batch guest is given any records and any    *)
(* context, and receipts of every kind and image: what it commits to has   *)
(* to follow from its own checks.                                          *)
(*                                                                         *)
(* openings remembers the records behind each batch claim; the program     *)
(* keeps them only as the prover's private input.                          *)
(***************************************************************************)
EXTENDS BatchGuest, FiniteSets, SequencesExt

CONSTANTS
  BatchImage,     \* image ID of the batch guest
  LeafImages,     \* image IDs of the leaf guests
  ForeignImages,  \* image IDs of programs of other people
  Bodies,         \* what distinguishes one leaf journal from another
  Forged,         \* batch claims that the batch guest need not have committed
  Kinds,          \* leaf claim kinds a batch is asked for
  ReceiptKinds,   \* subset of {"composite", "succinct"}
  Given,          \* receipts of leaves and of foreign programs proved earlier
  MaxLeaves       \* bound on the records of a batch

VARIABLES
  ledger,     \* the receipts that exist
  openings    \* [claim, records] of every batch that was proved

ledgerVars == <<ledger, openings>>

Receipt(image, journal, kind) ==
  [image |-> image, journal |-> journal, kind |-> kind]

Opening(kind, context, records) ==
  [claim |-> GuestClaim(kind, context, records), records |-> records]

Images == LeafImages \cup {BatchImage} \cup ForeignImages

LeafReceipts ==
  {Receipt(image, LeafJournal(body), kind) :
     image \in LeafImages, body \in Bodies, kind \in {"composite", "succinct"}}

ForeignReceipts ==
  {Receipt(image, journal, kind) :
     image \in ForeignImages,
     journal \in {LeafJournal(body) : body \in Bodies} \cup Forged,
     kind \in {"composite", "succinct"}}

ASSUME ImagesAssumption ==
  BatchImage \notin LeafImages /\ ForeignImages \cap (LeafImages \cup {BatchImage}) = {}
ASSUME ForgedAssumption == \A journal \in Forged : Decodes(journal)
ASSUME GivenAssumption  == Given \subseteq LeafReceipts \cup ForeignReceipts
ASSUME ReceiptKindsAssumption == ReceiptKinds \subseteq {"composite", "succinct"}
ASSUME MaxLeavesAssumption    == MaxLeaves \in Nat

Init ==
  /\ ledger = Given
  /\ openings = {}

ProveLeaf(image, body, receiptKind) ==
  /\ ledger' = ledger \cup {Receipt(image, LeafJournal(body), receiptKind)}
  /\ UNCHANGED openings

(* A program that is not of the repository commits any journal it likes.   *)
ProveForeign(image, journal, receiptKind) ==
  /\ ledger' = ledger \cup {Receipt(image, journal, receiptKind)}
  /\ UNCHANGED openings

ProveBatch(kind, context, records, assumptions, receiptKind) ==
  /\ GuestAccepts(kind, context, records, assumptions)
  /\ LET opening == Opening(kind, context, records)
     IN  /\ ledger' = ledger \cup
                        {Receipt(BatchImage, Encode(opening.claim), receiptKind)}
         /\ openings' = openings \cup {opening}

(* Any record the guest may find on its stdin.                             *)
Journals == {r.journal : r \in ledger} \cup Forged

Envelopes ==
  {Envelope(e[1], e[2], e[3]) :
     e \in {d \in SupportedLeafKinds \X Images \X Journals : CanEnvelope(d[1], d[3])}}

StdinRecords(kind) ==
  IF kind = LeafKindHeterogeneousEnvelopeV1 THEN Envelopes ELSE Journals

Next ==
  \E receiptKind \in ReceiptKinds :
    \/ \E image \in LeafImages, body \in Bodies :
         ProveLeaf(image, body, receiptKind)
    \/ \E image \in ForeignImages,
         journal \in Journals \cup {LeafJournal(body) : body \in Bodies} :
         ProveForeign(image, journal, receiptKind)
    \/ \E kind \in Kinds, context \in Images \cup {PolicyDigest} :
         \E records \in BoundedSeq(StdinRecords(kind), MaxLeaves) :
           ProveBatch(kind, context, records, ledger, receiptKind)

Spec == Init /\ [][Next]_ledgerVars

-----------------------------------------------------------------------------
TypeOK ==
  /\ \A r \in ledger :
       /\ r.kind \in {"composite", "succinct"}
       /\ r.image \in LeafImages => r.journal.type = "leaf"
       /\ r.image = BatchImage   => Decodes(r.journal)
       /\ r.image \in Images
  /\ \A o \in openings : Len(o.records) = o.claim.leafCount

(* Every record of an opening is what a succinct receipt attests.          *)
Backed(opening) ==
  \A i \in 1..Len(opening.records) :
    LET c == opening.claim
        r == opening.records[i]
    IN  Resolved(ledger, RecordImage(c.leafClaimKind, c.leafGuestImageID, r),
                         RecordJournal(c.leafClaimKind, r))

(* guest_batch/main.go:78-160: a receipt of the batch guest exists only    *)
(* for a batch whose every record has a succinct receipt of its own, and   *)
(* whose children, when they are batches, share one policy.                *)
LedgerBacked ==
  \A r \in ledger : r.image = BatchImage =>
    \E o \in openings : /\ o.claim = Decode(r.journal)
                       /\ Backed(o)
                       /\ SameChildPolicy(o.claim.leafClaimKind, o.records)

(* The root, which is all that a receipt shows of the records, determines  *)
(* them, across batches of every kind and level.                           *)
RootDeterminesRecords ==
  \A o, p \in openings : o.claim.merkleRoot = p.claim.merkleRoot
                            => o.records = p.records

(* batch_support.go:64-68 and docs/batch-merkle-system.md:103-108, two     *)
(* levels down: under a parent of batch claims whose children are batches  *)
(* of one leaf kind, every grandchild was proved by one and the same leaf  *)
(* guest, although the parent's claim names only the batch guest.          *)
GrandchildrenShareImage ==
  \A p \in openings : p.claim.leafClaimKind = LeafKindBatchClaimV1 =>
    \A c, d \in {o \in openings : Encode(o.claim) \in Range(p.records)} :
      c.claim.leafClaimKind # LeafKindHeterogeneousEnvelopeV1 =>
        \A r \in Range(c.records) \cup Range(d.records) :
          Resolved(ledger, c.claim.leafGuestImageID, r)

(* batch_support.go:66-68: "a single parent receipt implicitly guarantees  *)
(* that every child subtree was produced with the same guest binary, leaf  *)
(* schema, and Merkle hash construction".  So the raw leaves at the bottom *)
(* of the subtrees of two children come from one leaf guest.               *)
SubtreesShareGuest ==
  \A p \in openings : p.claim.leafClaimKind = LeafKindBatchClaimV1 =>
    LET below(o) == {q \in openings : Encode(q.claim) \in Range(o.records)}
    IN  \A c, d \in below(p) :
          \A e \in below(c), f \in below(d) :
            {e.claim.leafClaimKind, f.claim.leafClaimKind}
              \subseteq {LeafKindTaproot, LeafKindHardenedXPriv}
            => e.claim.leafGuestImageID = f.claim.leafGuestImageID
=============================================================================
