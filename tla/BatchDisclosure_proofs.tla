---------------------- MODULE BatchDisclosure_proofs -----------------------
(***************************************************************************)
(* What BatchLedger promises for every set of images, journals and kinds,  *)
(* and what BatchDisclosure's verifier may conclude from it for every      *)
(* ledger, every proof file and chains of any length.                      *)
(*                                                                         *)
(* The ledger's argument is one of growth: receipts and openings are only  *)
(* added, so what the guest accepted once it would accept for ever, and a  *)
(* guest run adds its receipt together with the opening it has just        *)
(* accepted (Sound of Guests_proofs).  The verifier's is that the claim it *)
(* holds is one that the batch guest committed for as long as the image    *)
(* IDs disclosed on the way to it are the batch guest's; a foreign program *)
(* may have committed any other.                                           *)
(***************************************************************************)
EXTENDS BatchDisclosure, Guests_proofs

LedgerInv == Sound(ledger, openings, LeafImages, ForeignImages, BatchImage)

LEMMA BoundedSeqIsSeq ==
  ASSUME NEW S, NEW n \in Nat, NEW s \in BoundedSeq(S, n)
  PROVE  IsSeq(s)
BY DEF BoundedSeq, SeqOf, IsSeq

LEMMA ForeignJournalSize ==
  ASSUME NEW journal \in {LeafJournal(body) : body \in Bodies} \cup Forged
  PROVE  RecordSize(journal) # 0
<1>1. CASE journal \in Forged
  BY <1>1, ForgedAssumption, LeafClaimSizes, KindsDiffer DEF Decodes
<1>2. CASE journal \in {LeafJournal(body) : body \in Bodies}
  BY <1>2 DEF LeafJournal, RecordSize
<1> QED
  BY <1>1, <1>2

LEMMA InitEstablishes ==
  ASSUME Init
  PROVE  LedgerInv
<1>1. ledger = Given /\ openings = {}
  BY DEF Init
<1>2. ASSUME NEW r \in LeafReceipts
      PROVE  Attested(r, {}, LeafImages, ForeignImages, BatchImage)
  BY ImagesAssumption DEF LeafReceipts, Receipt, LeafJournal, Attested, RecordSize
<1>3. ASSUME NEW r \in ForeignReceipts
      PROVE  Attested(r, {}, LeafImages, ForeignImages, BatchImage)
  <2>1. PICK image \in ForeignImages,
             journal \in {LeafJournal(body) : body \in Bodies} \cup Forged,
             kind \in {"composite", "succinct"} : r = Receipt(image, journal, kind)
    BY DEF ForeignReceipts
  <2>2. RecordSize(journal) # 0
    BY ForeignJournalSize
  <2> QED
    BY <2>1, <2>2, ImagesAssumption DEF Receipt, Attested
<1> QED
  BY <1>1, <1>2, <1>3, GivenAssumption DEF LedgerInv, Sound

LEMMA ProveLeafPreserves ==
  ASSUME LedgerInv, NEW image \in LeafImages, NEW body, NEW receiptKind \in ReceiptKinds,
         ProveLeaf(image, body, receiptKind)
  PROVE  LedgerInv'
<1> DEFINE receipt == Receipt(image, LeafJournal(body), receiptKind)
<1>1. ledger' = ledger \cup {receipt} /\ openings' = openings
  BY DEF ProveLeaf
<1>2. /\ receipt.image \in LeafImages /\ receipt.journal.type = "leaf"
      /\ receipt.kind \in {"composite", "succinct"}
  BY ReceiptKindsAssumption DEF Receipt, LeafJournal
<1> HIDE DEF receipt
<1> QED
  BY <1>1, <1>2, ImagesAssumption, LeafRunIsSound DEF LedgerInv

LEMMA ProveForeignPreserves ==
  ASSUME LedgerInv, NEW image \in ForeignImages,
         NEW journal \in Journals \cup {LeafJournal(body) : body \in Bodies},
         NEW receiptKind \in ReceiptKinds, ProveForeign(image, journal, receiptKind)
  PROVE  LedgerInv'
<1> DEFINE receipt == Receipt(image, journal, receiptKind)
<1>1. ledger' = ledger \cup {receipt} /\ openings' = openings
  BY DEF ProveForeign
<1>2. RecordSize(journal) # 0
  BY ForeignJournalSize DEF Journals, LedgerInv, Sound, Attested
<1>3. /\ receipt.image \in ForeignImages /\ RecordSize(receipt.journal) # 0
      /\ receipt.kind \in {"composite", "succinct"}
  BY <1>2, ReceiptKindsAssumption DEF Receipt
<1> HIDE DEF receipt
<1> QED
  BY <1>1, <1>3, ImagesAssumption, ForeignRunIsSound DEF LedgerInv

LEMMA ProveBatchPreserves ==
  ASSUME LedgerInv, NEW kind, NEW context, NEW records, IsSeq(records),
         NEW receiptKind \in ReceiptKinds,
         ProveBatch(kind, context, records, ledger, receiptKind)
  PROVE  LedgerInv'
<1> DEFINE opening == Opening(kind, context, records)
           receipt == Receipt(BatchImage, Encode(opening.claim), receiptKind)
<1>1. /\ GuestAccepts(kind, context, records, ledger)
      /\ ledger' = ledger \cup {receipt}
      /\ openings' = openings \cup {opening}
  BY DEF ProveBatch
<1>2. opening.claim = GuestClaim(kind, context, records) /\ opening.records = records
  BY DEF Opening
<1>3. /\ receipt.image = BatchImage /\ receipt.journal = Encode(opening.claim)
      /\ receipt.kind \in {"composite", "succinct"}
  BY ReceiptKindsAssumption DEF Receipt
<1> HIDE DEF receipt, opening
<1> QED
  BY <1>1, <1>2, <1>3, ImagesAssumption, BatchRunIsSound DEF LedgerInv

LEMMA NextPreserves ==
  ASSUME LedgerInv, Next
  PROVE  LedgerInv'
<1>1. PICK receiptKind \in ReceiptKinds :
        \/ \E image \in LeafImages, body \in Bodies :
             ProveLeaf(image, body, receiptKind)
        \/ \E image \in ForeignImages,
             journal \in Journals \cup {LeafJournal(body) : body \in Bodies} :
             ProveForeign(image, journal, receiptKind)
        \/ \E kind \in Kinds, context \in Images \cup {PolicyDigest} :
             \E records \in BoundedSeq(StdinRecords(kind), MaxLeaves) :
               ProveBatch(kind, context, records, ledger, receiptKind)
  BY DEF Next
<1>2. CASE \E image \in LeafImages, body \in Bodies : ProveLeaf(image, body, receiptKind)
  BY <1>2, ProveLeafPreserves
<1>3. CASE \E image \in ForeignImages,
             journal \in Journals \cup {LeafJournal(body) : body \in Bodies} :
             ProveForeign(image, journal, receiptKind)
  BY <1>3, ProveForeignPreserves
<1>4. CASE \E kind \in Kinds, context \in Images \cup {PolicyDigest} :
             \E records \in BoundedSeq(StdinRecords(kind), MaxLeaves) :
               ProveBatch(kind, context, records, ledger, receiptKind)
  BY <1>4, BoundedSeqIsSeq, MaxLeavesAssumption, ProveBatchPreserves
<1> QED
  BY <1>1, <1>2, <1>3, <1>4

LEMMA LedgerInvariant == Spec => []LedgerInv
<1>1. Init => LedgerInv
  BY InitEstablishes
<1>2. LedgerInv /\ [Next]_ledgerVars => LedgerInv'
  <2> SUFFICES ASSUME LedgerInv, UNCHANGED ledgerVars
               PROVE  LedgerInv'
    BY NextPreserves
  <2> QED
    BY DEF ledgerVars, LedgerInv
<1> QED
  BY <1>1, <1>2, PTL DEF Spec

-----------------------------------------------------------------------------
LEMMA LedgerInvTypeOK == LedgerInv => TypeOK
<1> SUFFICES ASSUME LedgerInv PROVE TypeOK
  OBVIOUS
<1>1. \A r \in ledger : Attested(r, openings, LeafImages, ForeignImages, BatchImage)
  BY DEF LedgerInv, Sound
<1>2. \A r \in ledger : r.image = BatchImage => Decodes(r.journal)
  BY <1>1, EncodeDecodes DEF Attested
<1> QED
  BY <1>1, <1>2, OpeningFacts DEF LedgerInv, TypeOK, Attested, Images

(* The type invariant: what kind of journal a receipt of each image has,   *)
(* and that a claim counts its records.                                    *)
THEOREM LedgerTypeCorrect == Spec => []TypeOK
BY LedgerInvTypeOK, LedgerInvariant, PTL

(* For every choice of guests, journals and batch sizes: a receipt of the  *)
(* batch guest exists only for a batch that opens to records with succinct *)
(* receipts of their own (guest_batch/main.go:78-160).                     *)
THEOREM LedgerIsBacked == Spec => []LedgerBacked
<1>1. LedgerInv => LedgerBacked
  <2> SUFFICES ASSUME LedgerInv, NEW r \in ledger, r.image = BatchImage
               PROVE  \E o \in openings :
                        /\ o.claim = Decode(r.journal)
                        /\ Backed(o)
                        /\ SameChildPolicy(o.claim.leafClaimKind, o.records)
    BY DEF LedgerBacked
  <2>1. PICK o \in openings : r.journal = Encode(o.claim)
    BY DEF LedgerInv, Sound, Attested
  <2> QED
    BY <2>1, EncodeDecodes, OpeningFacts DEF LedgerInv, Backed
<1> QED
  BY <1>1, LedgerInvariant, PTL

(* Batches of any kind and size with one root have the same records: the   *)
(* root is all that guest_batch/main.go:157-180 commits of them.           *)
THEOREM RootsDetermineRecords == Spec => []RootDeterminesRecords
<1>1. LedgerInv => RootDeterminesRecords
  <2> SUFFICES ASSUME LedgerInv, NEW o \in openings, NEW p \in openings,
                      o.claim.merkleRoot = p.claim.merkleRoot
               PROVE  o.records = p.records
    BY DEF RootDeterminesRecords
  <2>1. /\ IsSeq(o.records) /\ Len(o.records) # 0 /\ IsSeq(p.records) /\ Len(p.records) # 0
        /\ Root(o.records) = Root(p.records)
    BY OpeningFacts DEF LedgerInv
  <2> QED
    BY <2>1, RootInjective
<1> QED
  BY <1>1, LedgerInvariant, PTL

(* Two levels down, whatever the sizes: under a parent of batch claims     *)
(* every grandchild has a succinct receipt of one and the same guest.      *)
THEOREM GrandchildrenAreOfOneGuest == Spec => []GrandchildrenShareImage
<1>1. LedgerInv => GrandchildrenShareImage
  <2> SUFFICES ASSUME LedgerInv, NEW p \in openings,
                      p.claim.leafClaimKind = LeafKindBatchClaimV1,
                      NEW c \in openings, Encode(c.claim) \in Range(p.records),
                      NEW d \in openings, Encode(d.claim) \in Range(p.records),
                      c.claim.leafClaimKind # LeafKindHeterogeneousEnvelopeV1,
                      NEW r \in Range(c.records) \cup Range(d.records)
               PROVE  Resolved(ledger, c.claim.leafGuestImageID, r)
    BY DEF GrandchildrenShareImage
  <2>1. \A q \in openings : Range(q.records) = {q.records[i] : i \in 1..Len(q.records)}
    BY OpeningFacts DEF LedgerInv, Range, IsSeq
  <2>2. ASSUME NEW q \in {c, d}
        PROVE  ChildBatchPolicy(p.records[1]) = ChildBatchPolicy(Encode(q.claim))
    <3>1. PICK i \in 1..Len(p.records) : p.records[i] = Encode(q.claim)
      BY <2>1
    <3>2. SameChildPolicy(p.claim.leafClaimKind, p.records)
      BY OpeningFacts DEF LedgerInv
    <3> QED
      BY <3>1, <3>2 DEF SameChildPolicy
  <2>3. /\ c.claim.leafClaimKind = d.claim.leafClaimKind
        /\ c.claim.leafGuestImageID = d.claim.leafGuestImageID
    <3>1. ChildBatchPolicy(Encode(c.claim)) = ChildBatchPolicy(Encode(d.claim))
      BY <2>2
    <3> QED
      BY <3>1, EncodeDecodes DEF ChildBatchPolicy
  <2>4. ASSUME NEW q \in {c, d}, NEW i \in 1..Len(q.records)
        PROVE  Resolved(ledger, q.claim.leafGuestImageID, q.records[i])
    <3>1. Backed(q)
      BY OpeningFacts DEF LedgerInv, Backed
    <3>2. q.claim.leafClaimKind # LeafKindHeterogeneousEnvelopeV1
      BY <2>3
    <3> QED
      BY <3>1, <3>2 DEF Backed, RecordImage, RecordJournal
  <2>5. PICK q \in {c, d} : \E i \in 1..Len(q.records) : r = q.records[i]
    BY <2>1
  <2> QED
    BY <2>3, <2>4, <2>5
<1> QED
  BY <1>1, LedgerInvariant, PTL

-----------------------------------------------------------------------------
(* The verifier.  Whatever proof file it is handed, the siblings are a     *)
(* list.                                                                   *)

LEMMA DerivedSiblings ==
  ASSUME NEW batches, \A o \in batches : Len(o.records) \in Nat \ {0},
         NEW d \in InclusionsOf(batches)
  PROVE  "siblings" \in DOMAIN d /\ IsSeq(d.siblings)
<1>1. PICK o \in batches : \E i \in 0..(Len(o.records) - 1) :
         d = DeriveInclusion(o.claim.leafClaimKind, o.records, i)
  BY DEF InclusionsOf
<1>2. PICK i \in 0..(Len(o.records) - 1) :
         d = DeriveInclusion(o.claim.leafClaimKind, o.records, i)
  BY <1>1
<1>3. IsSeq(BuildProof(o.records, i).siblings)
  BY BuildProofSiblings
<1>4. "siblings" \in DOMAIN d /\ d.siblings = BuildProof(o.records, i).siblings
  BY <1>2 DEF DeriveInclusion
<1> QED
  BY <1>3, <1>4

LEMMA ChangedSiblings ==
  ASSUME LedgerInv, NEW q \in UNION {Changed(d) : d \in Derived}
  PROVE  Len(q.siblings) \in Nat
<1>0. ASSUME NEW d \in Derived
      PROVE  "siblings" \in DOMAIN d /\ IsSeq(d.siblings)
  BY OpeningFacts, DerivedSiblings DEF Derived, LedgerInv
<1>1. PICK d \in Derived : q \in Changed(d)
  OBVIOUS
<1>2. "siblings" \in DOMAIN d /\ IsSeq(d.siblings)
  BY <1>0, <1>1
<1> DEFINE Lists == {<<>>, d.siblings \o d.siblings} \cup {e.siblings : e \in Derived}
<1>3. \/ q \in {[d EXCEPT !.leafIndex = i] : i \in 0..MaxLeaves}
      \/ q \in {[d EXCEPT !.leafJournal = e.leafJournal] : e \in Derived}
      \/ q \in {[d EXCEPT !.siblings = s] : s \in Lists}
      \/ q \in {WithPublicFields(d, k, n) :
                   k \in Kinds, n \in 0..MaxLeaves}
      \/ q \in {WithDirectLeaf(d, k, m) :
                   k \in {0, LeafKindTaproot}, m \in LeafImages \cup {NoImage}}
  BY <1>1 DEF Changed
<1> HIDE DEF Lists
<1>4. q.siblings = d.siblings \/ q.siblings \in Lists
  <2>1. CASE q \in {[d EXCEPT !.leafIndex = i] : i \in 0..MaxLeaves}
    BY <1>2, <2>1
  <2>2. CASE q \in {[d EXCEPT !.leafJournal = e.leafJournal] : e \in Derived}
    BY <1>2, <2>2
  <2>3. CASE q \in {[d EXCEPT !.siblings = s] : s \in Lists}
    BY <1>2, <2>3
  <2>4. CASE q \in {WithPublicFields(d, k, n) :
                      k \in Kinds, n \in 0..MaxLeaves}
    <3>1. PICK k \in Kinds, n \in 0..MaxLeaves :
            q = WithPublicFields(d, k, n)
      BY <2>4
    <3> QED
      BY <1>2, <3>1 DEF WithPublicFields
  <2>5. CASE q \in {WithDirectLeaf(d, k, m) :
                      k \in {0, LeafKindTaproot}, m \in LeafImages \cup {NoImage}}
    <3>1. PICK k \in {0, LeafKindTaproot}, m \in LeafImages \cup {NoImage} :
            q = WithDirectLeaf(d, k, m)
      BY <2>5
    <3> QED
      BY <1>2, <3>1 DEF WithDirectLeaf
  <2> QED
    BY <1>3, <2>1, <2>2, <2>3, <2>4, <2>5
<1>5. ASSUME NEW s \in Lists, q.siblings = s
      PROVE  Len(s) \in Nat
  <2>1. CASE s = <<>>
    BY <2>1
  <2>2. CASE s = d.siblings \o d.siblings
    <3> DEFINE S == {d.siblings[k] : k \in 1..Len(d.siblings)}
    <3>1. d.siblings \in Seq(S)
      BY <1>2 DEF IsSeq
    <3> HIDE DEF S
    <3>2. Len(d.siblings \o d.siblings) \in Nat
      BY <3>1
    <3> QED
      BY <2>2, <3>2
  <2>3. CASE s \in {e.siblings : e \in Derived}
    BY <1>0, <2>3 DEF IsSeq
  <2> QED
    BY <2>1, <2>2, <2>3 DEF Lists
<1> QED
  BY <1>2, <1>4, <1>5 DEF IsSeq

LEMMA InclusionSiblings ==
  ASSUME LedgerInv, NEW q \in Inclusions
  PROVE  Len(q.siblings) \in Nat
<1>1. CASE q \in UNION {Changed(d) : d \in Derived}
  BY <1>1, ChangedSiblings
<1>2. CASE q \in InclusionsOf(ForeignOpenings)
  BY <1>2, ForeignOpeningsAssumption, DerivedSiblings DEF IsSeq
<1> QED
  BY <1>1, <1>2 DEF Inclusions

(* A claim that the batch guest committed, with the batch behind it.       *)
Committed(claim) ==
  /\ \E o \in openings : o.claim = claim
  /\ \E r \in ledger : r.image = BatchImage /\ r.journal = Encode(claim)

BackedLevel(level) ==
  LET c == level.claim
      r == level.record
  IN  /\ Committed(c)
      /\ \E o \in openings :
           /\ o.claim = c
           /\ level.leafIndex < Len(o.records)
           /\ r = o.records[level.leafIndex + 1]
      /\ Resolved(ledger, DisclosedImage(level), RecordJournal(c.leafClaimKind, r))

(* The first k of the levels disclose batches of the batch guest.          *)
VouchedLevels(levels, k) == \A j \in 1..k : DisclosedImage(levels[j]) = BatchImage

LevelsBacked(levels) ==
  \A k \in 1..Len(levels) : VouchedLevels(levels, k - 1) => BackedLevel(levels[k])

DisclosureInv ==
  /\ LedgerInv
  /\ phase \in {"prove", "verify", "accepted", "rejected"}
  /\ IsSeq(disclosed)
  /\ Len(disclosed) <= MaxLevels
  /\ phase = "prove" => Len(disclosed) = 0
  /\ phase = "verify" => Len(disclosed) < MaxLevels
  /\ phase = "accepted" => Len(disclosed) > 0
  /\ phase = "verify" /\ VouchedLevels(disclosed, Len(disclosed)) => Committed(current)
  /\ LevelsBacked(disclosed)

LEMMA VerifyReceiptPreserves ==
  ASSUME DisclosureInv, NEW receipt \in ledger, VerifyReceipt(receipt)
  PROVE  DisclosureInv'
<1>1. /\ phase = "prove" /\ phase' \in {"verify", "rejected"}
      /\ ledger' = ledger /\ openings' = openings /\ disclosed' = disclosed
  BY DEF VerifyReceipt
<1>2. ASSUME phase' = "verify" PROVE Committed(current)'
  <2>1. receipt.image = BatchImage /\ current' = Decode(receipt.journal)
    BY <1>2 DEF VerifyReceipt
  <2>2. PICK o \in openings : receipt.journal = Encode(o.claim)
    BY <2>1 DEF DisclosureInv, LedgerInv, Sound, Attested
  <2>3. Committed(current)'
    BY <1>1, <2>1, <2>2, EncodeDecodes DEF Committed
  <2> QED
    BY <2>3
<1>3. LedgerInv' /\ Len(disclosed') < MaxLevels /\ Len(disclosed') = 0
  BY <1>1, MaxLevelsAssumption DEF DisclosureInv, LedgerInv
<1>4. LevelsBacked(disclosed)'
  BY <1>3 DEF LevelsBacked
<1> QED
  BY <1>1, <1>2, <1>3, <1>4 DEF DisclosureInv

LEMMA DiscloseBacks ==
  ASSUME DisclosureInv, phase = "verify", NEW q \in Inclusions,
         verifyBatchInclusionProof(current, q)
  PROVE  /\ IsSeq(Disclose(q))
         /\ Len(Disclose(q)) = Len(disclosed) + 1
         /\ LevelsBacked(Disclose(q))
         /\ VouchedLevels(Disclose(q), Len(Disclose(q))) =>
              /\ Committed(current)
              /\ RecordImage(current.leafClaimKind, current.leafGuestImageID, q.leafJournal)
                   = BatchImage
<1> DEFINE level == [claim     |-> current,
                     leafIndex |-> q.leafIndex,
                     record    |-> q.leafJournal]
           n     == Len(disclosed)
<1>1. ASSUME Committed(current)
      PROVE  BackedLevel(level)
  <2>1. PICK o \in openings : o.claim = current
    BY <1>1 DEF Committed
  <2>2. Len(q.siblings) \in Nat
    BY InclusionSiblings DEF DisclosureInv
  <2>3. /\ q.leafIndex < Len(o.records)
        /\ q.leafJournal = o.records[q.leafIndex + 1]
        /\ Resolved(ledger, RecordImage(o.claim.leafClaimKind, o.claim.leafGuestImageID,
                                        q.leafJournal),
                            RecordJournal(o.claim.leafClaimKind, q.leafJournal))
    BY <2>1, <2>2, InclusionSound DEF DisclosureInv, LedgerInv
  <2> QED
    BY <1>1, <2>1, <2>3 DEF BackedLevel, DisclosedImage
<1>2. Disclose(q) = Append(disclosed, level) /\ IsSeq(disclosed)
  BY DEF Disclose, DisclosureInv
<1>3. DisclosedImage(level)
        = RecordImage(current.leafClaimKind, current.leafGuestImageID, q.leafJournal)
  BY DEF DisclosedImage
<1> HIDE DEF level
<1>4. /\ IsSeq(Disclose(q))
      /\ Len(Disclose(q)) = n + 1
      /\ Disclose(q)[n + 1] = level
      /\ \A k \in 1..n : Disclose(q)[k] = disclosed[k]
  BY <1>2, AppendSeq
<1>5. n \in Nat
  BY DEF DisclosureInv, IsSeq
<1>6. \A k \in 0..n : VouchedLevels(Disclose(q), k) => VouchedLevels(disclosed, k)
  BY <1>4, <1>5 DEF VouchedLevels
<1>7. VouchedLevels(disclosed, n) => Committed(current)
  BY DEF DisclosureInv
<1>8. ASSUME NEW k \in 1..(n + 1), VouchedLevels(Disclose(q), k - 1)
      PROVE  BackedLevel(Disclose(q)[k])
  <2>1. VouchedLevels(disclosed, k - 1)
    BY <1>5, <1>6, <1>8
  <2>2. CASE k \in 1..n
    BY <1>4, <2>1, <2>2 DEF DisclosureInv, LevelsBacked
  <2>3. CASE k = n + 1
    <3>1. k - 1 = n
      BY <1>5, <2>3
    <3> QED
      BY <1>1, <1>4, <1>7, <2>1, <2>3, <3>1
  <2> QED
    BY <1>5, <2>2, <2>3
<1>9. ASSUME VouchedLevels(Disclose(q), n + 1)
      PROVE  Committed(current) /\ DisclosedImage(level) = BatchImage
  <2>1. VouchedLevels(Disclose(q), n) /\ DisclosedImage(Disclose(q)[n + 1]) = BatchImage
    BY <1>5, <1>9 DEF VouchedLevels
  <2> QED
    BY <1>4, <1>5, <1>6, <1>7, <2>1
<1> QED
  BY <1>3, <1>4, <1>8, <1>9 DEF LevelsBacked

LEMMA RejectPreserves ==
  ASSUME DisclosureInv, Reject, ledger' = ledger, openings' = openings
  PROVE  DisclosureInv'
<1>1. phase' = "rejected" /\ disclosed' = <<>> /\ Len(disclosed') = 0 /\ IsSeq(disclosed')
  BY DEF Reject, IsSeq
<1>2. LevelsBacked(disclosed)'
  BY <1>1 DEF LevelsBacked
<1> QED
  BY <1>1, <1>2, MaxLevelsAssumption DEF DisclosureInv, LedgerInv

LEMMA FinalInclusionPreserves ==
  ASSUME DisclosureInv, NEW q \in Inclusions, FinalInclusion(q)
  PROVE  DisclosureInv'
<1>1. /\ phase = "verify" /\ phase' = "accepted"
      /\ verifyBatchInclusionProof(current, q)
      /\ disclosed' = Disclose(q) /\ current' = current
      /\ ledger' = ledger /\ openings' = openings
  BY DEF FinalInclusion
<1>2. /\ IsSeq(disclosed') /\ Len(disclosed') = Len(disclosed) + 1
      /\ LevelsBacked(Disclose(q))
  BY <1>1, DiscloseBacks
<1>3. LevelsBacked(disclosed)'
  BY <1>1, <1>2 DEF LevelsBacked, VouchedLevels, BackedLevel, Committed, DisclosedImage
<1>4. Len(disclosed') <= MaxLevels /\ Len(disclosed') > 0
  BY <1>1, <1>2, MaxLevelsAssumption DEF DisclosureInv, IsSeq
<1> QED
  BY <1>1, <1>2, <1>3, <1>4 DEF DisclosureInv, LedgerInv

LEMMA NestedInclusionPreserves ==
  ASSUME DisclosureInv, NEW q \in Inclusions, NestedInclusion(q)
  PROVE  DisclosureInv'
<1>1. /\ phase = "verify" /\ Len(disclosed) + 1 < MaxLevels
      /\ verifyBatchInclusionProof(current, q)
      /\ ledger' = ledger /\ openings' = openings
  BY DEF NestedInclusion
<1>2. CASE ~ HasNextNestedBatchClaim(current, q)
  BY <1>1, <1>2, RejectPreserves DEF NestedInclusion
<1>3. CASE HasNextNestedBatchClaim(current, q)
  <2>1. /\ current' = NextNestedBatchClaim(current, q)
        /\ disclosed' = Disclose(q) /\ phase' = "verify"
    BY <1>1, <1>3 DEF NestedInclusion
  <2>2. /\ IsSeq(disclosed') /\ Len(disclosed') = Len(disclosed) + 1
        /\ LevelsBacked(Disclose(q))
    BY <1>1, <2>1, DiscloseBacks
  <2>3. LevelsBacked(disclosed)'
    BY <1>1, <2>1, <2>2 DEF LevelsBacked, VouchedLevels, BackedLevel, Committed, DisclosedImage
  <2>4. Len(q.siblings) \in Nat
    BY InclusionSiblings DEF DisclosureInv
  <2>5. ASSUME VouchedLevels(disclosed', Len(disclosed'))
        PROVE  Committed(NextNestedBatchClaim(current, q))
    <3>1. VouchedLevels(Disclose(q), Len(Disclose(q)))
      BY <2>1, <2>5 DEF VouchedLevels, DisclosedImage
    <3>2. /\ Committed(current)
          /\ RecordImage(current.leafClaimKind, current.leafGuestImageID, q.leafJournal)
               = BatchImage
      BY <1>1, <3>1, DiscloseBacks
    <3>3. PICK o \in openings : o.claim = current
      BY <3>2 DEF Committed
    <3> QED
      BY <1>1, <1>3, <2>4, <3>2, <3>3, NestedClaimSound DEF DisclosureInv, LedgerInv, Committed
  <2>6. Len(disclosed') < MaxLevels
    BY <1>1, <2>2
  <2>7. Len(disclosed') <= MaxLevels
    BY <2>2, <2>6, MaxLevelsAssumption DEF IsSeq
  <2>8. VouchedLevels(disclosed, Len(disclosed))' => Committed(current)'
    BY <1>1, <2>1, <2>5 DEF VouchedLevels, DisclosedImage, Committed
  <2> QED
    BY <1>1, <2>1, <2>2, <2>3, <2>6, <2>7, <2>8 DEF DisclosureInv, LedgerInv
<1> QED
  BY <1>2, <1>3

LEMMA DisclosureInvariant == DSpec => []DisclosureInv
<1>1. DInit => DisclosureInv
  <2> SUFFICES ASSUME DInit PROVE DisclosureInv
    OBVIOUS
  <2>1. LedgerInv /\ phase = "prove" /\ disclosed = <<>>
    BY InitEstablishes DEF DInit
  <2> QED
    BY <2>1, MaxLevelsAssumption DEF DisclosureInv, LevelsBacked, IsSeq
<1>2. DisclosureInv /\ [DNext]_disclosureVars => DisclosureInv'
  <2> SUFFICES ASSUME DisclosureInv, [DNext]_disclosureVars PROVE DisclosureInv'
    OBVIOUS
  <2>1. CASE Prove
    <3>1. phase = "prove" /\ Next /\ UNCHANGED <<phase, current, disclosed>>
      BY <2>1 DEF Prove
    <3>2. LedgerInv'
      BY <3>1, NextPreserves DEF DisclosureInv
    <3>3. LevelsBacked(disclosed)'
      BY <3>1 DEF DisclosureInv, LevelsBacked
    <3> QED
      BY <3>1, <3>2, <3>3 DEF DisclosureInv
  <2>2. CASE \E receipt \in ledger : VerifyReceipt(receipt)
    BY <2>2, VerifyReceiptPreserves
  <2>3. ASSUME NEW q \in Inclusions,
               FinalInclusion(q) \/ NestedInclusion(q) \/ RefuseInclusion(q)
        PROVE  DisclosureInv'
    BY <2>3, FinalInclusionPreserves, NestedInclusionPreserves, RejectPreserves
       DEF RefuseInclusion
  <2>4. CASE UNCHANGED disclosureVars
    BY <2>4 DEF disclosureVars, DisclosureInv, LedgerInv, Committed, BackedLevel,
                LevelsBacked, VouchedLevels, DisclosedImage
  <2> QED
    BY <2>1, <2>2, <2>3, <2>4 DEF DNext
<1> QED
  BY <1>1, <1>2, PTL DEF DSpec

-----------------------------------------------------------------------------
(* The type invariant; a chain is never longer than allowed, and what is   *)
(* accepted has disclosed something.                                       *)
THEOREM DisclosureTypeCorrect == DSpec => []DTypeOK
<1>1. DisclosureInv => DTypeOK
  BY LedgerInvTypeOK DEF DisclosureInv, DTypeOK
<1> QED
  BY <1>1, DisclosureInvariant, PTL

(* batch_support.go VerifyBatchInclusionChain: for chains of any length    *)
(* and whatever proof files are presented, as far down as the image IDs    *)
(* are the batch guest's, every disclosed record is at its index of the    *)
(* batch it is reported for and has a succinct receipt.                    *)
THEOREM DisclosuresAreBacked == DSpec => []DisclosureBacked
<1>1. DisclosureInv => DisclosureBacked
  BY DEF DisclosureInv, LevelsBacked, DisclosureBacked, BackedLevel, Vouched, VouchedLevels
<1> QED
  BY <1>1, DisclosureInvariant, PTL

(* The version and the image ID of a nested claim are not looked at by the *)
(* chain verifier, and foreign programs may commit any claim to a receipt  *)
(* and have it taken as a child.  Still, for chains of any length: a claim *)
(* reached through the batch guest's image IDs alone is one that the batch *)
(* guest committed and VerifyBatch would accept on its own.                *)
THEOREM NestedClaimsAreCommitted == DSpec => []NestedClaimsVerify
<1>1. DisclosureInv => NestedClaimsVerify
  <2> SUFFICES ASSUME DisclosureInv, NEW k \in 1..Len(disclosed), Vouched(k)
               PROVE  /\ ValidateVersion(disclosed[k].claim)
                      /\ \E r \in ledger : /\ r.image = BatchImage
                                          /\ r.journal = Encode(disclosed[k].claim)
    BY DEF NestedClaimsVerify
  <2>1. Committed(disclosed[k].claim) /\ LedgerInv
    BY DEF DisclosureInv, LevelsBacked, BackedLevel, Vouched, VouchedLevels
  <2> QED
    BY <2>1, OpeningFacts DEF Committed, LedgerInv
<1> QED
  BY <1>1, DisclosureInvariant, PTL

(* batch_runner.go:262-326: a proof derived from the records of the batch  *)
(* is never refused, for any leaf of any batch at any level.               *)
THEOREM DerivedProofsAreAccepted == DSpec => []DerivedProofsVerify
<1>1. DisclosureInv => DerivedProofsVerify
  BY DerivedVerifies DEF DisclosureInv, LedgerInv, DerivedProofsVerify
<1> QED
  BY <1>1, DisclosureInvariant, PTL
=============================================================================
