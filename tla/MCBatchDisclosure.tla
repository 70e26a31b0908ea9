------------------------- MODULE MCBatchDisclosure --------------------------
(* Bounds for TLC: two leaf guests with three receipts between them, at    *)
(* most one composite receipt of leaf or batch, and at most one receipt of *)
(* a foreign program.  Chains of up to three levels are opened over the    *)
(* smaller ledgers without a composite one.                                *)
EXTENDS BatchDisclosure

CONSTANTS
  MaxOpened,            \* bound on the receipts when a verification starts
  MaxWithComposite,     \* bound on the receipts when one is composite
  MaxWithForeign        \* bound on the receipts when one is foreign

\* the leaves that are proved: a journal by each guest, and that of the first
\* by the other as well, but not succinctly
MCLeaves ==
  {Receipt("taproot", LeafJournal("a"), "succinct"),
   Receipt("xpriv", LeafJournal("b"), "succinct"),
   Receipt("xpriv", LeafJournal("a"), "composite")}

MCProve ==
  /\ Prove
  /\ \A r \in ledger' : r.image \in LeafImages => r \in MCLeaves
  /\ LET foreign == {r \in ledger' : r.image \in ForeignImages}
     IN  /\ Cardinality(foreign) <= 1
         /\ \A r \in foreign : r.kind = "succinct" /\ r.journal \in Forged
         /\ foreign # {} => /\ Cardinality(ledger') <= MaxWithForeign
                            /\ \A r \in ledger' : r.kind = "succinct"
  /\ LET composite == {r \in ledger' : r.kind = "composite"}
     IN  /\ Cardinality(composite) <= 1
         /\ composite # {} => Cardinality(ledger') <= MaxWithComposite

MCVerify ==
  /\ phase = "prove" => /\ Cardinality(ledger) <= MaxOpened
                        /\ \A r \in ledger : r.kind = "succinct"
  /\ \/ \E receipt \in ledger : VerifyReceipt(receipt)
     \/ \E inclusion \in Inclusions :
          \/ FinalInclusion(inclusion)
          \/ NestedInclusion(inclusion)
          \/ RefuseInclusion(inclusion)

MCSpec == DInit /\ [][MCProve \/ MCVerify]_disclosureVars

\* batches that are claimed and not proved: one of a version that is not of
\* its kind and with a leaf of the other guest, and the parent of that one
\* that the foreign program commits
MCLeavesIll == <<LeafJournal("a"), LeafJournal("b")>>

MCClaimIll ==
  Claim(VersionHeterogeneousParent, LeafKindTaproot, 2, "taproot", Root(MCLeavesIll))

MCParentIll == GuestClaim(LeafKindBatchClaimV1, "batch", <<Encode(MCClaimIll)>>)

MCForeignOpenings ==
  {[claim |-> MCClaimIll, records |-> MCLeavesIll],
   [claim |-> MCParentIll, records |-> <<Encode(MCClaimIll)>>]}

MCForged == {Encode(MCParentIll)}
=============================================================================
