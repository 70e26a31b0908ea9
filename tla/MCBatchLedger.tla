--------------------------- MODULE MCBatchLedger ----------------------------
(* Bounds for TLC: two leaf guests with three receipts between them, and   *)
(* at most one composite receipt of leaf or batch.                         *)
EXTENDS BatchLedger

CONSTANTS MaxReceipts     \* bound on the receipts proved

\* the leaves that are proved: a journal by each guest, and that of the first
\* by the other as well, but not succinctly
MCLeaves ==
  {Receipt("taproot", LeafJournal("a"), "succinct"),
   Receipt("xpriv", LeafJournal("b"), "succinct"),
   Receipt("xpriv", LeafJournal("a"), "composite")}

MCNext == /\ Cardinality(ledger) < MaxReceipts
          /\ Next
          /\ \A r \in ledger' : r.image \in LeafImages => r \in MCLeaves
          /\ Cardinality({r \in ledger' : r.kind = "composite"}) <= 1
MCSpec == Init /\ [][MCNext]_ledgerVars

\* a batch claim that cannot be proved: its second leaf is of the other guest
MCForged ==
  {Encode(GuestClaim(LeafKindTaproot, "taproot", <<LeafJournal("a"), LeafJournal("b")>>))}
=============================================================================
