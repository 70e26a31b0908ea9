---------------------------- MODULE MCBatchLane -----------------------------
(* Bounds for TLC: two processes and two artifact pairs, the first of      *)
(* which already holds a leaf that was proved earlier, the second what a   *)
(* foreign program committed, or another leaf.                             *)
EXTENDS BatchLane, TLC

MCLeaf == [image |-> "xpriv", journal |-> LeafJournal("a"), kind |-> "succinct"]
MCGiven == {MCLeaf}
MCGivenSlots == [s \in {"s1"} |-> MCLeaf]

\* the claim of a batch that was not proved, over the leaf of the first pair
MCForged == {Encode(GuestClaim(LeafKindHardenedXPriv, "xpriv", <<LeafJournal("a")>>))}
MCForeign == [image |-> "other", journal |-> CHOOSE j \in MCForged : TRUE, kind |-> "succinct"]
MCGivenForeign == {MCLeaf, MCForeign}
MCGivenForeignSlots == [s \in {"s1", "s2"} |-> IF s = "s1" THEN MCLeaf ELSE MCForeign]

\* both pairs hold a leaf of that guest
MCLeafB == [image |-> "xpriv", journal |-> LeafJournal("b"), kind |-> "succinct"]
MCGivenLeaves == {MCLeaf, MCLeafB}
MCGivenLeavesSlots == [s \in {"s1", "s2"} |-> IF s = "s1" THEN MCLeaf ELSE MCLeafB]

\* the processes differ in nothing but their name
MCProcesses == Permutations(Processes)
=============================================================================
