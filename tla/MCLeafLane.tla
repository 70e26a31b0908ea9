----------------------------- MODULE MCLeafLane -----------------------------
(* Bounds for TLC, with 2^31 scaled to 4 and 86 to 2: per lane two or      *)
(* three witnesses that are proved, one of every sort that is refused, and *)
(* expectations that fit some witnesses and not others.                    *)
EXTENDS LeafLane, TLC

\* components: an index, a marked index
n(d) == [digits |-> d, hardened |-> FALSE]
h(d) == [digits |-> d, hardened |-> TRUE]
Path(steps) == [given |-> TRUE, steps |-> steps]

BIP86Text  == Path(<<h(2), h(0), h(0), n(0), n(0)>>)     \* the test vector's path
BIP86Other == Path(<<n(6), h(0), n(5), n(1), n(3)>>)     \* 86' written as an index
Change2    == Path(<<h(2), h(0), h(0), n(2), n(0)>>)
Wrapped    == Path(<<h(4)>>)                             \* a mark on a hardened index
Beyond     == Path(<<n(8)>>)                             \* 2^32
Long       == Path(<<h(0), h(0), h(0), h(0), h(0), h(0)>>)
Hardened1  == Path(<<h(1)>>)
Hardened2  == Path(<<h(1), h(0)>>)
Normal     == Path(<<n(1)>>)
Root       == Path(<<>>)                                 \* "m/"

MCTaproot(seed, path, testVector, requireBIP86) ==
  [seed |-> seed, path |-> path, testVector |-> testVector, requireBIP86 |-> requireBIP86]
MCReduced(key, chain, path, testVector) ==
  [key |-> key, chain |-> chain, path |-> path, testVector |-> testVector]

MCTaprootWitnesses ==
  {MCTaproot("seed", p, FALSE, TRUE) : p \in {BIP86Other, Change2, Hardened1}} \cup
  {MCTaproot("seed", p, FALSE, FALSE) : p \in {BIP86Other, Wrapped, Beyond, Long}} \cup
  {MCTaproot("short", Normal, FALSE, FALSE), MCTaproot("", NoPath, TRUE, TRUE),
   MCTaproot("seed", NoPath, TRUE, FALSE), MCTaproot("", NoPath, FALSE, FALSE)}

MCReducedWitnesses ==
  {MCReduced("key", "chain", p, FALSE) :
     p \in {Hardened1, Hardened2, Normal, Wrapped, Root, Long, NoPath}} \cup
  {MCReduced("zero", "chain", Hardened1, FALSE), MCReduced("?", "chain", Hardened1, FALSE),
   MCReduced("key", "chain", Hardened1, TRUE), MCReduced("", "", NoPath, TRUE)}

MCWitnesses ==
  [lane \in Lanes |-> IF lane = "taproot" THEN MCTaprootWitnesses ELSE MCReducedWitnesses]

\* what the other provers hand to the guests, unchecked
MCForeign ==
  [lane \in Lanes |->
     CASE lane = "taproot" -> [flags : {0, 3}, seed : {"other"}, path : {<<6, 4, 4, 2, 0>>}]
       [] lane = "xpriv"   -> [parent : {Parent("key", "chain")}, index : {1, 6}]
       [] lane = "xpub"    -> [parent : {Parent("key", "chain")}, path : {<<>>, <<5, 1>>}]]

MCXPriv(path) == DeriveRelative(Parent("key", "chain"), path)

MCTaprootExpectations ==
  LET none == [pubKey |-> Unset, pathCommitment |-> Unset, path |-> NoPath,
               requireBIP86 |-> ""]
  IN  {none,
       [none EXCEPT !.pubKey = TaprootOutputKey(DeriveRelative(MasterKey("seed"),
                                                               <<6, 4, 5, 1, 3>>))],
       [none EXCEPT !.pubKey = Malformed],
       [none EXCEPT !.path = BIP86Other, !.requireBIP86 = "yes"],
       [none EXCEPT !.path = BIP86Other],
       [none EXCEPT !.path = Path(<<n(0)>>)],
       [none EXCEPT !.path = Beyond],
       [none EXCEPT !.pathCommitment = CommitPath(<<6, 4, 4, 0, 0>>), !.requireBIP86 = "no"],
       [none EXCEPT !.pathCommitment = CommitPath(<<0>>), !.path = Path(<<n(0)>>)]}

MCReducedExpectations(Key(_)) ==
  LET expect(key, chainCode) == [key |-> key, chainCode |-> chainCode]
      key == Key(MCXPriv(<<5>>))
  IN  {expect(Unset, Unset), expect(Malformed, Unset), expect(key, Unset),
       expect(Unset, ChainCode(MCXPriv(<<5>>))), expect(key, ChainCode(MCXPriv(<<5>>))),
       expect(key, ChainCode(MCXPriv(<<5, 4>>)))}

MCExpectations ==
  [lane \in Lanes |->
     CASE lane = "taproot" -> MCTaprootExpectations
       [] lane = "xpriv"   -> MCReducedExpectations(PrivateKey)
       [] lane = "xpub"    -> MCReducedExpectations(PublicKey)]

\* the processes differ in nothing but their name
MCProcesses == Permutations(Processes)
=============================================================================
