---------------------------- MODULE CommandLine ----------------------------
(***************************************************************************)
(* From the words of a command line to the configuration of a Runner       *)
(* (cmd/bip32-pq-zkp-host): package flag's parser, the flags of each       *)
(* command with their defaults, and parseBatchLeafInputs.                  *)
(*                                                                         *)
(* A word is a plain one (a value, or a stray word), a flag, or a flag     *)
(* with its value attached (--flag=value).  A text is a model value whose  *)
(* meaning as a path, a key or a number the constants give.  --guest keeps *)
(* its default on every line.                                              *)
(***************************************************************************)
EXTENDS LeafClaims, BatchLoader, FiniteSets, SequencesExt

CONSTANTS
  PathTexts,      \* [text -> path]: the texts that are derivation paths
  HexTexts,       \* [text -> term]: those that are expected keys and hashes
  UintTexts       \* [text -> number]: those that strconv.ParseUint accepts

ASSUME TextsAssumption ==
  /\ \A text \in DOMAIN PathTexts : IsPathText(PathTexts[text])
  /\ \A text \in DOMAIN UintTexts : UintTexts[text] \in Nat

TrueTexts  == {"1", "t", "T", "true", "TRUE", "True"}
FalseTexts == {"0", "f", "F", "false", "FALSE", "False"}

Plain(text)        == [flag |-> "", attached |-> FALSE, text |-> text]
Flag(name)         == [flag |-> name, attached |-> FALSE, text |-> "--"]
FlagEq(name, text) == [flag |-> name, attached |-> TRUE, text |-> text]
IsFlag(word)       == word.flag # ""

-----------------------------------------------------------------------------
(* FlagSet.Parse.  It stops at the first word that is not a flag, and the  *)
(* program never looks at what is left.  A flag of bools takes no value    *)
(* but an attached one; any other swallows the next word, flag or not.     *)

(* fs.Var(&args.requireBIP86) sets what its Set parses, fs.UintVar too.    *)
Settable(name, text) ==
  /\ name \in {"use-test-vector", "require-bip86"} => text \in TrueTexts \cup FalseTexts
  /\ name = "leaf-index" => text \in DOMAIN UintTexts

TakesNext(bools, argv, i) == ~argv[i].attached /\ argv[i].flag \notin bools

ValueAt(bools, argv, i) ==
  IF argv[i].attached THEN argv[i].text
  ELSE IF argv[i].flag \in bools THEN "true" ELSE argv[i + 1].text

(* The word after the flag at i and its value.                             *)
Beyond(bools, argv, i) == IF TakesNext(bools, argv, i) THEN i + 2 ELSE i + 1

(* The flag is one of the command's, and it has a value that it takes.     *)
CanSet(valued, bools, argv, i) ==
  /\ argv[i].flag \in valued \cup bools
  /\ Beyond(bools, argv, i) <= Len(argv) + 1
  /\ Settable(argv[i].flag, ValueAt(bools, argv, i))

(* One round of the loop of Parse.  fs is the word it stands at and the    *)
(* flags set so far, by their positions; after a round that leaves it as   *)
(* it is, the loop ends.                                                   *)
parseOne(valued, bools, argv, fs) ==
  LET i == fs.next
  IN  IF ~fs.ok \/ i > Len(argv) \/ ~IsFlag(argv[i]) THEN fs
      ELSE IF CanSet(valued, bools, argv, i)
      THEN [ok |-> TRUE, next |-> Beyond(bools, argv, i), flags |-> fs.flags \cup {i}]
      ELSE [ok |-> FALSE, next |-> i, flags |-> fs.flags]

ParseRounds(valued, bools, argv) ==
  LET round[k \in Nat] ==
        IF k = 0 THEN [ok |-> TRUE, next |-> 1, flags |-> {}]
        ELSE parseOne(valued, bools, argv, round[k - 1])
  IN  round

(* A round takes a word or two, so there are no more than words.           *)
Parse(valued, bools, argv) ==
  LET fs == ParseRounds(valued, bools, argv)[Len(argv)]
  IN  [ok  |-> fs.ok,
       set |-> [i \in fs.flags |-> [name |-> argv[i].flag,
                                   text |-> ValueAt(bools, argv, i)]]]

(* The values of a function of positions, in the order of these.           *)
InOrder(f) ==
  [k \in 1..Cardinality(DOMAIN f) |->
     f[CHOOSE i \in DOMAIN f : Cardinality({j \in DOMAIN f : j <= i}) = k]]

ValuesOf(parsed, name) ==
  [i \in {j \in DOMAIN parsed.set : parsed.set[j].name = name} |-> parsed.set[i].text]

(* Mutant: a repeated flag puts its value in front.                        *)
TextsReversed(parsed, name) == Reverse(InOrder(ValuesOf(parsed, name)))

(* A repeatable flag keeps every value (batchLeafList), another the last.  *)
Texts(parsed, name) == InOrder(ValuesOf(parsed, name))

Text(parsed, name, default) ==
  LET texts == Texts(parsed, name)
  IN  IF texts = <<>> THEN default ELSE Last(texts)

Bool(parsed, name, default) ==
  Text(parsed, name, IF default THEN "true" ELSE "false") \in TrueTexts

-----------------------------------------------------------------------------
(* What the texts mean.  A text that is no path is like one whose index    *)
(* does not fit 32 bits.                                                   *)

NotAPath ==
  [given |-> TRUE, steps |-> <<[digits |-> 2 * HardenedKeyStart, hardened |-> FALSE]>>]

PathText(text) ==
  IF text = "" THEN NoPath
  ELSE IF text \in DOMAIN PathTexts THEN PathTexts[text] ELSE NotAPath

HexText(text) ==
  IF text = "" THEN Unset
  ELSE IF text \in DOMAIN HexTexts THEN HexTexts[text] ELSE Malformed

-----------------------------------------------------------------------------
(* The leaf commands (main.go, hardened_xpriv.go, hardened_xpub.go) *)

witnessConfigFromArgs(parsed) ==
  [seed         |-> Text(parsed, "seed-hex", ""),
   path         |-> PathText(Text(parsed, "path", "")),
   testVector   |-> Bool(parsed, "use-test-vector", FALSE),
   requireBIP86 |-> Bool(parsed, "require-bip86", TRUE)]

hardenedWitnessConfigFromArgs(parsed) ==
  [key        |-> Text(parsed, "parent-xpriv-hex", ""),
   chain      |-> Text(parsed, "parent-chain-code-hex", ""),
   path       |-> PathText(Text(parsed, "path", "")),
   testVector |-> Bool(parsed, "use-test-vector", FALSE)]

WitnessConfig(lane, parsed) ==
  IF lane = "taproot" THEN witnessConfigFromArgs(parsed)
                      ELSE hardenedWitnessConfigFromArgs(parsed)

WitnessFlags(lane) ==
  IF lane = "taproot" THEN {"guest", "seed-hex", "path"}
  ELSE {"guest", "parent-xpriv-hex", "parent-chain-code-hex", "path"}

WitnessBools(lane) ==
  IF lane = "taproot" THEN {"use-test-vector", "require-bip86"} ELSE {"use-test-vector"}

ParseExecute(lane, argv) ==
  LET parsed == Parse(WitnessFlags(lane), WitnessBools(lane), argv)
  IN  [ok |-> parsed.ok, witness |-> WitnessConfig(lane, parsed)]

ProofFlags == {"receipt-kind", "receipt-out", "claim-out"}

ParseProve(lane, argv) ==
  LET parsed == Parse(WitnessFlags(lane) \cup ProofFlags, WitnessBools(lane), argv)
  IN  [ok          |-> parsed.ok,
       witness     |-> WitnessConfig(lane, parsed),
       receiptKind |-> Text(parsed, "receipt-kind", "composite"),
       receiptOut  |-> Text(parsed, "receipt-out", ""),
       claimOut    |-> Text(parsed, "claim-out", "")]

parseExecuteArgs(argv)              == ParseExecute("taproot", argv)
parseExecuteHardenedXPrivArgs(argv) == ParseExecute("xpriv", argv)
parseExecuteHardenedXPubArgs(argv)  == ParseExecute("xpub", argv)
parseProveArgs(argv)                == ParseProve("taproot", argv)
parseProveHardenedXPrivArgs(argv)   == ParseProve("xpriv", argv)
parseProveHardenedXPubArgs(argv)    == ParseProve("xpub", argv)

(* Mutant: the policy is left out unless it is typed.                      *)
verifyExpectationsNoPolicy(parsed) ==
  [pubKey         |-> HexText(Text(parsed, "expected-pubkey", "")),
   pathCommitment |-> HexText(Text(parsed, "expected-path-commitment", "")),
   path           |-> PathText(Text(parsed, "expected-path", "")),
   requireBIP86   |-> IF Texts(parsed, "require-bip86") = <<>> THEN ""
                      ELSE IF Bool(parsed, "require-bip86", TRUE) THEN "yes" ELSE "no"]

(* optionalBool starts as set and true, so an expectation is never absent. *)
verifyExpectationsFromArgs(parsed) ==
  [pubKey         |-> HexText(Text(parsed, "expected-pubkey", "")),
   pathCommitment |-> HexText(Text(parsed, "expected-path-commitment", "")),
   path           |-> PathText(Text(parsed, "expected-path", "")),
   requireBIP86   |-> IF Bool(parsed, "require-bip86", TRUE) THEN "yes" ELSE "no"]

ParseVerify(expectationFlags, argv, Expectations(_)) ==
  LET parsed == Parse({"guest", "receipt-in", "claim-in"} \cup expectationFlags, {}, argv)
  IN  [ok        |-> parsed.ok,
       receiptIn |-> Text(parsed, "receipt-in", ""),
       claimIn   |-> Text(parsed, "claim-in", ""),
       expect    |-> Expectations(parsed)]

parseVerifyArgs(argv) ==
  ParseVerify({"expected-pubkey", "expected-path-commitment", "expected-path",
               "require-bip86"},
              argv, verifyExpectationsFromArgs)

parseVerifyHardenedXPrivArgs(argv) ==
  ParseVerify({"expected-child-private-key", "expected-chain-code"}, argv,
              LAMBDA parsed : [key |-> HexText(Text(parsed, "expected-child-private-key", "")),
                               chainCode |-> HexText(Text(parsed, "expected-chain-code", ""))])

parseVerifyHardenedXPubArgs(argv) ==
  ParseVerify({"expected-compressed-pubkey", "expected-chain-code"}, argv,
              LAMBDA parsed : [key |-> HexText(Text(parsed, "expected-compressed-pubkey", "")),
                               chainCode |-> HexText(Text(parsed, "expected-chain-code", ""))])

-----------------------------------------------------------------------------
(* The batch commands (batch.go) *)

ParseBatchLeafKindName(name) ==
  CASE name = "hardened-xpriv" -> LeafKindHardenedXPriv
    [] name = "taproot" -> LeafKindTaproot
    [] name \in {"batch-claim-v1", "batch-claim"} -> LeafKindBatchClaimV1
    [] name \in {"heterogeneous-envelope-v1", "heterogeneous-envelope", "heterogeneous"}
         -> LeafKindHeterogeneousEnvelopeV1
    [] OTHER -> 0

parseDirectLeafKind(value) ==
  LET kind == ParseBatchLeafKindName(value)
  IN  IF IsAllowedHeterogeneousDirectLeafKindV1(kind) THEN kind ELSE 0

BatchFlags == {"guest", "leaf-kind", "direct-leaf-kind", "leaf-claim", "leaf-receipt"}

NoInputs == [ok |-> FALSE, kind |-> 0, inputs |-> <<>>]

(* Claims, receipts and direct kinds are paired by the order in which each *)
(* flag was repeated.                                                      *)
parseBatchLeafInputs(parsed) ==
  LET claims   == Texts(parsed, "leaf-claim")
      receipts == Texts(parsed, "leaf-receipt")
      directs  == Texts(parsed, "direct-leaf-kind")
      kind     == ParseBatchLeafKindName(Text(parsed, "leaf-kind", "hardened-xpriv"))
      isParent == kind = LeafKindHeterogeneousEnvelopeV1
  IN  IF /\ parsed.ok
         /\ claims # <<>>
         /\ Len(claims) = Len(receipts)
         /\ kind # 0
         /\ Len(directs) = IF isParent THEN Len(claims) ELSE 0
         /\ \A i \in 1..Len(directs) : parseDirectLeafKind(directs[i]) # 0
      THEN [ok     |-> TRUE,
            kind   |-> kind,
            inputs |-> [i \in 1..Len(claims) |->
                          [slot       |-> [claim |-> claims[i], receipt |-> receipts[i]],
                           directKind |-> IF isParent THEN parseDirectLeafKind(directs[i])
                                                      ELSE 0]]]
      ELSE NoInputs

parseExecuteBatchArgs(argv) ==
  [leaves |-> parseBatchLeafInputs(Parse(BatchFlags, {}, argv))]

parseProveBatchArgs(argv) ==
  LET parsed == Parse(BatchFlags \cup ProofFlags, {}, argv)
  IN  [leaves      |-> parseBatchLeafInputs(parsed),
       receiptKind |-> Text(parsed, "receipt-kind", "composite"),
       receiptOut  |-> Text(parsed, "receipt-out", ""),
       claimOut    |-> Text(parsed, "claim-out", "")]

(* The number is a machine word of 64 bits; uint32(args.leafIndex) keeps   *)
(* its low half.                                                           *)
parseDeriveBatchInclusionArgs(argv) ==
  LET parsed == Parse(BatchFlags \cup {"leaf-index", "proof-out"}, {}, argv)
      index  == Text(parsed, "leaf-index", "")
  IN  [leaves    |-> parseBatchLeafInputs(parsed),
       leafIndex |-> IF index = "" THEN 0 ELSE UintTexts[index] % (2 * HardenedKeyStart),
       proofOut  |-> Text(parsed, "proof-out", "")]

parseVerifyBatchArgs(argv) ==
  LET parsed == Parse({"guest", "receipt-in", "claim-in", "inclusion-in",
                       "inclusion-chain-in"}, {}, argv)
  IN  [ok           |-> parsed.ok,
       receiptIn    |-> Text(parsed, "receipt-in", ""),
       claimIn      |-> Text(parsed, "claim-in", ""),
       inclusionIns |-> Texts(parsed, "inclusion-in"),
       chainIn      |-> Text(parsed, "inclusion-chain-in", "")]

parseBundleBatchInclusionChainArgs(argv) ==
  LET parsed == Parse({"inclusion-in", "chain-out"}, {}, argv)
  IN  [ok           |-> parsed.ok,
       inclusionIns |-> Texts(parsed, "inclusion-in"),
       chainOut     |-> Text(parsed, "chain-out", "")]
=============================================================================
