----------------------------- MODULE LeafClaims -----------------------------
(***************************************************************************)
(* What the three leaf lanes (Taproot, hardened-xpriv, hardened-xpub)      *)
(* compute: the witness the host builds from the command line, the checks  *)
(* the guest makes on it, the claim it commits, and the comparisons of     *)
(* Verify.  Each lane has code of its own for each of these.               *)
(*                                                                         *)
(* Derivation is ideal.  An extended private key is the root it was        *)
(* derived from and the path taken from there, a public key, chain code or *)
(* commitment is the term it is computed from; the keys that are out of    *)
(* range with probability 2^-127 are left out.                             *)
(***************************************************************************)
EXTENDS Naturals, Sequences

CONSTANTS
  HardenedKeyStart,   \* 2^31: indices from here on are hardened
  Purpose,            \* 86
  MaxPathDepth,       \* 16, the size of the guests' path buffers
  DefaultSeed,        \* the seed of the built-in test vector
  IllSizedSeeds,      \* seeds of fewer than 16 or more than 64 bytes
  InvalidKeys         \* 32 bytes that are zero or not below the group order

ASSUME IndicesAssumption ==
  /\ HardenedKeyStart \in Nat /\ Purpose \in Nat /\ Purpose < HardenedKeyStart
  /\ MaxPathDepth \in Nat

ASSUME TestVectorAssumption ==
  DefaultSeed \notin IllSizedSeeds \cup InvalidKeys

Indices     == 0..(2 * HardenedKeyStart - 1)
BIP86Purpose == HardenedKeyStart + Purpose

-----------------------------------------------------------------------------
(* Command line values.  A hex value is "" (not given), "?" (not hex, or   *)
(* of the wrong size) or a byte string.  A path is given or not, and is a  *)
(* sequence of components [digits, hardened], the latter the mark ' or h.  *)

NoPath        == [given |-> FALSE, steps |-> <<>>]
DecodesHex(t) == t # "?"

IsPathText(text) ==
  text.given \in BOOLEAN /\ text.steps \in Seq([digits : Nat, hardened : BOOLEAN])

(* strconv.ParseUint fails on what does not fit 32 bits.                   *)
Parses(text) == \A i \in 1..Len(text.steps) : text.steps[i].digits \in Indices

(* The addition of a mark is one of 32-bit words.                          *)
ParseBIP32Path(text) ==
  [i \in 1..Len(text.steps) |->
     LET c == text.steps[i]
     IN  IF c.hardened THEN (c.digits + HardenedKeyStart) % (2 * HardenedKeyStart)
                       ELSE c.digits]

(* Mutant: a hardened change level is let through.                         *)
ValidateBIP86PathAnyChange(path) ==
  /\ Len(path) = 5
  /\ path[1] = BIP86Purpose
  /\ path[2] >= HardenedKeyStart
  /\ path[3] >= HardenedKeyStart
  /\ path[5] < HardenedKeyStart

(* The host's and the guest's check of the BIP-86 shape.                   *)
ValidateBIP86Path(path) ==
  /\ Len(path) = 5
  /\ path[1] = BIP86Purpose
  /\ path[2] >= HardenedKeyStart
  /\ path[3] >= HardenedKeyStart
  /\ path[4] < HardenedKeyStart
  /\ path[5] < HardenedKeyStart
  /\ path[4] <= 1

IsBIP86Path(path) ==
  /\ Len(path) = 5
  /\ path[1] = BIP86Purpose
  /\ path[2] >= HardenedKeyStart /\ path[3] >= HardenedKeyStart
  /\ path[4] < HardenedKeyStart /\ path[5] < HardenedKeyStart
  /\ path[4] <= 1

ValidateAllHardened(path) == \A i \in 1..Len(path) : path[i] >= HardenedKeyStart

SingleHardenedChild(path) == Len(path) = 1 /\ path[1] >= HardenedKeyStart

-----------------------------------------------------------------------------
(* Derivation (bip32/) *)

MasterKey(seed)     == [root |-> <<seed>>, path |-> <<>>]
Parent(key, chain)  == [root |-> <<key, chain>>, path |-> <<>>]
ValidParent(parent) == parent.root[1] \notin InvalidKeys

DeriveRelative(parent, path) == [parent EXCEPT !.path = @ \o path]

TaprootOutputKey(xpriv) == [of |-> "taproot key", xpriv |-> xpriv]
PrivateKey(xpriv)       == [of |-> "private key", xpriv |-> xpriv]
PublicKey(xpriv)        == [of |-> "public key", xpriv |-> xpriv]
ChainCode(xpriv)        == [of |-> "chain code", xpriv |-> xpriv]

(* CommitPath in the guest and PathCommitmentFromPath in the host hash the *)
(* same bytes.                                                             *)
CommitPath(path)             == [of |-> "path commitment", path |-> path]

(* Mutant: the host's copy hashes the components without their number, so  *)
(* other bytes than the guest.                                             *)
PathCommitmentUncounted(path) == [of |-> "components", path |-> path]

PathCommitmentFromPath(path) == [of |-> "path commitment", path |-> path]

-----------------------------------------------------------------------------
(* The witness of the host: whether resolveWitness accepts a configuration *)
(* and what is then written to the guest's stdin.  A Taproot configuration *)
(* is [seed, path, testVector, requireBIP86], the others                   *)
(* [key, chain, path, testVector].                                         *)

DefaultBIP32Path ==
  <<BIP86Purpose, HardenedKeyStart, HardenedKeyStart, 0, 0>>

WitnessPath(w) == IF w.testVector THEN DefaultBIP32Path ELSE ParseBIP32Path(w.path)

resolveWitness(w) ==
  /\ IF w.seed # "" \/ w.path.given
     THEN /\ w.seed # "" /\ w.path.given /\ ~w.testVector
          /\ DecodesHex(w.seed)
          /\ Parses(w.path)
     ELSE w.testVector
  /\ w.requireBIP86 => ValidateBIP86Path(WitnessPath(w))

BuildWitnessStdin(w) ==
  [flags |-> IF w.requireBIP86 THEN 1 ELSE 0,
   seed  |-> IF w.testVector THEN DefaultSeed ELSE w.seed,
   path  |-> WitnessPath(w)]

DefaultReducedParent ==
  DeriveRelative(MasterKey(DefaultSeed), <<BIP86Purpose, HardenedKeyStart>>)
DefaultReducedPath == <<HardenedKeyStart>>

(* The flags that the two reduced lanes resolve alike, up to the path.     *)
ResolvesParent(w) ==
  IF w.key # "" \/ w.chain # "" \/ w.path.given
  THEN /\ w.key # "" /\ w.chain # "" /\ w.path.given /\ ~w.testVector
       /\ DecodesHex(w.key) /\ DecodesHex(w.chain)
       /\ ValidParent(Parent(w.key, w.chain))
       /\ Parses(w.path)
  ELSE w.testVector

ReducedParent(w) == IF w.testVector THEN DefaultReducedParent ELSE Parent(w.key, w.chain)
ReducedPath(w)   == IF w.testVector THEN DefaultReducedPath ELSE ParseBIP32Path(w.path)

resolveHardenedXPrivWitness(w) ==
  ResolvesParent(w) /\ SingleHardenedChild(ReducedPath(w))

BuildHardenedXPrivWitnessStdin(w) ==
  [parent |-> ReducedParent(w), index |-> ReducedPath(w)[1]]

resolveHardenedXPubWitness(w) ==
  ResolvesParent(w) /\ ValidateAllHardened(ReducedPath(w))

BuildHardenedXPubWitnessStdin(w) ==
  [parent |-> ReducedParent(w), path |-> ReducedPath(w)]

-----------------------------------------------------------------------------
(* The guests: on which stdin they halt with 0, and the claim they commit. *)

ClaimVersion          == 1
ClaimFlagRequireBIP86 == 1

RequiresBIP86(flags) == flags % 2 = ClaimFlagRequireBIP86

(* Mutant: the flag is committed and the path is not looked at.            *)
TaprootGuestAcceptsAnyPath(stdin) ==
  /\ stdin.seed \notin IllSizedSeeds
  /\ Len(stdin.path) <= MaxPathDepth

TaprootGuestAccepts(stdin) ==
  /\ stdin.seed \notin IllSizedSeeds
  /\ Len(stdin.path) <= MaxPathDepth
  /\ RequiresBIP86(stdin.flags) => IsBIP86Path(stdin.path)

DeriveTaprootClaim(stdin) ==
  [version          |-> ClaimVersion,
   flags            |-> IF RequiresBIP86(stdin.flags) THEN ClaimFlagRequireBIP86 ELSE 0,
   taprootOutputKey |-> TaprootOutputKey(DeriveRelative(MasterKey(stdin.seed), stdin.path)),
   pathCommitment   |-> CommitPath(stdin.path)]

XPrivGuestAccepts(stdin) ==
  ValidParent(stdin.parent) /\ SingleHardenedChild(<<stdin.index>>)

DeriveHardenedXPrivClaim(stdin) ==
  LET child == DeriveRelative(stdin.parent, <<stdin.index>>)
  IN  [version         |-> ClaimVersion,
       flags           |-> 0,
       childPrivateKey |-> PrivateKey(child),
       chainCode       |-> ChainCode(child)]

XPubGuestAccepts(stdin) ==
  /\ Len(stdin.path) <= MaxPathDepth
  /\ ValidParent(stdin.parent)
  /\ ValidateAllHardened(stdin.path)

DeriveHardenedXPubClaim(stdin) ==
  LET child == DeriveRelative(stdin.parent, stdin.path)
  IN  [version          |-> ClaimVersion,
       flags            |-> 0,
       compressedPubKey |-> PublicKey(child),
       chainCode        |-> ChainCode(child)]

(* Decoding a journal only checks its size; the two 72-byte layouts are    *)
(* told apart by the image of the receipt, which is verified first.        *)
Journal(size, claim) == [size |-> size, claim |-> claim]

PublicClaimSize        == 72
HardenedXPrivClaimSize == 72
HardenedXPubClaimSize  == 73

-----------------------------------------------------------------------------
(* claim.json: what it holds, and when it matches what was verified.  Of   *)
(* its fields those that are constants (schema version, receipt encoding)  *)
(* or are not compared (seal size) are left out.                           *)

NewClaimFile(image, journal) ==
  [imageID          |-> image,
   claimVersion     |-> journal.claim.version,
   claimFlags       |-> journal.claim.flags,
   requireBIP86     |-> RequiresBIP86(journal.claim.flags),
   taprootOutputKey |-> journal.claim.taprootOutputKey,
   pathCommitment   |-> journal.claim.pathCommitment,
   journal          |-> journal]

NewHardenedXPrivClaimFile(image, journal) ==
  [imageID         |-> image,
   claimVersion    |-> journal.claim.version,
   claimFlags      |-> journal.claim.flags,
   childPrivateKey |-> journal.claim.childPrivateKey,
   chainCode       |-> journal.claim.chainCode,
   journal         |-> journal]

NewHardenedXPubClaimFile(image, journal) ==
  [imageID          |-> image,
   claimVersion     |-> journal.claim.version,
   claimFlags       |-> journal.claim.flags,
   compressedPubKey |-> journal.claim.compressedPubKey,
   chainCode        |-> journal.claim.chainCode,
   journal          |-> journal]

(* Mutant: only the image and the schema are compared.                     *)
verifyClaimFileMatchesImage(expected, verified) ==
  /\ expected.imageID = verified.imageID
  /\ expected.claimVersion = verified.claimVersion
  /\ expected.claimFlags = verified.claimFlags

(* The image first, so that a file of another lane goes no further.        *)
verifyClaimFileMatches(expected, verified) ==
  /\ expected.imageID = verified.imageID
  /\ expected.claimVersion = verified.claimVersion
  /\ expected.claimFlags = verified.claimFlags
  /\ expected.requireBIP86 = verified.requireBIP86
  /\ expected.taprootOutputKey = verified.taprootOutputKey
  /\ expected.pathCommitment = verified.pathCommitment
  /\ expected.journal = verified.journal

verifyHardenedXPrivClaimFileMatches(expected, verified) ==
  /\ expected.imageID = verified.imageID
  /\ expected.claimVersion = verified.claimVersion
  /\ expected.claimFlags = verified.claimFlags
  /\ expected.childPrivateKey = verified.childPrivateKey
  /\ expected.chainCode = verified.chainCode
  /\ expected.journal = verified.journal

verifyHardenedXPubClaimFileMatches(expected, verified) ==
  /\ expected.imageID = verified.imageID
  /\ expected.claimVersion = verified.claimVersion
  /\ expected.claimFlags = verified.claimFlags
  /\ expected.compressedPubKey = verified.compressedPubKey
  /\ expected.chainCode = verified.chainCode
  /\ expected.journal = verified.journal

-----------------------------------------------------------------------------
(* Expectations of the verifier's command line.  A key, chain code or      *)
(* commitment is Unset, Malformed or a value; the policy is "", "yes", "no". *)

Unset     == [of |-> "unset"]
Malformed == [of |-> "malformed"]

Meets(value, expected) == expected \in {Unset, value}

hasAny(e) ==
  \/ e.pubKey # Unset
  \/ e.pathCommitment # Unset
  \/ e.path.given
  \/ e.requireBIP86 # ""

verifyClaimExpectations(e, claim) ==
  /\ e.pathCommitment = Unset \/ ~e.path.given
  /\ Meets(claim.taprootOutputKey, e.pubKey)
  /\ Meets(claim.pathCommitment, e.pathCommitment)
  /\ e.path.given =>
       /\ Parses(e.path)
       /\ claim.pathCommitment = PathCommitmentFromPath(ParseBIP32Path(e.path))
  /\ e.requireBIP86 # "" => (e.requireBIP86 = "yes") = RequiresBIP86(claim.flags)

verifyHardenedXPrivExpectations(e, claim) ==
  /\ Meets(claim.childPrivateKey, e.key)
  /\ Meets(claim.chainCode, e.chainCode)

verifyHardenedXPubExpectations(e, claim) ==
  /\ Meets(claim.compressedPubKey, e.key)
  /\ Meets(claim.chainCode, e.chainCode)
-----------------------------------------------------------------------------
(* Each lane's own functions *)

Resolves(lane, w) ==
  CASE lane = "taproot" -> resolveWitness(w)
    [] lane = "xpriv"   -> resolveHardenedXPrivWitness(w)
    [] lane = "xpub"    -> resolveHardenedXPubWitness(w)

Stdin(lane, w) ==
  CASE lane = "taproot" -> BuildWitnessStdin(w)
    [] lane = "xpriv"   -> BuildHardenedXPrivWitnessStdin(w)
    [] lane = "xpub"    -> BuildHardenedXPubWitnessStdin(w)

LeafGuestAccepts(lane, stdin) ==
  CASE lane = "taproot" -> TaprootGuestAccepts(stdin)
    [] lane = "xpriv"   -> XPrivGuestAccepts(stdin)
    [] lane = "xpub"    -> XPubGuestAccepts(stdin)

LeafGuestJournal(lane, stdin) ==
  CASE lane = "taproot" -> Journal(PublicClaimSize, DeriveTaprootClaim(stdin))
    [] lane = "xpriv"   -> Journal(HardenedXPrivClaimSize, DeriveHardenedXPrivClaim(stdin))
    [] lane = "xpub"    -> Journal(HardenedXPubClaimSize, DeriveHardenedXPubClaim(stdin))

DecodesLeaf(lane, journal) ==
  journal.size = CASE lane = "taproot" -> PublicClaimSize
                   [] lane = "xpriv"   -> HardenedXPrivClaimSize
                   [] lane = "xpub"    -> HardenedXPubClaimSize

ClaimFileOf(receipt) ==
  CASE receipt.image = "taproot" -> NewClaimFile(receipt.image, receipt.journal)
    [] receipt.image = "xpriv"   -> NewHardenedXPrivClaimFile(receipt.image, receipt.journal)
    [] receipt.image = "xpub"    -> NewHardenedXPubClaimFile(receipt.image, receipt.journal)

resolveReceiptKind(kind) == IF kind = "" THEN "composite" ELSE kind

LeafGuestRuns(lane, w) ==
  /\ Resolves(lane, w)
  /\ LeafGuestAccepts(lane, Stdin(lane, w))
  /\ DecodesLeaf(lane, LeafGuestJournal(lane, Stdin(lane, w)))

(* Mutant: the policy is compared with the default.                        *)
LeafClaimAcceptedDefaultPolicy(lane, w, claim) ==
  /\ claim.version = ClaimVersion
  /\ lane = "taproot" => RequiresBIP86(claim.flags)

(* The policy is compared in the Taproot lane only.                        *)
LeafClaimAccepted(lane, w, claim) ==
  /\ claim.version = ClaimVersion
  /\ lane = "taproot" => RequiresBIP86(claim.flags) = w.requireBIP86

HasExpectations(lane, e) ==
  IF lane = "taproot" THEN hasAny(e) ELSE e.key # Unset \/ e.chainCode # Unset

MatchesClaimFile(lane, expectedFile, receipt) ==
  CASE lane = "taproot" -> verifyClaimFileMatches(expectedFile, ClaimFileOf(receipt))
    [] lane = "xpriv" -> verifyHardenedXPrivClaimFileMatches(expectedFile, ClaimFileOf(receipt))
    [] lane = "xpub" -> verifyHardenedXPubClaimFileMatches(expectedFile, ClaimFileOf(receipt))

MeetsExpectations(lane, e, claim) ==
  CASE lane = "taproot" -> verifyClaimExpectations(e, claim)
    [] lane = "xpriv"   -> verifyHardenedXPrivExpectations(e, claim)
    [] lane = "xpub"    -> verifyHardenedXPubExpectations(e, claim)

-----------------------------------------------------------------------------
(* Reference definitions: what a path text means, the BIP-86 shape as the  *)
(* BIP states it, and what an expectation says of a private witness.       *)

\* a marked component is one of the first 2^31 hardened indices
Proper(text) ==
  \A i \in 1..Len(text.steps) :
    text.steps[i].hardened => text.steps[i].digits < HardenedKeyStart

Meaning(text) ==
  [i \in 1..Len(text.steps) |->
     text.steps[i].digits + IF text.steps[i].hardened THEN HardenedKeyStart ELSE 0]

BIP86Path(path) ==
  \E coin, account, index \in 0..(HardenedKeyStart - 1), change \in {0, 1} :
    path = <<HardenedKeyStart + Purpose, HardenedKeyStart + coin,
             HardenedKeyStart + account, change, index>>

Child(lane, stdin) ==
  CASE lane = "taproot" -> DeriveRelative(MasterKey(stdin.seed), stdin.path)
    [] lane = "xpriv"   -> DeriveRelative(stdin.parent, <<stdin.index>>)
    [] lane = "xpub"    -> DeriveRelative(stdin.parent, stdin.path)

Describes(lane, e, stdin) ==
  IF lane = "taproot"
  THEN /\ e.pubKey \in {Unset, TaprootOutputKey(Child(lane, stdin))}
       /\ e.pathCommitment \in {Unset, CommitPath(stdin.path)}
       /\ e.path.given /\ Proper(e.path) => stdin.path = Meaning(e.path)
       /\ e.requireBIP86 = "yes" => BIP86Path(stdin.path) /\ RequiresBIP86(stdin.flags)
       /\ e.requireBIP86 = "no" => ~RequiresBIP86(stdin.flags)
  ELSE /\ e.key \in {Unset, IF lane = "xpriv" THEN PrivateKey(Child(lane, stdin))
                                              ELSE PublicKey(Child(lane, stdin))}
       /\ e.chainCode \in {Unset, ChainCode(Child(lane, stdin))}
=============================================================================
