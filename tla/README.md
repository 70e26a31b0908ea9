# bip32-pq-zkp in TLA+

This directory holds the formal model of this repository: TLA+ modules of the
leaf lanes, the recursive batch lane, the nested plan wrapper and the command line
that drives them, TLC configurations that check them on small instances, and TLAPS
proofs of the facts that hold for every instance.

The program proves statements about BIP-32 derivations inside a zkVM. A *leaf*
receipt attests one derivation. A *batch* receipt attests that each of an ordered
list of leaves has a receipt, and shows no more of them than a Merkle root. A
batch can itself be a leaf of a *parent* batch, and a parent can mix kinds of
children by wrapping each in an *envelope*. A verifier who holds only the top
receipt is shown single leaves by a chain of Merkle proofs, one per level.

## Inventory

| Component | State it keeps | Operations | Correct when |
|---|---|---|---|
| Claim and envelope formats (`batchclaim/claim.go`, `envelope.go`) | none | `Encode`, `Decode`, `ValidateVersion`, `NewHeterogeneousEnvelopeV1`, `DecodeHeterogeneousEnvelopeV1` | what is built decodes to itself; sizes and versions keep the kinds apart |
| Merkle tree (`batchclaim/merkle.go`) | the loop variables of `BuildProof` and `VerifyProof` | `Root`, `BuildProof`, `VerifyProof` | built proofs verify; an accepted proof shows the leaf at its index; the root fixes the whole list |
| Batch guest (`guest_batch/main.go`) | stdin cursor, pinned child policy | one run: read, check, `zkvm.Verify` per child, commit | a batch receipt exists only for records that have receipts of their own and share a policy |
| Batch host runner (`batch_runner.go`, `batch_support.go`) | the artifact files: receipts, claim.json, inclusion proofs | `ExecuteBatch`, `ProveBatch`, `VerifyBatch`, `DeriveBatchInclusionProof`, `BundleBatchInclusionChain` | what is loaded is genuine whatever happens to the files meanwhile; what loads does not fail in the guest; what is reported is backed |
| Nested disclosure (`VerifyBatchInclusionChain`) | `currentClaim`, claims disclosed so far | one proof per level | every disclosed record is in its batch and has a receipt |
| Nested plan wrapper (`nested_plan.go`) | manifest, artifact directory | depth-first proving of a tree, disclosure chain | nodes do not overwrite each other's artifacts; the chain it derives verifies |
| Leaf lanes (`runner.go`, `hardened_*_runner.go`, `*claim_support.go`) | receipt and claim files | `Execute`, `Prove`, `Verify` with expectations | a claim file that verifies says what the receipt says |
| Witness construction (`*witness.go`) | none | path parser, seed resolution, stdin layout | the path that is proved is the one asked for |
| Leaf guests (`guest*/main.go`) | stdin cursor | one run | a journal is committed only for a valid derivation |
| BIP-32 derivation (`bip32/`) | none | curve and HMAC arithmetic, path rules | external test vectors |
| Command line (`cmd/`) | none beyond the files | fifteen commands: flags with their defaults, repeated flags paired by position, dispatch, exit status | what runs is what was typed: policy, inputs and their order, output paths; what a command leaves the next one can use |
| Makefile | variables with defaults | a command line per target | the commands that the documentation gives succeed |
| Public types | none | configurations and reports | - |
| zkVM host and guest SDK (outside the repository) | the receipts in existence | execute, prove, verify | assumed: see below |

**How they interact.** A runner calls the SDK with a guest binary, the bytes of its
stdin and, for a batch, the receipts of the children as *assumptions*. The guest
asks for each child with `zkvm.Verify(imageID, journal)`; the prover resolves that
against a succinct receipt among the assumptions. Runners of different
invocations share nothing but files: `ProveBatch` writes a receipt and a claim.json
that a later `ProveBatch`, `DeriveBatchInclusionProof` or `VerifyBatch` reads.

**What is hard.**
- *Files without locks.* Two artifacts that belong together are written one after
  the other, each truncated and then filled, and read one after the other.
  Invocations overlap, proving takes minutes, and any of them may be killed. A
  claim may lie beside the receipt of an earlier run.
- *Checks written twice.* Host and guest repeat each other's checks in separate
  code. When the host is laxer, a proof fails after minutes; when the guest is,
  the receipt means less than it says.
- *What one root hides.* Everything a verifier learns of a tree of batches goes
  through one root per level and one receipt at the top. The nested claims are
  reported without being verified by themselves.
- *Words without checks.* A line is cut short at its first stray word, options not typed
  are expectations all the same, three lists are paired by position, a path may be named
  for anything and hold anything: a receipt where JSON is wanted, the claim.json of
  another lane, a claim.json where a proof is wanted.
- *Odd levels.* The last node of an odd level is paired with itself. The verifier
  compares neither the index with the leaf count nor the length of the path with
  the height.

PROJECT.json lists each as a hazard at its line, with the properties on it.

## Modules

| Module | Models | Form |
|---|---|---|
| `LeafClaims` | witness construction, the checks and claims of the three leaf guests, claim files and the comparisons of `Verify` | operators |
| `LeafLane` | `Execute`, `Prove`, `Verify` of the three leaf runners as concurrent, killable invocations over shared files | state machine |
| `BatchClaims` | kinds, sizes, claims, envelopes, child policy | operators |
| `MerkleTree` | `Root`, `BuildProof`, `VerifyProof`, `nextLevel` | recursive functions |
| `MerkleRun` | `BuildProof` then `VerifyProof`, one loop iteration per step, with any proof presented | state machine |
| `BatchGuest` | the guest as predicate (`GuestAccepts`) and function (`GuestClaim`); `DeriveInclusion`, `verifyBatchInclusionProof`, `VerifyBatchInclusionChain` | operators |
| `BatchLedger` | the abstract specification: the receipts that exist, each added by one run of a guest or of a program of other people | state machine |
| `BatchDisclosure` | a verifier opening receipts of the ledger level by level, over honest and altered proofs | state machine over `BatchLedger` |
| `ArtifactFile` | absent, empty, garbled and full files | operators |
| `BatchLoader` | the checks of `loadBatchLeaves` on a claim and on the receipt beside it, and the loader as a whole over files that do not change | operators |
| `BatchLane` | concurrent, killable invocations of the batch runner over shared files, two reads and two writes apart; implements `BatchLedger` | state machine, refinement |
| `CommandLine` | package flag's parser over words, the flags of every command, `parseBatchLeafInputs`: from words to configurations | operators |
| `Session` | one command after another, from its words to the files, over all four guests; implements `BatchLedger` | state machine, refinement |
| `MakeTargets` | the Makefile's variables and the words that each target gives the host | operators |
| `MakeSession` | a fixed sequence of make commands over `Session` | state machine |
| `NestedPlan` | `RunNestedBatchPlan`: a manifest proved depth first, disclosed and verified, over what earlier runs left; implements `BatchLedger` | state machine, refinement |
| `NatRecursion` | a recursive function of a parameter and a number, once and for all: it unfolds | TLAPS |
| `Guests_proofs` | lemmas on the operators: trees of any size; guests, claims, envelopes, chains, loaders, paths, claim files, expectations | TLAPS |
| `MerkleRun_proofs`, `BatchDisclosure_proofs`, `BatchLane_proofs`, `NestedPlan_proofs`, `LeafLane_proofs`, `Session_proofs` | the inductive invariants and theorems of the state machines | TLAPS |
| `MC*` | constants and bounds for TLC | |

`BatchGuest` extends `BatchClaims` and `MerkleTree`; `BatchLedger` extends `BatchGuest`;
`BatchLoader` extends `BatchGuest` and `ArtifactFile`; `BatchLane` and `NestedPlan` extend
`BatchLoader`, instantiate `BatchLedger` as `Ledger` and have `Ledger!Spec` among their
properties. `LeafLane` extends `LeafClaims` and `ArtifactFile`: it looks into what a leaf
receipt says, where the batch modules look only at who said it. `CommandLine` extends
`LeafClaims` and `BatchLoader`, `Session` extends `CommandLine`: there the body of a leaf
journal is the claim of its lane, so that a batch is followed from the private witness of a
leaf to the record that a verifier is shown. `Session` instantiates `BatchLedger` with its
receipts but those of the hardened-xpub guest. `MakeSession` extends `Session` and `MakeTargets`.

### Correspondence

*Data.* A digest is the term that was hashed: SHA-256 is ideal, two digests are
equal exactly when their preimages are. A journal or record is the value it
encodes, tagged with its type, which fixes the size the code compares. A receipt is
`[image, journal, kind]`. Two journals of leaf guests differ by a `body`; neither
carries what tells a Taproot journal from a hardened-xpriv one, because nothing in
the batch lane looks at it (both are 72 bytes). In `Session` the body is the claim itself. Hex, JSON and readable names are
left out: their only effect on control is that a file can be unreadable.

*Guest.* A run to `Halt(0)` is one step, since the guest sees only its stdin. `Halt(1)`,
an unresolved assumption and any other failure of `client.Prove` leave no receipt.
In `BatchLedger` the guest is handed *any* records, *any* context and receipts of
every kind, not what the host would send: that is what makes `LedgerBacked` a
statement about the guest.

*Files.* A file is absent, empty, full or garbled. `os.Create` and `os.WriteFile`
truncate in one step and fill in another. A writer that finds the file already
filled by another one may leave the end of the longer content (garbled). Reading a
file takes what it holds at that step. A receipt and the claim.json beside it are a
*slot*.

*Processes.* Each process runs one invocation at a time: `Start` chooses an operation
and any arguments, the steps follow the code in its order, `End` is a return and
`Crash` a kill between any two steps. A failing write, or a leaf guest that fails,
leaves what `Crash` leaves. A slot holds a batch or a leaf from this or an earlier
run, or a mixture of two runs. `Given` is what was proved before the model starts.

| Definition in `BatchLane` | Code |
|---|---|
| `LoadClaim`, `LoadReceipt` | one turn of the loop of `loadBatchLeaves`, split where it reads the second file |
| `ExecuteBatch`, `ProveBatch`, `ProveLeaf` | the call of the prover and what follows before the first write |
| `TruncateReceipt` ... `FillClaim` | `writeReceipt`, `WriteBatchClaimFile` |
| `Derive`, `TruncateProof`, `FillProof` | `DeriveBatchInclusionProof` |
| `VerifyReceipt`, `VerifyClaim`, `ReadProof`, `VerifyChain` | `VerifyBatch` |

*Nested plan.* One run of the command is one process with one goroutine, so runs follow
one another and the files change only by its own steps: the loader is one step here
(`Loads`, `Loaded`), and so is a write, except that `KillWithin` leaves the file it
was writing empty. A node is addressed by the path of indices to it, as in the code's
`path` argument, and a manifest is the function from these paths to its nodes: a leaf is inline
when there is a node at its path. `stack` holds the calls of `proveNestedBatchNode` with the inputs each
has resolved. An artifact base is the sequence of words that the code joins with dashes,
which keeps exactly what makes two bases equal; `IndexWords` are the words that `%02d` makes
of the indices. Files of the manifest's external leaves
are taken to lie outside the output directory (`OutputDirAssumption`).

| Definition in `NestedPlan` | Code |
|---|---|
| `StartPlan`, `Enter` | `RunNestedBatchPlan` to its first call, a call of `proveNestedBatchNode` up to its loop |
| `ProveInline`, `ResolveExternal` | `resolveNestedBatchLeaf` |
| `ProveNode`, `WriteReceipt`, `WriteClaim`, `FinishNode` | the call of `ProveBatch` and the return to the parent |
| `Derive`, `WriteProof`, `WriteChain` | `deriveNestedPlanChain`, `BundleBatchInclusionChain` |
| `VerifyFinal` | the final `VerifyBatch` |

*Leaf lanes.* A lane is named as its guest's image (each lane with the default of `--guest`).
Derivation is ideal: an extended key is the root it comes from and the path from there, a
public key, chain code or commitment is the term it is computed from. Path texts are
sequences of digits and marks; `ParseBIP32Path` adds the mark modulo 2^32, as the code
does. For TLC 2^31 is scaled to 4 and 86 to 2, which keeps every index class (ordinary,
hardened, wrapped, too large) inhabited. The ledger holds, beside each receipt, the
private stdin it was proved from. No step reads it; the properties compare it with what a
verifier was told. `Deliver` puts a receipt that somebody else proved, from a stdin no
host checked, into a slot: guest checks are judged without the host's.
`Execute`, `Prove` and `Verify` are three copies in the code, one per lane, and have an
action each per lane here.

*Command line.* A word is plain, a flag, or a flag with its value attached
(`--flag=value`); `Parse` is `FlagSet.Parse` on such words, as rounds of `parseOne`, and stops
like it at the first plain one. The properties that compare with the words typed are about
*complete* lines: no flag is left without its text (the parser would take the next flag for
it). A text is a string whose meaning as a path, a key or a number the constants give
(`PathTexts`, `HexTexts`, `UintTexts`). The number of `--leaf-index` is cut to a word of
`2 * HardenedKeyStart` values, as `uint32` does. Files are one name space of paths; a
file's content says what it was written as, and each reader makes of it what the code
would: a receipt is not JSON, JSON of another type has zeros for the fields it lacks. A
command is one step, for the interleavings are those of `LeafLane` and `BatchLane`; any one
of its writes may fail, or the process be killed in it, which leaves the files written
before, and perhaps an empty one.

| Definition in `Session` | Code |
|---|---|
| `Execute`, `ProveHardenedXPriv`, ... | the function of that name in `cmd/`, from the parsed words through the runner's method |
| `RunExecute`, `RunProve`, `Verifies` | that method, of which the three lanes have a copy each |
| `ExecuteBatch`, `ProveBatch`, `DeriveBatchInclusion`, `BundleBatchInclusionChain`, `VerifyBatch` | the function in `cmd/.../batch.go` with its method of `batch_runner.go` |
| `ReadClaimFile`, `GenericClaims`, `ReadBatchInclusionProofFile`, ... | the readers of `claim_support.go` and `batch_support.go` on a file of any content |
| `WriteFiles`, `Artifacts` | `writeReceipt`, then the writer of claim.json |
| `Type`, `Usage` | `main`'s switch and its default |

*Makefile.* A variable is the sequence of its words; `Value` is its setting, else that of its
lower-case alias, else its default. `Recipe` has a line per target, `MakeLine` adds the
command of the host. `--guest` and the artifact directory are left out.

*Assumptions on what is outside the repository.* The proof system is sound: a receipt
exists only if the program with that image ID committed that journal, with its
assumptions resolved. Image IDs of different guests differ
(`ImagesAssumption`).

*Programs of other people.* Anyone can write a program and prove it, and the batch guest takes
a child under whatever image ID its stdin names. So `BatchLedger` has `ForeignImages`, whose
receipts (`ProveForeign`) may carry any journal, leaf journals and batch claims of any content included;
the lane and the plan wrapper may find such receipts among their files. What a chain discloses is
stated as far down as the image IDs disclosed on the way are the batch guest's (`Vouched`): the
verifier does not compare them, whoever reads its report can. Only `Session` has the receipts of
the repository's guests alone, because that is all that its commands can prove with the default `--guest`, and
because `ChainReachesWitness` is about the private witnesses of those guests.

## Runs

| Run | Configuration | Question | Bounds, and why they are enough |
|---|---|---|---|
| `merkle` | `MCMerkleRun.cfg` | May any presented proof pass for a leaf that is not there? Do built proofs verify, does the root fix the list, and do the loops compute the functions the other modules use? | Up to 7 leaves over 2 claims: 7 has an odd level at the bottom, 6 in the middle and 5 both; all pairs of lists are compared. For up to 3 leaves (`MaxPresented`), an odd level and a repeated claim, every index beyond the height and every list of up to 2 siblings among the digests of the tree and two foreign ones. |
| `disclosure` | `MCBatchDisclosure.cfg` | What does a batch receipt imply, and how far down does the policy reach? What does an accepted chain disclose, and is an honest one refused? | 5 receipts: two leaf guests, a batch over each, a parent; or leaves, batch, parent and grandparent. Ledgers with a composite receipt stop at 3 (`MaxWithComposite`): a leaf, a composite batch over it and the parent that is tried and refused. Ledgers with a receipt of the foreign program stop at 4 (`MaxWithForeign`): that receipt, a parent over it, a grandparent, and one more. The foreign program commits the claim of a parent whose child is a batch of a version that is not of its kind; the guest is also handed that claim when nobody committed it. One leaf journal exists under both guests, under one of them not succinctly; one receipt at most is composite, which is enough to be refused. Kind 2 is left out: it differs from 1 in nothing the batch lane looks at. Over the ledgers of up to 4 succinct receipts, chains of up to 3 levels: the first hop differs from the others (the top claim was verified, nested ones were not), so two hops are needed. Every derived proof with each field altered, and the proofs of what the foreign program claims. |
| `disclosure_foreign` | `MCBatchDisclosure_foreign.cfg` | Is a nested claim the batch guest's? | Finding 2; the bounds of `disclosure`, succinct receipts and homogeneous parents only. |
| `lane_prove` | `MCBatchLane_prove.cfg` | Is what reaches the guest genuine? Does the lane implement the ledger? | 2 processes, 2 slots, 3 invocations: the third, a `ProveBatch` or an `ExecuteBatch`, reads what two overlapping writers, or one that was killed, left. One slot starts with the receipt and claim of a foreign program's batch claim, which a parent may take. |
| `lane_disclose` | `MCBatchLane_disclose.cfg` | Is what `VerifyBatch` reports backed, with stale and half-written files? | 2 processes, 3 invocations: prove, derive and verify over the same slots in any overlap. The two processes are interchangeable (symmetry; no temporal property is checked here). |
| `plan` | `MCNestedPlan.cfg` | Does a run succeed exactly when the manifest describes a provable tree, and with what it describes? Do left-over files matter? Does it end? | Some 5000 manifests of one to three levels: every kind, right and wrong labels, missing files, a composite leaf, a batch claim of a foreign program, disclosure paths of every length and past the end. Three levels are where a parent's child is itself a parent. Four of them are run up to three times in one directory, killed between and within writes. |
| `leaf` | `MCLeafLane.cfg` | What does a receipt say of its witness, and what a successful `Verify`? Do host and guest agree? | 2 processes over one slot, 3 invocations or deliveries: two writers and the reader of their mixture. Per lane two or three witnesses that are proved and one of every sort that is refused; expectations that fit some and not others. Processes are interchangeable. |
| `session` | `MCSession.cfg` | Is what happens to the files what was typed? Does anything that verifies at the top of a chain come from a private witness? Is a proof ever lost, or bound to other inputs? | 42 lines over a dozen paths, that leaf, batch and disclosure artifacts overwrite in turn: 19 write, the other 23 read or are refused and end a session. 5 writes: a leaf, a batch over it, a parent, two proofs; that is the shortest way to a chain of two levels over a leaf proved in the session. The fifth write is one of a disclosure (`derive` or `bundle`): nothing reads a leaf or a batch written last but the verifiers, which the shorter sessions run on it. Heterogeneous parents with right, wrong, swapped and missing direct kinds, composite inputs, policies left out, declined and attached, stray words, one path for two artifacts, the wrong file for each reader, an index that does not fit 32 bits. One write may fail at any point; the sessions in which it does have two commands that write. |
| `plan_names`, `ledger_subtrees`, `leaf_xpub`, `make_docs` | | Findings, below. | |

Deadlock is not checked: the models stop when their bounds are used up
(`MaxReceipts`, `MaxRuns`, `MaxWrites`), a session ends where its user stops typing, and a
run of the command simply ends.

*Fairness.* Only `NestedPlan` states a liveness property, under weak fairness of `Step`, the
next step of the run in progress: the process is one goroutine that waits for nobody, so it
takes its next step unless it is killed. Starting a run and killing one are not fair. The
prover call ends because the guest's loops are over finite input. The other
modules state no fairness: an invocation of a lane is a short fixed sequence of steps with
loops over finite lists, which no other process can hold up.

### Properties

- `AcceptedLeafIsInBatch`, `BuiltProofVerifies`, `RootBindsBatch`: soundness,
  completeness and binding of the tree. The index in the leaf hash is what makes
  the duplicated last node harmless: without it (a mutant) a list
  and the same list with its last leaf repeated share a root.
- `LedgerBacked`: a batch receipt opens to records with receipts of their own and one
  child policy. `RootDeterminesRecords`: the opening is unique.
- `GrandchildrenShareImage`: the policy fixes the leaf guest two levels down, though
  the parent's claim names only the batch guest.
- `DisclosureBacked`: each level of an accepted chain shows the record at that index of
  that batch, and it has a receipt. `NestedClaimsVerify`: each nested claim was committed by the
  batch guest and would pass the verification that the code does not repeat. Both hold for a level
  when the image IDs disclosed above it are the batch guest's, and foreign programs may have committed
  anything; without that condition they are false (`NestedClaimsProved`, finding 2).
  `DerivedProofsVerify`: no honest proof is refused.
- `LoadedGenuine`: a loaded record is attested by the receipt loaded with it,
  whatever other processes wrote between the two reads.
- `GuestAgreesWithHost`: what loads is accepted by the guest.
- `ReportBacked`: what `DisclosureBacked` says, under the same condition, of what `VerifyBatch` reports over
  files that change between its reads. The runs of the lane have no foreign claim within the levels of a report
  (`disclosure` has); the theorem covers it.
- `ImplementsLedger`: every step of the lane, and of the plan wrapper, is a step of the
  ledger or leaves it alone.
- `OutcomeAsPlanned`, `TopAsPlanned`, `ChainDisclosesPlan`: a run fails exactly when the guest
  would refuse a node of the tree or the disclosure path leads nowhere; else it ends with
  the top claim and the chain that the manifest alone determines (`PlannedClaim`, computed
  without files), whatever earlier runs left. A node is provable (`NodeProvable`) when the guest
  accepts it and each record is attested by the receipt of that child: a second child with the
  same journal under a succinct receipt does not help a composite one past the loader. `ArtifactsKept`: no node overwrites another's
  artifacts. `AchievablePlanCompletes`: a plan that can be carried out completes.
- `StatementsHold`: what docs/claim.md says a receipt attests holds of its private witness,
  also for a prover with a host of his own.
- `ReportTruthful`: after a successful `Verify` there is a receipt whose witness is as the
  expectations and claim.json say. `TruthAccepted`: true ones are not refused.
- `VerifiedAsTyped`: when a verify command succeeds, the receipt it was pointed to was proved
  from a witness that is what the *words* say (the policy is BIP-86 unless declined before the
  first stray word), and claim.json, if named, is the public part of that receipt.
- `ChainReachesWitness`: the last record of an accepted chain is a batch that was proved, or
  was committed from a private witness by the guest that the claim above it names. The
  declared leaf kind is compared by size only, so the property speaks of the image.
- `InputsInOrder`: a batch that is proved holds the claims typed, in that order, each attested
  by the receipt, and wrapped as the direct kind, typed at its place; an inclusion proof is of
  the leaf at the index typed, if that fits 32 bits.
- `ProofsAreKept`: a command that obtained a proof leaves it in the file it was told to,
  unless a write failed. `ProvedPairUsable`: the pair it leaves is one that verify takes.
- `LoadableBatchProves`: once its inputs load, a batch command fails only by a write, so no
  prover run is started in vain.
- `STypeOK`: a file holds a receipt only if it was proved, and a claim only of one.
- `HostAgreesWithGuest`: but for seed size and path depth, which only the guest looks at,
  the host refuses exactly what the guest would.

Each property has a mutant of the code that breaks it (PROJECT.json): a dropped check,
an unhalved index, a composite receipt let in, a missing `zkvm.Verify`.

## Findings

1. `SubtreesShareGuest` is violated (`ledger_subtrees`). The comment on
   `childBatchPolicy` promises that every child subtree was produced with the same guest
   binary. With three levels, the children's own leaf guest is the batch guest, and
   the subtrees below may differ. `GrandchildrenShareImage` is what does hold.
2. `NestedClaimsProved` is violated (`disclosure_foreign`). docs/batch-merkle-system.md:99-101 says that
   the guest of a `batch_claim_v1` parent verifies its children against the child batch guest's image ID.
   It verifies them against the image ID on its stdin (`guest_batch/main.go:126`), which neither guest nor host
   compares with the batch guest's. A foreign program that commits 84 bytes can therefore be a child,
   `VerifyBatchInclusionChain` follows its journal as the next claim without `ValidateVersion`, and the report
   shows a nested claim, possibly of a wrong version, and a record below it that no guest of the repository
   committed. The parent's claim, or the envelope in it, carries the foreign image ID; a verifier has to
   compare it himself.
3. `ArtifactsKept` is violated (`plan_names`). Position and label are joined by the same
   dash, so a child labelled `01` has the artifact name of its own second child and
   overwrites it. The chain derived afterwards is of other files than were proved.
4. `XPubTakesAStep` is violated (`leaf_xpub`). docs/claim.md says one or more hardened
   steps; the path `m/` is empty, passes the loop of `ValidateAllHardened` in host and
   guest, and gives a receipt over the parent itself.

5. `DocumentedCommandsSucceed` is violated (`make_docs`), in four ways. The quick start of the
   README proves a leaf into `hardened-xpriv-test-vector.*` and batches
   `hardened-xpriv-succinct.*` (`Makefile:34`, `Makefile:47`), so its second command finds
   no input, nor do the third and fourth.
6. The documented opt-out of BIP-86 (docs/running.md, `REQUIRE_BIP86=0` with a 44' path) fails:
   the Makefile then passes no flag and the flag's default is true (`Makefile:195`).
7. `make verify-batch` with `BATCH_INCLUSION` set always fails: the variable of the bundled
   chain has a default, both flags are passed (`Makefile:151`) and the runner takes only one.
8. The file comment of `batch_runner.go` (lines 14-16) says that deriving an inclusion proof needs only the
   claim files. It reads and verifies every receipt: played with the leaf's claim.json in place and no
   receipt, the command fails (`batch_runner.go:270`).

Findings 5 to 8 are one counterexample: `failed` in its last state names every documented command
that fails. Commands that only make what the text takes as given are played too, unnamed.

Three observations without a run. The leaf kind of a batch is compared with its leaves by size
only, so the same 72-byte journals can be batched as Taproot or as hardened-xpriv; the image
ID in the claim is what identifies them. The receipt kind of a plan defaults to composite,
with which every plan that has an inline child fails at the parent (it is among the
manifests of `plan`). A marked path component at or above 2^31 wraps to an ordinary index
(`Wrapped` in `MCLeafLane`); `ReportTruthful` therefore speaks of texts whose marked
digits are below 2^31. An index given to `--leaf-index` is cut to 32 bits, and `InputsInOrder` speaks
of those that fit. Nothing in the repository says what the other texts should mean, so these two
hazards have no property.

## Proofs

All safety properties of the passing runs are theorems; the one liveness property stays with TLC.
None of them bounds the number of leaves, levels, receipts, processes, manifests, runs, files,
lines or words.

| Theorem | States |
|---|---|
| `Guests_proofs` | |
| `VerifyProofSound`, `VerifyProofComplete`, `RootInjective` | of the functions, for every list of leaves: only what is in it at that index is accepted, what is built for a leaf is accepted, and lists with one root are equal |
| `MerkleRun_proofs` | |
| `MerkleTypeCorrect`, `MerkleComplete`, `MerkleSound` | `TypeOK`, `BuiltProofVerifies`, `AcceptedLeafIsInBatch` |
| `LoopsAreFunctions`, `RootsBindBatches` | `LoopsComputeFunctions`, `RootBindsBatch`: the loops compute what the other modules use, and a root fixes its list |
| `BatchDisclosure_proofs` | |
| `LedgerTypeCorrect`, `LedgerIsBacked`, `RootsDetermineRecords`, `GrandchildrenAreOfOneGuest` | `TypeOK` of `BatchLedger`, `LedgerBacked`, `RootDeterminesRecords`, `GrandchildrenShareImage` |
| `DisclosureTypeCorrect`, `DisclosuresAreBacked`, `NestedClaimsAreCommitted`, `DerivedProofsAreAccepted` | `DTypeOK`, `DisclosureBacked`, `NestedClaimsVerify`, `DerivedProofsVerify` |
| `BatchLane_proofs` | |
| `LaneTypeCorrect`, `LoadedIsGenuine`, `GuestAndHostAgree`, `ReportsAreBacked` | `LaneTypeOK`, `LoadedGenuine`, `GuestAgreesWithHost`, `ReportBacked` |
| `LaneImplementsLedger` | `ImplementsLedger` of `BatchLane` |
| `NestedPlan_proofs` | |
| `PlanTypeCorrect`, `PlanImplementsLedger` | `NTypeOK` and `ImplementsLedger` of `NestedPlan`, for every manifest |
| `ArtifactsAreKept`, `TopIsAsPlanned`, `ChainShowsPlan`, `OutcomeIsAsPlanned` | `ArtifactsKept`, `TopAsPlanned`, `ChainDisclosesPlan`, `OutcomeAsPlanned`, for manifests with distinct artifact bases (`DistinctArtifacts`) |
| `UnnumberedLabelsAreDistinct` | `DistinctArtifacts` holds when no label begins with a word that is an index |
| `LeafLane_proofs` | |
| `LeafTypeCorrect`, `ReceiptsTellTheTruth`, `ReportsAreTruthful`, `TruthIsAccepted`, `HostAndGuestAgree` | `LTypeOK`, `StatementsHold`, `ReportTruthful`, `TruthAccepted`, `HostAgreesWithGuest` |
| `Session_proofs` | |
| `SessionTypeCorrect`, `BatchesThatLoadProve` | `STypeOK`, `LoadableBatchProves` |
| `SessionImplementsLedger` | `ImplementsLedger` of `Session` |
| `VerifiedIsAsTyped`, `ChainsReachWitnesses`, `InputsAreInOrder`, `ProvedIsKept`, `ProvedPairIsUsable` | `VerifiedAsTyped`, `ChainReachesWitness`, `InputsInOrder`, `ProofsAreKept`, `ProvedPairUsable` |

*Assumptions* are those on the constants, which TLC evaluates on every run. Batches are
nonempty sequences (`BatchesAssumption`) and a presented index is a natural
(`LeafIndicesAssumption`); 2^31 and 86 are naturals, the second below the first
(`IndicesAssumption`); the default seed is one the guests take (`TestVectorAssumption`); image IDs of the guests differ from each
other and from the foreign ones (`ImagesAssumption`); the batch claims that foreign programs start out with
are batch claims, of any content (`ForgedAssumption`); what is given is a receipt of a leaf guest or of a foreign program, or, in `Session`, what a leaf guest
proved from a stdin it accepts (`GivenAssumption`), and files that are there at the start hold
receipts that are given (`GivenSlotsAssumption`); the two receipt kinds are those of the
code (`ReceiptKindsAssumption`); lanes, witnesses, stdins and expectations have their form, in
particular a path is of 32-bit words (`LanesAssumption`, `WitnessesAssumption`,
`ForeignAssumption`, `ExpectationsAssumption`); a text that is a path is a list of digits and
marks, one that is a number is a number (`TextsAssumption`); a line is a list of words, gives no
`--guest`, and is not `run-nested-batch-plan` (`LinesAssumption`); a manifest is a finite tree, no node of
which has more leaves than there are index words, and names a receipt kind or none
(`PlansAssumption`); different indices are printed differently (`IndexWordsAssumption`); the
manifests' leaves are files with receipts that are given, or missing, and lie where no
node is written (`ExternalAssumption`, `OutputDirAssumption`); the bounds are numbers, and no
line has more inputs than `MaxLeaves` (`BoundsAssumption`, the latter for the refinement only).

*Recursion.* Root, proofs, chains of claims, files after some writes and the rounds of the flag
parser are recursive functions. `NatRecursion` shows once, from the library's theorem that `<` is
well-founded on the naturals, that such a function unfolds; what is proved of all its values goes by
the induction of a set (`SetInduction`): the numbers for which the statement holds contain 0
and every successor, so they are all.

*The tree.* `AcceptedLeafIsInBatch` speaks of the end of the second loop and is far from
inductive. `MerkleInv` adds the history of the first loop (each level is `NextLevel` of the
one before, each index half the one before, each sibling the node it took) and, for the
second loop, that what has been computed so far is a digest of a path that starts at
`proof.leafIndex`. Soundness then goes down from the root: a digest that equals a node
of the trail has, by the ideal hash, the children of that node, so the walk retraces
the trail, and at the bottom the leaf hash holds index and claim. A path that is
too short or too long would make a leaf hash equal an inner one. Completeness goes up:
at each round `current` is the node of that level. The trail is a history variable
for this reason: with `nodes` alone, the lower levels are gone when they are needed.
`Guests_proofs` has the same two facts of the functions, by induction over the levels.

*The ledger and what is disclosed of it.* `Sound` says that the guest accepts every opening on
the receipts there are, and that every receipt of the batch guest is of an opening; of the others it
says no more than a leaf guest's journal size, and nothing of a foreign program's. Every guest
run keeps it, because the guest accepts no less on more receipts (`GuestAcceptsGrows`). With it, an
accepted inclusion proof shows a record of the opening (`InclusionSound`, from the tree) and, if the record's image
ID is the batch guest's, the nested claim in it is again that of an opening (`AttestedBatch`).
`ChainSound` is the induction over the levels, each of which has the condition on the image IDs above it.
Where no foreign receipt exists, as in `Session`, an attested journal of 84 bytes is the batch guest's
and the condition always holds (`OwnChainSound`).

*The batch lane.* What a process knows is inductive only as far as it stays true whatever the
others write. `LaneInv` says of files no more than that a readable receipt file holds a receipt
that exists; of a process, that each entry it has loaded is of a receipt that exists, that agrees with
the claim read before (`LoadedOK`), that a receipt it is about to write exists, and that every
claim it reports is of a receipt. Receipts and openings are only added, so no step of another
process disturbs that. The refinement is by cases on the step: `ProveBatch` and `ProveLeaf` are runs of
the ledger's guests, the records being among those that the ledger may be given, and all
others leave it alone.

*The leaf lanes.* `LeafInv` says that every receipt, in the ledger, in a file or in the hands of a
process, is of a witness that its guest took (`Genuine`), and that every readable claim.json
was written from one. The receipt and the claim.json that a process holds may be of two runs; only
the comparison of `Verify` brings them together (`FileMatches`: a claim.json fixes image and
journal). `HostAndGuestAgree` is about operators only: the two checks of the BIP-86 shape, of the hardened
steps and of the parent key are compared for all paths.

*Sessions.* First the parser: by induction over its rounds, what it has set is what was typed up
to the first stray word (`ParserReads`), and it takes every line whose flags it knows and whose
texts they take (`ParserAccepts`). Then the files: `DiskOK` holds for every path whatever was
written over it, for every command writes only what was proved; `ProofsOK` relates the ledger
to the openings (`Sound`, without the hardened-xpub receipts, which no batch loads because of their
73 bytes) and to the witnesses. The properties of the last command follow from
this invariant before it and the words of that command. `ProvedPairUsable` needs one more
invariant, `PairLeft`: what the two files hold after a command that proved.

*Nested plans.* Five invariants, each over the ones before. `ShapeInv` is about the recursion alone:
each call on the stack is of the child at which its caller stands, has resolved a prefix of
its leaves as `resolveNestedBatchLeaf` would, and every inline child it has passed is resolved; what is
resolved is closed under inline children and hangs together from below (`Passed`), so that once
the root is, the whole tree is. `ReceiptInv` adds `Sound`, and that every receipt file that can be
read holds a receipt that exists. These two hold whatever the nodes are named, and give
`NTypeOK` and the refinement: the records that the loader hands to the guest are among those of
the ledger's guest run.

`ArtifactInv` says that the files of every resolved node hold the receipt and the claim that the manifest
determines. It needs `DistinctArtifacts`, and `plan_names` shows that it does not hold
without: a node then writes over another one's files. With it, a write touches no other node's
files (`WriteTouchesOwn`), so a node loads exactly what is planned for its children
(`LoadedAsPlanned`), which the guest takes exactly when `NodeProvable` says so
(`AcceptedIffProvable`). `PlannedClaims` is a recursive function over the paths of a manifest; that it
satisfies its equation rests on the manifest being a finite tree (`PlannedClaimsUnfold`). `ChainInv`
follows the walk: each level derived so far has its planned proof in its file, and the walk
stands at a resolved node. From the three follow `TopAsPlanned` and, with the completeness
of the tree level by level, `ChainDisclosesPlan`. `OutcomeInv` is the half of `OutcomeAsPlanned` about failing
runs; each action that fails is matched to a node that is not provable or a level that is not there,
and the final verification is shown never to fail (`VerifyFinalPasses`). All five were first checked by TLC
as invariants of the run `plan`.

`UnnumberedLabelsAreDistinct` is what a user of the wrapper needs to know: two nodes can have the
same base only if some label begins with a word that is an index, as `01` in `plan_names`.

*Only model-checked:* liveness under fairness (`AchievablePlanCompletes`) and ENABLED, which are beyond
the prover, and the findings, which are counterexamples.

## Not modelled

- Curve and HMAC arithmetic and byte layouts: no state, and outside what TLC can compute; the
  tests hold them against external vectors. Keys that are out of range with probability 2^-127.
- Printing, the wording of errors, and of JSON whatever is not said above (unknown fields, hand-made
  files that no command writes: `BatchDisclosure` alters proofs, `Session` only misplaces them).
- A `--guest` other than the lane's default: every invocation has the image of its lane. What a program of
  somebody else commits enters as a receipt (`ForeignImages`), not as a command.
- Characters: a path text, a key or a number is a string with a given meaning.
- `run-nested-batch-plan` within `Session`: it is `NestedPlan`, one command by itself.
- The parts of the Makefile that build, lint and format, and CI: no state of the program.
- A liveness property of `BatchLane`: that an invocation that is not killed ends. Its steps are a
  short sequence with loops over finite lists and wait for nobody, while its state graph with
  concurrent processes is too large for TLC to check liveness on.

## Plan

1. Done: all modules above and their proofs.
2. A guest given by `--guest`.
