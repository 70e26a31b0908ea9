---------------------------- MODULE MakeTargets -----------------------------
(***************************************************************************)
(* The Makefile's targets that run the host: from the variables a user     *)
(* sets on the line of make to the words of the command (--guest, always   *)
(* the lane's own binary, is left out).  A variable is the sequence of its *)
(* words; an expansion that is empty leaves no word, unless it is quoted.  *)
(* The artifact directory is left out of the paths.                        *)
(***************************************************************************)
EXTENDS CommandLine

(* The lower-case variable that some variables take their value from.      *)
Aliases ==
  [PRIV_SEED_HEX |-> "priv_seed", BIP32_PATH |-> "bip_32_path", PUBKEY |-> "pubkey",
   PATH_COMMITMENT |-> "path_commitment", PARENT_XPRIV_HEX |-> "parent_xpriv",
   PARENT_CHAIN_CODE_HEX |-> "parent_chain_code", HARDENED_PATH |-> "hardened_path",
   EXPECTED_COMPRESSED_PUBKEY |-> "expected_compressed_pubkey",
   EXPECTED_CHILD_PRIVATE_KEY |-> "expected_child_private_key",
   EXPECTED_CHAIN_CODE |-> "expected_chain_code", RECEIPT_KIND |-> "receipt_kind",
   BATCH_LEAF_KIND |-> "leaf_kind", BATCH_LEAF_CLAIMS |-> "leaf_claims",
   BATCH_LEAF_RECEIPTS |-> "leaf_receipts", BATCH_DIRECT_LEAF_KINDS |-> "direct_leaf_kinds",
   BATCH_LEAF_INDEX |-> "leaf_index", BATCH_INCLUSION |-> "batch_inclusion",
   BATCH_INCLUSIONS |-> "batch_inclusions",
   BATCH_INCLUSION_CHAIN |-> "batch_inclusion_chain",
   BATCH_INCLUSION_OUT |-> "batch_inclusion_out",
   PARENT_BATCH_RECEIPT |-> "parent_batch_receipt",
   PARENT_BATCH_CLAIM |-> "parent_batch_claim",
   PARENT_BATCH_INCLUSION_OUT |-> "parent_batch_inclusion_out",
   PARENT_BATCH_LEAF_INDEX |-> "parent_batch_leaf_index",
   PARENT_BATCH_CHILD_CLAIMS |-> "parent_batch_child_claims",
   PARENT_BATCH_CHILD_RECEIPTS |-> "parent_batch_child_receipts"]

(* What a variable is when neither it nor its alias is set; <<>> if not    *)
(* listed.                                                                 *)
Defaults ==
  [RECEIPT |-> <<"bip32-test-vector.receipt">>,
   CLAIM |-> <<"bip32-test-vector.claim.json">>,
   BATCH_RECEIPT |-> <<"hardened-xpriv-batch.receipt">>,
   BATCH_CLAIM |-> <<"hardened-xpriv-batch.claim.json">>,
   BATCH_INCLUSION_CHAIN |-> <<"batch.inclusion-chain.json">>,
   BATCH_INCLUSION_OUT |-> <<"hardened-xpriv-batch.inclusion.json">>,
   PARENT_BATCH_RECEIPT |-> <<"parent-batch.receipt">>,
   PARENT_BATCH_CLAIM |-> <<"parent-batch.claim.json">>,
   PARENT_BATCH_INCLUSION_OUT |-> <<"parent-batch.inclusion.json">>,
   PARENT_BATCH_LEAF_INDEX |-> <<"0">>,
   PARENT_BATCH_CHILD_CLAIMS |->
     <<"child-a.claim.json", "child-b.claim.json">>,
   PARENT_BATCH_CHILD_RECEIPTS |->
     <<"child-a.receipt", "child-b.receipt">>,
   HARDENED_XPUB_RECEIPT |-> <<"hardened-xpub-test-vector.receipt">>,
   HARDENED_XPUB_CLAIM |-> <<"hardened-xpub-test-vector.claim.json">>,
   HARDENED_XPRIV_RECEIPT |-> <<"hardened-xpriv-test-vector.receipt">>,
   HARDENED_XPRIV_CLAIM |-> <<"hardened-xpriv-test-vector.claim.json">>,
   BATCH_LEAF_KIND |-> <<"hardened-xpriv">>,
   BATCH_LEAF_CLAIMS |->
     <<"hardened-xpriv-succinct.claim.json", "hardened-xpriv-succinct.claim.json">>,
   BATCH_LEAF_RECEIPTS |->
     <<"hardened-xpriv-succinct.receipt", "hardened-xpriv-succinct.receipt">>,
   BATCH_LEAF_INDEX |-> <<"0">>,
   REQUIRE_BIP86 |-> <<"1">>,
   RECEIPT_KIND |-> <<"composite">>]

TRUTHY_VALUES == {"1", "true", "TRUE", "yes", "YES", "y", "Y", "on", "ON"}

-----------------------------------------------------------------------------
(* vars is what the user set: [variable -> words], on a set of variables.  *)

Value(vars, name) ==
  IF name \in DOMAIN vars THEN vars[name]
  ELSE IF /\ name \in DOMAIN Aliases
          /\ Aliases[name] \in DOMAIN vars
          /\ vars[Aliases[name]] # <<>>
       THEN vars[Aliases[name]]
  ELSE IF name \in DOMAIN Defaults THEN Defaults[name] ELSE <<>>

BATCH_INCLUSIONS(vars) ==
  IF "BATCH_INCLUSIONS" \in DOMAIN vars \/ Value(vars, "BATCH_INCLUSIONS") # <<>>
  THEN Value(vars, "BATCH_INCLUSIONS") ELSE Value(vars, "BATCH_INCLUSION")

Plains(texts) == [i \in 1..Len(texts) |-> Plain(texts[i])]

\* --flag $(VAR), $(if $(strip $(VAR)),--flag $(VAR),), --flag "$(VAR)"
Set(flag, texts)    == <<Flag(flag)>> \o Plains(texts)
IfSet(flag, texts)  == IF texts = <<>> THEN <<>> ELSE Set(flag, texts)
Quoted(flag, texts) == <<Flag(flag), IF texts = <<>> THEN Plain("") ELSE Plain(texts[1])>>

\* $(foreach text,$(VAR),--flag $(text))
Each(flag, texts) == FlattenSeq([i \in 1..Len(texts) |-> <<Flag(flag), Plain(texts[i])>>])

RequireBIP86(vars) == Range(Value(vars, "REQUIRE_BIP86")) \cap TRUTHY_VALUES # {}

witness_args(vars) ==
  (IF Value(vars, "PRIV_SEED_HEX") # <<>>
   THEN Set("seed-hex", Value(vars, "PRIV_SEED_HEX")) \o Quoted("path", Value(vars, "BIP32_PATH"))
   ELSE <<Flag("use-test-vector")>>)
  \o (IF RequireBIP86(vars) THEN <<Flag("require-bip86")>> ELSE <<>>)

verify_args(vars) ==
  IfSet("expected-pubkey", Value(vars, "PUBKEY"))
  \o IfSet("expected-path-commitment", Value(vars, "PATH_COMMITMENT"))
  \o (IF Value(vars, "BIP32_PATH") = <<>> THEN <<>>
      ELSE Quoted("expected-path", Value(vars, "BIP32_PATH")))
  \o Set("require-bip86", IF RequireBIP86(vars) THEN <<"true">> ELSE <<"false">>)

\* hardened_xpub_witness_args and hardened_xpriv_witness_args
hardened_witness_args(vars) ==
  IF Value(vars, "PARENT_XPRIV_HEX") # <<>>
  THEN Set("parent-xpriv-hex", Value(vars, "PARENT_XPRIV_HEX"))
       \o Set("parent-chain-code-hex", Value(vars, "PARENT_CHAIN_CODE_HEX"))
       \o Quoted("path", Value(vars, "HARDENED_PATH"))
  ELSE <<Flag("use-test-vector")>>

hardened_xpub_verify_args(vars) ==
  IfSet("expected-compressed-pubkey", Value(vars, "EXPECTED_COMPRESSED_PUBKEY"))
  \o IfSet("expected-chain-code", Value(vars, "EXPECTED_CHAIN_CODE"))

hardened_xpriv_verify_args(vars) ==
  IfSet("expected-child-private-key", Value(vars, "EXPECTED_CHILD_PRIVATE_KEY"))
  \o IfSet("expected-chain-code", Value(vars, "EXPECTED_CHAIN_CODE"))

batch_leaf_args(vars) ==
  Each("leaf-claim", Value(vars, "BATCH_LEAF_CLAIMS"))
  \o Each("leaf-receipt", Value(vars, "BATCH_LEAF_RECEIPTS"))

batch_direct_leaf_args(vars) ==
  Each("direct-leaf-kind", Value(vars, "BATCH_DIRECT_LEAF_KINDS"))

batch_inclusion_args(vars) == Each("inclusion-in", BATCH_INCLUSIONS(vars))

parent_batch_leaf_args(vars) ==
  Each("leaf-claim", Value(vars, "PARENT_BATCH_CHILD_CLAIMS"))
  \o Each("leaf-receipt", Value(vars, "PARENT_BATCH_CHILD_RECEIPTS"))

-----------------------------------------------------------------------------
(* The commands of the targets *)

Proof(vars, receipt, claim) ==
  Set("receipt-kind", Value(vars, "RECEIPT_KIND"))
  \o Set("receipt-out", Value(vars, receipt)) \o Set("claim-out", Value(vars, claim))

Proved(vars, receipt, claim) ==
  Set("receipt-in", Value(vars, receipt)) \o IfSet("claim-in", Value(vars, claim))

Inputs(vars) ==
  Set("leaf-kind", Value(vars, "BATCH_LEAF_KIND"))
  \o batch_leaf_args(vars) \o batch_direct_leaf_args(vars)

ParentInputs(vars) ==
  Set("leaf-kind", <<"batch-claim-v1">>) \o parent_batch_leaf_args(vars)

Chain(vars) == IfSet("inclusion-chain-in", Value(vars, "BATCH_INCLUSION_CHAIN"))

Recipe(target, vars) ==
  CASE target = "execute" -> witness_args(vars)
    [] target = "prove" -> witness_args(vars) \o Proof(vars, "RECEIPT", "CLAIM")
    [] target = "verify" -> Proved(vars, "RECEIPT", "CLAIM") \o verify_args(vars)
    [] target = "execute-batch" -> Inputs(vars)
    [] target = "prove-batch" -> Inputs(vars) \o Proof(vars, "BATCH_RECEIPT", "BATCH_CLAIM")
    [] target = "verify-batch" ->
         Proved(vars, "BATCH_RECEIPT", "BATCH_CLAIM")
           \o batch_inclusion_args(vars) \o Chain(vars)
    [] target = "derive-batch-inclusion" ->
         Inputs(vars) \o Set("leaf-index", Value(vars, "BATCH_LEAF_INDEX"))
           \o Set("proof-out", Value(vars, "BATCH_INCLUSION_OUT"))
    [] target = "bundle-batch-inclusion-chain" ->
         batch_inclusion_args(vars) \o Set("chain-out", Value(vars, "BATCH_INCLUSION_CHAIN"))
    [] target = "prove-parent-batch" ->
         ParentInputs(vars) \o Proof(vars, "PARENT_BATCH_RECEIPT", "PARENT_BATCH_CLAIM")
    [] target = "derive-parent-batch-inclusion" ->
         ParentInputs(vars) \o Set("leaf-index", Value(vars, "PARENT_BATCH_LEAF_INDEX"))
           \o Set("proof-out", Value(vars, "PARENT_BATCH_INCLUSION_OUT"))
    [] target = "verify-nested-batch" ->
         Proved(vars, "PARENT_BATCH_RECEIPT", "PARENT_BATCH_CLAIM") \o Chain(vars)
    [] target \in {"execute-hardened-xpub", "execute-hardened-xpriv"} ->
         hardened_witness_args(vars)
    [] target = "prove-hardened-xpub" ->
         hardened_witness_args(vars)
           \o Proof(vars, "HARDENED_XPUB_RECEIPT", "HARDENED_XPUB_CLAIM")
    [] target = "prove-hardened-xpriv" ->
         hardened_witness_args(vars)
           \o Proof(vars, "HARDENED_XPRIV_RECEIPT", "HARDENED_XPRIV_CLAIM")
    [] target = "verify-hardened-xpub" ->
         Proved(vars, "HARDENED_XPUB_RECEIPT", "HARDENED_XPUB_CLAIM")
           \o hardened_xpub_verify_args(vars)
    [] target = "verify-hardened-xpriv" ->
         Proved(vars, "HARDENED_XPRIV_RECEIPT", "HARDENED_XPRIV_CLAIM")
           \o hardened_xpriv_verify_args(vars)

HostCommand(target) ==
  CASE target = "prove-parent-batch"            -> "prove-batch"
    [] target = "derive-parent-batch-inclusion" -> "derive-batch-inclusion"
    [] target = "verify-nested-batch"           -> "verify-batch"
    [] OTHER                                    -> target

MakeLine(target, vars) ==
  [command |-> HostCommand(target), argv |-> Recipe(target, vars)]
=============================================================================
