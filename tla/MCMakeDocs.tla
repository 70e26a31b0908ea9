----------------------------- MODULE MCMakeDocs -----------------------------
(* The documented commands, in the order of the documentation but for the  *)
(* README's quick start, which starts from nothing.  Indices are scaled    *)
(* like those of the other runs, 44 to 1.                                  *)
EXTENDS MakeSession

n(d) == [digits |-> d, hardened |-> FALSE]
h(d) == [digits |-> d, hardened |-> TRUE]

MCPathTexts ==
  [text \in {"86',0',0',0,0", "44',0',0',0,0"} |->
     [given |-> TRUE,
      steps |-> <<h(IF text = "86',0',0',0,0" THEN 2 ELSE 1), h(0), h(0), n(0), n(0)>>]]

MCHexTexts ==
  [text \in {"pubkey"} |->
     TaprootOutputKey(DeriveRelative(MasterKey(DefaultSeed), DefaultBIP32Path))]

MCUintTexts == [text \in {"0", "1"} |-> IF text = "0" THEN 0 ELSE 1]

NoVars == [name \in {} |-> <<>>]
Doc(where, target, vars) == [doc |-> where, target |-> target, vars |-> vars]
Prepare(target, vars)    == Doc("", target, vars)

Seed(path, policy) ==
  [PRIV_SEED_HEX |-> <<DefaultSeed>>, BIP32_PATH |-> <<path>>, REQUIRE_BIP86 |-> <<policy>>]

ChildBatch(name) ==
  <<Prepare("prove-batch", [BATCH_RECEIPT |-> <<name \o ".receipt">>,
                            BATCH_CLAIM |-> <<name \o ".claim.json">>,
                            RECEIPT_KIND |-> <<"succinct">>])>>

QuickStart ==
  <<Doc("README.md:337", "prove-hardened-xpriv", [RECEIPT_KIND |-> <<"succinct">>]),
    Doc("README.md:338", "prove-batch", NoVars),
    Doc("README.md:339", "derive-batch-inclusion", NoVars),
    Doc("README.md:340", "verify-batch",
        [BATCH_INCLUSION |-> <<"hardened-xpriv-batch.inclusion.json">>])>>

Leaves ==
  <<Doc("docs/running.md:149", "execute", NoVars),
    Doc("docs/running.md:155", "execute", Seed("86',0',0',0,0", "1")),
    Doc("docs/running.md:164", "prove", Seed("44',0',0',0,0", "0")),
    Doc("docs/running.md:181", "prove", [RECEIPT_KIND |-> <<"succinct">>]),
    Doc("docs/running.md:187", "prove", Seed("86',0',0',0,0", "1")),
    Doc("docs/running.md:203", "verify", NoVars),
    Doc("docs/running.md:210", "verify",
        [PUBKEY |-> <<"pubkey">>, BIP32_PATH |-> <<"86',0',0',0,0">>, REQUIRE_BIP86 |-> <<"1">>]),
    Doc("docs/running.md:219", "verify",
        [CLAIM |-> <<>>, PUBKEY |-> <<"pubkey">>, BIP32_PATH |-> <<"86',0',0',0,0">>,
         REQUIRE_BIP86 |-> <<"1">>])>>

Batches ==
  <<Prepare("prove-hardened-xpriv",
            [RECEIPT_KIND |-> <<"succinct">>,
             HARDENED_XPRIV_RECEIPT |-> <<"hardened-xpriv-succinct.receipt">>,
             HARDENED_XPRIV_CLAIM |-> <<"hardened-xpriv-succinct.claim.json">>]),
    Doc("docs/running.md:252", "execute-batch", NoVars),
    Doc("docs/running.md:253", "prove-batch", NoVars),
    Doc("docs/running.md:254", "derive-batch-inclusion", NoVars),
    \* no such receipt is ever written
    Doc("batch_runner.go:14", "derive-batch-inclusion",
        [BATCH_LEAF_RECEIPTS |-> <<"missing.receipt">>,
         BATCH_INCLUSION_OUT |-> <<"claims-only.inclusion.json">>]),
    Doc("docs/running.md:255", "verify-batch",
        [BATCH_INCLUSION |-> <<"hardened-xpriv-batch.inclusion.json">>]),
    Prepare("prove", [RECEIPT_KIND |-> <<"succinct">>, RECEIPT |-> <<"bip32-succinct.receipt">>,
                      CLAIM |-> <<"bip32-succinct.claim.json">>]),
    Doc("docs/running.md:277", "prove-batch",
        [BATCH_LEAF_KIND |-> <<"taproot">>,
         BATCH_LEAF_CLAIMS |-> <<"bip32-succinct.claim.json", "bip32-succinct.claim.json">>,
         BATCH_LEAF_RECEIPTS |-> <<"bip32-succinct.receipt", "bip32-succinct.receipt">>,
         BATCH_RECEIPT |-> <<"taproot-batch.receipt">>,
         BATCH_CLAIM |-> <<"taproot-batch.claim.json">>])>>

Children ==
  [PARENT_BATCH_CHILD_CLAIMS |-> <<"child-a.claim.json", "child-b.claim.json">>,
   PARENT_BATCH_CHILD_RECEIPTS |-> <<"child-a.receipt", "child-b.receipt">>]

Nested ==
  ChildBatch("child-a") \o ChildBatch("child-b") \o
  <<Prepare("derive-batch-inclusion", [BATCH_INCLUSION_OUT |-> <<"child-b.inclusion.json">>]),
    Doc("docs/running.md:341", "prove-parent-batch",
        Children @@ [RECEIPT_KIND |-> <<"succinct">>, PARENT_BATCH_RECEIPT |-> <<"parent.receipt">>,
                     PARENT_BATCH_CLAIM |-> <<"parent.claim.json">>]),
    Doc("docs/running.md:349", "derive-parent-batch-inclusion",
        Children @@ [PARENT_BATCH_INCLUSION_OUT |-> <<"parent.inclusion.json">>,
                     PARENT_BATCH_LEAF_INDEX |-> <<"1">>]),
    Doc("docs/running.md:356", "bundle-batch-inclusion-chain",
        [BATCH_INCLUSIONS |-> <<"parent.inclusion.json", "child-b.inclusion.json">>,
         BATCH_INCLUSION_CHAIN |-> <<"parent.chain.json">>]),
    Doc("docs/running.md:361", "verify-nested-batch",
        [PARENT_BATCH_RECEIPT |-> <<"parent.receipt">>,
         PARENT_BATCH_CLAIM |-> <<"parent.claim.json">>,
         BATCH_INCLUSION_CHAIN |-> <<"parent.chain.json">>])>>

MixedVars ==
  [BATCH_LEAF_KIND |-> <<"heterogeneous-envelope-v1">>,
   BATCH_LEAF_CLAIMS |-> <<"hardened-xpriv-succinct.claim.json", "child-a.claim.json">>,
   BATCH_LEAF_RECEIPTS |-> <<"hardened-xpriv-succinct.receipt", "child-a.receipt">>,
   BATCH_DIRECT_LEAF_KINDS |-> <<"hardened-xpriv", "batch-claim-v1">>]

MixedParent ==
  <<Doc("docs/running.md:420", "prove-batch",
        MixedVars @@ [RECEIPT_KIND |-> <<"succinct">>, BATCH_RECEIPT |-> <<"mixed.receipt">>,
                      BATCH_CLAIM |-> <<"mixed.claim.json">>]),
    Doc("docs/running.md:429", "derive-batch-inclusion",
        MixedVars @@ [BATCH_LEAF_INDEX |-> <<"1">>, BATCH_INCLUSION_OUT |-> <<"mixed.inclusion.json">>])>>

MCScript == QuickStart \o Leaves \o Batches \o Nested \o MixedParent
MCLines  == {MakeLine(s.target, s.vars) : s \in Range(MCScript)}
=============================================================================
