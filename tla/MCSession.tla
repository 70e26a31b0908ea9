----------------------------- MODULE MCSession ------------------------------
(* Bounds for TLC, with 2^31 scaled to 4 and 86 to 2: some forty lines     *)
(* over a dozen paths.  The leaves t (Taproot) and p (hardened-xpriv) were *)
(* proved earlier; lines overwrite a, b, B, i, j and k with one thing and  *)
(* another.                                                                *)
EXTENDS Session

\* --name text, for each pair
With(pairs) == FlattenSeq([i \in 1..Len(pairs) |-> <<Flag(pairs[i][1]), Plain(pairs[i][2])>>])
Line(command, argv) == [command |-> command, argv |-> argv]

n(d) == [digits |-> d, hardened |-> FALSE]
h(d) == [digits |-> d, hardened |-> TRUE]
Path(steps) == [given |-> TRUE, steps |-> steps]

MCPathTexts ==
  [text \in {"m/86'/0'/0'/0/0", "m/44'", "m/1'"} |->
     CASE text = "m/86'/0'/0'/0/0" -> Path(<<h(2), h(0), h(0), n(0), n(0)>>)
       [] text = "m/44'"           -> Path(<<h(0)>>)
       [] text = "m/1'"            -> Path(<<h(1)>>)]

Vector == [flags |-> 1, seed |-> DefaultSeed, path |-> DefaultBIP32Path]
Reduced == [parent |-> Parent("key", "chain"), index |-> 5]

MCHexTexts ==
  [text \in {"vector pubkey", "child key"} |->
     IF text = "vector pubkey"
     THEN TaprootOutputKey(Child("taproot", Vector))
     ELSE PrivateKey(Child("xpriv", Reduced))]

MCUintTexts == [text \in {"1", "4294967296"} |-> IF text = "1" THEN 1 ELSE 8]

MCGiven ==
  {[lane |-> "taproot", stdin |-> Vector, kind |-> "succinct",
    receipt |-> "t.receipt", claim |-> "t.json"],
   [lane |-> "xpriv", stdin |-> Reduced, kind |-> "succinct",
    receipt |-> "p.receipt", claim |-> "p.json"]}

-----------------------------------------------------------------------------
Succinct  == With(<<<<"receipt-kind", "succinct">>>>)
Out(name, claim) == With(<<<<"receipt-out", name>>, <<"claim-out", claim>>>>)
Leaf(claim, receipt) == With(<<<<"leaf-claim", claim>>, <<"leaf-receipt", receipt>>>>)
Direct(kinds) == With([i \in 1..Len(kinds) |-> <<"direct-leaf-kind", kinds[i]>>])
Kind(name) == <<FlagEq("leaf-kind", name)>>

T == Leaf("t.json", "t.receipt")
P == Leaf("p.json", "p.receipt")
A == Leaf("a.json", "a.receipt")
B == Leaf("b.json", "b.receipt")

Mixed    == Kind("heterogeneous") \o Direct(<<"taproot", "hardened-xpriv">>) \o T \o P
Crossed  == Kind("heterogeneous") \o Direct(<<"hardened-xpriv", "taproot">>) \o T \o A
Misnamed == Kind("heterogeneous") \o Direct(<<"taproot", "batch-claim">>) \o T \o A
Parents  == Kind("batch-claim-v1") \o B
Above    == Kind("heterogeneous-envelope-v1") \o Direct(<<"batch-claim-v1", "taproot">>) \o B \o T

XPrivWitness ==
  With(<<<<"parent-xpriv-hex", "key">>, <<"parent-chain-code-hex", "chain">>,
         <<"path", "m/1'">>>>)

Provers ==
  {\* leaves
   Line("prove", <<Flag("use-test-vector")>> \o Succinct \o Out("a.receipt", "a.json")),
   Line("prove", <<Flag("use-test-vector")>> \o Out("a.receipt", "a.json")
                   \o <<Flag("require-bip86"), Plain("false")>>),
   Line("prove", With(<<<<"seed-hex", "seed">>, <<"path", "m/44'">>>>) \o Succinct
                   \o <<FlagEq("require-bip86", "false")>> \o Out("a.receipt", "a.json")),
   Line("prove", <<Flag("use-test-vector")>> \o Succinct \o Out("b.json", "b.json")),
   Line("prove-hardened-xpriv", XPrivWitness \o Succinct \o Out("a.receipt", "a.json")),
   Line("prove-hardened-xpub", <<Flag("use-test-vector")>> \o Succinct \o Out("a.receipt", "a.json")),
   \* batches
   Line("prove-batch", Kind("taproot") \o T \o A \o Succinct \o Out("b.receipt", "b.json")),
   Line("prove-batch", T \o Out("b.receipt", "b.json")),
   Line("prove-batch", Mixed \o Succinct \o Out("b.receipt", "b.json")),
   Line("prove-batch", Crossed \o Succinct \o Out("b.receipt", "b.json")),
   Line("prove-batch", Misnamed \o Succinct \o Out("b.receipt", "b.json")),
   Line("prove-batch", Parents \o Succinct \o Out("B.receipt", "B.json")),
   Line("prove-batch", Above \o Succinct \o Out("B.receipt", "B.json"))}

Disclosures ==
  {Line("derive-batch-inclusion", Mixed \o With(<<<<"leaf-index", "1">>, <<"proof-out", "i.json">>>>)),
   Line("derive-batch-inclusion", Kind("taproot") \o T \o A
          \o With(<<<<"leaf-index", "1">>, <<"proof-out", "i.json">>>>)),
   Line("derive-batch-inclusion", Parents
          \o With(<<<<"leaf-index", "4294967296">>, <<"proof-out", "j.json">>>>)),
   Line("derive-batch-inclusion", Above \o With(<<<<"proof-out", "j.json">>>>)),
   Line("bundle-batch-inclusion-chain",
        With(<<<<"inclusion-in", "j.json">>, <<"inclusion-in", "i.json">>,
               <<"chain-out", "k.json">>>>)),
   Line("bundle-batch-inclusion-chain",
        With(<<<<"inclusion-in", "b.json">>, <<"chain-out", "i.json">>>>))}

In(receipt, claim) == With(<<<<"receipt-in", receipt>>, <<"claim-in", claim>>>>)

Readers ==
  {\* of leaves
   Line("execute", <<Flag("use-test-vector")>>),
   Line("execute-hardened-xpriv", XPrivWitness),
   Line("execute-hardened-xpub", <<Flag("use-test-vector"), Flag("seed-hex")>>),
   Line("verify", In("a.receipt", "a.json")),
   Line("verify", In("a.receipt", "t.json") \o <<FlagEq("require-bip86", "true")>>),
   Line("verify", In("a.receipt", "a.json") \o With(<<<<"require-bip86", "false">>>>)),
   Line("verify", With(<<<<"receipt-in", "a.receipt">>>>)),
   Line("verify", With(<<<<"receipt-in", "a.receipt">>>> ) \o <<Plain("json")>>
                    \o With(<<<<"expected-path", "m/44'">>>>)),
   Line("verify", With(<<<<"receipt-in", "b.json">>, <<"expected-pubkey", "vector pubkey">>,
                         <<"expected-path", "m/86'/0'/0'/0/0">>>>)),
   Line("verify-hardened-xpriv", In("a.receipt", "a.json")),
   Line("verify-hardened-xpriv", With(<<<<"receipt-in", "p.receipt">>,
                                        <<"expected-child-private-key", "child key">>>>)),
   Line("verify-hardened-xpub", In("a.receipt", "a.json")),
   \* of batches
   Line("execute-batch", Mixed),
   Line("execute-batch", Misnamed),
   Line("execute-batch", Kind("heterogeneous") \o Direct(<<"taproot">>) \o T \o P),
   Line("verify-batch", In("b.receipt", "b.json")),
   Line("verify-batch", In("b.receipt", "b.json") \o With(<<<<"inclusion-in", "i.json">>>>)),
   Line("verify-batch", In("b.receipt", "b.json") \o With(<<<<"inclusion-chain-in", "i.json">>>>)),
   Line("verify-batch", With(<<<<"receipt-in", "B.receipt">>, <<"inclusion-in", "j.json">>,
                               <<"inclusion-in", "i.json">>>>)),
   Line("verify-batch", With(<<<<"receipt-in", "B.receipt">>, <<"inclusion-in", "B.json">>>>)),
   Line("verify-batch", With(<<<<"receipt-in", "B.receipt">>,
                               <<"inclusion-chain-in", "k.json">>>>)),
   Line("verify-batch", With(<<<<"receipt-in", "B.receipt">>, <<"inclusion-in", "j.json">>,
                               <<"inclusion-chain-in", "k.json">>>>)),
   \* of neither
   Line("prove-batches", <<>>)}

MCLines == Provers \cup Disclosures \cup Readers

CONSTANTS MaxFaultyWrites    \* bound on the writing commands when a write failed

\* a line that only reads, or is refused, ends the session; the last write
\* is one of a disclosure
MCNext ==
  /\ last.line \notin Readers
  /\ last.exit = 0 \/ faults = MaxFaults
  /\ Next
  /\ faults' = MaxFaults => writes' <= MaxFaultyWrites
  /\ writes' = MaxWrites /\ writes < MaxWrites => last'.line \in Disclosures
MCSpec == Init /\ [][MCNext]_sessionVars
=============================================================================
