---------------------------- MODULE MCNestedPlan ----------------------------
(* The manifests that TLC runs: trees of up to three levels over four      *)
(* leaves on disk, of two guests, a composite one, and the batch claim of  *)
(* a foreign program.  They are written as nested nodes, the way the       *)
(* manifest is, and laid out by path.                                      *)
EXTENDS NestedPlan

MCLeaf(image, body, kind) == [image |-> image, journal |-> LeafJournal(body), kind |-> kind]

MCIndexWords == <<"00", "01", "02", "03">>

(* A batch of leaves that nobody proved, of a version nobody accepts.      *)
MCForged ==
  {Encode([GuestClaim(LeafKindHardenedXPriv, "xpriv", <<LeafJournal("z")>>)
             EXCEPT !.version = 9])}

MCFiles == {<<"a">>, <<"b">>, <<"c">>, <<"d">>, <<"e">>, <<"f">>}
MCExternal ==
  [f \in MCFiles |->
     CASE f = <<"a">> -> MCLeaf("xpriv", "a", "succinct")
       [] f = <<"b">> -> MCLeaf("xpriv", "b", "succinct")
       [] f = <<"c">> -> MCLeaf("taproot", "c", "succinct")
       [] f = <<"d">> -> MCLeaf("xpriv", "a", "composite")
       [] f = <<"e">> -> MCLeaf("taproot", "a", "succinct")
       [] f = <<"f">> -> [image   |-> "other",
                          journal |-> CHOOSE journal \in MCForged : TRUE,
                          kind    |-> "succinct"]]
MCGiven == {MCExternal[f] : f \in MCFiles}

Ext(file, kind)      == [file |-> <<file>>, kind |-> kind]
Inl(node, kind)      == [node |-> node, kind |-> kind]
Tree(kind, leaves)   == [name |-> <<>>, kind |-> kind, leaves |-> leaves]
Named(name, kind, leaves) == [name |-> name, kind |-> kind, leaves |-> leaves]

HasNode(leaf) == "node" \in DOMAIN leaf

RECURSIVE NodesOf(_, _)
NodesOf(node, path) ==
  LET own == [name   |-> node.name,
              kind   |-> node.kind,
              leaves |-> [i \in DOMAIN node.leaves |->
                            [kind |-> node.leaves[i].kind,
                             file |-> IF HasNode(node.leaves[i])
                                      THEN NoFile ELSE node.leaves[i].file]]]
  IN  FoldLeft(LAMBDA nodes, i :
                 IF HasNode(node.leaves[i])
                 THEN nodes @@ NodesOf(node.leaves[i].node, Append(path, i - 1))
                 ELSE nodes,
               path :> own, [i \in DOMAIN node.leaves |-> i])

MCPlan(top, receiptKind, disclosurePath, verifyFinal) ==
  [nodes |-> NodesOf(top, <<>>), receiptKind |-> receiptKind,
   disclosurePath |-> disclosurePath, verifyFinal |-> verifyFinal]

-----------------------------------------------------------------------------
(* Every short tree, right or wrong, of one and of two levels.             *)

Batches ==
  {Tree(2, <<Ext("a", 0), Ext("b", 0)>>), Tree(1, <<Ext("c", 0)>>),
   Tree(2, <<Ext("b", 0)>>),
   Tree(4, <<Ext("c", 1), Ext("a", 2)>>), Tree(2, <<Ext("a", 0), Ext("c", 0)>>)}

Flat ==
  Batches \cup
  {Tree(k, <<>>) : k \in {2, 4}} \cup
  {Tree(k, <<Ext(f, d)>>) : k \in {0, 1, 3, 4}, f \in {"a", "d", "none", ""},
                            d \in {0, 2, 3, 4, 9}} \cup
  {Tree(k, <<Ext("f", d), Ext(f, d)>>) : k \in {2, 3, 4}, f \in {"a", "f"}, d \in {0, 3}} \cup
  {Tree(k, <<Ext(f, 2), Ext(g, 2)>>) : k \in {2, 4}, f, g \in {"a", "d", "e"}}

Children ==
  {Inl(b, 0) : b \in Batches} \cup
  {Inl(Tree(2, <<Ext("b", 0)>>), k) : k \in {1, 3, 4}} \cup
  {Ext("a", 0), Ext("a", 2), Ext("c", 1), Ext("f", 3)}

Parents == {Tree(k, s) : k \in {2, 3, 4},
                         s \in {<<x>> : x \in Children} \cup
                               {<<x, y>> : x, y \in Children}}

Grandparents ==
  {Tree(k, <<Inl(Tree(j, <<Inl(b, 0), Inl(b, 0)>>), 0), x>>) :
     k \in {3, 4}, j \in {3, 4}, b \in Batches,
     x \in {Inl(Tree(3, <<Inl(Tree(2, <<Ext("b", 0)>>), 0)>>), 0), Ext("a", 2)}}

MCPaths == {<<>>, <<0>>, <<1>>, <<1, 0>>, <<0, 1>>, <<0, 1, 0>>, <<1, 0, 0>>}

MCShapes ==
  {MCPlan(t, "succinct", d, FALSE) : t \in Flat, d \in {<<>>, <<0>>, <<1>>}} \cup
  {MCPlan(t, "composite", d, TRUE) : t \in Flat, d \in {<<>>, <<0>>, <<0, 0>>}} \cup
  {MCPlan(t, "succinct", d, v) : t \in Parents, d \in {<<>>, <<1, 0>>, <<0, 1>>, <<1>>},
                                 v \in {TRUE}} \cup
  {MCPlan(t, "", <<>>, TRUE) : t \in Parents} \cup
  {MCPlan(t, "succinct", d, v) : t \in Grandparents, d \in MCPaths, v \in BOOLEAN}

-----------------------------------------------------------------------------
(* Few plans, run one after the other in one output directory.  Two nodes  *)
(* of one have the same label.                                             *)

MCReruns ==
  {MCPlan(Named(<<"top">>, 3, <<Inl(Named(<<"left">>, 2, <<Ext("a", 0), Ext("b", 0)>>), 0),
                                Inl(Named(<<"left">>, 2, <<Ext("b", 0)>>), 0)>>),
          "succinct", <<0, 1>>, TRUE),
   MCPlan(Tree(3, <<Inl(Tree(2, <<Ext("b", 0)>>), 0)>>), "succinct", <<0, 0>>, FALSE),
   MCPlan(Tree(4, <<Inl(Tree(2, <<Ext("a", 0)>>), 0), Ext("c", 1)>>),
          "composite", <<1>>, TRUE),
   MCPlan(Tree(4, <<Ext("c", 1), Ext("a", 2)>>), "", <<1>>, FALSE)}

(* Any manifest is run once; only these are run again.                     *)
MCPlans == MCShapes \cup MCReruns
NextPlans == IF runs = 0 THEN Plans ELSE IF plan \in MCReruns THEN MCReruns ELSE {}
MCNext  == (\E p \in NextPlans : StartPlan(p)) \/ Step \/ KillBetween \/ KillWithin
MCSpec  == Init /\ [][MCNext]_planVars /\ WF_planVars(Step)

(* A child labelled as its first child is numbered.                        *)
MCNames ==
  {MCPlan(Tree(3, <<Inl(Named(<<"01">>, 3,
                          <<Inl(Tree(2, <<Ext("b", 0)>>), 0),
                            Inl(Tree(2, <<Ext("a", 0)>>), 0)>>), 0)>>),
          "succinct", <<0, 1, 0>>, v) : v \in BOOLEAN} \cup
  {MCPlan(Named(<<"top">>, 3, <<Inl(Named(<<"left">>, 2, <<Ext("a", 0)>>), 0),
                                Inl(Named(<<"left">>, 2, <<Ext("b", 0)>>), 0)>>),
          "succinct", <<1, 0>>, v) : v \in BOOLEAN}
=============================================================================
