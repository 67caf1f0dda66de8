------------------------------ MODULE MCPanelPages ------------------------------
(* A managed key, one to adopt and one with nothing; two cards and two models to  *)
(* add, one of them from an aggregator alone; then the same gateway with a model  *)
(* added, a key gone and the group deleted.                                       *)
EXTENDS PanelPages, TLC

CONSTANTS k1, k2, k3, m1, m2, m3, m4, g, p, q, x, y, v, u

MCBy == (m1 :> {p}) @@ (m2 :> {p, q}) @@ (m3 :> {p, q}) @@ (m4 :> {q})
Place(a, b, c, d) == (m1 :> a) @@ (m2 :> b) @@ (m3 :> c) @@ (m4 :> d)
MCNamed == [default |-> Place(1, 2, 3, 4), name |-> Place(4, 2, 3, 1), recent |-> Place(4, 3, 2, 1)]
MCSays ==
    (k1 :> {}) @@ (k2 :> {}) @@ (k3 :> {"one"}) @@ (g :> {"one"}) @@ (m1 :> {"one"}) @@ (m2 :> {}) @@ (m3 :> {})
      @@ (m4 :> {"one"}) @@ (p :> {}) @@ (q :> {}) @@ ("s1" :> {"one"}) @@ ("s2" :> {}) @@ ("s3" :> {})
      @@ ("n1" :> {"one"}) @@ ("n2" :> {}) @@ ("r1" :> {"one"}) @@ ("r2" :> {})
MCUnsaved == (k1 :> {}) @@ (k2 :> {<<p, m3>>}) @@ (k3 :> {})

Policy(groups, added) == [groups |-> groups, added |-> added, excluded |-> {}]
W1 == [keys |-> {k1, k2, k3}, readiness |-> (k1 :> "managed") @@ (k2 :> "blocked") @@ (k3 :> "empty"),
       client |-> (k1 :> "c") @@ (k2 :> None) @@ (k3 :> None),
       policy |-> (k1 :> Policy({g}, {m2})) @@ (k2 :> Policy({}, {})) @@ (k3 :> Policy({}, {})),
       groups |-> {g}, has |-> (g :> {m1}), cards |-> {m1, m2}, found |-> {m3, m4}]
W2 == [W1 EXCEPT !.keys = {k1, k3}, !.groups = {}, !.policy[k1] = Policy({}, {m1, m2}),
                 !.cards = {m1, m2, m3}, !.found = {m4}]
MCWorlds == {W1, W2}
MCStarts == {W1}

Key(id, names, readable) == [id |-> id, aliases |-> names, readable |-> readable]
MCInventory ==
    { [name |-> p, keys |-> {Key("s1", {"n1", "n2"}, TRUE), Key("s2", {}, FALSE)}],
      [name |-> q, keys |-> {Key("s3", {"n1"}, TRUE)}] }

MCKeyOptions == [group |-> {All, g}, client |-> {All, "c"}, readiness |-> {All, "empty"}, sort |-> {"readiness", "name"}]
MCChoices == [layout |-> {"grid", "table"}, logo |-> {"creator", "provider"}]
MCPreferred == [layout |-> "grid", logo |-> "creator"]
MCSessions ==
    { {"models", "model filters", "order"}, {"keys", "key", "models", "model filters"},
      {"keys", "groups", "key filters", "reload"}, {"models", "keys", "groups", "settings", "gateway", "views"},
      {"keys", "key", "edit", "secret", "reload"}, {"keys", "key", "edit", "model filters", "reload"},
      {"groups", "edit", "model filters", "order", "views", "reload"}, {"snapshot", "others"}, {"settings"},
      {"models", "card"} }

Some(k, m) == [key |-> k, model |-> m, endpoint |-> "set"]
MCFiles == { [content |-> 1, assistant |-> Cleared], [content |-> 1, assistant |-> Some(k1, x)],
             [content |-> 2, assistant |-> Some(k1, x)],
             [content |-> 3, assistant |-> Cleared] }
MCLists == (k1 :> {{x}}) @@ (k2 :> {{y}}) @@ (k3 :> {{}})

Draft(name, creator, refs) == [name |-> name, creator |-> creator, reference |-> refs, byHand |-> FALSE]
MCDrafts == {Draft(v, None, {None}), Draft(None, u, {v, None})}
MCProposals == {[creator |-> v, reference |-> v], [name |-> u, creator |-> u]}
=============================================================================
