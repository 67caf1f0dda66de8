------------------------------ MODULE MCCardEditor ------------------------------
(* A card over two accesses; three more it may take: one under the same name, *)
(* one linked to its reference, one of another card.  Of the third file, Bifrost
   has lost an access since the catalogue was refreshed.  The keys: one has
   chosen an access, one has the card withheld already, one prefers an access,
   one has a single access to serve the card by; a group of the second file names
   an access, and of the last one an adopted key lost its provider keys.           *)
EXTENDS CardEditor, TLC

CONSTANTS a1, a2, b1, c3, h2, r, s, chat

MCAccesses == {a1, a2, b1, c3, h2}
MCProviderOf == (a1 :> 1) @@ (a2 :> 2) @@ (b1 :> 1) @@ (c3 :> 3) @@ (h2 :> 2)
MCCalled == (a1 :> "m") @@ (a2 :> "m") @@ (b1 :> "n") @@ (c3 :> "x") @@ (h2 :> "m")
MCDeclared == [a \in MCAccesses |-> IF a = b1 THEN {} ELSE {chat}]
MCCardName == ("card" :> "m") @@ ("new" :> "n") @@ ("taken" :> "m")

Row(a) == [access |-> a, takes |-> {chat}]

Cat(links, owns, omits, listed) ==
    [listed |-> listed, configured |-> listed,
     own |-> owns @@ [t \in MCAccesses \cup {r, s} |-> Nothing],
     link |-> links @@ [a \in MCAccesses |-> Nothing], chosen |-> {}, omits |-> omits]

World(rows, cat, gone, keys, tied, rekeyed) ==
    [id |-> IF rows = <<>> THEN Nothing ELSE "card", name |-> IF rows = <<>> THEN Nothing ELSE "old",
     rows |-> rows, held |-> ("taken" :> {h2}), cat |-> cat,
     discovered |-> MCAccesses \ {c3, gone}, keys |-> keys, tied |-> tied, rekeyed |-> rekeyed]

Key(may, chose, prefer) == [may |-> may, chose |-> chose, prefer |-> prefer]

All == MCAccesses \ {c3}

MCFiles ==
    { World(<<Row(a1), Row(a2)>>,
            Cat((a1 :> r) @@ (a2 :> r) @@ (b1 :> r) @@ (h2 :> r), (r :> 1) @@ (a2 :> 2), {a1}, All), Nothing,
            {Key(All, [added |-> {}, excluded |-> {a2}], Nothing), Key(All, Nothing, Nothing)}, {}, {}),
      World(<<Row(a1), Row(a2)>>,
            Cat((a1 :> r) @@ (b1 :> s) @@ (h2 :> r), (r :> 1) @@ (s :> 2), {}, All \ {a2}), Nothing,
            {Key({a1}, Nothing, a1), Key({a1, b1}, Nothing, Nothing)}, {a2}, {}),
      World(<<Row(a2)>>, Cat((a2 :> s) @@ (a1 :> r), (r :> 1), {}, All), a1, {}, {}, {}),
      World(<<>>, Cat((a1 :> r) @@ (a2 :> r), (r :> 1) @@ (a2 :> 2), {}, All), Nothing, {}, {}, {}),
      World(<<Row(a2)>>, Cat((a2 :> s), <<>>, {}, {a2}), Nothing, {}, {a2}, {a2}) }
=============================================================================
