----------------------------- MODULE MCCatalogPages -----------------------------
(* A model listed by two providers, a variant of it and a dated name, on registry *)
(* files with no card, a linked card, and a card that has no reference.           *)
EXTENDS CatalogPages, TLC

CONSTANTS a1, a2, b2, c3, r, s

MCAccesses == {a1, a2, b2, c3}
MCIds == {"m", "m-pro", "m-2025"}
MCProviderOf == (a1 :> 1) @@ (a2 :> 2) @@ (b2 :> 2) @@ (c3 :> 3)
MCCalled == (a1 :> "m") @@ (a2 :> "m") @@ (b2 :> "mpro") @@ (c3 :> "m2025")
MCCardName == ("m" :> "m") @@ ("m-pro" :> "mpro") @@ ("m-2025" :> "m2025")
MCDiscovered == ("m" :> {a1, a2}) @@ ("m-pro" :> {b2}) @@ ("m-2025" :> {c3})

Cards(c) == c @@ [i \in MCIds |-> {}]

Cat(links, listed, chosen) ==
    [listed |-> listed, configured |-> listed, refs |-> {r}, chosen |-> chosen,
     link |-> links @@ [a \in MCAccesses |-> Nil], own |-> [t \in MCAccesses \cup {r, s} |-> Nil]]

MCFiles ==
    { [cards |-> Cards(<<>>), cat |-> Cat([a \in {a2, b2, c3} |-> r], MCAccesses, {a2, b2})],
      [cards |-> Cards("m" :> {a1}), cat |-> Cat([a \in MCAccesses |-> r], MCAccesses, {})],
      [cards |-> Cards("m" :> {a1, a2}),
       cat |-> Cat([a \in {b2, c3} |-> r], MCAccesses \ {a2}, {c3})] }
=============================================================================
