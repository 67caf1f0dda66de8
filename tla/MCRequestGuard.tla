--------------------------- MODULE MCRequestGuard ---------------------------
(* The alias a at two providers that serve different endpoints, and x, a    *)
(* routing alias whose rule may land on p1/a.  Key k1 is managed.           *)
EXTENDS RequestGuard, TLC

CONSTANTS r1, a, x, p1, p2, p3, a1, a2, x1, k1, k2, t1, t2, e1, e2, p1a, p2a, p1x, p3z, i1, i2

MCAlias == [m \in Models |-> IF m = x1 THEN x ELSE a]
MCProvider == [m \in Models |-> IF m = a2 THEN p2 ELSE p1]
MCServes == [m \in Models |-> IF m = a1 THEN {e2} ELSE {e1}]
MCAttemptProvider == [t \in Attempts |-> CASE t = p2a -> p2 [] t = p3z -> p3 [] OTHER -> p1]
MCNativeOf == [m \in Models |-> CASE m = a1 -> p1a [] m = a2 -> p2a [] OTHER -> p1x]
MCTargets == [m \in Models |-> IF m = x1 THEN {p1a} ELSE {}]
MCAsked == {Short(a), Short(x), Full(p1a), Full(p3z)}

NoChoice == [y \in Aliases |-> None]
Key(ms, naming) ==
    [on |-> TRUE, naming |-> naming, groups |-> {}, added |-> ms, excluded |-> {}, sources |-> {},
     select |-> [NoChoice EXCEPT ![a] = [added |-> {a1, a2} \cap ms, excluded |-> {}]],
     prefer |-> NoChoice, adopted |-> FALSE, ceiling |-> {}]
Adopted(ms) == [Key(ms, "provider/model") EXCEPT !.adopted = TRUE, !.ceiling = ms]
Registry(p, q, token1, kept1) ==
    [cfg |-> [live |-> Models, groups |-> << >>, policies |-> [k \in Keys |-> IF k = k1 THEN p ELSE q]],
     token |-> [k \in Keys |-> IF k = k1 THEN token1 ELSE IF token1 = t1 THEN t2 ELSE t1],
     kept |-> [k \in Keys |-> IF k = k1 THEN kept1 ELSE {}]]

\* a is shared by name; everything under its bare name; k1 has another credential; k1 is
\* adopted with a native provider of its own, and k2 is managed but switched off.
ByBoth == Registry(Key({a1, a2}, "both"), None, t1, {})
ByBareName == Registry(Key({a1, a2, x1}, "model"), None, t1, {})
Rebound == Registry(Key({a1, x1}, "both"), None, t2, {})
Kept == Registry(Adopted({a2}), [Key({a1}, "both") EXCEPT !.on = FALSE], t1, {p3})
MCSnapshots == {ByBoth, ByBareName, Rebound, Kept}
MCBareSnapshots == {ByBareName}
MCEverything == {Registry(Key({a1, a2, x1}, "both"), None, t1, {})}

Symmetry == Permutations(Slots)
=============================================================================
