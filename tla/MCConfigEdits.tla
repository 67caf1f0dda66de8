--------------------------- MODULE MCConfigEdits ---------------------------
(* Three accesses: the alias a at two providers and b at one of them; b1 is *)
(* resolved by a routing rule.  One group, one key Registry manages and     *)
(* one native key that may be adopted.                                      *)
EXTENDS ConfigEdits

CONSTANTS a, b, p1, p2, a1, a2, b1, g, k1, k2

MCAlias == [m \in {a1, a2, b1} |-> IF m = b1 THEN b ELSE a]
MCProvider == [m \in {a1, a2, b1} |-> IF m = a2 THEN p2 ELSE p1]

NoChoice == [x \in Aliases |-> None]
Key == [on |-> TRUE, naming |-> "both", groups |-> {g}, added |-> {}, excluded |-> {},
        sources |-> {}, select |-> NoChoice, prefer |-> NoChoice, adopted |-> FALSE, ceiling |-> {}]
File(p) == [live |-> Models, groups |-> [x \in Groups |-> [ids |-> {a1, b1}, sources |-> {}, exclude |-> {}]],
            policies |-> [x \in Keys |-> IF x = k1 THEN p ELSE None]]

\* A plain file, one that lists both accesses of a (written before access selection
\* existed), the same with a preference, and one whose key chose to share a.
Plain == File(Key)
Legacy == [File(Key) EXCEPT !.groups[g].ids = Models]
Preferring == [Legacy EXCEPT !.policies[k1].prefer[a] = a1]
Sharing == [Legacy EXCEPT !.policies[k1].select[a] = [added |-> {a1}, excluded |-> {}]]
MCFiles == {Plain, Legacy, Preferring, Sharing}
=============================================================================
