-------------------------- MODULE MCWorkspaceEdits --------------------------
(* A model with three accesses and one with a single access that a routing  *)
(* rule resolves; one group, a key the panel composes and an adopted key.   *)
EXTENDS WorkspaceEdits

CONSTANTS a, b, p1, p2, p3, a1, a2, a3, b1, g, k1, k2

MCAlias == [m \in {a1, a2, a3, b1} |-> IF m = b1 THEN b ELSE a]
MCProvider == [m \in {a1, a2, a3, b1} |-> CASE m = a2 -> p2 [] m = a3 -> p3 [] OTHER -> p1]

NoChoice == [x \in Aliases |-> None]
Key == [on |-> TRUE, naming |-> "both", groups |-> {g}, added |-> {}, excluded |-> {},
        sources |-> {}, select |-> NoChoice, prefer |-> NoChoice, adopted |-> FALSE, ceiling |-> {}]
Adopted == [Key EXCEPT !.naming = "provider/model", !.groups = {}, !.added = {a2}, !.adopted = TRUE,
                       !.ceiling = {a2}, !.select[a] = [added |-> {}, excluded |-> {a1}]]
File(ids, p) ==
    [table |-> {a1, a2, b1}, listed |-> {g},
     conf |-> [live |-> {a1, a2, b1},
               groups |-> [x \in Groups |-> [ids |-> ids, sources |-> {}, exclude |-> {}]],
               policies |-> [x \in Keys |-> IF x = k1 THEN p ELSE Adopted]]]

\* A key that chose between the accesses of a, one that left a to a file written before access
\* selection existed but prefers one, and a group the panel cannot edit.
Chosen1 == File({a1, a2, b1}, [Key EXCEPT !.select[a] = [added |-> {a1}, excluded |-> {a2}]])
Legacy == File({a1, a2, b1}, [Key EXCEPT !.prefer[a] = a1])
Partial == File({a1, b1}, Key)
MCActives == {[k \in Keys |-> TRUE]}
MCFiles == {Chosen1, Legacy, Partial}
=============================================================================
