-------------------------- MODULE MCCatalogSources --------------------------
(* a1 bears the ID of a reference.  The first snapshot names no base for a1, *)
(* and r1 for a2; the second names a1 for a2, and for a1 a base it does not  *)
(* have.                                                                     *)
EXTENDS CatalogSources, TLC

CONSTANTS a1, a2, r1, v1, v2

Row(value) == [value |-> value]
\* Both listed, one with a value; only a2 listed, with another.
MCGateways == {[a \in Accesses |-> IF a = a1 THEN Row(v1) ELSE Row(None)],
               [a \in Accesses |-> IF a = a1 THEN None ELSE Row(v2)]}

Offer(base, value, omits) == [base |-> base, value |-> value, omits |-> omits]
Earlier == [refs |-> [q \in References |-> v1],
            offers |-> [a \in Accesses |-> IF a = a1 THEN Offer(None, None, FALSE)
                                            ELSE Offer(r1, v2, FALSE)]]
Later == [refs |-> [q \in References |-> IF q = r1 THEN None ELSE v2],
          offers |-> [a \in Accesses |-> IF a = a1 THEN Offer(r1, v1, TRUE)
                                          ELSE Offer(a1, None, TRUE)]]
MCReleases == {Earlier, Later}

Interchangeable == Permutations(Clients)
=============================================================================
