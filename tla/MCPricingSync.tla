--------------------------- MODULE MCPricingSync ---------------------------
(* One access served with two provider keys.  IDs and prices are            *)
(* interchangeable: no definition or property picks one.                    *)
EXTENDS PricingSync, TLC

CONSTANTS a, k1, k2, s1, s2

MCKeyOf == [s \in Slots |-> IF s = s1 THEN k1 ELSE k2]
MCAccessOf == [s \in Slots |-> a]

Interchangeable == Permutations(Ids) \cup Permutations(Prices)
=============================================================================
