--------------------------- MODULE MCHybridGroups ---------------------------
EXTENDS HybridGroups
CONSTANTS r1, r2, attention, state
Pages == [g \in Group |-> IF g = attention THEN 2 ELSE 3]
Prompts == [r \in Req |-> IF r = r1 THEN 3 ELSE 5]
Outputs == [r \in Req |-> IF r = r1 THEN 6 ELSE 4]
=============================================================================
