--------------------------- MODULE MC_KnowledgeQuery ---------------------------
(* Two ingestions and two queries over one source with two contents.           *)
EXTENDS KnowledgeQuery, TLC

CONSTANTS i1, i2, a1, a2, r1, r2, c1, c2

Symmetry == Permutations({i1, i2}) \cup Permutations({a1, a2}) \cup Permutations({r1, r2})
            \cup Permutations({c1, c2})
================================================================================
