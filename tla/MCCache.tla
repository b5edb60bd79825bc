---- MODULE MCCache ----
EXTENDS Cache, TLC

CONSTANTS a, b, c

MCIds == {a, b, c}
Symmetry == Permutations(MCIds)
====
