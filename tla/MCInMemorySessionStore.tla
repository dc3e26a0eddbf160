----------------------- MODULE MCInMemorySessionStore -----------------------
(* Two values under three keys, with a time to live of three chunks.       *)
EXTENDS InMemorySessionStore, TLC

CONSTANTS k1, k2, k3, v1, v2

ThreeKeys == {k1, k2, k3}
TwoValues == {v1, v2}

\* Nothing distinguishes the keys, or the values, but their names.
Symmetry == Permutations(Keys) \union Permutations(Values)
=============================================================================
