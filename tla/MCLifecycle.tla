----------------------------- MODULE MCLifecycle -----------------------------
EXTENDS EventLifecycle, TLC

CONSTANTS s1, s2

Pair == {s1, s2}
Symmetric == Permutations(Pair)
==============================================================================
