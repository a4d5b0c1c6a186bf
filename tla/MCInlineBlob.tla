--------------------------- MODULE MCInlineBlob ---------------------------
EXTENDS InlineBlobCache, TLC

CONSTANTS h1, h2, i1, i2, short, long

Lengths == short :> 1 @@ long :> 2
Symmetric == Permutations(Handles) \cup Permutations(Ids)
===========================================================================
