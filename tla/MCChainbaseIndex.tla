--------------------------- MODULE MCChainbaseIndex ---------------------------
EXTENDS ChainbaseIndex, TLC

CONSTANTS k1, k2, d1, d2

KeysAreInterchangeable == Permutations({k1, k2}) \cup Permutations({d1, d2})
================================================================================
