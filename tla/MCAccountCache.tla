--------------------------- MODULE MCAccountCache ---------------------------
EXTENDS AccountCache, TLC
Perms == Permutations(Requests)
=============================================================================
