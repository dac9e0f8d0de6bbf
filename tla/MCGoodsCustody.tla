--------------------------- MODULE MCGoodsCustody ---------------------------
EXTENDS GoodsCustody, TLC
Alike == Permutations(Handlers)
=============================================================================
