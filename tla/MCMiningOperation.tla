-------------------------- MODULE MCMiningOperation --------------------------
EXTENDS MiningOperation, TLC
CONSTANTS m1, m2, h1, r1, o1, o2
MCOperationOf == [p \in Miners \cup Haulers |-> IF p = r1 THEN o2 ELSE o1]
MinersAlike == Permutations({m1, m2})
=============================================================================
