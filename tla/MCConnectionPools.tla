-------------------------- MODULE MCConnectionPools --------------------------
EXTENDS ConnectionPools, TLC
PoolSymmetry == Permutations(Calls) \cup Permutations(Logins)
==============================================================================
