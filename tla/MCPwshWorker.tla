---------------------------- MODULE MCPwshWorker ----------------------------
EXTENDS PwshWorker, TLC
CallSymmetry == Permutations(Calls)
=============================================================================
