----------------------------- MODULE MCRecovery -----------------------------
EXTENDS Recovery, TLC

ClientSymmetry == Permutations(Clients)
=============================================================================
