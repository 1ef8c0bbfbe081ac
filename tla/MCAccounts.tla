----------------------------- MODULE MCAccounts ------------------------------
EXTENDS Accounts, TLC

MCEmailOf == [u \in Users |-> u]
ThreadSymmetry == Permutations(Threads)
==============================================================================
