-------------------------- MODULE MCTaskLifecycle --------------------------
EXTENDS TaskLifecycle, TLC
Symm == Permutations(Tasks)
=============================================================================
