---------------------------- MODULE MCSavingsStore ----------------------------
EXTENDS SavingsStore, TLC

Symmetric == Permutations(Events)
=============================================================================
