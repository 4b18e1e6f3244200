---------------------------- MODULE MCSignerKey -----------------------------
EXTENDS SignerKey, TLC
NodeSymmetry == Permutations(Nodes)
=============================================================================
