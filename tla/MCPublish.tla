----------------------------- MODULE MCPublish -----------------------------
EXTENDS Publish, TLC

Symmetry == Permutations(Words) \cup Permutations(Places)
=============================================================================
