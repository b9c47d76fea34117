---------------------------- MODULE MCVectorSync ----------------------------
EXTENDS VectorSync, TLC

\* Nodes, groups and callers are interchangeable; used in runs of invariants only.
Symmetry == Permutations(Nodes) \cup Permutations(Groups) \cup Permutations(Callers)
=============================================================================
