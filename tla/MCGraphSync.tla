------------------------------ MODULE MCGraphSync ------------------------------
EXTENDS GraphSync, TLC

\* Documents, folders and jobs are interchangeable; used in runs of invariants only.
Symmetry == Permutations(Docs) \cup Permutations(Folders) \cup Permutations(Jobs)
=============================================================================
