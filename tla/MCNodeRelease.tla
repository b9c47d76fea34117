---------------------------- MODULE MCNodeRelease ----------------------------
\* NodeRelease with the symmetry that TLC may use for invariants: nodes and
\* requests are interchangeable.  (Blank and Nowhere are choices of a content
\* and a place, so those are not.)
EXTENDS NodeRelease, TLC

Symmetry == Permutations(Nodes) \cup Permutations(Callers)

=============================================================================
