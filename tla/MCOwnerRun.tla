---- MODULE MCOwnerRun ----
EXTENDS OwnerRun, TLC
\* Observations and takes are interchangeable.
Symmetry == Permutations(Request) \union Permutations(Take)
====
