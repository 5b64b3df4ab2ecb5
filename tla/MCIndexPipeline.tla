-------------------------- MODULE MCIndexPipeline --------------------------
EXTENDS IndexPipeline, TLC

CONSTANTS d1, d2, n1, n2

MCDocs == {d1, d2}

\* Different base names, or the same name in two directories.
DistinctNames == (d1 :> n1) @@ (d2 :> n2)
SharedName == (d1 :> n1) @@ (d2 :> n1)

\* Documents of one name are interchangeable.
SameNameSymmetry == Permutations(MCDocs)
=============================================================================
