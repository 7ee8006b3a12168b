--------------------------- MODULE MCTaskLifecycle ---------------------------
(* Who changes which task: anybody (Shared), or one thread each (Owned).    *)
EXTENDS TaskStores, TLC

CONSTANTS t1, t2, a, b

Shared == Threads \X TaskIds
Owned  == {<<t1, a>>, <<t2, b>>}

Symmetry == Permutations(Contexts)

=============================================================================
