--------------------------- MODULE MCAdrenoArrays ---------------------------
(* AdrenoArrays for TLC: the cells are interchangeable.                      *)
EXTENDS AdrenoArrays, TLC

Symmetry == Permutations(Cells)

\* A state that nothing follows differs from another by what the invariants
\* say of it only, and after a load nothing reads orphans and lost again.
Last == ~Running

Readable ==
    CASE Last -> <<state, loaded, CountsAreExact, OnlyTanglesBreak>>
      [] ~Last /\ loaded -> <<stack, locals, cell>>
      [] ~Last /\ ~loaded -> <<stack, locals, cell, lost, orphans>>
=============================================================================
