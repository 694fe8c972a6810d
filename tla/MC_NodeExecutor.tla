--------------------------- MODULE MC_NodeExecutor ---------------------------
(* Small instances of NodeExecutor. *)
EXTENDS NodeExecutor, TLC

CONSTANTS r1, r2, r3

MCRequests == {r1, r2, r3}
MCTwoRequests == {r1, r2}

\* Requests are interchangeable: no action or invariant names one.
MCSymmetry == Permutations(Requests)
=============================================================================
