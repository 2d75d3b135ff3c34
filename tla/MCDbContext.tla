----------------------------- MODULE MCDbContext -----------------------------
(* Small instances of DbContext for TLC. *)
EXTENDS DbContext, TLC

\* Workers are interchangeable, and so are contexts.
Symmetry == Permutations(Worker) \cup Permutations(Ctx)
=============================================================================
