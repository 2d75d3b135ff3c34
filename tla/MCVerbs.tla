------------------------------- MODULE MCVerbs -------------------------------
(* Instance of Verbs for TLC.  The threads are interchangeable. *)
EXTENDS Verbs, TLC
CONSTANTS w1, w2
MCWorker == {w1, w2}
MCSymmetry == Permutations(MCWorker)
=============================================================================
