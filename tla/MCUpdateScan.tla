---------------------------- MODULE MCUpdateScan ----------------------------
(* Instance of UpdateScan for TLC. *)
EXTENDS UpdateScan
CONSTANTS s1, s2, w1, w2
MCSD == {s1, s2}
MCHosted == {s1}
MCWorker == {w1, w2}
=============================================================================
