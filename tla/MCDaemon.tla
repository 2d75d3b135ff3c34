------------------------------- MODULE MCDaemon -------------------------------
(* Small instances of Daemon for TLC.  No symmetry: the runs check liveness. *)
EXTENDS Daemon
=============================================================================
