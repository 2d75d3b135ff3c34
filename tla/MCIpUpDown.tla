------------------------------ MODULE MCIpUpDown ------------------------------
(* Small instances of IpUpDown for TLC. *)
EXTENDS IpUpDown
=============================================================================
