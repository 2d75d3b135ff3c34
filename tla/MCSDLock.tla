------------------------------ MODULE MCSDLock ------------------------------
(* Small instances of SDLock for TLC. *)
EXTENDS SDLock
=============================================================================
