---------------------------- MODULE MCSeedOnce ----------------------------
(* A small instance of SeedOnce. *)
EXTENDS SeedOnce
===========================================================================
