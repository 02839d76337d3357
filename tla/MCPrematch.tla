---------------------------- MODULE MCPrematch ----------------------------
(* A small instance of Prematch. *)
EXTENDS Prematch, TLC

CONSTANTS m1, b1, b2

KickoffAtSix == m1 :> 6
===========================================================================
