------------------------------ MODULE MCWsHub ------------------------------
(* A small instance of WsHub. *)
EXTENDS WsHub, TLC

CONSTANTS k1, k2, r1, r2, p1, p2

(* A viewer of each room, who may subscribe to the other, and a post in    *)
(* each: one that the other's replay passes over.                          *)
TwoAsked == (k1 :> r1) @@ (k2 :> r2)
TwoRooms == (p1 :> r1) @@ (p2 :> r2)
===========================================================================
