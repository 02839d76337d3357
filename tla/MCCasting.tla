---------------------------- MODULE MCCasting -----------------------------
(* A small instance of Casting: a claim with two goals and a type nobody   *)
(* comments on, two replies of one user, two personas.                     *)
EXTENDS Casting, TLC

CONSTANTS claim, reply, hyper, calm

Feed    == (claim :> <<"OWN_GOAL", "GOAL", "VAR">>) @@ (reply :> <<"GOAL", "GOAL">>)
OneCast == <<hyper, calm>>
Roles   == (hyper :> {"GOAL", "MATCH_UPCOMING"}) @@ (calm :> {"GOAL"})
===========================================================================
