---------------------------- MODULE MCDrafting ----------------------------
(* A small instance of Drafting: two claims and the end of a prematch      *)
(* burst around the kickoff.  One player scores every goal.                *)
EXTENDS Drafting, TLC

CONSTANTS c1, c2, burst, hyper

Live(n, t, min, score) ==
  [id |-> n, type |-> t, minute |-> min, lead |-> score, phase |-> "live", player |-> "nine"]
Upcoming == [Live("upcoming", "MATCH_UPCOMING", 0, 0) EXCEPT !.phase = "prematch", !.player = None]

Kickoff == (c1 :> <<Live("first", "GOAL", 2, 1)>>)
        @@ (c2 :> <<Live("second", "GOAL", 4, 2), Live("third", "GOAL", 4, 2)>>)
        @@ (burst :> <<Upcoming>>)

Template(n, ph, t, min) ==
  [id |-> n, phase |-> ph, type |-> t, voices |-> {hyper}, minutes |-> min, leads |-> 0 .. 2,
   priority |-> 1, named |-> TRUE, passes |-> {"GOAL"}]
Book == {Template("scorer", "live", "GOAL", 0 .. 90),
         Template("late", "live", None, 4 .. 90),
         Template("wait", "prematch", None, -5 .. 0)}
===========================================================================
