-------------------------- MODULE MCEventPipeline --------------------------
(* Small instances of EventPipeline. *)
EXTENDS EventPipeline, TLC

CONSTANTS c1, c2, m1, epl

Event(n, t) == [id |-> n, match |-> m1, league |-> epl, type |-> t, named |-> TRUE]
Goal(n) == Event(n, "GOAL")
Pen(n)  == Event(n, "PENALTY")

Corner  == Event(2, "CORNER")

(* The feed repeats itself: a goal is in both partitions, in the first     *)
(* one behind an event that is never seeded, in the second behind a        *)
(* message that does not parse.                                            *)
GoalAndCorner == {Goal(1), Corner}
RepeatedFeed  == (c1 :> << <<Corner, Goal(1)>> >>)
              @@ (c2 :> << Garbage, <<Goal(1)>> >>)

(* Three events, two of them in the first partition. *)
OneMatch == {Goal(1), Goal(2), Pen(3)}
LongFeed == (c1 :> << <<Goal(1), Pen(3)>> >>) @@ (c2 :> << <<Goal(2)>> >>)

(* Five events of different types, more than the warm-up burst allows. *)
Burst == {Goal(1), Goal(2), Pen(3), Event(4, "RED_CARD"), Goal(5)}
BurstFeed == (c1 :> << <<Goal(1), Pen(3), Goal(5)>> >>)
          @@ (c2 :> << <<Goal(2), Event(4, "RED_CARD")>> >>)

GlobalSwitch == {GlobalScope}
===========================================================================
