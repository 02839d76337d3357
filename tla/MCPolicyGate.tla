--------------------------- MODULE MCPolicyGate ---------------------------
(* Small instances of PolicyGate. *)
EXTENDS PolicyGate, TLC

CONSTANTS c1, c2, c3, m1, m2, epl

Yellow(n) == [id |-> n, match |-> m1, league |-> epl,
              type |-> "YELLOW_CARD", named |-> TRUE]

(* Two cards of one match against a limit of one: the quota race. *)
RacingPair == {Yellow(1), Yellow(2)}

(* One event per branch of the entry checks. *)
MixedEvents ==
  { [id |-> 1, match |-> m1, league |-> epl, type |-> "GOAL",   named |-> TRUE],
    [id |-> 2, match |-> m1, league |-> epl, type |-> "START",  named |-> FALSE],
    [id |-> 3, match |-> m1, league |-> epl, type |-> "CORNER", named |-> FALSE],
    [id |-> 4, match |-> m1, league |-> epl, type |-> "GOAL",   named |-> FALSE] }

AllSwitches == Scopes

Symmetry == Permutations(Claims)
===========================================================================
