------------------------------ MODULE MCCompass ------------------------------
(* Small instances of Compass. *)
EXTENDS Compass

Vote(c, s, f) == [complete |-> TRUE, cand |-> c, seen |-> s, fires |-> f]

(* The vote is free and no trigger fires.                                  *)
Votes == {Vote(c, {"A"}, {}) : c \in Regimes}

(* The vote is free, and VIX and HY OAS may shock the day.                 *)
VotesOrShock == Votes \cup {Vote("Caution", {"A"}, {"A"})}

(* The vote is fixed; USDJPY may be missing, a day may stay incomplete.    *)
Shocks == {Vote("Caution", s, f) : s \in {{"A"}, {"A", "B"}}, f \in {{}, {"A"}}}
          \cup {Vote("Caution", {"A", "B"}, {"B"}),
                [complete |-> FALSE, cand |-> "Caution", seen |-> {"A"}, fires |-> {}]}
==============================================================================
