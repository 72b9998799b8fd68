----------------------------- MODULE MCScoreStore -----------------------------
(***************************************************************************)
(* An indicator that is scored once and then carried day after day.        *)
(***************************************************************************)
EXTENDS ScoreStore

OneAnswer  == {[score |-> 1, flags |-> <<>>, named |-> FALSE]}
FlagLength == [CARRY_FORWARD |-> 13]
===============================================================================
