----------------------------- MODULE CompassReplay -----------------------------
(***************************************************************************)
(* The historical replay of the classifier: one pass over the days, with   *)
(* the prior row, the shock states and the series they are advanced on     *)
(* kept in memory, where the daily runs read them from the database.       *)
(***************************************************************************)
EXTENDS Compass

ReplayDay(before, d) ==
  LET i    == input[d]
      std  == ResolveActiveRegime(i.cand, before.row)
      next == [t \in Triggers |->
                 AdvanceShockState(before.shock[t], t \in i.fires, d, Series(t, d))]
  IN [row |-> [cand |-> i.cand, active |-> std.active, count |-> std.count,
               fired |-> i.fires, shock |-> {t \in Triggers : next[t].active},
               final |-> IF next["A"].active THEN "Risk-Off" ELSE std.active],
      shock |-> next]

RunReplay ==
  LET replayed[d \in Days] ==
        ReplayDay(IF d = 1 THEN [row |-> None, shock |-> [t \in Triggers |-> NoShock]]
                  ELSE replayed[d - 1], d)
  IN replayed
-------------------------------------------------------------------------------
(* "Reproducing live scoring exactly": while each day so far was classified *)
(* on its day, from inputs that were not corrected since, the stored        *)
(* classifications are the rows of the replay, however many runs of a day   *)
(* failed between their writes or were repeated.                            *)
ReplayAgrees ==
  (revisions = 0 /\ Classified # {} /\ Classified = 1..Latest(Classified)) =>
    \A d \in Classified : cls[d] = RunReplay[d].row
===============================================================================
