------------------------- MODULE PersistenceMachine -------------------------
(***************************************************************************)
(* What the asymmetric persistence machine of Compass promises, free of    *)
(* tables and runs: each trading day brings a candidate regime; a          *)
(* candidate that differs from the active regime is pending, and becomes   *)
(* active once it has been pending for enough days in a row, fewer toward  *)
(* higher severity than toward lower.  The day just classified may be      *)
(* classified again, from the same starting point, when its inputs change. *)
(***************************************************************************)
EXTENDS Naturals

CONSTANTS DaysToHigherSeverity, DaysToLowerSeverity, None

VARIABLES
  state,    \* after the latest classified day: active, pending label, count
  before    \* after the day before that one
vars == <<state, before>>

Regimes  == {"Risk-On", "Caution", "Risk-Off"}
Severity == [r \in Regimes |-> IF r = "Risk-On" THEN 0 ELSE IF r = "Caution" THEN 1 ELSE 2]

(* Nothing classified yet.                                                 *)
Blank == [active |-> None, pending |-> None, count |-> 0]

Settled(r)    == [active |-> r, pending |-> None, count |-> 0]
Pending(r, c, n) == [active |-> r, pending |-> c, count |-> n]

Required(c, r) == IF Severity[c] > Severity[r] THEN DaysToHigherSeverity
                                               ELSE DaysToLowerSeverity

Streak(s, c) == IF s.pending = c THEN s.count + 1 ELSE 1

(* One trading day with candidate c, from s.                               *)
After(s, c) ==
  IF s.active = None
    THEN IF c = "Caution" THEN Settled(c) ELSE Pending("Caution", c, 1)
  ELSE IF c = s.active \/ Streak(s, c) >= Required(c, s.active)
    THEN Settled(c)
  ELSE Pending(s.active, c, Streak(s, c))

Init == state = Blank /\ before = Blank

NextDay == \E c \in Regimes : state' = After(state, c) /\ before' = state
Again   == \E c \in Regimes : /\ state # Blank
                              /\ state' = After(before, c) /\ UNCHANGED before

Next == NextDay \/ Again
Spec == Init /\ [][Next]_vars
=============================================================================
