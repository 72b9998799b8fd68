------------------------------- MODULE Compass -------------------------------
(***************************************************************************)
(* The daily Compass classifier.  Each trading day the input services      *)
(* store that day's inputs; a run reads them, takes the candidate regime   *)
(* they vote for, advances the persistence machine from the most recent    *)
(* earlier classification, advances the two shock triggers from a cache    *)
(* that holds one row, not one per day, writes that cache, and only then   *)
(* stores the classification.  Days are trading days, numbered: on any     *)
(* other day a run logs a skip and changes nothing.  Runs do not overlap.  *)
(***************************************************************************)
EXTENDS Naturals, FiniteSets

CONSTANTS
  MaxDay,                 \* bound on the trading days of a behaviour
  DaysToHigherSeverity, DaysToLowerSeverity,   \* config.persistence
  Expiry,                 \* config.shockLayer.shock_expiry_trading_days
  LookBack,               \* SHOCK_HISTORY_DAYS_BACK, in trading days
  Inputs,                 \* what a day's inputs may amount to
  MaxRevisions,           \* bound on re-ingested days
  Backfill,               \* whether earlier days are classified again
  None

Regimes  == {"Risk-On", "Caution", "Risk-Off"}
Triggers == {"A", "B"}
Days     == 1..MaxDay

(* A day's compass_inputs rows by what a run makes of them: whether all    *)
(* six voting inputs are there, the candidate regime their weights give,   *)
(* the triggers whose own series (VIX for A, USDJPY for B) has a value     *)
(* that day, and the triggers whose condition is true and not blocked.     *)
Input   == [complete : BOOLEAN, cand : Regimes, seen : SUBSET Triggers, fires : SUBSET Triggers]
NoInput == [complete |-> FALSE, cand |-> "Caution", seen |-> {}, fires |-> {}]

Row == [cand : Regimes, active : Regimes, count : Nat,
        fired : SUBSET Triggers, shock : SUBSET Triggers, final : Regimes]

ASSUME ConfigAssumption ==
  /\ MaxDay \in Nat /\ LookBack \in Nat /\ MaxRevisions \in Nat
  /\ DaysToHigherSeverity \in Nat \ {0} /\ DaysToLowerSeverity \in Nat \ {0}
  /\ Expiry \in Nat \ {0}
  /\ Backfill \in BOOLEAN
  /\ None \notin Regimes /\ None \notin Days /\ None \notin Row
ASSUME InputsAssumption == \A i \in Inputs : i \in Input /\ i.fires \subseteq i.seen

VARIABLES
  today,       \* the trading day it is
  input,       \* compass_inputs: each day's inputs
  revisions,   \* how often a day has been ingested again
  cls,         \* compass_classifications: each day's current row, or None
  shock,       \* compass_shock_state: each trigger's state
  run          \* the day and row of the run under way, or None
vars == <<today, input, revisions, cls, shock, run>>

NoShock == [active |-> FALSE, expiry |-> None]

Init ==
  /\ today = 1 /\ revisions = 0
  /\ input = [d \in Days |-> NoInput]
  /\ cls   = [d \in Days |-> None]
  /\ shock = [t \in Triggers |-> NoShock]
  /\ run   = None

-------------------------------------------------------------------------------
(* The persistence machine, as it is computed from two stored rows. *)

Severity == [r \in Regimes |-> IF r = "Risk-On" THEN 0 ELSE IF r = "Caution" THEN 1 ELSE 2]

Required(c, active) == IF Severity[c] > Severity[active] THEN DaysToHigherSeverity
                                                         ELSE DaysToLowerSeverity

(* Variant: the streak goes on whatever candidate it was for.              *)
AnyStreak(c, prior) == prior.count + 1

(* The pending label is not stored: it is the candidate of the prior row,  *)
(* if that row has a count.                                                *)
NewCount(c, prior) ==
  IF prior.count > 0 /\ c = prior.cand THEN prior.count + 1 ELSE 1

(* Variant: no active regime before the first flip.                        *)
NoBootstrap(c, prior) ==
  IF prior = None THEN [active |-> None, count |-> IF c = "Caution" THEN 0 ELSE 1]
                  ELSE [active |-> prior.active, count |-> NewCount(c, prior)]

ResolveActiveRegime(c, prior) ==
  IF prior = None
    THEN [active |-> "Caution", count |-> IF c = "Caution" THEN 0 ELSE 1]
  ELSE IF c = prior.active \/ NewCount(c, prior) >= Required(c, prior.active)
    THEN [active |-> c, count |-> 0]
  ELSE [active |-> prior.active, count |-> NewCount(c, prior)]

Classified == {d \in Days : cls[d] # None}
Latest(S)  == CHOOSE m \in S : \A d \in S : d <= m
RowAt(S)   == IF S = {} THEN None ELSE cls[Latest(S)]

(* Variant: the latest classification, the day's own included.             *)
LatestRow(d) == RowAt({x \in Classified : x <= d})

MostRecentBefore(d) == RowAt({x \in Classified : x < d})

-------------------------------------------------------------------------------
(* The shock layer. *)

(* The observations a trigger is evaluated on at day d.                    *)
Series(t, d) == {x \in Days : x <= d /\ d - x <= LookBack /\ t \in input[x].seen}

(* The day Expiry - 1 observations after d in the series; d if there is    *)
(* none that far.                                                          *)
ExpiryFrom(d, S) ==
  LET ahead == {x \in S : x > d /\ Cardinality({y \in S : d < y /\ y <= x}) = Expiry - 1}
  IN IF ahead = {} THEN d ELSE CHOOSE x \in ahead : TRUE

(* Variant: an expired trigger stays on.                                   *)
NeverExpires(prior, fired, d, S) ==
  IF fired THEN [active |-> TRUE, expiry |-> d] ELSE prior

AdvanceShockState(prior, fired, d, S) ==
  IF fired THEN [active |-> TRUE, expiry |-> ExpiryFrom(d, S)]
  ELSE IF ~ prior.active \/ prior.expiry = None
    THEN [active |-> FALSE, expiry |-> prior.expiry]
  ELSE IF d \notin S THEN prior
  ELSE IF prior.expiry \in S /\ d <= prior.expiry THEN prior
  ELSE NoShock

-------------------------------------------------------------------------------
(* The clock, the inputs and the runs. *)

NextDay ==
  /\ today < MaxDay /\ run = None
  /\ today' = today + 1
  /\ UNCHANGED <<input, revisions, cls, shock, run>>

(* The input services store today's inputs; storing a day again adds the   *)
(* missing ones or, a revision, overwrites them.                           *)
Ingest(d) ==
  /\ d = today \/ (Backfill /\ d <= today)
  /\ \E i \in Inputs :
       /\ i # input[d]
       /\ IF ~ input[d].complete
            THEN UNCHANGED revisions
            ELSE i.complete /\ revisions < MaxRevisions /\ revisions' = revisions + 1
       /\ input' = [input EXCEPT ![d] = i]
  /\ UNCHANGED <<today, cls, shock, run>>

(* A run up to the write of the shock cache.  With an input missing it     *)
(* would log a skip and stop.                                              *)
Classify(d) ==
  LET i    == input[d]
      std  == ResolveActiveRegime(i.cand, MostRecentBefore(d))
      next == [t \in Triggers |->
                 AdvanceShockState(shock[t], t \in i.fires, d, Series(t, d))]
      on   == {t \in Triggers : next[t].active}
  IN
  /\ d = today \/ (Backfill /\ d <= today)
  /\ run = None
  /\ i.complete
  /\ shock' = next
  /\ run' = [day |-> d,
             row |-> [cand |-> i.cand, active |-> std.active, count |-> std.count,
                      fired |-> i.fires, shock |-> on,
                      final |-> IF "A" \in on THEN "Risk-Off" ELSE std.active]]
  /\ UNCHANGED <<today, input, revisions, cls>>

(* Variant: the shock's Risk-Off becomes the active regime.                *)
PersistFinal ==
  /\ run # None
  /\ cls' = [cls EXCEPT ![run.day] = [run.row EXCEPT !.active = run.row.final]]
  /\ run' = None
  /\ UNCHANGED <<today, input, revisions, shock>>

(* The upsert: skipped when the current row says the same already.         *)
Persist ==
  /\ run # None
  /\ cls' = [cls EXCEPT ![run.day] = run.row]
  /\ run' = None
  /\ UNCHANGED <<today, input, revisions, shock>>

(* The run ends between the two writes: an error, or the process dies.     *)
Fail ==
  /\ run # None
  /\ run' = None
  /\ UNCHANGED <<today, input, revisions, cls, shock>>

Next == NextDay \/ (\E d \in Days : Ingest(d) \/ Classify(d)) \/ Persist \/ Fail
Spec == Init /\ [][Next]_vars

-------------------------------------------------------------------------------
(* Properties. *)

TypeOK ==
  /\ today \in Nat
  /\ input \in [Days -> Input]
  /\ revisions \in 0..MaxRevisions
  /\ cls   \in [Days -> Row \cup {None}]
  /\ shock \in [Triggers -> [active : BOOLEAN, expiry : Days \cup {None}]]
  /\ run   \in [day : Days, row : Row] \cup {None}

(* "A candidate must hold 3 consecutive days to move toward higher         *)
(* severity, 5 toward lower": wherever the active regime of two successive *)
(* classifications differs, the last days all had the new regime as their  *)
(* candidate, as many of them as that move requires.                       *)
LastDays(d, n) ==
  {x \in Classified : x <= d /\ Cardinality({y \in Classified : x < y /\ y <= d}) < n}
FlipsOnlyOnStreak ==
  \A d \in Classified :
    LET prior == MostRecentBefore(d)
        need  == Required(cls[d].active, prior.active)
    IN prior # None /\ cls[d].active # prior.active =>
         /\ Cardinality(LastDays(d, need)) = need
         /\ \A x \in LastDays(d, need) : cls[x].cand = cls[d].active

(* The converse: a candidate that has held as long as any move requires is *)
(* the active regime.                                                      *)
PersistentCandidateWins ==
  \A d \in Classified : \A n \in {DaysToHigherSeverity, DaysToLowerSeverity} :
    /\ n >= DaysToHigherSeverity /\ n >= DaysToLowerSeverity
    /\ Cardinality(LastDays(d, n)) = n
    /\ \A x \in LastDays(d, n) : cls[x].cand = cls[d].cand
    => cls[d].active = cls[d].cand

(* The regime moves exactly when a candidate has held long enough.         *)
RegimeFollowsStreaks == FlipsOnlyOnStreak /\ PersistentCandidateWins

(* Every stored regime follows from its own candidate and the row that is  *)
(* current for the day before.                                             *)
DerivedFromCurrentPrior ==
  \A d \in Classified :
    ResolveActiveRegime(cls[d].cand, MostRecentBefore(d))
      = [active |-> cls[d].active, count |-> cls[d].count]

(* A trigger is only ever on because it fired at most a window of          *)
(* observations ago, except while its series has no value for the day: a   *)
(* missing value must not keep a shock on once there is one again.  Said    *)
(* of days whose inputs were never corrected.                              *)
ShockHasCause ==
  revisions = 0 =>
  \A d \in Classified : \A t \in cls[d].shock \cap input[d].seen :
    \E x \in Days :
      /\ x <= d /\ t \in input[x].fires
      /\ Cardinality({y \in Series(t, d) : x < y}) < Expiry

(* "Condition true on day t -> active from t, expiry = t + expiry trading  *)
(* days": on each of the Expiry observations from a firing on, the trigger *)
(* is on.                                                                  *)
ShockLastsItsWindow ==
  \A x, d \in Classified : \A t \in cls[x].fired :
    /\ x <= d
    /\ Cardinality({y \in Series(t, d) : x < y}) < Expiry
    => t \in cls[d].shock

(* The two stored columns carry the three-part state of the machine: with  *)
(* one run per day, or several for the day it is, the classifications      *)
(* implement PersistenceMachine, whatever the shock layer does.            *)
StateOf(row) ==
  IF row = None
    THEN [active |-> None, pending |-> None, count |-> 0]
    ELSE [active |-> row.active, pending |-> IF row.count > 0 THEN row.cand ELSE None,
          count |-> row.count]
AllButLatest == {d \in Classified : \E x \in Classified : d < x}
Machine == INSTANCE PersistenceMachine
             WITH state  <- StateOf(RowAt(Classified)),
                  before <- StateOf(RowAt(AllButLatest))
MachineIsAsSpecified == Machine!Spec
===============================================================================
