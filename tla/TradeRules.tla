------------------------------ MODULE TradeRules ------------------------------
(***************************************************************************)
(* What the trading journal holds a trade to: the rules of a hand-entered  *)
(* trade, the path on which each refuses, the check of a stored trade, and *)
(* the R a fill is worth.                                                  *)
(*                                                                         *)
(* Prices, minutes and money are integers, lot and risk percentages are in *)
(* hundredths of a percent where they are fractions, R is in hundredths.   *)
(* A problem is the field it is anchored to and its severity.              *)
(***************************************************************************)
EXTENDS Integers, FiniteSets, Sequences

CONSTANTS None, Grace

Blocking(field) == {[field |-> field, severity |-> "blocking"]}
Advisory(field) == {[field |-> field, severity |-> "advisory"]}
Only(condition, problems) == IF condition THEN problems ELSE {}

(* Advisory problems refuse a create and flag anything else.                *)
BlocksWrite(problem, path) == problem.severity = "blocking" \/ path = "create"
BlockingProblems(problems, path) == {p \in problems : BlocksWrite(p, path)}

RISK_PCT_MIN == 1
RISK_PCT_MAX == 1000
-------------------------------------------------------------------------------
(* Positive where price b is on the profitable side of a.                   *)
Sign(direction) == IF direction = "Buy" THEN 1 ELSE -1
Gain(direction, a, b) == Sign(direction) * (b - a)

StopSideAdvisory(direction, entry, sl) ==
  Only(Gain(direction, entry, sl) >= 0, Advisory("planned_sl"))
CheckStopSide(direction, entry, sl) ==
  IF sl = entry THEN Blocking("planned_sl")
  ELSE Only(Gain(direction, entry, sl) > 0, Advisory("planned_sl"))

CheckTargetSide(direction, entry, target, field) ==
  Only(Gain(direction, entry, target) <= 0, Advisory(field))

CheckFirstTpOrder(direction, firstTp, mainTp) ==
  Only(Gain(direction, mainTp, firstTp) > 0, Advisory("planned_first_tp"))

CheckEntryNotFuture(opened, now) == Only(opened > now + Grace, Advisory("date_opened"))
CheckExitNotFuture(closed, now)  == Only(closed > now + Grace, Advisory("date_closed"))
CheckExitAfterEntry(opened, closed) == Only(closed < opened, Advisory("date_closed"))

CheckExitPricePresent(isClosed, exit) ==
  Only(isClosed /\ exit = None, Blocking("main_exit_price"))

CheckRiskBand(risk) == Only(risk \notin RISK_PCT_MIN..RISK_PCT_MAX, Advisory("risk_pct"))

CheckPartialCoherence(partial, pct) ==
  IF partial # None /\ pct = None THEN Advisory("partial_exit_lot_pct")
  ELSE Only(partial = None /\ pct # None, Advisory("partial_exit_price"))
-------------------------------------------------------------------------------
Distance(a, b) == IF a < b THEN b - a ELSE a - b
Clamped(pct) == IF pct < 0 THEN 0 ELSE IF pct > 100 THEN 100 ELSE pct
HasPartial(fill) == fill.partial # None /\ fill.pct # None /\ fill.pct > 0

(* What the fill made, a hundred times over: its legs by their share.       *)
OutcomeGain(direction, fill) ==
  LET p == IF HasPartial(fill) THEN Clamped(fill.pct) ELSE 0
      first == IF HasPartial(fill) THEN Gain(direction, fill.entry, fill.partial) ELSE 0
  IN first * p + Gain(direction, fill.entry, fill.exit) * (100 - p)

(* The first disagreement between the outcome recorded and the R of the     *)
(* prices; BE_MAX_ABS_R is a quarter.                                       *)
CheckOutcomeCoherence(direction, sl, fill) ==
  LET risk == Distance(fill.entry, sl)
      made == OutcomeGain(direction, fill)
      PnlDisagrees == /\ fill.pnl # None
                      /\ \/ fill.pnl > 0 /\ made < 0
                         \/ fill.pnl < 0 /\ made > 0
  IN IF fill.exit = None \/ risk = 0 THEN {}
     ELSE IF PnlDisagrees THEN Advisory("main_exit_price")
     ELSE IF fill.type = "BE" /\ 4 * Distance(made, 0) > 100 * risk
       THEN Advisory("main_exit_price")
     ELSE Only(\/ fill.type = "TP" /\ made <= 0
               \/ fill.type = "SL" /\ made >= 0, Advisory("exit_type"))

CheckExcursion(direction, fill) ==
  Only(fill.mfe # None /\ Gain(direction, fill.entry, fill.mfe) < 0, Advisory("mfe_price"))
  \cup Only(fill.mae # None /\ Gain(direction, fill.entry, fill.mae) > 0, Advisory("mae_price"))

CheckPlan(plan, now) ==
  LET side == CheckTargetSide(plan.direction, plan.entry, plan.firstTp, "planned_first_tp")
  IN CheckStopSide(plan.direction, plan.entry, plan.sl)
     \cup CheckTargetSide(plan.direction, plan.entry, plan.mainTp, "planned_main_tp")
     \cup (IF plan.firstTp = None THEN {}
           ELSE IF side # {} THEN side
           ELSE CheckFirstTpOrder(plan.direction, plan.firstTp, plan.mainTp))
     \cup CheckEntryNotFuture(plan.opened, now)

(* The rules of a fill alone, with its dates against the idea's.            *)
CheckFill(fill, isClosed, opened, now) ==
  CheckRiskBand(fill.risk)
  \cup CheckExitPricePresent(isClosed, fill.exit)
  \cup CheckPartialCoherence(fill.partial, fill.pct)
  \cup (IF fill.closed = None THEN {}
        ELSE CheckExitNotFuture(fill.closed, now) \cup CheckExitAfterEntry(opened, fill.closed))

(* The rules of a fill of a plan: with its outcome, and its excursion where *)
(* the caller asks for it.                                                  *)
CheckExecution(plan, fill, isClosed, excursion, now) ==
  CheckFill(fill, isClosed, plan.opened, now)
  \cup Only(isClosed, CheckOutcomeCoherence(plan.direction, plan.sl, fill))
  \cup Only(excursion, CheckExcursion(plan.direction, fill))

(* Every rule again over a stored trade, on each read.                      *)
CheckTradeIntegrity(plan, fills, now) ==
  CheckPlan(plan, now)
  \cup UNION {CheckExecution(plan, f, f.closed # None, TRUE, now) : f \in fills}
-------------------------------------------------------------------------------
(* Half up, as Math.round; b is positive.                                   *)
RoundedRatio(a, b) == (2 * a + b) \div (2 * b)

PipMultiplier(instrument) ==
  CASE instrument = "points" -> 1 [] instrument = "jpyPair" -> 100 [] instrument = "pair" -> 10000

MetricsMainLeg(direction, instrument, sl, fill) ==
  IF fill.exit = None THEN [totalPips |-> 0, blendedRr |-> 0]
  ELSE LET pips == 100 * Gain(direction, fill.entry, fill.exit) * PipMultiplier(instrument)
           risk == Distance(fill.entry, sl) * PipMultiplier(instrument)
       IN [totalPips |-> pips, blendedRr |-> IF risk > 0 THEN RoundedRatio(pips, risk) ELSE 0]

(* The pips and the R of a fill as stored; an open fill has none, and a     *)
(* fill entered at the stop has no R.                                       *)
ComputeTradeMetrics(direction, instrument, sl, fill) ==
  IF fill.exit = None THEN [totalPips |-> 0, blendedRr |-> 0]
  ELSE LET leg(exit) == Gain(direction, fill.entry, exit) * PipMultiplier(instrument)
           pips == IF HasPartial(fill)
                     THEN leg(fill.partial) * Clamped(fill.pct)
                          + leg(fill.exit) * (100 - Clamped(fill.pct))
                     ELSE 100 * leg(fill.exit)
           risk == Distance(fill.entry, sl) * PipMultiplier(instrument)
       IN [totalPips |-> pips, blendedRr |-> IF risk > 0 THEN RoundedRatio(pips, risk) ELSE 0]

(* The R a plan aims at: none without a risk.                               *)
ComputeExpectedRr(plan) ==
  LET risk == Distance(plan.entry, plan.sl)
  IN IF risk = 0 THEN None
     ELSE RoundedRatio(100 * Gain(plan.direction, plan.entry, plan.mainTp), risk)

(* The trading session of a minute of the UTC day, by the Indian clock,     *)
(* whose hours are five and a half ahead.                                   *)
SessionFromDate(minute) ==
  LET ist == (minute + 330) % 1440
  IN CASE ist \in 330..689 -> "Asian" [] ist \in 690..1049 -> "London"
       [] ist \in 1050..1289 -> "London-NY Overlap" [] OTHER -> "New York"
-------------------------------------------------------------------------------
(* What the request for a new fill is refused for at the door.              *)
CreateExecutionSchema(in, now) ==
  CheckRiskBand(in.risk)
  \cup CheckExitPricePresent(in.isClosed, in.exit)
  \cup CheckPartialCoherence(in.partial, in.pct)
  \cup Only(in.closed # None /\ in.closed > now + Grace, Advisory("date_closed"))

CreateTradeSchemaPlan(plan, ins, now) ==
  CheckPlan(plan, now) \cup UNION {CreateExecutionSchema(in, now) : in \in ins}

(* The same for a new idea with its fills.                                  *)
CreateTradeSchema(plan, ins, now) ==
  CheckPlan(plan, now)
  \cup UNION {CreateExecutionSchema(in, now)
              \cup Only(in.isClosed, CheckOutcomeCoherence(plan.direction, plan.sl, in))
              \cup Only(in.isClosed, CheckExcursion(plan.direction, in))
              \cup Only(in.closed # None /\ in.closed < plan.opened, Advisory("date_closed")) :
              in \in ins}

(* A fill as it is stored: an open one keeps no exit, a closed one that was *)
(* given no date is closed now, and no P&L is none made.                    *)
Money(pnl) == IF pnl = None THEN 0 ELSE pnl
Closed(in) == in.isClosed /\ in.exit # None
ClosedAt(in, now) == IF ~Closed(in) THEN None ELSE IF in.closed = None THEN now ELSE in.closed
StoredFill(in, now) ==
  LET kept == Closed(in)
  IN [risk |-> in.risk, entry |-> in.entry, type |-> in.type, closed |-> ClosedAt(in, now),
      exit |-> IF kept THEN in.exit ELSE None, partial |-> IF kept THEN in.partial ELSE None,
      pct |-> IF kept THEN in.pct ELSE None, pnl |-> IF kept THEN Money(in.pnl) ELSE 0,
      mfe |-> IF kept THEN in.mfe ELSE None, mae |-> IF kept THEN in.mae ELSE None]

(* A fill added to a stored idea is held to its plan by the service: the    *)
(* door has seen the fill alone.                                            *)
AddExecutionProblems(plan, in, now) ==
  CreateExecutionSchema(in, now)
  \cup CheckExecution(plan, [in EXCEPT !.closed = ClosedAt(in, now)], in.isClosed, Closed(in), now)
===============================================================================
