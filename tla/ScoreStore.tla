------------------------------ MODULE ScoreStore ------------------------------
(***************************************************************************)
(* Scoring an indicator for a date and storing the score: engine.ts and    *)
(* score-writer.service.ts, for one indicator.  The nightly assembly and   *)
(* the admin endpoints may score the same date at the same time; nothing   *)
(* but the unique index on (indicator, date, rule version) separates them. *)
(*                                                                         *)
(* What a handler answers for a date is data: it is free, and changes when *)
(* data points arrive or are corrected.  The prior score, the existing row *)
(* and the write are separate statements.                                  *)
(***************************************************************************)
EXTENDS Integers, FiniteSets, SequencesExt

CONSTANTS
  Days,        \* the dates scored, 1..n
  Writers,     \* concurrent calls of computeAndStoreScore
  Answers,     \* what the handler may answer: score, flags, and whether it
               \* names its data point
  Versions,    \* the rule versions that may be in force, {1} or {1, 2}
  FlagWidth,   \* characters of scores.flag: 50
  Width,       \* characters of each flag
  MaxNews,     \* bound: how often the answers change
  None

VARIABLES
  answer,      \* answer[d]: what the handler answers for date d
  linked,      \* the dates on or before which some data point exists
  version,     \* the rule version in force
  scores,      \* the rows of scores
  call,        \* call[w]: the call in progress
  news,        \* answers changed so far
  produced     \* history: what handlers scored, as <<date, score>>

vars == <<answer, linked, version, scores, call, news, produced>>

Insufficient == [kind |-> "insufficient_data"]
Idle == [stage |-> "idle"]

FlagText(flags) ==
  FoldLeft(LAMBDA n, f : n + Width[f], 0, flags) + (IF flags = <<>> THEN 0 ELSE Len(flags) - 1)

Init ==
  /\ answer \in [Days -> Answers \cup {Insufficient}]
  /\ linked \in {{}, Days}
  /\ version = 1
  /\ scores = {}
  /\ call = [w \in Writers |-> Idle]
  /\ news = 0
  /\ produced = {}

(* A fetch, a correction, an edit: from now on handlers answer otherwise.   *)
Arrive(d) ==
  /\ news < MaxNews
  /\ \E a \in Answers \cup {Insufficient} : answer' = [answer EXCEPT ![d] = a]
  /\ linked' = Days
  /\ news' = news + 1
  /\ UNCHANGED <<version, scores, call, produced>>

(* A new rule version takes effect for the dates being scored.              *)
NewRule ==
  /\ version + 1 \in Versions
  /\ version' = version + 1
  /\ UNCHANGED <<answer, linked, scores, call, news, produced>>

(* scoreIndicator: the active rule, then its handler.                       *)
RunHandler(w, d) ==
  /\ call[w] = Idle
  /\ call' = [call EXCEPT ![w] =
       IF answer[d] = Insufficient
         THEN [stage |-> "carry", day |-> d]
         ELSE [stage |-> "lookup", day |-> d, score |-> answer[d].score,
               flags |-> answer[d].flags, named |-> answer[d].named, from |-> d]]
  /\ produced' = IF answer[d] = Insufficient THEN produced
                 ELSE produced \cup {<<d, answer[d].score>>}
  /\ UNCHANGED <<answer, linked, version, scores, news>>

(* Variant: any other score, later ones included.                           *)
PriorAnyDate(d) == {r \in scores : r.day # d}

(* The rows of the most recent earlier date, of whatever rule version.      *)
Prior(d) ==
  LET earlier == {r \in scores : r.day < d}
  IN {r \in earlier : \A q \in earlier : q.day <= r.day}

CarriedFlags(r) == Append(r.flags, "CARRY_FORWARD")

CarryForward(w) ==
  LET d == call[w].day
  IN /\ call[w].stage = "carry"
     /\ IF Prior(d) = {}
          THEN call' = [call EXCEPT ![w] = Idle]
          ELSE \E r \in Prior(d) :
                 call' = [call EXCEPT ![w] =
                   [stage |-> "lookup", day |-> d, score |-> r.score,
                    flags |-> CarriedFlags(r), named |-> FALSE, from |-> r.day]]
     /\ UNCHANGED <<answer, linked, version, scores, news, produced>>

(* computeAndStoreScore: the rule again, a data point for the foreign key,  *)
(* and the row of this date and rule, if any.                               *)
Lookup(w) ==
  /\ call[w].stage = "lookup"
  /\ call' = [call EXCEPT ![w] =
       IF ~call[w].named /\ call[w].day \notin linked THEN Idle
       ELSE [stage |-> "write", day |-> @.day, score |-> @.score, flags |-> @.flags,
             from |-> @.from, rule |-> version,
             found |-> {r \in scores : r.day = call[w].day /\ r.rule = version} # {}]]
  /\ UNCHANGED <<answer, linked, version, scores, news, produced>>

At(d, v) == {r \in scores : r.day = d /\ r.rule = v}

(* The column or the unique index refuses the row: the call throws, and     *)
(* computeAllScoresForDate reports insufficient data and goes on.           *)
Refused(c) ==
  \/ FlagText(c.flags) > FlagWidth
  \/ ~c.found /\ At(c.day, c.rule) # {}

Write(w) ==
  LET c == call[w]
      row == [day |-> c.day, rule |-> c.rule, score |-> c.score, flags |-> c.flags,
              from |-> c.from]
  IN /\ c.stage = "write"
     /\ ~Refused(c)
     /\ scores' = (IF c.found THEN scores \ At(c.day, c.rule) ELSE scores) \cup {row}
     /\ call' = [call EXCEPT ![w] = Idle]
     /\ UNCHANGED <<answer, linked, version, news, produced>>

Throw(w) ==
  /\ call[w].stage = "write"
  /\ Refused(call[w])
  /\ call' = [call EXCEPT ![w] = Idle]
  /\ UNCHANGED <<answer, linked, version, scores, news, produced>>

Next ==
  \/ \E d \in Days : Arrive(d)
  \/ NewRule
  \/ \E w \in Writers, d \in Days : RunHandler(w, d)
  \/ \E w \in Writers : CarryForward(w) \/ Lookup(w) \/ Write(w) \/ Throw(w)

Spec == Init /\ [][Next]_vars
-------------------------------------------------------------------------------
Carried(r) == "CARRY_FORWARD" \in ToSet(r.flags)

(* Every stored score was once a handler's own answer, for that date or an  *)
(* earlier one: however carries of carries, backfills and re-scores mix, no *)
(* score travels back in time.                                              *)
ScoresHaveOrigin ==
  \A r \in scores : \E p \in produced : p[1] <= r.day /\ p[2] = r.score

(* The flag column tells a carried score from a computed one: exactly the   *)
(* rows taken over from an earlier date say CARRY_FORWARD.                  *)
CarriedIsMarked == \A r \in scores : Carried(r) <=> r.from < r.day

(* One score for a date and rule version, whoever races to create it, and   *)
(* none that the column had to cut.                                         *)
OneScorePerRule ==
  \A r, q \in scores : r.day = q.day /\ r.rule = q.rule => r = q

(* The three together.                                                      *)
ScoresAreKept == ScoresHaveOrigin /\ CarriedIsMarked /\ OneScorePerRule

(* SYSTEM_REFERENCE: the last score is carried forward indefinitely until   *)
(* new data is entered.  A carry is never thrown away for its flags.        *)
CarriesIndefinitely ==
  \A w \in Writers :
    call[w].stage = "write" => FlagText(call[w].flags) <= FlagWidth
===============================================================================
