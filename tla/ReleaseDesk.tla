------------------------------ MODULE ReleaseDesk ------------------------------
(***************************************************************************)
(* The release calendar of one indicator, from the weekly feed to the      *)
(* overdue panel: the Forex Factory fetch stores what is scheduled and     *)
(* ingests what has been published, admins enter, move and defer values,   *)
(* and the panel shows the releases for which nothing has been entered.    *)
(*                                                                         *)
(* Time is an integer; Day, Ist (5:30 in the code) and Window (5 minutes)  *)
(* keep their order, Window <= Ist < Day.  The grace period is a day.      *)
(***************************************************************************)
EXTENDS Integers, FiniteSets, SequencesExt

CONSTANTS
  Day, Ist, Window,
  Titles,        \* feed titles of one country
  Resolve,       \* Resolve[title]: None, or [variant, primary, alertOnly]
  Registered,    \* the indicator's release variants; {} if single release
  Times,         \* instants the feed may schedule
  Fetchers, Admins,
  Clock,         \* the instants at which something happens here
  Seeds,         \* calendars to start from
  MaxBorn,       \* bound on deferrals and entries
  Crashes,       \* whether statements may fail halfway through a handler
  None

VARIABLES
  now,
  feed,        \* this week's feed: [title, at, filled, actual]
  events,      \* calendar_events: [id, title, at, filled, actual]
  points,      \* the vintages entered, as [variant, date]
  deferrals,   \* [born, variant, event, until]
  born,        \* creations and entries so far: orders created_at
  fetch,       \* fetch[f]: the run in progress, or the last one's result
  desk,        \* desk[a]: the admin request in progress
  ingested,    \* history: points the fetch wrote, with the instant it had
  captured,    \* history: what the feed held in runs reported successful
  entered,     \* history: entered[v] = born when a value was last entered
  broken       \* history: entries that failed before they were finished

vars == <<now, feed, events, points, deferrals, born, fetch, desk, ingested, captured,
          entered, broken>>

Variants == IF Registered = {} THEN {None} ELSE Registered
Mapped(title) == Resolve[title] # None
UtcDate(t) == t \div Day
IstDate(t) == (t + Ist) \div Day
Today == UtcDate(now)
Idle == [stage |-> "idle"]

Init ==
  /\ now = Min(Clock) /\ feed = {} /\ events \in Seeds /\ points = {} /\ deferrals = {} /\ born = 0
  /\ fetch = [f \in Fetchers |-> Idle]
  /\ desk = [a \in Admins |-> Idle]
  /\ ingested = {} /\ captured = {}
  /\ entered = [v \in Variants |-> 0]
  /\ broken = {}

Tick ==
  /\ now < Max(Clock)
  /\ now' = Min({t \in Clock : t > now})
  /\ UNCHANGED <<feed, events, points, deferrals, born, fetch, desk, ingested, captured,
                 entered, broken>>

(* The feed: a release is scheduled, bare or with forecast and previous; a  *)
(* bare row is filled in; the actual is published once it is time; the week *)
(* passes.                                                                  *)
Row(title, at, filled) == [title |-> title, at |-> at, filled |-> filled, actual |-> FALSE]
Publish ==
  /\ \/ \E title \in Titles, at \in Times, filled \in BOOLEAN :
          /\ ~\E r \in feed : r.title = title /\ r.at = at
          /\ feed' = feed \cup {Row(title, at, filled)}
     \/ \E r \in feed : feed' = (feed \ {r}) \cup {[r EXCEPT !.filled = TRUE]}
     \/ \E r \in feed : now >= r.at /\ r.filled
                          /\ feed' = (feed \ {r}) \cup {[r EXCEPT !.actual = TRUE]}
     \/ \E r \in feed : feed' = feed \ {r}
  /\ UNCHANGED <<now, events, points, deferrals, born, fetch, desk, ingested, captured,
                 entered, broken>>

-------------------------------------------------------------------------------
(* fetchForexFactoryWeek. *)

(* One row of a cluster survives: the one with fields, else the latest.     *)
PickSurvivor(cluster) ==
  LET populated == {r \in cluster : r.filled}
  IN IF Cardinality(populated) = 1 THEN CHOOSE r \in populated : TRUE
     ELSE CHOOSE r \in cluster : \A q \in cluster : q.at <= r.at

(* A cluster starts at an instant no earlier start reaches in its window.   *)
Starts(instants) ==
  CHOOSE starts \in SUBSET instants :
    \A t \in instants : t \in starts <=> \A s \in starts : s < t => t - s > Window

CollapseNearDuplicates(rows) ==
  LET Group(title) == {r \in rows : r.title = title}
      Survivors(group) == {PickSurvivor({r \in group : r.at - start \in 0..Window}) :
                             start \in Starts({r.at : r \in group})}
  IN UNION {Survivors(Group(title)) : title \in Titles}

StartFetch(f) ==
  /\ fetch[f].stage \in {"idle", "done"}
  /\ fetch' = [fetch EXCEPT ![f] =
       [stage |-> "store", todo |-> CollapseNearDuplicates(feed), sent |-> feed,
        event |-> None, found |-> None,
        written |-> 0, mapped |-> 0, deferred |-> 0, scored |-> 0, errors |-> 0]]
  /\ UNCHANGED <<now, feed, events, points, deferrals, born, desk, ingested, captured,
                 entered, broken>>

(* The stored row a release belongs to: the earliest of its title within    *)
(* the window, on either side.                                              *)
Near(title, at) == {e \in events : e.title = title /\ e.at - at \in -Window..Window}
Found(r) ==
  IF Near(r.title, r.at) = {} THEN None
  ELSE CHOOSE e \in Near(r.title, r.at) : \A q \in Near(r.title, r.at) : e.at <= q.at

FindEvent(f) ==
  /\ fetch[f].stage = "store"
  /\ fetch[f].event = None
  /\ \E r \in fetch[f].todo :
       /\ \A q \in fetch[f].todo : q.title = r.title => r.at <= q.at
       /\ fetch' = [fetch EXCEPT ![f].event = r, ![f].found = Found(r)]
  /\ UNCHANGED <<now, feed, events, points, deferrals, born, desk, ingested, captured,
                 entered, broken>>

(* Variant: the incoming instant is always the better one.                  *)
MergedMoves(e, r) == [e EXCEPT !.at = r.at, !.filled = @ \/ r.filled, !.actual = r.actual]

(* An exact match is refreshed whole.  Otherwise the row that has forecast  *)
(* or previous keeps them and its instant, the stored one if both or        *)
(* neither do; every other column is the incoming one's.                    *)
Merged(e, r) ==
  [e EXCEPT !.actual = r.actual,
            !.at     = IF r.filled /\ ~e.filled THEN r.at ELSE @,
            !.filled = IF r.at = e.at THEN r.filled ELSE @ \/ r.filled]

(* What upsert leaves in calendar_events, or {} where the unique key of     *)
(* title and instant refuses it.                                            *)
Stored(found, r) ==
  LET row == IF found = None
               THEN [id |-> Cardinality(events) + 1, title |-> r.title, at |-> r.at,
                     filled |-> r.filled, actual |-> r.actual]
               ELSE Merged(found, r)
      rest == {e \in events : e.id # row.id}
  IN IF \E e \in rest : e.title = row.title /\ e.at = row.at THEN {} ELSE rest \cup {row}

(* The scoring path of an event once it is stored, or could not be: mapped, *)
(* alert-only, deferred for want of an actual, or to be written.            *)
Counted(c, r, stored) ==
  LET m == Resolve[r.title]
  IN [c EXCEPT !.written  = @ + IF stored THEN 1 ELSE 0,
               !.errors   = @ + IF stored THEN 0 ELSE 1,
               !.mapped   = @ + IF m # None THEN 1 ELSE 0,
               !.deferred = @ + IF m = None THEN 0
                                ELSE IF ~m.alertOnly /\ ~r.actual THEN 1 ELSE 0]

Scoreable(r) ==
  LET m == Resolve[r.title] IN IF m = None THEN FALSE ELSE ~m.alertOnly /\ r.actual
Next1(c, r) ==
  IF Scoreable(r) THEN [c EXCEPT !.stage = "score", !.todo = @ \ {r}]
  ELSE [c EXCEPT !.event = None, !.found = None, !.todo = @ \ {r}]

StoreEvent(f) ==
  /\ fetch[f].stage = "store"
  /\ fetch[f].event # None
  /\ LET r == fetch[f].event
         stored == Stored(fetch[f].found, r)
     IN \/ /\ stored # {}
           /\ events' = stored
           /\ fetch' = [fetch EXCEPT ![f] = Next1(Counted(@, r, TRUE), r)]
        \/ /\ stored = {} \/ Crashes
           /\ fetch' = [fetch EXCEPT ![f] = Next1(Counted(@, r, FALSE), r)]
           /\ UNCHANGED events
  /\ UNCHANGED <<now, feed, points, deferrals, born, desk, ingested, captured, entered, broken>>

Point(variant, date) == [variant |-> variant, date |-> date]

(* ingestRateDecision and ingestRegularEvent: the value goes to the UTC     *)
(* date the feed has, whatever instant the calendar row kept.               *)
ScoreEvent(f) ==
  /\ fetch[f].stage = "score"
  /\ LET r == fetch[f].event
         v == Resolve[r.title].variant
         on == [fetch[f] EXCEPT !.stage = "store", !.event = None, !.found = None]
     IN \/ /\ points' = points \cup {Point(v, UtcDate(r.at))}
           /\ ingested' = ingested \cup {[variant |-> v, title |-> r.title, at |-> r.at]}
           /\ fetch' = [fetch EXCEPT ![f] = [on EXCEPT !.scored = @ + 1]]
        \/ /\ Crashes
           /\ fetch' = [fetch EXCEPT ![f] = [on EXCEPT !.errors = @ + 1]]
           /\ UNCHANGED <<points, ingested>>
  /\ UNCHANGED <<now, feed, events, deferrals, born, desk, captured, entered, broken>>

ResolveRunStatus(c) ==
  IF c.sent = {} \/ c.written = 0 \/ c.mapped = 0 THEN "failed"
  ELSE IF c.errors > 0 THEN "partial"
  ELSE IF c.deferred = c.mapped THEN "partial" ELSE "success"

FinishFetch(f) ==
  /\ fetch[f].stage = "store"
  /\ fetch[f].event = None
  /\ fetch[f].todo = {}
  /\ fetch' = [fetch EXCEPT ![f] =
       [stage |-> "done", status |-> ResolveRunStatus(@), mapped |-> @.mapped,
        scored |-> @.scored]]
  /\ captured' = captured \cup
       IF ResolveRunStatus(fetch[f]) = "success"
         THEN {[title |-> r.title, at |-> r.at] : r \in fetch[f].sent} ELSE {}
  /\ UNCHANGED <<now, feed, events, points, deferrals, born, desk, ingested, entered, broken>>

(* The feed is not reached, or the process ends.                            *)
CrashFetch(f) ==
  /\ Crashes
  /\ fetch[f].stage \in {"store", "score"}
  /\ fetch' = [fetch EXCEPT ![f] = Idle]
  /\ UNCHANGED <<now, feed, events, points, deferrals, born, desk, ingested, captured,
                 entered, broken>>

-------------------------------------------------------------------------------
(* Entering and moving values. *)

(* ingestManualEntry for a date that is not in the future and a variant     *)
(* that is registered.  A typed previous that is not the last stored actual *)
(* of the variant needs a confirmation, or nothing is written.              *)
EnterValue(a, v, date, mismatch, confirmed) ==
  /\ desk[a] = Idle
  /\ date <= Today
  /\ mismatch => confirmed /\ \E p \in points : p.variant = v
  /\ born < MaxBorn
  /\ points' = points \cup {Point(v, date)}
  /\ born' = born + 1
  /\ entered' = [entered EXCEPT ![v] = born + 1]
  /\ desk' = [desk EXCEPT ![a] = [stage |-> "clear", variant |-> v]]
  /\ UNCHANGED <<now, feed, events, deferrals, fetch, ingested, captured, broken>>

(* Variant: a standing deferral survives the entry.                         *)
ClearedOneOffs(v) == {d \in deferrals : d.variant # v \/ d.event = None}
(* clearForEntry: what is left of the deferrals.                            *)
Cleared(v) == {d \in deferrals : d.variant # v}

ClearDeferrals(a) ==
  /\ desk[a].stage = "clear"
  /\ deferrals' = Cleared(desk[a].variant)
  /\ desk' = [desk EXCEPT ![a] = Idle]
  /\ UNCHANGED <<now, feed, events, points, born, fetch, ingested, captured, entered, broken>>

(* The statement after the upsert fails: the request reports an error, and  *)
(* the value is stored.                                                     *)
EntryFails(a) ==
  /\ Crashes
  /\ desk[a].stage = "clear"
  /\ broken' = broken \cup {desk[a].variant}
  /\ desk' = [desk EXCEPT ![a] = Idle]
  /\ UNCHANGED <<now, feed, events, points, deferrals, born, fetch, ingested, captured, entered>>

(* editManualEntry: a point moves to another date or registered variant;    *)
(* deferrals stay.  The unique key refuses a taken place.                   *)
EditEntry(a, p, v, date) ==
  /\ desk[a] = Idle
  /\ Point(v, date) \notin points
  /\ points' = (points \ {p}) \cup {Point(v, date)}
  /\ ingested' = {i \in ingested : Point(i.variant, UtcDate(i.at)) # p}
  /\ UNCHANGED <<now, feed, events, deferrals, born, fetch, desk, captured, entered, broken>>

-------------------------------------------------------------------------------
(* Deferring. *)

(* A deferral of one event; any number of them may exist.                   *)
DeferEvent(a, e, until) ==
  /\ desk[a] = Idle
  /\ Mapped(e.title)
  /\ born < MaxBorn
  /\ born' = born + 1
  /\ deferrals' = deferrals \cup {[born |-> born + 1, variant |-> Resolve[e.title].variant,
                                   event |-> e.id, until |-> until]}
  /\ UNCHANGED <<now, feed, events, points, fetch, desk, ingested, captured, entered, broken>>

Standing(v) == {d \in deferrals : d.event = None /\ d.variant = v}

(* A deferral of every release of a variant: find one in a transaction,     *)
DeferStanding(a, v, until) ==
  /\ desk[a] = Idle
  /\ born < MaxBorn
  /\ \E found \in IF Standing(v) = {} THEN {None} ELSE Standing(v) :
       desk' = [desk EXCEPT ![a] =
         [stage |-> "standing", variant |-> v, until |-> until, found |-> found]]
  /\ UNCHANGED <<now, feed, events, points, deferrals, born, fetch, ingested, captured,
                 entered, broken>>

(* and change or create it.  The transaction is Read Committed; the partial *)
(* unique index on indicator and variant refuses a second row, but not      *)
(* where the variant is null: nulls are distinct.                           *)
WriteStanding(a) ==
  LET d == desk[a]
  IN /\ d.stage = "standing"
     /\ desk' = [desk EXCEPT ![a] = Idle]
     /\ \/ /\ d.found \in deferrals
           /\ deferrals' = (deferrals \ {d.found}) \cup {[d.found EXCEPT !.until = d.until]}
           /\ UNCHANGED born
        \/ /\ d.found = None
           /\ d.variant = None \/ Standing(d.variant) = {}
           /\ born < MaxBorn
           /\ born' = born + 1
           /\ deferrals' = deferrals \cup
                {[born |-> born + 1, variant |-> d.variant, event |-> None, until |-> d.until]}
        \/ /\ \/ d.found # None /\ d.found \notin deferrals
              \/ d.found = None /\ d.variant # None /\ Standing(d.variant) # {}
              \/ d.found = None /\ born >= MaxBorn
           /\ UNCHANGED <<deferrals, born>>
     /\ UNCHANGED <<now, feed, events, points, fetch, ingested, captured, entered, broken>>

Undefer(a, d) ==
  /\ desk[a] = Idle
  /\ deferrals' = deferrals \ {d}
  /\ UNCHANGED <<now, feed, events, points, born, fetch, desk, ingested, captured, entered, broken>>

Untils == {None} \cup 0..UtcDate(Max(Clock))
Next ==
  \/ Tick
  \/ Publish
  \/ \E f \in Fetchers : \/ StartFetch(f) \/ FindEvent(f) \/ StoreEvent(f) \/ ScoreEvent(f)
                         \/ FinishFetch(f) \/ CrashFetch(f)
  \/ \E a \in Admins :
       \/ \E v \in Variants, date \in 0..UtcDate(Max(Clock)), mismatch, confirmed \in BOOLEAN :
            EnterValue(a, v, date, mismatch, confirmed)
       \/ ClearDeferrals(a) \/ EntryFails(a) \/ WriteStanding(a)
       \/ \E p \in points, v \in Variants, date \in 0..UtcDate(Max(Clock)) :
             EditEntry(a, p, v, date)
       \/ \E e \in events, until \in Untils : DeferEvent(a, e, until)
       \/ \E v \in Variants, until \in Untils : DeferStanding(a, v, until)
       \/ \E d \in deferrals : Undefer(a, d)

Spec == Init /\ [][Next]_vars
-------------------------------------------------------------------------------
(* The panel. *)

(* A value is on file for the event's date, by UTC or by Indian time.       *)
Entered(e) ==
  \E date \in {UtcDate(e.at), IstDate(e.at)} : Point(Resolve[e.title].variant, date) \in points

Awaited(e) == Mapped(e.title) /\ Resolve[e.title].primary /\ ~Entered(e)
Overdue  == {e \in events : e.at < now - Day /\ Awaited(e)}
DueToday == {e \in events : UtcDate(e.at) = Today /\ e.at > now - Day /\ Awaited(e)}

Newest(ds) == CHOOSE d \in ds : \A q \in ds : q.born <= d.born
(* The deferral that speaks for an event: its own, else the standing one;   *)
(* the newest of several.                                                   *)
ActiveDeferral(e) ==
  LET own == {d \in deferrals : d.event = e.id}
      standing == Standing(Resolve[e.title].variant)
  IN IF own # {} THEN Newest(own) ELSE IF standing # {} THEN Newest(standing) ELSE None
Expired(d) == IF d.until = None THEN FALSE ELSE d.until < Today
ReleaseState(e) ==
  LET d == ActiveDeferral(e)
  IN IF d = None THEN "overdue"
     ELSE IF Expired(d) THEN "overdue"
     ELSE IF d.until = None THEN "deferred_indefinitely" ELSE "deferred_to_date"
Badge == Cardinality({e \in Overdue : ReleaseState(e) = "overdue"})
-------------------------------------------------------------------------------
(* What the fetch has ingested is not asked for again, however the calendar *)
(* row and the feed disagree on the instant within the window: only a row   *)
(* kept on the far side of midnight, a day after the feed's, is.            *)
IngestedIsNotOverdue ==
  \A e \in Overdue, i \in ingested :
    i.title = e.title /\ e.at - i.at \in -Window..Window => UtcDate(i.at) < UtcDate(e.at)

(* Every occurrence the feed held in a run that was reported successful is  *)
(* on the calendar, within the window of the instant it had, whatever was   *)
(* collapsed, merged or retried.  So long, that is, as the feed moves a     *)
(* release within one window: a row drifts along three instants.            *)
CapturedIsKept == \A c \in captured : Near(c.title, c.at) # {}

(* Deferral is a snooze: a release is hidden from the overdue list only by  *)
(* a deferral newer than the last value entered for its variant, except     *)
(* while that entry is being finished, or where it failed halfway.          *)
SnoozedSinceEntry ==
  \A e \in Overdue :
    LET v == Resolve[e.title].variant
    IN ReleaseState(e) # "overdue" =>
         \/ ActiveDeferral(e).born > entered[v]
         \/ v \in broken
         \/ \E a \in Admins : desk[a].stage = "clear" /\ desk[a].variant = v
===============================================================================
