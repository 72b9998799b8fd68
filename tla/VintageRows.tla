------------------------------ MODULE VintageRows ------------------------------
(***************************************************************************)
(* The rows of data_points, the payloads written into them, and the rules  *)
(* by which a writer compares a payload with the row it found.             *)
(***************************************************************************)
EXTENDS Integers, FiniteSets, Sequences

CONSTANTS
  Calls,        \* write calls (upsert, persistFiiDii, submitManualInput)
  Indicators,
  Slots,        \* a slot is an (observationDate, variant) pair
  Forecasts,    \* non-null values of the optional columns
  Plans,        \* the payloads a call may carry
  Seeds,        \* the tables the store may start from
  Null,         \* SQL NULL in an optional column
  Omitted,      \* an optional argument that is undefined
  NoRow,        \* findFirst found nothing
  Seeded        \* provenance of a row that was there at the start

Key     == [ind : Indicators, slot : Slots]
Kinds   == {"upsert", "batch", "override"}
Item    == [key : Key, val : Nat, fc : Forecasts \cup {Null, Omitted}]
Row     == [id : Nat, key : Key, val : Nat, fc : Forecasts \cup {Null},
            cur : BOOLEAN, by : Calls \cup {Seeded}]
Actions == {"inserted", "revised", "skipped"}

AtMostOneCurrentIn(table) ==
  \A r, t \in table : r.cur /\ t.cur /\ r.key = t.key => r = t

(***************************************************************************)
(* Every plan names its keys once, and a start table has at most one       *)
(* current row per key.                                                    *)
(***************************************************************************)
ASSUME PlansAssumption ==
  /\ Plans \subseteq [kind : Kinds, items : Seq(Item)]
  /\ \A p \in Plans :
       /\ Len(p.items) >= 1
       /\ \A i, j \in 1..Len(p.items) : p.items[i].key = p.items[j].key => i = j
ASSUME SeedsAssumption ==
  \A s \in Seeds :
    /\ s.rows \subseteq Row /\ s.nextId \in Nat
    /\ \A r \in s.rows : r.id < s.nextId /\ r.by = Seeded
    /\ \A r, t \in s.rows : r.id = t.id => r = t
    /\ AtMostOneCurrentIn(s.rows)
ASSUME RowConstantsAssumption ==
  /\ NoRow \notin Row /\ Seeded \notin Calls
  /\ Null \notin Forecasts /\ Omitted \notin Forecasts \cup {Null}

-------------------------------------------------------------------------------
(* Submitted values are counted in tenths of the column's last digit:      *)
(* Decimal(20, 6) keeps a whole number of digits, rounded half up.         *)
Rounded(v) == (v + 5) \div 10

(* Variant: an upsert that compares before it rounds.                      *)
MatchesUnrounded(k, item, row) ==
  /\ k \in {"upsert", "batch"}
  /\ 10 * row.val = item.val
  /\ k = "upsert" => item.fc \in {Omitted, row.fc}

(* What makes a call skip its key.  upsert compares the rounded value and  *)
(* the optional columns it was given; the batch compares the value as      *)
(* computed, before the column rounds it; an override never skips.         *)
Matches(k, item, row) ==
  \/ /\ k = "upsert"
     /\ row.val = Rounded(item.val)
     /\ item.fc \in {Omitted, row.fc}
  \/ /\ k = "batch"
     /\ 10 * row.val = item.val

(* The optional columns of a new vintage: what was submitted, else what    *)
(* `existing` held; the batch and the override write neither.              *)
NewForecast(k, item, old) ==
  CASE k # "upsert"                      -> Null
    [] k = "upsert" /\ item.fc # Omitted -> item.fc
    [] OTHER                             -> IF old = NoRow THEN Null ELSE old.fc

Superseded(r) == [r EXCEPT !.cur = FALSE]
===============================================================================
