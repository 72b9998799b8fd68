----------------------------- MODULE VintageUpsert -----------------------------
(***************************************************************************)
(* Find the current row of a key, and unless it already says the same,     *)
(* demote it by id and insert its successor: the write of NIFTY            *)
(* scorecards, EdgeFinder scorecards, pair scores, COT rows and compass    *)
(* classifications.  Nothing but the vintage timestamp is unique in these  *)
(* tables, and the read is not locked: two writers of one key (the cron    *)
(* and an admin, two instances) can both act on what they read.  Compass   *)
(* inputs have a unique key and are changed in place.                      *)
(*                                                                         *)
(* One key.  A payload is its scalar columns and its JSON columns; JSON is *)
(* the sequence of keys in writing order, which the jsonb column does not  *)
(* keep.                                                                   *)
(***************************************************************************)
EXTENDS Integers, FiniteSets, Sequences

CONSTANTS
  Writers, Payloads,
  Sorted(_),   \* external: the order in which jsonb returns the keys
  MaxRows,     \* bound on rows ever inserted
  None

VARIABLES
  rows,        \* rows of the key: [id, num, json, text, cur]
  calls,       \* calls[w]: payload in hand and the current row it read
  stale,       \* history: commits based on a row no longer the current one
  last,        \* history: payload of the last insertion
  result       \* result[w]: inserted, revised, updated or skipped

vars == <<rows, calls, stale, last, result>>

Quiet == [stage |-> "quiet"]
Current == {r \in rows : r.cur}
RowOf(n, p) == [id |-> n, num |-> p.num, json |-> Sorted(p.json), text |-> p.text, cur |-> TRUE]
NewId == Cardinality(rows) + 1

Init ==
  /\ rows \in {{}} \cup {{RowOf(1, p)} : p \in Payloads}
  /\ calls = [w \in Writers |-> Quiet]
  /\ stale = 0
  /\ last = None
  /\ result = [w \in Writers |-> None]

(* The first current row found, if any; which one is unspecified when       *)
(* there are several.  same is the table's comparison.                      *)
Find(w, p, same) ==
  /\ calls[w] = Quiet
  /\ \E found \in IF Current = {} THEN {None} ELSE Current :
       calls' = [calls EXCEPT ![w] =
         [stage |-> "found", payload |-> p, found |-> found, same |-> same]]
  /\ result' = [result EXCEPT ![w] = None]
  /\ UNCHANGED <<rows, stale, last>>

(* Every column, JSON by its text.                                          *)
AllColumns(r, p) == r.num = p.num /\ r.text = p.text /\ r.json = p.json
(* Scalars only.                                                            *)
NumbersOnly(r, p) == r.num = p.num /\ r.text = p.text
(* JSON entry by entry.                                                     *)
ByEntry(r, p) == r.num = p.num /\ r.text = p.text /\ {r.json[i] : i \in DOMAIN r.json}
                                   = {p.json[i] : i \in DOMAIN p.json}

Matches(c) ==
  CASE c.same = "columns" -> AllColumns(c.found, c.payload)
    [] c.same = "numbers" -> NumbersOnly(c.found, c.payload)
    [] c.same = "entries" -> ByEntry(c.found, c.payload)

Skip(w) ==
  /\ calls[w].stage = "found"
  /\ calls[w].found # None
  /\ Matches(calls[w])
  /\ calls' = [calls EXCEPT ![w] = Quiet]
  /\ result' = [result EXCEPT ![w] = "skipped"]
  /\ UNCHANGED <<rows, stale, last>>

(* Variant: the row found is not demoted.                                   *)
SucceedNoDemotion(c) == rows \cup {RowOf(NewId, c.payload)}
(* Demote the row found, by id, current or not; insert its successor.       *)
Succeed(c) ==
  {[r EXCEPT !.cur = @ /\ (c.found = None \/ r.id # c.found.id)] : r \in rows}
    \cup {RowOf(NewId, c.payload)}

(* What the call read is no longer so, or was never the whole truth.        *)
Stale(c) == IF c.found = None THEN Current # {} ELSE c.found \notin Current

Commit(w) ==
  LET c == calls[w]
  IN /\ c.stage = "found"
     /\ c.found # None => ~Matches(c)
     /\ Cardinality(rows) < MaxRows
     /\ rows' = Succeed(c)
     /\ stale' = stale + IF Stale(c) THEN 1 ELSE 0
     /\ last' = c.payload
     /\ result' = [result EXCEPT ![w] = IF c.found = None THEN "inserted" ELSE "revised"]
     /\ calls' = [calls EXCEPT ![w] = Quiet]

(* The connection, or the process, goes away before the commit.             *)
Abort(w) ==
  /\ calls[w] # Quiet
  /\ calls' = [calls EXCEPT ![w] = Quiet]
  /\ UNCHANGED <<rows, stale, last, result>>

(* What the writers of the five tables compare.                             *)
PersistScorecard(w)     == \E p \in Payloads : Find(w, p, "entries")
UpsertScorecard(w)      == \E p \in Payloads : Find(w, p, "columns")
UpsertPairScore(w)      == \E p \in Payloads : Find(w, p, "columns")
UpsertClassification(w) == \E p \in Payloads : Find(w, p, "columns")
UpsertCotData(w)        == \E p \in Payloads : Find(w, p, "numbers")

Next == \E w \in Writers :
  \/ PersistScorecard(w) \/ UpsertScorecard(w) \/ UpsertPairScore(w)
  \/ UpsertClassification(w) \/ UpsertCotData(w)
  \/ Skip(w) \/ Commit(w) \/ Abort(w)

Spec == Init /\ [][Next]_vars
-------------------------------------------------------------------------------
(* Two current rows come from overlapping writers and from nothing else:    *)
(* each write based on a row no longer current leaves one too many, and no  *)
(* later write removes it.                                                  *)
ExtraNeedsOverlap == rows # {} => Cardinality(Current) = 1 + stale

(* A key once written never is without a current row, whatever aborts, and  *)
(* the payload committed last is current, even beside an extra row.         *)
LastIsCurrent ==
  last # None => \E r \in Current : r.num = last.num /\ r.text = last.text

(* Both together.                                                           *)
VintagesHold == ExtraNeedsOverlap /\ LastIsCurrent

(* The repositories' comment: match on all columns and JSON breakdowns is a *)
(* skip.  Only a payload that differs supersedes the row.                   *)
RevisionDiffers ==
  \A w \in Writers :
    calls[w].stage = "found" /\ calls[w].found # None =>
      (~Matches(calls[w]) => RowOf(0, calls[w].payload)
                              # [calls[w].found EXCEPT !.id = 0, !.cur = TRUE])
===============================================================================
