------------------------------ MODULE DataPoints ------------------------------
(***************************************************************************)
(* The vintage store behind data_points.  Every ingestion job, scraper and *)
(* manual entry writes through one of three Read Committed transactions:   *)
(*                                                                         *)
(*   upsert    dataPointsRepository.upsert: one key, two attempts;         *)
(*   batch     persistFiiDii: several keys in a fixed order, two attempts; *)
(*   override  submitManualInput with allowOverwrite: one key, one attempt.*)
(*                                                                         *)
(* Each is findFirst / update / create per key and a commit, and the steps *)
(* of different calls interleave.  An admin's editInPlace writes the same  *)
(* rows outside any transaction.  The partial unique index                 *)
(* data_points_current_unique, the row locks and the waiting they cause    *)
(* are modelled as PostgreSQL applies them under Read Committed.           *)
(***************************************************************************)
EXTENDS VintageRows

CONSTANTS
  Edits,        \* admin edits (editManualEntry)
  EditValues,   \* values an admin may type over an existing one
  MaxFaults     \* bound on lost connections and transaction timeouts

ASSUME BoundsAssumption == EditValues \subseteq Nat /\ MaxFaults \in Nat

VARIABLES
  rows,     \* the committed rows of data_points
  nextId,   \* the next row id
  st,       \* where each call is
  plan,     \* its payload
  idx,      \* the item it is working on
  att,      \* its attempt
  seen,     \* `existing`: the row its findFirst returned
  held,     \* ids of the rows it has demoted and not committed
  pend,     \* rows it has created and not committed
  out,      \* the actions it will report
  est, etarget, eslot, eval,   \* an edit: where it is, its row, its new fields
  faults    \* lost connections so far

callVars == <<st, plan, idx, att, seen, held, pend, out>>
editVars == <<est, etarget, eslot, eval>>
vars     == <<rows, nextId, callVars, editVars, faults>>

NoPlan == [kind |-> "upsert", items |-> <<>>]

Init ==
  /\ \E s \in Seeds : rows = s.rows /\ nextId = s.nextId
  /\ st   = [c \in Calls |-> "idle"]
  /\ plan = [c \in Calls |-> NoPlan]
  /\ idx  = [c \in Calls |-> 1]
  /\ att  = [c \in Calls |-> 1]
  /\ seen = [c \in Calls |-> NoRow]
  /\ held = [c \in Calls |-> {}]
  /\ pend = [c \in Calls |-> {}]
  /\ out  = [c \in Calls |-> <<>>]
  /\ est     = [e \in Edits |-> "idle"]
  /\ etarget = [e \in Edits |-> 0]
  /\ eslot   = [e \in Edits |-> Omitted]
  /\ eval    = [e \in Edits |-> Omitted]
  /\ faults = 0

(* Variants: the retry left out, and one attempt too many.                 *)
NoRetry(k)       == 1
OneRetryMore(k)  == IF k = "override" THEN 1 ELSE 3

MaxAttempts(k) == IF k = "override" THEN 1 ELSE 2

-------------------------------------------------------------------------------
(* What PostgreSQL sees. *)

CurrentAt(k) == {r \in rows : r.cur /\ r.key = k}

Locked(id, c) == \E d \in Calls \ {c} : id \in held[d]

(* A unique check on key k by call c has to wait for another transaction   *)
(* that created a current row under k, or demoted the one that is there.   *)
KeyBusy(k, c) ==
  \E d \in Calls \ {c} :
    \/ \E r \in pend[d] : r.key = k
    \/ \E r \in CurrentAt(k) : r.id \in held[d]

(* Variant: the store as it was before the index existed.                  *)
IndexMissing(k, c) == FALSE

(* data_points_current_unique refuses a second current row under k: c does *)
(* not count the rows it has demoted itself, but counts its own inserts.   *)
IndexRefuses(k, c) ==
  \/ \E r \in CurrentAt(k) : r.id \notin held[c]
  \/ \E r \in pend[c] : r.key = k

-------------------------------------------------------------------------------
(* A call. *)

item(c) == plan[c].items[idx[c]]
kind(c) == plan[c].kind

Running == {"read", "demote", "insert", "commit"}

Start(c) ==
  /\ st[c] = "idle"
  /\ \E p \in Plans : plan' = [plan EXCEPT ![c] = p]
  /\ st' = [st EXCEPT ![c] = "read"]
  /\ UNCHANGED <<rows, nextId, idx, att, seen, held, pend, out, editVars, faults>>

(* The item is settled with action a: go on to the next, or to the commit. *)
Settle(c, a) ==
  /\ out' = [out EXCEPT ![c] = Append(@, a)]
  /\ IF idx[c] < Len(plan[c].items)
       THEN /\ idx' = [idx EXCEPT ![c] = @ + 1]
            /\ st'  = [st EXCEPT ![c] = "read"]
       ELSE /\ st'  = [st EXCEPT ![c] = "commit"]
            /\ UNCHANGED idx

(* findFirst returns the committed current row of the key, if any.         *)
FindSkip(c) ==
  /\ st[c] = "read"
  /\ \E r \in CurrentAt(item(c).key) :
       /\ Matches(kind(c), item(c), r)
       /\ seen' = [seen EXCEPT ![c] = r]
  /\ Settle(c, "skipped")
  /\ UNCHANGED <<rows, nextId, plan, att, held, pend, editVars, faults>>

FindStale(c) ==
  /\ st[c] = "read"
  /\ \E r \in CurrentAt(item(c).key) :
       /\ ~ Matches(kind(c), item(c), r)
       /\ seen' = [seen EXCEPT ![c] = r]
  /\ st' = [st EXCEPT ![c] = "demote"]
  /\ UNCHANGED <<rows, nextId, plan, idx, att, held, pend, out, editVars, faults>>

FindNone(c) ==
  /\ st[c] = "read"
  /\ CurrentAt(item(c).key) = {}
  /\ seen' = [seen EXCEPT ![c] = NoRow]
  /\ st' = [st EXCEPT ![c] = "insert"]
  /\ UNCHANGED <<rows, nextId, plan, idx, att, held, pend, out, editVars, faults>>

(* Variant: the update committed on its own, outside the transaction.      *)
DemoteAutocommit(c) ==
  /\ st[c] = "demote"
  /\ ~ Locked(seen[c].id, c)
  /\ rows' = {IF r.id = seen[c].id THEN Superseded(r) ELSE r : r \in rows}
  /\ st' = [st EXCEPT ![c] = "insert"]
  /\ UNCHANGED <<nextId, plan, idx, att, seen, held, pend, out, editVars, faults>>

(* update where id = existing.id: waits for the row lock, then clears      *)
(* isCurrent of whatever that row has become.                              *)
Demote(c) ==
  /\ st[c] = "demote"
  /\ ~ Locked(seen[c].id, c)
  /\ held' = [held EXCEPT ![c] = @ \cup {seen[c].id}]
  /\ st' = [st EXCEPT ![c] = "insert"]
  /\ UNCHANGED <<rows, nextId, plan, idx, att, seen, pend, out, editVars, faults>>

NewRow(c) ==
  [id  |-> nextId, key |-> item(c).key, val |-> Rounded(item(c).val),
   fc  |-> NewForecast(kind(c), item(c), seen[c]), cur |-> TRUE, by |-> c]

Create(c) ==
  /\ st[c] = "insert"
  /\ ~ KeyBusy(item(c).key, c)
  /\ ~ IndexRefuses(item(c).key, c)
  /\ pend' = [pend EXCEPT ![c] = @ \cup {NewRow(c)}]
  /\ nextId' = nextId + 1
  /\ Settle(c, IF seen[c] = NoRow THEN "inserted" ELSE "revised")
  /\ UNCHANGED <<rows, plan, att, seen, held, editVars, faults>>

(* Variant: results of the failed attempt are still reported.              *)
RollbackKeepsResults(c) ==
  /\ held' = [held EXCEPT ![c] = {}]
  /\ pend' = [pend EXCEPT ![c] = {}]
  /\ idx'  = [idx  EXCEPT ![c] = 1]
  /\ seen' = [seen EXCEPT ![c] = NoRow]
  /\ UNCHANGED <<rows, nextId, plan, out, editVars>>

(* A transaction that ends without committing leaves nothing behind.       *)
Rollback(c) ==
  /\ held' = [held EXCEPT ![c] = {}]
  /\ pend' = [pend EXCEPT ![c] = {}]
  /\ out'  = [out  EXCEPT ![c] = <<>>]
  /\ idx'  = [idx  EXCEPT ![c] = 1]
  /\ seen' = [seen EXCEPT ![c] = NoRow]
  /\ UNCHANGED <<rows, nextId, plan, editVars>>

(* Variant: the insert is repeated without reading the winner's row.       *)
CreateRefusedBlind(c) ==
  /\ st[c] = "insert"
  /\ ~ KeyBusy(item(c).key, c)
  /\ IndexRefuses(item(c).key, c)
  /\ UNCHANGED vars

(* The unique violation: the whole transaction is retried once, then the   *)
(* error is thrown to the caller.                                          *)
CreateRefused(c) ==
  /\ st[c] = "insert"
  /\ ~ KeyBusy(item(c).key, c)
  /\ IndexRefuses(item(c).key, c)
  /\ IF att[c] < MaxAttempts(kind(c))
       THEN /\ att' = [att EXCEPT ![c] = @ + 1]
            /\ st'  = [st EXCEPT ![c] = "read"]
       ELSE /\ st'  = [st EXCEPT ![c] = "conflict"]
            /\ UNCHANGED att
  /\ Rollback(c)
  /\ UNCHANGED faults

(* A lost connection, a transaction timeout or a crash of the process:     *)
(* not a unique violation, so never retried.                               *)
Fault(c) ==
  /\ faults < MaxFaults
  /\ st[c] \in Running
  /\ faults' = faults + 1
  /\ st' = [st EXCEPT ![c] = "error"]
  /\ Rollback(c)
  /\ UNCHANGED att

Commit(c) ==
  /\ st[c] = "commit"
  /\ rows' = {IF r.id \in held[c] THEN Superseded(r) ELSE r : r \in rows} \cup pend[c]
  /\ held' = [held EXCEPT ![c] = {}]
  /\ pend' = [pend EXCEPT ![c] = {}]
  /\ st'   = [st EXCEPT ![c] = "done"]
  /\ UNCHANGED <<nextId, plan, idx, att, seen, out, editVars, faults>>

-------------------------------------------------------------------------------
(* An edit: editManualEntry loads the row and refuses a superseded one;    *)
(* editInPlace then updates it by id in one statement of its own.          *)

EditLoad(e) ==
  /\ est[e] = "idle"
  /\ \E r \in rows :
       /\ r.cur
       /\ etarget' = [etarget EXCEPT ![e] = r.id]
  /\ \E s \in Slots \cup {Omitted}, v \in EditValues \cup {Omitted} :
       /\ s # Omitted \/ v # Omitted
       /\ eslot' = [eslot EXCEPT ![e] = s]
       /\ eval'  = [eval EXCEPT ![e] = v]
  /\ est' = [est EXCEPT ![e] = "write"]
  /\ UNCHANGED <<rows, nextId, callVars, faults>>

Edited(e, r) ==
  [r EXCEPT !.key.slot = IF eslot[e] = Omitted THEN @ ELSE eslot[e],
            !.val      = IF eval[e] = Omitted THEN @ ELSE Rounded(eval[e])]

MovesCurrent(e, r) == r.cur /\ Edited(e, r).key # r.key

Unlocked(id) == \A d \in Calls : id \notin held[d]

(* Variant: an update that does not wait for an open transaction's rows.   *)
KeyNotWaitedFor(k) == TRUE

KeyUntouched(k) ==
  \A d \in Calls : /\ \A r \in pend[d] : r.key # k
                   /\ \A r \in CurrentAt(k) : r.id \notin held[d]

EditWrite(e) ==
  /\ est[e] = "write"
  /\ \E r \in rows :
       /\ r.id = etarget[e]
       /\ Unlocked(r.id)
       /\ MovesCurrent(e, r) =>
            KeyUntouched(Edited(e, r).key) /\ CurrentAt(Edited(e, r).key) = {}
       /\ rows' = (rows \ {r}) \cup {Edited(e, r)}
  /\ est' = [est EXCEPT ![e] = "done"]
  /\ UNCHANGED <<nextId, callVars, etarget, eslot, eval, faults>>

(* The edit would put a second current row under its new key.              *)
EditRefused(e) ==
  /\ est[e] = "write"
  /\ \E r \in rows :
       /\ r.id = etarget[e]
       /\ Unlocked(r.id)
       /\ MovesCurrent(e, r)
       /\ KeyUntouched(Edited(e, r).key) /\ CurrentAt(Edited(e, r).key) # {}
  /\ est' = [est EXCEPT ![e] = "conflict"]
  /\ UNCHANGED <<rows, nextId, callVars, etarget, eslot, eval, faults>>

-------------------------------------------------------------------------------
Step(c) == \/ FindSkip(c) \/ FindStale(c) \/ FindNone(c) \/ Demote(c)
           \/ Create(c) \/ CreateRefused(c) \/ Commit(c)
EditStep(e) == EditWrite(e) \/ EditRefused(e)

Returned == {"done", "conflict", "error"}

(* Every call has returned: the only state in which nothing need happen.   *)
Quiet == /\ \A c \in Calls : st[c] \in Returned
         /\ \A e \in Edits : est[e] # "write"
         /\ UNCHANGED vars

Next == \/ \E c \in Calls : Start(c) \/ Step(c) \/ Fault(c)
        \/ \E e \in Edits : EditLoad(e) \/ EditStep(e)
        \/ Quiet

Spec == Init /\ [][Next]_vars

(* A started call is an awaited promise and the database serves every      *)
(* statement, so its steps go on; nothing obliges a call to be made.       *)
FairSpec == Spec /\ (\A c \in Calls : WF_vars(Step(c)))
                 /\ (\A e \in Edits : WF_vars(EditStep(e)))

-------------------------------------------------------------------------------
(* Properties. *)

TypeOK ==
  /\ rows \subseteq Row /\ nextId \in Nat
  /\ st   \in [Calls -> {"idle"} \cup Running \cup Returned]
  /\ plan \in [Calls -> Plans \cup {NoPlan}]
  /\ idx  \in [Calls -> Nat \ {0}]
  /\ att  \in [Calls -> 1..2]
  /\ seen \in [Calls -> Row \cup {NoRow}]
  /\ held \in [Calls -> SUBSET Nat]
  /\ pend \in [Calls -> SUBSET Row]
  /\ out  \in [Calls -> Seq(Actions)]
  /\ est  \in [Edits -> {"idle", "write", "done", "conflict"}]
  /\ etarget \in [Edits -> Nat]
  /\ eslot   \in [Edits -> Slots \cup {Omitted}]
  /\ eval    \in [Edits -> EditValues \cup {Omitted}]
  /\ faults \in 0..MaxFaults

(* What scoring relies on when it reads "the" current value of a release:  *)
(* whatever the writers' steps and an edit interleave to, no key ever has  *)
(* two committed current rows (the 2026-07-16 duplicate of Ind 13).        *)
AtMostOneCurrent == AtMostOneCurrentIn(rows)

(* Why that is so: an open transaction is entitled to the keys it created  *)
(* rows under.  The only committed current row there is one it has itself  *)
(* demoted, no other open transaction has created a row there, and no two  *)
(* open transactions have demoted the same row.                            *)
PendingOwnsItsKeys ==
  \A c \in Calls : \A p \in pend[c] :
    /\ \A r \in CurrentAt(p.key) : r.id \in held[c]
    /\ \A d \in Calls : \A q \in pend[d] : q.key = p.key => d = c /\ q = p
RowLocksExclusive ==
  \A c, d \in Calls : c # d => held[c] \cap held[d] = {}
StoreInv == AtMostOneCurrent /\ PendingOwnsItsKeys /\ RowLocksExclusive

(* A release that has been stored stays visible: between any two           *)
(* transactions, and after any fault, a key with rows has a current one.   *)
KeyKeepsCurrent == \A r \in rows : CurrentAt(r.key) # {}

(* The counts a job writes to data_fetch_log describe the table: a call    *)
(* that returned has left one row per key it reports inserted or revised,  *)
(* and a call that threw has left none, also when its first attempt had    *)
(* already settled some keys.                                              *)
RowsBy(c) == {r \in rows : r.by = c}
Written(s) == {i \in DOMAIN s : s[i] # "skipped"}
ResultsMatchRows ==
  \A c \in Calls :
    /\ st[c] = "done" =>
         /\ Len(out[c]) = Len(plan[c].items)
         /\ Cardinality(RowsBy(c)) = Cardinality(Written(out[c]))
    /\ st[c] \in {"conflict", "error"} => RowsBy(c) = {}

NoEditYet == \A e \in Edits : est[e] # "done"

(* "caught here and retried once against the row the winner just committed *)
(* ... rather than crashing the job": an upsert or batch ends in the       *)
(* unique violation only if two other calls have committed beside it, one  *)
(* in each of its attempts, or an edit has moved a row under its key.      *)
NoConflictEscapes ==
  NoEditYet =>
    \A c \in Calls : st[c] = "conflict" /\ kind(c) # "override" =>
      \E d, e \in Calls \ {c} : d # e /\ st[d] = "done" /\ st[e] = "done"

(* "Idempotent: re-running with same payload is a no-op": a new vintage    *)
(* that replaces a row, as long as no edit has rewritten that row since it *)
(* was read, differs from it in a stored column.                           *)
RevisionDiffers ==
  NoEditYet =>
    \A r \in rows, n \in rows' \ rows :
      r.cur /\ Superseded(r) \in rows' /\ n.cur /\ n.key = r.key
        => <<n.val, n.fc>> # <<r.val, r.fc>>
RevisionChanges == [][RevisionDiffers]_vars

(* Nobody waits forever: locks and unique checks are taken in one order,   *)
(* and a call that aborts lets go of what it held.                         *)
EveryCallReturns ==
  /\ \A c \in Calls : st[c] = "read" ~> st[c] \in Returned
  /\ \A e \in Edits : est[e] = "write" ~> est[e] # "write"

(* The interleaved transactions implement the atomic write: a single-key   *)
(* call takes effect when it commits, or, if it skips, when it reads.      *)
Reported(c) ==
  CASE st[c] \in {"conflict", "error"} -> <<"failed">>
    [] st[c] = "done"                  -> out[c]
    [] st[c] = "commit" /\ out[c] = <<"skipped">> -> out[c]
    [] OTHER                           -> <<>>

Table == INSTANCE VintageTable
           WITH req <- plan, ret <- [c \in Calls |-> Reported(c)]
WritesAreAtomic == Table!TableSpec
===============================================================================
