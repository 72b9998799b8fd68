--------------------------- MODULE DataPointsProofs ---------------------------
(***************************************************************************)
(* Theorems about DataPoints, for every set of calls, edits, keys and      *)
(* payloads: its type correctness, that no interleaving of the write       *)
(* transactions with each other and with in-place edits commits a second   *)
(* current row under a key, and that without edits no key loses its only   *)
(* one, and single-key writes take effect at one instant.  Nor do the      *)
(* results that calls report ever disagree with the rows they leave; only  *)
(* two other winners make a call throw the unique violation; and with      *)
(* values that the column keeps, a new vintage says something new.         *)
(***************************************************************************)
EXTENDS DataPoints, FiniteSetTheorems, TLAPS

-------------------------------------------------------------------------------
(* Type correctness. *)

(* A started call has a payload and is at one of its items; a call about   *)
(* to demote has found a row.                                              *)
WorkOK ==
  \A c \in Calls :
    /\ st[c] # "idle" => plan[c] \in Plans /\ idx[c] \in 1..Len(plan[c].items)
    /\ st[c] = "idle" => idx[c] = 1
    /\ st[c] = "demote" => seen[c] \in Row

TypeInv == TypeOK /\ WorkOK

(* Rounding a submitted value gives a value the column can hold.           *)
LEMMA RoundedNat == \A v \in Nat : Rounded(v) \in Nat
BY DEF Rounded

(* Superseding a row, or editing its slot or value, leaves a row.          *)
LEMMA SupersededRow == \A r \in Row : /\ Superseded(r) \in Row
                                      /\ Superseded(r).cur = FALSE
                                      /\ Superseded(r).key = r.key
                                      /\ Superseded(r).id = r.id
BY DEF Superseded, Row

LEMMA EditedRow ==
  ASSUME TypeInv, NEW e \in Edits, NEW r \in Row
  PROVE  /\ Edited(e, r) \in Row
         /\ Edited(e, r).id = r.id
         /\ Edited(e, r).cur = r.cur
<1> DEFINE s == IF eslot[e] = Omitted THEN r.key.slot ELSE eslot[e]
           v == IF eval[e] = Omitted THEN r.val ELSE Rounded(eval[e])
<1>1. r.key \in Key /\ r.val \in Nat
  BY DEF Row
<1>2. s \in Slots
  BY <1>1 DEF TypeInv, TypeOK, Key
<1>3. v \in Nat
  BY <1>1, RoundedNat, BoundsAssumption DEF TypeInv, TypeOK
<1>4. [r.key EXCEPT !.slot = s] \in Key
  BY <1>1, <1>2 DEF Key
<1>5. Edited(e, r) = [[r EXCEPT !.key = [r.key EXCEPT !.slot = s]] EXCEPT !.val = v]
  BY DEF Edited, Row
<1> QED
  BY <1>3, <1>4, <1>5 DEF Row

(* The item a running call is at is an item.                               *)
LEMMA ItemTyped ==
  ASSUME TypeInv, NEW c \in Calls, st[c] # "idle"
  PROVE  item(c) \in Item /\ kind(c) \in Kinds
BY PlansAssumption DEF TypeInv, WorkOK, item, kind

(* The vintage a running call would create is a row.                       *)
LEMMA NewRowTyped ==
  ASSUME TypeInv, NEW c \in Calls, st[c] = "insert"
  PROVE  NewRow(c) \in Row
<1>1. item(c) \in Item
  BY ItemTyped
<1>2. Rounded(item(c).val) \in Nat
  BY <1>1, RoundedNat DEF Item
<1>3. NewForecast(kind(c), item(c), seen[c]) \in Forecasts \cup {Null}
  <2>1. seen[c] = NoRow \/ seen[c].fc \in Forecasts \cup {Null}
    BY DEF TypeInv, TypeOK, Row
  <2>2. item(c).fc = Omitted \/ item(c).fc \in Forecasts \cup {Null}
    BY <1>1 DEF Item
  <2> QED
    BY <2>1, <2>2 DEF NewForecast
<1>4. nextId \in Nat
  BY DEF TypeInv, TypeOK
<1>5. item(c).key \in Key
  BY <1>1 DEF Item
<1> QED
  BY <1>2, <1>3, <1>4, <1>5 DEF NewRow, Row

-------------------------------------------------------------------------------
LEMMA TypeInit == Init => TypeInv
<1> SUFFICES ASSUME Init PROVE TypeInv
  OBVIOUS
<1>1. PICK s \in Seeds : rows = s.rows /\ nextId = s.nextId
  BY DEF Init
<1>2. rows \subseteq Row /\ nextId \in Nat
  BY <1>1, SeedsAssumption
<1>3. faults \in 0..MaxFaults
  BY BoundsAssumption DEF Init
<1> QED
  BY <1>2, <1>3 DEF Init, TypeInv, TypeOK, WorkOK, Running

(* Moving on from a settled item keeps the call at an item of its payload. *)
LEMMA SettleTyped ==
  ASSUME TypeInv, NEW c \in Calls, NEW a \in Actions, st[c] \in {"read", "insert"},
         Settle(c, a), plan' = plan
  PROVE  /\ st' \in [Calls -> {"idle"} \cup Running \cup Returned]
         /\ idx' \in [Calls -> Nat \ {0}]
         /\ out' \in [Calls -> Seq(Actions)]
         /\ \A d \in Calls : st'[d] # "idle" =>
              plan'[d] \in Plans /\ idx'[d] \in 1..Len(plan'[d].items)
         /\ \A d \in Calls : st'[d] = "idle" => idx'[d] = 1
         /\ \A d \in Calls : st'[d] = "demote" => st[d] = "demote"
<1>1. out[c] \in Seq(Actions) /\ Append(out[c], a) \in Seq(Actions)
  BY DEF TypeInv, TypeOK
<1>2. out' \in [Calls -> Seq(Actions)]
  BY <1>1 DEF TypeInv, TypeOK, Settle
<1>3. plan[c] \in Plans /\ idx[c] \in 1..Len(plan[c].items)
  BY DEF TypeInv, WorkOK
<1>4. plan[c].items \in Seq(Item)
  BY <1>3, PlansAssumption
<1>5. Len(plan[c].items) \in Nat
  BY <1>4
<1>6. CASE idx[c] < Len(plan[c].items)
  <2>1. idx' = [idx EXCEPT ![c] = idx[c] + 1] /\ st' = [st EXCEPT ![c] = "read"]
    BY <1>6 DEF Settle
  <2> QED
    BY <1>2, <1>3, <1>5, <1>6, <2>1 DEF TypeInv, TypeOK, WorkOK, Running
<1>7. CASE ~ (idx[c] < Len(plan[c].items))
  <2>1. idx' = idx /\ st' = [st EXCEPT ![c] = "commit"]
    BY <1>7 DEF Settle
  <2> QED
    BY <1>2, <1>3, <2>1 DEF TypeInv, TypeOK, WorkOK, Running
<1> QED
  BY <1>6, <1>7

(* A rolled-back call that goes to state s is again at its first item.     *)
LEMMA RollbackTyped ==
  ASSUME TypeInv, NEW c \in Calls, st[c] # "idle", Rollback(c),
         NEW s \in {"read", "conflict", "error"}, st' = [st EXCEPT ![c] = s],
         att' \in [Calls -> 1..2], faults' \in 0..MaxFaults
  PROVE  TypeInv'
<1>1. plan[c] \in Plans
  BY DEF TypeInv, WorkOK
<1>2. Len(plan[c].items) >= 1 /\ plan[c].items \in Seq(Item)
  BY <1>1, PlansAssumption
<1>3. 1 \in 1..Len(plan[c].items)
  BY <1>2
<1>4. TypeOK'
  <2>1. st' \in [Calls -> {"idle"} \cup Running \cup Returned]
    BY DEF TypeInv, TypeOK, Running, Returned
  <2>2. idx' \in [Calls -> Nat \ {0}] /\ seen' \in [Calls -> Row \cup {NoRow}]
    BY DEF TypeInv, TypeOK, Rollback
  <2>3. out' \in [Calls -> Seq(Actions)]
    BY DEF TypeInv, TypeOK, Rollback
  <2>4. held' \in [Calls -> SUBSET Nat] /\ pend' \in [Calls -> SUBSET Row]
    BY DEF TypeInv, TypeOK, Rollback
  <2> QED
    BY <2>1, <2>2, <2>3, <2>4 DEF TypeInv, TypeOK, Rollback, editVars
<1>5. /\ plan' = plan /\ idx' = [idx EXCEPT ![c] = 1] /\ seen' = [seen EXCEPT ![c] = NoRow]
      /\ st'[c] \notin {"idle", "demote"}
  BY DEF Rollback, TypeInv, TypeOK
<1>6. WorkOK'
  <2> SUFFICES ASSUME NEW d \in Calls
               PROVE  /\ st'[d] # "idle" => plan'[d] \in Plans /\ idx'[d] \in 1..Len(plan'[d].items)
                      /\ st'[d] = "idle" => idx'[d] = 1
                      /\ st'[d] = "demote" => seen'[d] \in Row
    BY DEF WorkOK
  <2>1. CASE d = c
    BY <1>1, <1>3, <1>5, <2>1 DEF TypeInv, TypeOK
  <2>2. CASE d # c
    <3>1. st'[d] = st[d] /\ idx'[d] = idx[d] /\ plan'[d] = plan[d] /\ seen'[d] = seen[d]
      BY <1>5, <2>2 DEF TypeInv, TypeOK
    <3> QED
      BY <3>1 DEF TypeInv, WorkOK
  <2> QED
    BY <2>1, <2>2
<1> QED
  BY <1>4, <1>6 DEF TypeInv

LEMMA TypeStep == TypeInv /\ [Next]_vars => TypeInv'
<1> SUFFICES ASSUME TypeInv, [Next]_vars PROVE TypeInv'
  OBVIOUS
<1>1. ASSUME NEW c \in Calls, Start(c) PROVE TypeInv'
  <2>1. PICK p \in Plans : plan' = [plan EXCEPT ![c] = p]
    BY <1>1 DEF Start
  <2>2. Len(p.items) >= 1 /\ p.items \in Seq(Item)
    BY PlansAssumption
  <2>3. idx[c] = 1
    BY <1>1 DEF Start, TypeInv, WorkOK
  <2> QED
    BY <1>1, <2>1, <2>2, <2>3 DEF Start, TypeInv, TypeOK, WorkOK, Running, editVars
<1>2. ASSUME NEW c \in Calls, FindSkip(c) PROVE TypeInv'
  <2>1. PICK r \in CurrentAt(item(c).key) : seen' = [seen EXCEPT ![c] = r]
    BY <1>2 DEF FindSkip
  <2>2. r \in Row
    BY <2>1 DEF CurrentAt, TypeInv, TypeOK
  <2>3. "skipped" \in Actions /\ Settle(c, "skipped") /\ st[c] = "read" /\ plan' = plan
    BY <1>2 DEF FindSkip, Actions
  <2> QED
    BY <1>2, <2>1, <2>2, <2>3, SettleTyped
       DEF FindSkip, TypeInv, TypeOK, WorkOK, editVars
<1>3. ASSUME NEW c \in Calls, FindStale(c) PROVE TypeInv'
  <2>1. PICK r \in CurrentAt(item(c).key) : seen' = [seen EXCEPT ![c] = r]
    BY <1>3 DEF FindStale
  <2>2. r \in Row
    BY <2>1 DEF CurrentAt, TypeInv, TypeOK
  <2> QED
    BY <1>3, <2>1, <2>2 DEF FindStale, TypeInv, TypeOK, WorkOK, Running, editVars
<1>4. ASSUME NEW c \in Calls, FindNone(c) PROVE TypeInv'
  BY <1>4 DEF FindNone, TypeInv, TypeOK, WorkOK, Running, editVars
<1>5. ASSUME NEW c \in Calls, Demote(c) PROVE TypeInv'
  <2>1. seen[c].id \in Nat
    BY <1>5 DEF Demote, TypeInv, WorkOK, Row
  <2> QED
    BY <1>5, <2>1 DEF Demote, TypeInv, TypeOK, WorkOK, Running, editVars
<1>6. ASSUME NEW c \in Calls, Create(c) PROVE TypeInv'
  <2> DEFINE a == IF seen[c] = NoRow THEN "inserted" ELSE "revised"
  <2>1. a \in Actions /\ Settle(c, a) /\ st[c] = "insert" /\ plan' = plan
    BY <1>6 DEF Create, Actions
  <2>2. NewRow(c) \in Row
    BY <1>6, NewRowTyped DEF Create
  <2>3. pend' \in [Calls -> SUBSET Row] /\ nextId' \in Nat
    BY <1>6, <2>2 DEF Create, TypeInv, TypeOK
  <2> HIDE DEF a
  <2> QED
    BY <1>6, <2>1, <2>3, SettleTyped
       DEF Create, TypeInv, TypeOK, WorkOK, editVars
<1>7. ASSUME NEW c \in Calls, CreateRefused(c) PROVE TypeInv'
  <2>2. CASE att[c] < MaxAttempts(kind(c))
    <3>1. att' = [att EXCEPT ![c] = att[c] + 1] /\ st' = [st EXCEPT ![c] = "read"]
      BY <1>7, <2>2 DEF CreateRefused
    <3>2. att[c] \in 1..2 /\ att[c] < 2
      BY <2>2 DEF MaxAttempts, TypeInv, TypeOK
    <3>3. att' \in [Calls -> 1..2]
      BY <3>1, <3>2 DEF TypeInv, TypeOK
    <3> QED
      BY <1>7, <3>1, <3>3, RollbackTyped DEF CreateRefused, TypeInv, TypeOK
  <2>3. CASE ~ (att[c] < MaxAttempts(kind(c)))
    <3>1. att' = att /\ st' = [st EXCEPT ![c] = "conflict"]
      BY <1>7, <2>3 DEF CreateRefused
    <3> QED
      BY <1>7, <3>1, RollbackTyped DEF CreateRefused, TypeInv, TypeOK
  <2> QED
    BY <2>2, <2>3
<1>8. ASSUME NEW c \in Calls, Fault(c) PROVE TypeInv'
  <2>1. faults' \in 0..MaxFaults
    BY <1>8, BoundsAssumption DEF Fault, TypeInv, TypeOK
  <2> QED
    BY <1>8, <2>1, RollbackTyped DEF Fault, TypeInv, TypeOK, Running
<1>9. ASSUME NEW c \in Calls, Commit(c) PROVE TypeInv'
  <2>1. \A r \in rows : (IF r.id \in held[c] THEN Superseded(r) ELSE r) \in Row
    BY SupersededRow DEF TypeInv, TypeOK
  <2>2. rows' \subseteq Row
    BY <1>9, <2>1 DEF Commit, TypeInv, TypeOK
  <2> QED
    BY <1>9, <2>2 DEF Commit, TypeInv, TypeOK, WorkOK, Returned, editVars
<1>10. ASSUME NEW e \in Edits, EditLoad(e) PROVE TypeInv'
  <2>1. PICK r \in rows : etarget' = [etarget EXCEPT ![e] = r.id]
    BY <1>10 DEF EditLoad
  <2>2. r.id \in Nat
    BY <2>1 DEF TypeInv, TypeOK, Row
  <2> QED
    BY <1>10, <2>1, <2>2 DEF EditLoad, TypeInv, TypeOK, WorkOK, callVars
<1>11. ASSUME NEW e \in Edits, EditWrite(e) PROVE TypeInv'
  <2>1. PICK r \in rows : rows' = (rows \ {r}) \cup {Edited(e, r)}
    BY <1>11 DEF EditWrite
  <2>2. Edited(e, r) \in Row
    BY <2>1, EditedRow DEF TypeInv, TypeOK
  <2> QED
    BY <1>11, <2>1, <2>2 DEF EditWrite, TypeInv, TypeOK, WorkOK, callVars
<1>12. ASSUME NEW e \in Edits, EditRefused(e) PROVE TypeInv'
  BY <1>12 DEF EditRefused, TypeInv, TypeOK, WorkOK, callVars
<1>13. CASE UNCHANGED vars
  BY <1>13 DEF vars, callVars, editVars, TypeInv, TypeOK, WorkOK
<1> QED
  BY <1>1, <1>2, <1>3, <1>4, <1>5, <1>6, <1>7, <1>8, <1>9, <1>10, <1>11, <1>12,
     <1>13 DEF Next, Step, EditStep, Quiet

(* No step of a call, an edit or a fault leaves the types of the store's   *)
(* variables, whatever the payloads.                                       *)
THEOREM TypeCorrect == Spec => []TypeOK
<1>1. Spec => []TypeInv
  BY TypeInit, TypeStep, PTL DEF Spec
<1>2. TypeInv => TypeOK
  BY DEF TypeInv
<1> QED
  BY <1>1, <1>2, PTL
-------------------------------------------------------------------------------
(* One current row per key. *)

LEMMA StoreInit == Init => StoreInv
<1> SUFFICES ASSUME Init PROVE StoreInv
  OBVIOUS
<1>1. PICK s \in Seeds : rows = s.rows
  BY DEF Init
<1>2. AtMostOneCurrent
  BY <1>1, SeedsAssumption DEF AtMostOneCurrent
<1> QED
  BY <1>2 DEF Init, StoreInv, PendingOwnsItsKeys, RowLocksExclusive

(* Nothing that leaves the table and the open transactions alone matters.  *)
LEMMA StoreUntouched ==
  ASSUME StoreInv, UNCHANGED <<rows, held, pend>>
  PROVE  StoreInv'
BY DEF StoreInv, AtMostOneCurrent, AtMostOneCurrentIn, PendingOwnsItsKeys,
       RowLocksExclusive, CurrentAt

LEMMA StoreRollback ==
  ASSUME TypeOK, StoreInv, NEW c \in Calls, Rollback(c)
  PROVE  StoreInv'
<1>1. rows' = rows
  BY DEF Rollback
<1>2. \A d \in Calls : /\ held'[d] = IF d = c THEN {} ELSE held[d]
                       /\ pend'[d] = IF d = c THEN {} ELSE pend[d]
  BY DEF Rollback, TypeOK
<1>3. AtMostOneCurrent'
  BY <1>1 DEF StoreInv, AtMostOneCurrent, AtMostOneCurrentIn
<1>4. PendingOwnsItsKeys'
  BY <1>1, <1>2 DEF StoreInv, PendingOwnsItsKeys, CurrentAt
<1>5. RowLocksExclusive'
  BY <1>2 DEF StoreInv, RowLocksExclusive
<1> QED
  BY <1>3, <1>4, <1>5 DEF StoreInv

LEMMA StoreDemote ==
  ASSUME TypeOK, StoreInv, NEW c \in Calls, Demote(c)
  PROVE  StoreInv'
<1>1. rows' = rows /\ pend' = pend
  BY DEF Demote
<1>2. \A d \in Calls : held'[d] = IF d = c THEN held[c] \cup {seen[c].id} ELSE held[d]
  BY DEF Demote, TypeOK
<1>3. \A d \in Calls \ {c} : seen[c].id \notin held[d]
  BY DEF Demote, Locked
<1>4. AtMostOneCurrent'
  BY <1>1 DEF StoreInv, AtMostOneCurrent, AtMostOneCurrentIn
<1>5. PendingOwnsItsKeys'
  BY <1>1, <1>2 DEF StoreInv, PendingOwnsItsKeys, CurrentAt
<1>6. RowLocksExclusive'
  BY <1>2, <1>3 DEF StoreInv, RowLocksExclusive
<1> QED
  BY <1>4, <1>5, <1>6 DEF StoreInv

(* A create waits for the other transactions on its key and passes the     *)
(* unique check, so the key is its own.                                    *)
LEMMA StoreCreate ==
  ASSUME TypeOK, StoreInv, NEW c \in Calls, Create(c)
  PROVE  StoreInv'
<1> DEFINE k == item(c).key
<1>1. rows' = rows /\ held' = held
  BY DEF Create
<1>2. \A d \in Calls : pend'[d] = IF d = c THEN pend[c] \cup {NewRow(c)} ELSE pend[d]
  BY DEF Create, TypeOK
<1>3. NewRow(c).key = k
  BY DEF NewRow
<1>4. /\ \A d \in Calls \ {c} : \A q \in pend[d] : q.key # k
      /\ \A q \in pend[c] : q.key # k
      /\ \A r \in CurrentAt(k) : r.id \in held[c]
  BY DEF Create, KeyBusy, IndexRefuses
<1>5. AtMostOneCurrent'
  BY <1>1 DEF StoreInv, AtMostOneCurrent, AtMostOneCurrentIn
<1>6. RowLocksExclusive'
  BY <1>1 DEF StoreInv, RowLocksExclusive
<1>7. PendingOwnsItsKeys'
  <2> SUFFICES ASSUME NEW d \in Calls, NEW p \in pend'[d]
               PROVE  /\ \A r \in CurrentAt(p.key) : r.id \in held[d]
                      /\ \A e \in Calls : \A q \in pend'[e] : q.key = p.key => e = d /\ q = p
    BY <1>1 DEF PendingOwnsItsKeys, CurrentAt
  <2>1. CASE p \in pend[d]
    <3>1. p.key # k
      BY <1>4, <2>1
    <3> QED
      BY <1>2, <1>3, <2>1, <3>1 DEF StoreInv, PendingOwnsItsKeys
  <2>2. CASE p \notin pend[d]
    <3>1. d = c /\ p = NewRow(c)
      BY <1>2, <2>2
    <3> QED
      BY <1>2, <1>3, <1>4, <3>1
  <2> QED
    BY <2>1, <2>2
<1> QED
  BY <1>5, <1>6, <1>7 DEF StoreInv

(* A commit turns exactly the demoted row and the created one of each of   *)
(* its keys; no other transaction had a claim to those keys.               *)
LEMMA StoreCommit ==
  ASSUME TypeOK, StoreInv, NEW c \in Calls, Commit(c)
  PROVE  StoreInv'
<1>1. rows' = {IF r.id \in held[c] THEN Superseded(r) ELSE r : r \in rows} \cup pend[c]
  BY DEF Commit
<1>2. \A d \in Calls : /\ held'[d] = IF d = c THEN {} ELSE held[d]
                       /\ pend'[d] = IF d = c THEN {} ELSE pend[d]
  BY DEF Commit, TypeOK
<1>3. \A r \in rows' : r.cur => r \in pend[c] \/ (r \in rows /\ r.id \notin held[c])
  BY <1>1, SupersededRow DEF TypeOK
<1>4. AtMostOneCurrent'
  <2> SUFFICES ASSUME NEW r \in rows', NEW t \in rows', r.cur, t.cur, r.key = t.key
               PROVE  r = t
    BY DEF AtMostOneCurrent, AtMostOneCurrentIn
  <2>1. CASE r \in pend[c] /\ t \in pend[c]
    BY <2>1 DEF StoreInv, PendingOwnsItsKeys
  <2>2. CASE r \in rows /\ t \in rows
    BY <2>2 DEF StoreInv, AtMostOneCurrent, AtMostOneCurrentIn
  <2>3. CASE r \in pend[c] /\ t \notin pend[c]
    BY <1>3, <2>3 DEF StoreInv, PendingOwnsItsKeys, CurrentAt
  <2>4. CASE t \in pend[c] /\ r \notin pend[c]
    BY <1>3, <2>4 DEF StoreInv, PendingOwnsItsKeys, CurrentAt
  <2> QED
    BY <1>3, <2>1, <2>2, <2>3, <2>4
<1>5. PendingOwnsItsKeys'
  <2> SUFFICES ASSUME NEW d \in Calls, NEW p \in pend'[d]
               PROVE  /\ \A r \in rows' : r.cur /\ r.key = p.key => r.id \in held'[d]
                      /\ \A e \in Calls : \A q \in pend'[e] : q.key = p.key => e = d /\ q = p
    BY DEF PendingOwnsItsKeys, CurrentAt
  <2>1. d # c /\ p \in pend[d] /\ held'[d] = held[d]
    BY <1>2
  <2>2. ASSUME NEW r \in rows', r.cur, r.key = p.key PROVE r.id \in held'[d]
    <3>1. r \notin pend[c]
      BY <2>1, <2>2 DEF StoreInv, PendingOwnsItsKeys
    <3>2. r \in CurrentAt(p.key)
      BY <1>3, <2>2, <3>1 DEF CurrentAt
    <3> QED
      BY <2>1, <3>2 DEF StoreInv, PendingOwnsItsKeys
  <2>3. ASSUME NEW e \in Calls, NEW q \in pend'[e], q.key = p.key PROVE e = d /\ q = p
    <3>1. q \in pend[e]
      BY <1>2
    <3> QED
      BY <2>1, <2>3, <3>1 DEF StoreInv, PendingOwnsItsKeys
  <2> QED
    BY <2>2, <2>3
<1>6. RowLocksExclusive'
  BY <1>2 DEF StoreInv, RowLocksExclusive
<1> QED
  BY <1>4, <1>5, <1>6 DEF StoreInv

(* An edit takes an unlocked row; it moves a current one only to a key     *)
(* that no open transaction touches and that has no current row.           *)
LEMMA StoreEdit ==
  ASSUME TypeInv, StoreInv, NEW e \in Edits, EditWrite(e)
  PROVE  StoreInv'
<1>1. PICK r \in rows :
        /\ Unlocked(r.id)
        /\ MovesCurrent(e, r) =>
             KeyUntouched(Edited(e, r).key) /\ CurrentAt(Edited(e, r).key) = {}
        /\ rows' = (rows \ {r}) \cup {Edited(e, r)}
  BY DEF EditWrite
<1> DEFINE n == Edited(e, r)
<1>2. held' = held /\ pend' = pend
  BY DEF EditWrite, callVars
<1>3. n.id = r.id /\ n.cur = r.cur
  BY EditedRow DEF TypeInv, TypeOK
<1>4. n.cur => \A t \in rows \ {r} : t.cur => t.key # n.key
  <2>1. CASE n.key = r.key
    BY <1>3, <2>1 DEF StoreInv, AtMostOneCurrent, AtMostOneCurrentIn
  <2>2. CASE n.key # r.key
    BY <1>1, <1>3, <2>2 DEF MovesCurrent, CurrentAt
  <2> QED
    BY <2>1, <2>2
<1>5. n.cur => \A d \in Calls : \A p \in pend[d] : p.key = n.key => n.id \in held[d]
  <2>1. CASE n.key = r.key
    BY <1>3, <2>1 DEF StoreInv, PendingOwnsItsKeys, CurrentAt
  <2>2. CASE n.key # r.key
    BY <1>1, <1>3, <2>2 DEF MovesCurrent, KeyUntouched
  <2> QED
    BY <2>1, <2>2
<1> HIDE DEF n
<1>6. rows' = (rows \ {r}) \cup {n}
  BY <1>1 DEF n
<1>7. AtMostOneCurrent'
  BY <1>4, <1>6 DEF StoreInv, AtMostOneCurrent, AtMostOneCurrentIn
<1>8. PendingOwnsItsKeys'
  BY <1>2, <1>5, <1>6 DEF StoreInv, PendingOwnsItsKeys, CurrentAt
<1>9. RowLocksExclusive'
  BY <1>2 DEF StoreInv, RowLocksExclusive
<1> QED
  BY <1>7, <1>8, <1>9 DEF StoreInv

LEMMA StoreStep == TypeInv /\ StoreInv /\ [Next]_vars => StoreInv'
<1> SUFFICES ASSUME TypeInv, StoreInv, [Next]_vars PROVE StoreInv'
  OBVIOUS
<1> USE DEF TypeInv
<1>1. ASSUME NEW c \in Calls, Start(c) \/ FindSkip(c) \/ FindStale(c) \/ FindNone(c)
      PROVE  StoreInv'
  BY <1>1, StoreUntouched DEF Start, FindSkip, FindStale, FindNone
<1>2. ASSUME NEW c \in Calls, Demote(c) PROVE StoreInv'
  BY <1>2, StoreDemote
<1>3. ASSUME NEW c \in Calls, Create(c) PROVE StoreInv'
  BY <1>3, StoreCreate
<1>4. ASSUME NEW c \in Calls, CreateRefused(c) \/ Fault(c) PROVE StoreInv'
  BY <1>4, StoreRollback DEF CreateRefused, Fault
<1>5. ASSUME NEW c \in Calls, Commit(c) PROVE StoreInv'
  BY <1>5, StoreCommit
<1>6. ASSUME NEW e \in Edits, EditLoad(e) \/ EditRefused(e) PROVE StoreInv'
  BY <1>6, StoreUntouched DEF EditLoad, EditRefused, callVars
<1>7. ASSUME NEW e \in Edits, EditWrite(e) PROVE StoreInv'
  BY <1>7, StoreEdit
<1>8. CASE UNCHANGED vars
  BY <1>8, StoreUntouched DEF vars, callVars
<1> QED
  BY <1>1, <1>2, <1>3, <1>4, <1>5, <1>6, <1>7, <1>8 DEF Next, Step, EditStep, Quiet

(* An open transaction owns the keys it has created rows under: no other   *)
(* creates or commits a current row there, and no two have demoted one row.*)
THEOREM KeysAreOwned == Spec => []StoreInv
<1>1. Spec => []TypeInv
  BY TypeInit, TypeStep, PTL DEF Spec
<1> QED
  BY <1>1, StoreInit, StoreStep, PTL DEF Spec

(* data_points never holds two committed current rows for one indicator,   *)
(* date and variant, however upserts, batches, overrides, retries, faults  *)
(* and in-place edits interleave.                                          *)
THEOREM OneCurrentPerKey == Spec => []AtMostOneCurrent
<1>1. StoreInv => AtMostOneCurrent
  BY DEF StoreInv
<1> QED
  BY <1>1, KeysAreOwned, PTL
-------------------------------------------------------------------------------
(* A key that has rows keeps a current one. *)

(* The transaction of c has created, or is about to, a current row under k.*)
Succeeds(c, k) ==
  \/ \E p \in pend[c] : p.key = k
  \/ st[c] = "insert" /\ item(c).key = k

(* What a call has demoted are rows, each with a successor on its way; what *)
(* it has created are current rows with ids of their own.                   *)
Demotes(c) ==
  /\ \A h \in held[c] : \E r \in rows : r.id = h
  /\ \A r \in rows : r.id \in held[c] => Succeeds(c, r.key)
  /\ st[c] = "demote" => \E r \in rows : r.id = seen[c].id /\ r.key = item(c).key
Creates(c) == \A p \in pend[c] : p.cur /\ p.id < nextId /\ \A r \in rows : r.id # p.id

IdsUnique ==
  /\ \A r \in rows : r.id < nextId
  /\ \A r, q \in rows : r.id = q.id => r = q
  /\ \A c, d \in Calls : \A p \in pend[c], q \in pend[d] : p.id = q.id => c = d /\ p = q

KeepInv ==
  /\ KeyKeepsCurrent /\ IdsUnique
  /\ \A c \in Calls : Demotes(c) /\ Creates(c)

(* Every key of the tables the store may start from has a current row.      *)
SeedsKeepCurrent ==
  \A s \in Seeds : \A r \in s.rows : \E q \in s.rows : q.cur /\ q.key = r.key

LEMMA KeepInit == SeedsKeepCurrent /\ Init => KeepInv
<1> SUFFICES ASSUME SeedsKeepCurrent, Init PROVE KeepInv
  OBVIOUS
<1>1. PICK s \in Seeds : rows = s.rows /\ nextId = s.nextId
  BY DEF Init
<1>2. KeyKeepsCurrent
  BY <1>1 DEF SeedsKeepCurrent, KeyKeepsCurrent, CurrentAt
<1>3. IdsUnique
  BY <1>1, SeedsAssumption DEF IdsUnique, Init
<1> QED
  BY <1>2, <1>3 DEF Init, KeepInv, Demotes, Creates

(* A call is not concerned by a step that leaves it and the table alone.    *)
LEMMA KeepOthers ==
  ASSUME TypeOK, KeepInv, NEW d \in Calls, rows' = rows, nextId' \in {nextId, nextId + 1},
         st'[d] = st[d], item(d)' = item(d), seen'[d] = seen[d], held'[d] = held[d],
         pend'[d] = pend[d]
  PROVE  Demotes(d)' /\ Creates(d)'
<1>1. Demotes(d)'
  BY DEF KeepInv, Demotes, Succeeds
<1>2. nextId \in Nat /\ \A p \in pend[d] : p.id \in Nat
  BY DEF TypeOK, Row
<1>3. Creates(d)'
  BY <1>2 DEF KeepInv, Creates
<1> QED
  BY <1>1, <1>3

LEMMA KeepTable ==
  ASSUME KeepInv, rows' = rows, nextId' = nextId, pend' = pend
  PROVE  KeyKeepsCurrent' /\ IdsUnique'
BY DEF KeepInv, KeyKeepsCurrent, IdsUnique, CurrentAt

(* A call that reads its next item has created all the successors it owes.  *)
LEMMA KeepRead ==
  ASSUME TypeInv, KeepInv, NEW c \in Calls, st[c] \in {"idle", "read"},
         Start(c) \/ FindSkip(c) \/ FindStale(c) \/ FindNone(c)
  PROVE  KeepInv'
<1>1. rows' = rows /\ nextId' = nextId /\ held' = held /\ pend' = pend
  BY DEF Start, FindSkip, FindStale, FindNone
<1>2. ASSUME NEW d \in Calls, d # c PROVE Demotes(d)' /\ Creates(d)'
  <2>1. st'[d] = st[d] /\ seen'[d] = seen[d] /\ plan'[d] = plan[d] /\ idx'[d] = idx[d]
    BY <1>2 DEF Start, FindSkip, FindStale, FindNone, Settle, TypeInv, TypeOK
  <2> QED
    BY <1>1, <2>1, KeepOthers DEF TypeInv, item
<1>3. Creates(c)'
  BY <1>1 DEF KeepInv, Creates
<1>4. \A r \in rows : r.id \in held[c] => \E p \in pend[c] : p.key = r.key
  BY DEF KeepInv, Demotes, Succeeds
<1>5. st'[c] = "demote" => \E r \in rows : r.id = seen'[c].id /\ r.key = item(c)'.key
  <2>1. CASE FindStale(c)
    <3>1. PICK r \in CurrentAt(item(c).key) : seen' = [seen EXCEPT ![c] = r]
      BY <2>1 DEF FindStale
    <3>2. seen'[c] = r /\ r \in rows /\ r.key = item(c).key /\ item(c)' = item(c)
      BY <2>1, <3>1 DEF FindStale, CurrentAt, item, TypeInv, TypeOK
    <3> QED
      BY <3>2
  <2>2. CASE Start(c) \/ FindSkip(c) \/ FindNone(c)
    <3>1. st'[c] # "demote"
      BY <2>2 DEF Start, FindSkip, FindNone, Settle, TypeInv, TypeOK
    <3> QED
      BY <3>1
  <2> QED
    BY <2>1, <2>2
<1>6. Demotes(c)'
  BY <1>1, <1>4, <1>5 DEF KeepInv, Demotes, Succeeds
<1> QED
  BY <1>1, <1>2, <1>3, <1>6, KeepTable DEF KeepInv

LEMMA KeepDemote ==
  ASSUME TypeInv, KeepInv, NEW c \in Calls, Demote(c)
  PROVE  KeepInv'
<1>1. rows' = rows /\ nextId' = nextId /\ pend' = pend /\ seen' = seen
  BY DEF Demote
<1>2. ASSUME NEW d \in Calls, d # c PROVE Demotes(d)' /\ Creates(d)'
  <2>1. st'[d] = st[d] /\ held'[d] = held[d] /\ plan'[d] = plan[d] /\ idx'[d] = idx[d]
    BY <1>2 DEF Demote, TypeInv, TypeOK
  <2> QED
    BY <1>1, <2>1, KeepOthers DEF TypeInv, item
<1>3. Creates(c)'
  BY <1>1 DEF KeepInv, Creates
<1>4. /\ st'[c] = "insert" /\ held'[c] = held[c] \cup {seen[c].id}
      /\ item(c)' = item(c) /\ st[c] = "demote"
  BY DEF Demote, item, TypeInv, TypeOK
<1>5. PICK q \in rows : q.id = seen[c].id /\ q.key = item(c).key
  BY <1>4 DEF KeepInv, Demotes
<1>6. \A r \in rows : r.id = seen[c].id => r = q
  BY <1>5 DEF KeepInv, IdsUnique
<1>7. \A r \in rows : r.id \in held'[c] => Succeeds(c, r.key)'
  <2> SUFFICES ASSUME NEW r \in rows, r.id \in held'[c] PROVE Succeeds(c, r.key)'
    OBVIOUS
  <2>1. CASE r.id \in held[c]
    BY <1>1, <1>4, <2>1 DEF KeepInv, Demotes, Succeeds
  <2>2. CASE r.id = seen[c].id
    BY <1>4, <1>5, <1>6, <2>2 DEF Succeeds
  <2> QED
    BY <1>4, <2>1, <2>2
<1>8. Demotes(c)'
  BY <1>1, <1>4, <1>5, <1>7 DEF KeepInv, Demotes
<1> QED
  BY <1>1, <1>2, <1>3, <1>8, KeepTable DEF KeepInv

LEMMA KeepCreate ==
  ASSUME TypeInv, KeepInv, NEW c \in Calls, Create(c)
  PROVE  KeepInv'
<1> DEFINE n == NewRow(c)
<1>1. /\ rows' = rows /\ nextId' = nextId + 1 /\ held' = held /\ seen' = seen /\ plan' = plan
      /\ st[c] = "insert"
      /\ \A d \in Calls : pend'[d] = IF d = c THEN pend[c] \cup {n} ELSE pend[d]
  BY DEF Create, TypeInv, TypeOK
<1>2. n.cur /\ n.id = nextId /\ n.key = item(c).key
  BY DEF NewRow
<1>3. /\ nextId \in Nat /\ \A r \in rows : r.id \in Nat
      /\ \A d \in Calls : \A p \in pend[d] : p.id \in Nat
  BY DEF TypeInv, TypeOK, Row
<1> HIDE DEF n
<1>4. ASSUME NEW d \in Calls, d # c PROVE Demotes(d)' /\ Creates(d)'
  <2>1. st'[d] = st[d] /\ idx'[d] = idx[d]
    BY <1>4 DEF Create, Settle, TypeInv, TypeOK
  <2> QED
    BY <1>1, <1>4, <2>1, KeepOthers DEF TypeInv, item
<1>5. Creates(c)'
  BY <1>1, <1>2, <1>3 DEF KeepInv, Creates, IdsUnique
<1>6. st'[c] # "demote"
  BY DEF Create, Settle, TypeInv, TypeOK
<1>7. \A k : Succeeds(c, k) => \E p \in pend'[c] : p.key = k
  BY <1>1, <1>2 DEF Succeeds
<1>8. Demotes(c)'
  BY <1>1, <1>6, <1>7 DEF KeepInv, Demotes, Succeeds
<1>9. KeyKeepsCurrent'
  BY <1>1 DEF KeepInv, KeyKeepsCurrent, CurrentAt
<1>10. IdsUnique'
  <2>1. \A r \in rows : r.id < nextId'
    BY <1>1, <1>3 DEF KeepInv, IdsUnique
  <2>2. \A d \in Calls : \A p \in pend[d] : p.id # n.id
    BY <1>2, <1>3 DEF KeepInv, Creates
  <2>3. ASSUME NEW d \in Calls, NEW e \in Calls, NEW p \in pend'[d], NEW q \in pend'[e],
               p.id = q.id
        PROVE  d = e /\ p = q
    BY <1>1, <2>2, <2>3 DEF KeepInv, IdsUnique
  <2> QED
    BY <1>1, <2>1, <2>3 DEF KeepInv, IdsUnique
<1> QED
  BY <1>4, <1>5, <1>8, <1>9, <1>10 DEF KeepInv

LEMMA KeepRollback ==
  ASSUME TypeInv, KeepInv, NEW c \in Calls, CreateRefused(c) \/ Fault(c)
  PROVE  KeepInv'
<1>1. /\ rows' = rows /\ nextId' = nextId /\ plan' = plan /\ st'[c] # "demote"
      /\ \A d \in Calls : /\ held'[d] = IF d = c THEN {} ELSE held[d]
                          /\ pend'[d] = IF d = c THEN {} ELSE pend[d]
      /\ \A d \in Calls : d # c => st'[d] = st[d] /\ seen'[d] = seen[d] /\ idx'[d] = idx[d]
  BY ZenonT(40) DEF CreateRefused, Fault, Rollback, TypeInv, TypeOK
<1>2. ASSUME NEW d \in Calls, d # c PROVE Demotes(d)' /\ Creates(d)'
  BY <1>1, <1>2, KeepOthers DEF TypeInv, item
<1>3. Demotes(c)' /\ Creates(c)'
  BY <1>1 DEF Demotes, Creates
<1>4. KeyKeepsCurrent' /\ IdsUnique'
  BY <1>1 DEF KeepInv, KeyKeepsCurrent, IdsUnique, CurrentAt
<1> QED
  BY <1>2, <1>3, <1>4 DEF KeepInv

(* A commit exchanges the current rows it has demoted for the ones it has   *)
(* created, key by key.                                                     *)
LEMMA KeepCommit ==
  ASSUME TypeInv, KeepInv, NEW c \in Calls, Commit(c)
  PROVE  KeepInv'
<1> DEFINE after(r) == IF r.id \in held[c] THEN Superseded(r) ELSE r
<1>1. /\ rows' = {after(r) : r \in rows} \cup pend[c]
      /\ nextId' = nextId /\ seen' = seen /\ plan' = plan /\ idx' = idx /\ st[c] = "commit"
      /\ \A d \in Calls : /\ held'[d] = IF d = c THEN {} ELSE held[d]
                          /\ pend'[d] = IF d = c THEN {} ELSE pend[d]
                          /\ st'[d] = IF d = c THEN "done" ELSE st[d]
  BY DEF Commit, TypeInv, TypeOK
<1>2. \A r \in rows : /\ after(r).id = r.id /\ after(r).key = r.key
                      /\ r.id \notin held[c] => after(r) = r
  BY SupersededRow DEF TypeInv, TypeOK
<1> HIDE DEF after
<1>3. \A r \in rows : after(r) \in rows'
  BY <1>1
<1>4. ASSUME NEW t \in rows' PROVE t \in pend[c] \/ \E r \in rows : t = after(r)
  BY <1>1
<1>5. KeyKeepsCurrent'
  <2> SUFFICES ASSUME NEW t \in rows' PROVE \E q \in rows' : q.cur /\ q.key = t.key
    BY DEF KeyKeepsCurrent, CurrentAt
  <2>1. CASE t \in pend[c]
    BY <2>1 DEF KeepInv, Creates
  <2>2. ASSUME NEW r \in rows, t = after(r) PROVE \E q \in rows' : q.cur /\ q.key = t.key
    <3>1. PICK q \in rows : q.cur /\ q.key = r.key
      BY DEF KeepInv, KeyKeepsCurrent, CurrentAt
    <3>2. CASE q.id \notin held[c]
      BY <1>2, <1>3, <2>2, <3>1, <3>2
    <3>3. CASE q.id \in held[c]
      <4>1. PICK p \in pend[c] : p.key = q.key
        BY <1>1, <3>3 DEF KeepInv, Demotes, Succeeds
      <4> QED
        BY <1>1, <1>2, <2>2, <3>1, <4>1 DEF KeepInv, Creates
    <3> QED
      BY <3>2, <3>3
  <2> QED
    BY <1>4, <2>1, <2>2
<1>6. IdsUnique'
  <2>1. \A t \in rows' : t.id < nextId'
    BY <1>1, <1>2, <1>4 DEF KeepInv, IdsUnique, Creates
  <2>2. ASSUME NEW t \in rows', NEW u \in rows', t.id = u.id PROVE t = u
    <3>1. CASE t \in pend[c] /\ u \in pend[c]
      BY <2>2, <3>1 DEF KeepInv, IdsUnique
    <3>2. ASSUME NEW r \in rows, NEW q \in rows, t = after(r), u = after(q) PROVE t = u
      BY <1>2, <2>2, <3>2 DEF KeepInv, IdsUnique
    <3>3. ASSUME NEW r \in rows, NEW p \in pend[c] PROVE after(r).id # p.id
      BY <1>2 DEF KeepInv, Creates
    <3> QED
      BY <1>4, <2>2, <3>1, <3>2, <3>3
  <2> QED
    BY <1>1, <2>1, <2>2 DEF KeepInv, IdsUnique
<1>7. ASSUME NEW d \in Calls PROVE Demotes(d)' /\ Creates(d)'
  <2>1. CASE d = c
    BY <1>1, <2>1 DEF Demotes, Creates
  <2>2. CASE d # c
    <3>1. /\ held'[d] = held[d] /\ pend'[d] = pend[d] /\ st'[d] = st[d] /\ item(d)' = item(d)
      BY <1>1, <2>2 DEF item
    <3>2. \A h \in held[d] : \E t \in rows' : t.id = h
      BY <1>2, <1>3 DEF KeepInv, Demotes
    <3>3. \A p \in pend[c] : p.id \notin held[d]
      BY DEF KeepInv, Demotes, Creates
    <3>4. \A k : Succeeds(d, k) => Succeeds(d, k)'
      BY <3>1 DEF Succeeds
    <3>5. \A t \in rows' : t.id \in held[d] => Succeeds(d, t.key)'
      BY <1>2, <1>4, <3>3, <3>4 DEF KeepInv, Demotes
    <3>6. st[d] = "demote" => \E t \in rows' : t.id = seen[d].id /\ t.key = item(d).key
      BY <1>2, <1>3 DEF KeepInv, Demotes
    <3>7. \A p \in pend[d], t \in rows' : t.id # p.id
      BY <1>2, <1>4, <2>2 DEF KeepInv, Creates, IdsUnique
    <3> QED
      BY <1>1, <3>1, <3>2, <3>5, <3>6, <3>7 DEF KeepInv, Demotes, Creates
  <2> QED
    BY <2>1, <2>2
<1> QED
  BY <1>5, <1>6, <1>7 DEF KeepInv

LEMMA KeepStep == Edits = {} /\ TypeInv /\ KeepInv /\ [Next]_vars => KeepInv'
<1> SUFFICES ASSUME Edits = {}, TypeInv, KeepInv, [Next]_vars PROVE KeepInv'
  OBVIOUS
<1>1. ASSUME NEW c \in Calls, Start(c) \/ FindSkip(c) \/ FindStale(c) \/ FindNone(c)
      PROVE  KeepInv'
  BY <1>1, KeepRead DEF Start, FindSkip, FindStale, FindNone
<1>2. ASSUME NEW c \in Calls, Demote(c) PROVE KeepInv'
  BY <1>2, KeepDemote
<1>3. ASSUME NEW c \in Calls, Create(c) PROVE KeepInv'
  BY <1>3, KeepCreate
<1>4. ASSUME NEW c \in Calls, CreateRefused(c) \/ Fault(c) PROVE KeepInv'
  BY <1>4, KeepRollback
<1>5. ASSUME NEW c \in Calls, Commit(c) PROVE KeepInv'
  BY <1>5, KeepCommit
<1>6. CASE UNCHANGED vars
  <2>1. rows' = rows /\ nextId' = nextId /\ pend' = pend
    BY <1>6 DEF vars, callVars
  <2>2. ASSUME NEW d \in Calls PROVE Demotes(d)' /\ Creates(d)'
    BY <1>6, <2>1, KeepOthers DEF vars, callVars, TypeInv, item
  <2> QED
    BY <2>1, <2>2, KeepTable DEF KeepInv
<1> QED
  BY <1>1, <1>2, <1>3, <1>4, <1>5, <1>6 DEF Next, Step, Quiet

(* A release that has been stored stays visible: as long as nobody edits    *)
(* rows in place, a key that has rows has a current one, between any two    *)
(* steps of any number of writers, and after any fault.                     *)
THEOREM ReleasesStayVisible ==
  ASSUME Edits = {}, SeedsKeepCurrent
  PROVE  Spec => []KeyKeepsCurrent
<1>1. Spec => []TypeInv
  BY TypeInit, TypeStep, PTL DEF Spec
<1>2. Init => KeepInv
  BY KeepInit
<1>3. TypeInv /\ KeepInv /\ [Next]_vars => KeepInv'
  BY KeepStep
<1>4. KeepInv => KeyKeepsCurrent
  BY DEF KeepInv
<1> QED
  BY <1>1, <1>2, <1>3, <1>4, PTL DEF Spec

-------------------------------------------------------------------------------
(* The transactions of single-key calls implement the atomic write. *)

SingleItems == \A p \in Plans : Len(p.items) = 1

(* The call has read a row that it must replace: that row is still there,  *)
(* or somebody else has superseded it.                                     *)
AsRead(c) ==
  /\ seen[c] \in Row /\ seen[c].cur /\ seen[c].key = item(c).key
  /\ ~ Matches(kind(c), item(c), seen[c])
  /\ seen[c] \in rows \/ Superseded(seen[c]) \in rows

(* n is what it writes over the row it has read.                           *)
Follows(n, c) ==
  /\ n.key = item(c).key /\ n.val = Rounded(item(c).val) /\ n.cur /\ n.by = c
  /\ n.fc = NewForecast(kind(c), item(c), seen[c])

(* What a call has done so far.  Once it has created its row, the row it   *)
(* read is the current one until it commits.                               *)
Working(c) ==
  /\ st[c] = "idle" => plan[c] = NoPlan
  /\ st[c] \in {"idle", "read", "demote", "insert"} => out[c] = <<>> /\ pend[c] = {}
  /\ st[c] \in {"idle", "read", "demote"} => held[c] = {}
  /\ st[c] = "demote" => AsRead(c)
  /\ st[c] = "insert" => \/ seen[c] = NoRow /\ held[c] = {}
                         \/ AsRead(c) /\ held[c] = {seen[c].id}
  /\ st[c] = "commit" =>
       \/ out[c] = <<"skipped">> /\ held[c] = {} /\ pend[c] = {}
       \/ /\ \E n \in pend[c] : pend[c] = {n} /\ Follows(n, c)
          /\ \/ out[c] = <<"inserted">> /\ seen[c] = NoRow /\ held[c] = {}
             \/ /\ out[c] = <<"revised">> /\ held[c] = {seen[c].id}
                /\ AsRead(c) /\ seen[c] \in rows

AtomInv == \A c \in Calls : Working(c)

LEMMA AtomInit == Init => AtomInv
BY DEF Init, AtomInv, Working

(* The one item of a call is settled: it goes to its commit.               *)
LEMMA SettleSingle ==
  ASSUME SingleItems, TypeInv, NEW c \in Calls, st[c] # "idle", out[c] = <<>>, NEW a, Settle(c, a)
  PROVE  st'[c] = "commit" /\ idx' = idx /\ out'[c] = <<a>>
<1>1. idx[c] \in 1..1 /\ Len(plan[c].items) = 1
  BY DEF TypeInv, WorkOK, SingleItems
<1>2. st' = [st EXCEPT ![c] = "commit"] /\ idx' = idx
  BY <1>1 DEF Settle
<1>3. out'[c] = Append(<<>>, a)
  BY DEF Settle, TypeInv, TypeOK
<1>4. Append(<<>>, a) = <<a>>
  OBVIOUS
<1>5. st'[c] = "commit"
  BY <1>2 DEF TypeInv, TypeOK
<1> QED
  BY <1>2, <1>3, <1>4, <1>5

(* A step of another call supersedes no row that this one has demoted.     *)
LEMMA AtomOthers ==
  ASSUME AtomInv, NEW d \in Calls,
         st'[d] = st[d], plan'[d] = plan[d], idx'[d] = idx[d], seen'[d] = seen[d],
         held'[d] = held[d], pend'[d] = pend[d], out'[d] = out[d],
         rows \subseteq Row,
         \A r \in rows : r \in rows' \/ (r.id \notin held[d] /\ Superseded(r) \in rows')
  PROVE  Working(d)'
<1>1. item(d)' = item(d) /\ kind(d)' = kind(d)
  BY DEF item, kind
<1>2. \A r \in Row : Superseded(Superseded(r)) = Superseded(r)
  BY DEF Superseded, Row
<1>3. AsRead(d) => AsRead(d)'
  BY <1>1, <1>2 DEF AsRead
<1>4. \A n : Follows(n, d) => Follows(n, d)'
  BY <1>1 DEF Follows
<1>5. held[d] = {seen[d].id} /\ seen[d] \in rows => seen[d] \in rows'
  OBVIOUS
<1> QED
  BY <1>3, <1>4, <1>5 DEF AtomInv, Working

LEMMA AtomStart ==
  ASSUME TypeInv, AtomInv, NEW c \in Calls, Start(c)
  PROVE  Working(c)'
<1>1. /\ st[c] = "idle" /\ st'[c] = "read"
      /\ held' = held /\ pend' = pend /\ out' = out
  BY DEF Start, TypeInv, TypeOK
<1> QED
  BY <1>1 DEF AtomInv, Working

LEMMA AtomFind ==
  ASSUME SingleItems, TypeInv, AtomInv, NEW c \in Calls, FindSkip(c) \/ FindStale(c) \/ FindNone(c)
  PROVE  Working(c)'
<1>1. /\ st[c] = "read" /\ out[c] = <<>> /\ held[c] = {} /\ pend[c] = {}
      /\ held' = held /\ pend' = pend /\ plan' = plan /\ rows' = rows
  BY DEF FindSkip, FindStale, FindNone, AtomInv, Working
<1>2. CASE FindSkip(c)
  <2>1. Settle(c, "skipped") /\ st[c] # "idle"
    BY <1>1, <1>2 DEF FindSkip
  <2>2. st'[c] = "commit" /\ out'[c] = <<"skipped">>
    BY <1>1, <2>1, SettleSingle
  <2> QED
    BY <1>1, <2>2 DEF Working
<1>3. CASE FindStale(c)
  <2>1. PICK r \in CurrentAt(item(c).key) :
          ~ Matches(kind(c), item(c), r) /\ seen' = [seen EXCEPT ![c] = r]
    BY <1>3 DEF FindStale
  <2>2. /\ seen'[c] = r /\ st'[c] = "demote" /\ out' = out
        /\ item(c)' = item(c) /\ kind(c)' = kind(c)
    BY <1>1, <1>3, <2>1 DEF FindStale, item, kind, TypeInv, TypeOK
  <2>3. r \in rows /\ r \in Row /\ r.cur /\ r.key = item(c).key
    BY DEF CurrentAt, TypeInv, TypeOK
  <2>4. AsRead(c)'
    BY <1>1, <2>1, <2>2, <2>3 DEF AsRead
  <2> QED
    BY <1>1, <2>2, <2>4 DEF Working
<1>4. CASE FindNone(c)
  <2>1. st'[c] = "insert" /\ seen'[c] = NoRow /\ out' = out
    BY <1>4 DEF FindNone, TypeInv, TypeOK
  <2> QED
    BY <1>1, <2>1 DEF Working
<1> QED
  BY <1>2, <1>3, <1>4

LEMMA AtomDemote ==
  ASSUME TypeInv, AtomInv, NEW c \in Calls, Demote(c)
  PROVE  Working(c)'
<1>1. /\ st[c] = "demote" /\ st'[c] = "insert" /\ held'[c] = held[c] \cup {seen[c].id}
      /\ seen' = seen /\ pend' = pend /\ out' = out /\ plan' = plan /\ idx' = idx /\ rows' = rows
  BY DEF Demote, TypeInv, TypeOK
<1>2. /\ held[c] = {} /\ pend[c] = {} /\ out[c] = <<>> /\ AsRead(c)
  BY <1>1 DEF AtomInv, Working
<1>3. AsRead(c)'
  BY <1>1, <1>2 DEF AsRead, item, kind
<1> QED
  BY <1>1, <1>2, <1>3 DEF Working

LEMMA AtomCreate ==
  ASSUME SingleItems, TypeInv, KeepInv, AtomInv, NEW c \in Calls, Create(c)
  PROVE  Working(c)'
<1> DEFINE a == IF seen[c] = NoRow THEN "inserted" ELSE "revised"
<1>0. PICK n : n = NewRow(c)
  OBVIOUS
<1>1. /\ st[c] = "insert" /\ pend[c] = {} /\ out[c] = <<>>
      /\ ~ IndexRefuses(item(c).key, c)
      /\ \/ seen[c] = NoRow /\ held[c] = {}
         \/ AsRead(c) /\ held[c] = {seen[c].id}
  BY DEF Create, AtomInv, Working
<1>2. st'[c] = "commit" /\ idx' = idx /\ out'[c] = <<a>>
  <2>1. Settle(c, a) /\ st[c] # "idle"
    BY <1>1 DEF Create
  <2> HIDE DEF a
  <2> QED
    BY <1>1, <2>1, SettleSingle
<1>3. pend'[c] = {n} /\ rows' = rows /\ plan' = plan /\ seen' = seen /\ held' = held
  BY <1>0, <1>1 DEF Create, TypeInv, TypeOK
<1>4. item(c)' = item(c) /\ kind(c)' = kind(c)
  BY <1>2, <1>3 DEF item, kind
<1>5. Follows(n, c)'
  BY <1>0, <1>3, <1>4 DEF Follows, NewRow
<1>6. CASE seen[c] = NoRow
  <2>1. held[c] = {}
    BY <1>1, <1>6, RowConstantsAssumption DEF AsRead
  <2>2. a = "inserted"
    BY <1>6
  <2> HIDE DEF a
  <2> QED
    BY <1>2, <1>3, <1>5, <1>6, <2>1, <2>2 DEF Working
<1>7. CASE seen[c] # NoRow
  <2>1. AsRead(c) /\ held[c] = {seen[c].id}
    BY <1>1, <1>7
  <2>2. a = "revised"
    BY <1>7
  <2> DEFINE s == Superseded(seen[c])
  <2>3. s.key = seen[c].key /\ s.id = seen[c].id /\ s.cur = FALSE
    BY <2>1, SupersededRow DEF AsRead
  <2> HIDE DEF s
  <2>4. PICK t \in rows : (t = seen[c] \/ t = s) /\ t.key = item(c).key /\ t.id = seen[c].id
    BY <2>1, <2>3 DEF AsRead, s
  <2>5. PICK r \in rows : r.cur /\ r.key = item(c).key
    BY <2>4 DEF KeepInv, KeyKeepsCurrent, CurrentAt
  <2>6. r.id = seen[c].id
    BY <1>1, <2>1, <2>5 DEF IndexRefuses, CurrentAt
  <2>7. r = t
    BY <2>4, <2>6 DEF KeepInv, IdsUnique
  <2>8. seen[c] \in rows
    BY <2>3, <2>4, <2>5, <2>7
  <2>9. AsRead(c)'
    BY <1>3, <1>4, <2>1 DEF AsRead
  <2> HIDE DEF a
  <2> QED
    BY <1>2, <1>3, <1>5, <2>1, <2>2, <2>8, <2>9 DEF Working
<1> QED
  BY <1>6, <1>7

LEMMA AtomRollback ==
  ASSUME TypeInv, AtomInv, NEW c \in Calls, CreateRefused(c) \/ Fault(c)
  PROVE  Working(c)'
<1>1. /\ held'[c] = {} /\ pend'[c] = {} /\ out'[c] = <<>>
      /\ st'[c] \in {"read", "conflict", "error"}
  BY DEF CreateRefused, Fault, Rollback, TypeInv, TypeOK
<1> QED
  BY <1>1 DEF Working

LEMMA AtomStep ==
  SingleItems /\ Edits = {} /\ TypeInv /\ StoreInv /\ KeepInv /\ AtomInv /\ [Next]_vars => AtomInv'
<1> SUFFICES ASSUME SingleItems, Edits = {}, TypeInv, StoreInv, KeepInv, AtomInv, [Next]_vars
             PROVE  AtomInv'
  OBVIOUS
<1>0. rows \subseteq Row
  BY DEF TypeInv, TypeOK
<1>1. ASSUME NEW c \in Calls,
             \/ Start(c) \/ FindSkip(c) \/ FindStale(c) \/ FindNone(c) \/ Demote(c) \/ Create(c)
             \/ CreateRefused(c) \/ Fault(c),
             NEW d \in Calls, d # c
      PROVE  Working(d)'
  <2>1. /\ st'[d] = st[d] /\ plan'[d] = plan[d] /\ idx'[d] = idx[d] /\ seen'[d] = seen[d]
        /\ held'[d] = held[d] /\ pend'[d] = pend[d] /\ out'[d] = out[d] /\ rows' = rows
    BY <1>1 DEF Start, FindSkip, FindStale, FindNone, Demote, Create, CreateRefused, Fault,
                Rollback, Settle, TypeInv, TypeOK
  <2> QED
    BY <1>0, <2>1, AtomOthers
<1>2. ASSUME NEW c \in Calls, Commit(c), NEW d \in Calls PROVE Working(d)'
  <2>1. CASE d = c
    <3>1. st'[c] = "done"
      BY <1>2 DEF Commit, TypeInv, TypeOK
    <3> QED
      BY <2>1, <3>1 DEF Working
  <2>2. CASE d # c
    <3>1. /\ st'[d] = st[d] /\ plan'[d] = plan[d] /\ idx'[d] = idx[d] /\ seen'[d] = seen[d]
          /\ held'[d] = held[d] /\ pend'[d] = pend[d] /\ out'[d] = out[d]
      BY <1>2, <2>2 DEF Commit, TypeInv, TypeOK
    <3>2. \A r \in rows : IF r.id \in held[c] THEN Superseded(r) \in rows' ELSE r \in rows'
      BY <1>2 DEF Commit
    <3>3. held[c] \cap held[d] = {}
      BY <2>2 DEF StoreInv, RowLocksExclusive
    <3> QED
      BY <1>0, <3>1, <3>2, <3>3, AtomOthers
  <2> QED
    BY <2>1, <2>2
<1>3. CASE UNCHANGED vars
  BY <1>3 DEF vars, callVars, AtomInv, Working, AsRead, Follows, item, kind
<1>4. ASSUME NEW c \in Calls, Start(c) \/ Step(c) \/ Fault(c) PROVE AtomInv'
  <2> SUFFICES ASSUME NEW d \in Calls PROVE Working(d)'
    BY DEF AtomInv
  <2>1. CASE Commit(c)
    BY <1>2, <2>1
  <2>2. CASE ~ Commit(c) /\ d # c
    BY <1>1, <1>4, <2>2 DEF Step
  <2>3. CASE ~ Commit(c) /\ d = c
    BY <1>4, <2>3, AtomStart, AtomFind, AtomDemote, AtomCreate, AtomRollback DEF Step
  <2> QED
    BY <2>1, <2>2, <2>3
<1> QED
  BY <1>3, <1>4 DEF Next, Quiet

(* The table compares and writes rows by the same rules.                   *)
LEMMA SameRules ==
  /\ \A k, i, r : Table!Matches(k, i, r) <=> Matches(k, i, r)
  /\ \A v : Table!Rounded(v) = Rounded(v)
  /\ \A k, i, r : Table!NewForecast(k, i, r) = NewForecast(k, i, r)
  /\ \A r : Table!Superseded(r) = Superseded(r)
BY DEF Table!Matches, Matches, Table!Rounded, Rounded, Table!NewForecast, NewForecast,
       Table!Superseded, Superseded

(* What a call is taken to have reported, by where it is.                  *)
LEMMA ReportedIs ==
  ASSUME NEW c
  PROVE  /\ st[c] \in {"conflict", "error"} => Reported(c) = <<"failed">>
         /\ st[c] = "done" => Reported(c) = out[c]
         /\ st[c] = "commit" /\ out[c] = <<"skipped">> => Reported(c) = out[c]
         /\ st[c] = "commit" /\ out[c] # <<"skipped">> => Reported(c) = <<>>
         /\ st[c] \in {"idle", "read", "demote", "insert"} => Reported(c) = <<>>
BY DEF Reported

LEMMA ReportedNext ==
  ASSUME NEW c
  PROVE  /\ st'[c] \in {"conflict", "error"} => Reported(c)' = <<"failed">>
         /\ st'[c] = "done" => Reported(c)' = out'[c]
         /\ st'[c] = "commit" /\ out'[c] = <<"skipped">> => Reported(c)' = out'[c]
         /\ st'[c] = "commit" /\ out'[c] # <<"skipped">> => Reported(c)' = <<>>
         /\ st'[c] \in {"idle", "read", "demote", "insert"} => Reported(c)' = <<>>
BY DEF Reported

LEMMA ReportKept ==
  ASSUME NEW d, st'[d] = st[d], out'[d] = out[d]
  PROVE  Reported(d)' = Reported(d)
BY DEF Reported

LEMMA OneReports ==
  ASSUME NEW c \in Calls, NEW v, Reported(c)' = v,
         \A d \in Calls : d # c => st'[d] = st[d] /\ out'[d] = out[d]
  PROVE  [d \in Calls |-> Reported(d)]' = [[d \in Calls |-> Reported(d)] EXCEPT ![c] = v]
<1>1. \A d \in Calls : d # c => Reported(d)' = Reported(d)
  BY ReportKept
<1> QED
  BY <1>1

LEMMA TableUnmoved ==
  ASSUME rows' = rows, plan' = plan, \A d \in Calls : Reported(d)' = Reported(d)
  PROVE  UNCHANGED Table!tableVars
BY DEF Table!tableVars

(* The payload of a running call has been asked for, and its only item is  *)
(* the one it works on.                                                    *)
LEMMA Asked ==
  ASSUME SingleItems, TypeInv, NEW c \in Calls, st[c] # "idle"
  PROVE  plan[c] # Table!NoRequest /\ Table!AskedItem(c) = item(c)
<1>1. plan[c] \in Plans /\ idx[c] \in 1..1
  BY DEF TypeInv, WorkOK, SingleItems
<1>2. Len(plan[c].items) = 1
  BY <1>1 DEF SingleItems
<1>3. plan[c] # Table!NoRequest
  BY <1>2 DEF Table!NoRequest
<1> QED
  BY <1>1, <1>3 DEF Table!AskedItem, item

LEMMA TableStart ==
  ASSUME TypeInv, AtomInv, NEW c \in Calls, Start(c)
  PROVE  Table!Ask(c)
<1>1. /\ st[c] = "idle" /\ st'[c] = "read" /\ rows' = rows /\ out' = out
      /\ \A d \in Calls : d # c => st'[d] = st[d]
  BY DEF Start, TypeInv, TypeOK
<1>2. plan[c] = Table!NoRequest
  BY <1>1 DEF AtomInv, Working, NoPlan, Table!NoRequest
<1>3. Reported(c) = <<>> /\ Reported(c)' = <<>>
  BY <1>1, ReportedIs, ReportedNext
<1>4. \A d \in Calls : Reported(d)' = Reported(d)
  BY <1>1, <1>3, ReportKept
<1>5. [d \in Calls |-> Reported(d)]' = [d \in Calls |-> Reported(d)]
  BY <1>4
<1> QED
  BY <1>1, <1>2, <1>5 DEF Start, Table!Ask

LEMMA TableSkip ==
  ASSUME SingleItems, TypeInv, AtomInv, NEW c \in Calls, FindSkip(c)
  PROVE  Table!Skip(c)
<1>1. /\ st[c] = "read" /\ out[c] = <<>> /\ Settle(c, "skipped") /\ rows' = rows /\ plan' = plan
      /\ \A d \in Calls : d # c => st'[d] = st[d] /\ out'[d] = out[d]
  BY DEF FindSkip, Settle, AtomInv, Working, TypeInv, TypeOK
<1>2. st'[c] = "commit" /\ out'[c] = <<"skipped">>
  BY <1>1, SettleSingle
<1>3. Reported(c) = <<>> /\ Reported(c)' = <<"skipped">>
  BY <1>1, <1>2, ReportedIs, ReportedNext
<1>4. [d \in Calls |-> Reported(d)]' = [[d \in Calls |-> Reported(d)] EXCEPT ![c] = <<"skipped">>]
  BY <1>1, <1>3, OneReports
<1>5. plan[c] # Table!NoRequest /\ Table!AskedItem(c) = item(c)
  BY <1>1, Asked
<1>6. \E r \in Table!Present(Table!AskedItem(c).key) : Matches(plan[c].kind, Table!AskedItem(c), r)
  BY <1>5 DEF FindSkip, CurrentAt, kind, Table!Present
<1>7. Table!Report(c, "skipped")
  BY <1>1, <1>3, <1>4, <1>5 DEF Table!Report
<1> QED
  BY <1>1, <1>6, <1>7, SameRules DEF Table!Skip

(* A call that fails had reported nothing, or that it had nothing to write.*)
LEMMA TableFail ==
  ASSUME SingleItems, TypeInv, AtomInv, NEW c \in Calls, CreateRefused(c) \/ Fault(c)
  PROVE  Table!Throw(c) \/ Table!LoseReply(c) \/ UNCHANGED Table!tableVars
<1>1. /\ st[c] \in Running /\ st'[c] \in {"read", "conflict", "error"}
      /\ st'[c] = "read" => st[c] = "insert"
      /\ rows' = rows /\ plan' = plan
      /\ \A d \in Calls : d # c => st'[d] = st[d] /\ out'[d] = out[d]
  BY DEF CreateRefused, Fault, Rollback, Running, TypeInv, TypeOK
<1>2. plan[c] # Table!NoRequest
  BY <1>1, Asked DEF Running
<1>3. Reported(c) \in {<<>>, <<"skipped">>}
  BY <1>1, ReportedIs DEF Running
<1>4. CASE st'[c] = "read"
  <2>1. Reported(c) = <<>> /\ Reported(c)' = <<>>
    BY <1>1, <1>4, ReportedIs, ReportedNext
  <2>2. \A d \in Calls : Reported(d)' = Reported(d)
    BY <1>1, <2>1, ReportKept
  <2> QED
    BY <1>1, <2>2, TableUnmoved
<1>5. CASE st'[c] # "read"
  <2>1. Reported(c)' = <<"failed">>
    BY <1>1, <1>5, ReportedNext
  <2>2. [d \in Calls |-> Reported(d)]' = [[d \in Calls |-> Reported(d)] EXCEPT ![c] = <<"failed">>]
    BY <1>1, <2>1, OneReports
  <2> QED
    BY <1>1, <1>2, <1>3, <2>2 DEF Table!Throw, Table!LoseReply, Table!Report
<1> QED
  BY <1>4, <1>5

LEMMA TableStutter ==
  ASSUME SingleItems, TypeInv, AtomInv, NEW c \in Calls,
         FindStale(c) \/ FindNone(c) \/ Demote(c) \/ Create(c)
  PROVE  UNCHANGED Table!tableVars
<1>1. /\ st[c] \in {"read", "demote", "insert"} /\ rows' = rows /\ plan' = plan
      /\ \A d \in Calls : d # c => st'[d] = st[d] /\ out'[d] = out[d]
  BY DEF FindStale, FindNone, Demote, Create, Settle, TypeInv, TypeOK
<1>2. Reported(c) = <<>>
  BY <1>1, ReportedIs
<1>3. Reported(c)' = <<>>
  <2>1. CASE FindStale(c) \/ FindNone(c) \/ Demote(c)
    <3>1. st'[c] \in {"demote", "insert"}
      BY <2>1 DEF FindStale, FindNone, Demote, TypeInv, TypeOK
    <3> QED
      BY <3>1, ReportedNext
  <2>2. CASE Create(c)
    <3> DEFINE a == IF seen[c] = NoRow THEN "inserted" ELSE "revised"
    <3>1. st[c] = "insert" /\ out[c] = <<>> /\ Settle(c, a)
      BY <2>2 DEF Create, AtomInv, Working
    <3>2. a # "skipped"
      OBVIOUS
    <3> HIDE DEF a
    <3>3. st'[c] = "commit" /\ out'[c] = <<a>>
      BY <3>1, SettleSingle
    <3> QED
      BY <3>2, <3>3, ReportedNext
  <2> QED
    BY <2>1, <2>2
<1>4. \A d \in Calls : Reported(d)' = Reported(d)
  BY <1>1, <1>2, <1>3, ReportKept
<1> QED
  BY <1>1, <1>4, TableUnmoved

(* A commit is the atomic write.                                           *)
LEMMA TableCommit ==
  ASSUME SingleItems, TypeInv, StoreInv, KeepInv, AtomInv, NEW c \in Calls, Commit(c)
  PROVE  Table!Insert(c) \/ Table!Revise(c) \/ UNCHANGED Table!tableVars
<1>1. /\ st[c] = "commit" /\ st'[c] = "done" /\ out' = out /\ plan' = plan
      /\ \A d \in Calls : d # c => st'[d] = st[d]
      /\ rows' = {IF r.id \in held[c] THEN Superseded(r) ELSE r : r \in rows} \cup pend[c]
  BY DEF Commit, TypeInv, TypeOK
<1>2. plan[c] # Table!NoRequest /\ Table!AskedItem(c) = item(c)
  BY <1>1, Asked
<1>3. Reported(c)' = out[c]
  BY <1>1, ReportedNext
<1>4. [d \in Calls |-> Reported(d)]' = [[d \in Calls |-> Reported(d)] EXCEPT ![c] = out[c]]
  BY <1>1, <1>3, OneReports
<1>5. CASE out[c] = <<"skipped">> /\ held[c] = {} /\ pend[c] = {}
  <2>1. rows' = rows
    BY <1>1, <1>5
  <2>2. Reported(c) = out[c]
    BY <1>1, <1>5, ReportedIs
  <2>3. \A d \in Calls : Reported(d)' = Reported(d)
    BY <1>1, <1>3, <2>2, ReportKept
  <2> QED
    BY <1>1, <2>1, <2>3, TableUnmoved
<1>6. ASSUME NEW n \in pend[c], pend[c] = {n}, Follows(n, c), out[c] # <<"skipped">>
      PROVE  /\ Reported(c) = <<>> /\ n \in rows'
             /\ Table!IsVintageOf(n, c, seen[c])
             /\ \A r \in CurrentAt(item(c).key) : r.id \in held[c]
  <2>1. Reported(c) = <<>> /\ n \in rows'
    BY <1>1, <1>6, ReportedIs
  <2>2. \A r \in rows : r.id # n.id
    BY DEF KeepInv, Creates
  <2>3. Table!IsVintageOf(n, c, seen[c])
    BY <1>2, <1>6, <2>2, SameRules DEF Table!IsVintageOf, Follows, kind
  <2>4. \A r \in CurrentAt(n.key) : r.id \in held[c]
    BY DEF StoreInv, PendingOwnsItsKeys
  <2> QED
    BY <1>6, <2>1, <2>3, <2>4 DEF Follows
<1>7. ASSUME NEW n \in pend[c], pend[c] = {n}, Follows(n, c), out[c] = <<"inserted">>,
             seen[c] = NoRow, held[c] = {}
      PROVE  Table!Insert(c)
  <2>1. out[c] # <<"skipped">>
    BY <1>7
  <2>2. rows' = rows \cup {n}
    BY <1>1, <1>7
  <2>3. /\ Reported(c) = <<>> /\ n \in rows' /\ Table!IsVintageOf(n, c, NoRow)
        /\ CurrentAt(item(c).key) = {}
    BY <1>6, <1>7, <2>1
  <2>4. Table!Present(Table!AskedItem(c).key) = {}
    BY <1>2, <2>3 DEF Table!Present, CurrentAt
  <2>5. Table!Report(c, "inserted")
    BY <1>1, <1>2, <1>4, <1>7, <2>3 DEF Table!Report
  <2> QED
    BY <2>2, <2>3, <2>4, <2>5 DEF Table!Insert
<1>8. ASSUME NEW n \in pend[c], pend[c] = {n}, Follows(n, c), out[c] = <<"revised">>,
             AsRead(c), seen[c] \in rows, held[c] = {seen[c].id}
      PROVE  Table!Revise(c)
  <2> DEFINE s == seen[c]
  <2>1. out[c] # <<"skipped">>
    BY <1>8
  <2>2. /\ Reported(c) = <<>> /\ n \in rows' /\ Table!IsVintageOf(n, c, s)
    BY <1>6, <1>8, <2>1
  <2>3. \A r \in rows : r.id = s.id <=> r = s
    BY <1>8 DEF KeepInv, IdsUnique
  <2>4. rows' = (rows \ {s}) \cup {Superseded(s), n}
    <3>1. rows' = {IF r = s THEN Superseded(s) ELSE r : r \in rows} \cup {n}
      BY <1>1, <1>8, <2>3
    <3> HIDE DEF s
    <3> QED
      BY <1>8, <3>1 DEF s
  <2>5. s \in Table!Present(Table!AskedItem(c).key)
    BY <1>2, <1>8 DEF Table!Present, AsRead
  <2>6. ~ Matches(plan[c].kind, Table!AskedItem(c), s)
    BY <1>2, <1>8 DEF AsRead, kind
  <2>7. Table!Report(c, "revised")
    BY <1>1, <1>2, <1>4, <1>8, <2>2 DEF Table!Report
  <2> QED
    BY <2>2, <2>4, <2>5, <2>6, <2>7, SameRules DEF Table!Revise
<1> QED
  BY <1>1, <1>5, <1>7, <1>8 DEF AtomInv, Working

LEMMA TableStep ==
  SingleItems /\ Edits = {} /\ TypeInv /\ StoreInv /\ KeepInv /\ AtomInv /\ [Next]_vars
    => [Table!TableNext]_Table!tableVars
<1> SUFFICES ASSUME SingleItems, Edits = {}, TypeInv, StoreInv, KeepInv, AtomInv, [Next]_vars
             PROVE  Table!TableNext \/ UNCHANGED Table!tableVars
  OBVIOUS
<1>1. CASE UNCHANGED vars
  BY <1>1, ReportKept, TableUnmoved DEF vars, callVars
<1>2. ASSUME NEW c \in Calls, Start(c) \/ Step(c) \/ Fault(c)
      PROVE  Table!TableNext \/ UNCHANGED Table!tableVars
  <2>1. CASE Start(c)
    BY <2>1, TableStart DEF Table!TableNext
  <2>2. CASE FindSkip(c)
    BY <2>2, TableSkip DEF Table!TableNext
  <2>3. CASE FindStale(c) \/ FindNone(c) \/ Demote(c) \/ Create(c)
    BY <2>3, TableStutter
  <2>4. CASE CreateRefused(c) \/ Fault(c)
    BY <2>4, TableFail DEF Table!TableNext
  <2>5. CASE Commit(c)
    BY <2>5, TableCommit DEF Table!TableNext
  <2> QED
    BY <1>2, <2>1, <2>2, <2>3, <2>4, <2>5 DEF Step
<1> QED
  BY <1>1, <1>2 DEF Next, Quiet

LEMMA TableInitially == Init => Table!TableInit
<1> SUFFICES ASSUME Init PROVE Table!TableInit
  OBVIOUS
<1>1. \A c \in Calls : Reported(c) = <<>>
  BY ReportedIs DEF Init
<1>2. [c \in Calls |-> Reported(c)] = [c \in Calls |-> <<>>]
  BY <1>1
<1> QED
  BY <1>2 DEF Init, NoPlan, Table!TableInit, Table!NoRequest

(* Single-key writes are atomic: however the statements of any number of   *)
(* upserts and overrides interleave, retry, fail or lose their connection, *)
(* each call that reports a write has superseded the row that was current  *)
(* at that instant, with the columns its vintage carries on taken from     *)
(* that row, and every other call has left the table alone.                *)
THEOREM WritesTakeEffectAtOnce ==
  ASSUME Edits = {}, SeedsKeepCurrent, SingleItems
  PROVE  Spec => WritesAreAtomic
<1>1. Spec => [](TypeInv /\ StoreInv)
  BY TypeInit, TypeStep, StoreInit, StoreStep, PTL DEF Spec
<1>2. Init => KeepInv /\ AtomInv /\ Table!TableInit
  BY KeepInit, AtomInit, TableInitially
<1>3. TypeInv /\ KeepInv /\ [Next]_vars => KeepInv'
  BY KeepStep
<1>4. TypeInv /\ StoreInv /\ KeepInv /\ AtomInv /\ [Next]_vars => AtomInv'
  BY AtomStep
<1>5. TypeInv /\ StoreInv /\ KeepInv /\ AtomInv /\ [Next]_vars
        => [Table!TableNext]_Table!tableVars
  BY TableStep
<1> QED
  BY <1>1, <1>2, <1>3, <1>4, <1>5, PTL DEF Spec, WritesAreAtomic, Table!TableSpec
-------------------------------------------------------------------------------
(* Who loses twice. *)

Won(c) == {d \in Calls \ {c} : st[d] = "done"}

(* What the call has read of its key is still so, but for what it has      *)
(* demoted itself.                                                         *)
Fresh(c) ==
  /\ st[c] = "demote" => CurrentAt(item(c).key) = {seen[c]}
  /\ st[c] = "insert" => \A r \in CurrentAt(item(c).key) : r.id \in held[c]

(* What it has created stands under keys it is done with.                  *)
Behind(c) ==
  /\ st[c] \in {"idle", "conflict", "error"} => pend[c] = {}
  /\ st[c] \in {"read", "demote", "insert"} =>
       \A p \in pend[c] : \E i \in 1..(idx[c] - 1) : p.key = plan[c].items[i].key

(* A first attempt can only be refused after one other call has committed, *)
(* a second one after two.                                                 *)
Beaten(c) ==
  /\ att[c] = 2 => Won(c) # {}
  /\ st[c] \in {"demote", "insert"} /\ ~ Fresh(c) =>
       /\ Won(c) # {}
       /\ att[c] = 2 => \E d, e \in Won(c) : d # e
  /\ st[c] = "conflict" /\ kind(c) # "override" => \E d, e \in Won(c) : d # e

BehindInv == \A c \in Calls : Behind(c)
ConflictInv == NoEditYet => \A c \in Calls : Beaten(c)

LEMMA BehindInit == Init => BehindInv
BY DEF Init, BehindInv, Behind

(* A step that leaves a call alone leaves it behind its keys.              *)
LEMMA BehindOthers ==
  ASSUME BehindInv, NEW d \in Calls, st'[d] = st[d], pend'[d] = pend[d], plan'[d] = plan[d],
         idx'[d] = idx[d]
  PROVE  Behind(d)'
BY DEF BehindInv, Behind

(* What a settled item adds stands under the key of that item.             *)
LEMMA BehindSettle ==
  ASSUME TypeInv, BehindInv, NEW c \in Calls, st[c] \in {"read", "insert"}, NEW a, Settle(c, a),
         plan' = plan, \A p \in pend'[c] : p \in pend[c] \/ p.key = item(c).key
  PROVE  Behind(c)'
<1>1. idx[c] \in Nat \ {0}
  BY DEF TypeInv, TypeOK
<1>2. \A p \in pend'[c] : \E i \in 1..idx[c] : p.key = plan[c].items[i].key
  BY <1>1 DEF BehindInv, Behind, item
<1>3. CASE idx[c] < Len(plan[c].items)
  <2>1. idx'[c] = idx[c] + 1 /\ st'[c] = "read"
    BY <1>3 DEF Settle, TypeInv, TypeOK
  <2> QED
    BY <1>1, <1>2, <2>1 DEF Behind
<1>4. CASE ~ (idx[c] < Len(plan[c].items))
  <2>1. st'[c] = "commit"
    BY <1>4 DEF Settle, TypeInv, TypeOK
  <2> QED
    BY <2>1 DEF Behind
<1> QED
  BY <1>3, <1>4

LEMMA BehindStep == TypeInv /\ BehindInv /\ [Next]_vars => BehindInv'
<1> SUFFICES ASSUME TypeInv, BehindInv, [Next]_vars PROVE BehindInv'
  OBVIOUS
<1>1. ASSUME NEW c \in Calls, Start(c) \/ FindStale(c) \/ FindNone(c) \/ Demote(c)
      PROVE  BehindInv'
  <2>1. ASSUME NEW d \in Calls, d # c PROVE Behind(d)'
    BY <1>1, <2>1, BehindOthers DEF Start, FindStale, FindNone, Demote, TypeInv, TypeOK
  <2>2. /\ pend' = pend /\ idx' = idx /\ st'[c] \in {"read", "demote", "insert"}
        /\ st[c] # "idle" => st[c] \in {"read", "demote"} /\ plan' = plan
    BY <1>1 DEF Start, FindStale, FindNone, Demote, TypeInv, TypeOK
  <2>3. Behind(c)'
    BY <2>2 DEF BehindInv, Behind
  <2> QED
    BY <2>1, <2>3 DEF BehindInv
<1>2. ASSUME NEW c \in Calls, FindSkip(c) PROVE BehindInv'
  <2>1. ASSUME NEW d \in Calls, d # c PROVE Behind(d)'
    BY <1>2, <2>1, BehindOthers DEF FindSkip, Settle, TypeInv, TypeOK
  <2>2. Behind(c)'
    BY <1>2, BehindSettle DEF FindSkip
  <2> QED
    BY <2>1, <2>2 DEF BehindInv
<1>3. ASSUME NEW c \in Calls, Create(c) PROVE BehindInv'
  <2>1. ASSUME NEW d \in Calls, d # c PROVE Behind(d)'
    BY <1>3, <2>1, BehindOthers DEF Create, Settle, TypeInv, TypeOK
  <2>2. \A p \in pend'[c] : p \in pend[c] \/ p.key = item(c).key
    BY <1>3 DEF Create, NewRow, TypeInv, TypeOK
  <2>3. Behind(c)'
    BY <1>3, <2>2, BehindSettle DEF Create
  <2> QED
    BY <2>1, <2>3 DEF BehindInv
<1>4. ASSUME NEW c \in Calls, CreateRefused(c) \/ Fault(c) PROVE BehindInv'
  <2>1. ASSUME NEW d \in Calls, d # c PROVE Behind(d)'
    BY <1>4, <2>1, BehindOthers DEF CreateRefused, Fault, Rollback, TypeInv, TypeOK
  <2>2. pend'[c] = {}
    BY <1>4 DEF CreateRefused, Fault, Rollback, TypeInv, TypeOK
  <2> QED
    BY <2>1, <2>2 DEF BehindInv, Behind
<1>5. ASSUME NEW c \in Calls, Commit(c) PROVE BehindInv'
  <2>1. ASSUME NEW d \in Calls, d # c PROVE Behind(d)'
    BY <1>5, <2>1, BehindOthers DEF Commit, TypeInv, TypeOK
  <2>2. pend'[c] = {}
    BY <1>5 DEF Commit, TypeInv, TypeOK
  <2> QED
    BY <2>1, <2>2 DEF BehindInv, Behind
<1>6. CASE UNCHANGED callVars
  BY <1>6, BehindOthers DEF callVars, BehindInv
<1> QED
  BY <1>1, <1>2, <1>3, <1>4, <1>5, <1>6
     DEF Next, Step, EditStep, EditLoad, EditWrite, EditRefused, Quiet, vars

-------------------------------------------------------------------------------
(* As long as no edit is done, no edit has written.                         *)
LEMMA EditsLast ==
  ASSUME TypeInv, [Next]_vars, NoEditYet'
  PROVE  NoEditYet /\ ~ \E e \in Edits : EditWrite(e)
<1> USE DEF TypeInv, TypeOK
<1>1. \A e \in Edits : ~ EditWrite(e)
  BY DEF NoEditYet, EditWrite
<1>2. ASSUME NEW e \in Edits, est[e] = "done" PROVE est'[e] = "done"
  <2>1. CASE \E c \in Calls : Start(c) \/ Step(c) \/ Fault(c)
    BY <1>2, <2>1 DEF Start, Step, FindSkip, FindStale, FindNone, Demote, Create,
       CreateRefused, Commit, Fault, Rollback, editVars
  <2>2. CASE \E d \in Edits : EditLoad(d) \/ EditRefused(d)
    BY <1>2, <2>2 DEF EditLoad, EditRefused
  <2>3. CASE UNCHANGED vars
    BY <1>2, <2>3 DEF vars, editVars
  <2> QED
    BY <1>1, <2>1, <2>2, <2>3 DEF Next, EditStep, Quiet
<1> QED
  BY <1>1, <1>2 DEF NoEditYet

(* Only a row that is not the call's own doing refuses its insert.          *)
LEMMA RefusedIsBeaten ==
  ASSUME TypeInv, BehindInv, NEW c \in Calls, st[c] = "insert", IndexRefuses(item(c).key, c)
  PROVE  ~ Fresh(c)
<1>1. \A p \in pend[c] : p.key # item(c).key
  <2> SUFFICES ASSUME NEW p \in pend[c], p.key = item(c).key PROVE FALSE
    OBVIOUS
  <2>1. PICK i \in 1..(idx[c] - 1) : p.key = plan[c].items[i].key
    BY DEF BehindInv, Behind
  <2>2. plan[c] \in Plans /\ idx[c] \in 1..Len(plan[c].items)
    BY DEF TypeInv, WorkOK
  <2>3. i \in 1..Len(plan[c].items) /\ i # idx[c] /\ Len(plan[c].items) \in Nat
    BY <2>1, <2>2, PlansAssumption
  <2> QED
    BY <2>1, <2>2, <2>3, PlansAssumption DEF item
<1> QED
  BY <1>1 DEF IndexRefuses, Fresh

(* A call is not concerned by a step that leaves it and the table alone.    *)
LEMMA BeatenOthers ==
  ASSUME NEW d \in Calls, Beaten(d), rows' = rows, st'[d] = st[d], plan'[d] = plan[d],
         idx'[d] = idx[d], att'[d] = att[d], seen'[d] = seen[d], held'[d] = held[d],
         \A c \in Calls : st[c] = "done" => st'[c] = "done"
  PROVE  Beaten(d)'
<1>1. Won(d) \subseteq Won(d)'
  BY DEF Won
<1>2. Fresh(d)' <=> Fresh(d)
  BY DEF Fresh, CurrentAt, item
<1> QED
  BY <1>1, <1>2 DEF Beaten, kind

LEMMA BeatenInit == Init => ConflictInv
BY DEF Init, ConflictInv, Beaten

LEMMA BeatenStep ==
  TypeInv /\ StoreInv /\ BehindInv /\ ConflictInv /\ [Next]_vars => ConflictInv'
<1> SUFFICES ASSUME TypeInv, StoreInv, BehindInv, ConflictInv, [Next]_vars, NoEditYet'
             PROVE  \A c \in Calls : Beaten(c)'
  BY DEF ConflictInv
<1> USE DEF TypeInv, TypeOK
<1>0. NoEditYet /\ ~ \E e \in Edits : EditWrite(e)
  BY EditsLast
<1>1. \A c \in Calls : Beaten(c)
  BY <1>0 DEF ConflictInv
<1>2. ASSUME NEW c \in Calls, Start(c) PROVE \A d \in Calls : Beaten(d)'
  <2>1. ASSUME NEW d \in Calls, d # c PROVE Beaten(d)'
    BY <1>1, <1>2, <2>1, BeatenOthers DEF Start
  <2>2. st[c] = "idle" /\ st'[c] = "read" /\ att'[c] = att[c] /\ Won(c)' = Won(c)
    BY <1>2 DEF Start, Won
  <2> QED
    BY <1>1, <2>1, <2>2 DEF Beaten
<1>3. ASSUME NEW c \in Calls, FindSkip(c) PROVE \A d \in Calls : Beaten(d)'
  <2>1. ASSUME NEW d \in Calls, d # c PROVE Beaten(d)'
    BY <1>1, <1>3, <2>1, BeatenOthers DEF FindSkip, Settle
  <2>2. st'[c] \in {"read", "commit"} /\ att'[c] = att[c] /\ Won(c)' = Won(c)
    BY <1>3 DEF FindSkip, Settle, Won
  <2> QED
    BY <1>1, <2>1, <2>2 DEF Beaten
<1>4. ASSUME NEW c \in Calls, FindStale(c) PROVE \A d \in Calls : Beaten(d)'
  <2>1. ASSUME NEW d \in Calls, d # c PROVE Beaten(d)'
    BY <1>1, <1>4, <2>1, BeatenOthers DEF FindStale
  <2>2. /\ st'[c] = "demote" /\ att'[c] = att[c] /\ Won(c)' = Won(c) /\ rows' = rows
        /\ item(c)' = item(c)
    BY <1>4 DEF FindStale, Won, item
  <2>3. seen'[c] \in CurrentAt(item(c).key)
    BY <1>4 DEF FindStale
  <2>4. CurrentAt(item(c).key) = {seen'[c]}
    BY <2>3 DEF CurrentAt, StoreInv, AtMostOneCurrent, AtMostOneCurrentIn
  <2>5. Fresh(c)'
    BY <2>2, <2>4 DEF Fresh, CurrentAt
  <2> QED
    BY <1>1, <2>1, <2>2, <2>5 DEF Beaten
<1>5. ASSUME NEW c \in Calls, FindNone(c) PROVE \A d \in Calls : Beaten(d)'
  <2>1. ASSUME NEW d \in Calls, d # c PROVE Beaten(d)'
    BY <1>1, <1>5, <2>1, BeatenOthers DEF FindNone
  <2>2. /\ st'[c] = "insert" /\ att'[c] = att[c] /\ Won(c)' = Won(c) /\ rows' = rows
        /\ item(c)' = item(c) /\ CurrentAt(item(c).key) = {}
    BY <1>5 DEF FindNone, Won, item
  <2>3. Fresh(c)'
    BY <2>2 DEF Fresh, CurrentAt
  <2> QED
    BY <1>1, <2>1, <2>2, <2>3 DEF Beaten
<1>6. ASSUME NEW c \in Calls, Demote(c) PROVE \A d \in Calls : Beaten(d)'
  <2>1. ASSUME NEW d \in Calls, d # c PROVE Beaten(d)'
    BY <1>1, <1>6, <2>1, BeatenOthers DEF Demote
  <2>2. /\ st[c] = "demote" /\ st'[c] = "insert" /\ att'[c] = att[c] /\ Won(c)' = Won(c)
        /\ rows' = rows /\ item(c)' = item(c) /\ held'[c] = held[c] \cup {seen[c].id}
    BY <1>6 DEF Demote, Won, item
  <2>3. Fresh(c) => Fresh(c)'
    BY <2>2 DEF Fresh, CurrentAt
  <2>4. Beaten(c)'
    BY <1>1, <2>2, <2>3 DEF Beaten
  <2> QED
    BY <2>1, <2>4
<1>7. ASSUME NEW c \in Calls, Create(c) PROVE \A d \in Calls : Beaten(d)'
  <2>1. ASSUME NEW d \in Calls, d # c PROVE Beaten(d)'
    BY <1>1, <1>7, <2>1, BeatenOthers DEF Create, Settle
  <2>2. st'[c] \in {"read", "commit"} /\ att'[c] = att[c] /\ Won(c)' = Won(c)
    BY <1>7 DEF Create, Settle, Won
  <2> QED
    BY <1>1, <2>1, <2>2 DEF Beaten
<1>8. ASSUME NEW c \in Calls, CreateRefused(c) PROVE \A d \in Calls : Beaten(d)'
  <2>1. ASSUME NEW d \in Calls, d # c PROVE Beaten(d)'
    BY <1>1, <1>8, <2>1, BeatenOthers DEF CreateRefused, Rollback
  <2>2. ~ Fresh(c) /\ st[c] = "insert"
    BY <1>8, RefusedIsBeaten DEF CreateRefused
  <2>3. plan' = plan /\ Won(c)' = Won(c)
    BY <1>8 DEF CreateRefused, Rollback, Won
  <2>4. CASE att[c] < MaxAttempts(kind(c))
    BY <1>1, <1>8, <2>1, <2>2, <2>3, <2>4 DEF CreateRefused, Beaten
  <2>5. CASE ~ (att[c] < MaxAttempts(kind(c)))
    <3>1. st'[c] = "conflict" /\ att' = att /\ (kind(c) # "override" => att[c] = 2)
      BY <1>8, <2>5 DEF CreateRefused, MaxAttempts
    <3>2. Won(c) # {} /\ (kind(c) # "override" => \E d, e \in Won(c) : d # e)
      BY <1>1, <2>2, <3>1 DEF Beaten
    <3>3. Beaten(c)'
      BY <2>3, <3>1, <3>2 DEF Beaten, kind
    <3> QED
      BY <2>1, <3>3
  <2> QED
    BY <2>4, <2>5
<1>9. ASSUME NEW c \in Calls, Fault(c) PROVE \A d \in Calls : Beaten(d)'
  <2>1. ASSUME NEW d \in Calls, d # c PROVE Beaten(d)'
    BY <1>1, <1>9, <2>1, BeatenOthers DEF Fault, Rollback, Running
  <2>2. st'[c] = "error" /\ att'[c] = att[c] /\ Won(c)' = Won(c)
    BY <1>9 DEF Fault, Rollback, Won
  <2> QED
    BY <1>1, <2>1, <2>2 DEF Beaten
<1>10. ASSUME NEW c \in Calls, Commit(c) PROVE \A d \in Calls : Beaten(d)'
  <2>1. ASSUME NEW d \in Calls, d # c PROVE Beaten(d)'
    <3>1. c \notin Won(d) /\ Won(d)' = Won(d) \cup {c}
      BY <1>10, <2>1 DEF Commit, Won
    <3>2. st'[d] = st[d] /\ att'[d] = att[d] /\ plan' = plan
      BY <1>10, <2>1 DEF Commit
    <3> QED
      BY <1>1, <3>1, <3>2 DEF Beaten, kind
  <2>2. st'[c] = "done" /\ att'[c] = att[c] /\ Won(c)' = Won(c)
    BY <1>10 DEF Commit, Won
  <2> QED
    BY <1>1, <2>1, <2>2 DEF Beaten
<1>11. CASE UNCHANGED callVars /\ rows' = rows
  BY <1>1, <1>11, BeatenOthers DEF callVars
<1> QED
  BY <1>0, <1>2, <1>3, <1>4, <1>5, <1>6, <1>7, <1>8, <1>9, <1>10, <1>11
     DEF Next, Step, EditStep, EditLoad, EditRefused, Quiet, vars

(* The one retry is enough against one other writer: whatever the number    *)
(* of calls, an upsert or batch ends in the unique violation only if two    *)
(* others have committed beside it.                                         *)
THEOREM OnlyTwoWinnersRefuse == Spec => []NoConflictEscapes
<1>1. ConflictInv => NoConflictEscapes
  BY DEF ConflictInv, NoConflictEscapes, Beaten, Won
<1>2. Spec => []TypeInv
  BY TypeInit, TypeStep, PTL DEF Spec
<1>3. Spec => []BehindInv
  BY <1>2, BehindInit, BehindStep, PTL DEF Spec
<1> QED
  BY <1>1, <1>2, <1>3, KeysAreOwned, BeatenInit, BeatenStep, PTL DEF Spec
-------------------------------------------------------------------------------
(* Rows keep their ids, edited or not. *)

OwnIds == IdsUnique /\ \A c \in Calls : Creates(c)

LEMMA OwnIdsInit == Init => OwnIds
<1> SUFFICES ASSUME Init PROVE OwnIds
  OBVIOUS
<1>1. PICK s \in Seeds : rows = s.rows /\ nextId = s.nextId
  BY DEF Init
<1> QED
  BY <1>1, SeedsAssumption DEF OwnIds, IdsUnique, Creates, Init

(* A call may also drop what it has created.                                *)
LEMMA OwnIdsKept ==
  ASSUME OwnIds, rows' = rows, nextId' = nextId,
         \A c \in Calls : pend'[c] \in {pend[c], {}}
  PROVE  OwnIds'
BY DEF OwnIds, IdsUnique, Creates

LEMMA OwnIdsCreate ==
  ASSUME TypeInv, OwnIds, NEW c \in Calls, Create(c)
  PROVE  OwnIds'
<1> DEFINE n == NewRow(c)
<1>1. /\ rows' = rows /\ nextId' = nextId + 1
      /\ \A d \in Calls : pend'[d] = IF d = c THEN pend[c] \cup {n} ELSE pend[d]
  BY DEF Create, TypeInv, TypeOK
<1>2. n.cur /\ n.id = nextId
  BY DEF NewRow
<1>3. /\ nextId \in Nat /\ \A r \in rows : r.id \in Nat
      /\ \A d \in Calls : \A p \in pend[d] : p.id \in Nat
  BY DEF TypeInv, TypeOK, Row
<1> HIDE DEF n
<1>4. ASSUME NEW d \in Calls PROVE Creates(d)'
  BY <1>1, <1>2, <1>3 DEF OwnIds, Creates, IdsUnique
<1>5. IdsUnique'
  <2>1. \A r \in rows : r.id < nextId'
    BY <1>1, <1>3 DEF OwnIds, IdsUnique
  <2>2. \A d \in Calls : \A p \in pend[d] : p.id # n.id
    BY <1>2, <1>3 DEF OwnIds, Creates
  <2>3. ASSUME NEW d \in Calls, NEW e \in Calls, NEW p \in pend'[d], NEW q \in pend'[e],
               p.id = q.id
        PROVE  d = e /\ p = q
    BY <1>1, <2>2, <2>3 DEF OwnIds, IdsUnique
  <2> QED
    BY <1>1, <2>1, <2>3 DEF OwnIds, IdsUnique
<1> QED
  BY <1>4, <1>5 DEF OwnIds

LEMMA OwnIdsCommit ==
  ASSUME TypeInv, OwnIds, NEW c \in Calls, Commit(c)
  PROVE  OwnIds'
<1> DEFINE after(r) == IF r.id \in held[c] THEN Superseded(r) ELSE r
<1>1. /\ rows' = {after(r) : r \in rows} \cup pend[c]
      /\ nextId' = nextId
      /\ \A d \in Calls : pend'[d] = IF d = c THEN {} ELSE pend[d]
  BY DEF Commit, TypeInv, TypeOK
<1>2. \A r \in rows : after(r).id = r.id
  BY SupersededRow DEF TypeInv, TypeOK
<1> HIDE DEF after
<1>3. ASSUME NEW t \in rows' PROVE t \in pend[c] \/ \E r \in rows : t = after(r)
  BY <1>1
<1>4. \A t \in rows' : t.id < nextId'
  BY <1>1, <1>2, <1>3 DEF OwnIds, IdsUnique, Creates
<1>5. ASSUME NEW t \in rows', NEW u \in rows', t.id = u.id PROVE t = u
  <2>1. CASE t \in pend[c] /\ u \in pend[c]
    BY <1>5, <2>1 DEF OwnIds, IdsUnique
  <2>2. ASSUME NEW r \in rows, NEW q \in rows, t = after(r), u = after(q) PROVE t = u
    BY <1>2, <1>5, <2>2 DEF OwnIds, IdsUnique
  <2>3. ASSUME NEW r \in rows, NEW p \in pend[c] PROVE after(r).id # p.id
    BY <1>2 DEF OwnIds, Creates
  <2> QED
    BY <1>3, <1>5, <2>1, <2>2, <2>3
<1>6. IdsUnique'
  BY <1>1, <1>4, <1>5 DEF OwnIds, IdsUnique
<1>7. ASSUME NEW d \in Calls PROVE Creates(d)'
  <2>1. CASE d = c
    BY <1>1, <2>1 DEF Creates
  <2>2. CASE d # c
    <3>1. \A p \in pend[d], t \in rows' : t.id # p.id
      BY <1>2, <1>3, <2>2 DEF OwnIds, Creates, IdsUnique
    <3> QED
      BY <1>1, <2>2, <3>1 DEF OwnIds, Creates
  <2> QED
    BY <2>1, <2>2
<1> QED
  BY <1>6, <1>7 DEF OwnIds

LEMMA OwnIdsEdit ==
  ASSUME TypeInv, OwnIds, NEW e \in Edits, EditWrite(e)
  PROVE  OwnIds'
<1>1. PICK r \in rows : rows' = (rows \ {r}) \cup {Edited(e, r)}
  BY DEF EditWrite
<1> DEFINE n == Edited(e, r)
<1>2. n.id = r.id
  BY EditedRow DEF TypeInv, TypeOK
<1>3. nextId' = nextId /\ pend' = pend
  BY DEF EditWrite, callVars
<1> HIDE DEF n
<1>4. rows' = (rows \ {r}) \cup {n}
  BY <1>1 DEF n
<1>5. \A t \in rows' : \E q \in rows : q.id = t.id
  BY <1>2, <1>4
<1>6. \A t, u \in rows' : t.id = u.id => t = u
  BY <1>2, <1>4 DEF OwnIds, IdsUnique
<1>7. IdsUnique'
  BY <1>3, <1>5, <1>6 DEF OwnIds, IdsUnique
<1>8. \A c \in Calls : Creates(c)'
  BY <1>3, <1>5 DEF OwnIds, Creates
<1> QED
  BY <1>7, <1>8 DEF OwnIds

LEMMA OwnIdsStep == TypeInv /\ OwnIds /\ [Next]_vars => OwnIds'
<1> SUFFICES ASSUME TypeInv, OwnIds, [Next]_vars PROVE OwnIds'
  OBVIOUS
<1>1. ASSUME NEW c \in Calls, Start(c) \/ FindSkip(c) \/ FindStale(c) \/ FindNone(c) \/ Demote(c)
      PROVE  OwnIds'
  BY <1>1, OwnIdsKept DEF Start, FindSkip, FindStale, FindNone, Demote
<1>2. ASSUME NEW c \in Calls, Create(c) PROVE OwnIds'
  BY <1>2, OwnIdsCreate
<1>3. ASSUME NEW c \in Calls, CreateRefused(c) \/ Fault(c) PROVE OwnIds'
  <2>1. \A d \in Calls : pend'[d] \in {pend[d], {}}
    BY <1>3 DEF CreateRefused, Fault, Rollback, TypeInv, TypeOK
  <2> QED
    BY <1>3, <2>1, OwnIdsKept DEF CreateRefused, Fault, Rollback
<1>4. ASSUME NEW c \in Calls, Commit(c) PROVE OwnIds'
  BY <1>4, OwnIdsCommit
<1>5. ASSUME NEW e \in Edits, EditWrite(e) PROVE OwnIds'
  BY <1>5, OwnIdsEdit
<1>6. ASSUME NEW e \in Edits, EditLoad(e) \/ EditRefused(e) PROVE OwnIds'
  BY <1>6, OwnIdsKept DEF EditLoad, EditRefused, callVars
<1>7. CASE UNCHANGED vars
  BY <1>7, OwnIdsKept DEF vars, callVars
<1> QED
  BY <1>1, <1>2, <1>3, <1>4, <1>5, <1>6, <1>7 DEF Next, Step, EditStep, Quiet
-------------------------------------------------------------------------------
(* The results a call reports are the rows it leaves. *)

(* A report of one more item counts one more row, unless it was skipped.    *)
LEMMA WrittenFinite ==
  ASSUME NEW s \in Seq(Actions)
  PROVE  IsFiniteSet(Written(s)) /\ \A i \in Written(s) : i \in Nat /\ i <= Len(s)
<1>1. Len(s) \in Nat /\ Written(s) \subseteq 1..Len(s)
  BY DEF Written
<1>2. IsFiniteSet(1..Len(s))
  BY <1>1, FS_Interval
<1>3. IsFiniteSet(Written(s))
  BY <1>1, <1>2, FS_Subset
<1> QED
  BY <1>1, <1>3

LEMMA WrittenAppend ==
  ASSUME NEW s \in Seq(Actions), NEW a \in Actions
  PROVE  Cardinality(Written(Append(s, a))) =
           Cardinality(Written(s)) + IF a = "skipped" THEN 0 ELSE 1
<1>1. Len(s) \in Nat /\ Append(s, a) \in Seq(Actions) /\ Len(Append(s, a)) = Len(s) + 1
  OBVIOUS
<1>2. \A i \in 1..Len(s) : Append(s, a)[i] = s[i]
  OBVIOUS
<1>3. Append(s, a)[Len(s) + 1] = a
  OBVIOUS
<1>4. DOMAIN s = 1..Len(s) /\ DOMAIN Append(s, a) = 1..(Len(s) + 1)
  BY <1>1
<1>5. Written(Append(s, a)) = IF a = "skipped" THEN Written(s) ELSE Written(s) \cup {Len(s) + 1}
  <2>1. \A i : i \in Written(Append(s, a)) <=>
                 i \in Written(s) \/ (i = Len(s) + 1 /\ a # "skipped")
    BY <1>1, <1>2, <1>3, <1>4 DEF Written
  <2> QED
    BY <2>1
<1>6. Len(s) + 1 \notin Written(s) /\ IsFiniteSet(Written(s))
  BY <1>1, WrittenFinite
<1>7. Cardinality(Written(s)) \in Nat
  BY <1>6, FS_CardinalityType
<1>8. CASE a = "skipped"
  BY <1>5, <1>7, <1>8
<1>9. CASE a # "skipped"
  <2>1. Cardinality(Written(s) \cup {Len(s) + 1}) = Cardinality(Written(s)) + 1
    BY <1>6, FS_AddElement
  <2> QED
    BY <1>5, <1>9, <2>1
<1> QED
  BY <1>8, <1>9

(* Rows told apart by their ids are as many as their images that keep them. *)
LEMMA AsMany ==
  ASSUME NEW S, NEW T, IsFiniteSet(S),
         \A r, q \in S : r.id = q.id => r = q,
         \A t, u \in T : t.id = u.id => t = u,
         \A r \in S : \E t \in T : t.id = r.id,
         \A t \in T : \E r \in S : r.id = t.id
  PROVE  IsFiniteSet(T) /\ Cardinality(T) = Cardinality(S)
<1> DEFINE f == [r \in S |-> CHOOSE t \in T : t.id = r.id]
<1>1. \A r \in S : f[r] \in T /\ f[r].id = r.id
  OBVIOUS
<1>2. f \in [S -> T]
  BY <1>1
<1> HIDE DEF f
<1>3. \A r, q \in S : f[r] = f[q] => r = q
  BY <1>1
<1>4. \A t \in T : \E r \in S : f[r] = t
  BY <1>1
<1>5. f \in Bijection(S, T)
  BY <1>2, <1>3, <1>4 DEF Bijection, Injection, Surjection, IsInjective
<1>6. ExistsBijection(S, T)
  BY <1>5 DEF ExistsBijection
<1> QED
  BY <1>6, FS_Bijection

(* The rows a call has created, committed or not.                           *)
Left(c) == IF st[c] = "done" THEN RowsBy(c) ELSE pend[c]

Settled(c) ==
  CASE st[c] \in {"idle", "read", "demote", "insert"} -> idx[c] - 1
    [] st[c] \in {"commit", "done"}                   -> Len(plan[c].items)
    [] OTHER                                          -> 0

Counted(c) ==
  /\ st[c] # "done" => RowsBy(c) = {}
  /\ \A p \in pend[c] : p.by = c
  /\ IsFiniteSet(Left(c)) /\ Cardinality(Left(c)) = Cardinality(Written(out[c]))
  /\ Len(out[c]) = Settled(c)

CountInv == \A c \in Calls : Counted(c)

LEMMA CountInit == Init => CountInv
<1> SUFFICES ASSUME Init, NEW c \in Calls PROVE Counted(c)
  BY DEF CountInv
<1>1. PICK s \in Seeds : rows = s.rows /\ nextId = s.nextId
  BY DEF Init
<1>2. RowsBy(c) = {}
  BY <1>1, SeedsAssumption, RowConstantsAssumption DEF RowsBy
<1>3. out[c] = <<>> /\ pend[c] = {} /\ st[c] = "idle" /\ idx[c] = 1
  BY DEF Init
<1>4. Written(out[c]) = {} /\ Len(out[c]) = 0
  BY <1>3 DEF Written
<1>5. Settled(c) = 0 /\ Left(c) = {}
  BY <1>3 DEF Settled, Left
<1> QED
  BY <1>2, <1>3, <1>4, <1>5, FS_EmptySet DEF Counted

(* A call counts as before when its rows, and what it reports, are kept.    *)
LEMMA CountOthers ==
  ASSUME NEW d \in Calls, Counted(d), rows' = rows, st'[d] = st[d], plan'[d] = plan[d],
         idx'[d] = idx[d], pend'[d] = pend[d], out'[d] = out[d]
  PROVE  Counted(d)'
BY DEF Counted, Left, Settled, RowsBy

(* An item settled without a row.                                           *)
LEMMA CountSettle ==
  ASSUME TypeInv, NEW c \in Calls, Counted(c), st[c] \in {"read", "insert"}, NEW a \in Actions,
         Settle(c, a), plan' = plan, rows' = rows,
         \A p \in pend'[c] : p.by = c,
         IsFiniteSet(pend'[c]),
         Cardinality(pend'[c]) = Cardinality(pend[c]) + IF a = "skipped" THEN 0 ELSE 1
  PROVE  Counted(c)'
<1>1. /\ out[c] \in Seq(Actions) /\ idx[c] \in 1..Len(plan[c].items)
      /\ plan[c].items \in Seq(Item)
  BY PlansAssumption DEF TypeInv, TypeOK, WorkOK
<1>2. out'[c] = Append(out[c], a)
  BY DEF Settle, TypeInv, TypeOK
<1>3. Len(out'[c]) = Len(out[c]) + 1 /\ Len(out[c]) = idx[c] - 1
  BY <1>1, <1>2 DEF Counted, Settled
<1>4. \/ st'[c] = "read" /\ idx'[c] = idx[c] + 1
      \/ st'[c] = "commit" /\ idx[c] = Len(plan[c].items)
  BY <1>1 DEF Settle, TypeInv, TypeOK
<1>5. Len(out'[c]) = Settled(c)'
  <2>1. Len(plan[c].items) \in Nat /\ idx[c] \in Nat
    BY <1>1
  <2> QED
    BY <1>3, <1>4, <2>1 DEF Settled
<1>6. st[c] # "done" /\ st'[c] # "done"
  BY <1>4
<1>7. RowsBy(c)' = {}
  BY <1>6 DEF Counted, RowsBy
<1>8. Cardinality(pend'[c]) = Cardinality(Written(out'[c]))
  BY <1>1, <1>2, <1>6, WrittenAppend DEF Counted, Left
<1> QED
  BY <1>5, <1>6, <1>7, <1>8 DEF Counted, Left

(* What another commit, or an edit, does to the rows of a call: nothing     *)
(* that counts.                                                             *)
LEMMA CountTable ==
  ASSUME OwnIds, OwnIds', NEW d \in Calls, Counted(d), st'[d] = st[d], plan'[d] = plan[d],
         idx'[d] = idx[d], pend'[d] = pend[d], out'[d] = out[d],
         \A r \in RowsBy(d) : \E t \in RowsBy(d)' : t.id = r.id,
         \A t \in RowsBy(d)' : \E r \in RowsBy(d) : r.id = t.id
  PROVE  Counted(d)'
<1>1. CASE st[d] = "done"
  <2>1. IsFiniteSet(RowsBy(d)) /\ Left(d) = RowsBy(d) /\ Left(d)' = RowsBy(d)'
    BY <1>1 DEF Counted, Left
  <2>2. /\ \A r, q \in RowsBy(d) : r.id = q.id => r = q
        /\ \A r, q \in RowsBy(d)' : r.id = q.id => r = q
    BY DEF OwnIds, IdsUnique, RowsBy
  <2>3. IsFiniteSet(RowsBy(d)') /\ Cardinality(RowsBy(d)') = Cardinality(RowsBy(d))
    BY <2>1, <2>2, AsMany
  <2> QED
    BY <1>1, <2>1, <2>3 DEF Counted, Settled
<1>2. CASE st[d] # "done"
  <2>1. RowsBy(d)' = {}
    BY <1>2 DEF Counted
  <2> QED
    BY <1>2, <2>1 DEF Counted, Left, Settled
<1> QED
  BY <1>1, <1>2

LEMMA CountCommit ==
  ASSUME TypeInv, OwnIds, OwnIds', CountInv, NEW c \in Calls, Commit(c)
  PROVE  CountInv'
<1> DEFINE after(r) == IF r.id \in held[c] THEN Superseded(r) ELSE r
<1>1. /\ rows' = {after(r) : r \in rows} \cup pend[c]
      /\ plan' = plan /\ idx' = idx /\ out' = out /\ st[c] = "commit" /\ st'[c] = "done"
      /\ \A d \in Calls : d # c => pend'[d] = pend[d] /\ st'[d] = st[d]
      /\ pend'[c] = {}
  BY DEF Commit, TypeInv, TypeOK
<1>2. \A r \in rows : after(r).id = r.id /\ after(r).by = r.by
  BY SupersededRow DEF TypeInv, TypeOK, Superseded, Row
<1> HIDE DEF after
<1>3. \A p \in pend[c] : p.by = c
  BY DEF CountInv, Counted
<1>4. RowsBy(c)' = pend[c]
  <2>1. \A r \in rows : r.by # c
    BY <1>1 DEF CountInv, Counted, RowsBy
  <2> QED
    BY <1>1, <1>2, <1>3, <2>1 DEF RowsBy
<1>5. Counted(c)'
  BY <1>1, <1>4 DEF CountInv, Counted, Left, Settled
<1>6. ASSUME NEW d \in Calls, d # c PROVE Counted(d)'
  <2>1. \A r \in RowsBy(d) : \E t \in RowsBy(d)' : t.id = r.id
    <3> SUFFICES ASSUME NEW r \in RowsBy(d) PROVE \E t \in RowsBy(d)' : t.id = r.id
      OBVIOUS
    <3>1. after(r) \in rows' /\ after(r).by = d /\ after(r).id = r.id
      BY <1>1, <1>2 DEF RowsBy
    <3> QED
      BY <3>1 DEF RowsBy
  <2>2. \A t \in RowsBy(d)' : \E r \in RowsBy(d) : r.id = t.id
    BY <1>1, <1>2, <1>3, <1>6 DEF RowsBy
  <2> QED
    BY <1>1, <1>6, <2>1, <2>2, CountTable DEF CountInv
<1> QED
  BY <1>5, <1>6 DEF CountInv

LEMMA CountEdit ==
  ASSUME TypeInv, OwnIds, OwnIds', CountInv, NEW e \in Edits, EditWrite(e)
  PROVE  CountInv'
<1>1. PICK r \in rows : rows' = (rows \ {r}) \cup {Edited(e, r)}
  BY DEF EditWrite
<1> DEFINE n == Edited(e, r)
<1>2. n.id = r.id /\ n.by = r.by
  BY EditedRow DEF TypeInv, TypeOK, Edited, Row
<1> HIDE DEF n
<1>3. rows' = (rows \ {r}) \cup {n}
  BY <1>1 DEF n
<1>4. UNCHANGED callVars
  BY DEF EditWrite
<1>5. ASSUME NEW d \in Calls PROVE Counted(d)'
  <2>1. /\ \A q \in RowsBy(d) : \E t \in RowsBy(d)' : t.id = q.id
        /\ \A t \in RowsBy(d)' : \E q \in RowsBy(d) : q.id = t.id
    BY <1>2, <1>3 DEF RowsBy
  <2> QED
    BY <1>4, <2>1, CountTable DEF CountInv, callVars
<1> QED
  BY <1>5 DEF CountInv

LEMMA CountStep ==
  TypeInv /\ OwnIds /\ OwnIds' /\ CountInv /\ [Next]_vars => CountInv'
<1> SUFFICES ASSUME TypeInv, OwnIds, OwnIds', CountInv, [Next]_vars PROVE CountInv'
  OBVIOUS
<1>1. ASSUME NEW c \in Calls, Start(c) \/ FindStale(c) \/ FindNone(c) \/ Demote(c)
      PROVE  CountInv'
  <2>1. ASSUME NEW d \in Calls, d # c PROVE Counted(d)'
    BY <1>1, <2>1, CountOthers
       DEF Start, FindStale, FindNone, Demote, TypeInv, TypeOK, CountInv
  <2>2. /\ st[c] \in {"idle", "read", "demote"} /\ st'[c] \in {"read", "demote", "insert"}
        /\ rows' = rows /\ pend' = pend /\ out' = out /\ idx' = idx
    BY <1>1 DEF Start, FindStale, FindNone, Demote, TypeInv, TypeOK
  <2>3. Counted(c)'
    BY <2>2 DEF CountInv, Counted, Left, Settled, RowsBy
  <2> QED
    BY <2>1, <2>3 DEF CountInv
<1>2. ASSUME NEW c \in Calls, FindSkip(c) PROVE CountInv'
  <2>1. ASSUME NEW d \in Calls, d # c PROVE Counted(d)'
    BY <1>2, <2>1, CountOthers DEF FindSkip, Settle, TypeInv, TypeOK, CountInv
  <2>2. /\ st[c] = "read" /\ Settle(c, "skipped") /\ rows' = rows /\ plan' = plan
        /\ pend' = pend /\ "skipped" \in Actions
    BY <1>2 DEF FindSkip, Actions
  <2>3. /\ \A p \in pend'[c] : p.by = c
        /\ IsFiniteSet(pend'[c])
        /\ Cardinality(pend'[c]) = Cardinality(pend[c]) + 0
    <3>1. IsFiniteSet(pend[c]) /\ \A p \in pend[c] : p.by = c
      BY <2>2 DEF CountInv, Counted, Left
    <3> QED
      BY <2>2, <3>1, FS_CardinalityType
  <2>4. Counted(c)'
    BY <2>2, <2>3, CountSettle DEF CountInv
  <2> QED
    BY <2>1, <2>4 DEF CountInv
<1>3. ASSUME NEW c \in Calls, Create(c) PROVE CountInv'
  <2> DEFINE a == IF seen[c] = NoRow THEN "inserted" ELSE "revised"
  <2>1. ASSUME NEW d \in Calls, d # c PROVE Counted(d)'
    BY <1>3, <2>1, CountOthers DEF Create, Settle, TypeInv, TypeOK, CountInv
  <2>2. /\ st[c] = "insert" /\ Settle(c, a) /\ rows' = rows /\ plan' = plan
        /\ pend'[c] = pend[c] \cup {NewRow(c)} /\ a \in Actions /\ a # "skipped"
    BY <1>3 DEF Create, Actions, TypeInv, TypeOK
  <2>3. NewRow(c).by = c /\ NewRow(c).id = nextId
    BY DEF NewRow
  <2>4. NewRow(c) \notin pend[c]
    BY <2>3 DEF OwnIds, Creates, TypeInv, TypeOK
  <2>5. IsFiniteSet(pend[c]) /\ \A p \in pend[c] : p.by = c
    BY <2>2 DEF CountInv, Counted, Left
  <2>6. /\ \A p \in pend'[c] : p.by = c
        /\ IsFiniteSet(pend'[c])
        /\ Cardinality(pend'[c]) = Cardinality(pend[c]) + 1
    BY <2>2, <2>3, <2>4, <2>5, FS_AddElement
  <2> HIDE DEF a
  <2>7. Counted(c)'
    BY <2>2, <2>6, CountSettle DEF CountInv
  <2> QED
    BY <2>1, <2>7 DEF CountInv
<1>4. ASSUME NEW c \in Calls, CreateRefused(c) \/ Fault(c) PROVE CountInv'
  <2>1. ASSUME NEW d \in Calls, d # c PROVE Counted(d)'
    BY <1>4, <2>1, CountOthers
       DEF CreateRefused, Fault, Rollback, TypeInv, TypeOK, CountInv
  <2>2. /\ st[c] \in Running /\ st'[c] \in {"read", "conflict", "error"} /\ idx'[c] = 1
        /\ rows' = rows /\ pend'[c] = {} /\ out'[c] = <<>>
    BY <1>4 DEF CreateRefused, Fault, Rollback, TypeInv, TypeOK, Running
  <2>3. Written(out'[c]) = {} /\ Len(out'[c]) = 0
    BY <2>2 DEF Written
  <2>4. RowsBy(c)' = {}
    BY <2>2 DEF CountInv, Counted, RowsBy, Running
  <2>5. Settled(c)' = 0
    BY <2>2 DEF Settled
  <2>6. Counted(c)'
    BY <2>2, <2>3, <2>4, <2>5, FS_EmptySet DEF Counted, Left
  <2> QED
    BY <2>1, <2>6 DEF CountInv
<1>5. ASSUME NEW c \in Calls, Commit(c) PROVE CountInv'
  BY <1>5, CountCommit
<1>6. ASSUME NEW e \in Edits, EditWrite(e) PROVE CountInv'
  BY <1>6, CountEdit
<1>7. CASE UNCHANGED callVars /\ rows' = rows
  BY <1>7, CountOthers DEF callVars, CountInv
<1> QED
  BY <1>1, <1>2, <1>3, <1>4, <1>5, <1>6, <1>7
     DEF Next, Step, EditStep, EditLoad, EditRefused, Quiet, vars

(* What a job reports is what it has left in the table: one row for each    *)
(* item it calls inserted or revised when it returns, none when it throws,  *)
(* however calls, retries, faults and edits interleave.                     *)
THEOREM ResultsAreRows == Spec => []ResultsMatchRows
<1>1. CountInv => ResultsMatchRows
  BY DEF CountInv, Counted, ResultsMatchRows, Left, Settled
<1>2. Spec => []TypeInv
  BY TypeInit, TypeStep, PTL DEF Spec
<1>3. Spec => []OwnIds
  BY <1>2, OwnIdsInit, OwnIdsStep, PTL DEF Spec
<1> QED
  BY <1>1, <1>2, <1>3, CountInit, CountStep, PTL DEF Spec
-------------------------------------------------------------------------------
(* What makes a call write. *)

(* No plan overrides, and a batch carries values that the column keeps as   *)
(* they are computed.                                                       *)
PlansReadBack ==
  \A p \in Plans :
    /\ p.kind # "override"
    /\ p.kind = "batch" => \A i \in 1..Len(p.items) : p.items[i].val % 10 = 0

Differs(p, r) == <<p.val, p.fc>> # <<r.val, r.fc>>

(* What a call holds are rows of items behind it, and of the one at hand    *)
(* once it has demoted that one's.                                          *)
Holds(c) ==
  /\ \A h \in held[c] : \E r \in rows : r.id = h
  /\ st[c] \in {"idle", "conflict", "error", "done"} => held[c] = {}
  /\ st[c] \in {"read", "demote"} =>
       \A r \in rows : r.id \in held[c] =>
         \E i \in 1..(idx[c] - 1) : r.key = plan[c].items[i].key
  /\ st[c] = "insert" =>
       \A r \in rows : r.id \in held[c] =>
         \E i \in 1..idx[c] : r.key = plan[c].items[i].key

(* What a call has created differs from what it has demoted for it, and so  *)
(* does the item at hand.                                                   *)
Revises(c) ==
  /\ st[c] = "demote" => AsRead(c)
  /\ st[c] = "insert" =>
       \A r \in rows : r.cur /\ r.id \in held[c] /\ r.key = item(c).key =>
         r = seen[c] /\ AsRead(c)
  /\ \A p \in pend[c], r \in rows :
       r.cur /\ r.id \in held[c] /\ r.key = p.key => Differs(p, r)

ChangeInv == NoEditYet => \A c \in Calls : Holds(c) /\ Revises(c)

LEMMA ChangeInit == Init => ChangeInv
BY DEF Init, ChangeInv, Holds, Revises

(* Of a row that does not say the same, an upsert, or a batch of values the *)
(* column keeps, makes a vintage that differs from it.                      *)
LEMMA NewRowDiffers ==
  ASSUME PlansReadBack, TypeInv, NEW c \in Calls, st[c] = "insert", AsRead(c)
  PROVE  Differs(NewRow(c), seen[c])
<1>1. item(c) \in Item /\ seen[c] \in Row /\ kind(c) \in Kinds
  BY ItemTyped DEF AsRead
<1>2. plan[c] \in Plans /\ idx[c] \in 1..Len(plan[c].items)
  BY DEF TypeInv, WorkOK
<1>3. item(c).val \in Nat /\ seen[c].val \in Nat
  BY <1>1 DEF Item, Row
<1>4. NewRow(c).val = Rounded(item(c).val) /\ NewRow(c).fc = NewForecast(kind(c), item(c), seen[c])
  BY DEF NewRow
<1>5. ~ Matches(kind(c), item(c), seen[c])
  BY DEF AsRead
<1>6. CASE kind(c) = "upsert"
  <2>1. seen[c].val # Rounded(item(c).val) \/ item(c).fc \notin {Omitted, seen[c].fc}
    BY <1>5, <1>6 DEF Matches
  <2>2. item(c).fc # Omitted => NewRow(c).fc = item(c).fc
    BY <1>4, <1>6 DEF NewForecast
  <2> QED
    BY <1>4, <2>1, <2>2 DEF Differs
<1>7. CASE kind(c) = "batch"
  <2>1. item(c).val % 10 = 0
    BY <1>2, <1>7 DEF PlansReadBack, item, kind
  <2>2. item(c).val # 10 * seen[c].val
    BY <1>5, <1>7 DEF Matches
  <2>3. 10 * Rounded(item(c).val) = item(c).val
    BY <1>3, <2>1 DEF Rounded
  <2> QED
    BY <1>4, <2>2, <2>3 DEF Differs
<1> QED
  BY <1>1, <1>2, <1>6, <1>7 DEF PlansReadBack, Kinds, kind

(* A step of another call supersedes no row that this one has demoted.      *)
LEMMA ChangeOthers ==
  ASSUME TypeInv, NEW d \in Calls, Holds(d), Revises(d),
         st'[d] = st[d], plan'[d] = plan[d], idx'[d] = idx[d], seen'[d] = seen[d],
         held'[d] = held[d], pend'[d] = pend[d],
         \A r \in rows : r \in rows' \/ (r.id \notin held[d] /\ Superseded(r) \in rows'),
         \A r \in rows' : r.id \in held[d] => r \in rows
  PROVE  Holds(d)' /\ Revises(d)'
<1>1. item(d)' = item(d) /\ kind(d)' = kind(d)
  BY DEF item, kind
<1>2. \A r \in Row : Superseded(Superseded(r)) = Superseded(r)
  BY DEF Superseded, Row
<1>3. AsRead(d) => AsRead(d)'
  BY <1>1, <1>2 DEF AsRead
<1>4. Holds(d)'
  BY DEF Holds
<1>5. Revises(d)'
  BY <1>1, <1>3 DEF Revises
<1> QED
  BY <1>4, <1>5

LEMMA ChangeRead ==
  ASSUME TypeInv, NEW c \in Calls, Holds(c), Revises(c),
         Start(c) \/ FindSkip(c) \/ FindStale(c) \/ FindNone(c)
  PROVE  Holds(c)' /\ Revises(c)'
<1> USE DEF TypeInv, TypeOK
<1>1. rows' = rows /\ held' = held /\ pend' = pend
  BY DEF Start, FindSkip, FindStale, FindNone
<1>2. \A p \in pend[c], r \in rows :
        r.cur /\ r.id \in held[c] /\ r.key = p.key => Differs(p, r)
  BY DEF Revises
<1>3. CASE Start(c)
  <2>1. st[c] = "idle" /\ st'[c] = "read" /\ held[c] = {}
    BY <1>3 DEF Start, Holds
  <2> QED
    BY <1>1, <1>2, <2>1 DEF Holds, Revises
<1>4. CASE FindSkip(c)
  <2>1. /\ st[c] = "read" /\ plan' = plan /\ idx[c] \in Nat \ {0}
        /\ (st'[c] = "read" /\ idx'[c] = idx[c] + 1) \/ st'[c] = "commit"
    BY <1>4 DEF FindSkip, Settle
  <2> QED
    BY <1>1, <1>2, <2>1 DEF Holds, Revises
<1>5. CASE FindStale(c)
  <2>1. PICK r \in CurrentAt(item(c).key) :
          ~ Matches(kind(c), item(c), r) /\ seen' = [seen EXCEPT ![c] = r]
    BY <1>5 DEF FindStale
  <2>2. /\ st[c] = "read" /\ st'[c] = "demote" /\ plan' = plan /\ idx' = idx
        /\ seen'[c] = r /\ item(c)' = item(c) /\ kind(c)' = kind(c)
    BY <1>5, <2>1 DEF FindStale, item, kind
  <2>3. AsRead(c)'
    BY <1>1, <2>1, <2>2 DEF AsRead, CurrentAt
  <2> QED
    BY <1>1, <1>2, <2>2, <2>3 DEF Holds, Revises
<1>6. CASE FindNone(c)
  <2>1. /\ st[c] = "read" /\ st'[c] = "insert" /\ plan' = plan /\ idx' = idx
        /\ item(c)' = item(c) /\ CurrentAt(item(c).key) = {} /\ idx[c] \in Nat
    BY <1>6 DEF FindNone, item
  <2>2. Holds(c)'
    BY <1>1, <2>1 DEF Holds
  <2>3. Revises(c)'
    BY <1>1, <1>2, <2>1 DEF Revises, CurrentAt
  <2> QED
    BY <2>2, <2>3
<1> QED
  BY <1>3, <1>4, <1>5, <1>6

(* Two items of a payload have different keys.                              *)
LEMMA KeysDiffer ==
  ASSUME TypeInv, NEW c \in Calls, st[c] # "idle", NEW i \in 1..(idx[c] - 1)
  PROVE  plan[c].items[i].key # item(c).key
<1>1. plan[c] \in Plans /\ idx[c] \in 1..Len(plan[c].items)
  BY DEF TypeInv, WorkOK
<1>2. i \in 1..Len(plan[c].items) /\ i # idx[c] /\ Len(plan[c].items) \in Nat
  BY <1>1, PlansAssumption
<1> QED
  BY <1>1, <1>2, PlansAssumption DEF item

LEMMA ChangeDemote ==
  ASSUME TypeInv, OwnIds, BehindInv, NEW c \in Calls, Holds(c), Revises(c), Demote(c)
  PROVE  Holds(c)' /\ Revises(c)'
<1>1. /\ st[c] = "demote" /\ st'[c] = "insert" /\ held'[c] = held[c] \cup {seen[c].id}
      /\ rows' = rows /\ pend' = pend /\ plan' = plan /\ idx' = idx /\ seen' = seen
      /\ item(c)' = item(c) /\ kind(c)' = kind(c) /\ idx[c] \in Nat \ {0}
  BY DEF Demote, item, kind, TypeInv, TypeOK
<1>2. AsRead(c) /\ AsRead(c)'
  BY <1>1 DEF Revises, AsRead
<1>3. \A r \in rows : r.id = seen[c].id => r.key = item(c).key /\ (r.cur => r = seen[c])
  <2>1. /\ seen[c] \in Row /\ seen[c].key = item(c).key
        /\ seen[c] \in rows \/ Superseded(seen[c]) \in rows
    BY <1>2 DEF AsRead
  <2>2. /\ Superseded(seen[c]).id = seen[c].id /\ Superseded(seen[c]).key = seen[c].key
        /\ Superseded(seen[c]).cur = FALSE
    BY <2>1, SupersededRow
  <2> QED
    BY <2>1, <2>2 DEF OwnIds, IdsUnique
<1>4. \E r \in rows : r.id = seen[c].id
  BY <1>2, SupersededRow DEF AsRead
<1>5. ASSUME NEW r \in rows, r.id \in held[c]
      PROVE  \E i \in 1..(idx[c] - 1) : r.key = plan[c].items[i].key
  BY <1>1, <1>5 DEF Holds
<1>6. Holds(c)'
  <2>1. \A r \in rows : r.id \in held'[c] => \E i \in 1..idx[c] : r.key = plan[c].items[i].key
    BY <1>1, <1>3, <1>5 DEF item
  <2> QED
    BY <1>1, <1>4, <2>1 DEF Holds
<1>7. \A r \in rows : r.cur /\ r.id \in held'[c] /\ r.key = item(c).key => r = seen[c]
  BY <1>1, <1>3, <1>5, KeysDiffer
<1>8. ASSUME NEW p \in pend[c], NEW r \in rows, r.cur, r.id \in held'[c], r.key = p.key
      PROVE  Differs(p, r)
  <2>1. PICK i \in 1..(idx[c] - 1) : p.key = plan[c].items[i].key
    BY <1>1 DEF BehindInv, Behind
  <2>2. r.id # seen[c].id
    BY <1>1, <1>3, <1>8, <2>1, KeysDiffer
  <2> QED
    BY <1>1, <1>8, <2>2 DEF Revises
<1>9. Revises(c)'
  BY <1>1, <1>2, <1>7, <1>8 DEF Revises
<1> QED
  BY <1>6, <1>9

LEMMA ChangeCreate ==
  ASSUME PlansReadBack, TypeInv, NEW c \in Calls, Holds(c), Revises(c), Create(c)
  PROVE  Holds(c)' /\ Revises(c)'
<1>1. /\ st[c] = "insert" /\ held' = held /\ rows' = rows /\ plan' = plan
      /\ pend'[c] = pend[c] \cup {NewRow(c)}
      /\ idx[c] \in Nat \ {0}
      /\ (st'[c] = "read" /\ idx'[c] = idx[c] + 1) \/ st'[c] = "commit"
  BY DEF Create, Settle, TypeInv, TypeOK
<1>2. Holds(c)'
  BY <1>1 DEF Holds
<1>3. NewRow(c).key = item(c).key
  BY DEF NewRow
<1>4. ASSUME NEW r \in rows, r.cur, r.id \in held[c], r.key = NewRow(c).key
      PROVE  Differs(NewRow(c), r)
  BY <1>1, <1>3, <1>4, NewRowDiffers DEF Revises
<1>5. Revises(c)'
  BY <1>1, <1>4 DEF Revises
<1> QED
  BY <1>2, <1>5

LEMMA ChangeCommit ==
  ASSUME TypeInv, StoreInv, OwnIds, NEW c \in Calls, Commit(c), NEW d \in Calls, d # c,
         Holds(d), Revises(d)
  PROVE  Holds(d)' /\ Revises(d)'
<1> DEFINE after(r) == IF r.id \in held[c] THEN Superseded(r) ELSE r
<1>1. /\ rows' = {after(r) : r \in rows} \cup pend[c]
      /\ st'[d] = st[d] /\ plan'[d] = plan[d] /\ idx'[d] = idx[d] /\ seen'[d] = seen[d]
      /\ held'[d] = held[d] /\ pend'[d] = pend[d]
  BY DEF Commit, TypeInv, TypeOK
<1>2. \A r \in rows : /\ after(r).id = r.id
                      /\ r.id \notin held[c] => after(r) = r
                      /\ r.id \in held[c] => after(r) = Superseded(r)
  BY SupersededRow DEF TypeInv, TypeOK
<1> HIDE DEF after
<1>3. \A h \in held[d] : h \notin held[c]
  BY DEF StoreInv, RowLocksExclusive
<1>4. \A r \in rows : r \in rows' \/ (r.id \notin held[d] /\ Superseded(r) \in rows')
  BY <1>1, <1>2, <1>3
<1>5. \A p \in pend[c] : p.id \notin held[d]
  BY DEF Holds, OwnIds, Creates
<1>6. \A r \in rows' : r.id \in held[d] => r \in rows
  BY <1>1, <1>2, <1>3, <1>5
<1> QED
  BY <1>1, <1>4, <1>6, ChangeOthers

LEMMA ChangeStep ==
  PlansReadBack /\ TypeInv /\ StoreInv /\ OwnIds /\ BehindInv /\ ChangeInv /\ [Next]_vars
    => ChangeInv'
<1> SUFFICES ASSUME PlansReadBack, TypeInv, StoreInv, OwnIds, BehindInv, ChangeInv,
                    [Next]_vars, NoEditYet'
             PROVE  \A c \in Calls : Holds(c)' /\ Revises(c)'
  BY DEF ChangeInv
<1>0. NoEditYet /\ ~ \E e \in Edits : EditWrite(e)
  BY EditsLast
<1>1. \A c \in Calls : Holds(c) /\ Revises(c)
  BY <1>0 DEF ChangeInv
<1>2. ASSUME NEW c \in Calls, Start(c) \/ FindSkip(c) \/ FindStale(c) \/ FindNone(c)
      PROVE  \A d \in Calls : Holds(d)' /\ Revises(d)'
  <2>1. ASSUME NEW d \in Calls, d # c PROVE Holds(d)' /\ Revises(d)'
    <3>1. /\ rows' = rows /\ held' = held /\ pend' = pend
          /\ st'[d] = st[d] /\ plan'[d] = plan[d] /\ idx'[d] = idx[d] /\ seen'[d] = seen[d]
      BY <1>2, <2>1 DEF Start, FindSkip, FindStale, FindNone, Settle, TypeInv, TypeOK
    <3> QED
      BY <1>1, <3>1, ChangeOthers
  <2> QED
    BY <1>1, <1>2, <2>1, ChangeRead
<1>3. ASSUME NEW c \in Calls, Demote(c) PROVE \A d \in Calls : Holds(d)' /\ Revises(d)'
  <2>1. ASSUME NEW d \in Calls, d # c PROVE Holds(d)' /\ Revises(d)'
    BY <1>1, <1>3, <2>1, ChangeOthers DEF Demote, TypeInv, TypeOK
  <2> QED
    BY <1>1, <1>3, <2>1, ChangeDemote
<1>4. ASSUME NEW c \in Calls, Create(c) PROVE \A d \in Calls : Holds(d)' /\ Revises(d)'
  <2>1. ASSUME NEW d \in Calls, d # c PROVE Holds(d)' /\ Revises(d)'
    BY <1>1, <1>4, <2>1, ChangeOthers DEF Create, Settle, TypeInv, TypeOK
  <2> QED
    BY <1>1, <1>4, <2>1, ChangeCreate
<1>5. ASSUME NEW c \in Calls, CreateRefused(c) \/ Fault(c)
      PROVE  \A d \in Calls : Holds(d)' /\ Revises(d)'
  <2>1. ASSUME NEW d \in Calls, d # c PROVE Holds(d)' /\ Revises(d)'
    BY <1>1, <1>5, <2>1, ChangeOthers DEF CreateRefused, Fault, Rollback, TypeInv, TypeOK
  <2>2. held'[c] = {} /\ pend'[c] = {} /\ st'[c] \in {"read", "conflict", "error"}
    BY <1>5 DEF CreateRefused, Fault, Rollback, TypeInv, TypeOK
  <2>3. Holds(c)' /\ Revises(c)'
    BY <2>2 DEF Holds, Revises
  <2> QED
    BY <2>1, <2>3
<1>6. ASSUME NEW c \in Calls, Commit(c) PROVE \A d \in Calls : Holds(d)' /\ Revises(d)'
  <2>1. ASSUME NEW d \in Calls, d # c PROVE Holds(d)' /\ Revises(d)'
    BY <1>1, <1>6, <2>1, ChangeCommit
  <2>2. held'[c] = {} /\ pend'[c] = {} /\ st'[c] = "done"
    BY <1>6 DEF Commit, TypeInv, TypeOK
  <2>3. Holds(c)' /\ Revises(c)'
    BY <2>2 DEF Holds, Revises
  <2> QED
    BY <2>1, <2>3
<1>7. CASE UNCHANGED callVars /\ rows' = rows
  BY <1>1, <1>7, ChangeOthers DEF callVars
<1> QED
  BY <1>0, <1>2, <1>3, <1>4, <1>5, <1>6, <1>7
     DEF Next, Step, EditStep, EditLoad, EditRefused, Quiet, vars

LEMMA RevisionStep ==
  ASSUME TypeInv, OwnIds, ChangeInv, [Next]_vars
  PROVE  RevisionDiffers
<1> SUFFICES ASSUME NoEditYet, NEW r \in rows, NEW n \in rows' \ rows,
                    r.cur, Superseded(r) \in rows', n.cur, n.key = r.key
             PROVE  Differs(n, r)
  BY DEF RevisionDiffers, Differs
<1> DEFINE s == Superseded(r)
<1>1. r \in Row /\ s.id = r.id /\ s.cur = FALSE
  BY SupersededRow DEF TypeInv, TypeOK
<1>2. s \notin rows
  BY <1>1 DEF OwnIds, IdsUnique
<1>3. ASSUME NEW c \in Calls, Commit(c) PROVE Differs(n, r)
  <2> DEFINE after(q) == IF q.id \in held[c] THEN Superseded(q) ELSE q
  <2>1. rows' = {after(q) : q \in rows} \cup pend[c]
    BY <1>3 DEF Commit
  <2>2. \A q \in rows : after(q).id = q.id /\ (after(q) = q \/ after(q).cur = FALSE)
    BY SupersededRow DEF TypeInv, TypeOK
  <2>3. n \in pend[c]
    BY <2>1, <2>2
  <2>4. s \notin pend[c]
    BY <1>1 DEF OwnIds, Creates
  <2>5. PICK q \in rows : s = after(q)
    BY <2>1, <2>4
  <2>6. q = r
    BY <1>1, <2>2, <2>5 DEF OwnIds, IdsUnique
  <2>7. r.id \in held[c]
    BY <1>2, <2>5, <2>6
  <2> QED
    BY <2>3, <2>7 DEF ChangeInv, Revises
<1>4. ASSUME NEW e \in Edits, EditWrite(e) PROVE Differs(n, r)
  <2>1. PICK q \in rows : rows' = (rows \ {q}) \cup {Edited(e, q)}
    BY <1>4 DEF EditWrite
  <2> QED
    BY <1>1, <1>2, <2>1
<1>5. CASE rows' = rows
  BY <1>5
<1> QED
  BY <1>3, <1>4, <1>5
     DEF Next, Step, EditStep, EditLoad, EditRefused, Quiet, vars, Start, FindSkip, FindStale,
         FindNone, Demote, Create, CreateRefused, Fault, Rollback

(* Re-running a job writes nothing: as long as no plan overrides and the    *)
(* batches carry values that the column keeps as computed, whatever         *)
(* supersedes an unedited row differs from it in value or forecast.         *)
THEOREM RevisionsSaySomethingNew ==
  ASSUME PlansReadBack
  PROVE  Spec => RevisionChanges
<1>1. Spec => []TypeInv
  BY TypeInit, TypeStep, PTL DEF Spec
<1>2. Spec => []OwnIds
  BY <1>1, OwnIdsInit, OwnIdsStep, PTL DEF Spec
<1>3. Spec => []BehindInv
  BY <1>1, BehindInit, BehindStep, PTL DEF Spec
<1>4. Spec => []ChangeInv
  <2>1. TypeInv /\ StoreInv /\ OwnIds /\ BehindInv /\ ChangeInv /\ [Next]_vars => ChangeInv'
    BY ChangeStep
  <2> QED
    BY <1>1, <1>2, <1>3, <2>1, KeysAreOwned, ChangeInit, PTL DEF Spec
<1>5. TypeInv /\ OwnIds /\ ChangeInv /\ [Next]_vars => [RevisionDiffers]_vars
  BY RevisionStep
<1> QED
  BY <1>1, <1>2, <1>4, <1>5, PTL DEF Spec, RevisionChanges
===============================================================================
