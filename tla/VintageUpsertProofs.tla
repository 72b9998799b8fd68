-------------------------- MODULE VintageUpsertProofs --------------------------
(***************************************************************************)
(* A theorem about VintageUpsert, for any number of writers and whatever   *)
(* they write: every current row beyond the first is the mark of one write *)
(* based on a row that was no longer current, and the last payload         *)
(* committed is current.                                                   *)
(***************************************************************************)
EXTENDS VintageUpsert, FiniteSetTheorems, TLAPS

Rows == [id : Nat, num : {p.num : p \in Payloads}, json : {Sorted(p.json) : p \in Payloads},
         text : {p.text : p \in Payloads}, cur : BOOLEAN]
Finds == [stage : {"found"}, payload : Payloads, found : Rows \cup {None},
          same : {"columns", "numbers", "entries"}]

TableOK ==
  /\ rows \subseteq Rows /\ IsFiniteSet(rows)
  /\ \A r \in rows : r.id <= Cardinality(rows)
  /\ \A r, q \in rows : r.id = q.id => r = q
  /\ stale \in Nat /\ (rows = {} => stale = 0)

(* What a call found was current, and is in the table with what it said,    *)
(* unless it has been demoted since.                                        *)
FoundOK(f) == f.cur /\ \E r \in rows : r.id = f.id /\ (r.cur => r = f)
CallsOK ==
  /\ calls \in [Writers -> {Quiet} \cup Finds]
  /\ \A w \in Writers :
       calls[w].stage = "found" /\ calls[w].found # None => FoundOK(calls[w].found)

IInv == TableOK /\ CallsOK /\ VintagesHold

(* None is not mistaken for a row that was found.                           *)
NoneIsNoRow == None \notin Rows

-------------------------------------------------------------------------------
LEMMA NewRowTyped ==
  ASSUME NEW n \in Nat, NEW p \in Payloads
  PROVE  /\ RowOf(n, p) \in Rows /\ RowOf(n, p).id = n /\ RowOf(n, p).cur
         /\ RowOf(n, p).num = p.num /\ RowOf(n, p).text = p.text
BY DEF RowOf, Rows

LEMMA InvInit == Init => IInv
<1> SUFFICES ASSUME Init PROVE IInv
  OBVIOUS
<1>1. CallsOK /\ LastIsCurrent
  BY DEF Init, CallsOK, LastIsCurrent, Quiet
<1>2. CASE rows = {}
  BY <1>1, <1>2, FS_EmptySet DEF Init, IInv, TableOK, VintagesHold, ExtraNeedsOverlap
<1>3. ASSUME NEW p \in Payloads, rows = {RowOf(1, p)} PROVE IInv
  <2>1. RowOf(1, p) \in Rows /\ RowOf(1, p).id = 1 /\ RowOf(1, p).cur
    BY NewRowTyped
  <2>2. IsFiniteSet(rows) /\ Cardinality(rows) = 1 /\ Current = rows
    BY <1>3, <2>1, FS_Singleton DEF Current
  <2> QED
    BY <1>1, <1>3, <2>1, <2>2 DEF Init, IInv, TableOK, VintagesHold, ExtraNeedsOverlap
<1> QED
  BY <1>2, <1>3 DEF Init

(* A read, a skip or an abort changes nothing but the call.                 *)
LEMMA InvCall ==
  ASSUME IInv, NEW w \in Writers, UNCHANGED <<rows, stale, last>>,
         calls' = [calls EXCEPT ![w] = calls'[w]], calls'[w] \in {Quiet} \cup Finds,
         calls'[w].stage = "found" /\ calls'[w].found # None => FoundOK(calls'[w].found)
  PROVE  IInv'
<1>1. CallsOK'
  <2>1. \A f : FoundOK(f) => FoundOK(f)'
    BY DEF FoundOK
  <2> QED
    BY <2>1 DEF IInv, CallsOK
<1> QED
  BY <1>1 DEF IInv, TableOK, VintagesHold, ExtraNeedsOverlap, LastIsCurrent, Current

LEMMA InvFind ==
  ASSUME IInv, NEW w \in Writers, NEW p \in Payloads,
         NEW same \in {"columns", "numbers", "entries"}, Find(w, p, same)
  PROVE  IInv'
<1>1. PICK f \in IF Current = {} THEN {None} ELSE Current :
        calls' = [calls EXCEPT ![w] =
          [stage |-> "found", payload |-> p, found |-> f, same |-> same]]
  BY DEF Find
<1>2. f = None \/ (f \in rows /\ f.cur)
  BY <1>1 DEF Current
<1>3. calls'[w] = [stage |-> "found", payload |-> p, found |-> f, same |-> same]
  BY <1>1 DEF IInv, CallsOK
<1>4. calls'[w] \in Finds
  BY <1>2, <1>3 DEF Finds, IInv, TableOK
<1>5. calls'[w].found = f /\ (f # None => FoundOK(f))
  BY <1>2, <1>3 DEF FoundOK
<1> QED
  BY <1>1, <1>3, <1>4, <1>5, InvCall DEF Find

(* What becomes of the table, and of its current rows, when the call of w   *)
(* commits: of the rows it had, only the one it found changes.              *)
LEMMA CommitTable ==
  ASSUME NoneIsNoRow, IInv, NEW w \in Writers, Commit(w)
  PROVE  LET new == RowOf(NewId, calls[w].payload)
         IN /\ rows' \subseteq Rows /\ IsFiniteSet(rows')
            /\ Cardinality(rows') = Cardinality(rows) + 1
            /\ \A r \in rows : \E t \in rows' :
                 t.id = r.id /\ (t.cur => t = r)
            /\ \A t \in rows' : t = new \/ \E r \in rows : t.id = r.id
            /\ \A t, u \in rows' : t.id = u.id => t = u
            /\ new \in Current' /\ IsFiniteSet(Current')
            /\ rows # {} => Cardinality(Current') = 1 + stale'
            /\ rows = {} => Cardinality(Current') = 1 /\ stale' = 0
            /\ stale' \in Nat
<1> DEFINE c == calls[w]
           n == Cardinality(rows) + 1
           new == RowOf(n, c.payload)
           kept(r) == c.found = None \/ r.id # c.found.id
           after(r) == [r EXCEPT !.cur = r.cur /\ kept(r)]
<1>1. /\ c \in Finds /\ c.payload \in Payloads /\ n \in Nat
      /\ Cardinality(rows) \in Nat
      /\ c.found # None => FoundOK(c.found)
  <2>1. c \in Finds
    BY DEF Commit, IInv, CallsOK, Quiet
  <2>2. Cardinality(rows) \in Nat
    BY FS_CardinalityType DEF IInv, TableOK
  <2> QED
    BY <2>1, <2>2 DEF Finds, Commit, IInv, CallsOK
<1>2. new \in Rows /\ new.id = n /\ new.cur
  BY <1>1, NewRowTyped
<1>3. rows' = {after(r) : r \in rows} \cup {new} /\ stale' = stale + IF Stale(c) THEN 1 ELSE 0
  BY DEF Commit, Succeed, NewId
<1>4. \A r \in rows : /\ r \in Rows /\ r.id \in Nat /\ r.id < n
                      /\ after(r) \in Rows /\ after(r).id = r.id
                      /\ after(r).cur = (r.cur /\ kept(r))
                      /\ kept(r) => after(r) = r
  <2> SUFFICES ASSUME NEW r \in rows
               PROVE  /\ r \in Rows /\ r.id \in Nat /\ r.id < n
                      /\ after(r) \in Rows /\ after(r).id = r.id
                      /\ after(r).cur = (r.cur /\ kept(r))
                      /\ kept(r) => after(r) = r
    OBVIOUS
  <2>1. r \in Rows /\ r.id <= Cardinality(rows)
    BY DEF IInv, TableOK
  <2>2. r.id \in Nat /\ r.id < n
    BY <1>1, <2>1 DEF Rows
  <2> DEFINE k == kept(r)
  <2>3. (r.cur /\ k) \in BOOLEAN /\ r.cur \in BOOLEAN
    BY <2>1 DEF Rows
  <2> HIDE DEF k
  <2>4. [r EXCEPT !.cur = r.cur /\ k] \in Rows
    BY <2>1, <2>3 DEF Rows
  <2>5. /\ [r EXCEPT !.cur = r.cur /\ k].id = r.id
        /\ [r EXCEPT !.cur = r.cur /\ k].cur = (r.cur /\ k)
    BY <2>1, <2>3 DEF Rows
  <2>6. k => [r EXCEPT !.cur = r.cur /\ k] = r
    BY <2>1, <2>3 DEF Rows
  <2> QED
    BY <2>1, <2>2, <2>4, <2>5, <2>6 DEF k
<1>5. IsFiniteSet(rows) /\ \A r, q \in rows : r.id = q.id => r = q
  BY DEF IInv, TableOK
<1>6. IsFiniteSet(Current) /\ Cardinality(Current) \in Nat
  BY <1>5, FS_Subset, FS_CardinalityType DEF Current
<1>7. /\ rows = {} => stale = 0 /\ Current = {}
      /\ rows # {} => Cardinality(Current) = 1 + stale
      /\ stale \in Nat
  BY DEF IInv, TableOK, VintagesHold, ExtraNeedsOverlap, Current
<1> HIDE DEF after, new, n, c
<1>8. /\ \A r \in rows : \E t \in rows' : t.id = r.id /\ (t.cur => t = r)
      /\ \A t \in rows' : t = new \/ \E r \in rows : t.id = r.id
      /\ \A t, u \in rows' : t.id = u.id => t = u
      /\ rows' \subseteq Rows
  <2>1. \A t \in rows' : t = new \/ \E r \in rows : t = after(r)
    BY <1>3
  <2>2. \A r \in rows : after(r) \in rows' /\ (after(r).cur => after(r) = r)
    BY <1>3, <1>4
  <2>3. \A r \in rows : after(r).id # new.id
    BY <1>1, <1>2, <1>4
  <2>4. \A r, q \in rows : after(r).id = after(q).id => r = q
    BY <1>4, <1>5
  <2>5. \A t, u \in rows' : t.id = u.id => t = u
    BY <2>1, <2>3, <2>4
  <2> QED
    BY <1>2, <1>4, <2>1, <2>2, <2>5
<1>9. new \in Current'
  BY <1>2, <1>3 DEF Current
<1>10. CASE c.found = None
  <2>1. rows' = rows \cup {new}
    BY <1>3, <1>4, <1>10
  <2>2. new \notin rows
    BY <1>1, <1>2, <1>4
  <2>3. Current' = Current \cup {new} /\ new \notin Current
    BY <1>2, <2>1, <2>2 DEF Current
  <2>4. IsFiniteSet(rows') /\ Cardinality(rows') = Cardinality(rows) + 1
    BY <1>5, <2>1, <2>2, FS_AddElement
  <2>5. IsFiniteSet(Current') /\ Cardinality(Current') = Cardinality(Current) + 1
    BY <1>6, <2>3, FS_AddElement
  <2>6. Current = {} <=> Cardinality(Current) = 0
    BY <1>6, FS_EmptySet
  <2>7. Stale(c) <=> Current # {}
    BY <1>10 DEF Stale
  <2> QED
    BY <1>1, <1>3, <1>6, <1>7, <1>8, <1>9, <2>4, <2>5, <2>6, <2>7 DEF new, n, c, NewId
<1>11. CASE c.found # None
  <2>1. PICK q \in rows : q.id = c.found.id /\ (q.cur => q = c.found)
    BY <1>1, <1>11 DEF FoundOK
  <2>2. \A r \in rows : kept(r) <=> r # q
    BY <1>5, <1>11, <2>1
  <2>3. after(q).cur = FALSE /\ after(q).id = q.id
    BY <1>4, <2>2
  <2>4. rows' = ((rows \ {q}) \cup {after(q)}) \cup {new}
    BY <1>3, <1>4, <2>2
  <2>5. after(q) \notin rows \ {q}
    BY <1>5, <2>3
  <2>6. new \notin rows /\ new # after(q)
    BY <1>1, <1>2, <1>4
  <2>7. IsFiniteSet(rows') /\ Cardinality(rows') = Cardinality(rows) + 1
    <3>1. IsFiniteSet(rows \ {q}) /\ Cardinality(rows \ {q}) = Cardinality(rows) - 1
      BY <1>5, FS_RemoveElement
    <3>2. /\ IsFiniteSet((rows \ {q}) \cup {after(q)})
          /\ Cardinality((rows \ {q}) \cup {after(q)}) = Cardinality(rows)
      <4> DEFINE S == rows \ {q}
      <4>1. IsFiniteSet(S) /\ Cardinality(S) = Cardinality(rows) - 1 /\ after(q) \notin S
        BY <2>5, <3>1
      <4>2. Cardinality(rows) \in Nat
        BY <1>1
      <4> HIDE DEF S
      <4>3. IsFiniteSet(S \cup {after(q)}) /\ Cardinality(S \cup {after(q)}) = Cardinality(S) + 1
        BY <4>1, FS_AddElement
      <4>4. Cardinality(S) + 1 = Cardinality(rows)
        BY <4>1, <4>2
      <4> QED
        BY <4>3, <4>4 DEF S
    <3>3. new \notin (rows \ {q}) \cup {after(q)}
      BY <2>6
    <3> QED
      BY <2>4, <3>2, <3>3, FS_AddElement
  <2>8. Current' = (Current \ {q}) \cup {new} /\ new \notin Current
    <3>1. \A t : t \in Current' <=> t \in rows' /\ t.cur
      BY DEF Current
    <3>2. \A t : t \in Current <=> t \in rows /\ t.cur
      BY DEF Current
    <3>3. \A t : t \in rows' <=> (t \in rows /\ t # q) \/ t = after(q) \/ t = new
      BY <2>4
    <3>4. \A t : t \in Current' <=> (t \in rows /\ t # q /\ t.cur) \/ t = new
      BY <1>2, <2>3, <3>1, <3>3
    <3>5. new \notin Current
      BY <2>6, <3>2
    <3> QED
      BY <3>2, <3>4, <3>5
  <2>9. q \in Current <=> ~ Stale(c)
    <3>1. c.found.cur
      BY <1>1, <1>11 DEF FoundOK
    <3>2. \A t : t \in Current <=> t \in rows /\ t.cur
      BY DEF Current
    <3>3. c.found \in Current => c.found = q
      BY <1>5, <2>1, <3>2
    <3>4. Stale(c) <=> c.found \notin Current
      BY <1>11 DEF Stale
    <3> QED
      BY <2>1, <3>1, <3>2, <3>3, <3>4
  <2>10. /\ IsFiniteSet(Current \ {q})
         /\ Cardinality(Current \ {q})
              = IF q \in Current THEN Cardinality(Current) - 1 ELSE Cardinality(Current)
    BY <1>6, FS_RemoveElement
  <2>11. IsFiniteSet(Current') /\ Cardinality(Current') = Cardinality(Current \ {q}) + 1
    BY <2>8, <2>10, FS_AddElement
  <2>12. rows # {}
    BY <2>1
  <2>13. Cardinality(Current') = 1 + stale' /\ stale' \in Nat
    BY <1>3, <1>6, <1>7, <2>9, <2>10, <2>11, <2>12
  <2> QED
    BY <1>8, <1>9, <2>7, <2>11, <2>12, <2>13 DEF new, n, c, NewId
<1> QED
  BY <1>10, <1>11

LEMMA InvCommit ==
  ASSUME NoneIsNoRow, IInv, NEW w \in Writers, Commit(w)
  PROVE  IInv'
<1> DEFINE new == RowOf(NewId, calls[w].payload)
<1>1. /\ calls[w].payload \in Payloads /\ Cardinality(rows) \in Nat
      /\ calls' = [calls EXCEPT ![w] = Quiet] /\ last' = calls[w].payload
  <2>1. calls[w] \in Finds
    BY DEF Commit, IInv, CallsOK, Quiet
  <2> QED
    BY <2>1, FS_CardinalityType DEF Finds, Commit, IInv, TableOK
<1>2. new.id = Cardinality(rows) + 1 /\ new.num = calls[w].payload.num
      /\ new.text = calls[w].payload.text
  BY <1>1, NewRowTyped DEF NewId
<1>3. /\ rows' \subseteq Rows /\ IsFiniteSet(rows')
      /\ Cardinality(rows') = Cardinality(rows) + 1
      /\ \A r \in rows : \E t \in rows' : t.id = r.id /\ (t.cur => t = r)
      /\ \A t \in rows' : t = new \/ \E r \in rows : t.id = r.id
      /\ \A t, u \in rows' : t.id = u.id => t = u
      /\ new \in Current'
      /\ rows # {} => Cardinality(Current') = 1 + stale'
      /\ rows = {} => Cardinality(Current') = 1 /\ stale' = 0
      /\ stale' \in Nat
  BY CommitTable
<1> HIDE DEF new
<1>4. \A t \in rows' : t.id <= Cardinality(rows')
  <2>1. \A r \in rows : r.id <= Cardinality(rows) /\ r.id \in Nat
    BY DEF IInv, TableOK, Rows
  <2> QED
    BY <1>1, <1>2, <1>3, <2>1
<1>5. new \in rows' /\ TableOK'
  BY <1>3, <1>4 DEF TableOK, Current
<1>6. VintagesHold'
  BY <1>1, <1>2, <1>3 DEF VintagesHold, ExtraNeedsOverlap, LastIsCurrent
<1>7. CallsOK'
  <2>1. ASSUME NEW f, FoundOK(f) PROVE FoundOK(f)'
    <3>1. PICK r \in rows : r.id = f.id /\ (r.cur => r = f)
      BY <2>1 DEF FoundOK
    <3>2. PICK t \in rows' : t.id = r.id /\ (t.cur => t = r)
      BY <1>3
    <3> QED
      BY <2>1, <3>1, <3>2 DEF FoundOK
  <2> QED
    BY <1>1, <2>1 DEF IInv, CallsOK, Quiet
<1> QED
  BY <1>5, <1>6, <1>7 DEF IInv

LEMMA InvStep == NoneIsNoRow /\ IInv /\ [Next]_vars => IInv'
<1> SUFFICES ASSUME NoneIsNoRow, IInv, [Next]_vars PROVE IInv'
  OBVIOUS
<1>1. ASSUME NEW w \in Writers,
             \/ PersistScorecard(w) \/ UpsertScorecard(w) \/ UpsertPairScore(w)
             \/ UpsertClassification(w) \/ UpsertCotData(w)
      PROVE  IInv'
  BY <1>1, InvFind DEF PersistScorecard, UpsertScorecard, UpsertPairScore,
                       UpsertClassification, UpsertCotData
<1>2. ASSUME NEW w \in Writers, Skip(w) \/ Abort(w) PROVE IInv'
  <2>1. calls' = [calls EXCEPT ![w] = Quiet] /\ UNCHANGED <<rows, stale, last>>
    BY <1>2 DEF Skip, Abort
  <2>2. calls'[w] = Quiet /\ Quiet.stage # "found"
    BY <2>1 DEF IInv, CallsOK, Quiet
  <2> QED
    BY <2>1, <2>2, InvCall
<1>3. ASSUME NEW w \in Writers, Commit(w) PROVE IInv'
  BY <1>3, InvCommit
<1>4. CASE UNCHANGED vars
  BY <1>4 DEF vars, IInv, TableOK, CallsOK, FoundOK, VintagesHold, ExtraNeedsOverlap,
              LastIsCurrent, Current
<1> QED
  BY <1>1, <1>2, <1>3, <1>4 DEF Next

(* The tables that only a read guards: however many writers of a key        *)
(* overlap, each current row beyond the first was left by a write based on  *)
(* a row no longer current, the key never is without one, and what was      *)
(* committed last is current.                                               *)
THEOREM ExtraRowsAreExplained ==
  ASSUME NoneIsNoRow
  PROVE  Spec => []VintagesHold
<1>1. IInv => VintagesHold
  BY DEF IInv
<1>2. IInv /\ [Next]_vars => IInv'
  BY InvStep
<1> QED
  BY <1>1, <1>2, InvInit, PTL DEF Spec
================================================================================
