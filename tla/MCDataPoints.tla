----------------------------- MODULE MCDataPoints -----------------------------
(* Small instances of DataPoints: two release slots of one indicator, and   *)
(* a payload set in which two writers can agree, disagree, and carry a      *)
(* value the column rounds.                                                 *)
EXTENDS DataPoints, TLC

CONSTANTS c1, c2, c3, ind1, ind2, s1, s2, f1

K(i, s)        == [ind |-> i, slot |-> s]
It(k, v, f)    == [key |-> k, val |-> v, fc |-> f]
One(kd, v, f)  == [kind |-> kd, items |-> <<It(K(ind1, s1), v, f)>>]

(* 20 and 24 are stored alike, 30 is not; 24 is not a stored value.         *)
SinglePlans == {One("upsert", 20, Omitted), One("upsert", 24, f1),
                One("upsert", 30, Null), One("override", 30, Omitted),
                [kind |-> "upsert", items |-> <<It(K(ind1, s2), 20, Omitted)>>]}
UpsertPlans == {One("upsert", 20, Omitted), One("upsert", 24, f1),
                One("upsert", 30, Null)}
BatchPlans  == {[kind |-> "batch", items |-> <<It(K(ind1, s1), v, Omitted),
                                               It(K(ind2, s1), w, Omitted)>>] :
                  v \in {20, 30}, w \in {20, 30}}
StorePlans == {p \in BatchPlans : p.items[1].val = 20} \cup UpsertPlans
RatioPlans  == {[kind |-> "batch", items |-> <<It(K(ind1, s1), 20, Omitted),
                                               It(K(ind2, s1), 24, Omitted)>>]}

Stored(n, k, v, cur) ==
  [id |-> n, key |-> k, val |-> v, fc |-> Null, cur |-> cur, by |-> Seeded]

Empty   == [rows |-> {}, nextId |-> 1]
OneRow  == [rows |-> {Stored(1, K(ind1, s1), 2, TRUE)}, nextId |-> 2]
Revised == [rows |-> {Stored(1, K(ind1, s1), 3, FALSE),
                      Stored(2, K(ind1, s1), 2, TRUE)}, nextId |-> 3]

EmptySeed == {Empty}
AnySeed   == {Empty, OneRow, Revised}
RowSeed   == {OneRow}
TwoSlots  == {[rows |-> {Stored(1, K(ind1, s1), 2, TRUE),
                         Stored(2, K(ind1, s2), 3, TRUE)}, nextId |-> 3],
              [rows |-> {Stored(1, K(ind1, s2), 3, TRUE)}, nextId |-> 2], OneRow}

EditableSeed == {Empty, Revised} \cup TwoSlots

NoValues   == {}
TypedValue == {40}
===============================================================================
