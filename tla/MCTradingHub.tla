----------------------------- MODULE MCTradingHub -----------------------------
(* Small books: one or two ideas, two accounts, up to four fills.           *)
EXTENDS TradingHub, TLC

CONSTANTS r1, r2, r3, t1, t2, a1, a2, p1, p2, k1, k2

Fill(n, t, a, isPrimary) ==
  [id |-> n, trade |-> t, acct |-> a, primary |-> isPrimary, price |-> p1,
   metrics |-> [plan |-> k1, price |-> p1]]

Blank   == [trades |-> {}, execs |-> {}, nextId |-> 1]
TwoFills == [trades |-> {[id |-> t1, plan |-> k1]},
             execs  |-> {Fill(1, t1, a1, TRUE), Fill(2, t1, a2, FALSE)}, nextId |-> 3]
ThreeFills == [trades |-> {[id |-> t1, plan |-> k1]},
               execs  |-> {Fill(1, t1, a1, FALSE), Fill(2, t1, a2, TRUE),
                           Fill(3, t1, a1, FALSE)}, nextId |-> 4]

BlankBook == {Blank}
OneIdea   == {TwoFills}
OpenBooks == {TwoFills, ThreeFills}

(* Only invariants are checked where the requests are interchangeable.      *)
AnyRequest == Permutations({r1, r2, r3})

===============================================================================
