------------------------------ MODULE TradingHub ------------------------------
(***************************************************************************)
(* Ideas (trades), their fills (executions) and the accounts they run in.  *)
(* A request first loads the idea with all its fills, outside any          *)
(* transaction, decides from what it loaded, and then writes in a Read     *)
(* Committed transaction, so what it decided from can be stale by then.    *)
(* Each statement of a transaction is a step; row locks, foreign keys and  *)
(* the partial unique index executions_one_primary_per_trade make it wait  *)
(* or fail as PostgreSQL does.  A statement takes all its locks at once: a *)
(* circular wait inside one shows up as TimedOut, like Prisma's limit on   *)
(* interactive transactions.                                               *)
(***************************************************************************)
EXTENDS Integers, FiniteSets

CONSTANTS
  Requests,   \* requests in flight
  Trades,     \* ids of ideas that may be created
  Accounts,
  Prices,     \* prices of a fill
  Plans,      \* what a fill's metrics depend on in its idea: pair, stop, direction
  Ops,        \* the operations a run exercises
  Seeds,      \* the books a run may start from
  MaxId,      \* bound on the number of fills ever created
  OneShot,    \* bound: each request slot is used once, or again and again
  None

AllOps == {"create", "update", "delete", "add", "edit", "remove", "setPrimary",
           "deleteAccount"}

Basis == [plan : Plans, price : Prices]
Exec  == [id : 1..MaxId, trade : Trades, acct : Accounts, primary : BOOLEAN,
          price : Prices, metrics : Basis]
Trade == [id : Trades, plan : Plans]
Request == [op : AllOps \cup {"none"}, trade : Trades \cup {None}, exec : 0..MaxId,
            acct : Accounts \cup {None}, price : Prices \cup {None},
            plan : Plans \cup {None}, primary : BOOLEAN]

AtMostOnePrimaryIn(fills) ==
  \A e, f \in fills : e.primary /\ f.primary /\ e.trade = f.trade => e = f

ASSUME OpsAssumption ==
  /\ Ops \subseteq AllOps /\ MaxId \in Nat /\ OneShot \in BOOLEAN
  /\ None \notin Trades
ASSUME SeedsAssumption ==
  \A s \in Seeds :
    /\ s.trades \subseteq Trade /\ s.execs \subseteq Exec
    /\ s.nextId \in 1..(MaxId + 1)
    /\ \A e \in s.execs : e.id < s.nextId /\ \E t \in s.trades : t.id = e.trade
    /\ \A e, f \in s.execs : e.id = f.id => e = f
    /\ AtMostOnePrimaryIn(s.execs)

VARIABLES
  accts, trades, execs,   \* the committed tables
  nextId, made,           \* fill ids and trade ids used so far
  pc,                     \* the next statement of each request
  req,                    \* what it was asked
  view,                   \* the fills it loaded
  upd, gone,              \* fills its open transaction has written, deleted
  put,                    \* ideas its open transaction has written
  cutA, cutT,             \* accounts and ideas its open transaction has deleted
  tgt,                    \* rows a two-part statement has selected
  orphans                 \* deleteAccount: ideas run in that account only

tables == <<accts, trades, execs, nextId, made>>
txVars == <<upd, gone, put, cutA, cutT>>
vars   == <<tables, pc, req, view, txVars, tgt, orphans>>

NoReq == [op |-> "none", trade |-> None, exec |-> 0, acct |-> None,
          price |-> None, plan |-> None, primary |-> FALSE]

Init ==
  /\ \E s \in Seeds : /\ trades = s.trades /\ execs = s.execs /\ nextId = s.nextId
                      /\ made = {t.id : t \in s.trades}
  /\ accts = Accounts
  /\ pc      = [r \in Requests |-> "idle"]
  /\ req     = [r \in Requests |-> NoReq]
  /\ view    = [r \in Requests |-> {}]
  /\ upd     = [r \in Requests |-> {}]
  /\ gone    = [r \in Requests |-> {}]
  /\ put     = [r \in Requests |-> {}]
  /\ cutA    = [r \in Requests |-> {}]
  /\ cutT    = [r \in Requests |-> {}]
  /\ tgt     = [r \in Requests |-> {}]
  /\ orphans = [r \in Requests |-> {}]

-------------------------------------------------------------------------------
(* What a transaction sees and waits for. *)

Fills(t)  == {e \in execs : e.trade = t}
Ids(s)    == {e.id : e \in s}
Held(r)   == Ids(upd[r]) \cup gone[r]
Mine(r)   == {e \in execs : e.id \notin Held(r)} \cup upd[r]
Others(r) == Requests \ {r}
Taken(id, r) == \E q \in Others(r) : id \in Held(q)

TradeLives(t) == \E x \in trades : x.id = t
PlanOf(t)     == (CHOOSE x \in trades : x.id = t).plan

(* Variant: the unique check looks at committed rows only.                 *)
NoPrimaryWait(t, r) == FALSE

(* Somebody else's open transaction decides whether t gets or keeps a      *)
(* primary fill: the unique check has to wait for it.                      *)
PrimaryBusy(t, r) ==
  \E q \in Others(r) :
    \/ \E e \in upd[q] : e.trade = t /\ e.primary
    \/ \E e \in Fills(t) : e.primary /\ e.id \in Held(q)

(* Variant: the partial unique index left out of the migration.            *)
IndexMissing(t, id, r) == FALSE

PrimaryRefused(t, id, r) ==
  \E e \in Mine(r) : e.trade = t /\ e.primary /\ e.id # id

(* Variant: no foreign key from fills to ideas and accounts.               *)
NoForeignKey(t, a) == TRUE

(* A foreign key to an idea or account that another open transaction has   *)
(* deleted waits; to one that no longer exists, it fails.                  *)
ParentsBusy(t, a, r) == \E q \in Others(r) : t \in cutT[q] \/ a \in cutA[q]
ParentsLive(t, a)    == TradeLives(t) /\ a \in accts

(* Deleting an idea or an account waits for open writes to its fills.      *)
TradeInUse(t, r) ==
  \E q \in Others(r) :
    \/ \E e \in upd[q] : e.trade = t
    \/ \E e \in Fills(t) : e.id \in Held(q)
    \/ \E x \in put[q] : x.id = t
    \/ t \in cutT[q]
AccountInUse(a, r) ==
  \E q \in Others(r) :
    \/ \E e \in upd[q] : e.acct = a
    \/ \E e \in execs : e.acct = a /\ e.id \in Held(q)
    \/ a \in cutA[q]

-------------------------------------------------------------------------------
(* A request arrives: ownership checks, the load, and the decisions taken  *)
(* from it.  Requests refused here (404, PRIMARY_REQUIRED, LAST_EXECUTION) *)
(* change nothing.                                                         *)

Arrive(r, q, at) ==
  /\ q.op \in Ops
  /\ pc[r] = "idle"
  /\ req' = [req EXCEPT ![r] = q]
  /\ pc'  = [pc EXCEPT ![r] = at]
  /\ UNCHANGED <<accts, trades, execs, txVars, tgt>>

Load(r, t) ==
  /\ TradeLives(t)
  /\ view' = [view EXCEPT ![r] = Fills(t)]
  /\ UNCHANGED <<made, orphans>>

(* createTrade: one or two fills, the marked one (or the first) primary.   *)
NewFill(n, t, a, isPrimary, p, plan) ==
  [id |-> n, trade |-> t, acct |-> a, primary |-> isPrimary, price |-> p,
   metrics |-> [plan |-> plan, price |-> p]]

CreateTrade(r) ==
  \E t \in Trades \ made, a, b \in accts, plan \in Plans, p \in Prices, two \in BOOLEAN,
     marked \in 1..2 :
    LET n == IF two THEN 2 ELSE 1 IN
    /\ nextId + n <= MaxId + 1 /\ marked <= n
    /\ Arrive(r, [NoReq EXCEPT !.op = "create", !.trade = t, !.plan = plan], "createMany")
    /\ made' = made \cup {t}
    /\ nextId' = nextId + n
    /\ view' = [view EXCEPT ![r] =
         {NewFill(nextId, t, a, marked = 1, p, plan)}
         \cup (IF two THEN {NewFill(nextId + 1, t, b, marked = 2, p, plan)} ELSE {})]
    /\ UNCHANGED orphans

UpdateTrade(r) ==
  \E t \in Trades, plan \in Plans :
    /\ Load(r, t) /\ UNCHANGED nextId
    /\ Arrive(r, [NoReq EXCEPT !.op = "update", !.trade = t, !.plan = plan,
                               !.primary = (plan # PlanOf(t))], "putTrade")

DeleteTrade(r) ==
  \E t \in Trades :
    /\ Load(r, t) /\ UNCHANGED nextId
    /\ Arrive(r, [NoReq EXCEPT !.op = "delete", !.trade = t], "dropTrade")

AddExecution(r) ==
  \E t \in Trades, a \in accts, p \in Prices, wantsPrimary \in BOOLEAN :
    /\ Load(r, t)
    /\ nextId <= MaxId /\ nextId' = nextId + 1
    /\ Arrive(r, [NoReq EXCEPT !.op = "add", !.trade = t, !.exec = nextId, !.acct = a, !.price = p,
                               !.plan = PlanOf(t), !.primary = wantsPrimary],
              IF wantsPrimary THEN "clear" ELSE "insert")

(* updateExecution: the new row is the patch merged with what was loaded.  *)
UpdateExecution(r) ==
  \E t \in Trades, e \in execs, a \in accts \cup {None}, p \in Prices, promote \in BOOLEAN :
    /\ e.trade = t
    /\ Load(r, t) /\ UNCHANGED nextId
    /\ Arrive(r, [NoReq EXCEPT !.op = "edit", !.trade = t, !.exec = e.id, !.acct = a,
                               !.price = p, !.plan = PlanOf(t),
                               !.primary = (promote /\ ~ e.primary)],
              IF promote /\ ~ e.primary THEN "clear" ELSE "write")

RemoveExecution(r) ==
  \E t \in Trades, e \in execs :
    /\ e.trade = t
    /\ Cardinality(Fills(t)) > 1
    /\ Load(r, t) /\ UNCHANGED nextId
    /\ Arrive(r, [NoReq EXCEPT !.op = "remove", !.trade = t, !.exec = e.id,
                               !.primary = e.primary], "remove")

SetPrimaryExecution(r) ==
  \E t \in Trades, e \in execs :
    /\ e.trade = t /\ ~ e.primary
    /\ Load(r, t) /\ UNCHANGED nextId
    /\ Arrive(r, [NoReq EXCEPT !.op = "setPrimary", !.trade = t, !.exec = e.id,
                               !.primary = TRUE], "clear")

(* deleteAccount looks for the ideas run in this account only.             *)
DeleteAccount(r) ==
  \E a \in accts :
    /\ Arrive(r, [NoReq EXCEPT !.op = "deleteAccount", !.acct = a], "dropAccount")
    /\ orphans' = [orphans EXCEPT ![r] =
         {t \in Trades : /\ TradeLives(t) /\ Fills(t) # {}
                         /\ \A e \in Fills(t) : e.acct = a}]
    /\ UNCHANGED <<view, nextId, made>>

-------------------------------------------------------------------------------
(* The end of a request, and the statements of the transactions. *)

Reset(r) ==
  /\ pc'   = [pc   EXCEPT ![r] = IF OneShot THEN "served" ELSE "idle"]
  /\ req'  = [req  EXCEPT ![r] = NoReq]
  /\ view' = [view EXCEPT ![r] = {}]
  /\ upd'  = [upd  EXCEPT ![r] = {}]
  /\ gone' = [gone EXCEPT ![r] = {}]
  /\ put'  = [put  EXCEPT ![r] = {}]
  /\ cutA' = [cutA EXCEPT ![r] = {}]
  /\ cutT' = [cutT EXCEPT ![r] = {}]
  /\ tgt'  = [tgt  EXCEPT ![r] = {}]
  /\ orphans' = [orphans EXCEPT ![r] = {}]

(* A refused statement (P2002, P2003, P2025) rolls everything back.        *)
Abort(r) == Reset(r) /\ UNCHANGED tables

Goto(r, at) == pc' = [pc EXCEPT ![r] = at]

(* Writes one fill in r's transaction, over any version r wrote before.    *)
Write(r, e) == upd' = [upd EXCEPT ![r] = {x \in @ : x.id # e.id} \cup {e}]
Latest(id, r) == {e \in Mine(r) : e.id = id}

CreateMany(r) ==
  /\ pc[r] = "createMany"
  /\ \A e \in view[r] : \A q \in Others(r) : e.acct \notin cutA[q]
  /\ IF \E e \in view[r] : e.acct \notin accts
       THEN Abort(r)
       ELSE /\ upd' = [upd EXCEPT ![r] = view[r]]
            /\ put' = [put EXCEPT ![r] = {[id |-> req[r].trade, plan |-> req[r].plan]}]
            /\ Goto(r, "commit")
            /\ UNCHANGED <<tables, req, view, gone, cutA, cutT, tgt, orphans>>

(* updateMany where isPrimary: selects its rows, waits for their locks,    *)
(* and clears those that are still primary.                                *)
Clear(r) ==
  /\ pc[r] = "clear"
  /\ tgt' = [tgt EXCEPT ![r] = Ids({e \in Fills(req[r].trade) : e.primary})]
  /\ Goto(r, "clearing")
  /\ UNCHANGED <<tables, req, view, txVars, orphans>>

Clearing(r) ==
  /\ pc[r] = "clearing"
  /\ \A id \in tgt[r] : ~ Taken(id, r)
  /\ upd' = [upd EXCEPT ![r] =
       {[e EXCEPT !.primary = FALSE] : e \in {f \in execs : f.id \in tgt[r] /\ f.primary}}]
  /\ tgt' = [tgt EXCEPT ![r] = {}]
  /\ Goto(r, IF req[r].op = "add" THEN "insert" ELSE "write")
  /\ UNCHANGED <<tables, req, view, gone, put, cutA, cutT, orphans>>

Insert(r) ==
  LET q == req[r] IN
  /\ pc[r] = "insert"
  /\ ~ ParentsBusy(q.trade, q.acct, r)
  /\ q.primary => ~ PrimaryBusy(q.trade, r)
  /\ IF ~ ParentsLive(q.trade, q.acct) \/ (q.primary /\ PrimaryRefused(q.trade, q.exec, r))
       THEN Abort(r)
       ELSE /\ Write(r, NewFill(q.exec, q.trade, q.acct, q.primary, q.price, q.plan))
            /\ Goto(r, "commit")
            /\ UNCHANGED <<tables, req, view, gone, put, cutA, cutT, tgt, orphans>>

(* update of one fill: primary and account only if asked; an edit writes   *)
(* price and metrics as merged from the load.                              *)
Patched(r, e) ==
  LET q == req[r]
      m == IF q.op = "edit" THEN [e EXCEPT !.price = q.price,
                                           !.metrics = [plan |-> q.plan, price |-> q.price]]
                            ELSE e
  IN [m EXCEPT !.primary = @ \/ q.primary,
               !.acct    = IF q.acct = None THEN @ ELSE q.acct]

WriteOne(r) ==
  LET q == req[r] IN
  /\ pc[r] = "write"
  /\ ~ Taken(q.exec, r)
  /\ q.acct # None => \A x \in Others(r) : q.acct \notin cutA[x]
  /\ q.primary => ~ PrimaryBusy(q.trade, r)
  /\ \/ /\ \/ Latest(q.exec, r) = {}
           \/ q.acct # None /\ q.acct \notin accts
           \/ q.primary /\ PrimaryRefused(q.trade, q.exec, r)
        /\ Abort(r)
     \/ /\ q.acct # None => q.acct \in accts
        /\ q.primary => ~ PrimaryRefused(q.trade, q.exec, r)
        /\ \E e \in Latest(q.exec, r) : Write(r, Patched(r, e))
        /\ Goto(r, "commit")
        /\ UNCHANGED <<tables, req, view, gone, put, cutA, cutT, tgt, orphans>>

Remaining(r) == {e \in view[r] : e.id # req[r].exec}

Remove(r) ==
  /\ pc[r] = "remove"
  /\ ~ Taken(req[r].exec, r)
  /\ IF req[r].exec \notin Ids(execs)
       THEN Abort(r)
       ELSE /\ gone' = [gone EXCEPT ![r] = @ \cup {req[r].exec}]
            /\ Goto(r, IF req[r].primary /\ Remaining(r) # {} THEN "promote" ELSE "commit")
            /\ UNCHANGED <<tables, req, view, upd, put, cutA, cutT, tgt, orphans>>

(* The oldest fill that was left when the request loaded the idea.         *)
Oldest(r) == {e \in Remaining(r) : \A f \in Remaining(r) : e.id <= f.id}

Promote(r) ==
  /\ pc[r] = "promote"
  /\ ~ PrimaryBusy(req[r].trade, r)
  /\ \E p \in Oldest(r) :
       /\ ~ Taken(p.id, r)
       /\ \/ /\ \/ Latest(p.id, r) = {}
                \/ PrimaryRefused(req[r].trade, p.id, r)
             /\ Abort(r)
          \/ /\ ~ PrimaryRefused(req[r].trade, p.id, r)
             /\ \E e \in Latest(p.id, r) : Write(r, [e EXCEPT !.primary = TRUE])
             /\ Goto(r, "commit")
             /\ UNCHANGED <<tables, req, view, gone, put, cutA, cutT, tgt, orphans>>

(* Variant: the metrics are left as they were.                             *)
PutTradeOnly(r) ==
  /\ pc[r] = "putTrade"
  /\ TradeLives(req[r].trade)
  /\ put' = [put EXCEPT ![r] = {[id |-> req[r].trade, plan |-> req[r].plan]}]
  /\ Goto(r, "commit")
  /\ UNCHANGED <<tables, req, view, upd, gone, cutA, cutT, tgt, orphans>>

(* updateTrade: the idea, then, if pair, stop or direction changed, the    *)
(* metrics of every fill that was loaded, from its price as loaded.        *)
PutTrade(r) ==
  LET t == req[r].trade IN
  /\ pc[r] = "putTrade"
  /\ \A q \in Others(r) : t \notin cutT[q] /\ \A x \in put[q] : x.id # t
  /\ IF ~ TradeLives(t)
       THEN Abort(r)
       ELSE /\ put' = [put EXCEPT ![r] = {[id |-> t, plan |-> req[r].plan]}]
            /\ tgt' = [tgt EXCEPT ![r] = IF req[r].primary THEN Ids(view[r]) ELSE {}]
            /\ Goto(r, IF req[r].primary THEN "rewrite" ELSE "commit")
            /\ UNCHANGED <<tables, req, view, upd, gone, cutA, cutT, orphans>>

(* The next loaded fill to rewrite.                                        *)
NextLoaded(r) == {v \in view[r] : v.id \in tgt[r] /\ \A n \in tgt[r] : v.id <= n}

Rewrite(r) ==
  /\ pc[r] = "rewrite"
  /\ \E v \in NextLoaded(r) :
       /\ ~ Taken(v.id, r)
       /\ \/ Latest(v.id, r) = {} /\ Abort(r)
          \/ /\ \E e \in Latest(v.id, r) :
                  Write(r, [e EXCEPT !.metrics = [plan |-> req[r].plan, price |-> v.price]])
             /\ tgt' = [tgt EXCEPT ![r] = @ \ {v.id}]
             /\ UNCHANGED <<tables, pc, req, view, gone, put, cutA, cutT, orphans>>

Rewritten(r) ==
  /\ pc[r] = "rewrite" /\ tgt[r] = {}
  /\ Goto(r, "commit")
  /\ UNCHANGED <<tables, req, view, txVars, tgt, orphans>>

DropTrade(r) ==
  LET t == req[r].trade IN
  /\ pc[r] = "dropTrade"
  /\ ~ TradeInUse(t, r)
  /\ trades' = {x \in trades : x.id # t}
  /\ execs'  = {e \in execs : e.trade # t}
  /\ Reset(r)
  /\ UNCHANGED <<accts, nextId, made>>

DropAccount(r) ==
  LET a == req[r].acct IN
  /\ pc[r] = "dropAccount"
  /\ ~ AccountInUse(a, r)
  /\ IF a \notin accts
       THEN Abort(r)
       ELSE /\ cutA' = [cutA EXCEPT ![r] = {a}]
            /\ gone' = [gone EXCEPT ![r] = Ids({e \in execs : e.acct = a})]
            /\ Goto(r, IF orphans[r] = {} THEN "commit" ELSE "sweep")
            /\ UNCHANGED <<tables, req, view, upd, put, cutT, tgt, orphans>>

(* Of the ideas found before, those left with no fill are deleted.         *)
Sweep(r) ==
  /\ pc[r] = "sweep"
  /\ orphans' = [orphans EXCEPT ![r] =
       {t \in @ : TradeLives(t) /\ \A e \in Mine(r) : e.trade # t}]
  /\ Goto(r, "cut")
  /\ UNCHANGED <<tables, req, view, txVars, tgt>>

Cut(r) ==
  /\ pc[r] = "cut"
  /\ \A t \in orphans[r] : ~ TradeInUse(t, r)
  /\ cutT' = [cutT EXCEPT ![r] = orphans[r]]
  /\ gone' = [gone EXCEPT ![r] = @ \cup Ids({e \in execs : e.trade \in orphans[r]})]
  /\ Goto(r, "commit")
  /\ UNCHANGED <<tables, req, view, upd, put, cutA, tgt, orphans>>

Commit(r) ==
  /\ pc[r] = "commit"
  /\ execs'  = Mine(r)
  /\ accts'  = accts \ cutA[r]
  /\ trades' = {x \in trades : x.id \notin cutT[r] /\ \A y \in put[r] : y.id # x.id}
               \cup put[r]
  /\ Reset(r)
  /\ UNCHANGED <<nextId, made>>

Settled == {"idle", "served"}

(* Prisma's limit on an interactive transaction, a deadlock victim, a lost *)
(* connection: whatever was open is rolled back and the client gets a 500. *)
TimedOut(r) ==
  /\ pc[r] \notin Settled \cup {"commit"}
  /\ Abort(r)

-------------------------------------------------------------------------------
NewRequest(r) == \/ CreateTrade(r) \/ UpdateTrade(r) \/ DeleteTrade(r)
                 \/ AddExecution(r) \/ UpdateExecution(r) \/ RemoveExecution(r)
                 \/ SetPrimaryExecution(r) \/ DeleteAccount(r)
Statement(r)  == \/ CreateMany(r) \/ Clear(r) \/ Clearing(r) \/ Insert(r) \/ WriteOne(r)
                 \/ Remove(r) \/ Promote(r) \/ PutTrade(r) \/ Rewrite(r) \/ Rewritten(r)
                 \/ DropTrade(r) \/ DropAccount(r) \/ Sweep(r) \/ Cut(r) \/ Commit(r)

(* Nothing is under way, and nothing need be.                              *)
Quiet == (\A r \in Requests : pc[r] \in Settled) /\ UNCHANGED vars

Next == (\E r \in Requests : NewRequest(r) \/ Statement(r) \/ TimedOut(r)) \/ Quiet

Spec == Init /\ [][Next]_vars

-------------------------------------------------------------------------------
(* Properties. *)

Pcs == {"idle", "createMany", "clear", "clearing", "insert", "write", "remove", "promote",
        "putTrade", "rewrite", "dropTrade", "dropAccount", "sweep", "cut", "commit", "served"}

TypeOK ==
  /\ accts \subseteq Accounts /\ trades \subseteq Trade /\ execs \subseteq Exec
  /\ nextId \in 1..(MaxId + 1) /\ made \subseteq Trades
  /\ pc   \in [Requests -> Pcs]
  /\ req  \in [Requests -> Request]
  /\ view \in [Requests -> SUBSET Exec]
  /\ upd  \in [Requests -> SUBSET Exec]
  /\ gone \in [Requests -> SUBSET (1..MaxId)]
  /\ put  \in [Requests -> SUBSET Trade]
  /\ cutA \in [Requests -> SUBSET Accounts]
  /\ cutT \in [Requests -> SUBSET Trades]
  /\ tgt  \in [Requests -> SUBSET (1..MaxId)]
  /\ orphans \in [Requests -> SUBSET Trades]

(* No idea ever has two committed primary fills, so the fill that stands   *)
(* for its outcome in the edge statistics is never ambiguous.              *)
AtMostOnePrimary == AtMostOnePrimaryIn(execs)

(* Why: an open transaction that has made a fill primary has itself        *)
(* written or deleted every other primary fill of that idea, no other open *)
(* transaction has made one primary, and no fill is written by two.        *)
PendingPrimaryAlone ==
  \A r \in Requests : \A p \in upd[r] : p.primary =>
    /\ \A e \in Fills(p.trade) : e.primary => e.id \in Held(r)
    /\ \A q \in Requests : \A f \in upd[q] : f.primary /\ f.trade = p.trade => q = r /\ f = p
FillLocksExclusive ==
  \A r, q \in Requests : r # q => Held(r) \cap Held(q) = {}
PrimaryInv == AtMostOnePrimary /\ PendingPrimaryAlone /\ FillLocksExclusive

(* "Exactly one execution per trade is flagged primary."                   *)
ExactlyOnePrimary ==
  \A t \in trades : \E e \in Fills(t.id) : e.primary /\ \A f \in Fills(t.id) : f.primary => f = e

(* The same as long as no account has been deleted.                        *)
PrimaryUntilCascade == accts = Accounts => ExactlyOnePrimary

(* "A trade with no executions is invalid."                                *)
NoEmptyTrade == \A t \in trades : Fills(t.id) # {}

(* A fill belongs to an idea and an account that exist, also when either   *)
(* is deleted while the fill is being written.                             *)
NoDanglingFill ==
  \A e \in execs : e.acct \in accts /\ \E t \in trades : t.id = e.trade

(* "If any changes, pips and R:R for every execution are recomputed from   *)
(* that execution's own stored prices": stored metrics always agree with   *)
(* the stored idea and the stored price.                                   *)
MetricsFresh ==
  \A e \in execs : \A t \in trades :
    t.id = e.trade => e.metrics = [plan |-> t.plan, price |-> e.price]
===============================================================================
