--------------------------- MODULE TradingHubProofs ---------------------------
(***************************************************************************)
(* Theorems about TradingHub, for every set of requests, ideas, accounts   *)
(* and starting books: its type correctness, that no interleaving of       *)
(* requests commits a second primary fill for an idea, that none commits a *)
(* fill without its idea or its account, that, while no fill is removed    *)
(* and no account deleted, none leaves an idea without a primary, and that *)
(* requests of every kind keep the book whole when they do not overlap.    *)
(***************************************************************************)
EXTENDS TradingHubMix, FiniteSetTheorems, TLAPS

-------------------------------------------------------------------------------
(* The parts of the inductive invariant. *)

(* What a request carries, by the operation it asks for, and where each    *)
(* operation's transaction can be.                                         *)
ReqOK ==
  \A r \in Requests : LET q == req[r] IN
    /\ q.op \in AllOps \ {"deleteAccount"} => q.trade \in Trades
    /\ q.op \in {"create", "update", "add", "edit"} => q.plan \in Plans
    /\ q.op \in {"add", "edit"} => q.price \in Prices
    /\ q.op = "add" => q.exec \in 1..MaxId
    /\ q.op \in {"add", "deleteAccount"} => q.acct \in Accounts
PcOK ==
  \A r \in Requests :
    /\ pc[r] = "createMany" => req[r].op = "create"
    /\ pc[r] \in {"clear", "clearing"} => req[r].op \in {"add", "edit", "setPrimary"}
    /\ pc[r] = "insert" => req[r].op = "add"
    /\ pc[r] = "write" => req[r].op \in {"edit", "setPrimary"}
    /\ pc[r] \in {"remove", "promote"} => req[r].op = "remove"
    /\ pc[r] \in {"putTrade", "rewrite"} => req[r].op = "update"
    /\ pc[r] = "dropAccount" => req[r].op = "deleteAccount"
TypeInv == TypeOK /\ ReqOK /\ PcOK

-------------------------------------------------------------------------------
(* Type correctness. *)

LEMMA NoReqTyped == NoReq \in Request
BY OpsAssumption DEF NoReq, Request

LEMMA TypeInit == Init => TypeInv
<1> SUFFICES ASSUME Init PROVE TypeInv
  OBVIOUS
<1>1. PICK s \in Seeds : /\ trades = s.trades /\ execs = s.execs /\ nextId = s.nextId
                         /\ made = {t.id : t \in s.trades}
  BY DEF Init
<1>2. trades \subseteq Trade /\ execs \subseteq Exec /\ nextId \in 1..(MaxId + 1)
  BY <1>1, SeedsAssumption
<1>3. made \subseteq Trades
  BY <1>1, <1>2 DEF Trade
<1>4. req = [r \in Requests |-> NoReq] /\ pc = [r \in Requests |-> "idle"]
  BY DEF Init
<1>5. ReqOK /\ PcOK
  BY <1>4 DEF ReqOK, PcOK, NoReq, AllOps
<1>6. NoReq \in Request
  BY NoReqTyped
<1>7. TypeOK
  BY <1>2, <1>3, <1>6 DEF Init, TypeOK, Pcs
<1> QED
  BY <1>5, <1>7 DEF TypeInv

(* An idea that exists has a plan, and what a transaction sees are fills.  *)
LEMMA PlanTyped == ASSUME TypeOK, NEW t, TradeLives(t) PROVE PlanOf(t) \in Plans
<1>1. (CHOOSE x \in trades : x.id = t) \in trades
  BY DEF TradeLives
<1> QED
  BY <1>1 DEF PlanOf, TypeOK, Trade

LEMMA SeenTyped ==
  ASSUME TypeOK, NEW r \in Requests
  PROVE  /\ Mine(r) \subseteq Exec
         /\ \A id : Latest(id, r) \subseteq Exec
         /\ \A t : Fills(t) \subseteq Exec
BY DEF TypeOK, Mine, Latest, Fills

LEMMA NewFillTyped ==
  ASSUME NEW n \in 1..MaxId, NEW t \in Trades, NEW a \in Accounts, NEW b \in BOOLEAN,
         NEW p \in Prices, NEW plan \in Plans
  PROVE  NewFill(n, t, a, b, p, plan) \in Exec
BY DEF NewFill, Exec, Basis

LEMMA WriteTyped ==
  ASSUME TypeOK, NEW r \in Requests, NEW e \in Exec, Write(r, e)
  PROVE  upd' \in [Requests -> SUBSET Exec]
BY DEF TypeOK, Write

(* The request a slot is given has the types its operation needs.          *)
GoodRequest(q, at) ==
  /\ q \in Request /\ q.op # "none"
  /\ q.op # "deleteAccount" => q.trade \in Trades
  /\ q.op \in {"create", "update", "add", "edit"} => q.plan \in Plans
  /\ q.op \in {"add", "edit"} => q.price \in Prices
  /\ q.op = "add" => q.exec \in 1..MaxId
  /\ q.op \in {"add", "deleteAccount"} => q.acct \in Accounts
  /\ \/ at = "createMany" /\ q.op = "create"
     \/ at = "clear" /\ q.op \in {"add", "edit", "setPrimary"}
     \/ at = "insert" /\ q.op = "add"
     \/ at = "write" /\ q.op \in {"edit", "setPrimary"}
     \/ at = "remove" /\ q.op = "remove"
     \/ at = "putTrade" /\ q.op = "update"
     \/ at = "dropTrade"
     \/ at = "dropAccount" /\ q.op = "deleteAccount"

LEMMA ArriveTyped ==
  ASSUME TypeInv, NEW r \in Requests, NEW q, NEW at, GoodRequest(q, at), Arrive(r, q, at),
         nextId' \in 1..(MaxId + 1), made' \subseteq Trades,
         view' \in [Requests -> SUBSET Exec], orphans' \in [Requests -> SUBSET Trades]
  PROVE  TypeInv'
<1>1. req' = [req EXCEPT ![r] = q] /\ pc' = [pc EXCEPT ![r] = at]
  BY DEF Arrive
<1>2. at \in Pcs
  BY DEF GoodRequest, Pcs
<1>3. q \in Request /\ req' \in [Requests -> Request]
  BY <1>1 DEF GoodRequest, TypeInv, TypeOK
<1>8. TypeOK'
  BY <1>1, <1>2, <1>3 DEF TypeInv, TypeOK, Arrive, txVars
<1>4. \A x \in Requests : x # r => req'[x] = req[x] /\ pc'[x] = pc[x]
  BY <1>1 DEF TypeInv, TypeOK
<1>5. req'[r] = q /\ pc'[r] = at
  BY <1>1 DEF TypeInv, TypeOK
<1>6. ReqOK'
  BY <1>4, <1>5 DEF TypeInv, ReqOK, GoodRequest, AllOps
<1>7. PcOK'
  BY <1>4, <1>5 DEF TypeInv, PcOK, GoodRequest
<1> QED
  BY <1>8, <1>6, <1>7 DEF TypeInv

LEMMA LoadTyped ==
  ASSUME TypeInv, NEW r \in Requests, NEW t, Load(r, t)
  PROVE  /\ made' \subseteq Trades
         /\ view' \in [Requests -> SUBSET Exec]
         /\ orphans' \in [Requests -> SUBSET Trades]
BY SeenTyped DEF TypeInv, TypeOK, Load

LEMMA ResetTyped ==
  ASSUME TypeInv, NEW r \in Requests, Reset(r), nextId' = nextId, made' = made,
         accts' \subseteq Accounts, trades' \subseteq Trade, execs' \subseteq Exec
  PROVE  TypeInv'
<1> DEFINE s == IF OneShot THEN "served" ELSE "idle"
<1>1. pc' = [pc EXCEPT ![r] = s] /\ req' = [req EXCEPT ![r] = NoReq]
  BY DEF Reset
<1>2. s \in {"served", "idle"}
  OBVIOUS
<1> HIDE DEF s
<1>4. TypeOK'
  BY <1>1, <1>2, NoReqTyped DEF TypeInv, TypeOK, Reset, Pcs
<1>5. \A x \in Requests : x # r => req'[x] = req[x] /\ pc'[x] = pc[x]
  BY <1>1 DEF TypeInv, TypeOK
<1>6. req'[r] = NoReq /\ pc'[r] = s
  BY <1>1 DEF TypeInv, TypeOK
<1>7. ReqOK'
  BY <1>5, <1>6 DEF TypeInv, ReqOK, NoReq, AllOps
<1>8. PcOK'
  BY <1>2, <1>5, <1>6 DEF TypeInv, PcOK
<1> QED
  BY <1>4, <1>7, <1>8 DEF TypeInv

LEMMA AbortTyped ==
  ASSUME TypeInv, NEW r \in Requests, Abort(r)
  PROVE  TypeInv'
BY ResetTyped DEF Abort, tables, TypeInv, TypeOK

(* A statement that moves its request on keeps what the request asked for. *)
LEMMA GotoTyped ==
  ASSUME TypeInv, NEW r \in Requests, NEW at, Goto(r, at), UNCHANGED <<tables, req, view>>,
         \/ at \in {"commit", "sweep", "cut"}
         \/ at = "clearing" /\ req[r].op \in {"add", "edit", "setPrimary"}
         \/ at = "insert" /\ req[r].op = "add"
         \/ at = "write" /\ req[r].op \in {"edit", "setPrimary"}
         \/ at = "promote" /\ req[r].op = "remove"
         \/ at = "rewrite" /\ req[r].op = "update",
         upd'  \in [Requests -> SUBSET Exec], gone' \in [Requests -> SUBSET (1..MaxId)],
         put'  \in [Requests -> SUBSET Trade], cutA' \in [Requests -> SUBSET Accounts],
         cutT' \in [Requests -> SUBSET Trades], tgt' \in [Requests -> SUBSET (1..MaxId)],
         orphans' \in [Requests -> SUBSET Trades]
  PROVE  TypeInv'
<1>1. pc' = [pc EXCEPT ![r] = at] /\ at \in Pcs
  BY DEF Goto, Pcs
<1>2. TypeOK'
  BY <1>1 DEF TypeInv, TypeOK, tables
<1>3. PcOK'
  BY <1>1 DEF TypeInv, TypeOK, PcOK
<1> QED
  BY <1>2, <1>3 DEF TypeInv, ReqOK

(* A new request. *)
LEMMA RequestTyped ==
  ASSUME TypeInv, NEW r \in Requests, NewRequest(r)
  PROVE  TypeInv'
<1>0. 0 \in 0..MaxId /\ MaxId \in Nat
  BY OpsAssumption
<1>1. CASE CreateTrade(r)
  <2>1. PICK t \in Trades \ made, a \in accts, b \in accts, plan \in Plans, p \in Prices,
             two \in BOOLEAN, marked \in 1..2 :
          LET n == IF two THEN 2 ELSE 1 IN
          /\ nextId + n <= MaxId + 1 /\ marked <= n
          /\ Arrive(r, [NoReq EXCEPT !.op = "create", !.trade = t, !.plan = plan], "createMany")
          /\ made' = made \cup {t}
          /\ nextId' = nextId + n
          /\ view' = [view EXCEPT ![r] =
               {NewFill(nextId, t, a, marked = 1, p, plan)}
               \cup (IF two THEN {NewFill(nextId + 1, t, b, marked = 2, p, plan)} ELSE {})]
          /\ UNCHANGED orphans
    BY <1>1 DEF CreateTrade
  <2> DEFINE n == IF two THEN 2 ELSE 1
             q == [NoReq EXCEPT !.op = "create", !.trade = t, !.plan = plan]
             f == NewFill(nextId, t, a, marked = 1, p, plan)
             g == NewFill(nextId + 1, t, b, marked = 2, p, plan)
  <2>2. nextId \in 1..(MaxId + 1) /\ a \in Accounts /\ b \in Accounts
    BY DEF TypeInv, TypeOK
  <2>3. nextId' \in 1..(MaxId + 1) /\ nextId \in 1..MaxId
    BY <1>0, <2>1, <2>2
  <2>4. two => nextId + 1 \in 1..MaxId
    BY <1>0, <2>1, <2>2
  <2>5. f \in Exec /\ (two => g \in Exec)
    BY <2>2, <2>3, <2>4, NewFillTyped
  <2>6. view' \in [Requests -> SUBSET Exec]
    BY <2>1, <2>5 DEF TypeInv, TypeOK
  <2>7. GoodRequest(q, "createMany")
    BY <1>0 DEF GoodRequest, Request, NoReq, AllOps
  <2>8. made' \subseteq Trades /\ orphans' \in [Requests -> SUBSET Trades]
    BY <2>1 DEF TypeInv, TypeOK
  <2> QED
    BY <2>1, <2>3, <2>6, <2>7, <2>8, ArriveTyped
<1>2. CASE UpdateTrade(r)
  <2>1. PICK t \in Trades, plan \in Plans :
          /\ Load(r, t) /\ UNCHANGED nextId
          /\ Arrive(r, [NoReq EXCEPT !.op = "update", !.trade = t, !.plan = plan,
                                     !.primary = (plan # PlanOf(t))], "putTrade")
    BY <1>2 DEF UpdateTrade
  <2>2. GoodRequest([NoReq EXCEPT !.op = "update", !.trade = t, !.plan = plan,
                                  !.primary = (plan # PlanOf(t))], "putTrade")
    BY <1>0 DEF GoodRequest, Request, NoReq, AllOps
  <2> QED
    BY <2>1, <2>2, LoadTyped, ArriveTyped DEF TypeInv, TypeOK
<1>3. CASE DeleteTrade(r)
  <2>1. PICK t \in Trades :
          /\ Load(r, t) /\ UNCHANGED nextId
          /\ Arrive(r, [NoReq EXCEPT !.op = "delete", !.trade = t], "dropTrade")
    BY <1>3 DEF DeleteTrade
  <2>2. GoodRequest([NoReq EXCEPT !.op = "delete", !.trade = t], "dropTrade")
    BY <1>0 DEF GoodRequest, Request, NoReq, AllOps
  <2> QED
    BY <2>1, <2>2, LoadTyped, ArriveTyped DEF TypeInv, TypeOK
<1>4. CASE AddExecution(r)
  <2>1. PICK t \in Trades, a \in accts, p \in Prices, w \in BOOLEAN :
          /\ Load(r, t)
          /\ nextId <= MaxId /\ nextId' = nextId + 1
          /\ Arrive(r, [NoReq EXCEPT !.op = "add", !.trade = t, !.exec = nextId, !.acct = a,
                                     !.price = p, !.plan = PlanOf(t), !.primary = w],
                    IF w THEN "clear" ELSE "insert")
    BY <1>4 DEF AddExecution
  <2>2. PlanOf(t) \in Plans /\ a \in Accounts /\ nextId \in 1..MaxId
    BY <1>0, <2>1, PlanTyped DEF Load, TypeInv, TypeOK
  <2>3. GoodRequest([NoReq EXCEPT !.op = "add", !.trade = t, !.exec = nextId, !.acct = a,
                                  !.price = p, !.plan = PlanOf(t), !.primary = w],
                    IF w THEN "clear" ELSE "insert")
    <3>1. nextId \in 0..MaxId
      BY <1>0, <2>2
    <3>2. CASE w
      BY <2>2, <3>1, <3>2 DEF GoodRequest, Request, NoReq, AllOps
    <3>3. CASE ~ w
      BY <2>2, <3>1, <3>3 DEF GoodRequest, Request, NoReq, AllOps
    <3> QED
      BY <3>2, <3>3
  <2>4. nextId' \in 1..(MaxId + 1)
    BY <1>0, <2>1, <2>2
  <2> QED
    BY <2>1, <2>3, <2>4, LoadTyped, ArriveTyped
<1>5. CASE UpdateExecution(r)
  <2>1. PICK t \in Trades, e \in execs, a \in accts \cup {None}, p \in Prices, w \in BOOLEAN :
          /\ Load(r, t) /\ UNCHANGED nextId
          /\ Arrive(r, [NoReq EXCEPT !.op = "edit", !.trade = t, !.exec = e.id, !.acct = a,
                                     !.price = p, !.plan = PlanOf(t),
                                     !.primary = (w /\ ~ e.primary)],
                    IF w /\ ~ e.primary THEN "clear" ELSE "write")
    BY <1>5, ZenonT(40) DEF UpdateExecution
  <2>2. /\ PlanOf(t) \in Plans /\ a \in Accounts \cup {None}
        /\ e.id \in 0..MaxId /\ e.primary \in BOOLEAN
    BY <2>1, PlanTyped DEF Load, TypeInv, TypeOK, Exec
  <2>3. GoodRequest([NoReq EXCEPT !.op = "edit", !.trade = t, !.exec = e.id, !.acct = a,
                                  !.price = p, !.plan = PlanOf(t),
                                  !.primary = (w /\ ~ e.primary)],
                    IF w /\ ~ e.primary THEN "clear" ELSE "write")
    BY <1>0, <2>2 DEF GoodRequest, Request, NoReq, AllOps
  <2> QED
    BY <2>1, <2>3, LoadTyped, ArriveTyped DEF TypeInv, TypeOK
<1>6. CASE RemoveExecution(r)
  <2>1. PICK t \in Trades, e \in execs :
          /\ Load(r, t) /\ UNCHANGED nextId
          /\ Arrive(r, [NoReq EXCEPT !.op = "remove", !.trade = t, !.exec = e.id,
                                     !.primary = e.primary], "remove")
    BY <1>6 DEF RemoveExecution
  <2>2. e.id \in 0..MaxId /\ e.primary \in BOOLEAN
    BY DEF TypeInv, TypeOK, Exec
  <2>3. GoodRequest([NoReq EXCEPT !.op = "remove", !.trade = t, !.exec = e.id,
                                  !.primary = e.primary], "remove")
    BY <1>0, <2>2 DEF GoodRequest, Request, NoReq, AllOps
  <2> QED
    BY <2>1, <2>3, LoadTyped, ArriveTyped DEF TypeInv, TypeOK
<1>7. CASE SetPrimaryExecution(r)
  <2>1. PICK t \in Trades, e \in execs :
          /\ Load(r, t) /\ UNCHANGED nextId
          /\ Arrive(r, [NoReq EXCEPT !.op = "setPrimary", !.trade = t, !.exec = e.id,
                                     !.primary = TRUE], "clear")
    BY <1>7 DEF SetPrimaryExecution
  <2>2. e.id \in 0..MaxId
    BY DEF TypeInv, TypeOK, Exec
  <2>3. GoodRequest([NoReq EXCEPT !.op = "setPrimary", !.trade = t, !.exec = e.id,
                                  !.primary = TRUE], "clear")
    BY <1>0, <2>2 DEF GoodRequest, Request, NoReq, AllOps
  <2> QED
    BY <2>1, <2>3, LoadTyped, ArriveTyped DEF TypeInv, TypeOK
<1>8. CASE DeleteAccount(r)
  <2>1. PICK a \in accts :
          /\ Arrive(r, [NoReq EXCEPT !.op = "deleteAccount", !.acct = a], "dropAccount")
          /\ orphans' = [orphans EXCEPT ![r] =
               {t \in Trades : /\ TradeLives(t) /\ Fills(t) # {}
                               /\ \A e \in Fills(t) : e.acct = a}]
          /\ UNCHANGED <<view, nextId, made>>
    BY <1>8 DEF DeleteAccount
  <2>2. a \in Accounts
    BY DEF TypeInv, TypeOK
  <2>3. GoodRequest([NoReq EXCEPT !.op = "deleteAccount", !.acct = a], "dropAccount")
    BY <1>0, <2>2 DEF GoodRequest, Request, NoReq, AllOps
  <2>4. orphans' \in [Requests -> SUBSET Trades]
    BY <2>1 DEF TypeInv, TypeOK
  <2>5. view' \in [Requests -> SUBSET Exec] /\ nextId' \in 1..(MaxId + 1) /\ made' \subseteq Trades
    BY <2>1 DEF TypeInv, TypeOK
  <2> QED
    BY <2>1, <2>3, <2>4, <2>5, ArriveTyped
<1> QED
  BY <1>1, <1>2, <1>3, <1>4, <1>5, <1>6, <1>7, <1>8 DEF NewRequest

(* Ids of fills are ids, and an edited fill is a fill. *)
LEMMA IdsTyped == ASSUME NEW s \in SUBSET Exec PROVE Ids(s) \in SUBSET (1..MaxId)
BY DEF Ids, Exec

LEMMA PatchedTyped ==
  ASSUME TypeInv, NEW r \in Requests, pc[r] = "write", NEW e \in Exec
  PROVE  Patched(r, e) \in Exec
<1> DEFINE q == req[r]
           m == IF q.op = "edit" THEN [e EXCEPT !.price = q.price,
                                                !.metrics = [plan |-> q.plan, price |-> q.price]]
                                 ELSE e
           b == m.primary \/ q.primary
           a == IF q.acct = None THEN m.acct ELSE q.acct
<1>1. q \in Request /\ (q.op = "edit" => q.price \in Prices /\ q.plan \in Plans)
  BY DEF TypeInv, TypeOK, ReqOK
<1>2. [plan |-> q.plan, price |-> q.price] \in Basis \/ q.op # "edit"
  BY <1>1 DEF Basis
<1>3. m \in Exec
  BY <1>1, <1>2 DEF Exec
<1>4. Patched(r, e) = [m EXCEPT !.primary = b, !.acct = a]
  BY DEF Patched
<1>5. b \in BOOLEAN
  OBVIOUS
<1>6. a \in Accounts
  BY <1>1, <1>3 DEF Exec, Request
<1> HIDE DEF m, b, a
<1> QED
  BY <1>3, <1>4, <1>5, <1>6 DEF Exec

(* A statement of a transaction, or its rollback. *)
LEMMA StatementTyped ==
  ASSUME TypeInv, NEW r \in Requests, Statement(r)
  PROVE  TypeInv'
<1>1. CASE CreateMany(r)
  <2>1. CASE Abort(r)
    BY <2>1, AbortTyped
  <2>2. CASE ~ Abort(r)
    <3>1. /\ upd' = [upd EXCEPT ![r] = view[r]]
          /\ put' = [put EXCEPT ![r] = {[id |-> req[r].trade, plan |-> req[r].plan]}]
          /\ Goto(r, "commit")
          /\ UNCHANGED <<tables, req, view, gone, cutA, cutT, tgt, orphans>>
      BY <1>1, <2>2 DEF CreateMany
    <3>2. [id |-> req[r].trade, plan |-> req[r].plan] \in Trade
      BY <1>1 DEF CreateMany, TypeInv, ReqOK, PcOK, Trade, AllOps
    <3> QED
      BY <3>1, <3>2, GotoTyped DEF TypeInv, TypeOK
  <2> QED
    BY <2>1, <2>2
<1>2. CASE Clear(r)
  <2>1. Ids({e \in Fills(req[r].trade) : e.primary}) \in SUBSET (1..MaxId)
    BY IdsTyped DEF TypeInv, TypeOK, Fills
  <2> QED
    BY <1>2, <2>1, GotoTyped DEF Clear, TypeInv, TypeOK, PcOK, txVars
<1>3. CASE Clearing(r)
  <2>1. \A e \in execs : [e EXCEPT !.primary = FALSE] \in Exec
    BY DEF TypeInv, TypeOK, Exec
  <2>2. {[e EXCEPT !.primary = FALSE] : e \in {f \in execs : f.id \in tgt[r] /\ f.primary}}
          \in SUBSET Exec
    BY <2>1
  <2>3. upd' \in [Requests -> SUBSET Exec] /\ tgt' \in [Requests -> SUBSET (1..MaxId)]
    BY <1>3, <2>2 DEF Clearing, TypeInv, TypeOK
  <2>4. req[r].op \in {"add", "edit", "setPrimary"}
    BY <1>3 DEF Clearing, TypeInv, PcOK
  <2>5. CASE req[r].op = "add"
    BY <1>3, <2>3, <2>5, GotoTyped DEF Clearing, TypeInv, TypeOK
  <2>6. CASE req[r].op # "add"
    BY <1>3, <2>3, <2>4, <2>6, GotoTyped DEF Clearing, TypeInv, TypeOK
  <2> QED
    BY <2>5, <2>6
<1>4. CASE Insert(r)
  <2> DEFINE q == req[r]
             e == NewFill(q.exec, q.trade, q.acct, q.primary, q.price, q.plan)
  <2>1. CASE Abort(r)
    BY <2>1, AbortTyped
  <2>2. CASE ~ Abort(r)
    <3>1. /\ Write(r, e) /\ Goto(r, "commit")
          /\ UNCHANGED <<tables, req, view, gone, put, cutA, cutT, tgt, orphans>>
      BY <1>4, <2>2 DEF Insert
    <3>2. q \in Request /\ q.op = "add"
      BY <1>4 DEF Insert, TypeInv, TypeOK, PcOK
    <3>3. /\ q.exec \in 1..MaxId /\ q.trade \in Trades /\ q.acct \in Accounts
          /\ q.price \in Prices /\ q.plan \in Plans
      BY <3>2 DEF TypeInv, ReqOK, AllOps
    <3>4. q.primary \in BOOLEAN
      BY <3>2 DEF Request
    <3>5. e \in Exec
      BY <3>3, <3>4, NewFillTyped
    <3> QED
      BY <3>1, <3>5, WriteTyped, GotoTyped DEF TypeInv, TypeOK
  <2> QED
    BY <2>1, <2>2
<1>5. CASE WriteOne(r)
  <2>1. CASE Abort(r)
    BY <2>1, AbortTyped
  <2>2. CASE ~ Abort(r)
    <3>1. PICK e \in Latest(req[r].exec, r) : Write(r, Patched(r, e))
      BY <1>5, <2>2 DEF WriteOne
    <3>2. /\ pc[r] = "write" /\ Goto(r, "commit")
          /\ UNCHANGED <<tables, req, view, gone, put, cutA, cutT, tgt, orphans>>
      BY <1>5, <2>2 DEF WriteOne
    <3>3. Patched(r, e) \in Exec
      BY <3>2, SeenTyped, PatchedTyped DEF TypeInv
    <3> QED
      BY <3>1, <3>2, <3>3, WriteTyped, GotoTyped DEF TypeInv, TypeOK
  <2> QED
    BY <2>1, <2>2
<1>6. CASE Remove(r)
  <2>1. CASE Abort(r)
    BY <2>1, AbortTyped
  <2>2. CASE ~ Abort(r)
    <3>1. /\ req[r].exec \in Ids(execs)
          /\ gone' = [gone EXCEPT ![r] = @ \cup {req[r].exec}]
          /\ Goto(r, IF req[r].primary /\ Remaining(r) # {} THEN "promote" ELSE "commit")
          /\ UNCHANGED <<tables, req, view, upd, put, cutA, cutT, tgt, orphans>>
      BY <1>6, <2>2 DEF Remove
    <3>2. req[r].exec \in 1..MaxId /\ req[r].op = "remove"
      BY <1>6, <3>1, IdsTyped DEF Remove, TypeInv, TypeOK, PcOK
    <3>3. gone' \in [Requests -> SUBSET (1..MaxId)]
      BY <3>1, <3>2 DEF TypeInv, TypeOK
    <3> QED
      BY <3>1, <3>2, <3>3, GotoTyped DEF TypeInv, TypeOK
  <2> QED
    BY <2>1, <2>2
<1>7. CASE Promote(r)
  <2>1. CASE Abort(r)
    BY <2>1, AbortTyped
  <2>2. CASE ~ Abort(r)
    <3>1. PICK p \in Oldest(r) :
            /\ \E e \in Latest(p.id, r) : Write(r, [e EXCEPT !.primary = TRUE])
            /\ Goto(r, "commit")
            /\ UNCHANGED <<tables, req, view, gone, put, cutA, cutT, tgt, orphans>>
      BY <1>7, <2>2 DEF Promote
    <3>2. PICK e \in Latest(p.id, r) : Write(r, [e EXCEPT !.primary = TRUE])
      BY <3>1
    <3>3. e \in Exec
      BY SeenTyped DEF TypeInv
    <3>4. [e EXCEPT !.primary = TRUE] \in Exec
      BY <3>3 DEF Exec
    <3> QED
      BY <3>1, <3>2, <3>4, WriteTyped, GotoTyped DEF TypeInv, TypeOK
  <2> QED
    BY <2>1, <2>2
<1>8. CASE PutTrade(r)
  <2> DEFINE x == [id |-> req[r].trade, plan |-> req[r].plan]
             w == IF req[r].primary THEN Ids(view[r]) ELSE {}
  <2>1. CASE Abort(r)
    BY <2>1, AbortTyped
  <2>2. CASE ~ Abort(r)
    <3>1. /\ put' = [put EXCEPT ![r] = {x}] /\ tgt' = [tgt EXCEPT ![r] = w]
          /\ Goto(r, IF req[r].primary THEN "rewrite" ELSE "commit")
          /\ UNCHANGED <<tables, req, view, upd, gone, cutA, cutT, orphans>>
      BY <1>8, <2>2 DEF PutTrade
    <3>2. req[r].op = "update"
      BY <1>8 DEF PutTrade, TypeInv, PcOK
    <3>3. x \in Trade
      BY <3>2 DEF TypeInv, ReqOK, Trade, AllOps
    <3>4. w \in SUBSET (1..MaxId)
      BY IdsTyped DEF TypeInv, TypeOK
    <3>5. put' \in [Requests -> SUBSET Trade] /\ tgt' \in [Requests -> SUBSET (1..MaxId)]
      BY <3>1, <3>3, <3>4 DEF TypeInv, TypeOK
    <3> HIDE DEF x, w
    <3> QED
      BY <3>1, <3>2, <3>5, GotoTyped DEF TypeInv, TypeOK
  <2> QED
    BY <2>1, <2>2
<1>9. CASE Rewrite(r)
  <2>1. CASE Abort(r)
    BY <2>1, AbortTyped
  <2>2. CASE ~ Abort(r)
    <3>1. PICK v \in NextLoaded(r) :
            /\ \E e \in Latest(v.id, r) :
                 Write(r, [e EXCEPT !.metrics = [plan |-> req[r].plan, price |-> v.price]])
            /\ tgt' = [tgt EXCEPT ![r] = @ \ {v.id}]
            /\ UNCHANGED <<tables, pc, req, view, gone, put, cutA, cutT, orphans>>
      BY <1>9, <2>2 DEF Rewrite
    <3>2. PICK e \in Latest(v.id, r) :
            Write(r, [e EXCEPT !.metrics = [plan |-> req[r].plan, price |-> v.price]])
      BY <3>1
    <3>3. e \in Exec /\ v.price \in Prices
      BY SeenTyped DEF NextLoaded, TypeInv, TypeOK, Exec
    <3>4. req[r].plan \in Plans
      BY <1>9 DEF Rewrite, TypeInv, PcOK, ReqOK
    <3>5. [e EXCEPT !.metrics = [plan |-> req[r].plan, price |-> v.price]] \in Exec
      BY <3>3, <3>4 DEF Exec, Basis
    <3>6. upd' \in [Requests -> SUBSET Exec]
      BY <3>2, <3>5, WriteTyped DEF TypeInv
    <3> QED
      BY <3>1, <3>6 DEF TypeInv, TypeOK, ReqOK, PcOK, tables
  <2> QED
    BY <2>1, <2>2
<1>10. CASE Rewritten(r)
  BY <1>10, GotoTyped DEF Rewritten, TypeInv, TypeOK, txVars
<1>11. CASE DropTrade(r)
  <2>1. trades' \subseteq Trade /\ execs' \subseteq Exec
    BY <1>11 DEF DropTrade, TypeInv, TypeOK
  <2> QED
    BY <1>11, <2>1, ResetTyped DEF DropTrade, TypeInv, TypeOK
<1>12. CASE DropAccount(r)
  <2> DEFINE a == req[r].acct
             g == Ids({e \in execs : e.acct = a})
  <2>1. CASE Abort(r)
    BY <2>1, AbortTyped
  <2>2. CASE ~ Abort(r)
    <3>1. /\ cutA' = [cutA EXCEPT ![r] = {a}] /\ gone' = [gone EXCEPT ![r] = g]
          /\ a \in accts
          /\ Goto(r, IF orphans[r] = {} THEN "commit" ELSE "sweep")
          /\ UNCHANGED <<tables, req, view, upd, put, cutT, tgt, orphans>>
      BY <1>12, <2>2 DEF DropAccount
    <3>2. a \in Accounts
      BY <3>1 DEF TypeInv, TypeOK
    <3>3. g \in SUBSET (1..MaxId)
      BY IdsTyped DEF TypeInv, TypeOK
    <3> HIDE DEF a, g
    <3>4. cutA' \in [Requests -> SUBSET Accounts] /\ gone' \in [Requests -> SUBSET (1..MaxId)]
      BY <3>1, <3>2, <3>3 DEF TypeInv, TypeOK
    <3> QED
      BY <3>1, <3>4, GotoTyped DEF TypeInv, TypeOK
  <2> QED
    BY <2>1, <2>2
<1>13. CASE Sweep(r)
  <2>1. orphans' \in [Requests -> SUBSET Trades]
    BY <1>13 DEF Sweep, TypeInv, TypeOK
  <2> QED
    BY <1>13, <2>1, GotoTyped DEF Sweep, TypeInv, TypeOK, txVars
<1>14. CASE Cut(r)
  <2>1. Ids({e \in execs : e.trade \in orphans[r]}) \in SUBSET (1..MaxId)
    BY IdsTyped DEF TypeInv, TypeOK
  <2>2. cutT' \in [Requests -> SUBSET Trades] /\ gone' \in [Requests -> SUBSET (1..MaxId)]
    BY <1>14, <2>1 DEF Cut, TypeInv, TypeOK
  <2> QED
    BY <1>14, <2>2, GotoTyped DEF Cut, TypeInv, TypeOK
<1>15. CASE Commit(r)
  <2>1. execs' \subseteq Exec
    BY <1>15, SeenTyped DEF Commit, TypeInv
  <2>2. trades' \subseteq Trade /\ accts' \subseteq Accounts
    BY <1>15 DEF Commit, TypeInv, TypeOK
  <2> QED
    BY <1>15, <2>1, <2>2, ResetTyped DEF Commit
<1> QED
  BY <1>1, <1>2, <1>3, <1>4, <1>5, <1>6, <1>7, <1>8, <1>9, <1>10, <1>11, <1>12, <1>13,
     <1>14, <1>15 DEF Statement

LEMMA TypeStep == TypeInv /\ [Next]_vars => TypeInv'
<1> SUFFICES ASSUME TypeInv, [Next]_vars PROVE TypeInv'
  OBVIOUS
<1>1. ASSUME NEW r \in Requests, TimedOut(r) PROVE TypeInv'
  BY <1>1, AbortTyped DEF TimedOut
<1>2. CASE UNCHANGED vars
  BY <1>2 DEF vars, tables, txVars, TypeInv, TypeOK, ReqOK, PcOK
<1> QED
  BY <1>1, <1>2, RequestTyped, StatementTyped DEF Next, Quiet

(* No statement, rollback or new request leaves the types of the book's    *)
(* variables, whatever the requests ask for.                               *)
THEOREM TypeCorrect == Spec => []TypeOK
<1>1. Spec => []TypeInv
  BY TypeInit, TypeStep, PTL DEF Spec
<1>2. TypeInv => TypeOK
  BY DEF TypeInv
<1> QED
  BY <1>1, <1>2, PTL

-------------------------------------------------------------------------------
(* Ids and ideas that only the request that was given them may use: the    *)
(* ids it will insert, and the idea it will create.                        *)
Reserved(r) == IF req[r].op = "add" THEN {req[r].exec}
               ELSE IF req[r].op = "create" THEN Ids(view[r]) ELSE {}
UsedIds ==
  /\ \A e \in execs : e.id < nextId
  /\ \A r \in Requests :
       /\ req[r].exec < nextId
       /\ \A id \in Held(r) \cup Ids(view[r]) : id < nextId
FreshIds ==
  \A r \in Requests : \A id \in Reserved(r) :
    /\ id \notin Ids(execs)
    /\ \A q \in Others(r) : id \notin Held(q) \cup Reserved(q) /\ id # req[q].exec
KnownIdeas ==
  /\ \A x \in trades : x.id \in made
  /\ \A e \in execs : e.trade \in made
  /\ \A r \in Requests :
       /\ req[r].trade \in made \cup {None}
       /\ \A e \in upd[r] : e.trade \in made
       /\ \A x \in put[r] : x.id \in made
FreshIdeas ==
  \A r \in Requests : req[r].op = "create" =>
    /\ \A x \in trades : x.id # req[r].trade
    /\ \A e \in execs : e.trade # req[r].trade
    /\ \A q \in Others(r) : /\ req[q].trade # req[r].trade
                            /\ \A e \in upd[q] : e.trade # req[r].trade
                            /\ \A x \in put[q] : x.id # req[r].trade

(* A fill never changes its idea, whoever's version of it one looks at.    *)
Versions == {e \in Exec : e \in execs \/ \E r \in Requests : e \in upd[r] \cup view[r]}
SameIdea ==
  /\ \A e, f \in Versions : e.id = f.id => e.trade = f.trade
  /\ \A r \in Requests : \A e \in Versions : e.id = req[r].exec => e.trade = req[r].trade
  /\ \A r \in Requests : \A e \in view[r] : e.trade = req[r].trade

(* Where a step replaces what the request has loaded or written, there is  *)
(* nothing to lose; a new idea has one primary fill.                       *)
Unwritten == \A r \in Requests :
               /\ pc[r] \in {"idle", "dropAccount"} => upd[r] = {}
               /\ pc[r] = "idle" => view[r] = {}
OneMarked == \A r \in Requests : req[r].op = "create" =>
               \A e, f \in view[r] : e.primary /\ f.primary => e = f

BookInv == UsedIds /\ FreshIds /\ KnownIdeas /\ FreshIdeas /\ SameIdea
           /\ Unwritten /\ OneMarked
HubInv  == TypeInv /\ BookInv /\ PrimaryInv

(* A reserved id is an id; every version of that fill is of its idea.      *)
LEMMA ReservedIdea ==
  ASSUME TypeInv, SameIdea, NEW r \in Requests, NEW id \in Reserved(r)
  PROVE  /\ id \in 1..MaxId
         /\ \A g \in Versions : g.id = id => g.trade = req[r].trade
<1>1. CASE req[r].op = "add"
  BY <1>1 DEF Reserved, SameIdea, TypeInv, ReqOK
<1>2. CASE req[r].op = "create" /\ req[r].op # "add"
  <2>1. PICK v \in view[r] : v.id = id
    BY <1>2 DEF Reserved, Ids
  <2>2. v \in Versions /\ v \in Exec
    BY DEF TypeInv, TypeOK, Versions
  <2> QED
    BY <2>1, <2>2 DEF SameIdea, Exec
<1> QED
  BY <1>1, <1>2 DEF Reserved

LEMMA BookInit == Init => BookInv
<1> SUFFICES ASSUME Init PROVE BookInv
  OBVIOUS
<1>1. PICK s \in Seeds : /\ trades = s.trades /\ execs = s.execs /\ nextId = s.nextId
                         /\ made = {t.id : t \in s.trades}
  BY DEF Init
<1>2. /\ \A e \in execs : e.id < nextId /\ e.id \in 1..MaxId
      /\ \A e \in execs : \E t \in trades : t.id = e.trade
      /\ \A e, f \in execs : e.id = f.id => e = f
      /\ nextId > 0
  BY <1>1, SeedsAssumption DEF Exec
<1>3. \A r \in Requests : /\ req[r] = NoReq /\ view[r] = {} /\ upd[r] = {} /\ put[r] = {}
                          /\ gone[r] = {}
  BY DEF Init
<1>4. NoReq.exec = 0 /\ NoReq.op = "none" /\ NoReq.trade = None
  BY DEF NoReq
<1>5. UsedIds
  BY <1>2, <1>3, <1>4 DEF UsedIds, Held, Ids
<1>6. FreshIds /\ FreshIdeas /\ OneMarked /\ Unwritten
  BY <1>3, <1>4 DEF FreshIds, FreshIdeas, OneMarked, Unwritten, Reserved
<1>7. KnownIdeas
  BY <1>1, <1>2, <1>3, <1>4 DEF KnownIdeas
<1>8. SameIdea
  BY <1>2, <1>3, <1>4 DEF SameIdea, Versions
<1> QED
  BY <1>5, <1>6, <1>7, <1>8 DEF BookInv

(* The end of a request: what it leaves behind was there or it wrote it.   *)
LEMMA ResetBook ==
  ASSUME TypeInv, BookInv, NEW r \in Requests, Reset(r), UNCHANGED <<nextId, made>>,
         \A e \in execs' : e \in execs \/ e \in upd[r],
         \A x \in trades' : x \in trades \/ x \in put[r]
  PROVE  BookInv'
<1>1. \A x \in Requests : x # r =>
        /\ req'[x] = req[x] /\ view'[x] = view[x] /\ upd'[x] = upd[x] /\ put'[x] = put[x]
        /\ gone'[x] = gone[x] /\ pc'[x] = pc[x]
  BY DEF Reset, TypeInv, TypeOK
<1>2. /\ req'[r] = NoReq /\ view'[r] = {} /\ upd'[r] = {} /\ put'[r] = {} /\ gone'[r] = {}
      /\ NoReq.exec = 0 /\ NoReq.op = "none" /\ NoReq.trade = None
  BY DEF Reset, TypeInv, TypeOK, NoReq
<1>3. nextId > 0 /\ \A e \in Exec : e.id \in 1..MaxId
  BY DEF TypeInv, TypeOK, Exec
<1>4. UsedIds'
  BY <1>1, <1>2, <1>3 DEF BookInv, UsedIds, Held, Ids
<1>5. FreshIds'
  <2> SUFFICES ASSUME NEW q \in Requests, NEW id \in Reserved(q)'
               PROVE  /\ id \notin Ids(execs')
                      /\ \A x \in Others(q) : id \notin Held(x)' \cup Reserved(x)' /\ id # req'[x].exec
    BY DEF FreshIds, Others, Ids
  <2>1. q # r /\ id \in Reserved(q)
    BY <1>1, <1>2 DEF Reserved, Ids
  <2>2. /\ id \notin Ids(execs) /\ id \in 1..MaxId
        /\ \A x \in Others(q) : id \notin Held(x) \cup Reserved(x) /\ id # req[x].exec
    BY <2>1, ReservedIdea DEF BookInv, FreshIds
  <2>3. \A x \in Requests : x # r => Held(x)' = Held(x) /\ Reserved(x)' = Reserved(x)
    BY <1>1 DEF Held, Reserved, Ids
  <2>4. Held(r)' = {} /\ Reserved(r)' = {}
    BY <1>2 DEF Held, Reserved, Ids
  <2>5. r \in Others(q)
    BY <2>1 DEF Others
  <2>6. id \notin Ids(execs')
    BY <2>2, <2>5 DEF Ids, Held
  <2> QED
    BY <1>1, <1>2, <2>2, <2>3, <2>4, <2>6 DEF Others
<1>6. KnownIdeas'
  BY <1>1, <1>2 DEF BookInv, KnownIdeas
<1>7. FreshIdeas'
  <2>1. \A q \in Requests : req[q].op = "create" => req[q].trade # None
    BY OpsAssumption DEF TypeInv, ReqOK, AllOps
  <2>2. \A q \in Requests : req'[q].op = "create" => q # r
    BY <1>2
  <2>3. ASSUME NEW q \in Requests, req'[q].op = "create"
        PROVE  /\ \A x \in trades' : x.id # req'[q].trade
               /\ \A e \in execs' : e.trade # req'[q].trade
               /\ \A x \in Others(q) : req'[x].trade # req'[q].trade
               /\ \A x \in Others(q) : \A e \in upd'[x] : e.trade # req'[q].trade
               /\ \A x \in Others(q) : \A y \in put'[x] : y.id # req'[q].trade
    BY <1>1, <1>2, <2>1, <2>2, <2>3 DEF BookInv, FreshIdeas, Others
  <2> QED
    BY <2>3 DEF FreshIdeas, Others
<1>8. SameIdea'
  <2>1. \A e \in Versions' : e \in Versions /\ e.id # 0
    BY <1>1, <1>2, <1>3 DEF Versions
  <2> QED
    BY <1>1, <1>2, <2>1 DEF BookInv, SameIdea
<1>9. Unwritten' /\ OneMarked'
  BY <1>1, <1>2 DEF BookInv, Unwritten, OneMarked
<1> QED
  BY <1>4, <1>5, <1>6, <1>7, <1>8, <1>9 DEF BookInv

(* A statement that writes: only fills that exist, or whose ids it was     *)
(* given; and only its own idea.                                           *)
LEMMA WriteBook ==
  ASSUME TypeInv, TypeInv', BookInv, NEW r \in Requests,
         UNCHANGED <<execs, trades, nextId, made, req, view>>,
         pc'[r] \notin {"idle", "dropAccount"},
         \A x \in Requests : x # r => /\ upd'[x] = upd[x] /\ put'[x] = put[x]
                                     /\ gone'[x] = gone[x] /\ pc'[x] = pc[x],
         \A e \in upd'[r] : \/ \E f \in execs \cup upd[r] : f.id = e.id /\ f.trade = e.trade
                            \/ e.id \in Reserved(r) /\ e.trade = req[r].trade,
         gone'[r] \subseteq gone[r] \cup Ids(execs),
         \A x \in put'[r] : x \in put[r] \/ (x.id = req[r].trade /\ req[r].trade # None)
  PROVE  BookInv'
<1>1. \A id \in Held(r)' : id \in Held(r) \cup Ids(execs) \cup Reserved(r)
  BY DEF Held, Ids
<1>2. \A x \in Requests : x # r => Held(x)' = Held(x)
  BY DEF Held
<1>3. \A x \in Requests : Reserved(x)' = Reserved(x)
  BY DEF Reserved
<1>4. \A id \in Reserved(r) : id < nextId
  BY DEF BookInv, UsedIds, Reserved, Ids
<1>5. \A e \in upd'[r] : \/ \E f \in Versions : f.id = e.id /\ f.trade = e.trade
                         \/ e.id \in Reserved(r) /\ e.trade = req[r].trade
  BY DEF Versions, TypeInv, TypeOK
<1>6. UsedIds'
  <2>1. \A id \in Held(r)' : id < nextId
    BY <1>1, <1>4 DEF BookInv, UsedIds, Ids
  <2> QED
    BY <1>2, <2>1 DEF BookInv, UsedIds
<1>7. FreshIds'
  <2> SUFFICES ASSUME NEW q \in Requests, NEW id \in Reserved(q), NEW x \in Others(q)
               PROVE  id \notin Held(x)'
    BY <1>3 DEF BookInv, FreshIds, Others, Ids
  <2>1. /\ id \notin Ids(execs) /\ id \notin Held(x) \cup Reserved(x)
    BY DEF BookInv, FreshIds
  <2> QED
    BY <1>1, <1>2, <2>1 DEF Others
<1>8. \A e \in upd'[r] : e.trade \in made
  <2> SUFFICES ASSUME NEW e \in upd'[r] PROVE e.trade \in made
    OBVIOUS
  <2>1. e.trade # None
    BY OpsAssumption DEF TypeInv, TypeOK, Exec
  <2> QED
    BY <2>1 DEF BookInv, KnownIdeas
<1>9. KnownIdeas'
  BY <1>8 DEF BookInv, KnownIdeas
<1>10. FreshIdeas'
  BY DEF BookInv, FreshIdeas, Others
<1>11. SameIdea'
  <2>1. \A e \in Versions' : e \in Versions \/ e \in upd'[r]
    BY DEF Versions
  <2>2. \A e \in Versions' :
          \/ \E f \in Versions : f.id = e.id /\ f.trade = e.trade
          \/ e.id \in Reserved(r) /\ e.trade = req[r].trade
    BY <1>5, <2>1
  <2>3. \A id \in Reserved(r) : \A g \in Versions : g.id = id => g.trade = req[r].trade
    BY ReservedIdea DEF BookInv
  <2>4. \A e, f \in Versions' : e.id = f.id => e.trade = f.trade
    BY <2>2, <2>3 DEF BookInv, SameIdea
  <2>5. ASSUME NEW x \in Requests, NEW e \in Versions', e.id = req[x].exec
        PROVE  e.trade = req[x].trade
    <3>1. CASE \E f \in Versions : f.id = e.id /\ f.trade = e.trade
      BY <2>5, <3>1 DEF BookInv, SameIdea
    <3>2. CASE e.id \in Reserved(r) /\ e.trade = req[r].trade
      <4>1. x = r
        BY <2>5, <3>2 DEF BookInv, FreshIds, Others
      <4> QED
        BY <3>2, <4>1
    <3> QED
      BY <2>2, <3>1, <3>2
  <2> QED
    BY <2>4, <2>5 DEF BookInv, SameIdea
<1>12. Unwritten' /\ OneMarked'
  BY DEF BookInv, Unwritten, OneMarked
<1> QED
  BY <1>6, <1>7, <1>9, <1>10, <1>11, <1>12 DEF BookInv

(* A request that loads an idea, or none, and may be given one new id.     *)
LEMMA LoadBook ==
  ASSUME TypeInv, TypeInv', BookInv, NEW r \in Requests, NEW q, NEW at, Arrive(r, q, at),
         at # "idle", q.op # "create", q.trade = None \/ TradeLives(q.trade),
         NEW V \in SUBSET execs, \A e \in V : e.trade = q.trade,
         view' = [view EXCEPT ![r] = V], made' = made,
         \/ /\ q.op # "add" /\ nextId' = nextId
            /\ q.exec = 0 \/ \E e \in execs : e.id = q.exec /\ e.trade = q.trade
         \/ q.op = "add" /\ q.exec = nextId /\ nextId' = nextId + 1
  PROVE  BookInv'
<1>1. /\ \A x \in Requests : x # r => /\ req'[x] = req[x] /\ view'[x] = view[x] /\ pc'[x] = pc[x]
      /\ req'[r] = q /\ view'[r] = V
      /\ UNCHANGED <<accts, trades, execs, upd, gone, put, made>>
  BY DEF Arrive, TypeInv, TypeOK, txVars
<1>2. /\ upd[r] = {} /\ nextId \in Nat /\ nextId > 0 /\ nextId' \in {nextId, nextId + 1}
      /\ \A e \in execs : e.id < nextId /\ e.id \in 1..MaxId
      /\ \A x \in Requests : \A e \in view[x] \cup upd[x] : e.id < nextId /\ e.id \in 1..MaxId
  BY DEF Arrive, BookInv, Unwritten, UsedIds, Held, Ids, TypeInv, TypeOK, Exec
<1>3. \A x \in Requests : Held(x)' = Held(x) /\ (x # r => Reserved(x)' = Reserved(x))
  BY <1>1 DEF Held, Ids, Reserved
<1>4. Reserved(r)' = IF q.op = "add" THEN {nextId} ELSE {}
  BY <1>1 DEF Reserved
<1>5. UsedIds'
  <2>1. \A id \in Ids(V) : id < nextId
    BY <1>2 DEF Ids
  <2>2. q.exec < nextId'
    BY <1>2
  <2>3. \A x \in Requests : Ids(view[x])' = IF x = r THEN Ids(V) ELSE Ids(view[x])
    BY <1>1 DEF Ids
  <2>4. \A x \in Requests : /\ req[x].exec < nextId /\ req[x].exec \in Nat
                            /\ \A id \in Held(x) \cup Ids(view[x]) : id < nextId /\ id \in Nat
    <3>1. \A x \in Requests : Held(x) \subseteq 1..MaxId /\ Ids(view[x]) \subseteq 1..MaxId
      BY IdsTyped DEF TypeInv, TypeOK, Held
    <3>2. \A x \in Requests : req[x].exec \in Nat
      BY DEF TypeInv, TypeOK, Request
    <3> QED
      BY <3>1, <3>2 DEF BookInv, UsedIds
  <2>5. \A id \in Nat : id < nextId => id < nextId'
    BY <1>2
  <2>6. \A id \in Ids(V) : id \in Nat
    BY <1>2 DEF Ids
  <2>7. \A x \in Requests : /\ req'[x].exec < nextId'
                            /\ \A id \in Held(x)' \cup Ids(view[x])' : id < nextId'
    BY <1>1, <1>3, <2>1, <2>2, <2>3, <2>4, <2>5, <2>6
  <2>8. \A e \in execs' : e.id < nextId'
    BY <1>1, <1>2
  <2> QED
    BY <2>7, <2>8 DEF UsedIds, Held, Ids
<1>6. \A x \in Requests : \A id \in Held(x) \cup Reserved(x) : id < nextId
  BY DEF BookInv, UsedIds, Reserved
<1>7. FreshIds'
  <2>1. \A x \in Others(r) : nextId \notin Held(x) \cup Reserved(x) /\ req[x].exec # nextId
    BY <1>2, <1>6 DEF BookInv, UsedIds, Others
  <2>2. nextId \notin Ids(execs)
    BY <1>2 DEF Ids
  <2>3. \A x \in Others(r) : \A id \in Reserved(x) :
          id \notin Ids(execs) /\ id # nextId /\ id \in 1..MaxId /\ id \notin Held(r)
    BY <2>1, ReservedIdea DEF BookInv, FreshIds, Others
  <2>4. q.exec \in Ids(execs) \cup {0, nextId}
    BY DEF Ids
  <2>5. ASSUME NEW x \in Requests, NEW id \in Reserved(x)', NEW y \in Others(x)
        PROVE  id \notin Ids(execs) /\ id \notin Held(y)' \cup Reserved(y)' /\ id # req'[y].exec
    <3>1. CASE x = r
      BY <1>1, <1>3, <1>4, <2>1, <2>2, <2>5, <3>1 DEF Others
    <3>2. CASE x # r /\ y = r
      BY <1>1, <1>3, <1>4, <2>3, <2>4, <2>5, <3>2 DEF Others
    <3>3. CASE x # r /\ y # r
      BY <1>1, <1>3, <2>5, <3>3 DEF BookInv, FreshIds, Others
    <3> QED
      BY <3>1, <3>2, <3>3
  <2>6. Requests = {} \/ \A x \in Requests : \A id \in Reserved(x)' : id \notin Ids(execs)
    <3>1. \A id \in Reserved(r)' : id \notin Ids(execs)
      BY <1>4, <2>2
    <3> QED
      BY <1>3, <2>3, <3>1 DEF Others
  <2>7. Ids(execs)' = Ids(execs)
    BY <1>1 DEF Ids
  <2> QED
    BY <2>5, <2>6, <2>7 DEF FreshIds, Others, Ids
<1>8. KnownIdeas'
  BY <1>1 DEF BookInv, KnownIdeas, TradeLives
<1>9. FreshIdeas'
  <2>1. \A x \in Requests : req[x].op = "create" => req[x].trade # q.trade
    BY OpsAssumption DEF BookInv, FreshIdeas, TradeLives, TypeInv, ReqOK, AllOps
  <2>2. ASSUME NEW x \in Requests, req'[x].op = "create"
        PROVE  /\ \A y \in trades' : y.id # req'[x].trade
               /\ \A e \in execs' : e.trade # req'[x].trade
               /\ \A y \in Others(x) : req'[y].trade # req'[x].trade
               /\ \A y \in Others(x) : \A e \in upd'[y] : e.trade # req'[x].trade
               /\ \A y \in Others(x) : \A z \in put'[y] : z.id # req'[x].trade
    BY <1>1, <2>1, <2>2 DEF BookInv, FreshIdeas, Others
  <2> QED
    BY <2>2 DEF FreshIdeas, Others
<1>10. SameIdea'
  <2>1. \A e \in Versions' : e \in Versions
    BY <1>1 DEF Versions
  <2>2. \A e \in execs : e \in Versions
    BY DEF Versions, TypeInv, TypeOK
  <2>3. \A e \in Versions : e.id = q.exec => e.trade = q.trade
    <3>1. \A e \in Versions : e.id # 0 /\ e.id # nextId
      BY <1>2 DEF Versions
    <3> QED
      BY <2>2, <3>1 DEF BookInv, SameIdea
  <2> QED
    BY <1>1, <2>1, <2>3 DEF BookInv, SameIdea
<1>11. Unwritten'
  BY <1>1, <1>2 DEF BookInv, Unwritten, Arrive, TypeInv, TypeOK
<1>12. OneMarked'
  BY <1>1 DEF BookInv, OneMarked
<1> QED
  BY <1>5, <1>7, <1>8, <1>9, <1>10, <1>11, <1>12 DEF BookInv

(* A request that is given a new idea and ids for its fills.               *)
LEMMA CreateBook ==
  ASSUME TypeInv, TypeInv', BookInv, NEW r \in Requests, CreateTrade(r)
  PROVE  BookInv'
<1>1. PICK t \in Trades \ made, a \in accts, b \in accts, plan \in Plans, p \in Prices,
           two \in BOOLEAN, marked \in 1..2 :
        LET n == IF two THEN 2 ELSE 1 IN
        /\ nextId + n <= MaxId + 1 /\ marked <= n
        /\ Arrive(r, [NoReq EXCEPT !.op = "create", !.trade = t, !.plan = plan], "createMany")
        /\ made' = made \cup {t}
        /\ nextId' = nextId + n
        /\ view' = [view EXCEPT ![r] =
             {NewFill(nextId, t, a, marked = 1, p, plan)}
             \cup (IF two THEN {NewFill(nextId + 1, t, b, marked = 2, p, plan)} ELSE {})]
        /\ UNCHANGED orphans
  BY DEF CreateTrade
<1> DEFINE n == IF two THEN 2 ELSE 1
           q == [NoReq EXCEPT !.op = "create", !.trade = t, !.plan = plan]
           f == NewFill(nextId, t, a, marked = 1, p, plan)
           g == NewFill(nextId + 1, t, b, marked = 2, p, plan)
           V == {f} \cup (IF two THEN {g} ELSE {})
<1>2. /\ q.op = "create" /\ q.trade = t /\ q.exec = 0
      /\ f.id = nextId /\ f.trade = t /\ f.primary = (marked = 1)
      /\ g.id = nextId + 1 /\ g.trade = t /\ g.primary = (marked = 2)
  BY DEF NoReq, NewFill
<1>3. /\ \A x \in Requests : x # r => /\ req'[x] = req[x] /\ view'[x] = view[x] /\ pc'[x] = pc[x]
      /\ req'[r] = q /\ view'[r] = V /\ pc'[r] = "createMany"
      /\ UNCHANGED <<accts, trades, execs, upd, gone, put>>
      /\ made' = made \cup {t} /\ nextId' = nextId + n /\ pc[r] = "idle"
  BY <1>1 DEF Arrive, TypeInv, TypeOK, txVars
<1> HIDE DEF q, f, g
<1>4. nextId \in Nat /\ nextId > 0 /\ n \in {1, 2} /\ nextId' > nextId
  BY <1>3 DEF TypeInv, TypeOK
<1>5. /\ upd[r] = {}
      /\ \A e \in execs : e.id < nextId /\ e.id \in 1..MaxId
      /\ \A x \in Requests : \A e \in view[x] \cup upd[x] : e.id < nextId /\ e.id \in 1..MaxId
  BY <1>3 DEF BookInv, Unwritten, UsedIds, Held, Ids, TypeInv, TypeOK, Exec
<1>6. \A e \in V : e.trade = t /\ e.id >= nextId /\ e.id \in Nat /\ e.id < nextId'
  BY <1>2, <1>3, <1>4
<1>7. \A e, h \in V : e.primary /\ h.primary => e = h
  <2>1. \A e \in V : e = f \/ e = g
    OBVIOUS
  <2>2. ~ (f.primary /\ g.primary)
    <3>1. (marked = 1) = FALSE \/ (marked = 2) = FALSE
      BY <1>1
    <3>2. f.primary = FALSE \/ g.primary = FALSE
      BY <1>2, <3>1
    <3> QED
      BY <3>2
  <2> QED
    BY <2>1, <2>2
<1> HIDE DEF V, n
<1>8. \A x \in Requests : Held(x)' = Held(x) /\ (x # r => Reserved(x)' = Reserved(x))
  BY <1>3 DEF Held, Ids, Reserved
<1>9. Reserved(r)' = Ids(V)
  BY <1>2, <1>3 DEF Reserved, Ids
<1>10. \A x \in Requests : /\ Held(x) \subseteq 1..MaxId /\ Ids(view[x]) \subseteq 1..MaxId
                           /\ req[x].exec \in Nat
  <2>1. \A x \in Requests : Held(x) \subseteq 1..MaxId /\ Ids(view[x]) \subseteq 1..MaxId
    BY IdsTyped DEF TypeInv, TypeOK, Held
  <2>2. \A x \in Requests : req[x].exec \in Nat
    BY DEF TypeInv, TypeOK, Request
  <2> QED
    BY <2>1, <2>2
<1>11. UsedIds'
  <2>1. \A id \in Nat : id < nextId => id < nextId'
    BY <1>3, <1>4
  <2>2. \A x \in Requests : Ids(view[x])' = IF x = r THEN Ids(V) ELSE Ids(view[x])
    BY <1>3 DEF Ids
  <2>3. \A id \in Ids(V) : id < nextId'
    BY <1>6 DEF Ids
  <2>4. \A x \in Requests : /\ req[x].exec < nextId /\ req[x].exec < nextId'
                            /\ \A id \in Held(x) \cup Ids(view[x]) : id < nextId'
    BY <1>10, <2>1 DEF BookInv, UsedIds
  <2>5. q.exec < nextId'
    BY <1>2, <1>3, <1>4
  <2>6. \A x \in Requests : /\ req'[x].exec < nextId'
                            /\ \A id \in Held(x)' \cup Ids(view[x])' : id < nextId'
    BY <1>3, <1>8, <2>2, <2>3, <2>4, <2>5
  <2>7. \A e \in execs' : e.id < nextId'
    BY <1>3, <1>5, <2>1
  <2> QED
    BY <2>6, <2>7 DEF UsedIds, Held, Ids
<1>12. FreshIds'
  <2>1. \A id \in Ids(V) : id >= nextId /\ id \in Nat
    BY <1>6 DEF Ids
  <2>2. \A id \in Ids(V) : id \notin Ids(execs)
    BY <1>5, <2>1, <1>4 DEF Ids
  <2>3. \A x \in Requests : \A id \in Held(x) \cup Reserved(x) : id < nextId /\ id \in 1..MaxId
    BY <1>10, ReservedIdea DEF BookInv, UsedIds, Reserved
  <2>4. \A x \in Others(r) : \A id \in Ids(V) :
          id \notin Held(x) \cup Reserved(x) /\ req[x].exec # id
    BY <1>4, <1>10, <2>1, <2>3 DEF BookInv, UsedIds, Others
  <2>5. ASSUME NEW x \in Requests, NEW id \in Reserved(x)', NEW y \in Others(x)
        PROVE  id \notin Held(y)' \cup Reserved(y)' /\ id # req'[y].exec
    <3>1. CASE x = r
      BY <1>3, <1>8, <1>9, <2>4, <2>5, <3>1 DEF Others
    <3>2. CASE x # r /\ y = r
      <4>1. id \in Reserved(x) /\ id \notin Held(r) /\ id < nextId /\ id \in 1..MaxId
        BY <1>8, <2>3, <2>5, <3>2 DEF BookInv, FreshIds, Others
      <4>2. id \notin Ids(V)
        BY <1>4, <2>1, <4>1
      <4> QED
        BY <1>2, <1>3, <1>8, <1>9, <3>2, <4>1, <4>2
    <3>3. CASE x # r /\ y # r
      BY <1>3, <1>8, <2>5, <3>3 DEF BookInv, FreshIds, Others
    <3> QED
      BY <3>1, <3>2, <3>3
  <2>6. \A x \in Requests : \A id \in Reserved(x)' : id \notin Ids(execs)
    BY <1>8, <1>9, <2>2 DEF BookInv, FreshIds
  <2>7. Ids(execs)' = Ids(execs)
    BY <1>3 DEF Ids
  <2> QED
    BY <2>5, <2>6, <2>7 DEF FreshIds, Others, Ids
<1>13. KnownIdeas'
  BY <1>2, <1>3 DEF BookInv, KnownIdeas
<1>14. FreshIdeas'
  <2>1. ASSUME NEW x \in Requests, req'[x].op = "create"
        PROVE  /\ \A y \in trades' : y.id # req'[x].trade
               /\ \A e \in execs' : e.trade # req'[x].trade
               /\ \A y \in Others(x) : req'[y].trade # req'[x].trade
               /\ \A y \in Others(x) : \A e \in upd'[y] : e.trade # req'[x].trade
               /\ \A y \in Others(x) : \A z \in put'[y] : z.id # req'[x].trade
    <3>1. t # None /\ t \notin made
      BY OpsAssumption
    <3>2. CASE x = r
      BY <1>2, <1>3, <3>1, <3>2 DEF BookInv, KnownIdeas, Others
    <3>3. CASE x # r
      <4>1. req[x].trade # None /\ req[x].trade # t
        BY <1>3, <2>1, <3>1, <3>3, OpsAssumption DEF BookInv, KnownIdeas, TypeInv, ReqOK, AllOps
      <4> QED
        BY <1>2, <1>3, <2>1, <3>3, <4>1 DEF BookInv, FreshIdeas, Others
    <3> QED
      BY <3>2, <3>3
  <2> QED
    BY <2>1 DEF FreshIdeas, Others
<1>15. SameIdea'
  <2>1. \A e \in Versions' : e \in Versions \/ e \in V
    BY <1>3 DEF Versions
  <2>2. \A e \in Versions : e.id < nextId /\ e.id \in 1..MaxId
    BY <1>5 DEF Versions
  <2>3. \A e, h \in Versions' : e.id = h.id => e.trade = h.trade
    BY <1>4, <1>6, <2>1, <2>2 DEF BookInv, SameIdea
  <2>4. \A e \in Versions' : e.id # 0
    BY <1>4, <1>6, <2>1, <2>2
  <2>5. ASSUME NEW x \in Requests, NEW e \in Versions', e.id = req'[x].exec
        PROVE  e.trade = req'[x].trade
    <3>1. x # r
      BY <1>2, <1>3, <2>4, <2>5
    <3>2. e.id < nextId
      BY <1>3, <2>5, <3>1 DEF BookInv, UsedIds
    <3>3. e \in Versions
      BY <1>4, <1>6, <2>1, <3>2
    <3> QED
      BY <1>3, <2>5, <3>1, <3>3 DEF BookInv, SameIdea
  <2> QED
    BY <1>2, <1>3, <1>6, <2>3, <2>5 DEF BookInv, SameIdea
<1>16. Unwritten' /\ OneMarked'
  BY <1>3, <1>5, <1>7 DEF BookInv, Unwritten, OneMarked
<1> QED
  BY <1>11, <1>12, <1>13, <1>14, <1>15, <1>16 DEF BookInv

(* A new request. *)
LEMMA RequestBook ==
  ASSUME TypeInv, TypeInv', BookInv, NEW r \in Requests, NewRequest(r)
  PROVE  BookInv'
<1>1. CASE CreateTrade(r)
  BY <1>1, CreateBook
<1>2. ASSUME NEW t \in Trades, NEW q, NEW at, q.trade = t, q.op \notin {"create", "add"},
             q.exec = 0 \/ \E e \in execs : e.id = q.exec /\ e.trade = t,
             at # "idle", Load(r, t), UNCHANGED nextId, Arrive(r, q, at)
      PROVE  BookInv'
  <2>1. Fills(t) \in SUBSET execs /\ \A e \in Fills(t) : e.trade = t
    BY DEF Fills
  <2> QED
    BY <1>2, <2>1, LoadBook DEF Load
<1>3. CASE UpdateTrade(r)
  <2>1. PICK t \in Trades, plan \in Plans :
          /\ Load(r, t) /\ UNCHANGED nextId
          /\ Arrive(r, [NoReq EXCEPT !.op = "update", !.trade = t, !.plan = plan,
                                     !.primary = (plan # PlanOf(t))], "putTrade")
    BY <1>3 DEF UpdateTrade
  <2> DEFINE q == [NoReq EXCEPT !.op = "update", !.trade = t, !.plan = plan,
                                !.primary = (plan # PlanOf(t))]
  <2>2. q.trade = t /\ q.op = "update" /\ q.exec = 0
    BY DEF NoReq
  <2> HIDE DEF q
  <2> QED
    BY <1>2, <2>1, <2>2 DEF q
<1>4. CASE DeleteTrade(r)
  <2>1. PICK t \in Trades :
          /\ Load(r, t) /\ UNCHANGED nextId
          /\ Arrive(r, [NoReq EXCEPT !.op = "delete", !.trade = t], "dropTrade")
    BY <1>4 DEF DeleteTrade
  <2> DEFINE q == [NoReq EXCEPT !.op = "delete", !.trade = t]
  <2>2. q.trade = t /\ q.op = "delete" /\ q.exec = 0
    BY DEF NoReq
  <2> HIDE DEF q
  <2> QED
    BY <1>2, <2>1, <2>2 DEF q
<1>5. CASE AddExecution(r)
  <2>1. PICK t \in Trades, a \in accts, p \in Prices, w \in BOOLEAN :
          /\ Load(r, t)
          /\ nextId <= MaxId /\ nextId' = nextId + 1
          /\ Arrive(r, [NoReq EXCEPT !.op = "add", !.trade = t, !.exec = nextId, !.acct = a,
                                     !.price = p, !.plan = PlanOf(t), !.primary = w],
                    IF w THEN "clear" ELSE "insert")
    BY <1>5 DEF AddExecution
  <2> DEFINE q == [NoReq EXCEPT !.op = "add", !.trade = t, !.exec = nextId, !.acct = a,
                                !.price = p, !.plan = PlanOf(t), !.primary = w]
             at == IF w THEN "clear" ELSE "insert"
  <2>2. q.trade = t /\ q.op = "add" /\ q.exec = nextId /\ at # "idle"
    BY DEF NoReq
  <2>3. Arrive(r, q, at)
    BY <2>1
  <2>4. Fills(t) \in SUBSET execs /\ \A e \in Fills(t) : e.trade = t
    BY DEF Fills
  <2> HIDE DEF q, at
  <2> QED
    BY <2>1, <2>2, <2>3, <2>4, LoadBook DEF Load
<1>6. CASE UpdateExecution(r)
  <2>1. PICK t \in Trades, e \in execs, a \in accts \cup {None}, p \in Prices, w \in BOOLEAN :
          /\ e.trade = t
          /\ Load(r, t) /\ UNCHANGED nextId
          /\ Arrive(r, [NoReq EXCEPT !.op = "edit", !.trade = t, !.exec = e.id, !.acct = a,
                                     !.price = p, !.plan = PlanOf(t),
                                     !.primary = (w /\ ~ e.primary)],
                    IF w /\ ~ e.primary THEN "clear" ELSE "write")
    BY <1>6 DEF UpdateExecution
  <2> DEFINE q == [NoReq EXCEPT !.op = "edit", !.trade = t, !.exec = e.id, !.acct = a,
                                !.price = p, !.plan = PlanOf(t),
                                !.primary = (w /\ ~ e.primary)]
             at == IF w /\ ~ e.primary THEN "clear" ELSE "write"
  <2>2. q.trade = t /\ q.op = "edit" /\ q.exec = e.id /\ at # "idle"
    BY DEF NoReq
  <2>3. Arrive(r, q, at)
    BY <2>1
  <2> HIDE DEF q, at
  <2> QED
    BY <1>2, <2>1, <2>2, <2>3
<1>7. CASE RemoveExecution(r)
  <2>1. PICK t \in Trades, e \in execs :
          /\ e.trade = t
          /\ Load(r, t) /\ UNCHANGED nextId
          /\ Arrive(r, [NoReq EXCEPT !.op = "remove", !.trade = t, !.exec = e.id,
                                     !.primary = e.primary], "remove")
    BY <1>7 DEF RemoveExecution
  <2> DEFINE q == [NoReq EXCEPT !.op = "remove", !.trade = t, !.exec = e.id,
                                !.primary = e.primary]
  <2>2. q.trade = t /\ q.op = "remove" /\ q.exec = e.id
    BY DEF NoReq
  <2> HIDE DEF q
  <2> QED
    BY <1>2, <2>1, <2>2 DEF q
<1>8. CASE SetPrimaryExecution(r)
  <2>1. PICK t \in Trades, e \in execs :
          /\ e.trade = t
          /\ Load(r, t) /\ UNCHANGED nextId
          /\ Arrive(r, [NoReq EXCEPT !.op = "setPrimary", !.trade = t, !.exec = e.id,
                                     !.primary = TRUE], "clear")
    BY <1>8 DEF SetPrimaryExecution
  <2> DEFINE q == [NoReq EXCEPT !.op = "setPrimary", !.trade = t, !.exec = e.id,
                                !.primary = TRUE]
  <2>2. q.trade = t /\ q.op = "setPrimary" /\ q.exec = e.id
    BY DEF NoReq
  <2> HIDE DEF q
  <2> QED
    BY <1>2, <2>1, <2>2 DEF q
<1>9. CASE DeleteAccount(r)
  <2>1. PICK a \in accts :
          /\ Arrive(r, [NoReq EXCEPT !.op = "deleteAccount", !.acct = a], "dropAccount")
          /\ UNCHANGED <<view, nextId, made>>
    BY <1>9 DEF DeleteAccount
  <2> DEFINE q == [NoReq EXCEPT !.op = "deleteAccount", !.acct = a]
  <2>2. q.trade = None /\ q.op = "deleteAccount" /\ q.exec = 0
    BY DEF NoReq
  <2>3. view[r] = {}
    BY <2>1 DEF Arrive, BookInv, Unwritten
  <2>4. view' = [view EXCEPT ![r] = {}]
    BY <2>1, <2>3 DEF TypeInv, TypeOK
  <2>5. Arrive(r, q, "dropAccount")
    BY <2>1
  <2> HIDE DEF q
  <2> QED
    BY <2>1, <2>2, <2>4, <2>5, LoadBook
<1> QED
  BY <1>1, <1>3, <1>4, <1>5, <1>6, <1>7, <1>8, <1>9 DEF NewRequest

(* Rolling back, and writing one fill.                                     *)
LEMMA AbortBook ==
  ASSUME TypeInv, BookInv, NEW r \in Requests, Abort(r)
  PROVE  BookInv'
BY ResetBook DEF Abort, tables

LEMMA WriteFillBook ==
  ASSUME TypeInv, TypeInv', BookInv, NEW r \in Requests, NEW n, Write(r, n),
         UNCHANGED <<tables, req, view, gone, put>>, pc'[r] \notin {"idle", "dropAccount"},
         \A x \in Requests : x # r => pc'[x] = pc[x],
         \/ \E e \in Mine(r) : n.id = e.id /\ n.trade = e.trade
         \/ n.id \in Reserved(r) /\ n.trade = req[r].trade
  PROVE  BookInv'
<1>1. \A x \in Requests : upd'[x] = IF x = r THEN {e \in upd[r] : e.id # n.id} \cup {n} ELSE upd[x]
  BY DEF Write, TypeInv, TypeOK
<1>2. \A e \in Mine(r) : e \in execs \cup upd[r]
  BY DEF Mine
<1>3. \A e \in upd'[r] : \/ \E f \in execs \cup upd[r] : f.id = e.id /\ f.trade = e.trade
                         \/ e.id \in Reserved(r) /\ e.trade = req[r].trade
  BY <1>1, <1>2
<1> QED
  BY <1>1, <1>3, WriteBook DEF tables

(* An edited fill keeps its id and its idea.                               *)
LEMMA PatchedSame ==
  ASSUME NEW r \in Requests, NEW e \in Exec
  PROVE  /\ Patched(r, e).id = e.id /\ Patched(r, e).trade = e.trade
         /\ Patched(r, e).primary = (e.primary \/ req[r].primary)
<1> DEFINE q == req[r]
           m == IF q.op = "edit" THEN [e EXCEPT !.price = q.price,
                                                !.metrics = [plan |-> q.plan, price |-> q.price]]
                                 ELSE e
<1>1. m.id = e.id /\ m.trade = e.trade /\ m.primary = e.primary
  BY DEF Exec
<1>2. /\ m = [id |-> m.id, trade |-> m.trade, acct |-> m.acct, primary |-> m.primary,
             price |-> m.price, metrics |-> m.metrics]
  BY DEF Exec
<1>3. Patched(r, e) = [m EXCEPT !.primary = m.primary \/ q.primary,
                                !.acct = IF q.acct = None THEN m.acct ELSE q.acct]
  BY DEF Patched
<1> HIDE DEF m
<1> QED
  BY <1>1, <1>2, <1>3

LEMMA GotoElsewhere ==
  ASSUME TypeOK, NEW r \in Requests, NEW at, Goto(r, at)
  PROVE  pc'[r] = at /\ \A x \in Requests : x # r => pc'[x] = pc[x]
BY DEF Goto, TypeOK

(* A statement of a transaction, or its rollback. *)
LEMMA StatementBook ==
  ASSUME TypeInv, TypeInv', BookInv, NEW r \in Requests, Statement(r)
  PROVE  BookInv'
<1>0. TypeOK
  BY DEF TypeInv
<1>1. CASE CreateMany(r)
  <2>1. CASE Abort(r)
    BY <2>1, AbortBook
  <2>2. CASE ~ Abort(r)
    <3>1. /\ upd' = [upd EXCEPT ![r] = view[r]]
          /\ put' = [put EXCEPT ![r] = {[id |-> req[r].trade, plan |-> req[r].plan]}]
          /\ Goto(r, "commit")
          /\ UNCHANGED <<tables, req, view, gone, cutA, cutT, tgt, orphans>>
      BY <1>1, <2>2 DEF CreateMany
    <3>2. req[r].op = "create" /\ req[r].trade # None
      BY <1>1, OpsAssumption DEF CreateMany, TypeInv, ReqOK, PcOK, AllOps
    <3>3. \A e \in view[r] : e.id \in Reserved(r) /\ e.trade = req[r].trade
      BY <3>2 DEF Reserved, Ids, BookInv, SameIdea
    <3>4. upd'[r] = view[r] /\ \A x \in put'[r] : x.id = req[r].trade
      BY <1>0, <3>1 DEF TypeOK
    <3>5. \A x \in Requests : x # r => upd'[x] = upd[x] /\ put'[x] = put[x]
      BY <1>0, <3>1 DEF TypeOK
    <3> QED
      BY <1>0, <3>1, <3>2, <3>3, <3>4, <3>5, GotoElsewhere, WriteBook DEF tables
  <2> QED
    BY <2>1, <2>2
<1>2. CASE Clear(r)
  BY <1>0, <1>2, GotoElsewhere, WriteBook DEF Clear, tables, txVars
<1>3. CASE Clearing(r)
  <2>1. /\ upd' = [upd EXCEPT ![r] =
              {[e EXCEPT !.primary = FALSE] : e \in {f \in execs : f.id \in tgt[r] /\ f.primary}}]
        /\ Goto(r, IF req[r].op = "add" THEN "insert" ELSE "write")
        /\ UNCHANGED <<tables, req, view, gone, put, cutA, cutT, orphans>>
    BY <1>3 DEF Clearing
  <2>2. \A e \in execs : /\ [e EXCEPT !.primary = FALSE].id = e.id
                         /\ [e EXCEPT !.primary = FALSE].trade = e.trade
    BY <1>0 DEF TypeOK, Exec
  <2> DEFINE S == {[e EXCEPT !.primary = FALSE] : e \in {f \in execs : f.id \in tgt[r] /\ f.primary}}
  <2>3. \A n \in upd'[r] : \E f \in execs : f.id = n.id /\ f.trade = n.trade
    <3>1. \A n \in S : \E f \in execs : f.id = n.id /\ f.trade = n.trade
      BY <2>2
    <3>2. upd' = [upd EXCEPT ![r] = S]
      BY <2>1
    <3> HIDE DEF S
    <3> QED
      BY <1>0, <3>1, <3>2 DEF TypeOK
  <2>4. \A x \in Requests : x # r => upd'[x] = upd[x]
    BY <1>0, <2>1 DEF TypeOK
  <2>5. /\ pc'[r] \notin {"idle", "dropAccount"}
        /\ \A x \in Requests : x # r => pc'[x] = pc[x]
    BY <1>0, <2>1, GotoElsewhere
  <2>6. UNCHANGED <<execs, trades, nextId, made, req, view, gone, put>>
    BY <2>1 DEF tables
  <2> QED
    BY <2>3, <2>4, <2>5, <2>6, WriteBook
<1>4. CASE Insert(r)
  <2> DEFINE q == req[r]
             n == NewFill(q.exec, q.trade, q.acct, q.primary, q.price, q.plan)
  <2>1. CASE Abort(r)
    BY <2>1, AbortBook
  <2>2. CASE ~ Abort(r)
    <3>1. /\ Write(r, n) /\ Goto(r, "commit")
          /\ UNCHANGED <<tables, req, view, gone, put, cutA, cutT, tgt, orphans>>
      BY <1>4, <2>2 DEF Insert
    <3>2. n.id \in Reserved(r) /\ n.trade = q.trade
      BY <1>4 DEF Insert, TypeInv, PcOK, Reserved, NewFill
    <3> QED
      BY <1>0, <3>1, <3>2, GotoElsewhere, WriteFillBook
  <2> QED
    BY <2>1, <2>2
<1>5. CASE WriteOne(r)
  <2>1. CASE Abort(r)
    BY <2>1, AbortBook
  <2>2. CASE ~ Abort(r)
    <3>1. PICK e \in Latest(req[r].exec, r) : Write(r, Patched(r, e))
      BY <1>5, <2>2 DEF WriteOne
    <3>2. /\ Goto(r, "commit")
          /\ UNCHANGED <<tables, req, view, gone, put, cutA, cutT, tgt, orphans>>
      BY <1>5, <2>2 DEF WriteOne
    <3>3. e \in Mine(r) /\ e \in Exec
      BY <1>0, SeenTyped DEF Latest
    <3>4. Patched(r, e).id = e.id /\ Patched(r, e).trade = e.trade
      BY <3>3, PatchedSame
    <3> QED
      BY <1>0, <3>1, <3>2, <3>3, <3>4, GotoElsewhere, WriteFillBook
  <2> QED
    BY <2>1, <2>2
<1>6. CASE Remove(r)
  <2>1. CASE Abort(r)
    BY <2>1, AbortBook
  <2>2. CASE ~ Abort(r)
    <3>1. /\ req[r].exec \in Ids(execs)
          /\ gone' = [gone EXCEPT ![r] = @ \cup {req[r].exec}]
          /\ Goto(r, IF req[r].primary /\ Remaining(r) # {} THEN "promote" ELSE "commit")
          /\ UNCHANGED <<tables, req, view, upd, put, cutA, cutT, tgt, orphans>>
      BY <1>6, <2>2 DEF Remove
    <3>2. /\ gone'[r] \subseteq gone[r] \cup Ids(execs)
          /\ \A x \in Requests : x # r => gone'[x] = gone[x]
      BY <1>0, <3>1 DEF TypeOK
    <3> QED
      BY <1>0, <3>1, <3>2, GotoElsewhere, WriteBook DEF tables
  <2> QED
    BY <2>1, <2>2
<1>7. CASE Promote(r)
  <2>1. CASE Abort(r)
    BY <2>1, AbortBook
  <2>2. CASE ~ Abort(r)
    <3>1. PICK p \in Oldest(r) :
            /\ \E e \in Latest(p.id, r) : Write(r, [e EXCEPT !.primary = TRUE])
            /\ Goto(r, "commit")
            /\ UNCHANGED <<tables, req, view, gone, put, cutA, cutT, tgt, orphans>>
      BY <1>7, <2>2 DEF Promote
    <3>2. PICK e \in Latest(p.id, r) : Write(r, [e EXCEPT !.primary = TRUE])
      BY <3>1
    <3>3. e \in Mine(r) /\ e \in Exec
      BY <1>0, SeenTyped DEF Latest
    <3>4. [e EXCEPT !.primary = TRUE].id = e.id /\ [e EXCEPT !.primary = TRUE].trade = e.trade
      BY <3>3 DEF Exec
    <3> QED
      BY <1>0, <3>1, <3>2, <3>3, <3>4, GotoElsewhere, WriteFillBook
  <2> QED
    BY <2>1, <2>2
<1>8. CASE PutTrade(r)
  <2>1. CASE Abort(r)
    BY <2>1, AbortBook
  <2>2. CASE ~ Abort(r)
    <3>1. /\ put' = [put EXCEPT ![r] = {[id |-> req[r].trade, plan |-> req[r].plan]}]
          /\ Goto(r, IF req[r].primary THEN "rewrite" ELSE "commit")
          /\ UNCHANGED <<tables, req, view, upd, gone, cutA, cutT, orphans>>
      BY <1>8, <2>2 DEF PutTrade
    <3>2. req[r].trade # None
      BY <1>8, OpsAssumption DEF PutTrade, TypeInv, PcOK, ReqOK, AllOps
    <3>3. /\ \A x \in put'[r] : x.id = req[r].trade
          /\ \A x \in Requests : x # r => put'[x] = put[x]
      BY <1>0, <3>1 DEF TypeOK
    <3> QED
      BY <1>0, <3>1, <3>2, <3>3, GotoElsewhere, WriteBook DEF tables
  <2> QED
    BY <2>1, <2>2
<1>9. CASE Rewrite(r)
  <2>1. CASE Abort(r)
    BY <2>1, AbortBook
  <2>2. CASE ~ Abort(r)
    <3>1. PICK v \in NextLoaded(r) :
            /\ \E e \in Latest(v.id, r) :
                 Write(r, [e EXCEPT !.metrics = [plan |-> req[r].plan, price |-> v.price]])
            /\ UNCHANGED <<tables, pc, req, view, gone, put, cutA, cutT, orphans>>
      BY <1>9, <2>2 DEF Rewrite
    <3>2. PICK e \in Latest(v.id, r) :
            Write(r, [e EXCEPT !.metrics = [plan |-> req[r].plan, price |-> v.price]])
      BY <3>1
    <3> DEFINE n == [e EXCEPT !.metrics = [plan |-> req[r].plan, price |-> v.price]]
    <3>3. e \in Mine(r) /\ e \in Exec
      BY <1>0, SeenTyped DEF Latest
    <3>4. n.id = e.id /\ n.trade = e.trade
      BY <3>3 DEF Exec
    <3>5. pc[r] = "rewrite"
      BY <1>9 DEF Rewrite
    <3>6. Write(r, n)
      BY <3>2
    <3> HIDE DEF n
    <3> QED
      BY <3>1, <3>3, <3>4, <3>5, <3>6, WriteFillBook
  <2> QED
    BY <2>1, <2>2
<1>10. CASE Rewritten(r)
  BY <1>0, <1>10, GotoElsewhere, WriteBook DEF Rewritten, tables, txVars
<1>11. CASE DropTrade(r)
  BY <1>11, ResetBook DEF DropTrade
<1>12. CASE DropAccount(r)
  <2>1. CASE Abort(r)
    BY <2>1, AbortBook
  <2>2. CASE ~ Abort(r)
    <3>1. /\ gone' = [gone EXCEPT ![r] = Ids({e \in execs : e.acct = req[r].acct})]
          /\ Goto(r, IF orphans[r] = {} THEN "commit" ELSE "sweep")
          /\ UNCHANGED <<tables, req, view, upd, put, cutT, tgt, orphans>>
      BY <1>12, <2>2 DEF DropAccount
    <3>2. /\ gone'[r] \subseteq Ids(execs)
          /\ \A x \in Requests : x # r => gone'[x] = gone[x]
      BY <1>0, <3>1 DEF TypeOK, Ids
    <3> QED
      BY <1>0, <3>1, <3>2, GotoElsewhere, WriteBook DEF tables
  <2> QED
    BY <2>1, <2>2
<1>13. CASE Sweep(r)
  BY <1>0, <1>13, GotoElsewhere, WriteBook DEF Sweep, tables, txVars
<1>14. CASE Cut(r)
  <2>1. /\ gone'[r] \subseteq gone[r] \cup Ids(execs)
        /\ \A x \in Requests : x # r => gone'[x] = gone[x]
    BY <1>0, <1>14 DEF Cut, TypeOK, Ids
  <2> QED
    BY <1>0, <1>14, <2>1, GotoElsewhere, WriteBook DEF Cut, tables
<1>15. CASE Commit(r)
  BY <1>15, ResetBook DEF Commit, Mine
<1> QED
  BY <1>1, <1>2, <1>3, <1>4, <1>5, <1>6, <1>7, <1>8, <1>9, <1>10, <1>11, <1>12, <1>13,
     <1>14, <1>15 DEF Statement

LEMMA BookUntouched ==
  ASSUME BookInv, UNCHANGED vars
  PROVE  BookInv'
BY DEF vars, tables, txVars, BookInv, UsedIds, FreshIds, KnownIdeas, FreshIdeas, SameIdea,
       Unwritten, OneMarked, Reserved, Held, Ids, Versions, Others

-------------------------------------------------------------------------------
(* One primary fill per idea. *)

LEMMA PrimaryInit == Init => PrimaryInv
<1> SUFFICES ASSUME Init PROVE PrimaryInv
  OBVIOUS
<1>1. AtMostOnePrimary
  BY SeedsAssumption DEF Init, AtMostOnePrimary
<1>2. \A r \in Requests : upd[r] = {} /\ gone[r] = {} /\ Held(r) = {}
  BY DEF Init, Held, Ids
<1> QED
  BY <1>1, <1>2 DEF PrimaryInv, PendingPrimaryAlone, FillLocksExclusive

LEMMA PrimaryUntouched ==
  ASSUME PrimaryInv, UNCHANGED <<execs, upd, gone>>
  PROVE  PrimaryInv'
BY DEF PrimaryInv, AtMostOnePrimary, AtMostOnePrimaryIn, PendingPrimaryAlone,
       FillLocksExclusive, Fills, Held, Ids

(* The end of a request: either fewer fills than before, or its version of *)
(* the table, in which its own primary fills are alone.                    *)
LEMMA PrimaryReset ==
  ASSUME TypeOK, PrimaryInv, NEW r \in Requests, Reset(r),
         execs' \subseteq execs \/ execs' = Mine(r)
  PROVE  PrimaryInv'
<1>1. \A x \in Requests : /\ upd'[x] = IF x = r THEN {} ELSE upd[x]
                          /\ Held(x)' = IF x = r THEN {} ELSE Held(x)
  BY DEF Reset, TypeOK, Held, Ids
<1>2. \A e \in execs' : \/ e \in execs /\ execs' \subseteq execs
                        \/ e \in execs /\ e.id \notin Held(r)
                        \/ e \in upd[r]
  BY DEF Mine
<1>3. AtMostOnePrimary'
  <2> SUFFICES ASSUME NEW e \in execs', NEW f \in execs', e.primary, f.primary, e.trade = f.trade
               PROVE  e = f
    BY DEF AtMostOnePrimary, AtMostOnePrimaryIn
  <2>1. CASE e \in execs /\ f \in execs
    BY <2>1 DEF PrimaryInv, AtMostOnePrimary, AtMostOnePrimaryIn
  <2>2. CASE e \in upd[r] /\ f \in upd[r]
    BY <2>2 DEF PrimaryInv, PendingPrimaryAlone
  <2>3. CASE e \in upd[r] /\ f \in execs /\ f.id \notin Held(r)
    BY <2>3 DEF PrimaryInv, PendingPrimaryAlone, Fills
  <2>4. CASE f \in upd[r] /\ e \in execs /\ e.id \notin Held(r)
    BY <2>4 DEF PrimaryInv, PendingPrimaryAlone, Fills
  <2> QED
    BY <1>2, <2>1, <2>2, <2>3, <2>4
<1>4. PendingPrimaryAlone'
  <2> SUFFICES ASSUME NEW x \in Requests, NEW p \in upd'[x], p.primary
               PROVE  /\ \A e \in execs' : e.trade = p.trade /\ e.primary => e.id \in Held(x)'
                      /\ \A q \in Requests : \A f \in upd'[q] :
                           f.primary /\ f.trade = p.trade => q = x /\ f = p
    BY DEF PendingPrimaryAlone, Fills
  <2>1. x # r /\ p \in upd[x] /\ Held(x)' = Held(x)
    BY <1>1
  <2>2. \A q \in Requests : \A f \in upd[q] : f.primary /\ f.trade = p.trade => q = x /\ f = p
    BY <2>1 DEF PrimaryInv, PendingPrimaryAlone
  <2>3. \A e \in execs : e.trade = p.trade /\ e.primary => e.id \in Held(x)
    BY <2>1 DEF PrimaryInv, PendingPrimaryAlone, Fills
  <2> QED
    BY <1>1, <1>2, <2>1, <2>2, <2>3
<1>5. FillLocksExclusive'
  BY <1>1 DEF PrimaryInv, FillLocksExclusive
<1> QED
  BY <1>3, <1>4, <1>5 DEF PrimaryInv

(* A statement that gives r new locks nobody has, and writes at most one   *)
(* fill that is primary and was not: it has waited for the others that     *)
(* could have one, and the unique check has found none of its own.         *)
LEMMA PrimaryWrite ==
  ASSUME TypeOK, PrimaryInv, NEW r \in Requests, NEW n, Write(r, n),
         UNCHANGED <<execs, gone>>, ~ Taken(n.id, r),
         n.primary => \/ \E e \in Mine(r) : e.id = n.id /\ e.trade = n.trade /\ e.primary
                      \/ ~ PrimaryBusy(n.trade, r) /\ ~ PrimaryRefused(n.trade, n.id, r)
  PROVE  PrimaryInv'
<1>1. \A x \in Requests : upd'[x] = IF x = r THEN {e \in upd[r] : e.id # n.id} \cup {n} ELSE upd[x]
  BY DEF Write, TypeOK
<1>2. \A x \in Requests : Held(x)' = IF x = r THEN Held(r) \cup {n.id} ELSE Held(x)
  BY <1>1, ZenonT(40) DEF Held, Ids
<1>3. \A x \in Requests : x # r => n.id \notin Held(x)
  BY DEF Taken, Others
<1>4. AtMostOnePrimary'
  BY DEF PrimaryInv, AtMostOnePrimary, AtMostOnePrimaryIn
<1>5. FillLocksExclusive'
  BY <1>2, <1>3 DEF PrimaryInv, FillLocksExclusive
<1>6. ASSUME n.primary
      PROVE  /\ \A e \in execs : e.trade = n.trade /\ e.primary => e.id \in Held(r) \cup {n.id}
             /\ \A x \in Requests : \A f \in upd[x] :
                  f.primary /\ f.trade = n.trade => x = r /\ f.id = n.id
  <2>1. CASE \E e \in Mine(r) : e.id = n.id /\ e.trade = n.trade /\ e.primary
    <3>1. PICK e \in Mine(r) : e.id = n.id /\ e.trade = n.trade /\ e.primary
      BY <2>1
    <3>2. CASE e \in upd[r]
      BY <3>1, <3>2 DEF PrimaryInv, PendingPrimaryAlone, Fills
    <3>3. CASE e \in execs /\ e.id \notin Held(r)
      <4>1. \A f \in execs : f.trade = n.trade /\ f.primary => f = e
        BY <3>1, <3>3 DEF PrimaryInv, AtMostOnePrimary, AtMostOnePrimaryIn
      <4>2. \A x \in Requests : \A f \in upd[x] : f.primary /\ f.trade = n.trade => e.id \in Held(x)
        BY <3>1, <3>3 DEF PrimaryInv, PendingPrimaryAlone, Fills
      <4> QED
        BY <1>3, <3>1, <3>3, <4>1, <4>2
    <3> QED
      BY <3>2, <3>3 DEF Mine
  <2>2. CASE ~ PrimaryBusy(n.trade, r) /\ ~ PrimaryRefused(n.trade, n.id, r)
    BY <2>2 DEF PrimaryBusy, PrimaryRefused, Mine, Others, Fills
  <2> QED
    BY <1>6, <2>1, <2>2
<1>7. PendingPrimaryAlone'
  <2> SUFFICES ASSUME NEW x \in Requests, NEW p \in upd'[x], p.primary
               PROVE  /\ \A e \in execs : e.trade = p.trade /\ e.primary => e.id \in Held(x)'
                      /\ \A q \in Requests : \A f \in upd'[q] :
                           f.primary /\ f.trade = p.trade => q = x /\ f = p
    BY DEF PendingPrimaryAlone, Fills
  <2>1. CASE x = r /\ p = n
    <3>1. n.primary
      BY <2>1
    <3>2. \A e \in execs : e.trade = n.trade /\ e.primary => e.id \in Held(r)'
      BY <1>2, <1>6, <3>1
    <3>3. \A q \in Requests : \A f \in upd'[q] : f.primary /\ f.trade = n.trade => q = r /\ f = n
      BY <1>1, <1>6, <3>1
    <3> QED
      BY <2>1, <3>2, <3>3
  <2>2. CASE p \in upd[x] /\ ~ (x = r /\ p = n)
    <3>1. /\ \A e \in execs : e.trade = p.trade /\ e.primary => e.id \in Held(x)
          /\ \A q \in Requests : \A f \in upd[q] :
               f.primary /\ f.trade = p.trade => q = x /\ f = p
      BY <2>2 DEF PrimaryInv, PendingPrimaryAlone, Fills
    <3>2. x = r => p.id # n.id
      BY <1>1, <2>2
    <3>3. n.primary => n.trade # p.trade
      BY <1>6, <2>2, <3>2
    <3> QED
      BY <1>1, <1>2, <3>1, <3>3
  <2> QED
    BY <1>1, <2>1, <2>2
<1> QED
  BY <1>4, <1>5, <1>7 DEF PrimaryInv

(* A statement that leaves r with no primary fill of its own making other  *)
(* than those it had, and with more locks nobody else has.                 *)
LEMMA PrimaryLocks ==
  ASSUME TypeOK, PrimaryInv, NEW r \in Requests, execs' = execs,
         \A x \in Requests : x # r => upd'[x] = upd[x] /\ gone'[x] = gone[x],
         \A id \in Held(r)' : id \in Held(r) \/ ~ Taken(id, r),
         \/ upd'[r] = upd[r] /\ Held(r) \subseteq Held(r)'
         \/ \A p \in upd'[r] : ~ p.primary
  PROVE  PrimaryInv'
<1>1. \A x \in Requests : x # r => Held(x)' = Held(x)
  BY DEF Held
<1>2. AtMostOnePrimary'
  BY DEF PrimaryInv, AtMostOnePrimary, AtMostOnePrimaryIn
<1>3. FillLocksExclusive'
  <2>1. \A x \in Requests : x # r => Held(r)' \cap Held(x) = {}
    BY DEF PrimaryInv, FillLocksExclusive, Taken, Others
  <2> QED
    BY <1>1, <2>1 DEF PrimaryInv, FillLocksExclusive
<1>4. PendingPrimaryAlone'
  BY <1>1 DEF PrimaryInv, PendingPrimaryAlone, Fills
<1> QED
  BY <1>2, <1>3, <1>4 DEF PrimaryInv

(* A new idea's fills and ids are known to its request only.               *)
LEMMA PrimaryCreate ==
  ASSUME TypeInv, BookInv, PrimaryInv, NEW r \in Requests, req[r].op = "create",
         execs' = execs, gone' = gone, upd' = [upd EXCEPT ![r] = view[r]]
  PROVE  PrimaryInv'
<1>1. \A x \in Requests : upd'[x] = IF x = r THEN view[r] ELSE upd[x]
  BY DEF TypeInv, TypeOK
<1>2. \A x \in Requests : /\ x # r => Held(x)' = Held(x)
                          /\ x = r => Held(x)' = Ids(view[r]) \cup gone[r]
  BY <1>1 DEF Held, Ids
<1>3. Reserved(r) = Ids(view[r])
  BY DEF Reserved
<1>4. \A x \in Requests : x # r => \A id \in Ids(view[r]) : id \notin Held(x)
  BY <1>3 DEF BookInv, FreshIds, Others
<1>5. AtMostOnePrimary'
  BY DEF PrimaryInv, AtMostOnePrimary, AtMostOnePrimaryIn
<1>6. FillLocksExclusive'
  <2>1. \A x, y \in Requests : x # y => gone[x] \cap Held(y) = {}
    BY DEF PrimaryInv, FillLocksExclusive, Held
  <2>2. \A x \in Requests : x # r => Held(r)' \cap Held(x) = {}
    BY <1>2, <1>4, <2>1
  <2> QED
    BY <1>2, <2>2 DEF PrimaryInv, FillLocksExclusive
<1>7. PendingPrimaryAlone'
  <2> SUFFICES ASSUME NEW x \in Requests, NEW p \in upd'[x], p.primary
               PROVE  /\ \A e \in execs : e.trade = p.trade /\ e.primary => e.id \in Held(x)'
                      /\ \A q \in Requests : \A f \in upd'[q] :
                           f.primary /\ f.trade = p.trade => q = x /\ f = p
    BY DEF PendingPrimaryAlone, Fills
  <2>1. \A v \in view[r] : v.trade = req[r].trade
    BY DEF BookInv, SameIdea
  <2>2. /\ \A e \in execs : e.trade # req[r].trade
        /\ \A q \in Requests : q # r => \A f \in upd[q] : f.trade # req[r].trade
    BY DEF BookInv, FreshIdeas, Others
  <2>3. CASE x = r
    <3>1. p \in view[r] /\ p.trade = req[r].trade
      BY <1>1, <2>1, <2>3
    <3>2. \A f \in view[r] : f.primary => f = p
      BY <3>1 DEF BookInv, OneMarked
    <3> QED
      BY <1>1, <2>2, <2>3, <3>1, <3>2
  <2>4. CASE x # r
    <3>1. p \in upd[x] /\ p.trade # req[r].trade /\ Held(x)' = Held(x)
      BY <1>1, <1>2, <2>2, <2>4
    <3>2. /\ \A e \in execs : e.trade = p.trade /\ e.primary => e.id \in Held(x)
          /\ \A q \in Requests : \A f \in upd[q] :
               f.primary /\ f.trade = p.trade => q = x /\ f = p
      BY <3>1 DEF PrimaryInv, PendingPrimaryAlone, Fills
    <3> QED
      BY <1>1, <2>1, <2>4, <3>1, <3>2
  <2> QED
    BY <2>3, <2>4
<1> QED
  BY <1>5, <1>6, <1>7 DEF PrimaryInv

LEMMA PrimaryAbort ==
  ASSUME TypeOK, PrimaryInv, NEW r \in Requests, Abort(r)
  PROVE  PrimaryInv'
BY PrimaryReset DEF Abort, tables

LEMMA PrimaryStatement ==
  ASSUME HubInv, NEW r \in Requests, Statement(r)
  PROVE  PrimaryInv'
<1>0. TypeInv /\ TypeOK /\ BookInv /\ PrimaryInv
  BY DEF HubInv, TypeInv
<1>1. CASE CreateMany(r)
  <2>1. CASE Abort(r)
    BY <1>0, <2>1, PrimaryAbort
  <2>2. CASE ~ Abort(r)
    <3>1. upd' = [upd EXCEPT ![r] = view[r]] /\ UNCHANGED <<tables, gone>> /\ pc[r] = "createMany"
      BY <1>1, <2>2 DEF CreateMany
    <3>2. req[r].op = "create"
      BY <1>0, <3>1 DEF TypeInv, PcOK
    <3> QED
      BY <1>0, <3>1, <3>2, PrimaryCreate DEF tables
  <2> QED
    BY <2>1, <2>2
<1>2. CASE Clear(r)
  BY <1>0, <1>2, PrimaryUntouched DEF Clear, tables, txVars
<1>3. CASE Clearing(r)
  <2> DEFINE S == {[e EXCEPT !.primary = FALSE] : e \in {f \in execs : f.id \in tgt[r] /\ f.primary}}
  <2>1. /\ \A id \in tgt[r] : ~ Taken(id, r)
        /\ upd' = [upd EXCEPT ![r] = S]
        /\ execs' = execs /\ gone' = gone
    BY <1>3 DEF Clearing, tables
  <2>2. \A n \in S : ~ n.primary /\ n.id \in tgt[r]
    BY <1>0 DEF TypeOK, Exec
  <2> HIDE DEF S
  <2>3. upd'[r] = S /\ \A x \in Requests : x # r => upd'[x] = upd[x]
    BY <1>0, <2>1 DEF TypeOK
  <2>4. \A id \in Held(r)' : id \in Held(r) \/ ~ Taken(id, r)
    BY <2>1, <2>2, <2>3 DEF Held, Ids
  <2> QED
    BY <1>0, <2>1, <2>2, <2>3, <2>4, PrimaryLocks
<1>4. CASE Insert(r)
  <2> DEFINE q == req[r]
             n == NewFill(q.exec, q.trade, q.acct, q.primary, q.price, q.plan)
  <2>1. CASE Abort(r)
    BY <1>0, <2>1, PrimaryAbort
  <2>2. CASE ~ Abort(r)
    <3>1. /\ pc[r] = "insert"
          /\ q.primary => ~ PrimaryBusy(q.trade, r) /\ ~ PrimaryRefused(q.trade, q.exec, r)
          /\ Write(r, n) /\ execs' = execs /\ gone' = gone
      BY <1>4, <2>2 DEF Insert, tables
    <3>2. n.id = q.exec /\ n.trade = q.trade /\ n.primary = q.primary
      BY DEF NewFill
    <3>3. n.id \in Reserved(r)
      BY <1>0, <3>1, <3>2 DEF TypeInv, PcOK, Reserved
    <3>4. ~ Taken(n.id, r)
      BY <1>0, <3>3 DEF BookInv, FreshIds, Taken
    <3> HIDE DEF n, q
    <3> QED
      BY <1>0, <3>1, <3>2, <3>4, PrimaryWrite
  <2> QED
    BY <2>1, <2>2
<1>5. CASE WriteOne(r)
  <2> DEFINE q == req[r]
  <2>1. CASE Abort(r)
    BY <1>0, <2>1, PrimaryAbort
  <2>2. CASE ~ Abort(r)
    <3>1. /\ ~ Taken(q.exec, r)
          /\ q.primary => ~ PrimaryBusy(q.trade, r) /\ ~ PrimaryRefused(q.trade, q.exec, r)
          /\ execs' = execs /\ gone' = gone
          /\ \E e \in Latest(q.exec, r) : Write(r, Patched(r, e))
      BY <1>5, <2>2 DEF WriteOne, tables
    <3>2. PICK e \in Latest(q.exec, r) : Write(r, Patched(r, e))
      BY <3>1
    <3>3. e \in Mine(r) /\ e \in Exec /\ e.id = q.exec
      BY <1>0, SeenTyped DEF Latest
    <3> DEFINE n == Patched(r, e)
    <3>4. n.id = q.exec /\ n.trade = e.trade /\ (n.primary => e.primary \/ q.primary)
      BY <3>3, PatchedSame
    <3>5. e.trade = q.trade
      <4>1. e \in Versions
        BY <3>3 DEF Versions, Mine
      <4> QED
        BY <1>0, <3>3, <4>1 DEF BookInv, SameIdea
    <3>6. Write(r, n)
      BY <3>2
    <3> HIDE DEF n, q
    <3> QED
      BY <1>0, <3>1, <3>3, <3>4, <3>5, <3>6, PrimaryWrite
  <2> QED
    BY <2>1, <2>2
<1>6. CASE Remove(r)
  <2>1. CASE Abort(r)
    BY <1>0, <2>1, PrimaryAbort
  <2>2. CASE ~ Abort(r)
    <3>1. /\ ~ Taken(req[r].exec, r)
          /\ gone' = [gone EXCEPT ![r] = @ \cup {req[r].exec}]
          /\ execs' = execs /\ upd' = upd
      BY <1>6, <2>2 DEF Remove, tables
    <3>2. /\ Held(r)' = Held(r) \cup {req[r].exec}
          /\ \A x \in Requests : x # r => gone'[x] = gone[x]
      BY <1>0, <3>1 DEF TypeOK, Held, Ids
    <3> QED
      BY <1>0, <3>1, <3>2, PrimaryLocks
  <2> QED
    BY <2>1, <2>2
<1>7. CASE Promote(r)
  <2>1. CASE Abort(r)
    BY <1>0, <2>1, PrimaryAbort
  <2>2. CASE ~ Abort(r)
    <3>1. /\ ~ PrimaryBusy(req[r].trade, r) /\ execs' = execs /\ gone' = gone
          /\ \E p \in Oldest(r) :
               /\ ~ Taken(p.id, r) /\ ~ PrimaryRefused(req[r].trade, p.id, r)
               /\ \E e \in Latest(p.id, r) : Write(r, [e EXCEPT !.primary = TRUE])
      BY <1>7, <2>2 DEF Promote, tables
    <3>2. PICK p \in Oldest(r) :
            /\ ~ Taken(p.id, r) /\ ~ PrimaryRefused(req[r].trade, p.id, r)
            /\ \E e \in Latest(p.id, r) : Write(r, [e EXCEPT !.primary = TRUE])
      BY <3>1
    <3>3. PICK e \in Latest(p.id, r) : Write(r, [e EXCEPT !.primary = TRUE])
      BY <3>2
    <3>4. e \in Mine(r) /\ e \in Exec /\ e.id = p.id /\ p \in view[r]
      BY <1>0, SeenTyped DEF Latest, Oldest, Remaining
    <3> DEFINE n == [e EXCEPT !.primary = TRUE]
    <3>5. n.id = p.id /\ n.trade = e.trade
      BY <3>4 DEF Exec
    <3>6. e.trade = req[r].trade
      <4>1. e \in Versions /\ p \in Versions
        BY <1>0, <3>4 DEF Versions, Mine, TypeOK
      <4> QED
        BY <1>0, <3>4, <4>1 DEF BookInv, SameIdea
    <3>7. Write(r, n)
      BY <3>3
    <3> HIDE DEF n
    <3> QED
      BY <1>0, <3>1, <3>2, <3>5, <3>6, <3>7, PrimaryWrite
  <2> QED
    BY <2>1, <2>2
<1>8. CASE PutTrade(r)
  <2>1. CASE Abort(r)
    BY <1>0, <2>1, PrimaryAbort
  <2>2. CASE ~ Abort(r)
    BY <1>0, <1>8, <2>2, PrimaryUntouched DEF PutTrade, tables
  <2> QED
    BY <2>1, <2>2
<1>9. CASE Rewrite(r)
  <2>1. CASE Abort(r)
    BY <1>0, <2>1, PrimaryAbort
  <2>2. CASE ~ Abort(r)
    <3>1. /\ execs' = execs /\ gone' = gone
          /\ \E v \in NextLoaded(r) :
               /\ ~ Taken(v.id, r)
               /\ \E e \in Latest(v.id, r) :
                    Write(r, [e EXCEPT !.metrics = [plan |-> req[r].plan, price |-> v.price]])
      BY <1>9, <2>2 DEF Rewrite, tables
    <3>2. PICK v \in NextLoaded(r) :
            /\ ~ Taken(v.id, r)
            /\ \E e \in Latest(v.id, r) :
                 Write(r, [e EXCEPT !.metrics = [plan |-> req[r].plan, price |-> v.price]])
      BY <3>1
    <3>3. PICK e \in Latest(v.id, r) :
            Write(r, [e EXCEPT !.metrics = [plan |-> req[r].plan, price |-> v.price]])
      BY <3>2
    <3>4. e \in Mine(r) /\ e \in Exec /\ e.id = v.id
      BY <1>0, SeenTyped DEF Latest
    <3> DEFINE n == [e EXCEPT !.metrics = [plan |-> req[r].plan, price |-> v.price]]
    <3>5. n.id = v.id /\ n.id = e.id /\ n.trade = e.trade /\ n.primary = e.primary
      BY <3>4 DEF Exec
    <3>6. Write(r, n)
      BY <3>3
    <3> HIDE DEF n
    <3> QED
      BY <1>0, <3>1, <3>2, <3>4, <3>5, <3>6, PrimaryWrite
  <2> QED
    BY <2>1, <2>2
<1>10. CASE Rewritten(r)
  BY <1>0, <1>10, PrimaryUntouched DEF Rewritten, tables, txVars
<1>11. CASE DropTrade(r)
  BY <1>0, <1>11, PrimaryReset DEF DropTrade
<1>12. CASE DropAccount(r)
  <2>1. CASE Abort(r)
    BY <1>0, <2>1, PrimaryAbort
  <2>2. CASE ~ Abort(r)
    <3> DEFINE g == Ids({e \in execs : e.acct = req[r].acct})
    <3>1. /\ pc[r] = "dropAccount" /\ ~ AccountInUse(req[r].acct, r)
          /\ gone' = [gone EXCEPT ![r] = g]
          /\ execs' = execs /\ upd' = upd
      BY <1>12, <2>2 DEF DropAccount, tables
    <3>2. upd[r] = {}
      BY <1>0, <3>1 DEF BookInv, Unwritten
    <3>3. \A id \in g : ~ Taken(id, r)
      BY <3>1 DEF AccountInUse, Taken, Ids
    <3> HIDE DEF g
    <3>4. Held(r)' = g /\ \A x \in Requests : x # r => gone'[x] = gone[x]
      BY <1>0, <3>1, <3>2 DEF TypeOK, Held, Ids
    <3> QED
      BY <1>0, <3>1, <3>2, <3>3, <3>4, PrimaryLocks
  <2> QED
    BY <2>1, <2>2
<1>13. CASE Sweep(r)
  BY <1>0, <1>13, PrimaryUntouched DEF Sweep, tables, txVars
<1>14. CASE Cut(r)
  <2> DEFINE g == Ids({e \in execs : e.trade \in orphans[r]})
  <2>1. /\ \A t \in orphans[r] : ~ TradeInUse(t, r)
        /\ gone' = [gone EXCEPT ![r] = gone[r] \cup g]
        /\ execs' = execs /\ upd' = upd
    BY <1>14 DEF Cut, tables
  <2>2. \A id \in g : ~ Taken(id, r)
    BY <2>1 DEF TradeInUse, Taken, Ids, Fills
  <2> HIDE DEF g
  <2>3. Held(r)' = Held(r) \cup g /\ \A x \in Requests : x # r => gone'[x] = gone[x]
    BY <1>0, <2>1 DEF TypeOK, Held, Ids
  <2> QED
    BY <1>0, <2>1, <2>2, <2>3, PrimaryLocks
<1>15. CASE Commit(r)
  BY <1>0, <1>15, PrimaryReset DEF Commit
<1> QED
  BY <1>1, <1>2, <1>3, <1>4, <1>5, <1>6, <1>7, <1>8, <1>9, <1>10, <1>11, <1>12, <1>13,
     <1>14, <1>15 DEF Statement

(* A new request writes nothing yet. *)
LEMMA PrimaryRequest ==
  ASSUME PrimaryInv, NEW r \in Requests, NewRequest(r)
  PROVE  PrimaryInv'
<1>1. ASSUME NEW q, NEW at, Arrive(r, q, at) PROVE PrimaryInv'
  BY <1>1, PrimaryUntouched DEF Arrive, txVars
<1>2. CASE CreateTrade(r)
  BY <1>1, <1>2, Zenon, SMTT(30) DEF CreateTrade
<1>3. CASE UpdateTrade(r)
  BY <1>1, <1>3, Zenon DEF UpdateTrade
<1>4. CASE DeleteTrade(r)
  BY <1>1, <1>4, Zenon DEF DeleteTrade
<1>5. CASE AddExecution(r)
  BY <1>1, <1>5, Zenon DEF AddExecution
<1>6. CASE UpdateExecution(r)
  BY <1>1, <1>6, Zenon DEF UpdateExecution
<1>7. CASE RemoveExecution(r)
  BY <1>1, <1>7, Zenon DEF RemoveExecution
<1>8. CASE SetPrimaryExecution(r)
  BY <1>1, <1>8, Zenon DEF SetPrimaryExecution
<1>9. CASE DeleteAccount(r)
  BY <1>1, <1>9, Zenon DEF DeleteAccount
<1> QED
  BY <1>2, <1>3, <1>4, <1>5, <1>6, <1>7, <1>8, <1>9 DEF NewRequest

LEMMA HubStep == HubInv /\ [Next]_vars => HubInv'
<1> SUFFICES ASSUME HubInv, [Next]_vars PROVE HubInv'
  OBVIOUS
<1>0. TypeInv /\ TypeOK /\ BookInv /\ PrimaryInv
  BY DEF HubInv, TypeInv
<1>1. TypeInv'
  BY <1>0, TypeStep
<1>2. ASSUME NEW r \in Requests, NewRequest(r) PROVE HubInv'
  BY <1>0, <1>1, <1>2, RequestBook, PrimaryRequest DEF HubInv
<1>3. ASSUME NEW r \in Requests, Statement(r) PROVE HubInv'
  BY <1>0, <1>1, <1>3, StatementBook, PrimaryStatement DEF HubInv
<1>4. ASSUME NEW r \in Requests, TimedOut(r) PROVE HubInv'
  BY <1>0, <1>1, <1>4, AbortBook, PrimaryAbort DEF HubInv, TimedOut
<1>5. CASE UNCHANGED vars
  <2>1. UNCHANGED <<execs, upd, gone>>
    BY <1>5 DEF vars, tables, txVars
  <2> QED
    BY <1>0, <1>1, <1>5, <2>1, BookUntouched, PrimaryUntouched DEF HubInv
<1> QED
  BY <1>2, <1>3, <1>4, <1>5 DEF Next, Quiet

(* No interleaving of the requests that create, edit, promote, move and    *)
(* remove fills and ideas, with each other, with deletes of their accounts *)
(* and with rollbacks, commits a second primary fill for an idea; the row  *)
(* locks and the partial unique index are what makes it so.                *)
THEOREM NeverTwoPrimaries == Spec => []PrimaryInv
<1>1. Init => HubInv
  BY TypeInit, BookInit, PrimaryInit DEF HubInv
<1>2. HubInv => PrimaryInv
  BY DEF HubInv
<1> QED
  BY <1>1, <1>2, HubStep, PTL DEF Spec

-------------------------------------------------------------------------------
(* No fill without an idea and an account. *)

(* What open transactions have written points at ideas and accounts that   *)
(* exist, or that they create, and that nobody is deleting; who is         *)
(* deleting some has deleted every committed fill of them, and writes no   *)
(* fill itself; and an idea about to be created is not among them.         *)
Homed(e, ideas) == /\ e.acct \in accts
                   /\ TradeLives(e.trade) \/ \E x \in ideas : x.id = e.trade
                   /\ \A q \in Requests : e.acct \notin cutA[q] /\ e.trade \notin cutT[q]
PendingHomed == \A r \in Requests : \A e \in upd[r] : Homed(e, put[r])
CutsTakeAll ==
  \A r \in Requests : \A e \in execs :
    e.acct \in cutA[r] \/ e.trade \in cutT[r] => e.id \in gone[r]
OnlyDeletersCut ==
  \A r \in Requests :
    /\ cutA[r] # {} \/ cutT[r] # {} => pc[r] \in {"sweep", "cut", "commit"}
    /\ pc[r] \in {"sweep", "cut", "putTrade"} => upd[r] = {}
FreshUncut ==
  \A q \in Requests : \A t \in orphans[q] \cup cutT[q] :
    /\ t \in made
    /\ \A r \in Requests : req[r].op = "create" => req[r].trade # t
RefInv == NoDanglingFill /\ PendingHomed /\ CutsTakeAll /\ OnlyDeletersCut /\ FreshUncut

LEMMA RefInit == Init => RefInv
<1> SUFFICES ASSUME Init PROVE RefInv
  OBVIOUS
<1>1. PICK s \in Seeds : trades = s.trades /\ execs = s.execs
  BY DEF Init
<1>2. \A e \in execs : e.acct \in accts /\ \E t \in trades : t.id = e.trade
  BY <1>1, SeedsAssumption DEF Exec, Init
<1>3. \A r \in Requests : /\ upd[r] = {} /\ cutA[r] = {} /\ cutT[r] = {} /\ orphans[r] = {}
  BY DEF Init
<1> QED
  BY <1>2, <1>3 DEF RefInv, NoDanglingFill, PendingHomed, CutsTakeAll, OnlyDeletersCut,
                    FreshUncut

(* Nothing is cut and nothing committed: what r has written by then still  *)
(* has a home.                                                             *)
LEMMA RefMove ==
  ASSUME TypeInv, RefInv, NEW r \in Requests,
         UNCHANGED <<accts, trades, execs, made, req, cutA, cutT>>,
         \A x \in Requests : x # r => /\ upd'[x] = upd[x] /\ put'[x] = put[x]
                                     /\ pc'[x] = pc[x] /\ orphans'[x] = orphans[x],
         \A x \in Requests : gone[x] \subseteq gone'[x],
         orphans'[r] \subseteq orphans[r],
         \A e \in upd'[r] : Homed(e, put'[r]),
         pc'[r] \in {"sweep", "cut", "putTrade"} => upd'[r] = {},
         cutA[r] # {} \/ cutT[r] # {} => pc'[r] \in {"sweep", "cut", "commit"}
  PROVE  RefInv'
<1>1. NoDanglingFill'
  BY DEF RefInv, NoDanglingFill
<1>2. PendingHomed'
  BY DEF RefInv, PendingHomed, Homed, TradeLives
<1>3. CutsTakeAll'
  BY DEF RefInv, CutsTakeAll
<1>4. OnlyDeletersCut'
  BY DEF RefInv, OnlyDeletersCut
<1>5. FreshUncut'
  BY DEF RefInv, FreshUncut
<1> QED
  BY <1>1, <1>2, <1>3, <1>4, <1>5 DEF RefInv

(* One fill written, with a home.                                          *)
LEMMA RefWrite ==
  ASSUME TypeInv, RefInv, NEW r \in Requests, NEW n, Write(r, n), Homed(n, put[r]),
         UNCHANGED <<accts, trades, execs, made, req, cutA, cutT, gone, put, orphans>>,
         \/ Goto(r, "commit")
         \/ pc' = pc /\ pc[r] = "rewrite"
  PROVE  RefInv'
<1>1. \A x \in Requests : upd'[x] = IF x = r THEN {e \in upd[r] : e.id # n.id} \cup {n} ELSE upd[x]
  BY DEF Write, TypeInv, TypeOK
<1>2. \A x \in Requests : x # r => pc'[x] = pc[x]
  BY DEF Goto, TypeInv, TypeOK
<1>3. pc'[r] = "commit" \/ (pc'[r] = "rewrite" /\ pc[r] = "rewrite")
  BY DEF Goto, TypeInv, TypeOK
<1>4. \A e \in upd'[r] : Homed(e, put'[r])
  BY <1>1 DEF RefInv, PendingHomed
<1>5. cutA[r] # {} \/ cutT[r] # {} => pc'[r] \in {"sweep", "cut", "commit"}
  BY <1>3 DEF RefInv, OnlyDeletersCut
<1> QED
  BY <1>1, <1>2, <1>3, <1>4, <1>5, RefMove

(* A version of a fill that nobody else has written is of an idea and an   *)
(* account that nobody is deleting, unless r itself is.                    *)
LEMMA SeenHomed ==
  ASSUME RefInv, NEW r \in Requests, cutA[r] = {}, cutT[r] = {},
         NEW e \in Mine(r) \cup execs, ~ Taken(e.id, r)
  PROVE  Homed(e, put[r])
<1>1. CASE e \in upd[r]
  BY <1>1 DEF RefInv, PendingHomed
<1>2. CASE e \in execs
  <2>1. e.acct \in accts /\ TradeLives(e.trade)
    BY <1>2 DEF RefInv, NoDanglingFill, TradeLives
  <2>2. \A q \in Requests : q # r => e.id \notin gone[q]
    BY DEF Taken, Others, Held
  <2>3. \A q \in Requests : e.acct \notin cutA[q] /\ e.trade \notin cutT[q]
    BY <1>2, <2>2 DEF RefInv, CutsTakeAll
  <2> QED
    BY <2>1, <2>3 DEF Homed
<1> QED
  BY <1>1, <1>2 DEF Mine

(* The end of a request: it commits what it has, or drops an idea nobody   *)
(* uses, or nothing.                                                       *)
LEMMA RefReset ==
  ASSUME TypeInv, RefInv, NEW r \in Requests, Reset(r), made' = made,
         accts' \subseteq accts, \A e \in execs' : e \in Mine(r) \/ e \in execs,
         \A e \in execs' : e.acct \in accts' /\ TradeLives(e.trade)',
         \A q \in Others(r) : \A e \in upd[q] :
           e.acct \in accts' /\ (TradeLives(e.trade) => TradeLives(e.trade)')
  PROVE  RefInv'
<1>1. \A x \in Requests : x # r =>
        /\ req'[x] = req[x] /\ upd'[x] = upd[x] /\ put'[x] = put[x] /\ gone'[x] = gone[x]
        /\ pc'[x] = pc[x] /\ cutA'[x] = cutA[x] /\ cutT'[x] = cutT[x]
        /\ orphans'[x] = orphans[x]
  BY DEF Reset, TypeInv, TypeOK
<1>2. /\ req'[r].op = "none" /\ upd'[r] = {} /\ cutA'[r] = {} /\ cutT'[r] = {}
      /\ orphans'[r] = {}
  BY DEF Reset, TypeInv, TypeOK, NoReq
<1>3. NoDanglingFill'
  BY DEF NoDanglingFill, TradeLives
<1>4. PendingHomed'
  <2> SUFFICES ASSUME NEW q \in Requests, NEW e \in upd'[q]
               PROVE  /\ e.acct \in accts'
                      /\ TradeLives(e.trade)' \/ \E x \in put'[q] : x.id = e.trade
                      /\ \A x \in Requests : e.acct \notin cutA'[x] /\ e.trade \notin cutT'[x]
    BY DEF PendingHomed, Homed, TradeLives
  <2>1. q # r /\ q \in Others(r) /\ e \in upd[q]
    BY <1>1, <1>2 DEF Others
  <2>2. Homed(e, put[q])
    BY <2>1 DEF RefInv, PendingHomed
  <2> QED
    BY <1>1, <1>2, <2>1, <2>2 DEF Homed
<1>5. CutsTakeAll'
  <2> SUFFICES ASSUME NEW q \in Requests, NEW e \in execs',
                      e.acct \in cutA'[q] \/ e.trade \in cutT'[q]
               PROVE  e.id \in gone'[q]
    BY DEF CutsTakeAll
  <2>1. q # r
    BY <1>2
  <2>2. e.acct \in cutA[q] \/ e.trade \in cutT[q]
    BY <1>1, <2>1
  <2>3. e \notin upd[r]
    BY <2>2 DEF RefInv, PendingHomed, Homed
  <2>4. e \in execs
    BY <2>3 DEF Mine
  <2> QED
    BY <1>1, <2>1, <2>2, <2>4 DEF RefInv, CutsTakeAll
<1>6. OnlyDeletersCut'
  BY <1>1, <1>2 DEF RefInv, OnlyDeletersCut
<1>7. FreshUncut'
  BY <1>1, <1>2 DEF RefInv, FreshUncut
<1> QED
  BY <1>3, <1>4, <1>5, <1>6, <1>7 DEF RefInv

LEMMA RefAbort ==
  ASSUME TypeInv, RefInv, NEW r \in Requests, Abort(r)
  PROVE  RefInv'
<1>1. UNCHANGED <<accts, trades, execs, made>> /\ Reset(r)
  BY DEF Abort, tables
<1>2. \A e \in execs' : e.acct \in accts' /\ TradeLives(e.trade)'
  BY <1>1 DEF RefInv, NoDanglingFill, TradeLives
<1>3. \A q \in Others(r) : \A e \in upd[q] :
         e.acct \in accts' /\ (TradeLives(e.trade) => TradeLives(e.trade)')
  BY <1>1 DEF RefInv, PendingHomed, Homed, Others, TradeLives
<1> QED
  BY <1>1, <1>2, <1>3, RefReset

(* A request arrives: it has neither written nor cut anything yet.         *)
LEMMA RefArrive ==
  ASSUME TypeInv, BookInv, RefInv, NEW r \in Requests, NEW q, NEW at, Arrive(r, q, at),
         at \notin {"sweep", "cut"}, FreshUncut'
  PROVE  RefInv'
<1>1. /\ UNCHANGED <<accts, trades, execs, upd, gone, put, cutA, cutT>>
      /\ pc[r] = "idle" /\ pc' = [pc EXCEPT ![r] = at]
  BY DEF Arrive, txVars
<1>2. upd[r] = {} /\ cutA[r] = {} /\ cutT[r] = {}
  BY <1>1 DEF BookInv, Unwritten, RefInv, OnlyDeletersCut
<1>3. NoDanglingFill'
  BY <1>1 DEF RefInv, NoDanglingFill
<1>4. PendingHomed'
  BY <1>1 DEF RefInv, PendingHomed, Homed, TradeLives
<1>5. CutsTakeAll'
  BY <1>1 DEF RefInv, CutsTakeAll
<1>6. OnlyDeletersCut'
  BY <1>1, <1>2 DEF RefInv, OnlyDeletersCut, TypeInv, TypeOK
<1> QED
  BY <1>3, <1>4, <1>5, <1>6 DEF RefInv

LEMMA RefRequest ==
  ASSUME HubInv, RefInv, NEW r \in Requests, NewRequest(r)
  PROVE  RefInv'
<1>0. TypeInv /\ TypeOK /\ BookInv
  BY DEF HubInv, TypeInv
<1>1. ASSUME NEW q, NEW at, Arrive(r, q, at), at \notin {"sweep", "cut"}, q.op # "create",
             Load(r, q.trade)
      PROVE  RefInv'
  <2>0. made' = made /\ orphans' = orphans
    BY <1>1 DEF Load
  <2>1. req' = [req EXCEPT ![r] = q] /\ cutT' = cutT
    BY <1>1 DEF Arrive, txVars
  <2>2. \A x \in Requests : req'[x].op = "create" => req[x].op = "create" /\ req'[x] = req[x]
    BY <1>0, <1>1, <2>1 DEF TypeOK
  <2>3. FreshUncut'
    BY <1>1, <2>0, <2>1, <2>2 DEF RefInv, FreshUncut
  <2> QED
    BY <1>0, <1>1, <2>3, RefArrive
<1>2. CASE CreateTrade(r)
  <2>1. PICK t \in Trades \ made, plan \in Plans :
          /\ Arrive(r, [NoReq EXCEPT !.op = "create", !.trade = t, !.plan = plan], "createMany")
          /\ made' = made \cup {t} /\ orphans' = orphans
    BY <1>2, ZenonT(40) DEF CreateTrade
  <2> DEFINE q == [NoReq EXCEPT !.op = "create", !.trade = t, !.plan = plan]
  <2>2. q.trade = t
    BY DEF NoReq
  <2>3. req' = [req EXCEPT ![r] = q] /\ cutT' = cutT
    BY <2>1 DEF Arrive, txVars
  <2> HIDE DEF q
  <2>4. \A x \in Requests : req'[x] = IF x = r THEN q ELSE req[x]
    BY <1>0, <2>3 DEF TypeOK
  <2>5. FreshUncut'
    BY <2>1, <2>2, <2>3, <2>4 DEF RefInv, FreshUncut
  <2> QED
    BY <1>0, <2>1, <2>5, RefArrive
<1>3. CASE UpdateTrade(r)
  <2>1. PICK t \in Trades, plan \in Plans :
          /\ Load(r, t)
          /\ Arrive(r, [NoReq EXCEPT !.op = "update", !.trade = t, !.plan = plan,
                                     !.primary = (plan # PlanOf(t))], "putTrade")
    BY <1>3 DEF UpdateTrade
  <2> DEFINE q == [NoReq EXCEPT !.op = "update", !.trade = t, !.plan = plan,
                                !.primary = (plan # PlanOf(t))]
             at == "putTrade"
  <2>2. q.trade = t /\ q.op = "update" /\ at \notin {"sweep", "cut"}
    BY DEF NoReq
  <2>3. Arrive(r, q, at)
    BY <2>1
  <2> HIDE DEF q, at
  <2> QED
    BY <1>1, <2>1, <2>2, <2>3
<1>4. CASE DeleteTrade(r)
  <2>1. PICK t \in Trades :
          /\ Load(r, t)
          /\ Arrive(r, [NoReq EXCEPT !.op = "delete", !.trade = t], "dropTrade")
    BY <1>4 DEF DeleteTrade
  <2> DEFINE q == [NoReq EXCEPT !.op = "delete", !.trade = t]
             at == "dropTrade"
  <2>2. q.trade = t /\ q.op = "delete" /\ at \notin {"sweep", "cut"}
    BY DEF NoReq
  <2>3. Arrive(r, q, at)
    BY <2>1
  <2> HIDE DEF q, at
  <2> QED
    BY <1>1, <2>1, <2>2, <2>3
<1>5. CASE AddExecution(r)
  <2>1. PICK t \in Trades, a \in accts, p \in Prices, w \in BOOLEAN :
          /\ Load(r, t)
          /\ Arrive(r, [NoReq EXCEPT !.op = "add", !.trade = t, !.exec = nextId, !.acct = a,
                                     !.price = p, !.plan = PlanOf(t), !.primary = w],
                    IF w THEN "clear" ELSE "insert")
    BY <1>5 DEF AddExecution
  <2> DEFINE q == [NoReq EXCEPT !.op = "add", !.trade = t, !.exec = nextId, !.acct = a,
                                !.price = p, !.plan = PlanOf(t), !.primary = w]
             at == IF w THEN "clear" ELSE "insert"
  <2>2. q.trade = t /\ q.op = "add" /\ at \notin {"sweep", "cut"}
    BY DEF NoReq
  <2>3. Arrive(r, q, at)
    BY <2>1
  <2> HIDE DEF q, at
  <2> QED
    BY <1>1, <2>1, <2>2, <2>3
<1>6. CASE UpdateExecution(r)
  <2>1. PICK t \in Trades, e \in execs, a \in accts \cup {None}, p \in Prices, w \in BOOLEAN :
          /\ Load(r, t)
          /\ Arrive(r, [NoReq EXCEPT !.op = "edit", !.trade = t, !.exec = e.id, !.acct = a,
                                     !.price = p, !.plan = PlanOf(t),
                                     !.primary = (w /\ ~ e.primary)],
                    IF w /\ ~ e.primary THEN "clear" ELSE "write")
    BY <1>6, ZenonT(40) DEF UpdateExecution
  <2> DEFINE q == [NoReq EXCEPT !.op = "edit", !.trade = t, !.exec = e.id, !.acct = a,
                                !.price = p, !.plan = PlanOf(t), !.primary = (w /\ ~ e.primary)]
             at == IF w /\ ~ e.primary THEN "clear" ELSE "write"
  <2>2. q.trade = t /\ q.op = "edit" /\ at \notin {"sweep", "cut"}
    BY DEF NoReq
  <2>3. Arrive(r, q, at)
    BY <2>1
  <2> HIDE DEF q, at
  <2> QED
    BY <1>1, <2>1, <2>2, <2>3
<1>7. CASE RemoveExecution(r)
  <2>1. PICK t \in Trades, e \in execs :
          /\ Load(r, t)
          /\ Arrive(r, [NoReq EXCEPT !.op = "remove", !.trade = t, !.exec = e.id,
                                     !.primary = e.primary], "remove")
    BY <1>7 DEF RemoveExecution
  <2> DEFINE q == [NoReq EXCEPT !.op = "remove", !.trade = t, !.exec = e.id,
                                !.primary = e.primary]
             at == "remove"
  <2>2. q.trade = t /\ q.op = "remove" /\ at \notin {"sweep", "cut"}
    BY DEF NoReq
  <2>3. Arrive(r, q, at)
    BY <2>1
  <2> HIDE DEF q, at
  <2> QED
    BY <1>1, <2>1, <2>2, <2>3
<1>8. CASE SetPrimaryExecution(r)
  <2>1. PICK t \in Trades, e \in execs :
          /\ Load(r, t)
          /\ Arrive(r, [NoReq EXCEPT !.op = "setPrimary", !.trade = t, !.exec = e.id,
                                     !.primary = TRUE], "clear")
    BY <1>8 DEF SetPrimaryExecution
  <2> DEFINE q == [NoReq EXCEPT !.op = "setPrimary", !.trade = t, !.exec = e.id,
                                !.primary = TRUE]
             at == "clear"
  <2>2. q.trade = t /\ q.op = "setPrimary" /\ at \notin {"sweep", "cut"}
    BY DEF NoReq
  <2>3. Arrive(r, q, at)
    BY <2>1
  <2> HIDE DEF q, at
  <2> QED
    BY <1>1, <2>1, <2>2, <2>3
<1>9. CASE DeleteAccount(r)
  <2>1. PICK a \in accts :
          /\ Arrive(r, [NoReq EXCEPT !.op = "deleteAccount", !.acct = a], "dropAccount")
          /\ orphans' = [orphans EXCEPT ![r] =
               {t \in Trades : /\ TradeLives(t) /\ Fills(t) # {}
                               /\ \A e \in Fills(t) : e.acct = a}]
          /\ made' = made
    BY <1>9 DEF DeleteAccount
  <2> DEFINE q == [NoReq EXCEPT !.op = "deleteAccount", !.acct = a]
  <2>2. q.op # "create"
    BY DEF NoReq
  <2>3. req' = [req EXCEPT ![r] = q] /\ cutT' = cutT
    BY <2>1 DEF Arrive, txVars
  <2> HIDE DEF q
  <2>4. \A x \in Requests : req'[x].op = "create" => req[x].op = "create" /\ req'[x] = req[x]
    BY <1>0, <2>2, <2>3 DEF TypeOK
  <2>5. \A x \in Requests : \A t \in orphans'[x] : t \in orphans[x] \/ TradeLives(t)
    BY <1>0, <2>1 DEF TypeOK
  <2>6. \A t : TradeLives(t) =>
          t \in made /\ \A x \in Requests : req[x].op = "create" => req[x].trade # t
    BY <1>0 DEF BookInv, KnownIdeas, FreshIdeas, TradeLives
  <2>7. FreshUncut'
    BY <2>1, <2>3, <2>4, <2>5, <2>6 DEF RefInv, FreshUncut
  <2> QED
    BY <1>0, <2>1, <2>7, RefArrive
<1> QED
  BY <1>2, <1>3, <1>4, <1>5, <1>6, <1>7, <1>8, <1>9 DEF NewRequest

(* A fill's parents are all that Homed looks at.                           *)
LEMMA SameParents ==
  ASSUME NEW e, NEW n, NEW s, Homed(e, s), n.acct = e.acct, n.trade = e.trade
  PROVE  Homed(n, s)
BY DEF Homed

LEMMA RefStatement ==
  ASSUME HubInv, RefInv, NEW r \in Requests, Statement(r)
  PROVE  RefInv'
<1>0. TypeInv /\ TypeOK /\ BookInv /\ RefInv
  BY DEF HubInv, TypeInv
<1> DEFINE q == req[r]
<1>a. pc[r] \notin {"sweep", "cut", "commit"} => cutA[r] = {} /\ cutT[r] = {}
  BY DEF RefInv, OnlyDeletersCut
<1>b. ASSUME NEW at, Goto(r, at)
      PROVE  pc'[r] = at /\ \A x \in Requests : x # r => pc'[x] = pc[x]
  BY <1>0, <1>b DEF Goto, TypeOK
<1>c. \A e \in upd[r] : Homed(e, put[r])
  BY DEF RefInv, PendingHomed
<1>1. CASE CreateMany(r)
  <2>1. CASE Abort(r)
    BY <1>0, <2>1, RefAbort
  <2>2. CASE ~ Abort(r)
    <3>1. /\ pc[r] = "createMany" /\ Goto(r, "commit")
          /\ \A e \in view[r] : e.acct \in accts /\ \A x \in Others(r) : e.acct \notin cutA[x]
          /\ upd' = [upd EXCEPT ![r] = view[r]]
          /\ put' = [put EXCEPT ![r] = {[id |-> q.trade, plan |-> q.plan]}]
          /\ UNCHANGED <<accts, trades, execs, made, req, gone, cutA, cutT, orphans>>
      BY <1>1, <2>2 DEF CreateMany, tables
    <3>2. q.op = "create" /\ cutA[r] = {} /\ cutT[r] = {}
      BY <1>0, <1>a, <3>1 DEF TypeInv, PcOK
    <3>3. \A e \in view[r] : e.trade = q.trade
      BY <1>0 DEF BookInv, SameIdea
    <3>4. \A x \in Requests : q.trade \notin cutT[x]
      BY <3>2 DEF RefInv, FreshUncut
    <3>5. /\ \A x \in Requests : x # r => upd'[x] = upd[x] /\ put'[x] = put[x]
          /\ upd'[r] = view[r] /\ \E x \in put'[r] : x.id = q.trade
      BY <1>0, <3>1 DEF TypeOK
    <3>6. \A e \in upd'[r] : Homed(e, put'[r])
      <4> SUFFICES ASSUME NEW e \in view[r] PROVE Homed(e, put'[r])
        BY <3>5
      <4>1. e.acct \in accts /\ \A x \in Requests : e.acct \notin cutA[x]
        BY <3>1, <3>2 DEF Others
      <4>2. e.trade = q.trade
        BY <3>3
      <4> HIDE DEF q
      <4> QED
        BY <3>4, <3>5, <4>1, <4>2 DEF Homed
    <3>7. pc'[r] = "commit" /\ \A x \in Requests : x # r => pc'[x] = pc[x]
      BY <1>b, <3>1
    <3>8. UNCHANGED <<accts, trades, execs, made, req, gone, cutA, cutT, orphans>>
      BY <3>1
    <3> HIDE DEF q
    <3> QED
      BY <1>0, <3>2, <3>5, <3>6, <3>7, <3>8, RefMove
  <2> QED
    BY <2>1, <2>2
<1>2. CASE Clear(r)
  <2>1. /\ pc[r] = "clear" /\ Goto(r, "clearing")
        /\ UNCHANGED <<accts, trades, execs, made, req, upd, gone, put, cutA, cutT, orphans>>
    BY <1>2 DEF Clear, tables, txVars
  <2> QED
    BY <1>0, <1>a, <1>b, <1>c, <2>1, RefMove
<1>3. CASE Clearing(r)
  <2> DEFINE S == {[e EXCEPT !.primary = FALSE] : e \in {f \in execs : f.id \in tgt[r] /\ f.primary}}
             at == IF q.op = "add" THEN "insert" ELSE "write"
  <2>1. /\ pc[r] = "clearing" /\ Goto(r, at)
        /\ \A id \in tgt[r] : ~ Taken(id, r)
        /\ upd' = [upd EXCEPT ![r] = S]
        /\ UNCHANGED <<accts, trades, execs, made, req, gone, put, cutA, cutT, orphans>>
    BY <1>3 DEF Clearing, tables
  <2>2. \A n \in S : Homed(n, put[r])
    <3> SUFFICES ASSUME NEW e \in execs, e.id \in tgt[r]
                 PROVE  Homed([e EXCEPT !.primary = FALSE], put[r])
      OBVIOUS
    <3>1. Homed(e, put[r])
      BY <1>0, <1>a, <2>1, SeenHomed
    <3>2. [e EXCEPT !.primary = FALSE].acct = e.acct /\ [e EXCEPT !.primary = FALSE].trade = e.trade
      BY <1>0 DEF TypeOK, Exec
    <3> QED
      BY <3>1, <3>2, SameParents
  <2>3. at \notin {"sweep", "cut", "putTrade"}
    OBVIOUS
  <2> HIDE DEF S, at
  <2>4. upd'[r] = S /\ \A x \in Requests : x # r => upd'[x] = upd[x]
    BY <1>0, <2>1 DEF TypeOK
  <2> QED
    BY <1>0, <1>a, <1>b, <2>1, <2>2, <2>3, <2>4, RefMove
<1>4. CASE Insert(r)
  <2>1. CASE Abort(r)
    BY <1>0, <2>1, RefAbort
  <2>2. CASE ~ Abort(r)
    <3> DEFINE n == NewFill(q.exec, q.trade, q.acct, q.primary, q.price, q.plan)
    <3>1. /\ pc[r] = "insert" /\ Goto(r, "commit") /\ Write(r, n)
          /\ ~ ParentsBusy(q.trade, q.acct, r) /\ ParentsLive(q.trade, q.acct)
          /\ UNCHANGED <<accts, trades, execs, made, req, gone, put, cutA, cutT, orphans>>
      BY <1>4, <2>2 DEF Insert, tables
    <3>2. n.trade = q.trade /\ n.acct = q.acct
      BY DEF NewFill
    <3>3. Homed(n, put[r])
      BY <1>a, <3>1, <3>2 DEF Homed, ParentsBusy, ParentsLive, Others
    <3> HIDE DEF n, q
    <3> QED
      BY <1>0, <3>1, <3>3, RefWrite
  <2> QED
    BY <2>1, <2>2
<1>5. CASE WriteOne(r)
  <2>1. CASE Abort(r)
    BY <1>0, <2>1, RefAbort
  <2>2. CASE ~ Abort(r)
    <3>1. /\ pc[r] = "write" /\ Goto(r, "commit") /\ ~ Taken(q.exec, r)
          /\ q.acct # None => q.acct \in accts /\ \A x \in Others(r) : q.acct \notin cutA[x]
          /\ \E e \in Latest(q.exec, r) : Write(r, Patched(r, e))
          /\ UNCHANGED <<accts, trades, execs, made, req, gone, put, cutA, cutT, orphans>>
      BY <1>5, <2>2 DEF WriteOne, tables
    <3>2. PICK e \in Latest(q.exec, r) : Write(r, Patched(r, e))
      BY <3>1
    <3>3. e \in Mine(r) /\ e \in Exec /\ e.id = q.exec
      BY <1>0, SeenTyped DEF Latest
    <3>4. Homed(e, put[r])
      BY <1>0, <1>a, <3>1, <3>3, SeenHomed
    <3> DEFINE n == Patched(r, e)
    <3>5. n.trade = e.trade /\ n.acct = IF q.acct = None THEN e.acct ELSE q.acct
      BY <3>3 DEF Patched, Exec
    <3>6. Write(r, n)
      BY <3>2
    <3> HIDE DEF n, q
    <3>7. Homed(n, put[r])
      BY <1>a, <3>1, <3>4, <3>5 DEF Homed, Others
    <3> QED
      BY <1>0, <3>1, <3>6, <3>7, RefWrite
  <2> QED
    BY <2>1, <2>2
<1>6. CASE Remove(r)
  <2>1. CASE Abort(r)
    BY <1>0, <2>1, RefAbort
  <2>2. CASE ~ Abort(r)
    <3> DEFINE at == IF q.primary /\ Remaining(r) # {} THEN "promote" ELSE "commit"
    <3>1. /\ pc[r] = "remove" /\ Goto(r, at)
          /\ gone' = [gone EXCEPT ![r] = @ \cup {q.exec}]
          /\ UNCHANGED <<accts, trades, execs, made, req, upd, put, cutA, cutT, orphans>>
      BY <1>6, <2>2 DEF Remove, tables
    <3>2. at \in {"promote", "commit"}
      OBVIOUS
    <3>3. \A x \in Requests : gone[x] \subseteq gone'[x]
      BY <1>0, <3>1 DEF TypeOK
    <3> HIDE DEF at, q
    <3> QED
      BY <1>0, <1>a, <1>b, <1>c, <3>1, <3>2, <3>3, RefMove
  <2> QED
    BY <2>1, <2>2
<1>7. CASE Promote(r)
  <2>1. CASE Abort(r)
    BY <1>0, <2>1, RefAbort
  <2>2. CASE ~ Abort(r)
    <3>1. /\ pc[r] = "promote" /\ Goto(r, "commit")
          /\ \E p \in Oldest(r) :
               ~ Taken(p.id, r) /\ \E e \in Latest(p.id, r) : Write(r, [e EXCEPT !.primary = TRUE])
          /\ UNCHANGED <<accts, trades, execs, made, req, gone, put, cutA, cutT, orphans>>
      BY <1>7, <2>2 DEF Promote, tables
    <3>p. PICK p \in Oldest(r) :
            ~ Taken(p.id, r) /\ \E e \in Latest(p.id, r) : Write(r, [e EXCEPT !.primary = TRUE])
      BY <3>1
    <3>2. PICK e \in Latest(p.id, r) : Write(r, [e EXCEPT !.primary = TRUE])
      BY <3>p
    <3>3. e \in Mine(r) /\ e \in Exec /\ e.id = p.id
      BY <1>0, SeenTyped DEF Latest
    <3>4. Homed(e, put[r])
      BY <1>0, <1>a, <3>1, <3>p, <3>3, SeenHomed
    <3> DEFINE n == [e EXCEPT !.primary = TRUE]
    <3>5. n.acct = e.acct /\ n.trade = e.trade /\ Write(r, n)
      BY <3>2, <3>3 DEF Exec
    <3> HIDE DEF n
    <3>6. Homed(n, put[r])
      BY <3>4, <3>5, SameParents
    <3> QED
      BY <1>0, <3>1, <3>5, <3>6, RefWrite
  <2> QED
    BY <2>1, <2>2
<1>8. CASE PutTrade(r)
  <2>1. CASE Abort(r)
    BY <1>0, <2>1, RefAbort
  <2>2. CASE ~ Abort(r)
    <3> DEFINE at == IF q.primary THEN "rewrite" ELSE "commit"
    <3>1. /\ pc[r] = "putTrade" /\ Goto(r, at)
          /\ put' = [put EXCEPT ![r] = {[id |-> q.trade, plan |-> q.plan]}]
          /\ UNCHANGED <<accts, trades, execs, made, req, upd, gone, cutA, cutT, orphans>>
      BY <1>8, <2>2 DEF PutTrade, tables
    <3>2. at \in {"rewrite", "commit"}
      OBVIOUS
    <3> HIDE DEF at, q
    <3>3. upd'[r] = {} /\ \A x \in Requests : x # r => put'[x] = put[x]
      BY <1>0, <3>1 DEF TypeOK, RefInv, OnlyDeletersCut
    <3> QED
      BY <1>0, <1>a, <1>b, <3>1, <3>2, <3>3, RefMove
  <2> QED
    BY <2>1, <2>2
<1>9. CASE Rewrite(r)
  <2>1. CASE Abort(r)
    BY <1>0, <2>1, RefAbort
  <2>2. CASE ~ Abort(r)
    <3> DEFINE New(e, v) == [e EXCEPT !.metrics = [plan |-> q.plan, price |-> v.price]]
    <3>1. /\ pc[r] = "rewrite"
          /\ \E v \in NextLoaded(r) :
               /\ ~ Taken(v.id, r)
               /\ \E e \in Latest(v.id, r) : Write(r, New(e, v))
          /\ UNCHANGED <<accts, trades, execs, made, pc, req, gone, put, cutA, cutT, orphans>>
      BY <1>9, <2>2 DEF Rewrite, tables
    <3>2. PICK v \in NextLoaded(r) :
            /\ ~ Taken(v.id, r)
            /\ \E e \in Latest(v.id, r) : Write(r, New(e, v))
      BY <3>1
    <3>3. PICK e \in Latest(v.id, r) : Write(r, New(e, v))
      BY <3>2
    <3>4. e \in Mine(r) /\ e \in Exec /\ e.id = v.id
      BY <1>0, SeenTyped DEF Latest
    <3>5. Homed(e, put[r])
      BY <1>0, <1>a, <3>1, <3>2, <3>4, SeenHomed
    <3> DEFINE n == New(e, v)
    <3>6. n.acct = e.acct /\ n.trade = e.trade /\ Write(r, n)
      BY <3>3, <3>4 DEF Exec
    <3> HIDE DEF n
    <3>7. Homed(n, put[r])
      BY <3>5, <3>6, SameParents
    <3> QED
      BY <1>0, <3>1, <3>6, <3>7, RefWrite
  <2> QED
    BY <2>1, <2>2
<1>10. CASE Rewritten(r)
  <2>1. /\ pc[r] = "rewrite" /\ Goto(r, "commit")
        /\ UNCHANGED <<accts, trades, execs, made, req, upd, gone, put, cutA, cutT, orphans>>
    BY <1>10 DEF Rewritten, tables, txVars
  <2> QED
    BY <1>0, <1>a, <1>b, <1>c, <2>1, RefMove
<1>11. CASE DropTrade(r)
  <2>1. /\ pc[r] = "dropTrade" /\ ~ TradeInUse(q.trade, r) /\ Reset(r)
        /\ trades' = {x \in trades : x.id # q.trade}
        /\ execs' = {e \in execs : e.trade # q.trade}
        /\ accts' = accts /\ made' = made
    BY <1>11 DEF DropTrade
  <2>2. \A t : t # q.trade /\ TradeLives(t) => TradeLives(t)'
    BY <2>1 DEF TradeLives
  <2>3. \A e \in execs' : e.acct \in accts' /\ TradeLives(e.trade)'
    BY <2>1, <2>2 DEF RefInv, NoDanglingFill, TradeLives
  <2>4. \A x \in Others(r) : \A e \in upd[x] : e.acct \in accts /\ e.trade # q.trade
    BY <2>1 DEF TradeInUse, RefInv, PendingHomed, Homed, Others
  <2> QED
    BY <1>0, <2>1, <2>2, <2>3, <2>4, RefReset
<1>12. CASE DropAccount(r)
  <2>1. CASE Abort(r)
    BY <1>0, <2>1, RefAbort
  <2>2. CASE ~ Abort(r)
    <3> DEFINE g == Ids({e \in execs : e.acct = q.acct})
               at == IF orphans[r] = {} THEN "commit" ELSE "sweep"
    <3>1. /\ pc[r] = "dropAccount" /\ Goto(r, at) /\ ~ AccountInUse(q.acct, r)
          /\ cutA' = [cutA EXCEPT ![r] = {q.acct}]
          /\ gone' = [gone EXCEPT ![r] = g]
          /\ UNCHANGED <<accts, trades, execs, made, req, upd, put, cutT, orphans>>
      BY <1>12, <2>2 DEF DropAccount, tables
    <3>2. upd[r] = {} /\ cutT[r] = {}
      BY <1>0, <1>a, <3>1 DEF BookInv, Unwritten
    <3>3. at \in {"commit", "sweep"} /\ \A e \in execs : e.acct = q.acct => e.id \in g
      BY DEF Ids
    <3>4. \A x \in Others(r) : \A e \in upd[x] : e.acct # q.acct
      BY <3>1 DEF AccountInUse
    <3> HIDE DEF at, g, q
    <3>5. /\ cutA'[r] = {q.acct} /\ gone'[r] = g
          /\ \A x \in Requests : x # r => cutA'[x] = cutA[x] /\ gone'[x] = gone[x]
      BY <1>0, <3>1 DEF TypeOK
    <3>6. NoDanglingFill'
      BY <3>1 DEF RefInv, NoDanglingFill
    <3>7. PendingHomed'
      BY <3>1, <3>2, <3>4, <3>5 DEF RefInv, PendingHomed, Homed, TradeLives, Others
    <3>8. CutsTakeAll'
      BY <3>1, <3>2, <3>3, <3>5 DEF RefInv, CutsTakeAll
    <3>9. OnlyDeletersCut'
      BY <1>b, <3>1, <3>2, <3>3, <3>5 DEF RefInv, OnlyDeletersCut
    <3>10. FreshUncut'
      BY <3>1 DEF RefInv, FreshUncut
    <3> QED
      BY <3>6, <3>7, <3>8, <3>9, <3>10 DEF RefInv
  <2> QED
    BY <2>1, <2>2
<1>13. CASE Sweep(r)
  <2>1. /\ pc[r] = "sweep" /\ Goto(r, "cut")
        /\ orphans' = [orphans EXCEPT ![r] =
             {t \in @ : TradeLives(t) /\ \A e \in Mine(r) : e.trade # t}]
        /\ UNCHANGED <<accts, trades, execs, made, req, upd, gone, put, cutA, cutT>>
    BY <1>13 DEF Sweep, tables, txVars
  <2>2. /\ \A x \in Requests : x # r => orphans'[x] = orphans[x]
        /\ orphans'[r] \subseteq orphans[r]
    BY <1>0, <2>1 DEF TypeOK
  <2>3. upd[r] = {}
    BY <2>1 DEF RefInv, OnlyDeletersCut
  <2> QED
    BY <1>0, <1>b, <2>1, <2>2, <2>3, RefMove
<1>14. CASE Cut(r)
  <2> DEFINE g == Ids({e \in execs : e.trade \in orphans[r]})
  <2>1. /\ pc[r] = "cut" /\ Goto(r, "commit")
        /\ \A t \in orphans[r] : ~ TradeInUse(t, r)
        /\ cutT' = [cutT EXCEPT ![r] = orphans[r]]
        /\ gone' = [gone EXCEPT ![r] = gone[r] \cup g]
        /\ UNCHANGED <<accts, trades, execs, made, req, upd, put, cutA, orphans>>
    BY <1>14 DEF Cut, tables
  <2>2. upd[r] = {}
    BY <2>1 DEF RefInv, OnlyDeletersCut
  <2>3. \A e \in execs : e.trade \in orphans[r] => e.id \in g
    BY DEF Ids
  <2>4. \A x \in Others(r) : \A e \in upd[x] : e.trade \notin orphans[r]
    BY <2>1 DEF TradeInUse
  <2> HIDE DEF g
  <2>5. /\ cutT'[r] = orphans[r] /\ gone'[r] = gone[r] \cup g
        /\ \A x \in Requests : x # r => cutT'[x] = cutT[x] /\ gone'[x] = gone[x]
    BY <1>0, <2>1 DEF TypeOK
  <2>6. NoDanglingFill'
    BY <2>1 DEF RefInv, NoDanglingFill
  <2>7. PendingHomed'
    BY <2>1, <2>2, <2>4, <2>5 DEF RefInv, PendingHomed, Homed, TradeLives, Others
  <2>8. CutsTakeAll'
    BY <2>1, <2>3, <2>5 DEF RefInv, CutsTakeAll
  <2>9. OnlyDeletersCut'
    BY <1>b, <2>1, <2>2, <2>5 DEF RefInv, OnlyDeletersCut
  <2>10. FreshUncut'
    BY <2>1, <2>5 DEF RefInv, FreshUncut
  <2> QED
    BY <2>6, <2>7, <2>8, <2>9, <2>10 DEF RefInv
<1>15. CASE Commit(r)
  <2>1. /\ execs' = Mine(r) /\ accts' = accts \ cutA[r] /\ made' = made /\ Reset(r)
        /\ trades' = {x \in trades : x.id \notin cutT[r] /\ \A y \in put[r] : y.id # x.id}
                     \cup put[r]
    BY <1>15 DEF Commit
  <2>2. \A t : (TradeLives(t) /\ t \notin cutT[r]) \/ (\E x \in put[r] : x.id = t)
               => TradeLives(t)'
    BY <2>1 DEF TradeLives
  <2>3. ASSUME NEW e \in Mine(r) PROVE e.acct \in accts' /\ TradeLives(e.trade)'
    <3>1. CASE e \in upd[r]
      BY <1>c, <2>1, <2>2, <3>1 DEF Homed
    <3>2. CASE e \in execs /\ e.id \notin Held(r)
      BY <2>1, <2>2, <3>2 DEF RefInv, NoDanglingFill, CutsTakeAll, Held, TradeLives
    <3> QED
      BY <3>1, <3>2 DEF Mine
  <2>4. \A x \in Others(r) : \A e \in upd[x] : e.acct \in accts' /\ e.trade \notin cutT[r]
    BY <2>1 DEF RefInv, PendingHomed, Homed, Others
  <2> QED
    BY <1>0, <2>1, <2>2, <2>3, <2>4, RefReset
<1> QED
  BY <1>1, <1>2, <1>3, <1>4, <1>5, <1>6, <1>7, <1>8, <1>9, <1>10, <1>11, <1>12, <1>13,
     <1>14, <1>15 DEF Statement

LEMMA RefStep == HubInv /\ RefInv /\ [Next]_vars => RefInv'
<1> SUFFICES ASSUME HubInv, RefInv, [Next]_vars PROVE RefInv'
  OBVIOUS
<1>1. ASSUME NEW r \in Requests, TimedOut(r) PROVE RefInv'
  BY <1>1, RefAbort DEF HubInv, TimedOut
<1>2. CASE UNCHANGED vars
  BY <1>2 DEF vars, tables, txVars, RefInv, NoDanglingFill, PendingHomed, Homed, TradeLives,
              CutsTakeAll, OnlyDeletersCut, FreshUncut
<1> QED
  BY <1>1, <1>2, RefRequest, RefStatement DEF Next, Quiet

(* A committed fill always has its idea and its account, also when either  *)
(* is deleted, or the account emptied and its ideas swept, while the fill  *)
(* is being added, moved or promoted by another request: deletes wait for  *)
(* open writes below them, foreign keys for open deletes above.            *)
THEOREM FillsHaveParents == Spec => []NoDanglingFill
<1>1. Init => HubInv /\ RefInv
  BY TypeInit, BookInit, PrimaryInit, RefInit DEF HubInv
<1>2. RefInv => NoDanglingFill
  BY DEF RefInv
<1> QED
  BY <1>1, <1>2, HubStep, RefStep, PTL DEF Spec

-------------------------------------------------------------------------------
(* Exactly one primary fill, while nothing is removed. *)

NothingRemoved == \A r \in Requests : req'[r].op \notin {"remove", "deleteAccount"}

Unique(fills) == \A e, f \in fills : e.id = f.id => e = f
UniqueFills ==
  /\ Unique(execs)
  /\ \A r \in Requests : Unique(upd[r]) /\ (req[r].op = "create" => Unique(view[r]))
HasPrimary == \A t \in trades : \E e \in execs : e.trade = t.id /\ e.primary
NoneRemoved ==
  \A r \in Requests : /\ gone[r] = {} /\ cutT[r] = {}
                      /\ req[r].op \notin {"remove", "deleteAccount"}
                      /\ pc[r] \notin {"sweep", "cut"}

(* What an open transaction has written: for each primary fill it has      *)
(* rewritten a primary fill of the same idea, or at least, while it is     *)
(* clearing the way for one, nothing but fills of its idea.                *)
Stands(r) ==
  \A e \in execs : e.primary /\ e.id \in Ids(upd[r]) =>
    \E f \in upd[r] : f.primary /\ f.trade = e.trade
OfItsIdea(r) ==
  \A e \in execs : e.primary /\ e.id \in Ids(upd[r]) => e.trade = req[r].trade
WayCleared(r) ==
  /\ pc[r] \in {"clear", "clearing"} => req[r].primary
  /\ pc[r] \in {"insert", "write"} => OfItsIdea(r) /\ (req[r].primary \/ upd[r] = {})
  /\ pc[r] \notin {"insert", "write"} => Stands(r)

(* The fills it is about to clear are of its idea, and not new ones.       *)
Selected(r) ==
  pc[r] = "clearing" => \A id \in tgt[r] :
    /\ id < nextId
    /\ \A e \in execs : e.id = id => e.trade = req[r].trade
    /\ \A q \in Requests : /\ id \notin Reserved(q)
                           /\ \A e \in upd[q] : e.id = id => e.trade = req[r].trade

(* An idea it writes exists, or is new and comes with a primary fill.      *)
PutWhole(r) ==
  /\ \A y \in put[r] : \/ TradeLives(y.id)
                       \/ pc[r] = "commit" /\ \E f \in upd[r] : f.primary /\ f.trade = y.id
  /\ req[r].op = "create" => \E f \in view[r] : f.primary

WholeInv == /\ UniqueFills /\ HasPrimary /\ NoneRemoved
            /\ \A r \in Requests : WayCleared(r) /\ Selected(r) /\ PutWhole(r)

LEMMA WholeInit ==
  ASSUME Init, \A s \in Seeds : \A t \in s.trades : \E e \in s.execs : e.trade = t.id /\ e.primary
  PROVE  WholeInv
<1>1. PICK s \in Seeds : trades = s.trades /\ execs = s.execs
  BY DEF Init
<1>2. Unique(execs) /\ HasPrimary
  BY <1>1, SeedsAssumption DEF Unique, HasPrimary
<1>3. \A r \in Requests : /\ req[r] = NoReq /\ view[r] = {} /\ upd[r] = {} /\ put[r] = {}
                          /\ gone[r] = {} /\ cutT[r] = {} /\ pc[r] = "idle"
  BY DEF Init
<1>4. NoReq.op = "none"
  BY DEF NoReq
<1> QED
  BY <1>2, <1>3, <1>4 DEF WholeInv, UniqueFills, Unique, NoneRemoved, WayCleared, Stands, Ids,
                          Selected, PutWhole

(* A statement that writes fills, or ideas, in its transaction: versions   *)
(* of fills it sees, or the fills whose ids it was given.                  *)
LEMMA WholeMove ==
  ASSUME HubInv, WholeInv, NEW r \in Requests,
         UNCHANGED <<trades, execs, nextId, req, view, gone, cutT>>,
         \A x \in Requests : x # r => /\ upd'[x] = upd[x] /\ put'[x] = put[x]
                                     /\ tgt'[x] = tgt[x] /\ pc'[x] = pc[x],
         pc'[r] \notin {"sweep", "cut"},
         Unique(upd'[r]),
         \A e \in upd'[r] : \/ \E f \in execs \cup upd[r] : f.id = e.id /\ f.trade = e.trade
                            \/ e.id \in Reserved(r),
         WayCleared(r)', Selected(r)', PutWhole(r)'
  PROVE  WholeInv'
<1>1. UniqueFills'
  BY DEF WholeInv, UniqueFills, Unique
<1>2. HasPrimary' /\ NoneRemoved'
  BY DEF WholeInv, HasPrimary, NoneRemoved
<1>3. ASSUME NEW q \in Requests, q # r PROVE WayCleared(q)' /\ PutWhole(q)'
  BY <1>3 DEF WholeInv, WayCleared, Stands, OfItsIdea, PutWhole, TradeLives, Ids
<1>4. \A x \in Requests : Reserved(x)' = Reserved(x)
  BY DEF Reserved
<1>5. ASSUME NEW q \in Requests, q # r, pc'[q] = "clearing", NEW id \in tgt'[q]
      PROVE  /\ id < nextId'
             /\ \A e \in execs' : e.id = id => e.trade = req'[q].trade
             /\ \A x \in Requests : /\ id \notin Reserved(x)'
                                    /\ \A e \in upd'[x] : e.id = id => e.trade = req'[q].trade
  <2>1. /\ id < nextId
        /\ \A e \in execs : e.id = id => e.trade = req[q].trade
        /\ \A x \in Requests : /\ id \notin Reserved(x)
                               /\ \A e \in upd[x] : e.id = id => e.trade = req[q].trade
    BY <1>5 DEF WholeInv, Selected
  <2>2. \A e \in upd'[r] : e.id = id => e.trade = req[q].trade
    BY <2>1
  <2> QED
    BY <1>4, <2>1, <2>2
<1>6. \A q \in Requests : Selected(q)'
  BY <1>5 DEF Selected
<1> QED
  BY <1>1, <1>2, <1>3, <1>6 DEF WholeInv

(* The end of a request: what it leaves behind was there or it wrote it.   *)
LEMMA WholeReset ==
  ASSUME HubInv, WholeInv, NEW r \in Requests, Reset(r), nextId' = nextId,
         \A e \in execs' : e \in execs \/ e \in upd[r],
         Unique(execs'), HasPrimary',
         \A q \in Others(r) : \A y \in put[q] : TradeLives(y.id) => TradeLives(y.id)'
  PROVE  WholeInv'
<1>1. \A x \in Requests : x # r =>
        /\ req'[x] = req[x] /\ view'[x] = view[x] /\ upd'[x] = upd[x] /\ put'[x] = put[x]
        /\ gone'[x] = gone[x] /\ pc'[x] = pc[x] /\ cutT'[x] = cutT[x] /\ tgt'[x] = tgt[x]
  BY DEF Reset, HubInv, TypeInv, TypeOK
<1>2. /\ req'[r] = NoReq /\ view'[r] = {} /\ upd'[r] = {} /\ put'[r] = {} /\ gone'[r] = {}
      /\ cutT'[r] = {} /\ pc'[r] \in {"served", "idle"} /\ NoReq.op = "none"
  BY DEF Reset, HubInv, TypeInv, TypeOK, NoReq
<1>3. UniqueFills'
  BY <1>1, <1>2 DEF WholeInv, UniqueFills, Unique
<1>4. NoneRemoved'
  BY <1>1, <1>2 DEF WholeInv, NoneRemoved
<1>5. WayCleared(r)' /\ Selected(r)' /\ PutWhole(r)'
  BY <1>2 DEF WayCleared, Stands, Ids, Selected, PutWhole
<1>6. \A x \in Requests : Reserved(x)' \subseteq Reserved(x) /\ upd'[x] \subseteq upd[x]
  BY <1>1, <1>2 DEF Reserved, Ids
<1>7. ASSUME NEW q \in Requests, q # r PROVE WayCleared(q)' /\ Selected(q)' /\ PutWhole(q)'
  <2>1. ASSUME NEW e \in execs', e.id \in Ids(upd[q]) PROVE e \in execs
    <3>1. CASE e \in upd[r]
      <4>1. e.id \in Held(r) \cap Held(q)
        BY <2>1, <3>1 DEF Held, Ids
      <4> QED
        BY <1>7, <4>1 DEF HubInv, PrimaryInv, FillLocksExclusive
    <3> QED
      BY <3>1
  <2>2. Stands(q) => Stands(q)'
    BY <1>1, <1>7, <2>1 DEF Stands, Ids
  <2>3. OfItsIdea(q) => OfItsIdea(q)'
    BY <1>1, <1>7, <2>1 DEF OfItsIdea, Ids
  <2>4. WayCleared(q)'
    BY <1>1, <1>7, <2>2, <2>3 DEF WholeInv, WayCleared
  <2>5. Selected(q)'
    BY <1>1, <1>6, <1>7 DEF WholeInv, Selected
  <2>6. PutWhole(q)'
    BY <1>1, <1>7 DEF WholeInv, PutWhole, Others
  <2> QED
    BY <2>4, <2>5, <2>6
<1> QED
  BY <1>3, <1>4, <1>5, <1>7 DEF WholeInv

LEMMA WholeAbort ==
  ASSUME HubInv, WholeInv, NEW r \in Requests, Abort(r)
  PROVE  WholeInv'
<1>1. Reset(r) /\ UNCHANGED <<trades, execs, nextId>>
  BY DEF Abort, tables
<1>2. Unique(execs') /\ HasPrimary' /\ \A t : TradeLives(t)' = TradeLives(t)
  BY <1>1 DEF WholeInv, UniqueFills, Unique, HasPrimary, TradeLives
<1> QED
  BY <1>1, <1>2, WholeReset

(* A new request: the ids it is given have never been used.                *)
LEMMA WholeArrive ==
  ASSUME HubInv, HubInv', WholeInv, NothingRemoved,
         NEW r \in Requests, NEW q, NEW at, Arrive(r, q, at),
         at \in {"createMany", "clear", "insert", "write", "putTrade", "dropTrade"},
         at = "clear" => q.primary,
         NEW V, view' = [view EXCEPT ![r] = V],
         nextId' \in {nextId, nextId + 1, nextId + 2},
         \/ q.op = "create" /\ Unique(V) /\ (\E f \in V : f.primary)
            /\ \A e \in V : e.id >= nextId
         \/ q.op = "add" /\ q.exec = nextId
         \/ q.op \notin {"create", "add"}
  PROVE  WholeInv'
<1>1. /\ \A x \in Requests : x # r => req'[x] = req[x] /\ view'[x] = view[x] /\ pc'[x] = pc[x]
      /\ req'[r] = q /\ view'[r] = V /\ pc[r] = "idle" /\ pc'[r] = at
      /\ UNCHANGED <<trades, execs, upd, gone, put, cutT, tgt>>
  BY DEF Arrive, HubInv, TypeInv, TypeOK, txVars
<1>2. upd[r] = {} /\ q.op \notin {"remove", "deleteAccount"}
  BY <1>1 DEF Arrive, HubInv, BookInv, Unwritten, NothingRemoved
<1>3. UniqueFills' /\ HasPrimary' /\ NoneRemoved'
  BY <1>1, <1>2 DEF WholeInv, UniqueFills, Unique, HasPrimary, NoneRemoved
<1>4. nextId \in Nat /\ nextId' >= nextId
  BY DEF HubInv, TypeInv, TypeOK
<1>5. \A id \in Reserved(r)' : id \notin 0..(nextId - 1)
  <2>1. CASE q.op = "create"
    <3>1. \A e \in V : e.id \notin 0..(nextId - 1)
      <4>1. \A e \in V : e.id >= nextId /\ e.id \in 1..MaxId
        BY <1>1, <2>1 DEF HubInv, TypeInv, TypeOK, Exec
      <4> QED
        BY <1>4, <4>1
    <3> QED
      BY <1>1, <2>1, <3>1 DEF Reserved, Ids
  <2>2. CASE q.op = "add"
    BY <1>1, <1>4, <2>2 DEF Reserved
  <2>3. CASE q.op \notin {"create", "add"}
    BY <1>1, <2>3 DEF Reserved
  <2> QED
    BY <2>1, <2>2, <2>3
<1>6. WayCleared(r)' /\ Selected(r)' /\ PutWhole(r)'
  BY <1>1, <1>2 DEF WholeInv, WayCleared, Stands, OfItsIdea, Ids, Selected, PutWhole, TradeLives
<1>7. ASSUME NEW x \in Requests, x # r PROVE WayCleared(x)' /\ Selected(x)' /\ PutWhole(x)'
  <2>1. WayCleared(x)' /\ PutWhole(x)'
    BY <1>1, <1>7 DEF WholeInv, WayCleared, Stands, OfItsIdea, Ids, PutWhole, TradeLives
  <2>2. ASSUME pc'[x] = "clearing", NEW id \in tgt'[x]
        PROVE  /\ id < nextId'
               /\ \A e \in execs' : e.id = id => e.trade = req'[x].trade
               /\ \A y \in Requests : /\ id \notin Reserved(y)'
                                      /\ \A e \in upd'[y] : e.id = id => e.trade = req'[x].trade
    <3>1. /\ id < nextId /\ id \in 1..MaxId
          /\ \A e \in execs : e.id = id => e.trade = req[x].trade
          /\ \A y \in Requests : /\ id \notin Reserved(y)
                                 /\ \A e \in upd[y] : e.id = id => e.trade = req[x].trade
      BY <1>1, <1>7, <2>2 DEF WholeInv, Selected, HubInv, TypeInv, TypeOK
    <3>2. id \in 0..(nextId - 1) /\ id < nextId'
      BY <1>4, <3>1 DEF HubInv, TypeInv, TypeOK
    <3>3. \A y \in Requests : y # r => Reserved(y)' = Reserved(y)
      BY <1>1 DEF Reserved
    <3> QED
      BY <1>1, <1>5, <1>7, <3>1, <3>2, <3>3
  <2>3. Selected(x)'
    BY <2>2 DEF Selected
  <2> QED
    BY <2>1, <2>3
<1> QED
  BY <1>3, <1>6, <1>7 DEF WholeInv

LEMMA WholeRequest ==
  ASSUME HubInv, HubInv', WholeInv, NothingRemoved, NEW r \in Requests, NewRequest(r)
  PROVE  WholeInv'
<1>0. nextId \in Nat
  BY DEF HubInv, TypeInv, TypeOK
<1>1. CASE CreateTrade(r)
  <2>1. PICK t \in Trades \ made, a \in accts, b \in accts, plan \in Plans, p \in Prices,
             two \in BOOLEAN, marked \in 1..2 :
          LET n == IF two THEN 2 ELSE 1 IN
          /\ nextId + n <= MaxId + 1 /\ marked <= n
          /\ Arrive(r, [NoReq EXCEPT !.op = "create", !.trade = t, !.plan = plan], "createMany")
          /\ made' = made \cup {t}
          /\ nextId' = nextId + n
          /\ view' = [view EXCEPT ![r] =
               {NewFill(nextId, t, a, marked = 1, p, plan)}
               \cup (IF two THEN {NewFill(nextId + 1, t, b, marked = 2, p, plan)} ELSE {})]
          /\ UNCHANGED orphans
    BY <1>1 DEF CreateTrade
  <2> DEFINE q == [NoReq EXCEPT !.op = "create", !.trade = t, !.plan = plan]
             f == NewFill(nextId, t, a, marked = 1, p, plan)
             g == NewFill(nextId + 1, t, b, marked = 2, p, plan)
             V == {f} \cup (IF two THEN {g} ELSE {})
  <2>2. /\ f.id = nextId /\ (marked = 1 => f.primary)
        /\ g.id = nextId + 1 /\ (marked = 2 => g.primary)
        /\ q.op = "create" /\ view' = [view EXCEPT ![r] = V]
        /\ nextId' \in {nextId, nextId + 1, nextId + 2}
    BY <2>1 DEF NewFill, NoReq
  <2>3. two \/ marked = 1
    BY <2>1
  <2>4. Arrive(r, q, "createMany")
    BY <2>1
  <2> HIDE DEF f, g, q
  <2>5. Unique(V) /\ (\E e \in V : e.primary) /\ \A e \in V : e.id >= nextId
    <3>1. \A e \in V : e = f \/ e = g
      OBVIOUS
    <3>2. f.primary \/ (two /\ g.primary)
      BY <2>2, <2>3
    <3>3. f \in V /\ (two => g \in V)
      OBVIOUS
    <3> QED
      BY <1>0, <2>2, <3>1, <3>2, <3>3 DEF Unique
  <2> HIDE DEF V
  <2> QED
    BY <2>2, <2>4, <2>5, WholeArrive
<1>2. CASE UpdateTrade(r)
  <2>1. PICK t \in Trades, plan \in Plans :
          /\ Load(r, t) /\ UNCHANGED nextId
          /\ Arrive(r, [NoReq EXCEPT !.op = "update", !.trade = t, !.plan = plan,
                                     !.primary = (plan # PlanOf(t))], "putTrade")
    BY <1>2 DEF UpdateTrade
  <2> DEFINE q == [NoReq EXCEPT !.op = "update", !.trade = t, !.plan = plan,
                                !.primary = (plan # PlanOf(t))]
  <2>2. q.op = "update" /\ Arrive(r, q, "putTrade") /\ view' = [view EXCEPT ![r] = Fills(t)]
    BY <2>1 DEF Load, NoReq
  <2> HIDE DEF q
  <2> QED
    BY <2>1, <2>2, WholeArrive
<1>3. CASE DeleteTrade(r)
  <2>1. PICK t \in Trades :
          /\ Load(r, t) /\ UNCHANGED nextId
          /\ Arrive(r, [NoReq EXCEPT !.op = "delete", !.trade = t], "dropTrade")
    BY <1>3 DEF DeleteTrade
  <2> DEFINE q == [NoReq EXCEPT !.op = "delete", !.trade = t]
  <2>2. q.op = "delete" /\ Arrive(r, q, "dropTrade") /\ view' = [view EXCEPT ![r] = Fills(t)]
    BY <2>1 DEF Load, NoReq
  <2> HIDE DEF q
  <2> QED
    BY <2>1, <2>2, WholeArrive
<1>4. CASE AddExecution(r)
  <2>1. PICK t \in Trades, a \in accts, p \in Prices, w \in BOOLEAN :
          /\ Load(r, t)
          /\ nextId <= MaxId /\ nextId' = nextId + 1
          /\ Arrive(r, [NoReq EXCEPT !.op = "add", !.trade = t, !.exec = nextId, !.acct = a,
                                     !.price = p, !.plan = PlanOf(t), !.primary = w],
                    IF w THEN "clear" ELSE "insert")
    BY <1>4 DEF AddExecution
  <2> DEFINE q == [NoReq EXCEPT !.op = "add", !.trade = t, !.exec = nextId, !.acct = a,
                                !.price = p, !.plan = PlanOf(t), !.primary = w]
             at == IF w THEN "clear" ELSE "insert"
  <2>2. /\ q.op = "add" /\ q.exec = nextId /\ q.primary = w
        /\ Arrive(r, q, at) /\ view' = [view EXCEPT ![r] = Fills(t)]
    BY <2>1 DEF Load, NoReq
  <2>3. at \in {"clear", "insert"} /\ (at = "clear" => w)
    OBVIOUS
  <2> HIDE DEF q, at
  <2> QED
    BY <2>1, <2>2, <2>3, WholeArrive
<1>5. CASE UpdateExecution(r)
  <2>1. PICK t \in Trades, e \in execs, a \in accts \cup {None}, p \in Prices, w \in BOOLEAN :
          /\ Load(r, t) /\ UNCHANGED nextId
          /\ Arrive(r, [NoReq EXCEPT !.op = "edit", !.trade = t, !.exec = e.id, !.acct = a,
                                     !.price = p, !.plan = PlanOf(t),
                                     !.primary = (w /\ ~ e.primary)],
                    IF w /\ ~ e.primary THEN "clear" ELSE "write")
    BY <1>5, ZenonT(40) DEF UpdateExecution
  <2> DEFINE q == [NoReq EXCEPT !.op = "edit", !.trade = t, !.exec = e.id, !.acct = a,
                                !.price = p, !.plan = PlanOf(t),
                                !.primary = (w /\ ~ e.primary)]
             at == IF w /\ ~ e.primary THEN "clear" ELSE "write"
  <2>2. /\ q.op = "edit" /\ q.primary = (w /\ ~ e.primary)
        /\ Arrive(r, q, at) /\ view' = [view EXCEPT ![r] = Fills(t)]
    BY <2>1 DEF Load, NoReq
  <2>3. at \in {"clear", "write"} /\ (at = "clear" => w /\ ~ e.primary)
    OBVIOUS
  <2> HIDE DEF q, at
  <2> QED
    BY <2>1, <2>2, <2>3, WholeArrive
<1>6. CASE SetPrimaryExecution(r)
  <2>1. PICK t \in Trades, e \in execs :
          /\ Load(r, t) /\ UNCHANGED nextId
          /\ Arrive(r, [NoReq EXCEPT !.op = "setPrimary", !.trade = t, !.exec = e.id,
                                     !.primary = TRUE], "clear")
    BY <1>6 DEF SetPrimaryExecution
  <2> DEFINE q == [NoReq EXCEPT !.op = "setPrimary", !.trade = t, !.exec = e.id, !.primary = TRUE]
  <2>2. /\ q.op = "setPrimary" /\ q.primary
        /\ Arrive(r, q, "clear") /\ view' = [view EXCEPT ![r] = Fills(t)]
    BY <2>1 DEF Load, NoReq
  <2> HIDE DEF q
  <2> QED
    BY <2>1, <2>2, WholeArrive
<1>7. ~ RemoveExecution(r) /\ ~ DeleteAccount(r)
  <2>1. \A q, at : Arrive(r, q, at) => q.op \notin {"remove", "deleteAccount"}
    BY DEF Arrive, NothingRemoved, HubInv, TypeInv, TypeOK
  <2>2. ASSUME RemoveExecution(r) PROVE FALSE
    <3>1. PICK t, e : Arrive(r, [NoReq EXCEPT !.op = "remove", !.trade = t, !.exec = e.id,
                                              !.primary = e.primary], "remove")
      BY <2>2 DEF RemoveExecution
    <3> DEFINE q == [NoReq EXCEPT !.op = "remove", !.trade = t, !.exec = e.id, !.primary = e.primary]
    <3>2. q.op = "remove" /\ Arrive(r, q, "remove")
      BY <3>1 DEF NoReq
    <3> QED
      BY <2>1, <3>2
  <2>3. ASSUME DeleteAccount(r) PROVE FALSE
    <3>1. PICK a : Arrive(r, [NoReq EXCEPT !.op = "deleteAccount", !.acct = a], "dropAccount")
      BY <2>3 DEF DeleteAccount
    <3> DEFINE q == [NoReq EXCEPT !.op = "deleteAccount", !.acct = a]
    <3>2. q.op = "deleteAccount" /\ Arrive(r, q, "dropAccount")
      BY <3>1 DEF NoReq
    <3> QED
      BY <2>1, <3>2
  <2> QED
    BY <2>2, <2>3
<1> QED
  BY <1>1, <1>2, <1>3, <1>4, <1>5, <1>6, <1>7 DEF NewRequest

LEMMA WholeStatement ==
  ASSUME HubInv, WholeInv, NEW r \in Requests, Statement(r)
  PROVE  WholeInv'
<1> DEFINE q == req[r]
<1>0. TypeInv /\ TypeOK /\ BookInv /\ FreshIds /\ SameIdea /\ UsedIds
  BY DEF HubInv, TypeInv, BookInv
<1>a. /\ WayCleared(r) /\ Selected(r) /\ PutWhole(r)
      /\ Unique(execs) /\ Unique(upd[r]) /\ gone[r] = {} /\ cutT[r] = {}
  BY DEF WholeInv, UniqueFills, NoneRemoved
<1>b. \A at : Goto(r, at) => pc'[r] = at /\ \A x \in Requests : x # r => pc'[x] = pc[x]
  BY <1>0 DEF Goto, TypeOK
<1>c. \A n : Write(r, n) => /\ upd'[r] = {f \in upd[r] : f.id # n.id} \cup {n}
                            /\ \A x \in Requests : x # r => upd'[x] = upd[x]
  BY <1>0 DEF Write, TypeOK
<1>d. \A id \in Reserved(r) : id \notin Ids(execs)
  BY <1>0 DEF FreshIds
<1>e. \A e \in Mine(r) : e \in Versions /\ e \in execs \cup upd[r]
  BY <1>0 DEF Mine, Versions, TypeOK
<1>f. \A e \in execs : e \in Versions
  BY <1>0 DEF Versions, TypeOK
<1>1. CASE CreateMany(r)
  <2>1. CASE Abort(r)
    BY <2>1, WholeAbort
  <2>2. CASE ~ Abort(r)
    <3>1. /\ pc[r] = "createMany" /\ Goto(r, "commit")
          /\ upd' = [upd EXCEPT ![r] = view[r]]
          /\ put' = [put EXCEPT ![r] = {[id |-> q.trade, plan |-> q.plan]}]
          /\ UNCHANGED <<trades, execs, nextId, req, view, gone, cutT, tgt>>
      BY <1>1, <2>2 DEF CreateMany, tables
    <3>2. /\ \A x \in Requests : x # r => upd'[x] = upd[x] /\ put'[x] = put[x]
          /\ upd'[r] = view[r] /\ \A y \in put'[r] : y.id = q.trade
      BY <1>0, <3>1 DEF TypeOK
    <3>3. q.op = "create" /\ Reserved(r) = Ids(view[r])
      BY <1>0, <3>1 DEF TypeInv, PcOK, Reserved
    <3>4. Unique(view[r]) /\ \E f \in view[r] : f.primary
      BY <1>a, <3>3 DEF WholeInv, UniqueFills, PutWhole
    <3>5. \A e \in view[r] : e.id \in Reserved(r) /\ e.trade = q.trade
      BY <1>0, <3>3 DEF Ids, SameIdea
    <3>6. Stands(r)'
      BY <1>d, <3>1, <3>2, <3>3 DEF Stands, Ids
    <3> HIDE DEF q
    <3>7. WayCleared(r)' /\ Selected(r)'
      BY <1>b, <3>1, <3>6 DEF WayCleared, Selected
    <3>8. PutWhole(r)'
      BY <1>b, <3>1, <3>2, <3>4, <3>5 DEF PutWhole
    <3> QED
      BY <1>b, <3>1, <3>2, <3>4, <3>5, <3>7, <3>8, WholeMove
  <2> QED
    BY <2>1, <2>2
<1>2. CASE Clear(r)
  <2> DEFINE S == Ids({e \in Fills(q.trade) : e.primary})
  <2>1. /\ pc[r] = "clear" /\ Goto(r, "clearing") /\ tgt' = [tgt EXCEPT ![r] = S]
        /\ UNCHANGED <<trades, execs, nextId, req, view, upd, gone, put, cutT>>
    BY <1>2 DEF Clear, tables, txVars
  <2>2. \A id \in S : \E e \in execs : e.id = id /\ e.trade = q.trade
    BY DEF Ids, Fills
  <2> HIDE DEF S
  <2>3. tgt'[r] = S /\ \A x \in Requests : x # r => tgt'[x] = tgt[x]
    BY <1>0, <2>1 DEF TypeOK
  <2>4. \A x \in Requests : Reserved(x)' = Reserved(x)
    BY <2>1 DEF Reserved
  <2>5. ASSUME NEW id \in S
        PROVE  /\ id < nextId
               /\ \A e \in execs : e.id = id => e.trade = q.trade
               /\ \A x \in Requests : /\ id \notin Reserved(x)
                                      /\ \A e \in upd[x] : e.id = id => e.trade = q.trade
    <3>1. PICK e \in execs : e.id = id /\ e.trade = q.trade
      BY <2>2
    <3>2. \A f \in Versions : f.id = id => f.trade = q.trade
      BY <1>0, <1>f, <3>1 DEF SameIdea
    <3>3. \A x \in Requests : \A f \in upd[x] : f \in Versions
      BY <1>0 DEF Versions, TypeOK
    <3>4. \A x \in Requests : id \notin Reserved(x)
      BY <1>0, <3>1 DEF FreshIds, Ids
    <3> QED
      BY <1>0, <1>f, <3>1, <3>2, <3>3, <3>4 DEF UsedIds
  <2>6. Selected(r)'
    BY <2>1, <2>3, <2>4, <2>5 DEF Selected
  <2>7. Stands(r) /\ q.primary
    BY <1>a, <2>1 DEF WayCleared
  <2>8. WayCleared(r)'
    BY <1>b, <2>1, <2>7 DEF WayCleared, Stands, Ids
  <2>9. PutWhole(r)'
    BY <1>a, <1>b, <2>1 DEF PutWhole, TradeLives
  <2> QED
    BY <1>a, <1>b, <2>1, <2>3, <2>6, <2>8, <2>9, WholeMove
<1>3. CASE Clearing(r)
  <2> DEFINE S == {[e EXCEPT !.primary = FALSE] : e \in {f \in execs : f.id \in tgt[r] /\ f.primary}}
             at == IF q.op = "add" THEN "insert" ELSE "write"
  <2>1. /\ pc[r] = "clearing" /\ Goto(r, at)
        /\ upd' = [upd EXCEPT ![r] = S] /\ tgt' = [tgt EXCEPT ![r] = {}]
        /\ UNCHANGED <<trades, execs, nextId, req, view, gone, put, cutT>>
    BY <1>3 DEF Clearing, tables
  <2>2. \A n \in S : \E e \in execs : /\ e.id \in tgt[r] /\ n = [e EXCEPT !.primary = FALSE]
                                      /\ n.id = e.id /\ n.trade = e.trade
    BY <1>0 DEF TypeOK, Exec
  <2>3. at \in {"insert", "write"}
    OBVIOUS
  <2> HIDE DEF S, at
  <2>4. /\ upd'[r] = S
        /\ \A x \in Requests : x # r => upd'[x] = upd[x] /\ tgt'[x] = tgt[x]
    BY <1>0, <2>1 DEF TypeOK
  <2>5. Unique(S)
    <3> SUFFICES ASSUME NEW n \in S, NEW m \in S, n.id = m.id PROVE n = m
      BY DEF Unique
    <3>1. PICK e \in execs : n = [e EXCEPT !.primary = FALSE] /\ n.id = e.id
      BY <2>2
    <3>2. PICK f \in execs : m = [f EXCEPT !.primary = FALSE] /\ m.id = f.id
      BY <2>2
    <3>3. e = f
      BY <1>a, <3>1, <3>2 DEF Unique
    <3> QED
      BY <3>1, <3>2, <3>3
  <2>6. OfItsIdea(r)'
    BY <1>a, <2>1, <2>2, <2>4 DEF OfItsIdea, Ids, Selected
  <2>7. WayCleared(r)'
    BY <1>a, <1>b, <2>1, <2>3, <2>6 DEF WayCleared
  <2>8. PutWhole(r)' /\ Selected(r)'
    BY <1>a, <1>b, <2>1, <2>3 DEF PutWhole, TradeLives, Selected
  <2> QED
    BY <1>b, <2>1, <2>2, <2>3, <2>4, <2>5, <2>7, <2>8, WholeMove
<1>4. CASE Insert(r)
  <2>1. CASE Abort(r)
    BY <2>1, WholeAbort
  <2>2. CASE ~ Abort(r)
    <3> DEFINE n == NewFill(q.exec, q.trade, q.acct, q.primary, q.price, q.plan)
    <3>1. /\ pc[r] = "insert" /\ Goto(r, "commit") /\ Write(r, n)
          /\ UNCHANGED <<trades, execs, nextId, req, view, gone, put, cutT, tgt>>
      BY <1>4, <2>2 DEF Insert, tables
    <3>2. n.id = q.exec /\ n.trade = q.trade /\ n.primary = q.primary
      BY DEF NewFill
    <3>3. n.id \in Reserved(r)
      BY <1>0, <3>1, <3>2 DEF TypeInv, PcOK, Reserved
    <3> HIDE DEF n
    <3>4. upd'[r] = {f \in upd[r] : f.id # n.id} \cup {n}
      BY <1>c, <3>1
    <3>5. Unique(upd'[r])
      BY <1>a, <3>4 DEF Unique
    <3>6. OfItsIdea(r) /\ (q.primary \/ upd[r] = {})
      BY <1>a, <3>1 DEF WayCleared
    <3>7. Stands(r)'
      <4> SUFFICES ASSUME NEW e \in execs, e.primary, e.id \in Ids(upd'[r])
                   PROVE  \E f \in upd'[r] : f.primary /\ f.trade = e.trade
        BY <3>1 DEF Stands, Ids
      <4>1. e.id # n.id
        BY <1>d, <3>3 DEF Ids
      <4>2. e.id \in Ids(upd[r])
        BY <3>4, <4>1 DEF Ids
      <4>3. q.primary /\ e.trade = q.trade
        BY <3>6, <4>2 DEF OfItsIdea, Ids
      <4> QED
        BY <3>2, <3>4, <4>3
    <3>8. WayCleared(r)' /\ Selected(r)' /\ PutWhole(r)'
      BY <1>a, <1>b, <3>1, <3>7 DEF WayCleared, Selected, PutWhole, TradeLives
    <3>9. \A f \in upd'[r] : f \in upd[r] \/ f.id \in Reserved(r)
      BY <3>3, <3>4
    <3>10. \A x \in Requests : x # r => /\ upd'[x] = upd[x] /\ put'[x] = put[x]
                                        /\ tgt'[x] = tgt[x] /\ pc'[x] = pc[x]
      BY <1>b, <1>c, <3>1
    <3>11. pc'[r] = "commit"
      BY <1>b, <3>1
    <3> HIDE DEF q
    <3> QED
      BY <3>1, <3>5, <3>8, <3>9, <3>10, <3>11, WholeMove
  <2> QED
    BY <2>1, <2>2
<1>5. CASE WriteOne(r)
  <2>1. CASE Abort(r)
    BY <2>1, WholeAbort
  <2>2. CASE ~ Abort(r)
    <3>1. /\ pc[r] = "write" /\ Goto(r, "commit")
          /\ \E e \in Latest(q.exec, r) : Write(r, Patched(r, e))
          /\ UNCHANGED <<trades, execs, nextId, req, view, gone, put, cutT, tgt>>
      BY <1>5, <2>2 DEF WriteOne, tables
    <3>2. PICK e \in Latest(q.exec, r) : Write(r, Patched(r, e))
      BY <3>1
    <3>3. e \in Mine(r) /\ e \in Exec /\ e.id = q.exec
      BY <1>0, SeenTyped DEF Latest
    <3> DEFINE n == Patched(r, e)
    <3>4. n.id = e.id /\ n.trade = e.trade /\ n.primary = (e.primary \/ q.primary)
      BY <3>3 DEF Patched, Exec
    <3>5. Write(r, n)
      BY <3>2
    <3> HIDE DEF n
    <3>6. upd'[r] = {f \in upd[r] : f.id # n.id} \cup {n} /\ e \in Versions
      BY <1>c, <1>e, <3>3, <3>5
    <3>7. Unique(upd'[r])
      BY <1>a, <3>6 DEF Unique
    <3>8. OfItsIdea(r) /\ (q.primary \/ upd[r] = {})
      BY <1>a, <3>1 DEF WayCleared
    <3>9. e.trade = q.trade
      BY <1>0, <3>3, <3>6 DEF SameIdea
    <3>10. Stands(r)'
      <4> SUFFICES ASSUME NEW f \in execs, f.primary, f.id \in Ids(upd'[r])
                   PROVE  n.primary /\ n.trade = f.trade
        BY <3>1, <3>6 DEF Stands, Ids
      <4>1. f.trade = q.trade
        <5>1. CASE f.id = q.exec
          BY <1>0, <1>f, <5>1 DEF SameIdea
        <5>2. CASE f.id # q.exec
          <6>1. f.id \in Ids(upd[r])
            BY <3>3, <3>4, <3>6, <5>2 DEF Ids
          <6> QED
            BY <3>8, <6>1 DEF OfItsIdea
        <5> QED
          BY <5>1, <5>2
      <4>2. CASE q.primary
        BY <3>4, <3>9, <4>1, <4>2
      <4>3. CASE ~ q.primary
        <5>1. upd[r] = {} /\ e \in execs
          BY <3>3, <3>8, <4>3 DEF Mine
        <5>2. f.id = e.id
          BY <3>4, <3>6, <5>1 DEF Ids
        <5>3. f = e
          BY <1>a, <5>1, <5>2 DEF Unique
        <5> QED
          BY <3>4, <5>3
      <4> QED
        BY <4>2, <4>3
    <3>11. WayCleared(r)' /\ Selected(r)' /\ PutWhole(r)'
      BY <1>a, <1>b, <3>1, <3>10 DEF WayCleared, Selected, PutWhole, TradeLives
    <3>12. \A f \in upd'[r] : \E g \in execs \cup upd[r] : g.id = f.id /\ g.trade = f.trade
      BY <1>e, <3>3, <3>4, <3>6
    <3>13. \A x \in Requests : x # r => /\ upd'[x] = upd[x] /\ put'[x] = put[x]
                                        /\ tgt'[x] = tgt[x] /\ pc'[x] = pc[x]
      BY <1>b, <1>c, <3>1, <3>5
    <3>14. pc'[r] = "commit"
      BY <1>b, <3>1
    <3> HIDE DEF q
    <3> QED
      BY <3>1, <3>7, <3>11, <3>12, <3>13, <3>14, WholeMove
  <2> QED
    BY <2>1, <2>2
<1>6. CASE PutTrade(r)
  <2>1. CASE Abort(r)
    BY <2>1, WholeAbort
  <2>2. CASE ~ Abort(r)
    <3> DEFINE at == IF q.primary THEN "rewrite" ELSE "commit"
               S == IF q.primary THEN Ids(view[r]) ELSE {}
    <3>1. /\ pc[r] = "putTrade" /\ Goto(r, at) /\ TradeLives(q.trade)
          /\ put' = [put EXCEPT ![r] = {[id |-> q.trade, plan |-> q.plan]}]
          /\ tgt' = [tgt EXCEPT ![r] = S]
          /\ UNCHANGED <<trades, execs, nextId, req, view, upd, gone, cutT>>
      BY <1>6, <2>2 DEF PutTrade, tables
    <3>2. at \in {"rewrite", "commit"}
      OBVIOUS
    <3> HIDE DEF at, S
    <3>3. /\ \A x \in Requests : x # r => put'[x] = put[x] /\ tgt'[x] = tgt[x]
          /\ \A y \in put'[r] : y.id = q.trade
      BY <1>0, <3>1 DEF TypeOK
    <3> HIDE DEF q
    <3>4. Stands(r)'
      BY <1>a, <3>1 DEF WayCleared, Stands, Ids
    <3>5. PutWhole(r)'
      BY <1>a, <3>1, <3>3 DEF PutWhole, TradeLives
    <3>6. WayCleared(r)' /\ Selected(r)'
      BY <1>b, <3>1, <3>2, <3>4 DEF WayCleared, Selected
    <3> QED
      BY <1>a, <1>b, <3>1, <3>2, <3>3, <3>5, <3>6, WholeMove
  <2> QED
    BY <2>1, <2>2
<1>7. CASE Rewrite(r)
  <2>1. CASE Abort(r)
    BY <2>1, WholeAbort
  <2>2. CASE ~ Abort(r)
    <3> DEFINE New(e, v) == [e EXCEPT !.metrics = [plan |-> q.plan, price |-> v.price]]
    <3>1. /\ pc[r] = "rewrite"
          /\ \E v \in NextLoaded(r) :
               /\ \E e \in Latest(v.id, r) : Write(r, New(e, v))
               /\ tgt' = [tgt EXCEPT ![r] = @ \ {v.id}]
          /\ UNCHANGED <<trades, execs, nextId, pc, req, view, gone, put, cutT>>
      BY <1>7, <2>2 DEF Rewrite, tables
    <3>2. PICK v \in NextLoaded(r) :
            /\ \E e \in Latest(v.id, r) : Write(r, New(e, v))
            /\ tgt' = [tgt EXCEPT ![r] = @ \ {v.id}]
      BY <3>1
    <3>3. PICK e \in Latest(v.id, r) : Write(r, New(e, v))
      BY <3>2
    <3>4. e \in Mine(r) /\ e \in Exec
      BY <1>0, SeenTyped DEF Latest
    <3> DEFINE n == New(e, v)
    <3>5. n.id = e.id /\ n.trade = e.trade /\ n.primary = e.primary /\ Write(r, n)
      BY <3>3, <3>4 DEF Exec
    <3> HIDE DEF n
    <3>6. upd'[r] = {f \in upd[r] : f.id # n.id} \cup {n} /\ e \in execs \cup upd[r]
      BY <1>c, <1>e, <3>4, <3>5
    <3>7. Unique(upd'[r])
      BY <1>a, <3>6 DEF Unique
    <3>8. \A x \in Requests : x # r => tgt'[x] = tgt[x]
      BY <1>0, <3>2 DEF TypeOK
    <3>9. \A f \in upd[r] : f.id = n.id => f = e
      BY <1>a, <3>4, <3>5 DEF Mine, Held, Ids, Unique
    <3>10. Stands(r)'
      <4> SUFFICES ASSUME NEW f \in execs, f.primary, f.id \in Ids(upd'[r])
                   PROVE  \E g \in upd'[r] : g.primary /\ g.trade = f.trade
        BY <3>1 DEF Stands, Ids
      <4>1. CASE f.id \in Ids(upd[r])
        <5>1. PICK g \in upd[r] : g.primary /\ g.trade = f.trade
          BY <1>a, <3>1, <4>1 DEF WayCleared, Stands
        <5> QED
          BY <3>5, <3>6, <3>9, <5>1
      <4>2. CASE f.id \notin Ids(upd[r])
        <5>1. f.id = e.id
          BY <3>5, <3>6, <4>2 DEF Ids
        <5>2. e \in execs
          BY <3>6, <4>2, <5>1 DEF Ids
        <5> QED
          BY <1>a, <3>5, <3>6, <5>1, <5>2 DEF Unique
      <4> QED
        BY <4>1, <4>2
    <3>11. WayCleared(r)' /\ Selected(r)' /\ PutWhole(r)'
      BY <1>a, <3>1, <3>10 DEF WayCleared, Selected, PutWhole, TradeLives
    <3> QED
      BY <1>c, <3>1, <3>5, <3>6, <3>7, <3>8, <3>11, WholeMove
  <2> QED
    BY <2>1, <2>2
<1>8. CASE Rewritten(r)
  <2>1. /\ pc[r] = "rewrite" /\ Goto(r, "commit")
        /\ UNCHANGED <<trades, execs, nextId, req, view, upd, gone, put, cutT, tgt>>
    BY <1>8 DEF Rewritten, tables, txVars
  <2>2. WayCleared(r)' /\ Selected(r)' /\ PutWhole(r)'
    BY <1>a, <1>b, <2>1 DEF WayCleared, Stands, Ids, Selected, PutWhole, TradeLives
  <2> QED
    BY <1>a, <1>b, <2>1, <2>2, WholeMove
<1>9. CASE DropTrade(r)
  <2>1. /\ ~ TradeInUse(q.trade, r) /\ Reset(r)
        /\ trades' = {x \in trades : x.id # q.trade}
        /\ execs' = {e \in execs : e.trade # q.trade}
        /\ nextId' = nextId
    BY <1>9 DEF DropTrade
  <2>2. Unique(execs') /\ HasPrimary'
    BY <1>a, <2>1 DEF WholeInv, Unique, HasPrimary
  <2>3. \A x \in Others(r) : \A y \in put[x] : TradeLives(y.id) => TradeLives(y.id)'
    BY <2>1 DEF TradeInUse, TradeLives
  <2> QED
    BY <2>1, <2>2, <2>3, WholeReset
<1>10. CASE Commit(r)
  <2>1. /\ pc[r] = "commit" /\ execs' = Mine(r) /\ Reset(r) /\ nextId' = nextId
        /\ trades' = {x \in trades : \A y \in put[r] : y.id # x.id} \cup put[r]
    BY <1>10, <1>a DEF Commit
  <2>2. Unique(Mine(r))
    BY <1>a DEF Unique, Mine, Held, Ids
  <2>3. ASSUME NEW t \in trades PROVE \E e \in Mine(r) : e.trade = t.id /\ e.primary
    <3>1. PICK e \in execs : e.trade = t.id /\ e.primary
      BY DEF WholeInv, HasPrimary
    <3>2. CASE e.id \in Ids(upd[r])
      BY <1>a, <2>1, <3>1, <3>2 DEF WayCleared, Stands, Mine
    <3>3. CASE e.id \notin Ids(upd[r])
      BY <1>a, <3>1, <3>3 DEF Mine, Held
    <3> QED
      BY <3>2, <3>3
  <2>4. ASSUME NEW t \in put[r] PROVE \E e \in Mine(r) : e.trade = t.id /\ e.primary
    <3>1. CASE TradeLives(t.id)
      BY <2>3, <3>1 DEF TradeLives
    <3>2. CASE \E f \in upd[r] : f.primary /\ f.trade = t.id
      BY <3>2 DEF Mine
    <3> QED
      BY <1>a, <3>1, <3>2 DEF PutWhole
  <2>5. HasPrimary'
    BY <2>1, <2>3, <2>4 DEF HasPrimary
  <2>6. \A t : TradeLives(t) => TradeLives(t)'
    BY <2>1 DEF TradeLives
  <2>7. \A e \in execs' : e \in execs \/ e \in upd[r]
    BY <1>e, <2>1
  <2> QED
    BY <2>1, <2>2, <2>5, <2>6, <2>7, WholeReset
<1>11. q.op \notin {"remove", "deleteAccount"} /\ pc[r] \notin {"sweep", "cut"}
  BY DEF WholeInv, NoneRemoved
<1>12. ~ Remove(r) /\ ~ Promote(r) /\ ~ DropAccount(r) /\ ~ Sweep(r) /\ ~ Cut(r)
  BY <1>0, <1>11 DEF TypeInv, PcOK, Remove, Promote, DropAccount, Sweep, Cut
<1> QED
  BY <1>1, <1>2, <1>3, <1>4, <1>5, <1>6, <1>7, <1>8, <1>9, <1>10, <1>12 DEF Statement

LEMMA WholeStep == HubInv /\ HubInv' /\ WholeInv /\ [Next /\ NothingRemoved]_vars => WholeInv'
<1> SUFFICES ASSUME HubInv, HubInv', WholeInv, [Next /\ NothingRemoved]_vars PROVE WholeInv'
  OBVIOUS
<1>1. ASSUME NEW r \in Requests, TimedOut(r) PROVE WholeInv'
  BY <1>1, WholeAbort DEF TimedOut
<1>2. CASE UNCHANGED vars
  BY <1>2 DEF vars, tables, txVars, WholeInv, UniqueFills, Unique, HasPrimary, NoneRemoved,
              WayCleared, Stands, OfItsIdea, Selected, PutWhole, Ids, Reserved, TradeLives
<1>3. ASSUME NEW r \in Requests, NewRequest(r), NothingRemoved PROVE WholeInv'
  BY <1>3, WholeRequest
<1>4. ASSUME NEW r \in Requests, Statement(r) PROVE WholeInv'
  BY <1>4, WholeStatement
<1> QED
  BY <1>1, <1>2, <1>3, <1>4 DEF Next, Quiet

(* As long as no fill is removed and no account deleted, every idea always *)
(* has exactly one primary fill, whatever is created, edited, promoted or  *)
(* deleted at the same time: a promotion clears the primary fill it read,  *)
(* or waits and fails, and never leaves the idea without one.              *)
THEOREM ExactlyOneWhileKept ==
  ASSUME \A s \in Seeds : \A t \in s.trades : \E e \in s.execs : e.trade = t.id /\ e.primary
  PROVE  MixedSpec => []PrimaryWhileKept
<1> DEFINE Inv == HubInv /\ (mix = "keeping" => WholeInv)
<1>1. MixedInit => Inv
  BY TypeInit, BookInit, PrimaryInit, WholeInit DEF MixedInit, HubInv
<1>2. Inv => PrimaryWhileKept
  BY DEF HubInv, PrimaryInv, AtMostOnePrimary, AtMostOnePrimaryIn, WholeInv, HasPrimary,
         ExactlyOnePrimary, Fills, PrimaryWhileKept
<1>3. Inv /\ [MixedNext]_<<vars, mix>> => Inv'
  <2> SUFFICES ASSUME Inv, [MixedNext]_<<vars, mix>> PROVE Inv'
    OBVIOUS
  <2>1. [Next]_vars /\ mix' = mix
    BY DEF MixedNext
  <2>2. HubInv'
    BY <2>1, HubStep
  <2>3. ASSUME mix = "keeping" PROVE [Next /\ NothingRemoved]_vars
    <3>1. CASE MixedNext
      <4>1. OpsOf[mix] = KeepingOps
        BY <2>3 DEF OpsOf
      <4> QED
        BY <3>1, <4>1, MixAssumption DEF MixedNext, NothingRemoved
    <3> QED
      BY <3>1
  <2> QED
    BY <2>1, <2>2, <2>3, WholeStep
<1> QED
  BY <1>1, <1>2, <1>3, PTL DEF MixedSpec

-------------------------------------------------------------------------------
(* A whole book, when requests do not overlap. *)

(* What BookIsWhole asks of the tables, and that ids identify; kept are    *)
(* the accounts that are left.                                             *)
Whole(fills, ideas, kept) ==
  /\ Unique(fills) /\ Unique(ideas)
  /\ \A t \in ideas : \E e \in fills : e.trade = t.id
  /\ kept = Accounts => \A t \in ideas : \E e \in fills : e.trade = t.id /\ e.primary
  /\ \A t \in ideas : \A e \in fills :
       e.trade = t.id => e.metrics = [plan |-> t.plan, price |-> e.price]

(* What r is doing, by where it is: what it loaded is still what the       *)
(* tables hold, what it has written so far is known, and what it is about  *)
(* to commit is whole again.                                               *)
Blank(r) == upd[r] = {} /\ gone[r] = {} /\ put[r] = {} /\ cutA[r] = {} /\ cutT[r] = {}
Starting(r) ==
  pc[r] \in {"createMany", "clear", "clearing", "remove", "putTrade", "dropTrade",
             "dropAccount"} => Blank(r)
Creating(r) ==
  pc[r] = "createMany" =>
    /\ Unique(view[r]) /\ \E e \in view[r] : e.primary
    /\ \A e \in view[r] : /\ e.trade = req[r].trade
                          /\ e.metrics = [plan |-> req[r].plan, price |-> e.price]
Loaded(r) ==
  /\ view[r] = Fills(req[r].trade) /\ TradeLives(req[r].trade)
  /\ req[r].op \in {"edit", "remove", "setPrimary"} => req[r].exec \in Ids(view[r])
  /\ req[r].op \in {"add", "edit"} => req[r].plan = PlanOf(req[r].trade)
  /\ req[r].op = "update" /\ ~ req[r].primary => req[r].plan = PlanOf(req[r].trade)
  /\ req[r].op = "remove" =>
       Remaining(r) # {} /\ \A e \in view[r] : e.id = req[r].exec /\ e.primary => req[r].primary
Loads(r) ==
  pc[r] \in {"clear", "clearing", "insert", "write", "remove", "promote", "putTrade", "rewrite"}
    => Loaded(r)
Demoted(t) == {[e EXCEPT !.primary = FALSE] : e \in {f \in Fills(t) : f.primary}}
Promoting(r) ==
  /\ pc[r] \in {"clear", "clearing"} => req[r].primary
  /\ pc[r] = "clearing" => tgt[r] = Ids({e \in Fills(req[r].trade) : e.primary})
  /\ pc[r] \in {"insert", "write"} =>
       /\ gone[r] = {} /\ put[r] = {} /\ cutA[r] = {} /\ cutT[r] = {}
       /\ upd[r] = IF req[r].primary THEN Demoted(req[r].trade) ELSE {}
Removing(r) ==
  pc[r] = "promote" =>
    gone[r] = {req[r].exec} /\ upd[r] = {} /\ put[r] = {} /\ cutA[r] = {} /\ cutT[r] = {}
Replanned(v, r) == [v EXCEPT !.metrics = [plan |-> req[r].plan, price |-> v.price]]
Replanning(r) ==
  pc[r] = "rewrite" =>
    /\ gone[r] = {} /\ cutA[r] = {} /\ cutT[r] = {}
    /\ put[r] = {[id |-> req[r].trade, plan |-> req[r].plan]}
    /\ upd[r] = {Replanned(v, r) : v \in {w \in view[r] : w.id \notin tgt[r]}}
OfAccount(a) == Ids({e \in execs : e.acct = a})
Deleting(r) ==
  /\ pc[r] \in {"dropAccount", "sweep", "cut"} =>
       \A x \in trades : x.id \in orphans[r] \/ \E e \in Fills(x.id) : e.acct # req[r].acct
  /\ pc[r] \in {"sweep", "cut"} =>
       /\ upd[r] = {} /\ put[r] = {} /\ cutT[r] = {}
       /\ cutA[r] = {req[r].acct} /\ req[r].acct \in accts
       /\ gone[r] = OfAccount(req[r].acct)
IdeasAfter(r) ==
  {x \in trades : x.id \notin cutT[r] /\ \A y \in put[r] : y.id # x.id} \cup put[r]
Committing(r) == pc[r] = "commit" => Whole(Mine(r), IdeasAfter(r), accts \ cutA[r])

Doing(r) == /\ Starting(r) /\ Creating(r) /\ Loads(r) /\ Promoting(r) /\ Removing(r)
            /\ Replanning(r) /\ Deleting(r) /\ Committing(r)

AloneInv == /\ Alone /\ Whole(execs, trades, accts)
            /\ \A r \in Requests : (pc[r] \in Settled => Blank(r)) /\ Doing(r)

LEMMA AloneInit ==
  ASSUME Init, \A s \in Seeds : Whole(s.execs, s.trades, Accounts)
  PROVE  AloneInv
<1>1. Whole(execs, trades, accts)
  BY DEF Init
<1>2. \A r \in Requests : pc[r] = "idle" /\ Blank(r)
  BY DEF Init, Blank
<1>3. \A r \in Requests : Doing(r)
  BY <1>2 DEF Doing, Starting, Creating, Loads, Promoting, Removing, Replanning, Deleting,
              Committing
<1> QED
  BY <1>1, <1>2, <1>3 DEF AloneInv, Alone, Settled

(* Nothing is committed: what the others do is nothing.                    *)
LEMMA AloneMove ==
  ASSUME AloneInv, Alone', NEW r \in Requests, UNCHANGED <<accts, trades, execs>>,
         \A x \in Requests : x # r => /\ pc'[x] = pc[x] /\ upd'[x] = upd[x] /\ gone'[x] = gone[x]
                                     /\ put'[x] = put[x] /\ cutA'[x] = cutA[x] /\ cutT'[x] = cutT[x],
         pc'[r] \notin Settled, Doing(r)'
  PROVE  AloneInv'
<1>1. Whole(execs, trades, accts)'
  BY DEF AloneInv, Whole, Unique
<1>2. ASSUME NEW x \in Requests, x # r PROVE pc'[x] \in Settled /\ Blank(x)' /\ Doing(x)'
  <2>1. pc'[x] \in Settled
    BY <1>2 DEF Alone, Settled
  <2>2. Blank(x)'
    BY <1>2, <2>1 DEF AloneInv, Blank
  <2>3. Doing(x)'
    BY <2>1 DEF Settled, Doing, Starting, Creating, Loads, Promoting, Removing, Replanning,
                Deleting, Committing
  <2> QED
    BY <2>1, <2>2, <2>3
<1> QED
  BY <1>1, <1>2 DEF AloneInv, Settled

(* The end of a request.                                                   *)
LEMMA AloneReset ==
  ASSUME TypeOK, AloneInv, Alone', NEW r \in Requests, Reset(r), Whole(execs, trades, accts)',
         pc[r] \notin Settled
  PROVE  AloneInv'
<1>1. pc'[r] \in Settled /\ Blank(r)'
  BY DEF Reset, TypeOK, Settled, Blank
<1>2. ASSUME NEW x \in Requests, x # r PROVE pc'[x] \in Settled /\ Blank(x)'
  BY <1>2 DEF Reset, TypeOK, AloneInv, Alone, Settled, Blank
<1>3. ASSUME NEW x \in Requests PROVE Doing(x)'
  <2>1. pc'[x] \in Settled
    BY <1>1, <1>2
  <2> QED
    BY <2>1 DEF Settled, Doing, Starting, Creating, Loads, Promoting, Removing, Replanning,
                Deleting, Committing
<1> QED
  BY <1>1, <1>2, <1>3 DEF AloneInv

LEMMA AloneAbort ==
  ASSUME TypeOK, AloneInv, Alone', NEW r \in Requests, Abort(r), pc[r] \notin Settled
  PROVE  AloneInv'
<1>1. Reset(r) /\ UNCHANGED <<accts, trades, execs>>
  BY DEF Abort, tables
<1>2. Whole(execs, trades, accts)'
  BY <1>1 DEF AloneInv, Whole, Unique
<1> QED
  BY <1>1, <1>2, AloneReset

(* Fills are replaced by others of their ideas, added or lost.             *)
LEMMA Replacing ==
  ASSUME NEW old, NEW new, NEW lost, NEW ideas, NEW kept, Whole(old, ideas, kept), Unique(new),
         \A e \in new : \A f \in old : f.id = e.id => f.trade = e.trade,
         \A e \in new : \A t \in ideas :
           e.trade = t.id => e.metrics = [plan |-> t.plan, price |-> e.price],
         kept = Accounts => \A f \in old : f.primary /\ f.id \in Ids(new) \cup lost =>
                              \E e \in new : e.primary /\ e.trade = f.trade,
         \A f \in old : f.id \in lost =>
           \E e \in {g \in old : g.id \notin Ids(new) \cup lost} \cup new : e.trade = f.trade
  PROVE  Whole({e \in old : e.id \notin Ids(new) \cup lost} \cup new, ideas, kept)
<1> DEFINE now == {e \in old : e.id \notin Ids(new) \cup lost} \cup new
<1>1. Unique(now) /\ Unique(ideas)
  BY DEF Whole, Unique, Ids
<1>2. ASSUME NEW t \in ideas PROVE \E e \in now : e.trade = t.id
  <2>1. PICK f \in old : f.trade = t.id
    BY DEF Whole
  <2>2. CASE f.id \in Ids(new)
    <3>1. PICK e \in new : e.id = f.id
      BY <2>2 DEF Ids
    <3> QED
      BY <2>1, <3>1
  <2>3. CASE f.id \in lost
    BY <2>1, <2>3
  <2> QED
    BY <2>1, <2>2, <2>3
<1>3. ASSUME kept = Accounts, NEW t \in ideas PROVE \E e \in now : e.trade = t.id /\ e.primary
  <2>1. PICK f \in old : f.trade = t.id /\ f.primary
    BY <1>3 DEF Whole
  <2>2. CASE f.id \in Ids(new) \cup lost
    <3>1. PICK e \in new : e.primary /\ e.trade = f.trade
      BY <1>3, <2>1, <2>2
    <3> QED
      BY <2>1, <3>1
  <2>3. CASE f.id \notin Ids(new) \cup lost
    BY <2>1, <2>3
  <2> QED
    BY <2>2, <2>3
<1>4. ASSUME NEW t \in ideas, NEW e \in now, e.trade = t.id
      PROVE  e.metrics = [plan |-> t.plan, price |-> e.price]
  BY <1>4 DEF Whole
<1> HIDE DEF now
<1>5. Whole(now, ideas, kept)
  BY <1>1, <1>2, <1>3, <1>4 DEF Whole
<1> QED
  BY <1>5 DEF now

(* The plan of an idea that exists, and the one version of a fill that r   *)
(* sees.                                                                   *)
LEMMA PlanOfIdea ==
  ASSUME Whole(execs, trades, accts), NEW x \in trades
  PROVE  PlanOf(x.id) = x.plan
BY DEF Whole, Unique, PlanOf

LEMMA ReplacingMine ==
  ASSUME AloneInv, NEW r \in Requests, cutA'[r] = {}, put'[r] = {}, cutT'[r] = {},
         UNCHANGED <<accts, trades, execs>>, Unique(upd'[r]),
         \A e \in upd'[r] : \A f \in execs : f.id = e.id => f.trade = e.trade,
         \A e \in upd'[r] : \A t \in trades :
           e.trade = t.id => e.metrics = [plan |-> t.plan, price |-> e.price],
         accts = Accounts => \A f \in execs : f.primary /\ f.id \in Ids(upd'[r]) \cup gone'[r] =>
                              \E e \in upd'[r] : e.primary /\ e.trade = f.trade,
         \A f \in execs : f.id \in gone'[r] =>
           \E e \in {g \in execs : g.id \notin Ids(upd'[r]) \cup gone'[r]} \cup upd'[r] :
             e.trade = f.trade
  PROVE  Committing(r)'
<1>1. Whole({e \in execs : e.id \notin Ids(upd'[r]) \cup gone'[r]} \cup upd'[r], trades, accts)
  <2> DEFINE new == upd'[r]
             lost == gone'[r]
  <2>1. Whole(execs, trades, accts)
    BY DEF AloneInv
  <2> HIDE DEF new, lost
  <2>2. Whole({e \in execs : e.id \notin Ids(new) \cup lost} \cup new, trades, accts)
    <3>1. Unique(new) /\ \A e \in new : \A f \in execs : f.id = e.id => f.trade = e.trade
      BY DEF new
    <3>2. \A e \in new : \A t \in trades :
           e.trade = t.id => e.metrics = [plan |-> t.plan, price |-> e.price]
      BY DEF new
    <3>3. accts = Accounts => \A f \in execs : f.primary /\ f.id \in Ids(new) \cup lost =>
                              \E e \in new : e.primary /\ e.trade = f.trade
      BY DEF new, lost
    <3>4. \A f \in execs : f.id \in lost =>
           \E e \in {g \in execs : g.id \notin Ids(new) \cup lost} \cup new :
             e.trade = f.trade
      BY DEF new, lost
    <3> QED
      BY <2>1, <3>1, <3>2, <3>3, <3>4, Replacing
  <2> QED
    BY <2>2 DEF new, lost
<1>2. Mine(r)' = {e \in execs : e.id \notin Ids(upd'[r]) \cup gone'[r]} \cup upd'[r]
  BY DEF Mine, Held, Ids
<1>3. IdeasAfter(r)' = trades /\ accts' \ cutA'[r] = accts
  BY DEF IdeasAfter
<1> QED
  BY <1>1, <1>2, <1>3 DEF Committing, Whole, Unique

(* The last statement of a transaction.                                    *)
LEMMA ToCommit ==
  ASSUME TypeOK, AloneInv, Alone', NEW r \in Requests, UNCHANGED <<accts, trades, execs>>,
         \A x \in Requests : x # r => /\ upd'[x] = upd[x] /\ gone'[x] = gone[x]
                                     /\ put'[x] = put[x] /\ cutA'[x] = cutA[x] /\ cutT'[x] = cutT[x],
         Goto(r, "commit"), Committing(r)'
  PROVE  AloneInv'
<1>1. pc'[r] = "commit" /\ \A x \in Requests : x # r => pc'[x] = pc[x]
  BY DEF Goto, TypeOK
<1>2. Doing(r)'
  BY <1>1 DEF Doing, Starting, Creating, Loads, Promoting, Removing, Replanning, Deleting
<1>3. pc'[r] \notin Settled
  BY <1>1 DEF Settled
<1> QED
  BY <1>1, <1>2, <1>3, AloneMove

LEMMA AloneCreate ==
  ASSUME HubInv, AloneInv, Alone', NEW r \in Requests, CreateMany(r)
  PROVE  AloneInv'
<1> DEFINE t == req[r].trade
           y == [id |-> t, plan |-> req[r].plan]
<1>0. /\ TypeOK /\ BookInv /\ pc[r] = "createMany" /\ req[r].op = "create"
  BY DEF HubInv, TypeInv, PcOK, CreateMany
<1>1. CASE Abort(r)
  BY <1>0, <1>1, AloneAbort DEF Settled
<1>2. CASE ~ Abort(r)
  <2>1. /\ upd' = [upd EXCEPT ![r] = view[r]] /\ put' = [put EXCEPT ![r] = {y}]
        /\ Goto(r, "commit")
        /\ UNCHANGED <<accts, trades, execs, nextId, made, req, view, gone, cutA, cutT>>
    BY <1>2 DEF CreateMany, tables
  <2>2. /\ upd'[r] = view[r] /\ put'[r] = {y} /\ gone'[r] = {} /\ cutA'[r] = {} /\ cutT'[r] = {}
        /\ Creating(r)
    BY <1>0, <2>1 DEF TypeOK, AloneInv, Doing, Starting, Blank
  <2>3. \A e \in execs : e.id \notin Ids(view[r])
    BY <1>0 DEF BookInv, FreshIds, Reserved, Ids
  <2>4. \A x \in trades : x.id # t
    BY <1>0 DEF BookInv, FreshIdeas
  <2>5. \A e \in execs : e.trade # t
    BY <1>0 DEF BookInv, FreshIdeas
  <2>6. Mine(r)' = execs \cup view[r]
    BY <2>1, <2>2, <2>3 DEF Mine, Held, Ids
  <2>7. IdeasAfter(r)' = trades \cup {y}
    BY <2>1, <2>2, <2>4 DEF IdeasAfter
  <2>8. accts' \ cutA'[r] = accts
    BY <2>1, <2>2
  <2>9. Whole(execs \cup view[r], trades \cup {y}, accts)
    <3>1. Whole(execs, trades, accts)
      BY DEF AloneInv
    <3>2. /\ Unique(view[r]) /\ \E e \in view[r] : e.primary
          /\ \A e \in view[r] : e.trade = t /\ e.metrics = [plan |-> y.plan, price |-> e.price]
      BY <1>0, <2>2 DEF Creating
    <3>3. y.id = t
      OBVIOUS
    <3> HIDE DEF y, t
    <3>4. Unique(execs \cup view[r])
      BY <2>3, <3>1, <3>2 DEF Whole, Unique, Ids
    <3>5. Unique(trades \cup {y})
      BY <2>4, <3>1, <3>3 DEF Whole, Unique
    <3> QED
      BY <2>4, <2>5, <3>1, <3>2, <3>3, <3>4, <3>5, ZenonT(40) DEF Whole
  <2>10. Committing(r)'
    <3> DEFINE A == execs \cup view[r]
               B == trades \cup {y}
    <3>1. Mine(r)' = A /\ IdeasAfter(r)' = B /\ (accts \ cutA[r])' = accts /\ Whole(A, B, accts)
      BY <2>6, <2>7, <2>8, <2>9
    <3> HIDE DEF A, B
    <3>2. Whole(Mine(r), IdeasAfter(r), accts \ cutA[r])'
      BY <3>1 DEF Whole, Unique
    <3> QED
      BY <3>2 DEF Committing
  <2>11. \A x \in Requests : x # r => /\ upd'[x] = upd[x] /\ gone'[x] = gone[x]
                                     /\ put'[x] = put[x] /\ cutA'[x] = cutA[x] /\ cutT'[x] = cutT[x]
    BY <1>0, <2>1 DEF TypeOK
  <2> QED
    BY <1>0, <2>1, <2>10, <2>11, ToCommit
<1> QED
  BY <1>1, <1>2

(* Clearing the way for a primary fill, and writing it.                    *)
LEMMA AloneClear ==
  ASSUME HubInv, AloneInv, Alone', NEW r \in Requests, Clear(r) \/ Clearing(r)
  PROVE  AloneInv'
<1> DEFINE t == req[r].trade
<1>0. /\ TypeOK /\ Doing(r) /\ Unique(execs)
      /\ pc[r] = "clearing" => req[r].op \in {"add", "edit", "setPrimary"}
  BY DEF HubInv, TypeInv, PcOK, AloneInv, Whole
<1>1. CASE Clear(r)
  <2>1. /\ pc[r] = "clear" /\ pc'[r] = "clearing" /\ \A x \in Requests : x # r => pc'[x] = pc[x]
        /\ tgt'[r] = Ids({e \in Fills(t) : e.primary})
        /\ UNCHANGED <<accts, trades, execs, nextId, made, req, view, upd, gone, put, cutA, cutT>>
    BY <1>0, <1>1 DEF Clear, Goto, TypeOK, tables, txVars
  <2>2. Blank(r) /\ Loaded(r) /\ req[r].primary
    BY <1>0, <2>1 DEF Doing, Starting, Loads, Promoting
  <2>3. Blank(r)' /\ Loaded(r)'
    BY <2>1, <2>2 DEF Blank, Loaded, Fills, TradeLives, PlanOf, Remaining
  <2>4. Doing(r)'
    BY <2>1, <2>2, <2>3 DEF Doing, Starting, Creating, Loads, Promoting, Removing, Replanning,
                            Deleting, Committing, Fills
  <2> QED
    BY <2>1, <2>4, AloneMove DEF Settled
<1>2. CASE Clearing(r)
  <2> DEFINE old == {f \in execs : f.id \in tgt[r] /\ f.primary}
  <2>1. /\ pc[r] = "clearing" /\ pc'[r] \in {"insert", "write"}
        /\ \A x \in Requests : x # r => pc'[x] = pc[x] /\ upd'[x] = upd[x]
        /\ upd'[r] = {[e EXCEPT !.primary = FALSE] : e \in old}
        /\ UNCHANGED <<accts, trades, execs, nextId, made, req, view, gone, put, cutA, cutT>>
    BY <1>0, <1>2 DEF Clearing, Goto, TypeOK, tables
  <2>2. Blank(r) /\ Loaded(r) /\ req[r].primary /\ tgt[r] = Ids({e \in Fills(t) : e.primary})
    BY <1>0, <2>1 DEF Doing, Starting, Loads, Promoting
  <2>3. old = {f \in Fills(t) : f.primary}
    BY <1>0, <2>2 DEF Unique, Ids, Fills
  <2>4. upd'[r] = Demoted(t)'
    BY <2>1, <2>3 DEF Demoted, Fills
  <2>5. Loaded(r)'
    BY <2>1, <2>2 DEF Loaded, Fills, TradeLives, PlanOf, Remaining
  <2>6. Doing(r)'
    BY <2>1, <2>2, <2>4, <2>5 DEF Doing, Starting, Creating, Loads, Promoting, Removing,
                                  Replanning, Deleting, Committing, Blank
  <2> QED
    BY <2>1, <2>6, AloneMove DEF Settled
<1> QED
  BY <1>1, <1>2

(* A demoted fill is a fill of its idea but for being primary.             *)
LEMMA DemotedFills ==
  ASSUME TypeOK, Unique(execs), NEW t
  PROVE  /\ Unique(Demoted(t))
         /\ \A d \in Demoted(t) : \E e \in Fills(t) :
              /\ e.primary /\ ~ d.primary
              /\ d.id = e.id /\ d.trade = t /\ d.metrics = e.metrics /\ d.price = e.price
<1>1. ASSUME NEW d \in Demoted(t)
      PROVE  \E e \in Fills(t) :
               /\ e.primary /\ ~ d.primary /\ d = [e EXCEPT !.primary = FALSE]
               /\ d.id = e.id /\ d.trade = t /\ d.metrics = e.metrics /\ d.price = e.price
  <2>1. PICK e \in Fills(t) : e.primary /\ d = [e EXCEPT !.primary = FALSE]
    BY <1>1 DEF Demoted
  <2>2. e \in Exec /\ e.trade = t
    BY DEF TypeOK, Fills
  <2> QED
    BY <2>1, <2>2 DEF Exec
<1>2. ASSUME NEW d \in Demoted(t), NEW c \in Demoted(t), d.id = c.id PROVE d = c
  <2>1. PICK e \in Fills(t) : d = [e EXCEPT !.primary = FALSE] /\ d.id = e.id
    BY <1>1
  <2>2. PICK f \in Fills(t) : c = [f EXCEPT !.primary = FALSE] /\ c.id = f.id
    BY <1>1
  <2>3. e = f
    BY <1>2, <2>1, <2>2 DEF Unique, Fills
  <2> QED
    BY <2>1, <2>2, <2>3
<1>3. Unique(Demoted(t))
  BY <1>2 DEF Unique
<1> QED
  BY <1>1, <1>3

LEMMA AloneInsert ==
  ASSUME HubInv, AloneInv, Alone', NEW r \in Requests, Insert(r)
  PROVE  AloneInv'
<1> DEFINE q == req[r]
           n == NewFill(q.exec, q.trade, q.acct, q.primary, q.price, q.plan)
<1>0. /\ TypeOK /\ BookInv /\ pc[r] = "insert" /\ q.op = "add"
      /\ Whole(execs, trades, accts) /\ Unique(execs) /\ Doing(r)
  BY DEF HubInv, TypeInv, PcOK, Insert, AloneInv, Whole
<1>1. CASE Abort(r)
  BY <1>0, <1>1, AloneAbort DEF Settled
<1>2. CASE ~ Abort(r)
  <2>1. /\ Write(r, n) /\ Goto(r, "commit")
        /\ UNCHANGED <<accts, trades, execs, nextId, made, req, view, gone, put, cutA, cutT>>
    BY <1>2 DEF Insert, tables
  <2>2. /\ upd'[r] = {x \in upd[r] : x.id # n.id} \cup {n}
        /\ \A x \in Requests : x # r => upd'[x] = upd[x]
    BY <1>0, <2>1 DEF Write, TypeOK
  <2>3. /\ gone'[r] = {} /\ put'[r] = {} /\ cutA'[r] = {} /\ cutT'[r] = {} /\ Loaded(r)
        /\ upd[r] = IF q.primary THEN Demoted(q.trade) ELSE {}
    BY <1>0, <2>1 DEF Doing, Loads, Promoting
  <2>4. /\ n.id = q.exec /\ n.trade = q.trade /\ n.primary = q.primary /\ n.price = q.price
        /\ n.metrics = [plan |-> q.plan, price |-> q.price]
    BY DEF NewFill
  <2>5. \A f \in execs : f.id # n.id
    BY <1>0, <2>4 DEF BookInv, FreshIds, Reserved, Ids
  <2> HIDE DEF n, q
  <2>6. \A d \in upd[r] : \E e \in Fills(q.trade) :
          /\ e.primary /\ q.primary
          /\ d.id = e.id /\ d.trade = q.trade /\ d.metrics = e.metrics /\ d.price = e.price
    BY <1>0, <2>3, DemotedFills
  <2>7. Unique(upd[r])
    BY <1>0, <2>3, DemotedFills DEF Unique
  <2>8. Unique(upd'[r])
    BY <2>2, <2>7 DEF Unique
  <2>9. \A e \in upd'[r] : \A f \in execs : f.id = e.id => f.trade = e.trade
    BY <1>0, <2>2, <2>5, <2>6 DEF Unique, Fills
  <2>10. \A e \in upd'[r] : \A t \in trades :
           e.trade = t.id => e.metrics = [plan |-> t.plan, price |-> e.price]
    <3>1. ASSUME NEW t \in trades, n.trade = t.id PROVE n.metrics = [plan |-> t.plan, price |-> n.price]
      <4>1. q.plan = t.plan
        BY <1>0, <2>3, <2>4, <3>1, PlanOfIdea DEF Loaded, q
      <4> QED
        BY <2>4, <4>1
    <3>2. ASSUME NEW d \in upd[r], NEW t \in trades, d.trade = t.id
          PROVE  d.metrics = [plan |-> t.plan, price |-> d.price]
      BY <1>0, <2>6, <3>2 DEF Whole, Fills
    <3> QED
      BY <2>2, <3>1, <3>2
  <2>11. \A f \in execs : f.primary /\ f.id \in Ids(upd'[r]) =>
           \E e \in upd'[r] : e.primary /\ e.trade = f.trade
    <3> SUFFICES ASSUME NEW f \in execs, f.primary, NEW d \in upd'[r], d.id = f.id
                 PROVE  \E e \in upd'[r] : e.primary /\ e.trade = f.trade
      BY DEF Ids
    <3>1. d \in upd[r]
      BY <2>2, <2>5
    <3>2. q.primary /\ f.trade = q.trade
      BY <1>0, <2>6, <3>1 DEF Unique, Fills
    <3> QED
      BY <2>2, <2>4, <3>2
  <2>12. Committing(r)'
    BY <2>1, <2>3, <2>8, <2>9, <2>10, <2>11, ReplacingMine
  <2> QED
    BY <1>0, <2>1, <2>2, <2>12, ToCommit
<1> QED
  BY <1>1, <1>2

(* What r sees of a fill it has only demoted, or not touched.              *)
LEMMA SeenFill ==
  ASSUME TypeOK, Unique(execs), NEW r \in Requests, NEW t, NEW b \in BOOLEAN,
         gone[r] = {}, upd[r] = IF b THEN Demoted(t) ELSE {}, NEW e \in Mine(r)
  PROVE  \E f \in execs : /\ f.id = e.id /\ f.trade = e.trade
                          /\ f.metrics = e.metrics /\ f.price = e.price
                          /\ f.primary => e.primary \/ (b /\ e.trade = t)
<1>1. CASE e \in execs
  BY <1>1
<1>2. CASE e \in upd[r]
  <2>1. b /\ e \in Demoted(t)
    BY <1>2
  <2> QED
    BY <2>1, DemotedFills DEF Fills
<1> QED
  BY <1>1, <1>2 DEF Mine

LEMMA PatchedFill ==
  ASSUME TypeOK, NEW r \in Requests, NEW e \in Exec
  PROVE  LET n == Patched(r, e) IN
         /\ n.id = e.id /\ n.trade = e.trade /\ (n.primary <=> e.primary \/ req[r].primary)
         /\ req[r].op = "edit" => /\ n.price = req[r].price
                                  /\ n.metrics = [plan |-> req[r].plan, price |-> req[r].price]
         /\ req[r].op # "edit" => n.price = e.price /\ n.metrics = e.metrics
BY DEF Patched, Exec, TypeOK, Request

LEMMA AloneWrite ==
  ASSUME HubInv, AloneInv, Alone', NEW r \in Requests, WriteOne(r)
  PROVE  AloneInv'
<1> DEFINE q == req[r]
<1>0. /\ TypeOK /\ pc[r] = "write" /\ q.op \in {"edit", "setPrimary"} /\ q.primary \in BOOLEAN
      /\ Whole(execs, trades, accts) /\ Unique(execs) /\ Doing(r)
  BY DEF HubInv, TypeInv, TypeOK, Request, PcOK, WriteOne, AloneInv, Whole
<1>1. CASE Abort(r)
  BY <1>0, <1>1, AloneAbort DEF Settled
<1>2. CASE ~ Abort(r)
  <2>1. /\ \E e \in Latest(q.exec, r) : Write(r, Patched(r, e))
        /\ Goto(r, "commit")
        /\ UNCHANGED <<accts, trades, execs, nextId, made, req, view, gone, put, cutA, cutT>>
    BY <1>2 DEF WriteOne, tables
  <2>2. PICK e \in Latest(q.exec, r) : Write(r, Patched(r, e))
    BY <2>1
  <2> DEFINE n == Patched(r, e)
  <2>3. /\ upd'[r] = {x \in upd[r] : x.id # n.id} \cup {n}
        /\ \A x \in Requests : x # r => upd'[x] = upd[x]
    BY <1>0, <2>2 DEF Write, TypeOK
  <2>4. /\ gone[r] = {} /\ gone'[r] = {} /\ put'[r] = {} /\ cutA'[r] = {} /\ cutT'[r] = {}
        /\ Loaded(r)
        /\ upd[r] = IF q.primary THEN Demoted(q.trade) ELSE {}
    BY <1>0, <2>1 DEF Doing, Loads, Promoting
  <2>5. e \in Mine(r) /\ e.id = q.exec /\ e \in Exec
    BY <1>0, SeenTyped DEF Latest
  <2>6. /\ n.id = e.id /\ n.trade = e.trade /\ (n.primary <=> e.primary \/ q.primary)
        /\ q.op = "edit" => n.price = q.price /\ n.metrics = [plan |-> q.plan, price |-> q.price]
        /\ q.op # "edit" => n.price = e.price /\ n.metrics = e.metrics
    BY <1>0, <2>5, PatchedFill
  <2> HIDE DEF n, q
  <2>7. PICK o \in execs : /\ o.id = e.id /\ o.trade = e.trade
                           /\ o.metrics = e.metrics /\ o.price = e.price
                           /\ o.primary => e.primary \/ q.primary
    BY <1>0, <2>4, <2>5, SeenFill DEF q
  <2>8. o.trade = q.trade
    BY <1>0, <2>4, <2>5, <2>7 DEF Loaded, q, Fills, Ids, Unique
  <2>9. \A d \in upd[r] : \E f \in Fills(q.trade) :
          /\ f.primary /\ q.primary
          /\ d.id = f.id /\ d.trade = q.trade /\ d.metrics = f.metrics /\ d.price = f.price
    BY <1>0, <2>4, DemotedFills
  <2>10. Unique(upd'[r])
    <3>1. Unique(upd[r])
      BY <1>0, <2>4, DemotedFills DEF Unique
    <3> QED
      BY <2>3, <3>1 DEF Unique
  <2>11. \A g \in upd'[r] : \A f \in execs : f.id = g.id => f.trade = g.trade
    BY <1>0, <2>3, <2>6, <2>7, <2>9 DEF Unique, Fills
  <2>12. \A g \in upd'[r] : \A t \in trades :
           g.trade = t.id => g.metrics = [plan |-> t.plan, price |-> g.price]
    <3>1. ASSUME NEW t \in trades, n.trade = t.id PROVE n.metrics = [plan |-> t.plan, price |-> n.price]
      <4>1. CASE q.op = "edit"
        <5>1. q.plan = t.plan
          BY <1>0, <2>4, <2>6, <2>7, <2>8, <3>1, <4>1, PlanOfIdea DEF Loaded, q
        <5> QED
          BY <2>6, <4>1, <5>1
      <4>2. CASE q.op # "edit"
        BY <1>0, <2>6, <2>7, <3>1, <4>2 DEF Whole
      <4> QED
        BY <4>1, <4>2
    <3>2. ASSUME NEW d \in upd[r], NEW t \in trades, d.trade = t.id
          PROVE  d.metrics = [plan |-> t.plan, price |-> d.price]
      BY <1>0, <2>9, <3>2 DEF Whole, Fills
    <3> QED
      BY <2>3, <3>1, <3>2
  <2>13. \A f \in execs : f.primary /\ f.id \in Ids(upd'[r]) =>
           \E g \in upd'[r] : g.primary /\ g.trade = f.trade
    <3> SUFFICES ASSUME NEW f \in execs, f.primary, NEW d \in upd'[r], d.id = f.id
                 PROVE  \E g \in upd'[r] : g.primary /\ g.trade = f.trade
      BY DEF Ids
    <3>1. CASE f.id = n.id
      <4>1. f = o
        BY <1>0, <2>6, <2>7, <3>1 DEF Unique
      <4> QED
        BY <2>3, <2>6, <2>7, <4>1
    <3>2. CASE f.id # n.id
      <4>1. q.primary /\ f.trade = q.trade
        BY <1>0, <2>3, <2>9, <3>2 DEF Unique, Fills
      <4> QED
        BY <2>3, <2>6, <2>7, <2>8, <4>1
    <3> QED
      BY <3>1, <3>2
  <2>14. Committing(r)'
    BY <2>1, <2>4, <2>10, <2>11, <2>12, <2>13, ReplacingMine
  <2> QED
    BY <1>0, <2>1, <2>3, <2>14, ToCommit
<1> QED
  BY <1>1, <1>2

(* Removing a fill, and making the oldest of the others primary for it.    *)
LEMMA AloneRemove ==
  ASSUME HubInv, AloneInv, Alone', NEW r \in Requests, Remove(r)
  PROVE  AloneInv'
<1> DEFINE q == req[r]
<1>0. /\ TypeOK /\ pc[r] = "remove" /\ q.op = "remove"
      /\ Whole(execs, trades, accts) /\ Unique(execs) /\ Doing(r)
  BY DEF HubInv, TypeInv, PcOK, Remove, AloneInv, Whole
<1>1. CASE Abort(r)
  BY <1>0, <1>1, AloneAbort DEF Settled
<1>2. CASE ~ Abort(r)
  <2>1. /\ gone' = [gone EXCEPT ![r] = @ \cup {q.exec}]
        /\ Goto(r, IF q.primary /\ Remaining(r) # {} THEN "promote" ELSE "commit")
        /\ UNCHANGED <<accts, trades, execs, nextId, made, req, view, upd, put, cutA, cutT, tgt>>
    BY <1>2 DEF Remove, tables
  <2>2. Blank(r) /\ Loaded(r)
    BY <1>0 DEF Doing, Starting, Loads
  <2>3. /\ gone'[r] = {q.exec} /\ \A x \in Requests : x # r => gone'[x] = gone[x]
        /\ upd'[r] = {} /\ put'[r] = {} /\ cutA'[r] = {} /\ cutT'[r] = {}
    BY <1>0, <2>1, <2>2 DEF TypeOK, Blank
  <2>4. /\ Remaining(r) # {} /\ q.exec \in Ids(view[r]) /\ view[r] = Fills(q.trade)
        /\ \A e \in view[r] : e.id = q.exec /\ e.primary => q.primary
    BY <1>0, <2>2 DEF Loaded
  <2>5. CASE q.primary
    <3>1. pc'[r] = "promote" /\ \A x \in Requests : x # r => pc'[x] = pc[x]
      BY <1>0, <2>1, <2>4, <2>5, GotoElsewhere
    <3>2. Loaded(r)'
      BY <2>1, <2>2 DEF Loaded, Fills, TradeLives, PlanOf, Remaining
    <3>3. Doing(r)'
      BY <2>1, <2>3, <3>1, <3>2 DEF Doing, Starting, Creating, Loads, Promoting, Removing,
                                    Replanning, Deleting, Committing
    <3> QED
      BY <2>1, <2>3, <3>1, <3>3, AloneMove DEF Settled
  <2>6. CASE ~ q.primary
    <3>1. Goto(r, "commit")
      BY <2>1, <2>6
    <3> HIDE DEF q
    <3>2. \A f \in execs : f.id \in gone'[r] =>
            /\ f.trade = q.trade /\ ~ f.primary
            /\ \E e \in {g \in execs : g.id \notin gone'[r]} : e.trade = f.trade
      <4> SUFFICES ASSUME NEW f \in execs, f.id = q.exec
                   PROVE  /\ f.trade = q.trade /\ ~ f.primary
                          /\ \E e \in {g \in execs : g.id \notin gone'[r]} : e.trade = f.trade
        BY <2>3
      <4>1. f.trade = q.trade /\ f \in view[r]
        BY <1>0, <2>4 DEF Unique, Ids, Fills
      <4>2. PICK g \in view[r] : g.id # q.exec
        BY <2>4 DEF Remaining, q
      <4>3. g \in execs /\ g.trade = q.trade
        BY <2>4 DEF Fills
      <4> QED
        BY <2>3, <2>4, <2>6, <4>1, <4>2, <4>3
    <3>3. Ids({}) = {} /\ Unique({})
      BY DEF Ids, Unique
    <3>4. Committing(r)'
      BY <2>1, <2>3, <3>2, <3>3, ReplacingMine
    <3> QED
      BY <1>0, <2>1, <2>3, <3>1, <3>4, ToCommit
  <2> QED
    BY <2>5, <2>6
<1> QED
  BY <1>1, <1>2

LEMMA AlonePromote ==
  ASSUME HubInv, AloneInv, Alone', NEW r \in Requests, Promote(r)
  PROVE  AloneInv'
<1> DEFINE q == req[r]
<1>0. /\ TypeOK /\ pc[r] = "promote" /\ q.op = "remove"
      /\ Whole(execs, trades, accts) /\ Unique(execs) /\ Doing(r)
  BY DEF HubInv, TypeInv, PcOK, Promote, AloneInv, Whole
<1>1. CASE Abort(r)
  BY <1>0, <1>1, AloneAbort DEF Settled
<1>2. CASE ~ Abort(r)
  <2>1. /\ \E p \in Oldest(r) : \E e \in Latest(p.id, r) : Write(r, [e EXCEPT !.primary = TRUE])
        /\ Goto(r, "commit")
        /\ UNCHANGED <<accts, trades, execs, nextId, made, req, view, gone, put, cutA, cutT>>
    BY <1>2 DEF Promote, tables
  <2>2. PICK p \in Oldest(r) : \E e \in Latest(p.id, r) : Write(r, [e EXCEPT !.primary = TRUE])
    BY <2>1
  <2>3. PICK e \in Latest(p.id, r) : Write(r, [e EXCEPT !.primary = TRUE])
    BY <2>2
  <2> DEFINE n == [e EXCEPT !.primary = TRUE]
  <2>4. Loaded(r) /\ Removing(r)
    BY <1>0 DEF Doing, Loads
  <2>5. /\ gone[r] = {q.exec} /\ gone'[r] = {q.exec} /\ upd[r] = {}
        /\ put'[r] = {} /\ cutA'[r] = {} /\ cutT'[r] = {}
    BY <1>0, <2>1, <2>4 DEF Removing
  <2>6. upd'[r] = {n} /\ \A x \in Requests : x # r => upd'[x] = upd[x]
    BY <1>0, <2>3, <2>5 DEF Write, TypeOK
  <2>7. /\ p \in execs /\ p.trade = q.trade /\ q.exec \in Ids(view[r]) /\ view[r] = Fills(q.trade)
    BY <1>0, <2>4 DEF Loaded, Oldest, Remaining, Fills
  <2>8. e \in execs /\ e.id = p.id
    BY <2>5 DEF Latest, Mine
  <2>9. e = p /\ e \in Exec
    BY <1>0, <2>7, <2>8 DEF Unique, TypeOK
  <2>10. /\ n.id = e.id /\ n.trade = e.trade /\ n.primary /\ n.price = e.price
         /\ n.metrics = e.metrics
    BY <2>9 DEF Exec
  <2> HIDE DEF n, q
  <2>11. \A g \in upd'[r] : g = n
    BY <2>6
  <2>12. /\ Unique(upd'[r])
         /\ \A g \in upd'[r] : \A f \in execs : f.id = g.id => f.trade = g.trade
         /\ \A g \in upd'[r] : \A t \in trades :
              g.trade = t.id => g.metrics = [plan |-> t.plan, price |-> g.price]
    <3>1. Unique(upd'[r])
      BY <2>11 DEF Unique
    <3>2. \A f \in execs : f.id = n.id => f = e
      BY <1>0, <2>8, <2>10 DEF Unique
    <3>3. \A t \in trades : n.trade = t.id => n.metrics = [plan |-> t.plan, price |-> n.price]
      BY <1>0, <2>8, <2>10, ZenonT(40) DEF Whole
    <3> QED
      BY <2>10, <2>11, <3>1, <3>2, <3>3
  <2>13. \A f \in execs : f.id \in Ids(upd'[r]) \cup gone'[r] => f.trade = n.trade
    <3>1. ASSUME NEW f \in execs, f.id \in Ids(upd'[r]) PROVE f.trade = n.trade
      BY <1>0, <2>8, <2>10, <2>11, <3>1 DEF Unique, Ids
    <3>2. ASSUME NEW f \in execs, f.id = q.exec PROVE f.trade = n.trade
      BY <1>0, <2>7, <2>9, <2>10, <3>2 DEF Unique, Ids, Fills
    <3> QED
      BY <2>5, <3>1, <3>2
  <2>14. n \in upd'[r]
    BY <2>6
  <2>15. Committing(r)'
    BY <2>1, <2>5, <2>10, <2>12, <2>13, <2>14, ReplacingMine
  <2> QED
    BY <1>0, <2>1, <2>6, <2>15, ToCommit
<1> QED
  BY <1>1, <1>2

(* Changing an idea, and re-planning the fills that were loaded.           *)
LEMMA ReplannedFill ==
  ASSUME TypeOK, NEW r \in Requests, NEW v \in Exec
  PROVE  LET n == Replanned(v, r) IN
         /\ n.id = v.id /\ n.trade = v.trade /\ n.primary = v.primary /\ n.price = v.price
         /\ n.metrics = [plan |-> req[r].plan, price |-> n.price]
BY DEF Replanned, Exec

LEMMA AlonePut ==
  ASSUME HubInv, AloneInv, Alone', NEW r \in Requests, PutTrade(r)
  PROVE  AloneInv'
<1> DEFINE q == req[r]
           y == [id |-> q.trade, plan |-> q.plan]
<1>0. /\ TypeOK /\ pc[r] = "putTrade" /\ q.op = "update"
      /\ Whole(execs, trades, accts) /\ Unique(execs) /\ Unique(trades) /\ Doing(r)
  BY DEF HubInv, TypeInv, PcOK, PutTrade, AloneInv, Whole
<1>1. CASE Abort(r)
  BY <1>0, <1>1, AloneAbort DEF Settled
<1>2. CASE ~ Abort(r)
  <2>1. /\ TradeLives(q.trade)
        /\ put' = [put EXCEPT ![r] = {y}]
        /\ tgt' = [tgt EXCEPT ![r] = IF q.primary THEN Ids(view[r]) ELSE {}]
        /\ Goto(r, IF q.primary THEN "rewrite" ELSE "commit")
        /\ UNCHANGED <<accts, trades, execs, nextId, made, req, view, upd, gone, cutA, cutT>>
    BY <1>2 DEF PutTrade, tables
  <2>2. Blank(r) /\ Loaded(r)
    BY <1>0 DEF Doing, Starting, Loads
  <2>3. /\ put'[r] = {y} /\ \A x \in Requests : x # r => put'[x] = put[x]
        /\ upd'[r] = {} /\ gone'[r] = {} /\ cutA'[r] = {} /\ cutT'[r] = {}
    BY <1>0, <2>1, <2>2 DEF TypeOK, Blank
  <2>5. CASE q.primary
    <3>1. pc'[r] = "rewrite" /\ \A x \in Requests : x # r => pc'[x] = pc[x]
      BY <1>0, <2>1, <2>5, GotoElsewhere
    <3>2. Loaded(r)'
      BY <2>1, <2>2 DEF Loaded, Fills, TradeLives, PlanOf, Remaining
    <3>3. tgt'[r] = Ids(view[r])
      BY <1>0, <2>1, <2>5 DEF TypeOK
    <3>4. {Replanned(v, r)' : v \in {w \in view'[r] : w.id \notin tgt'[r]}} = {}
      BY <2>1, <3>3 DEF Ids
    <3>5. Replanning(r)'
      BY <2>1, <2>3, <3>4 DEF Replanning
    <3>6. Doing(r)'
      BY <2>1, <2>3, <3>1, <3>2, <3>5 DEF Doing, Starting, Creating, Loads, Promoting, Removing,
                                    Deleting, Committing
    <3> QED
      BY <2>1, <2>3, <3>1, <3>6, AloneMove DEF Settled
  <2>6. CASE ~ q.primary
    <3>1. Goto(r, "commit")
      BY <2>1, <2>6
    <3>2. PICK x \in trades : x.id = q.trade
      BY <2>1 DEF TradeLives
    <3>3. q.plan = x.plan
      BY <1>0, <2>2, <2>6, <3>2, PlanOfIdea DEF Loaded
    <3>4. x = y
      BY <1>0, <3>2, <3>3 DEF TypeOK, Trade
    <3>5. \A z \in trades : z.id = x.id => z = x
      BY <1>0 DEF Unique
    <3> HIDE DEF y, q
    <3>6. IdeasAfter(r)' = trades
      BY <2>1, <2>3, <3>4, <3>5 DEF IdeasAfter
    <3>7. Mine(r)' = execs /\ accts' \ cutA'[r] = accts
      BY <2>1, <2>3 DEF Mine, Held, Ids
    <3>8. Committing(r)'
      BY <1>0, <3>6, <3>7 DEF Committing, Whole, Unique
    <3> QED
      BY <1>0, <2>1, <2>3, <3>1, <3>8, ToCommit
  <2> QED
    BY <2>5, <2>6
<1> QED
  BY <1>1, <1>2

LEMMA AloneRewrite ==
  ASSUME HubInv, AloneInv, Alone', NEW r \in Requests, Rewrite(r)
  PROVE  AloneInv'
<1> DEFINE q == req[r]
<1>0. /\ TypeOK /\ pc[r] = "rewrite" /\ q.op = "update" /\ Unique(execs) /\ Doing(r)
  BY DEF HubInv, TypeInv, PcOK, Rewrite, AloneInv, Whole
<1>1. CASE Abort(r)
  BY <1>0, <1>1, AloneAbort DEF Settled
<1>2. CASE ~ Abort(r)
  <2> DEFINE New(e, v) == [e EXCEPT !.metrics = [plan |-> q.plan, price |-> v.price]]
  <2>1. /\ \E v \in NextLoaded(r) : /\ \E e \in Latest(v.id, r) : Write(r, New(e, v))
                                    /\ tgt' = [tgt EXCEPT ![r] = @ \ {v.id}]
        /\ UNCHANGED <<accts, trades, execs, nextId, made, pc, req, view, gone, put, cutA, cutT>>
    BY <1>2 DEF Rewrite, tables
  <2>2. PICK v \in NextLoaded(r) : /\ \E e \in Latest(v.id, r) : Write(r, New(e, v))
                                   /\ tgt' = [tgt EXCEPT ![r] = @ \ {v.id}]
    BY <2>1
  <2>3. PICK e \in Latest(v.id, r) : Write(r, New(e, v))
    BY <2>2
  <2>4. Loaded(r) /\ Replanning(r) /\ v \in view[r] /\ v.id \in tgt[r]
    BY <1>0 DEF Doing, Loads, NextLoaded
  <2>5. /\ view[r] = Fills(q.trade) /\ gone[r] = {}
        /\ upd[r] = {Replanned(w, r) : w \in {u \in view[r] : u.id \notin tgt[r]}}
    BY <1>0, <2>4 DEF Loaded, Replanning
  <2>6. \A w \in view[r] : w \in execs /\ w \in Exec
    BY <1>0, <2>5 DEF Fills, TypeOK
  <2>7. \A w \in upd[r] : w.id \notin tgt[r]
    <3> SUFFICES ASSUME NEW u \in view[r], u.id \notin tgt[r] PROVE Replanned(u, r).id \notin tgt[r]
      BY <2>5
    <3> QED
      BY <1>0, <2>6, ReplannedFill
  <2>8. e \in execs /\ e.id = v.id
    BY <2>4, <2>7 DEF Latest, Mine
  <2>9. e = v
    BY <1>0, <2>4, <2>6, <2>8 DEF Unique
  <2>10. New(e, v) = Replanned(v, r)
    BY <2>9 DEF Replanned
  <2>11. Replanned(v, r).id = v.id
    BY <1>0, <2>4, <2>6, ReplannedFill
  <2>12. /\ upd'[r] = upd[r] \cup {Replanned(v, r)}
         /\ \A x \in Requests : x # r => upd'[x] = upd[x]
    <3> DEFINE n == Replanned(v, r)
    <3>1. Write(r, n)
      BY <2>3, <2>10
    <3> HIDE DEF n
    <3>2. upd'[r] = {x \in upd[r] : x.id # n.id} \cup {n} /\ \A x \in Requests : x # r => upd'[x] = upd[x]
      BY <1>0, <3>1 DEF Write, TypeOK
    <3>3. \A x \in upd[r] : x.id # n.id
      BY <2>4, <2>7, <2>11 DEF n
    <3>4. upd'[r] = upd[r] \cup {n}
      BY <3>2, <3>3
    <3> QED
      BY <3>2, <3>4 DEF n
  <2>13. tgt'[r] = tgt[r] \ {v.id}
    BY <1>0, <2>2 DEF TypeOK
  <2>14. \A w \in view[r] : w.id = v.id => w = v
    BY <1>0, <2>4, <2>6 DEF Unique
  <2> HIDE DEF q
  <2>15. upd'[r] = {Replanned(w, r) : w \in {u \in view[r] : u.id \notin tgt'[r]}}
    BY <2>4, <2>5, <2>12, <2>13, <2>14
  <2>16. \A w : Replanned(w, r)' = Replanned(w, r)
    BY <2>1 DEF Replanned
  <2>17. Replanning(r)'
    BY <1>0, <2>1, <2>4, <2>15, <2>16 DEF Replanning
  <2>18. Loaded(r)'
    BY <2>1, <2>4 DEF Loaded, Fills, TradeLives, PlanOf, Remaining
  <2>19. Doing(r)'
    BY <1>0, <2>1, <2>17, <2>18 DEF Doing, Starting, Creating, Loads, Promoting, Removing,
                                    Deleting, Committing
  <2> QED
    BY <1>0, <2>1, <2>12, <2>19, AloneMove DEF Settled
<1> QED
  BY <1>1, <1>2

LEMMA AloneRewritten ==
  ASSUME HubInv, AloneInv, Alone', NEW r \in Requests, Rewritten(r)
  PROVE  AloneInv'
<1> DEFINE q == req[r]
           y == [id |-> q.trade, plan |-> q.plan]
<1>0. /\ TypeOK /\ pc[r] = "rewrite"
      /\ Whole(execs, trades, accts) /\ Unique(execs) /\ Unique(trades) /\ Doing(r)
  BY DEF HubInv, TypeInv, Rewritten, AloneInv, Whole
<1>1. /\ tgt[r] = {} /\ Goto(r, "commit")
      /\ UNCHANGED <<accts, trades, execs, nextId, made, req, view, upd, gone, put, cutA, cutT>>
  BY DEF Rewritten, tables, txVars
<1>2. Loaded(r) /\ Replanning(r)
  BY <1>0 DEF Doing, Loads
<1>3. /\ view[r] = Fills(q.trade) /\ TradeLives(q.trade)
      /\ gone[r] = {} /\ cutA[r] = {} /\ cutT[r] = {} /\ put[r] = {y}
  BY <1>0, <1>2 DEF Loaded, Replanning
<1>4. upd[r] = {Replanned(v, r) : v \in view[r]}
  BY <1>0, <1>1, <1>2 DEF Replanning
<1>5. \A v \in view[r] : v \in execs /\ v \in Exec /\ v.trade = q.trade
  BY <1>0, <1>3 DEF Fills, TypeOK
<1>6. \A n \in upd[r] : \E v \in view[r] :
        /\ n = Replanned(v, r) /\ n.id = v.id /\ n.trade = q.trade /\ n.primary = v.primary
        /\ n.metrics = [plan |-> q.plan, price |-> n.price]
  <2> SUFFICES ASSUME NEW v \in view[r]
               PROVE  LET n == Replanned(v, r) IN
                      /\ n.id = v.id /\ n.trade = q.trade /\ n.primary = v.primary
                      /\ n.metrics = [plan |-> q.plan, price |-> n.price]
    BY <1>4
  <2> QED
    BY <1>0, <1>5, ReplannedFill
<1>7. \A v \in view[r] : \E n \in upd[r] : n.id = v.id /\ n.trade = q.trade /\ n.primary = v.primary
  <2> SUFFICES ASSUME NEW v \in view[r]
               PROVE  \E n \in upd[r] : n.id = v.id /\ n.trade = q.trade /\ n.primary = v.primary
    OBVIOUS
  <2>1. Replanned(v, r) \in upd[r]
    BY <1>4
  <2> QED
    BY <1>0, <1>5, <2>1, ReplannedFill
<1>8. y.id = q.trade /\ y.plan = q.plan
  OBVIOUS
<1> DEFINE fills == Mine(r)
           ideas == IdeasAfter(r)
<1> HIDE DEF y, q
<1>21. \A e \in execs, n \in upd[r] : e.id = n.id => e.trade = q.trade
  <2> SUFFICES ASSUME NEW e \in execs, NEW n \in upd[r], e.id = n.id PROVE e.trade = q.trade
    OBVIOUS
  <2>1. PICK v \in view[r] : n.id = v.id
    BY <1>6
  <2>2. e = v
    BY <1>0, <1>5, <2>1 DEF Unique
  <2> QED
    BY <1>5, <2>2
<1>9. ASSUME NEW e \in fills
      PROVE  (e \in execs /\ e.trade # q.trade) \/ e \in upd[r]
  BY <1>3, <1>7 DEF Mine, Held, Ids, Fills
<1>10. ASSUME NEW e \in execs, e.trade # q.trade PROVE e \in fills
  <2>1. \A n \in upd[r] : n.id # e.id
    BY <1>21, <1>10
  <2> QED
    BY <1>3, <2>1 DEF Mine, Held, Ids
<1>11. upd[r] \subseteq fills
  BY DEF Mine
<1>12. ideas = {x \in trades : x.id # q.trade} \cup {y}
  BY <1>3, <1>8 DEF IdeasAfter
<1> HIDE DEF fills, ideas
<1>13. Unique(fills)
  <2> SUFFICES ASSUME NEW e \in fills, NEW f \in fills, e.id = f.id PROVE e = f
    BY DEF Unique
  <2>1. CASE e \in upd[r] /\ f \in upd[r]
    <3>1. PICK v \in view[r] : e = Replanned(v, r) /\ e.id = v.id
      BY <1>6, <2>1
    <3>2. PICK w \in view[r] : f = Replanned(w, r) /\ f.id = w.id
      BY <1>6, <2>1
    <3>3. v = w
      BY <1>0, <1>5, <3>1, <3>2 DEF Unique
    <3> QED
      BY <3>1, <3>2, <3>3
  <2>2. CASE e \in execs /\ f \in execs
    BY <1>0, <2>2 DEF Unique
  <2> QED
    BY <1>21, <1>9, <2>1, <2>2
<1>14. Unique(ideas)
  BY <1>0, <1>8, <1>12 DEF Unique
<1>15. ASSUME NEW t \in ideas
       PROVE  /\ \E e \in fills : e.trade = t.id
              /\ accts = Accounts => \E e \in fills : e.trade = t.id /\ e.primary
  <2>1. CASE t \in trades /\ t.id # q.trade
    BY <1>0, <1>10, <2>1 DEF Whole
  <2>2. CASE t = y
    <3>1. PICK x \in trades : x.id = q.trade
      BY <1>3 DEF TradeLives
    <3>2. /\ \E e \in execs : e.trade = q.trade
          /\ accts = Accounts => \E e \in execs : e.trade = q.trade /\ e.primary
      BY <1>0, <3>1 DEF Whole
    <3> QED
      BY <1>3, <1>7, <1>8, <1>11, <2>2, <3>2 DEF Fills
  <2> QED
    BY <1>12, <2>1, <2>2
<1>16. ASSUME NEW t \in ideas, NEW e \in fills, e.trade = t.id
       PROVE  e.metrics = [plan |-> t.plan, price |-> e.price]
  <2>1. CASE t \in trades /\ t.id # q.trade
    <3>1. e \in execs
      BY <1>6, <1>9, <1>16, <2>1
    <3> QED
      BY <1>0, <1>16, <2>1, <3>1 DEF Whole
  <2>2. CASE t = y
    BY <1>6, <1>8, <1>9, <1>16, <2>2
  <2> QED
    BY <1>12, <2>1, <2>2
<1>17. Whole(fills, ideas, accts)
  BY <1>13, <1>14, <1>15, <1>16 DEF Whole
<1>18. Mine(r)' = fills /\ IdeasAfter(r)' = ideas /\ (accts \ cutA[r])' = accts
  BY <1>1, <1>3 DEF fills, ideas, Mine, Held, Ids, IdeasAfter
<1>19. Whole(Mine(r), IdeasAfter(r), accts \ cutA[r])'
  BY <1>17, <1>18 DEF Whole, Unique
<1>20. Committing(r)'
  BY <1>19 DEF Committing
<1> QED
  BY <1>0, <1>1, <1>20, ToCommit

(* Deleting an idea.                                                       *)
LEMMA AloneDrop ==
  ASSUME HubInv, AloneInv, Alone', NEW r \in Requests, DropTrade(r)
  PROVE  AloneInv'
<1> DEFINE t == req[r].trade
<1>0. TypeOK /\ pc[r] \notin Settled /\ Whole(execs, trades, accts)
  BY DEF HubInv, TypeInv, DropTrade, AloneInv, Settled
<1>1. /\ Reset(r) /\ accts' = accts
      /\ trades' = {x \in trades : x.id # t} /\ execs' = {e \in execs : e.trade # t}
  BY DEF DropTrade
<1>2. Whole(execs, trades, accts)'
  BY <1>0, <1>1 DEF Whole, Unique
<1> QED
  BY <1>0, <1>1, <1>2, AloneReset

LEMMA AloneCommit ==
  ASSUME HubInv, AloneInv, Alone', NEW r \in Requests, Commit(r)
  PROVE  AloneInv'
<1>0. TypeOK /\ pc[r] = "commit" /\ Doing(r)
  BY DEF HubInv, TypeInv, Commit, AloneInv
<1>1. Whole(Mine(r), IdeasAfter(r), accts \ cutA[r])
  BY <1>0 DEF Doing, Committing
<1>2. /\ Reset(r) /\ execs' = Mine(r) /\ trades' = IdeasAfter(r) /\ accts' = accts \ cutA[r]
  BY DEF Commit, IdeasAfter
<1>3. Whole(execs, trades, accts)'
  BY <1>1, <1>2 DEF Whole, Unique
<1> QED
  BY <1>0, <1>2, <1>3, AloneReset DEF Settled

(* Deleting an account: what is left is the fills of the other accounts,   *)
(* and no idea that had none of those.                                     *)
LEMMA CutWhole ==
  ASSUME Whole(execs, trades, accts), accts \subseteq Accounts, NEW a \in accts, NEW cut,
         \A x \in trades : x.id \in cut \/ \E e \in Fills(x.id) : e.acct # a
  PROVE  Whole({e \in execs : e.acct # a /\ e.trade \notin cut},
               {x \in trades : x.id \notin cut}, accts \ {a})
<1> DEFINE fills == {e \in execs : e.acct # a /\ e.trade \notin cut}
           ideas == {x \in trades : x.id \notin cut}
<1>1. accts \ {a} # Accounts
  OBVIOUS
<1>2. Unique(fills) /\ Unique(ideas)
  BY DEF Whole, Unique
<1>3. \A t \in ideas : \E e \in fills : e.trade = t.id
  BY DEF Fills
<1>4. \A t \in ideas : \A e \in fills :
        e.trade = t.id => e.metrics = [plan |-> t.plan, price |-> e.price]
  BY DEF Whole
<1> QED
  BY <1>1, <1>2, <1>3, <1>4 DEF Whole

LEMMA AloneDropAccount ==
  ASSUME HubInv, AloneInv, Alone', NEW r \in Requests, DropAccount(r)
  PROVE  AloneInv'
<1> DEFINE a == req[r].acct
<1>0. /\ TypeOK /\ pc[r] = "dropAccount" /\ req[r].op = "deleteAccount"
      /\ Whole(execs, trades, accts) /\ Unique(execs) /\ Doing(r) /\ accts \subseteq Accounts
  BY DEF HubInv, TypeInv, TypeOK, PcOK, DropAccount, AloneInv, Whole
<1>1. CASE Abort(r)
  BY <1>0, <1>1, AloneAbort DEF Settled
<1>2. CASE ~ Abort(r)
  <2>1. /\ a \in accts
        /\ cutA' = [cutA EXCEPT ![r] = {a}] /\ gone' = [gone EXCEPT ![r] = OfAccount(a)]
        /\ Goto(r, IF orphans[r] = {} THEN "commit" ELSE "sweep")
        /\ UNCHANGED <<accts, trades, execs, nextId, made, req, view, upd, put, cutT, orphans>>
    BY <1>2 DEF DropAccount, tables, OfAccount
  <2>2. /\ Blank(r)
        /\ \A x \in trades : x.id \in orphans[r] \/ \E e \in Fills(x.id) : e.acct # a
    BY <1>0 DEF Doing, Starting, Deleting
  <2>3. /\ cutA'[r] = {a} /\ gone'[r] = OfAccount(a)
        /\ upd'[r] = {} /\ put'[r] = {} /\ cutT'[r] = {}
        /\ \A x \in Requests : x # r => cutA'[x] = cutA[x] /\ gone'[x] = gone[x]
    BY <1>0, <2>1, <2>2 DEF TypeOK, Blank
  <2> HIDE DEF a
  <2>5. CASE orphans[r] = {}
    <3>1. Goto(r, "commit")
      BY <2>1, <2>5
    <3>2. Whole({e \in execs : e.acct # a /\ e.trade \notin {}},
                {x \in trades : x.id \notin {}}, accts \ {a})
      BY <1>0, <2>1, <2>2, <2>5, CutWhole
    <3>3. Mine(r)' = {e \in execs : e.acct # a /\ e.trade \notin {}}
      BY <1>0, <2>1, <2>3 DEF Mine, Held, Ids, OfAccount, Unique
    <3>4. IdeasAfter(r)' = {x \in trades : x.id \notin {}} /\ (accts \ cutA[r])' = accts \ {a}
      BY <2>1, <2>3 DEF IdeasAfter
    <3>5. Whole(Mine(r), IdeasAfter(r), accts \ cutA[r])'
      <4> DEFINE A == {e \in execs : e.acct # a /\ e.trade \notin {}}
                 B == {x \in trades : x.id \notin {}}
      <4>1. Mine(r)' = A /\ IdeasAfter(r)' = B /\ (accts \ cutA[r])' = accts \ {a}
            /\ Whole(A, B, accts \ {a})
        BY <3>2, <3>3, <3>4
      <4> HIDE DEF A, B
      <4> QED
        BY <4>1 DEF Whole, Unique
    <3>6. Committing(r)'
      BY <3>5 DEF Committing
    <3> QED
      BY <1>0, <2>1, <2>3, <3>1, <3>6, ToCommit
  <2>6. CASE orphans[r] # {}
    <3>1. pc'[r] = "sweep" /\ \A x \in Requests : x # r => pc'[x] = pc[x]
      BY <1>0, <2>1, <2>6, GotoElsewhere
    <3>2. req'[r].acct = a
      BY <2>1 DEF a
    <3>3. Deleting(r)'
      BY <2>1, <2>2, <2>3, <3>1, <3>2 DEF Deleting, Fills, OfAccount
    <3>4. Doing(r)'
      BY <3>1, <3>3 DEF Doing, Starting, Creating, Loads, Promoting, Removing, Replanning,
                        Committing
    <3> QED
      BY <2>1, <2>3, <3>1, <3>4, AloneMove DEF Settled
  <2> QED
    BY <2>5, <2>6
<1> QED
  BY <1>1, <1>2

LEMMA AloneSweep ==
  ASSUME HubInv, AloneInv, Alone', NEW r \in Requests, Sweep(r)
  PROVE  AloneInv'
<1> DEFINE a == req[r].acct
<1>0. /\ TypeOK /\ pc[r] = "sweep" /\ Unique(execs) /\ Deleting(r)
  BY DEF HubInv, TypeInv, TypeOK, Sweep, AloneInv, Whole, Doing
<1>1. /\ pc'[r] = "cut" /\ \A x \in Requests : x # r => pc'[x] = pc[x]
      /\ orphans'[r] = {t \in orphans[r] : TradeLives(t) /\ \A e \in Mine(r) : e.trade # t}
      /\ UNCHANGED <<accts, trades, execs, nextId, made, req, view, upd, gone, put, cutA, cutT>>
  BY <1>0 DEF Sweep, Goto, TypeOK, tables, txVars
<1>2. /\ \A x \in trades : x.id \in orphans[r] \/ \E e \in Fills(x.id) : e.acct # a
      /\ gone[r] = OfAccount(a) /\ upd[r] = {} /\ put[r] = {} /\ cutT[r] = {}
      /\ cutA[r] = {a} /\ a \in accts
  BY <1>0 DEF Deleting
<1>3. \A e \in Mine(r) : e \in execs /\ e.acct # a
  BY <1>2 DEF Mine, Held, OfAccount, Ids
<1>4. \A x \in trades : x.id \in orphans'[r] \/ \E e \in Fills(x.id) : e.acct # a
  <2> SUFFICES ASSUME NEW x \in trades, x.id \notin orphans'[r]
               PROVE  \E e \in Fills(x.id) : e.acct # a
    OBVIOUS
  <2>1. CASE x.id \in orphans[r]
    <3>1. PICK e \in Mine(r) : e.trade = x.id
      BY <1>1, <2>1 DEF TradeLives
    <3> QED
      BY <1>3, <3>1 DEF Fills
  <2> QED
    BY <1>2, <2>1
<1>5. Deleting(r)'
  BY <1>1, <1>2, <1>4 DEF Deleting, Fills, OfAccount
<1>6. Doing(r)'
  BY <1>1, <1>5 DEF Doing, Starting, Creating, Loads, Promoting, Removing, Replanning, Committing
<1> QED
  BY <1>1, <1>6, AloneMove DEF Settled

LEMMA AloneCut ==
  ASSUME HubInv, AloneInv, Alone', NEW r \in Requests, Cut(r)
  PROVE  AloneInv'
<1> DEFINE a == req[r].acct
           cut == orphans[r]
           A == {e \in execs : e.acct # a /\ e.trade \notin cut}
           B == {x \in trades : x.id \notin cut}
<1>0. /\ TypeOK /\ pc[r] = "cut" /\ Deleting(r) /\ accts \subseteq Accounts
      /\ Whole(execs, trades, accts) /\ Unique(execs)
  BY DEF HubInv, TypeInv, TypeOK, Cut, AloneInv, Whole, Doing
<1>1. /\ Goto(r, "commit")
      /\ cutT' = [cutT EXCEPT ![r] = cut]
      /\ gone' = [gone EXCEPT ![r] = @ \cup Ids({e \in execs : e.trade \in cut})]
      /\ UNCHANGED <<accts, trades, execs, nextId, made, req, view, upd, put, cutA>>
  BY DEF Cut, tables
<1>2. /\ \A x \in trades : x.id \in cut \/ \E e \in Fills(x.id) : e.acct # a
      /\ gone[r] = OfAccount(a) /\ upd[r] = {} /\ put[r] = {} /\ cutA[r] = {a} /\ a \in accts
  BY <1>0 DEF Deleting
<1>3. /\ cutT'[r] = cut /\ gone'[r] = OfAccount(a) \cup Ids({e \in execs : e.trade \in cut})
      /\ upd'[r] = {} /\ put'[r] = {} /\ cutA'[r] = {a}
      /\ \A x \in Requests : x # r => cutT'[x] = cutT[x] /\ gone'[x] = gone[x]
  BY <1>0, <1>1, <1>2 DEF TypeOK
<1> HIDE DEF a, cut
<1>4. Whole(A, B, accts \ {a})
  BY <1>0, <1>2, CutWhole
<1>5. Mine(r)' = A
  BY <1>0, <1>1, <1>3 DEF Mine, Held, Ids, OfAccount, Unique
<1>6. IdeasAfter(r)' = B /\ (accts \ cutA[r])' = accts \ {a}
  BY <1>1, <1>3 DEF IdeasAfter
<1> HIDE DEF A, B
<1>7. Whole(Mine(r), IdeasAfter(r), accts \ cutA[r])'
  BY <1>4, <1>5, <1>6 DEF Whole, Unique
<1>8. Committing(r)'
  BY <1>7 DEF Committing
<1> QED
  BY <1>0, <1>1, <1>3, <1>8, ToCommit

(* A request that finds nobody else at work.                               *)
LEMMA AloneArrive ==
  ASSUME TypeOK, AloneInv, Alone', NEW r \in Requests, NEW q, NEW at, Arrive(r, q, at),
         at \in {"createMany", "clear", "insert", "write", "remove", "putTrade", "dropTrade",
                 "dropAccount"},
         at = "clear" => q.primary, at \in {"insert", "write"} => ~ q.primary,
         at = "createMany" => Creating(r)',
         at \in {"clear", "insert", "write", "remove", "putTrade"} => Loaded(r)',
         at = "dropAccount" => Deleting(r)'
  PROVE  AloneInv'
<1>1. /\ pc[r] = "idle" /\ pc'[r] = at /\ req'[r] = q /\ \A x \in Requests : x # r => pc'[x] = pc[x]
      /\ UNCHANGED <<accts, trades, execs, upd, gone, put, cutA, cutT>>
  BY DEF Arrive, TypeOK, txVars
<1>2. Blank(r)'
  BY <1>1 DEF AloneInv, Settled, Blank
<1>3. Doing(r)'
  BY <1>1, <1>2 DEF Doing, Starting, Creating, Loads, Promoting, Removing, Replanning, Deleting,
                    Committing, Blank
<1> QED
  BY <1>1, <1>3, AloneMove DEF Settled

LEMMA LoadsIdea ==
  ASSUME TypeOK, NEW r \in Requests, NEW q, NEW at, Arrive(r, q, at), Load(r, q.trade),
         q.op \in {"edit", "remove", "setPrimary"} => q.exec \in Ids(Fills(q.trade)),
         q.op \in {"add", "edit"} \/ (q.op = "update" /\ ~ q.primary) => q.plan = PlanOf(q.trade),
         q.op = "remove" =>
           /\ \E e \in Fills(q.trade) : e.id # q.exec
           /\ \A e \in Fills(q.trade) : e.id = q.exec /\ e.primary => q.primary
  PROVE  Loaded(r)'
<1>1. /\ req'[r] = q /\ view'[r] = Fills(q.trade) /\ TradeLives(q.trade)
      /\ UNCHANGED <<trades, execs>>
  BY DEF Arrive, Load, TypeOK
<1>2. PlanOf(q.trade)' = PlanOf(q.trade) /\ Fills(q.trade)' = Fills(q.trade)
  BY <1>1 DEF PlanOf, Fills
<1> QED
  BY <1>1, <1>2 DEF Loaded, TradeLives, Remaining

LEMMA AloneRequest ==
  ASSUME HubInv, AloneInv, Alone', NEW r \in Requests, NewRequest(r)
  PROVE  AloneInv'
<1>0. TypeOK /\ Whole(execs, trades, accts) /\ Unique(execs) /\ nextId \in Nat
  BY DEF HubInv, TypeInv, TypeOK, AloneInv, Whole
<1>1. CASE CreateTrade(r)
  <2>1. PICK t \in Trades \ made, a \in accts, b \in accts, plan \in Plans, p \in Prices,
             two \in BOOLEAN, marked \in 1..2 :
          LET n == IF two THEN 2 ELSE 1 IN
          /\ nextId + n <= MaxId + 1 /\ marked <= n
          /\ Arrive(r, [NoReq EXCEPT !.op = "create", !.trade = t, !.plan = plan], "createMany")
          /\ made' = made \cup {t}
          /\ nextId' = nextId + n
          /\ view' = [view EXCEPT ![r] =
               {NewFill(nextId, t, a, marked = 1, p, plan)}
               \cup (IF two THEN {NewFill(nextId + 1, t, b, marked = 2, p, plan)} ELSE {})]
          /\ UNCHANGED orphans
    BY <1>1 DEF CreateTrade
  <2> DEFINE q == [NoReq EXCEPT !.op = "create", !.trade = t, !.plan = plan]
             f == NewFill(nextId, t, a, marked = 1, p, plan)
             g == NewFill(nextId + 1, t, b, marked = 2, p, plan)
             V == {f} \cup (IF two THEN {g} ELSE {})
  <2>2. /\ f.id = nextId /\ (marked = 1 => f.primary) /\ f.trade = t
        /\ g.id = nextId + 1 /\ (marked = 2 => g.primary) /\ g.trade = t
        /\ f.metrics = [plan |-> plan, price |-> f.price]
        /\ g.metrics = [plan |-> plan, price |-> g.price]
        /\ q.op = "create" /\ q.trade = t /\ q.plan = plan /\ view' = [view EXCEPT ![r] = V]
    BY <2>1 DEF NewFill, NoReq
  <2>3. two \/ marked = 1
    BY <2>1
  <2>4. Arrive(r, q, "createMany")
    BY <2>1
  <2>5. view'[r] = V /\ req'[r] = q
    BY <1>0, <2>2, <2>4 DEF Arrive, TypeOK
  <2> HIDE DEF f, g, q
  <2>6. \A e \in V : e = f \/ e = g
    OBVIOUS
  <2>7. (f.primary \/ (two /\ g.primary)) /\ f \in V /\ (two => g \in V)
    BY <2>2, <2>3
  <2> HIDE DEF V
  <2>8. Unique(V)
    BY <1>0, <2>2, <2>6 DEF Unique
  <2>9. Creating(r)'
    BY <2>2, <2>5, <2>6, <2>7, <2>8 DEF Creating, Unique
  <2> QED
    BY <1>0, <2>4, <2>9, AloneArrive
<1>2. CASE UpdateTrade(r)
  <2>1. PICK t \in Trades, plan \in Plans :
          /\ Load(r, t) /\ UNCHANGED nextId
          /\ Arrive(r, [NoReq EXCEPT !.op = "update", !.trade = t, !.plan = plan,
                                     !.primary = (plan # PlanOf(t))], "putTrade")
    BY <1>2 DEF UpdateTrade
  <2> DEFINE q == [NoReq EXCEPT !.op = "update", !.trade = t, !.plan = plan,
                                !.primary = (plan # PlanOf(t))]
  <2>2. /\ q.op = "update" /\ q.trade = t /\ (~ q.primary => q.plan = PlanOf(t))
        /\ Arrive(r, q, "putTrade") /\ Load(r, t)
    BY <2>1 DEF NoReq
  <2> HIDE DEF q
  <2>3. Loaded(r)'
    BY <1>0, <2>2, LoadsIdea
  <2> QED
    BY <1>0, <2>2, <2>3, AloneArrive
<1>3. CASE DeleteTrade(r)
  BY <1>0, <1>3, AloneArrive DEF DeleteTrade
<1>4. CASE AddExecution(r)
  <2>1. PICK t \in Trades, a \in accts, p \in Prices, w \in BOOLEAN :
          /\ Load(r, t)
          /\ nextId <= MaxId /\ nextId' = nextId + 1
          /\ Arrive(r, [NoReq EXCEPT !.op = "add", !.trade = t, !.exec = nextId, !.acct = a,
                                     !.price = p, !.plan = PlanOf(t), !.primary = w],
                    IF w THEN "clear" ELSE "insert")
    BY <1>4 DEF AddExecution
  <2> DEFINE q == [NoReq EXCEPT !.op = "add", !.trade = t, !.exec = nextId, !.acct = a,
                                !.price = p, !.plan = PlanOf(t), !.primary = w]
             at == IF w THEN "clear" ELSE "insert"
  <2>2. /\ q.op = "add" /\ q.trade = t /\ q.primary = w /\ q.plan = PlanOf(t)
        /\ Arrive(r, q, at) /\ Load(r, t)
    BY <2>1 DEF NoReq
  <2>3. at \in {"clear", "insert"} /\ (at = "clear" <=> w)
    OBVIOUS
  <2> HIDE DEF q, at
  <2>4. Loaded(r)'
    BY <1>0, <2>2, LoadsIdea
  <2> QED
    BY <1>0, <2>2, <2>3, <2>4, AloneArrive
<1>5. CASE UpdateExecution(r)
  <2>1. PICK t \in Trades, e \in execs, a \in accts \cup {None}, p \in Prices, w \in BOOLEAN :
          /\ e.trade = t /\ Load(r, t) /\ UNCHANGED nextId
          /\ Arrive(r, [NoReq EXCEPT !.op = "edit", !.trade = t, !.exec = e.id, !.acct = a,
                                     !.price = p, !.plan = PlanOf(t),
                                     !.primary = (w /\ ~ e.primary)],
                    IF w /\ ~ e.primary THEN "clear" ELSE "write")
    BY <1>5, ZenonT(40) DEF UpdateExecution
  <2> DEFINE b == w /\ ~ e.primary
             q == [NoReq EXCEPT !.op = "edit", !.trade = t, !.exec = e.id, !.acct = a,
                                !.price = p, !.plan = PlanOf(t), !.primary = b]
             at == IF b THEN "clear" ELSE "write"
  <2>2. /\ q.op = "edit" /\ q.trade = t /\ q.exec = e.id /\ (q.primary <=> b) /\ q.plan = PlanOf(t)
        /\ Arrive(r, q, at) /\ Load(r, t)
    BY <2>1 DEF NoReq
  <2>3. at \in {"clear", "write"} /\ (at = "clear" <=> b)
    OBVIOUS
  <2>4. e.id \in Ids(Fills(t))
    BY <2>1 DEF Fills, Ids
  <2> HIDE DEF q, at, b
  <2>5. Loaded(r)'
    BY <1>0, <2>2, <2>4, LoadsIdea
  <2> QED
    BY <1>0, <2>2, <2>3, <2>5, AloneArrive
<1>6. CASE RemoveExecution(r)
  <2>1. PICK t \in Trades, e \in execs :
          /\ e.trade = t /\ Cardinality(Fills(t)) > 1 /\ Load(r, t) /\ UNCHANGED nextId
          /\ Arrive(r, [NoReq EXCEPT !.op = "remove", !.trade = t, !.exec = e.id,
                                     !.primary = e.primary], "remove")
    BY <1>6 DEF RemoveExecution
  <2> DEFINE q == [NoReq EXCEPT !.op = "remove", !.trade = t, !.exec = e.id, !.primary = e.primary]
  <2>2. /\ q.op = "remove" /\ q.trade = t /\ q.exec = e.id /\ q.primary = e.primary
        /\ Arrive(r, q, "remove") /\ Load(r, t)
    BY <2>1 DEF NoReq
  <2>3. \A f \in Fills(t) : f.id = e.id => f = e
    BY <1>0 DEF Unique, Fills
  <2>4. e \in Fills(t) /\ e.id \in Ids(Fills(t))
    BY <2>1 DEF Fills, Ids
  <2>5. \E f \in Fills(t) : f.id # e.id
    <3> SUFFICES ASSUME \A f \in Fills(t) : f.id = e.id PROVE FALSE
      OBVIOUS
    <3>1. Fills(t) = {e}
      BY <2>3, <2>4
    <3>2. Cardinality(Fills(t)) = 1
      BY <3>1, FS_Singleton
    <3> QED
      BY <2>1, <3>2
  <2> HIDE DEF q
  <2>6. Loaded(r)'
    BY <1>0, <2>2, <2>3, <2>4, <2>5, LoadsIdea
  <2> QED
    BY <1>0, <2>2, <2>6, AloneArrive
<1>7. CASE SetPrimaryExecution(r)
  <2>1. PICK t \in Trades, e \in execs :
          /\ e.trade = t /\ Load(r, t) /\ UNCHANGED nextId
          /\ Arrive(r, [NoReq EXCEPT !.op = "setPrimary", !.trade = t, !.exec = e.id,
                                     !.primary = TRUE], "clear")
    BY <1>7 DEF SetPrimaryExecution
  <2> DEFINE q == [NoReq EXCEPT !.op = "setPrimary", !.trade = t, !.exec = e.id, !.primary = TRUE]
  <2>2. /\ q.op = "setPrimary" /\ q.trade = t /\ q.exec = e.id /\ q.primary
        /\ Arrive(r, q, "clear") /\ Load(r, t)
    BY <2>1 DEF NoReq
  <2>3. e.id \in Ids(Fills(t))
    BY <2>1 DEF Fills, Ids
  <2> HIDE DEF q
  <2>4. Loaded(r)'
    BY <1>0, <2>2, <2>3, LoadsIdea
  <2> QED
    BY <1>0, <2>2, <2>4, AloneArrive
<1>8. CASE DeleteAccount(r)
  <2>1. PICK a \in accts :
          /\ Arrive(r, [NoReq EXCEPT !.op = "deleteAccount", !.acct = a], "dropAccount")
          /\ orphans' = [orphans EXCEPT ![r] =
               {t \in Trades : TradeLives(t) /\ Fills(t) # {} /\ \A e \in Fills(t) : e.acct = a}]
    BY <1>8 DEF DeleteAccount
  <2> DEFINE q == [NoReq EXCEPT !.op = "deleteAccount", !.acct = a]
  <2>2. q.acct = a /\ Arrive(r, q, "dropAccount")
    BY <2>1 DEF NoReq
  <2> HIDE DEF q
  <2>3. /\ orphans'[r] = {t \in Trades : TradeLives(t) /\ Fills(t) # {} /\ \A e \in Fills(t) : e.acct = a}
        /\ req'[r] = q /\ pc'[r] = "dropAccount" /\ UNCHANGED <<trades, execs>>
    BY <1>0, <2>1, <2>2 DEF Arrive, TypeOK
  <2>4. \A x \in trades : x.id \in orphans'[r] \/ \E e \in Fills(x.id) : e.acct # a
    <3> SUFFICES ASSUME NEW x \in trades, \A e \in Fills(x.id) : e.acct = a
                 PROVE  x.id \in orphans'[r]
      OBVIOUS
    <3>1. x.id \in Trades /\ TradeLives(x.id) /\ Fills(x.id) # {}
      BY <1>0 DEF TypeOK, Trade, TradeLives, Whole, Fills
    <3> QED
      BY <2>3, <3>1
  <2>5. Deleting(r)'
    BY <2>2, <2>3, <2>4 DEF Deleting, Fills
  <2> QED
    BY <1>0, <2>2, <2>5, AloneArrive
<1> QED
  BY <1>1, <1>2, <1>3, <1>4, <1>5, <1>6, <1>7, <1>8 DEF NewRequest

LEMMA AloneStep == HubInv /\ AloneInv /\ [Next /\ Alone']_vars => AloneInv'
<1> SUFFICES ASSUME HubInv, AloneInv, [Next /\ Alone']_vars PROVE AloneInv'
  OBVIOUS
<1>0. TypeOK
  BY DEF HubInv, TypeInv
<1>1. CASE UNCHANGED vars
  <2>1. UNCHANGED <<accts, trades, execs, pc, req, view, upd, gone, put, cutA, cutT, tgt, orphans>>
    BY <1>1 DEF vars, tables, txVars
  <2>2. Alone' /\ Whole(execs, trades, accts)'
    BY <2>1 DEF AloneInv, Alone, Whole, Unique
  <2>3. ASSUME NEW r \in Requests PROVE (pc[r] \in Settled => Blank(r))' /\ Doing(r)'
    <3>1. (pc[r] \in Settled => Blank(r)) /\ Doing(r)
      BY DEF AloneInv
    <3>2. (pc[r] \in Settled => Blank(r))' /\ Starting(r)' /\ Creating(r)' /\ Removing(r)'
      BY <2>1, <3>1 DEF Doing, Blank, Starting, Creating, Unique, Removing
    <3>3. Loads(r)' /\ Deleting(r)'
      BY <2>1, <3>1 DEF Doing, Loads, Loaded, Fills, TradeLives, PlanOf, Remaining, Deleting,
                        OfAccount
    <3>4. Promoting(r)'
      BY <2>1, <3>1 DEF Doing, Promoting, Fills, Demoted
    <3>5. Replanning(r)'
      BY <2>1, <3>1 DEF Doing, Replanning, Replanned
    <3>6. Committing(r)'
      BY <2>1, <3>1 DEF Doing, Committing, Whole, Unique, Mine, Held, Ids, IdeasAfter
    <3> QED
      BY <3>1, <3>2, <3>3, <3>4, <3>5, <3>6 DEF Doing
  <2> QED
    BY <2>2, <2>3 DEF AloneInv
<1>2. ASSUME Alone', NEW r \in Requests, TimedOut(r) PROVE AloneInv'
  BY <1>0, <1>2, AloneAbort DEF TimedOut
<1>3. ASSUME Alone', NEW r \in Requests, NewRequest(r) PROVE AloneInv'
  BY <1>3, AloneRequest
<1>4. ASSUME Alone', NEW r \in Requests, Statement(r) PROVE AloneInv'
  BY <1>4, AloneCreate, AloneClear, AloneInsert, AloneWrite, AloneRemove, AlonePromote,
     AlonePut, AloneRewrite, AloneRewritten, AloneDrop, AloneDropAccount, AloneSweep, AloneCut,
     AloneCommit DEF Statement
<1> QED
  BY <1>1, <1>2, <1>3, <1>4 DEF Next, Quiet

(* Requests of every kind, one after the other has been answered, keep the *)
(* book whole, whichever of them are refused, time out or are rolled back: *)
(* one primary fill per idea until an account is deleted, no idea without  *)
(* a fill, and metrics that agree with the stored idea and price.          *)
THEOREM BookStaysWhole ==
  ASSUME \A s \in Seeds : Whole(s.execs, s.trades, Accounts)
  PROVE  MixedSpec => []BookIsWhole
<1> DEFINE Inv == HubInv /\ (mix = "alone" => AloneInv)
<1>1. MixedInit => Inv
  BY TypeInit, BookInit, PrimaryInit, AloneInit DEF MixedInit, HubInv
<1>2. Inv => BookIsWhole
  <2> SUFFICES ASSUME HubInv, AloneInv PROVE PrimaryUntilCascade /\ NoEmptyTrade /\ MetricsFresh
    BY DEF BookIsWhole
  <2>1. Whole(execs, trades, accts) /\ AtMostOnePrimaryIn(execs)
    BY DEF HubInv, PrimaryInv, AtMostOnePrimary, AloneInv
  <2> QED
    BY <2>1 DEF Whole, AtMostOnePrimaryIn, PrimaryUntilCascade, ExactlyOnePrimary, NoEmptyTrade,
                MetricsFresh, Fills
<1>3. Inv /\ [MixedNext]_<<vars, mix>> => Inv'
  <2> SUFFICES ASSUME Inv, [MixedNext]_<<vars, mix>> PROVE Inv'
    OBVIOUS
  <2>1. [Next]_vars /\ mix' = mix
    BY DEF MixedNext
  <2>2. HubInv'
    BY <2>1, HubStep
  <2>3. mix = "alone" => [Next /\ Alone']_vars
    BY DEF MixedNext
  <2> QED
    BY <2>1, <2>2, <2>3, AloneStep
<1> QED
  BY <1>1, <1>2, <1>3, PTL DEF MixedSpec
===============================================================================
