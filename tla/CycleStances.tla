----------------------------- MODULE CycleStances -----------------------------
(***************************************************************************)
(* The declared stance of a central bank, dated from and to.  A PUT closes *)
(* the open row and opens another, or rewrites the open row of its own     *)
(* date; it reads the open row before it writes, and the transaction is    *)
(* Read Committed, so two admins may read the same one.  The unique index  *)
(* on (currency, from) is all that stands between them.                    *)
(*                                                                         *)
(* The US row carries the Fed constraint along, which a PUT may leave out. *)
(***************************************************************************)
EXTENDS Integers, FiniteSets, Sequences

CONSTANTS
  Days,      \* 1..n; the seed's row starts on day 1
  Admins,
  Stances, Constraints,   \* what a PUT may say of the bank, of the Fed
  MaxPuts,   \* bound: PUTs that commit
  None

VARIABLES
  rows,      \* [id, from, to, stance, fed]; to is None while open
  put,       \* put[a]: the PUT in progress
  declared,  \* history: the PUTs that committed, in order
  overlap,   \* history: two PUTs have overlapped
  behind     \* history: a PUT was dated behind a period already closed

vars == <<rows, put, declared, overlap, behind>>

Idle == [stage |-> "idle"]
SeedRow == [id |-> 0, from |-> 1, to |-> None, stance |-> "seeded", fed |-> None]

Init ==
  /\ rows \in {{}, {SeedRow}}
  /\ put = [a \in Admins |-> Idle]
  /\ declared = <<>>
  /\ overlap = FALSE
  /\ behind = FALSE

(* seedCurrencyCycleStances creates the row of its date and never rewrites  *)
(* it, whatever other rows there are.                                       *)
Seed ==
  /\ ~\E r \in rows : r.from = 1
  /\ rows' = rows \cup {SeedRow}
  /\ UNCHANGED <<put, declared, overlap, behind>>

Open == {r \in rows : r.to = None}
LatestOpen ==
  IF Open = {} THEN None ELSE CHOOSE r \in Open : \A q \in Open : q.from <= r.from

Read(a) ==
  /\ put[a] = Idle
  /\ \E from \in Days, stance \in Stances, fed \in Constraints \cup {None} :
       put' = [put EXCEPT ![a] = [stage |-> "write", from |-> from, stance |-> stance,
                                  fed |-> fed, open |-> LatestOpen]]
  /\ overlap' = (overlap \/ \E b \in Admins \ {a} : put[b] # Idle)
  /\ UNCHANGED <<rows, declared, behind>>

Closed(r, from) == [r EXCEPT !.to = from - 1]

FedOr(fed, open) == IF fed # None THEN fed ELSE IF open = None THEN None ELSE open.fed
(* The open row that was read, as it is by now, is written by its id.       *)
Rewritten(c) ==
  {IF r.id = c.open.id THEN [r EXCEPT !.stance = c.stance, !.fed = FedOr(c.fed, c.open)] ELSE r :
   r \in rows}
(* Variant: a later row is left as it is.                                   *)
SucceededForward(c) ==
  {IF c.open # None /\ r.id = c.open.id /\ r.from < c.from THEN Closed(r, c.from) ELSE r :
   r \in rows}
  \cup {[id |-> Len(declared) + 1, from |-> c.from, to |-> None, stance |-> c.stance,
         fed |-> FedOr(c.fed, c.open)]}
Succeeded(c) ==
  {IF c.open # None /\ r.id = c.open.id THEN Closed(r, c.from) ELSE r : r \in rows}
  \cup {[id |-> Len(declared) + 1, from |-> c.from, to |-> None, stance |-> c.stance,
         fed |-> FedOr(c.fed, c.open)]}

Said(c) == [from |-> c.from, stance |-> c.stance, fed |-> c.fed]
SameDate(c) == IF c.open = None THEN FALSE ELSE c.open.from = c.from

Update(a) ==
  LET c == put[a]
  IN /\ c.stage = "write"
     /\ Len(declared) < MaxPuts
     /\ SameDate(c)
     /\ rows' = Rewritten(c)
     /\ declared' = Append(declared, Said(c))
     /\ put' = [put EXCEPT ![a] = Idle]
     /\ UNCHANGED <<overlap, behind>>

Replace(a) ==
  LET c == put[a]
  IN /\ c.stage = "write"
     /\ Len(declared) < MaxPuts
     /\ ~SameDate(c)
     /\ ~\E r \in rows : r.from = c.from
     /\ rows' = Succeeded(c)
     /\ declared' = Append(declared, Said(c))
     /\ behind' = (behind \/ \E r \in rows : r.to # None /\ c.from < r.from /\ r.from <= r.to)
     /\ put' = [put EXCEPT ![a] = Idle]
     /\ UNCHANGED overlap

(* A closed row of the date is in the way: the index refuses the new one    *)
(* and the transaction is rolled back.                                      *)
Refused(a) ==
  LET c == put[a]
  IN /\ c.stage = "write"
     /\ ~SameDate(c)
     /\ \E r \in rows : r.from = c.from
     /\ put' = [put EXCEPT ![a] = Idle]
     /\ UNCHANGED <<rows, declared, overlap, behind>>

Next == Seed \/ \E a \in Admins : Read(a) \/ Update(a) \/ Replace(a) \/ Refused(a)

Spec == Init /\ [][Next]_vars
-------------------------------------------------------------------------------
(* The row a reader takes for a day: of those in force the one that started *)
(* last; the classifier, the CPI rule and the admin page read it alike.     *)
InForce(day) ==
  LET on == {r \in rows : r.from <= day /\ (r.to = None \/ r.to >= day)}
  IN IF on = {} THEN None ELSE CHOOSE r \in on : \A q \in on : q.from <= r.from

LastDeclared(day) ==
  LET on == {i \in DOMAIN declared : declared[i].from <= day}
  IN IF on = {} THEN None ELSE declared[CHOOSE i \in on : \A j \in on : j <= i]

(* As long as PUTs neither overlap nor reach behind a period that is closed *)
(* already, the stance of every day is the one declared last from that day  *)
(* or an earlier one on, whatever order the dates came in: rows that are    *)
(* closed before they start, and rows that overlap, never show through.     *)
StanceIsLastDeclared ==
  ~overlap /\ ~behind => \A d \in Days :
    LastDeclared(d) # None => /\ InForce(d) # None
                              /\ InForce(d).stance = LastDeclared(d).stance

(* The Fed constraint an admin last declared stays in force until another   *)
(* is declared, through PUTs that do not mention it.                        *)
FedIsLastDeclared ==
  LET said == {i \in DOMAIN declared : declared[i].fed # None}
      last == CHOOSE d \in Days : \A e \in Days : e <= d
  IN (~overlap /\ said # {}) =>
       InForce(last).fed = declared[CHOOSE i \in said : \A j \in said : j <= i].fed

(* More than one open row takes two PUTs at once, or the seed arriving      *)
(* after a PUT.                                                             *)
SecondOpenIsExplained ==
  Cardinality(Open) > 1 => overlap \/ SeedRow \in rows
===============================================================================
