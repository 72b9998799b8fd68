----------------------------- MODULE VintageTable -----------------------------
(***************************************************************************)
(* What dataPointsRepository.upsert and the override promise, one key at a *)
(* time: an atomic write.  A call compares its payload with the row that   *)
(* is current at that instant, and either leaves the table alone or        *)
(* supersedes exactly that row by exactly one new one.                     *)
(***************************************************************************)
EXTENDS VintageRows

VARIABLES
  rows,   \* the table
  req,    \* the payload of each call, NoRequest before it is made
  ret     \* what the call has reported, <<>> before it reports

tableVars == <<rows, req, ret>>

NoRequest == [kind |-> "upsert", items |-> <<>>]

TableInit ==
  /\ \E s \in Seeds : rows = s.rows
  /\ req = [c \in Calls |-> NoRequest]
  /\ ret = [c \in Calls |-> <<>>]

Ask(c) ==
  /\ req[c] = NoRequest
  /\ \E p \in Plans : req' = [req EXCEPT ![c] = p]
  /\ UNCHANGED <<rows, ret>>

Report(c, a) ==
  /\ req[c] # NoRequest /\ ret[c] = <<>>
  /\ ret' = [ret EXCEPT ![c] = <<a>>]
  /\ UNCHANGED req

AskedItem(c) == req[c].items[1]
Present(k)   == {r \in rows : r.cur /\ r.key = k}

(* n is the vintage that call c writes over `old`.                         *)
IsVintageOf(n, c, old) ==
  /\ n.key = AskedItem(c).key
  /\ n.val = Rounded(AskedItem(c).val)
  /\ n.fc  = NewForecast(req[c].kind, AskedItem(c), old)
  /\ n.cur /\ n.by = c
  /\ \A r \in rows : r.id # n.id

Insert(c) ==
  /\ Report(c, "inserted")
  /\ Present(AskedItem(c).key) = {}
  /\ \E n \in rows' : IsVintageOf(n, c, NoRow) /\ rows' = rows \cup {n}

Revise(c) ==
  /\ Report(c, "revised")
  /\ \E r \in Present(AskedItem(c).key) :
       /\ ~ Matches(req[c].kind, AskedItem(c), r)
       /\ \E n \in rows' : /\ IsVintageOf(n, c, r)
                           /\ rows' = (rows \ {r}) \cup {Superseded(r), n}

Skip(c) ==
  /\ Report(c, "skipped")
  /\ \E r \in Present(AskedItem(c).key) : Matches(req[c].kind, AskedItem(c), r)
  /\ UNCHANGED rows

Throw(c) == Report(c, "failed") /\ UNCHANGED rows

(* A call that had nothing to write may still fail on its way back.        *)
LoseReply(c) ==
  /\ ret[c] = <<"skipped">>
  /\ ret' = [ret EXCEPT ![c] = <<"failed">>]
  /\ UNCHANGED <<rows, req>>

TableNext == \E c \in Calls : \/ Ask(c) \/ Insert(c) \/ Revise(c) \/ Skip(c)
                              \/ Throw(c) \/ LoseReply(c)

TableSpec == TableInit /\ [][TableNext]_tableVars
===============================================================================
