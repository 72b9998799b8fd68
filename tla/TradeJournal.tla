----------------------------- MODULE TradeJournal -----------------------------
(***************************************************************************)
(* The edits of one stored trade, an idea and a fill, from several windows *)
(* at once: each is validated against the row it read and written over     *)
(* whatever is stored by then.                                             *)
(***************************************************************************)
EXTENDS TradeRules

CONSTANTS Windows, Now, Plans, Fills, PlanPatches, FillPatches

VARIABLES plan, fill, edit, raced

vars == <<plan, fill, edit, raced>>

Init == /\ plan \in Plans
        /\ fill \in {StoredFill(f, Now) : f \in Fills}
        /\ edit = [w \in Windows |-> None]
        /\ raced = FALSE

Merged(stored, patch) ==
  [k \in DOMAIN stored |-> IF k \in DOMAIN patch THEN patch[k] ELSE stored[k]]
Idle(w) == edit[w] = None
-------------------------------------------------------------------------------
(* The columns an edit of the plan writes: some whatever it was sent.       *)
AlwaysWritten == {"direction", "sl", "opened"}
ColumnsWritten(merged, patch) ==
  [k \in AlwaysWritten \cup DOMAIN patch |-> merged[k]]

(* updateTrade up to its transaction: the rules see the merge of the patch  *)
(* and the row, and the dates of the fills.                                 *)
UpdateTrade(w) ==
  \E patch \in PlanPatches :
    LET merged == Merged(plan, patch)
        dates == {p \in CheckFill(fill, fill.closed # None, merged.opened, Now) :
                    p.field = "date_closed"}
    IN /\ Idle(w)
       /\ BlockingProblems(CheckPlan(merged, Now) \cup dates, "edit") = {}
       /\ edit' = [edit EXCEPT ![w] =
            [on |-> "plan", write |-> ColumnsWritten(merged, patch), read |-> plan]]
       /\ UNCHANGED <<plan, fill, raced>>

(* What an edit makes of a fill: every column is written, a patch that does *)
(* not say whether the fill is closed leaves it as it was, and an open fill *)
(* keeps nothing of its exit.                                               *)
IsClosed(patch) == IF "isClosed" \in DOMAIN patch THEN patch.isClosed ELSE fill.closed # None
EditedFill(patch) ==
  LET merged == Merged(fill, patch)
      kept == IsClosed(patch) /\ merged.exit # None
      at == IF "isClosed" \in DOMAIN patch /\ ~patch.isClosed THEN None
            ELSE IF ~kept THEN fill.closed
            ELSE IF "closed" \in DOMAIN patch /\ patch.closed # None THEN patch.closed
            ELSE IF fill.closed # None THEN fill.closed ELSE Now
  IN [merged EXCEPT !.closed = at,
        !.exit = IF kept THEN @ ELSE None, !.partial = IF kept THEN @ ELSE None,
        !.pct = IF kept THEN @ ELSE None, !.pnl = IF kept THEN Money(@) ELSE 0,
        !.mfe = IF kept THEN @ ELSE None, !.mae = IF kept THEN @ ELSE None]

(* updateExecution up to its transaction.                                   *)
UpdateExecution(w) ==
  \E patch \in FillPatches :
    LET edited == EditedFill(patch)
        judged == [edited EXCEPT !.exit = Merged(fill, patch).exit,
                                 !.pnl = Merged(fill, patch).pnl]
        problems == CheckExecution(plan, judged, IsClosed(patch), edited.exit # None, Now)
    IN /\ Idle(w)
       /\ BlockingProblems(problems, "edit") = {}
       /\ edit' = [edit EXCEPT ![w] = [on |-> "fill", write |-> edited, read |-> fill]]
       /\ UNCHANGED <<plan, fill, raced>>

(* The transaction of either.  raced remembers that the plan was not the    *)
(* one its edit was judged with.                                            *)
Commit(w) ==
  /\ ~Idle(w)
  /\ edit' = [edit EXCEPT ![w] = None]
  /\ IF edit[w].on = "plan"
       THEN /\ plan' = Merged(plan, edit[w].write)
            /\ raced' = (raced \/ plan # edit[w].read)
            /\ fill' = fill
       ELSE fill' = edit[w].write /\ UNCHANGED <<plan, raced>>

Next == \E w \in Windows : UpdateTrade(w) \/ UpdateExecution(w) \/ Commit(w)
Spec == Init /\ [][Next]_vars
-------------------------------------------------------------------------------
(* A stop at the entry "cannot be stored on any path": an edit is refused   *)
(* when it would leave one.  It is stored all the same, but only by edits   *)
(* of the stop and of the entry that were judged without each other.        *)
ZeroRiskIsRaced == plan.sl = plan.entry => raced

(* Nor can a closed fill without an exit price, however the edits overlap;  *)
(* and no money, excursion or partial is left on a fill that is open.       *)
OpenFillIsBlank ==
  /\ fill.closed = None <=> fill.exit = None
  /\ fill.closed = None =>
       fill.pnl = 0 /\ {fill.partial, fill.pct, fill.mfe, fill.mae} = {None}

(* Both together.                                                           *)
JournalIsCoherent == ZeroRiskIsRaced /\ OpenFillIsBlank
===============================================================================
