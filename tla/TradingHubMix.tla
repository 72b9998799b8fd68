---------------------------- MODULE TradingHubMix ----------------------------
(***************************************************************************)
(* TradingHub under three kinds of traffic, one to a behaviour: requests   *)
(* that overlap and keep every fill and account, requests that overlap and *)
(* change who is primary, and requests of every kind, none of which        *)
(* arrives before the one before it has been answered.                     *)
(***************************************************************************)
EXTENDS TradingHub

CONSTANTS
  KeepingOps, ChangingOps,   \* what overlapping requests ask for
  UsualPrices                \* bound: prices of new fills and of edits that overlap

ASSUME MixAssumption == KeepingOps \cap {"remove", "deleteAccount"} = {}

VARIABLE mix

OpsOf == [keeping |-> KeepingOps, changing |-> ChangingOps, alone |-> AllOps]

Alone == \A r, q \in Requests : pc[r] \in Settled \/ pc[q] \in Settled \/ r = q

BoundPrices ==
  \A r \in Requests :
    /\ req'[r].price \in UsualPrices \cup {None} \/ (mix = "alone" /\ req'[r].op = "edit")
    /\ req'[r].op = "create" => \A e \in view'[r] : e.price \in UsualPrices

MixedInit == Init /\ mix \in DOMAIN OpsOf
MixedNext ==
  /\ Next
  /\ \A r \in Requests : req'[r].op \in OpsOf[mix] \cup {"none"}
  /\ mix = "alone" => Alone'
  /\ BoundPrices
  /\ UNCHANGED mix
MixedSpec == MixedInit /\ [][MixedNext]_<<vars, mix>>

(* Requests that add, edit, promote, re-plan or delete, decided from loads  *)
(* that are stale by the time they write, still leave every idea with       *)
(* exactly one primary fill.                                                *)
PrimaryWhileKept == mix = "keeping" => ExactlyOnePrimary

(* One request at a time, an idea has exactly one primary fill until an     *)
(* account is deleted, none is left without a fill, and the stored metrics  *)
(* agree with the stored idea and the stored price.                         *)
BookIsWhole == mix = "alone" => PrimaryUntilCascade /\ NoEmptyTrade /\ MetricsFresh
===============================================================================
