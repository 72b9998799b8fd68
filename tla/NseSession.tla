------------------------------- MODULE NseSession -------------------------------
(***************************************************************************)
(* The NSE client.  A call needs the cookies of a session, which all calls *)
(* of the process share: it makes one when there is none or it has         *)
(* expired, drops it and makes another when its request is lost or the     *)
(* session rejected, and tries again.  Every request is awaited, so calls  *)
(* interleave (the scrapes of India VIX and of the flows have crons and    *)
(* admin buttons of their own), and the session is read again each time.   *)
(***************************************************************************)
EXTENDS Integers

CONSTANTS Calls, None

VARIABLES
  session,  \* None, "valid" or "expired"
  call      \* each call: where it is, ghosts: its faults, whether one of its
            \* requests was refused outright, whether another dropped the session

vars == <<session, call>>

Idle == [at |-> "idle", then |-> None, faults |-> 0, refused |-> FALSE, robbed |-> FALSE]

Init == session = None /\ call = [c \in Calls |-> Idle]

Expire == session = "valid" /\ session' = "expired" /\ UNCHANGED call

(* The cookies' age is looked at once, when the call begins.                *)
Get(c) ==
  /\ call[c].at \in {"idle", "answered", "failed"}
  /\ call' = [call EXCEPT ![c] =
       IF session = "valid" THEN [Idle EXCEPT !.at = "first"]
       ELSE [Idle EXCEPT !.at = "init", !.then = "first"]]
  /\ UNCHANGED session

(* Three requests for cookies; if one is lost, the call fails.              *)
InitSession(c) ==
  /\ call[c].at = "init"
  /\ \/ /\ session' = "valid"
        /\ call' = [call EXCEPT ![c].at = call[c].then]
     \/ /\ call' = [call EXCEPT ![c].at = "failed", ![c].refused = TRUE]
        /\ UNCHANGED session

(* The session is dropped for all.                                          *)
Renew(c, then, faults) ==
  /\ session' = None
  /\ call' = [d \in Calls |->
       IF d = c THEN [call[c] EXCEPT !.at = "init", !.then = then, !.faults = @ + faults]
       ELSE [call[d] EXCEPT !.robbed = TRUE]]

End(c, at, faults, refused) ==
  /\ call' = [call EXCEPT ![c].at = at, ![c].faults = @ + faults, ![c].refused = refused]
  /\ UNCHANGED session

Sending(c) == call[c].at \in {"first", "second", "third"}
Answer(c) == Sending(c) /\ session # None /\ End(c, "answered", 0, FALSE)

(* Lost, or without cookies to send because another call has dropped them:  *)
(* the first request is sent again.                                         *)
Lost(c) ==
  /\ Sending(c)
  /\ LET fault == IF session = None THEN 0 ELSE 1
     IN IF call[c].at = "first" THEN Renew(c, "second", fault) ELSE End(c, "failed", fault, FALSE)

(* Variant: a rejected session is dropped but no other one made.            *)
DroppedOnly(c) ==
  /\ Sending(c) /\ session # None
  /\ IF call[c].at = "third" THEN End(c, "failed", 1, FALSE)
     ELSE /\ session' = None
          /\ call' = [d \in Calls |->
               IF d = c THEN [call[c] EXCEPT !.at = "third", !.faults = @ + 1]
               ELSE [call[d] EXCEPT !.robbed = TRUE]]

(* 401 or 403: once more, with a session of its own.                        *)
Rejected(c) ==
  /\ Sending(c) /\ session # None
  /\ IF call[c].at = "third" THEN End(c, "failed", 1, FALSE) ELSE Renew(c, "third", 1)

(* Another error, or an answer that is no JSON.                             *)
Refused(c) == Sending(c) /\ session # None /\ End(c, "failed", 0, TRUE)

Next == Expire \/ \E c \in Calls : \/ Get(c) \/ InitSession(c) \/ Answer(c)
                                   \/ Lost(c) \/ Rejected(c) \/ Refused(c)

Spec == Init /\ [][Next]_vars
-------------------------------------------------------------------------------
(* One lost request or one rejected session never costs a call, whatever    *)
(* the others do, as long as none of them drops the session they share      *)
(* while it lasts.                                                          *)
OneFaultIsSurvived ==
  \A c \in Calls : call[c].at = "failed" =>
    call[c].refused \/ call[c].faults >= 2 \/ call[c].robbed
===============================================================================
