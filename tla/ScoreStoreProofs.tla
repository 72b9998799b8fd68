---------------------------- MODULE ScoreStoreProofs ----------------------------
(***************************************************************************)
(* A theorem about ScoreStore, for every set of dates, writers, answers    *)
(* and rule versions: what is stored of a score stays true while it is     *)
(* carried, re-scored and raced for.                                       *)
(***************************************************************************)
EXTENDS ScoreStore, TLAPS

Flags == DOMAIN Width \cup {"CARRY_FORWARD"}

(* Dates are numbers, and no handler sets the flag of a carried score.      *)
AnswersAreOwn ==
  /\ Days \subseteq Int
  /\ \A a \in Answers : a.flags \in Seq(Flags) /\ "CARRY_FORWARD" \notin ToSet(a.flags)

(* A score for a date is a handler's own, of that date or an earlier one,   *)
(* and its flags tell which.                                                *)
Origin(d, score, made) == \E p \in made : p[1] <= d /\ p[2] = score
Scored(x, made) ==
  /\ x.day \in Days /\ x.flags \in Seq(Flags)
  /\ Origin(x.day, x.score, made)
  /\ "CARRY_FORWARD" \in ToSet(x.flags) <=> x.from < x.day

CallOK(k, made) ==
  /\ k.stage \in {"idle", "carry", "lookup", "write"}
  /\ k.stage = "carry" => k.day \in Days
  /\ k.stage \in {"lookup", "write"} => Scored(k, made)

IInv ==
  /\ answer \in [Days -> Answers \cup {Insufficient}]
  /\ call = [w \in Writers |-> call[w]]
  /\ \A p \in produced : p[1] \in Days
  /\ \A w \in Writers : CallOK(call[w], produced)
  /\ \A r \in scores : Scored(r, produced)
  /\ OneScorePerRule

-------------------------------------------------------------------------------
LEMMA InvInit == Init => IInv
BY DEF Init, IInv, CallOK, Idle, OneScorePerRule

LEMMA ScoredStays ==
  ASSUME NEW x, NEW made, NEW more, made \subseteq more, Scored(x, made)
  PROVE  Scored(x, more)
BY DEF Scored, Origin

(* A step of one call that leaves the scores alone.                         *)
LEMMA InvCall ==
  ASSUME IInv, NEW w \in Writers, UNCHANGED <<answer, scores>>,
         call' = [call EXCEPT ![w] = call'[w]], CallOK(call'[w], produced'),
         produced \subseteq produced', \A p \in produced' : p[1] \in Days
  PROVE  IInv'
<1>1. \A v \in Writers : CallOK(call'[v], produced')
  BY ScoredStays DEF IInv, CallOK
<1>2. \A r \in scores : Scored(r, produced')
  BY ScoredStays DEF IInv
<1> QED
  BY <1>1, <1>2 DEF IInv, OneScorePerRule

(* Carrying a score adds the mark, and nothing but an earlier date's score  *)
(* is carried.                                                              *)
LEMMA CarryScored ==
  ASSUME AnswersAreOwn, IInv, NEW d \in Days, NEW r \in Prior(d), NEW k,
         k.day = d, k.score = r.score, k.flags = CarriedFlags(r), k.from = r.day
  PROVE  Scored(k, produced)
<1>1. r \in scores /\ r.day < d /\ Scored(r, produced)
  BY DEF Prior, IInv
<1>2. r.flags \in Seq(Flags) /\ k.flags = Append(r.flags, "CARRY_FORWARD")
  BY <1>1 DEF Scored, CarriedFlags
<1> DEFINE n == Len(r.flags) + 1
<1>3. k.flags \in Seq(Flags) /\ k.flags[n] = "CARRY_FORWARD" /\ n \in DOMAIN k.flags
  <2>1. Len(r.flags) \in Nat
    BY <1>2
  <2>2. "CARRY_FORWARD" \in Flags
    BY DEF Flags
  <2>3. /\ k.flags \in Seq(Flags) /\ Len(k.flags) = n
        /\ DOMAIN k.flags = 1..Len(k.flags)
    BY <1>2, <2>1, <2>2
  <2>4. k.flags[n] = "CARRY_FORWARD"
    BY <1>2, <2>1, <2>2
  <2> QED
    BY <2>1, <2>3, <2>4
<1>4. "CARRY_FORWARD" \in ToSet(k.flags)
  BY <1>3 DEF ToSet
<1>5. r.day \in Int /\ d \in Int /\ \A p \in produced : p[1] \in Int
  BY <1>1 DEF Scored, AnswersAreOwn, IInv
<1>6. Origin(d, k.score, produced)
  BY <1>1, <1>5 DEF Scored, Origin
<1> QED
  BY <1>1, <1>3, <1>4, <1>6 DEF Scored

LEMMA InvRunHandler ==
  ASSUME AnswersAreOwn, IInv, NEW w \in Writers, NEW d \in Days, RunHandler(w, d)
  PROVE  IInv'
<1>1. CASE answer[d] = Insufficient
  <2>1. call'[w] = [stage |-> "carry", day |-> d] /\ produced' = produced
    BY <1>1 DEF RunHandler, IInv
  <2>2. CallOK(call'[w], produced')
    BY <2>1 DEF CallOK
  <2>3. call' = [call EXCEPT ![w] = call'[w]] /\ UNCHANGED <<answer, scores>>
    BY DEF RunHandler, IInv
  <2> QED
    BY <2>1, <2>2, <2>3, InvCall DEF IInv
<1>2. CASE answer[d] # Insufficient
  <2> DEFINE a == answer[d]
             p == <<d, a.score>>
  <2>1. a \in Answers
    BY <1>2 DEF IInv
  <2>2. /\ call'[w] = [stage |-> "lookup", day |-> d, score |-> a.score, flags |-> a.flags,
                       named |-> a.named, from |-> d]
        /\ produced' = produced \cup {p}
    BY <1>2 DEF RunHandler, IInv
  <2>3. d \in Int /\ a.flags \in Seq(Flags) /\ "CARRY_FORWARD" \notin ToSet(a.flags)
    BY <2>1 DEF AnswersAreOwn
  <2>4. p[1] = d /\ p[2] = a.score
    OBVIOUS
  <2> HIDE DEF a, p
  <2>5. Origin(d, a.score, produced')
    BY <2>2, <2>3, <2>4 DEF Origin
  <2>6. CallOK(call'[w], produced')
    BY <2>2, <2>3, <2>5 DEF CallOK, Scored
  <2>7. call' = [call EXCEPT ![w] = call'[w]] /\ UNCHANGED <<answer, scores>>
    BY DEF RunHandler, IInv
  <2>8. produced \subseteq produced' /\ \A q \in produced' : q[1] \in Days
    BY <2>2, <2>4 DEF IInv
  <2> QED
    BY <2>6, <2>7, <2>8, InvCall
<1> QED
  BY <1>1, <1>2

LEMMA InvCarryForward ==
  ASSUME AnswersAreOwn, IInv, NEW w \in Writers, CarryForward(w)
  PROVE  IInv'
<1> DEFINE d == call[w].day
<1>1. d \in Days /\ produced' = produced /\ UNCHANGED <<answer, scores>>
  BY DEF CarryForward, IInv, CallOK
<1>2. CASE Prior(d) = {}
  <2>1. call'[w] = Idle /\ call' = [call EXCEPT ![w] = call'[w]]
    BY <1>2 DEF CarryForward, IInv
  <2> QED
    BY <1>1, <2>1, InvCall DEF IInv, CallOK, Idle
<1>3. CASE Prior(d) # {}
  <2>1. PICK r \in Prior(d) : call' = [call EXCEPT ![w] =
          [stage |-> "lookup", day |-> d, score |-> r.score, flags |-> CarriedFlags(r),
           named |-> FALSE, from |-> r.day]]
    BY <1>3 DEF CarryForward
  <2>2. /\ call'[w] = [stage |-> "lookup", day |-> d, score |-> r.score,
                       flags |-> CarriedFlags(r), named |-> FALSE, from |-> r.day]
        /\ call' = [call EXCEPT ![w] = call'[w]]
    BY <2>1 DEF IInv
  <2>3. /\ call'[w].stage = "lookup" /\ call'[w].day = d /\ call'[w].score = r.score
        /\ call'[w].flags = CarriedFlags(r) /\ call'[w].from = r.day
    BY <2>2
  <2> HIDE DEF d
  <2>4. Scored(call'[w], produced)
    BY <1>1, <2>3, CarryScored
  <2>5. CallOK(call'[w], produced')
    BY <1>1, <2>3, <2>4 DEF CallOK
  <2> QED
    BY <1>1, <2>2, <2>5, InvCall DEF IInv
<1> QED
  BY <1>2, <1>3

LEMMA InvLookup ==
  ASSUME IInv, NEW w \in Writers, Lookup(w)
  PROVE  IInv'
<1>1. /\ produced' = produced /\ UNCHANGED <<answer, scores>>
      /\ call' = [call EXCEPT ![w] = call'[w]] /\ Scored(call[w], produced)
  BY DEF Lookup, IInv, CallOK
<1>2. CASE call'[w] = Idle
  BY <1>1, <1>2, InvCall DEF IInv, CallOK, Idle
<1>3. CASE call'[w] # Idle
  <2>1. /\ call'[w].stage = "write" /\ call'[w].day = call[w].day
        /\ call'[w].score = call[w].score /\ call'[w].flags = call[w].flags
        /\ call'[w].from = call[w].from
    BY <1>3 DEF Lookup, IInv
  <2>2. CallOK(call'[w], produced')
    BY <1>1, <2>1 DEF CallOK, Scored
  <2> QED
    BY <1>1, <2>2, InvCall DEF IInv
<1> QED
  BY <1>2, <1>3

(* A write replaces the row of its date and rule, or finds none there.      *)
LEMMA InvWrite ==
  ASSUME IInv, NEW w \in Writers, Write(w)
  PROVE  IInv'
<1> DEFINE c == call[w]
           row == [day |-> c.day, rule |-> c.rule, score |-> c.score, flags |-> c.flags,
                   from |-> c.from]
<1>1. /\ scores' = (IF c.found THEN scores \ At(c.day, c.rule) ELSE scores) \cup {row}
      /\ c.found \/ At(c.day, c.rule) = {}
      /\ produced' = produced /\ answer' = answer
      /\ Scored(c, produced)
      /\ call' = [call EXCEPT ![w] = Idle]
  BY DEF Write, Refused, IInv, CallOK
<1>2. Scored(row, produced) /\ row.day = c.day /\ row.rule = c.rule
  BY <1>1 DEF Scored
<1> HIDE DEF row
<1>3. \A r \in scores' : r = row \/ (r \in scores /\ ~(r.day = c.day /\ r.rule = c.rule))
  BY <1>1 DEF At
<1>4. \A r \in scores' : Scored(r, produced')
  BY <1>1, <1>2, <1>3 DEF IInv
<1>5. OneScorePerRule'
  BY <1>2, <1>3 DEF IInv, OneScorePerRule
<1>6. \A v \in Writers : CallOK(call'[v], produced')
  BY <1>1 DEF IInv, CallOK, Idle
<1>7. call' = [v \in Writers |-> call'[v]]
  BY <1>1 DEF IInv
<1> QED
  BY <1>1, <1>4, <1>5, <1>6, <1>7 DEF IInv

LEMMA InvStep == AnswersAreOwn /\ IInv /\ [Next]_vars => IInv'
<1> SUFFICES ASSUME AnswersAreOwn, IInv, [Next]_vars PROVE IInv'
  OBVIOUS
<1>1. ASSUME NEW d \in Days, Arrive(d) PROVE IInv'
  BY <1>1 DEF Arrive, IInv, OneScorePerRule
<1>2. CASE NewRule
  BY <1>2 DEF NewRule, IInv, OneScorePerRule
<1>3. ASSUME NEW w \in Writers, NEW d \in Days, RunHandler(w, d) PROVE IInv'
  BY <1>3, InvRunHandler
<1>4. ASSUME NEW w \in Writers, CarryForward(w) PROVE IInv'
  BY <1>4, InvCarryForward
<1>5. ASSUME NEW w \in Writers, Lookup(w) PROVE IInv'
  BY <1>5, InvLookup
<1>6. ASSUME NEW w \in Writers, Write(w) PROVE IInv'
  BY <1>6, InvWrite
<1>7. ASSUME NEW w \in Writers, Throw(w) PROVE IInv'
  <2>1. /\ call'[w] = Idle /\ call' = [call EXCEPT ![w] = call'[w]]
        /\ produced' = produced /\ UNCHANGED <<answer, scores>>
    BY <1>7 DEF Throw, IInv
  <2> QED
    BY <2>1, InvCall DEF IInv, CallOK, Idle
<1>8. CASE UNCHANGED vars
  BY <1>8 DEF vars, IInv, OneScorePerRule
<1> QED
  BY <1>1, <1>2, <1>3, <1>4, <1>5, <1>6, <1>7, <1>8 DEF Next

(* Through carries of carries, re-scores, corrections, new rule versions    *)
(* and races of any number of writers: a stored score was a handler's own   *)
(* for that date or an earlier one, exactly the carried ones are marked as  *)
(* such, and a date has one score per rule version.                         *)
THEOREM StoredScoresHold ==
  ASSUME AnswersAreOwn
  PROVE  Spec => []ScoresAreKept
<1>1. IInv => ScoresAreKept
  BY DEF IInv, ScoresAreKept, ScoresHaveOrigin, CarriedIsMarked, OneScorePerRule, Scored,
         Origin, Carried
<1>2. IInv /\ [Next]_vars => IInv'
  BY InvStep
<1> QED
  BY <1>1, <1>2, InvInit, PTL DEF Spec
=================================================================================
