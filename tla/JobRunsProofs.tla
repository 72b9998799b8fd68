----------------------------- MODULE JobRunsProofs -----------------------------
(***************************************************************************)
(* A theorem about JobRuns, for any number of server instances and every   *)
(* job: what the guard lets overlap, and what the log says of a run.       *)
(***************************************************************************)
EXTENDS JobRuns, FiniteSetTheorems, TLAPS

Results == {"success", "partial", "failed"}
Rows == [id : Nat, start : Int, status : Results \cup {"running"}, results : SUBSET Results]

LogOK ==
  /\ now \in Int /\ job \in Jobs
  /\ log \subseteq Rows /\ IsFiniteSet(log)
  /\ \A r \in log : r.id <= Cardinality(log)
  /\ \A r, q \in log : r.id = q.id => r = q

(* A run past its guard knows every row it saw that still runs to be older  *)
(* than its lookback; a working one has a running row of its own.           *)
Cleared(k) ==
  \A i \in k.saw :
    /\ i \in Nat /\ i <= Cardinality(log)
    /\ \A r \in log : r.id = i /\ r.status = "running" => r.start < k.at - job.lookback
RunOK(k) ==
  /\ k.stage \in {"idle", "cleared", "work", "modules"}
  /\ k.stage \in {"cleared", "work"} => k.at \in Int /\ Cleared(k)
  /\ k.stage = "work" => \E r \in log : r.id = k.id /\ r.status = "running"
RunsOK ==
  /\ run = [p \in Procs |-> run[p]]
  /\ \A p \in Procs : RunOK(run[p])
  /\ \A p, q \in Working : run[p].id = run[q].id => p = q

IInv == LogOK /\ RunsOK /\ LogIsTrue

-------------------------------------------------------------------------------
(* The status of a run and what became of its items. *)

LEMMA JobShape ==
  ASSUME NEW j \in Jobs
  PROVE  /\ j.lookback \in Int /\ j.items \in {1, 2}
         /\ j.rollup \in {"byIndicator", "byItem", "anySuccess", "successOrFailed", "asReported"}
         /\ j.rollup \in {"successOrFailed", "asReported"} => j.items = 1
BY DEF Jobs, JOB_HANDLERS, Job, runEodhdFetchAll, runFredFetchAll, runYahooBrentFetch,
       runCrudeBrentFetch, runNseVixScrape, runNseFiiDiiScrape, runNseParticipantOiScrape,
       runForexFactoryFetch, runCftcCotFetch, runNiftyInd9BridgeCron, runScorecardAssemblyCron,
       runAllCompassInputs, runCompassClassifierJob, runScorecardOrchestrator,
       runPairScoreOrchestrator

LEMMA CountZero ==
  ASSUME NEW n \in {1, 2}, NEW results \in [1..n -> Results], NEW x
  PROVE  /\ Count(results, x) \in Nat
         /\ Count(results, x) = 0 <=> x \notin ToSet(results)
         /\ n = 1 => (Count(results, x) = 1 <=> results[1] = x)
<1> DEFINE S == {i \in DOMAIN results : results[i] = x}
<1>1. S \subseteq 1..n /\ IsFiniteSet(1..n)
  BY FS_Interval
<1>2. IsFiniteSet(S) /\ Cardinality(S) \in Nat /\ (Cardinality(S) = 0 <=> S = {})
  BY <1>1, FS_Subset, FS_CardinalityType, FS_EmptySet
<1>3. S = {} <=> x \notin ToSet(results)
  BY DEF ToSet
<1>4. ASSUME n = 1 PROVE Cardinality(S) = 1 <=> results[1] = x
  <2>1. S = IF results[1] = x THEN {1} ELSE {}
    BY <1>4
  <2> QED
    BY <1>2, <2>1, FS_Singleton, FS_EmptySet
<1> QED
  BY <1>2, <1>3, <1>4 DEF Count

(* The status a job writes says of its items what it should.                *)
LEMMA RollupTrue ==
  ASSUME NEW j \in Jobs, NEW results \in [1..j.items -> ItemResults(j)]
  PROVE  LET status == Rollup(j.rollup, results)
         IN /\ status \in Results
            /\ status = "failed" => "success" \notin ToSet(results)
            /\ status = "success" =>
                 "success" \in ToSet(results)
                 /\ (j.rollup # "anySuccess" => "failed" \notin ToSet(results))
<1>1. j.items \in {1, 2} /\ results \in [1..j.items -> Results]
  BY JobShape DEF ItemResults, Results
<1>2. \A x : /\ Count(results, x) \in Nat
             /\ Count(results, x) = 0 <=> x \notin ToSet(results)
  BY <1>1, CountZero
<1>3. results[1] \in ItemResults(j) /\ results[1] \in ToSet(results) /\ results[1] \in Results
  BY <1>1 DEF ToSet
<1>4. \A x \in ToSet(results) : x \in ItemResults(j)
  BY DEF ToSet
<1>5. CASE j.rollup = "byIndicator"
  BY <1>2, <1>3, <1>4, <1>5 DEF Rollup, Results, ItemResults
<1>6. CASE j.rollup = "byItem"
  BY <1>2, <1>3, <1>4, <1>6 DEF Rollup, Results, ItemResults
<1>7. CASE j.rollup = "anySuccess"
  BY <1>2, <1>3, <1>4, <1>7 DEF Rollup, Results, ItemResults
<1>8. CASE j.rollup \in {"successOrFailed", "asReported"}
  <2>1. j.items = 1 /\ (Count(results, "success") = 1 <=> results[1] = "success")
    BY <1>1, <1>8, JobShape, CountZero
  <2>2. ToSet(results) = {results[1]}
    BY <1>1, <2>1 DEF ToSet
  <2> QED
    BY <1>3, <1>8, <2>1, <2>2 DEF Rollup, Results
<1> QED
  BY <1>5, <1>6, <1>7, <1>8, JobShape
-------------------------------------------------------------------------------
(* The log. *)

LEMMA LogFinite == LogOK => Cardinality(log) \in Nat
BY FS_CardinalityType DEF LogOK

(* Completing the row of a run changes that row alone.                      *)
LEMMA CompletedLog ==
  ASSUME LogOK, NEW q \in log, NEW status \in Results, NEW results \in SUBSET Results,
         log' = Completed(q.id, status, results)
  PROVE  LET row == [q EXCEPT !.status = status, !.results = results]
         IN /\ log' = (log \ {q}) \cup {row}
            /\ row \in Rows /\ row.id = q.id /\ row.status = status /\ row.results = results
            /\ IsFiniteSet(log') /\ Cardinality(log') = Cardinality(log)
<1> DEFINE row == [q EXCEPT !.status = status, !.results = results]
<1>1. q \in Rows /\ \A r \in log : r.id = q.id <=> r = q
  BY DEF LogOK
<1>2. row \in Rows /\ row.id = q.id /\ row.status = status /\ row.results = results
  BY <1>1 DEF Rows, Results
<1>3. log' = {IF r.id = q.id THEN [r EXCEPT !.status = status, !.results = results] ELSE r :
                r \in log}
  BY DEF Completed
<1>4. log' = {IF r = q THEN row ELSE r : r \in log}
  BY <1>1, <1>3
<1> HIDE DEF row
<1>5. log' = (log \ {q}) \cup {row}
  BY <1>4
<1>6. row \notin log \ {q}
  BY <1>1, <1>2
<1> DEFINE S == log \ {q}
<1>7. IsFiniteSet(S) /\ Cardinality(S) = Cardinality(log) - 1
  BY FS_RemoveElement DEF LogOK
<1> HIDE DEF S
<1>8. row \notin S /\ log' = S \cup {row}
  BY <1>5, <1>6 DEF S
<1>9. IsFiniteSet(log') /\ Cardinality(log') = Cardinality(S) + 1
  BY <1>7, <1>8, FS_AddElement
<1>10. Cardinality(log') = Cardinality(log)
  BY <1>7, <1>9, LogFinite
<1> QED
  BY <1>2, <1>5, <1>9, <1>10 DEF row

(* A run that goes on or ends while the log stays as it is.                 *)
LEMMA InvAlone ==
  ASSUME IInv, NEW p \in Procs, UNCHANGED <<trading, job, log>>, now' \in Int,
         run' = [run EXCEPT ![p] = run'[p]], run'[p].stage \in {"idle", "cleared", "modules"},
         run'[p].stage = "cleared" => run'[p].at \in Int /\ Cleared(run'[p])
  PROVE  IInv'
<1>1. \A q \in Procs : run'[q] = run[q] \/ (q = p /\ run'[q].stage # "work")
  BY DEF IInv, RunsOK
<1>2. \A q \in Procs : RunOK(run'[q])
  BY <1>1 DEF IInv, RunsOK, RunOK
<1>3. RunsOK'
  BY <1>1, <1>2 DEF IInv, RunsOK, RunOK, Working, Cleared
<1> QED
  BY <1>3 DEF IInv, LogOK, LogIsTrue

LEMMA InvGuard ==
  ASSUME IInv, NEW p \in Procs, Guard(p)
  PROVE  IInv'
<1>1. run'[p] = [stage |-> "cleared", at |-> now, saw |-> {r.id : r \in log}]
      /\ run' = [run EXCEPT ![p] = run'[p]]
  BY DEF Guard, IInv, RunsOK
<1>2. run'[p].stage = "cleared" /\ run'[p].at = now /\ run'[p].saw = {r.id : r \in log}
  BY <1>1
<1>3. \A r \in log : /\ r.id \in Nat /\ r.id <= Cardinality(log) /\ r.start \in Int
                     /\ r.status = "running" => r.start < now - job.lookback
  <2>1. \A r \in log : r \in Rows /\ r.id <= Cardinality(log)
    BY DEF IInv, LogOK
  <2>2. now - job.lookback \in Int
    BY JobShape DEF IInv, LogOK
  <2>3. \A r \in log : ~(r.status = "running" /\ r.start >= now - job.lookback)
    BY DEF Guard, Running
  <2> QED
    BY <2>1, <2>2, <2>3 DEF Rows
<1>4. Cleared(run'[p])
  BY <1>2, <1>3 DEF Cleared
<1> QED
  BY <1>1, <1>2, <1>4, InvAlone DEF Guard, IInv, LogOK

LEMMA InvStart ==
  ASSUME IInv, NEW p \in Procs, Start(p)
  PROVE  IInv'
<1> DEFINE n == Cardinality(log) + 1
           row == [id |-> n, start |-> now, status |-> "running", results |-> {}]
<1>1. Cardinality(log) \in Nat /\ \A r \in log : r.id <= Cardinality(log) /\ r.id \in Nat
  BY LogFinite DEF IInv, LogOK, Rows
<1>2. log' = log \cup {row} /\ now' = now /\ job' = job
  BY DEF Start
<1>3. row \in Rows /\ row.id = n /\ row.status = "running"
  BY <1>1 DEF Rows, Results, IInv, LogOK
<1> HIDE DEF row
<1>4. row \notin log
  BY <1>1, <1>3
<1>5. IsFiniteSet(log') /\ Cardinality(log') = n
  BY <1>2, <1>4, FS_AddElement DEF IInv, LogOK
<1>6. LogOK'
  <2>1. \A r \in log' : r \in Rows /\ r.id <= n
    BY <1>1, <1>2, <1>3 DEF IInv, LogOK
  <2>2. \A r, q \in log' : r.id = q.id => r = q
    BY <1>1, <1>2, <1>3 DEF IInv, LogOK
  <2> QED
    BY <1>2, <1>5, <2>1, <2>2 DEF IInv, LogOK
<1>7. LogIsTrue'
  BY <1>2, <1>3 DEF IInv, LogIsTrue
<1>8. /\ run'[p].stage = "work" /\ run'[p].id = n /\ run'[p].at = run[p].at
      /\ run'[p].saw = run[p].saw
      /\ \A q \in Procs : q # p => run'[q] = run[q]
      /\ run' = [q \in Procs |-> run'[q]]
  BY DEF Start, IInv, RunsOK
<1>9. \A q \in Procs : run'[q].stage \in {"cleared", "work"} =>
        run'[q].at \in Int /\ Cleared(run[q])'
  <2>1. \A q \in Procs : run[q].stage \in {"cleared", "work"} =>
          run[q].at \in Int /\ Cleared(run[q])
    BY DEF IInv, RunsOK, RunOK
  <2>2. run[p].stage = "cleared"
    BY DEF Start
  <2>3. \A t \in log' : t \in log \/ t.id = n
    BY <1>2, <1>3
  <2>4. \A q \in Procs : run'[q].stage \in {"cleared", "work"} =>
          run[q].at \in Int /\ Cleared(run[q]) /\ run'[q].at = run[q].at /\ run'[q].saw = run[q].saw
    BY <1>8, <2>1, <2>2
  <2> QED
    BY <1>1, <1>2, <1>5, <2>3, <2>4 DEF Cleared
<1>10. \A q \in Procs : run'[q].stage = "work" =>
         \E r \in log' : r.id = run'[q].id /\ r.status = "running"
  BY <1>2, <1>3, <1>8 DEF IInv, RunsOK, RunOK
<1>11. \A q \in Procs : q # p /\ run[q].stage = "work" => run[q].id # n
  BY <1>1 DEF IInv, RunsOK, RunOK
<1>12. \A q \in Procs : RunOK(run[q])'
  BY <1>8, <1>9, <1>10 DEF IInv, RunsOK, RunOK
<1>13. RunsOK'
  BY <1>8, <1>11, <1>12 DEF IInv, RunsOK, Working
<1> QED
  BY <1>6, <1>7, <1>13 DEF IInv

(* A run ends, its row completed.                                           *)
LEMMA InvComplete ==
  ASSUME IInv, NEW p \in Procs, run[p].stage = "work", NEW status \in Results,
         NEW results \in SUBSET Results,
         log' = Completed(run[p].id, status, results), UNCHANGED <<now, trading, job>>,
         run' = [run EXCEPT ![p] = run'[p]], run'[p].stage \in {"idle", "modules"},
         status = "failed" => "success" \notin results,
         status = "success" =>
           "success" \in results /\ (job.rollup # "anySuccess" => "failed" \notin results)
  PROVE  IInv'
<1>1. PICK q \in log : q.id = run[p].id /\ q.status = "running"
  BY DEF IInv, RunsOK, RunOK
<1> DEFINE row == [q EXCEPT !.status = status, !.results = results]
<1>2. /\ log' = (log \ {q}) \cup {row}
      /\ row \in Rows /\ row.id = q.id /\ row.status = status /\ row.results = results
      /\ IsFiniteSet(log') /\ Cardinality(log') = Cardinality(log)
  BY <1>1, CompletedLog DEF IInv
<1> HIDE DEF row
<1>3. LogOK'
  BY <1>2 DEF IInv, LogOK
<1>4. LogIsTrue'
  BY <1>2 DEF IInv, LogIsTrue
<1>5. \A t \in log' : t.status = "running" => t \in log
  BY <1>2 DEF Results
<1>6. \A s \in Procs : s # p => run'[s] = run[s]
  BY DEF IInv, RunsOK
<1>7. \A s \in Procs : s # p /\ run[s].stage = "work" =>
        \E r \in log' : r.id = run[s].id /\ r.status = "running"
  <2> SUFFICES ASSUME NEW s \in Procs, s # p, run[s].stage = "work"
               PROVE  \E r \in log' : r.id = run[s].id /\ r.status = "running"
    OBVIOUS
  <2>1. PICK r \in log : r.id = run[s].id /\ r.status = "running"
    BY DEF IInv, RunsOK, RunOK
  <2>2. run[s].id # run[p].id
    BY DEF IInv, RunsOK, Working
  <2> QED
    BY <1>1, <1>2, <2>1, <2>2
<1>8. \A s \in Procs : s # p /\ run[s].stage \in {"cleared", "work"} =>
        run[s].at \in Int /\ Cleared(run[s])
  BY DEF IInv, RunsOK, RunOK
<1>9. \A s \in Procs : RunOK(run[s])'
  <2> SUFFICES ASSUME NEW s \in Procs PROVE RunOK(run[s])'
    OBVIOUS
  <2>1. CASE s = p
    BY <2>1 DEF RunOK
  <2>2. CASE s # p
    <3>1. run'[s].stage \in {"cleared", "work"} => Cleared(run[s])'
      BY <1>2, <1>5, <1>6, <1>8, <2>2 DEF Cleared
    <3> QED
      BY <1>6, <1>7, <1>8, <2>2, <3>1 DEF IInv, RunsOK, RunOK
  <2> QED
    BY <2>1, <2>2
<1>10. RunsOK'
  BY <1>6, <1>9 DEF IInv, RunsOK, Working
<1> QED
  BY <1>3, <1>4, <1>10 DEF IInv

LEMMA InvInit == Init => IInv
<1> SUFFICES ASSUME Init PROVE IInv
  OBVIOUS
<1>1. LogOK
  BY FS_EmptySet DEF Init, LogOK
<1>2. RunsOK
  BY DEF Init, RunsOK, RunOK, Working, Idle
<1> QED
  BY <1>1, <1>2 DEF Init, IInv, LogIsTrue

LEMMA InvStep == IInv /\ [Next]_vars => IInv'
<1> SUFFICES ASSUME IInv, [Next]_vars PROVE IInv'
  OBVIOUS
<1>1. CASE Tick
  BY <1>1 DEF Tick, IInv, LogOK, RunsOK, RunOK, Working, Cleared, LogIsTrue
<1>2. ASSUME NEW p \in Procs, Guard(p) \/ AssembleRoute(p) PROVE IInv'
  BY <1>2, InvGuard DEF AssembleRoute
<1>3. ASSUME NEW p \in Procs, Start(p) PROVE IInv'
  BY <1>3, InvStart
<1>4. ASSUME NEW p \in Procs, Complete(p) PROVE IInv'
  <2>1. PICK results \in [1..job.items -> ItemResults(job)] :
          LET status == Rollup(job.rollup, results)
          IN /\ log' = Completed(run[p].id, status, ToSet(results))
             /\ run' = [run EXCEPT ![p] = IF job.then = "modules" /\ status = "success"
                                            THEN [stage |-> "modules"] ELSE Idle]
    BY <1>4 DEF Complete
  <2> DEFINE status == Rollup(job.rollup, results)
  <2>2. /\ status \in Results
        /\ status = "failed" => "success" \notin ToSet(results)
        /\ status = "success" =>
             "success" \in ToSet(results)
             /\ (job.rollup # "anySuccess" => "failed" \notin ToSet(results))
    BY RollupTrue DEF IInv, LogOK
  <2>3. ToSet(results) \subseteq Results
    BY DEF ToSet, ItemResults, Results
  <2>4. /\ log' = Completed(run[p].id, status, ToSet(results))
        /\ run' = [run EXCEPT ![p] = run'[p]] /\ run'[p].stage \in {"idle", "modules"}
    BY <2>1 DEF Idle, IInv, RunsOK
  <2> HIDE DEF status
  <2> QED
    BY <1>4, <2>2, <2>3, <2>4, InvComplete DEF Complete
<1>5. ASSUME NEW p \in Procs, Throw(p) PROVE IInv'
  <2>1. run' = [run EXCEPT ![p] = run'[p]] /\ run'[p].stage = "idle"
    BY <1>5 DEF Throw, Idle, IInv, RunsOK
  <2>2. CASE job.thrown = "failed"
    <3>1. /\ "failed" \in Results /\ {} \in SUBSET Results
          /\ log' = Completed(run[p].id, "failed", {}) /\ run[p].stage = "work"
          /\ UNCHANGED <<now, trading, job>>
      BY <1>5, <2>2 DEF Throw, Results
    <3> QED
      BY <2>1, <3>1, InvComplete
  <2>3. CASE job.thrown # "failed"
    BY <1>5, <2>1, <2>3, InvAlone DEF Throw, IInv, LogOK
  <2> QED
    BY <2>2, <2>3
<1>6. ASSUME NEW p \in Procs, Crash(p) \/ Modules(p) PROVE IInv'
  <2>1. run' = [run EXCEPT ![p] = run'[p]] /\ run'[p].stage = "idle"
        /\ UNCHANGED <<now, trading, job, log>>
    BY <1>6 DEF Crash, Modules, Idle, IInv, RunsOK
  <2> QED
    BY <2>1, InvAlone DEF IInv, LogOK
<1>7. CASE UNCHANGED vars
  BY <1>7 DEF vars, IInv, LogOK, RunsOK, RunOK, Working, Cleared, LogIsTrue
<1> QED
  BY <1>1, <1>2, <1>3, <1>4, <1>5, <1>6, <1>7 DEF Next

(* However many instances and admin requests start a job: two runs of it    *)
(* overlap only if neither could see the other's row in time or the first   *)
(* had run for longer than the lookback, and the status of a run agrees     *)
(* with what became of its items.                                           *)
THEOREM GuardsAndLogHold == Spec => []RunsAreAccounted
<1>1. IInv => RunsAreAccounted
  <2> SUFFICES ASSUME IInv, NEW p \in Working, NEW q \in Working, run[p].id \in run[q].saw
               PROVE  RowOf(p).start < run[q].at - job.lookback
    BY DEF RunsAreAccounted, OverlapIsExplained, IInv
  <2>1. PICK r \in log : r.id = run[p].id /\ r.status = "running"
    BY DEF IInv, RunsOK, RunOK, Working
  <2>2. RowOf(p) = r
    BY <2>1 DEF RowOf, IInv, LogOK
  <2>3. Cleared(run[q])
    BY DEF IInv, RunsOK, RunOK, Working
  <2> QED
    BY <2>1, <2>2, <2>3 DEF Cleared
<1>2. IInv /\ [Next]_vars => IInv'
  BY InvStep
<1> QED
  BY <1>1, <1>2, InvInit, PTL DEF Spec
================================================================================
