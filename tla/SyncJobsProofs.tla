--------------------------- MODULE SyncJobsProofs ---------------------------
(* Theorems about SyncJobs, for any sets of jobs and any bound on rows.      *)
EXTENDS SyncJobs, TLAPS

-----------------------------------------------------------------------------
(* The worker's cycle                                                        *)

(* A family in hand leaves a shorter list, or none and the worker waits.     *)
LEMMA FamiliesFacts ==
  /\ Families # <<>> /\ Tail(Families) # <<>> /\ Tail(Tail(Families)) # <<>>
  /\ Tail(Tail(Tail(Families))) = <<>>
  /\ Head(Families) = "immich" /\ Head(Tail(Families)) = "gemini"
  /\ Head(Tail(Tail(Families))) = "calibre"
BY DEF Families

(* What the cycle has in hand are jobs of one family.                        *)
LEMMA InHandAreJobs == TypeOK => InHand \subseteq Jobs
BY FamiliesFacts DEF TypeOK, InHand, JobsOf, Jobs

LEMMA CycleMoves ==
  ASSUME TypeOK, todo # <<>>
  PROVE  Tail(todo) \in {Tail(Families), Tail(Tail(Families)), <<>>}
BY FamiliesFacts DEF TypeOK

-----------------------------------------------------------------------------
(* Type correctness                                                          *)

LEMMA InitTypeOK == Init => TypeOK
<1> SUFFICES ASSUME Init PROVE TypeOK
  OBVIOUS
<1>1. /\ next \in [Jobs -> {"off", "ahead", "reached"}]
      /\ asked \in [Jobs -> SUBSET {"schedule", "click"}]
  BY DEF Init
<1>2. wake \in BOOLEAN /\ link \in BOOLEAN
  BY DEF Init
<1>3. batch \cup current \subseteq InHand /\ leased = {} /\ \A j, k \in current : j = k
  BY DEF Init
<1>4. /\ flag \in [Jobs -> {"none", "before", "since"}]
      /\ young \in [Jobs -> Nat] /\ old \in [Jobs -> Nat]
  BY DEF Init
<1> QED BY <1>1, <1>2, <1>3, <1>4 DEF Init, TypeOK

(* The steps of time and of operators leave the worker alone.                *)
LEMMA OutsideTypeOK ==
  ASSUME TypeOK, NEW j \in Jobs,
         ComesDue(j) \/ RowAges(j) \/ Reschedule(j) \/ RunNow(j) \/ Delete(j)
  PROVE  TypeOK'
<1>1. CASE ComesDue(j)
  BY <1>1 DEF TypeOK, InHand, ComesDue, rows, worker, bell
<1>2. CASE RowAges(j)
  BY <1>2 DEF TypeOK, InHand, RowAges, worker, bell
<1>3. CASE Reschedule(j)
  BY <1>3 DEF TypeOK, InHand, Reschedule, rows, worker, bell
<1>4. CASE RunNow(j)
  BY <1>4 DEF TypeOK, InHand, RunNow, rows, worker
<1>5. CASE Delete(j)
  BY <1>5 DEF TypeOK, InHand, Delete, rows, worker, bell
<1> QED BY <1>1, <1>2, <1>3, <1>4, <1>5

(* Leaving a family empties the worker's hands.                              *)
LEMMA NextFamilyTypeOK ==
  ASSUME TypeOK, todo # <<>>, NextFamily, AddRows \/ UNCHANGED rows
  PROVE  TypeOK'
<1>1. todo' \in {Tail(Families), Tail(Tail(Families)), <<>>}
  BY CycleMoves DEF NextFamily
<1>2. todo' = <<>> <=> stage' \in {"down", "waiting"}
  BY DEF NextFamily
<1>3. young' \in [Jobs -> Nat] /\ old' \in [Jobs -> Nat]
  <2>1. CASE UNCHANGED rows
    BY <2>1 DEF TypeOK, rows
  <2>2. CASE AddRows
    BY <2>2 DEF TypeOK, AddRows
  <2> QED BY <2>1, <2>2
<1> QED
  BY <1>1, <1>2, <1>3 DEF TypeOK, InHand, NextFamily, bell

LEMMA ClaimTypeOK ==
  ASSUME TypeOK, SelectDue \/ AdvanceSchedules \/ BeginRuns
  PROVE  TypeOK'
<1>1. CASE SelectDue
  <2>1. batch' \subseteq InHand /\ leased' \subseteq batch' /\ InHand' = InHand
    BY <1>1 DEF SelectDue, InHand
  <2>2. current = {} \/ current \subseteq InHand
    BY DEF TypeOK
  <2> QED BY <1>1, <2>1, <2>2 DEF TypeOK, SelectDue, table, rows, bell
<1>2. CASE AdvanceSchedules
  BY <1>2 DEF TypeOK, InHand, AdvanceSchedules, rows, bell
<1>3. CASE BeginRuns
  BY <1>3 DEF TypeOK, InHand, BeginRuns, AddRows, bell
<1> QED BY <1>1, <1>2, <1>3

LEMMA RunTypeOK ==
  ASSUME TypeOK, NEW j \in Jobs, StartRun(j) \/ Report(j)
  PROVE  TypeOK'
<1>1. CASE StartRun(j)
  <2>1. flag' \in [Jobs -> {"none", "before", "since"}]
    BY <1>1 DEF TypeOK, StartRun
  <2>2. /\ batch' \cup current' \subseteq InHand /\ leased' = {}
        /\ InHand' = InHand /\ \A i, k \in current' : i = k
    BY <1>1 DEF TypeOK, InHand, StartRun
  <2> QED BY <1>1, <2>1, <2>2 DEF TypeOK, StartRun, rows, bell
<1>2. CASE Report(j)
  <2>1. young' \in [Jobs -> Nat] /\ old' \in [Jobs -> Nat]
    <3>1. young \in [Jobs -> Nat] /\ old \in [Jobs -> Nat] /\ CompleteRow(j)
      BY <1>2 DEF TypeOK, Report
    <3>2. CASE young[j] > 0
      <4>1. young[j] - 1 \in Nat
        BY <3>1, <3>2
      <4> QED BY <3>1, <3>2, <4>1 DEF CompleteRow
    <3>3. CASE ~(young[j] > 0)
      <4>1. (IF old[j] > 0 THEN old[j] - 1 ELSE 0) \in Nat
        BY <3>1
      <4> QED BY <3>1, <3>3, <4>1 DEF CompleteRow
    <3> QED BY <3>2, <3>3
  <2> QED BY <1>2, <2>1 DEF TypeOK, InHand, Report, bell
<1> QED BY <1>1, <1>2

(* Every step keeps the types.                                               *)
LEMMA NextTypeOK == TypeOK /\ [Next]_vars => TypeOK'
<1> SUFFICES ASSUME TypeOK, [Next]_vars PROVE TypeOK'
  OBVIOUS
<1>1. ASSUME NEW j \in Jobs,
             ComesDue(j) \/ RowAges(j) \/ Reschedule(j) \/ RunNow(j) \/ Delete(j)
      PROVE  TypeOK'
  BY <1>1, OutsideTypeOK
<1>2. CASE Ring
  BY <1>2 DEF TypeOK, InHand, Ring, table, rows, worker
<1>3. CASE Wakes \/ Polls
  BY <1>3, FamiliesFacts DEF TypeOK, InHand, Wakes, Polls, BeginCycle, table, rows
<1>4. CASE SelectDue \/ AdvanceSchedules \/ BeginRuns
  BY <1>4, ClaimTypeOK
<1>5. CASE FamilyDone \/ ClaimRefused \/ FamilyFails
  <2>1. todo # <<>> /\ NextFamily /\ (AddRows \/ UNCHANGED rows)
    BY <1>5 DEF TypeOK, FamilyDone, AllRun, ClaimRefused, RowGone, FamilyFails
  <2> QED BY <2>1, NextFamilyTypeOK
<1>6. ASSUME NEW j \in Jobs, StartRun(j) \/ Report(j)
      PROVE  TypeOK'
  BY <1>6, RunTypeOK
<1>7. CASE ReportLost
  BY <1>7 DEF TypeOK, InHand, ReportLost, table, rows, bell
<1>8. CASE Crash
  BY <1>8 DEF TypeOK, InHand, Crash, table, rows
<1>9. CASE Restart
  BY <1>9 DEF TypeOK, InHand, Restart, table, rows
<1>10. CASE Connect \/ LoseLink
  BY <1>10 DEF TypeOK, InHand, Connect, LoseLink, table, rows, worker
<1>11. CASE UNCHANGED vars
  BY <1>11 DEF TypeOK, InHand, vars, table, rows, worker, bell
<1> QED
  BY <1>1, <1>2, <1>3, <1>4, <1>5, <1>6, <1>7, <1>8, <1>9, <1>10, <1>11 DEF Next, Cycle

(* Every reachable state is well typed.                                      *)
THEOREM TypeCorrect == Spec => []TypeOK
BY InitTypeOK, NextTypeOK, PTL DEF Spec

-----------------------------------------------------------------------------
(* Runs are asked for                                                        *)

(* Each reason for which a claim selects a job is on record as asked: a       *)
(* reached schedule as "schedule", a flag as "click", but for a Calibre job's. *)
ReasonsKept ==
  \A j \in jobs : /\ next[j] = "reached" => "schedule" \in asked[j]
                  /\ flag[j] # "none" /\ j \notin Calibre => "click" \in asked[j]

LEMMA InitReasonsKept == Init => ReasonsKept
BY DEF Init, ReasonsKept

(* A report takes a click off the record and clears the flag in one go, as    *)
(* long as the job's family has a table in _JOB_MODELS.                       *)
LEMMA ReportReasonsKept ==
  ASSUME TypeOK, ReasonsKept, NEW j \in Jobs, Report(j)
  PROVE  ReasonsKept'
<1> SUFFICES ASSUME NEW i \in jobs
             PROVE  /\ next'[i] = "reached" => "schedule" \in asked'[i]
                    /\ flag'[i] # "none" /\ i \notin Calibre => "click" \in asked'[i]
  BY DEF ReasonsKept, Report
<1>1. i \in Jobs /\ flag[i] \in {"none", "before", "since"}
  BY DEF TypeOK
<1>2. CASE i # j
  BY <1>1, <1>2 DEF ReasonsKept, Report, TypeOK
<1>3. CASE i = j
  <2>1. j \notin Calibre => flag'[j] = IF flag[j] = "before" THEN "none" ELSE flag[j]
    BY <1>3 DEF Report, TypeOK
  <2>2. asked'[j] = IF flag[j] = "since" THEN asked[j] ELSE asked[j] \ {"click"}
    BY DEF Report, TypeOK
  <2>3. next'[j] = next[j]
    BY DEF Report
  <2> QED BY <1>1, <1>3, <2>1, <2>2, <2>3 DEF ReasonsKept
<1> QED BY <1>2, <1>3

(* The first commit of a claim takes the occurrence off the record with the   *)
(* schedule it advances.                                                     *)
LEMMA AdvanceReasonsKept ==
  ASSUME TypeOK, ReasonsKept, AdvanceSchedules
  PROVE  ReasonsKept'
<1> SUFFICES ASSUME NEW i \in jobs
             PROVE  /\ next'[i] = "reached" => "schedule" \in asked'[i]
                    /\ flag'[i] # "none" /\ i \notin Calibre => "click" \in asked'[i]
  BY DEF ReasonsKept, AdvanceSchedules
<1>1. i \in Jobs /\ flag' = flag
  BY DEF TypeOK, AdvanceSchedules
<1>2. next'[i] = IF i \in leased /\ next[i] # "off" THEN "ahead" ELSE next[i]
  BY <1>1 DEF AdvanceSchedules
<1>3. asked'[i] = IF i \in leased THEN asked[i] \ {"schedule"} ELSE asked[i]
  BY <1>1 DEF AdvanceSchedules
<1> QED BY <1>1, <1>2, <1>3 DEF ReasonsKept

LEMMA NextReasonsKept ==
  ASSUME TypeOK, ReasonsKept, [Next]_vars
  PROVE  ReasonsKept'
<1>1. ASSUME NEW j \in Jobs, ComesDue(j)
      PROVE  ReasonsKept'
  BY <1>1 DEF TypeOK, ReasonsKept, ComesDue
<1>2. ASSUME NEW j \in Jobs, RowAges(j)
      PROVE  ReasonsKept'
  BY <1>2 DEF ReasonsKept, RowAges
<1>3. ASSUME NEW j \in Jobs, Reschedule(j)
      PROVE  ReasonsKept'
  BY <1>3 DEF TypeOK, ReasonsKept, Reschedule
<1>4. ASSUME NEW j \in Jobs, RunNow(j)
      PROVE  ReasonsKept'
  BY <1>4 DEF TypeOK, ReasonsKept, RunNow
<1>5. ASSUME NEW j \in Jobs, Delete(j)
      PROVE  ReasonsKept'
  BY <1>5 DEF ReasonsKept, Delete
<1>6. ASSUME NEW j \in Jobs, StartRun(j)
      PROVE  ReasonsKept'
  BY <1>6 DEF TypeOK, ReasonsKept, StartRun
<1>7. ASSUME NEW j \in Jobs, Report(j)
      PROVE  ReasonsKept'
  BY <1>7, ReportReasonsKept
<1>8. CASE AdvanceSchedules
  BY <1>8, AdvanceReasonsKept
<1>9. CASE BeginRuns
  BY <1>9 DEF ReasonsKept, BeginRuns
<1>10. CASE SelectDue \/ FamilyDone \/ ClaimRefused \/ FamilyFails
  BY <1>10 DEF ReasonsKept, SelectDue, FamilyDone, ClaimRefused, FamilyFails, NextFamily, table
<1>11. CASE Ring \/ Wakes \/ Polls \/ ReportLost \/ Crash \/ Restart \/ Connect \/ LoseLink
  BY <1>11 DEF ReasonsKept, Ring, Wakes, Polls, BeginCycle, ReportLost, Crash, Restart,
               Connect, LoseLink, table
<1>12. CASE UNCHANGED vars
  BY <1>12 DEF ReasonsKept, vars, table
<1> QED
  BY <1>1, <1>2, <1>3, <1>4, <1>5, <1>6, <1>7, <1>8, <1>9, <1>10, <1>11, <1>12
  DEF Next, Cycle

(* A job that would be handed out has been asked to run since: no occurrence  *)
(* of any job is handed out twice, and no click outlives the report of its    *)
(* own run, but for the Calibre jobs', whose flag no report clears            *)
(* (claim_due_jobs, report_sync_run).                                        *)
THEOREM RunsAreAskedFor == Spec => []DueIsAskedFor
<1>1. TypeOK /\ ReasonsKept /\ [Next]_vars => ReasonsKept'
  BY NextReasonsKept
<1>2. TypeOK /\ ReasonsKept => DueIsAskedFor
  BY DEF TypeOK, ReasonsKept, DueIsAskedFor, Due
<1> QED BY <1>1, <1>2, InitReasonsKept, TypeCorrect, PTL DEF Spec

-----------------------------------------------------------------------------
(* Clicks                                                                    *)

(* What ClickOutlivesEarlierRun says of a step.                              *)
ClickStep ==
  \A j \in Jobs :
    /\ flag[j] = "since" /\ flag'[j] # "since" => current' = {j} /\ current = {}
    /\ flag[j] = "before" /\ flag'[j] = "none" => current = {j}

LEMMA NextClickStep == TypeOK /\ [Next]_vars => ClickStep
<1> SUFFICES ASSUME TypeOK, [Next]_vars PROVE ClickStep
  OBVIOUS
<1>1. ASSUME NEW j \in Jobs, RunNow(j)
      PROVE  ClickStep
  BY <1>1 DEF TypeOK, ClickStep, RunNow
<1>2. ASSUME NEW j \in Jobs, StartRun(j)
      PROVE  ClickStep
  BY <1>2 DEF TypeOK, ClickStep, StartRun
<1>3. ASSUME NEW j \in Jobs, Report(j)
      PROVE  ClickStep
  BY <1>3 DEF TypeOK, ClickStep, Report
<1>4. CASE flag' = flag
  BY <1>4 DEF ClickStep
<1>5. \/ flag' = flag
      \/ \E j \in Jobs : RunNow(j) \/ StartRun(j) \/ Report(j)
  BY DEF Next, Cycle, ComesDue, RowAges, Reschedule, Delete, Ring, Wakes, Polls, BeginCycle,
         SelectDue, AdvanceSchedules, BeginRuns, FamilyDone, ClaimRefused, FamilyFails,
         NextFamily, ReportLost, Crash, Restart, Connect, LoseLink, vars, table
<1> QED BY <1>1, <1>2, <1>3, <1>4, <1>5

(* A click is ended only by the start of a run of its job, and the flag only  *)
(* by the report of a run that began after it (report_sync_run's comparison   *)
(* with started_at).                                                         *)
THEOREM ClicksAreServed == Spec => ClickOutlivesEarlierRun
<1>1. TypeOK /\ [Next]_vars => [ClickStep]_vars
  BY NextClickStep
<1> QED BY <1>1, TypeCorrect, PTL DEF Spec, ClickOutlivesEarlierRun, ClickStep
=============================================================================
