------------------------------ MODULE SyncJobs ------------------------------
(* The sync jobs of the API and the worker that runs them.  A job is due by its *)
(* schedule or by a Run-now click.  The worker claims the due jobs of one family *)
(* after the other, runs them and reports each run.                             *)
(*                                                                              *)
(* A claim is three steps of the API: the due rows are selected, the schedules  *)
(* of the selected rows are advanced and committed, the running rows are added  *)
(* and committed.  Operators act between any two of them.  The worker can die,  *)
(* a family's pass can fail anywhere, a report or a wake can be lost.           *)
EXTENDS Integers, Sequences, FiniteSets

CONSTANTS Immich, Gemini, Calibre,  \* the jobs of each family
          Edited,                   \* jobs an operator reschedules or deletes
          MaxRows                   \* running rows there may be when a pass fails

Jobs == Immich \cup Gemini \cup Calibre

Families == <<"immich", "gemini", "calibre">>

JobsOf(f) == CASE f = "immich" -> Immich
               [] f = "gemini" -> Gemini
               [] f = "calibre" -> Calibre

ASSUME SyncJobsAssumption ==
  /\ Immich \cap Gemini = {} /\ Immich \cap Calibre = {} /\ Gemini \cap Calibre = {}
  /\ Edited \subseteq Jobs
  /\ MaxRows \in Nat

VARIABLES
  jobs,     \* the job rows that exist
  next,     \* next_run_at: in the future, reached, or off (paused, no cron)
  flag,     \* run_requested_at: not set, set before the last run began, or since
  young,    \* number of running rows of a job younger than half an hour
  old,      \* and older
  stage,    \* where the worker is
  todo,     \* families left in this cycle, the one in hand first
  batch,    \* jobs selected or claimed and not begun
  leased,   \* those the claim found due by schedule
  current,  \* the job being run, at most one
  wake,     \* the worker's event
  link,     \* whether the worker is subscribed to the wake topic
  asked     \* what a job has been asked to run for and not yet done (no code)

rows == <<young, old>>
table == <<jobs, next, flag, rows>>
worker == <<stage, todo, batch, leased, current>>
bell == <<wake, link>>
vars == <<table, worker, bell, asked>>

(* The jobs of the family the cycle is at. *)
InHand == IF todo = <<>> THEN {} ELSE JobsOf(Head(todo))

(* Selected by a claim: flagged, or on schedule and reached. *)
Due(j) == j \in jobs /\ (flag[j] # "none" \/ next[j] = "reached")

(* Jobs just created: due at once if they have a schedule. *)
Init ==
  /\ jobs = Jobs
  /\ next \in [Jobs -> {"off", "reached"}]
  /\ flag = [j \in Jobs |-> "none"]
  /\ young = [j \in Jobs |-> 0] /\ old = [j \in Jobs |-> 0]
  /\ asked = [j \in Jobs |-> IF next[j] = "reached" THEN {"schedule"} ELSE {}]
  /\ stage = "waiting" /\ todo = <<>>
  /\ batch = {} /\ leased = {} /\ current = {}
  /\ wake = TRUE /\ link = FALSE

-------------------------------------------------------------------------------
(* Time and operators *)

(* The clock passes next_run_at. *)
ComesDue(j) ==
  /\ j \in jobs /\ next[j] = "ahead"
  /\ next' = [next EXCEPT ![j] = "reached"]
  /\ asked' = [asked EXCEPT ![j] = @ \cup {"schedule"}]
  /\ UNCHANGED <<jobs, flag, rows, worker, bell>>

(* A running row becomes older than half an hour. *)
RowAges(j) ==
  /\ young[j] > 0
  /\ young' = [young EXCEPT ![j] = @ - 1]
  /\ old' = [old EXCEPT ![j] = @ + 1]
  /\ UNCHANGED <<jobs, next, flag, worker, bell, asked>>

(* A new schedule is rebased on the future; pausing turns it off; a job resumed *)
(* late may find its time passed.                                               *)
Reschedule(j) ==
  /\ j \in jobs \cap Edited
  /\ \E n \in {"off", "ahead", "reached"} \ {next[j]} :
       /\ n = "reached" => next[j] = "off"
       /\ next' = [next EXCEPT ![j] = n]
       /\ asked' = [asked EXCEPT ![j] = IF n = "reached" THEN @ \cup {"schedule"} ELSE @]
  /\ UNCHANGED <<jobs, flag, rows, worker, bell>>

(* The click commits the flag, then publishes a wake, which reaches a worker   *)
(* that is subscribed, unless the API is cut off or restarts in between.        *)
RunNow(j) ==
  /\ j \in jobs
  /\ flag' = [flag EXCEPT ![j] = "since"]
  /\ asked' = [asked EXCEPT ![j] = @ \cup {"click"}]
  /\ \E heard \in {FALSE, link} : wake' = (wake \/ heard)
  /\ UNCHANGED <<jobs, next, rows, worker, link>>

Delete(j) ==
  /\ j \in jobs \cap Edited
  /\ jobs' = jobs \ {j}
  /\ UNCHANGED <<next, flag, rows, worker, bell, asked>>

(* Fault: the tick looks at the schedules alone. *)
RingScheduled ==
  /\ link /\ ~wake
  /\ \E j \in jobs \ Calibre : next[j] = "reached"
  /\ wake' = TRUE
  /\ UNCHANGED <<table, worker, link, asked>>

(* The rotation loop's tick rings for the families with due work: not for the  *)
(* Calibre jobs, which it does not look at.                                     *)
Ring ==
  /\ link /\ ~wake
  /\ \E j \in Immich \cup Gemini : Due(j)
  /\ wake' = TRUE
  /\ UNCHANGED <<table, worker, link, asked>>

-------------------------------------------------------------------------------
(* Worker *)

BeginCycle ==
  /\ stage = "waiting"
  /\ wake' = FALSE
  /\ stage' = "select" /\ todo' = Families
  /\ UNCHANGED <<table, batch, leased, current, link, asked>>

Wakes == wake /\ BeginCycle

(* The safety poll: the wait for a wake times out. *)
Polls == ~wake /\ BeginCycle

SelectDue ==
  /\ stage = "select"
  /\ batch' = {j \in InHand : Due(j)}
  /\ leased' = {j \in batch' : next[j] = "reached"}
  /\ stage' = "advance"
  /\ UNCHANGED <<table, todo, current, bell, asked>>

(* Fault: the claim leaves the schedules to the report. *)
AdvanceNothing ==
  /\ stage = "advance" /\ leased \subseteq jobs
  /\ asked' = [j \in Jobs |-> IF j \in leased THEN asked[j] \ {"schedule"} ELSE asked[j]]
  /\ stage' = "begin"
  /\ UNCHANGED <<table, todo, batch, leased, current, bell>>

(* The commit writes next_run_at of the rows selected as due by schedule, over *)
(* whatever an operator wrote since; it fails when such a row is gone.          *)
AdvanceSchedules ==
  /\ stage = "advance" /\ leased \subseteq jobs
  /\ next' = [j \in Jobs |-> IF j \in leased /\ next[j] # "off" THEN "ahead" ELSE next[j]]
  /\ asked' = [j \in Jobs |-> IF j \in leased THEN asked[j] \ {"schedule"} ELSE asked[j]]
  /\ stage' = "begin"
  /\ UNCHANGED <<jobs, flag, rows, todo, batch, leased, current, bell>>

(* Fault: an empty claim returns before the sweep. *)
AddRowsIfAny ==
  /\ stage = "begin"
  /\ young' = [j \in Jobs |-> IF j \in batch THEN young[j] + 1 ELSE young[j]]
  /\ old' = [j \in Jobs |-> IF batch # {} /\ j \in InHand THEN 0 ELSE old[j]]

(* Every claim, an empty one too, closes the old rows of its family and adds a *)
(* running row for each job it hands out.                                       *)
AddRows ==
  /\ stage = "begin"
  /\ young' = [j \in Jobs |-> IF j \in batch THEN young[j] + 1 ELSE young[j]]
  /\ old' = [j \in Jobs |-> IF j \in InHand THEN 0 ELSE old[j]]

BeginRuns ==
  /\ batch \subseteq jobs
  /\ AddRows
  /\ stage' = "running" /\ leased' = {}
  /\ UNCHANGED <<jobs, next, flag, todo, batch, current, bell, asked>>

(* The run takes its started_at: a click so far is older than the run. *)
StartRun(j) ==
  /\ stage = "running" /\ current = {} /\ j \in batch
  /\ current' = {j} /\ batch' = batch \ {j}
  /\ flag' = [flag EXCEPT ![j] = IF @ = "since" THEN "before" ELSE @]
  /\ UNCHANGED <<jobs, next, rows, stage, todo, leased, bell, asked>>

(* The newest running row gets the result; without one the report adds a row   *)
(* that is finished.                                                            *)
CompleteRow(j) ==
  IF young[j] > 0
  THEN young' = [young EXCEPT ![j] = @ - 1] /\ old' = old
  ELSE young' = young /\ old' = [old EXCEPT ![j] = IF @ > 0 THEN @ - 1 ELSE 0]

(* Fault: the report clears the flag whenever the click came. *)
ReportClearsAny(j) ==
  /\ current = {j} /\ current' = {}
  /\ CompleteRow(j)
  /\ flag' = [flag EXCEPT ![j] = IF j \in jobs \ Calibre THEN "none" ELSE @]
  /\ asked' = [asked EXCEPT ![j] = IF flag[j] = "since" THEN @ ELSE @ \ {"click"}]
  /\ UNCHANGED <<jobs, next, stage, todo, batch, leased, bell>>

(* The report completes the newest running row and clears a flag that is older *)
(* than the run.  No table is looked up under the job type "calibre".           *)
Report(j) ==
  /\ current = {j} /\ current' = {}
  /\ CompleteRow(j)
  /\ flag' = [flag EXCEPT ![j] =
                IF @ = "before" /\ j \in jobs /\ j \notin Calibre THEN "none" ELSE @]
  /\ asked' = [asked EXCEPT ![j] = IF flag[j] = "since" THEN @ ELSE @ \ {"click"}]
  /\ UNCHANGED <<jobs, next, stage, todo, batch, leased, bell>>

(* Fault: the jobs of a failed pass are carried into the next family's. *)
NextFamilyKeeps ==
  /\ todo' = Tail(todo)
  /\ stage' = IF Tail(todo) = <<>> THEN "waiting" ELSE "select"
  /\ current' = {} /\ leased' = {}
  /\ UNCHANGED <<jobs, next, flag, batch, bell, asked>>

(* What the worker does once the family in hand is done with. *)
NextFamily ==
  /\ todo' = Tail(todo)
  /\ stage' = IF Tail(todo) = <<>> THEN "waiting" ELSE "select"
  /\ batch' = {} /\ leased' = {} /\ current' = {}
  /\ UNCHANGED <<jobs, next, flag, bell, asked>>

AllRun == stage = "running" /\ batch = {} /\ current = {}

FamilyDone == AllRun /\ NextFamily /\ UNCHANGED rows

(* A row the claim holds was deleted under it. *)
RowGone ==
  \/ stage = "advance" /\ ~(leased \subseteq jobs)
  \/ stage = "begin" /\ ~(batch \subseteq jobs)

(* The claim fails: when it writes the row, when it reads it again after that  *)
(* commit, or when it reads it for the answer, with the running rows committed. *)
ClaimRefused == /\ RowGone
                /\ NextFamily
                /\ AddRows \/ UNCHANGED rows

-------------------------------------------------------------------------------
(* Failures *)

FewRows == Cardinality(UNION {{j} \X (1..(young[j] + old[j])) : j \in Jobs}) <= MaxRows

(* Fault: a failing family ends the cycle. *)
FamilyFailsEndsCycle ==
  /\ todo # <<>> /\ ~AllRun /\ ~RowGone /\ FewRows
  /\ todo' = <<>> /\ stage' = "waiting"
  /\ batch' = {} /\ leased' = {} /\ current' = {}
  /\ UNCHANGED <<table, bell, asked>>

(* The pass over the family raises: a claim that gets no answer, a bucket or a *)
(* prompt list that cannot be read, a group that cannot be created.             *)
FamilyFails == todo # <<>> /\ ~AllRun /\ ~RowGone /\ FewRows /\ NextFamily /\ UNCHANGED rows

(* A report that is not accepted is logged and forgotten. *)
ReportLost ==
  /\ current # {} /\ FewRows
  /\ current' = {}
  /\ UNCHANGED <<table, stage, todo, batch, leased, bell, asked>>

Crash ==
  /\ stage # "down" /\ FewRows
  /\ stage' = "down" /\ todo' = <<>>
  /\ batch' = {} /\ leased' = {} /\ current' = {}
  /\ wake' = FALSE /\ link' = FALSE
  /\ UNCHANGED <<table, asked>>

Restart ==
  /\ stage = "down"
  /\ stage' = "waiting" /\ wake' = TRUE
  /\ UNCHANGED <<table, todo, batch, leased, current, link, asked>>

Connect ==
  /\ stage # "down" /\ ~link
  /\ link' = TRUE /\ wake' = TRUE
  /\ UNCHANGED <<table, worker, asked>>

LoseLink == link /\ link' = FALSE /\ UNCHANGED <<table, worker, wake, asked>>

-------------------------------------------------------------------------------
Cycle ==
  \/ SelectDue \/ AdvanceSchedules \/ BeginRuns \/ FamilyDone \/ ClaimRefused
  \/ \E j \in Jobs : StartRun(j) \/ Report(j)

Next ==
  \/ \E j \in Jobs : ComesDue(j) \/ RowAges(j) \/ Reschedule(j) \/ RunNow(j) \/ Delete(j)
  \/ Ring \/ Wakes \/ Polls \/ Cycle
  \/ FamilyFails \/ ReportLost \/ Crash \/ Restart \/ Connect \/ LoseLink

Spec ==
  /\ Init /\ [][Next]_vars
  /\ WF_vars(Cycle) /\ WF_vars(Wakes) /\ WF_vars(Restart) /\ WF_vars(Ring)

-------------------------------------------------------------------------------
(* Properties *)

(* Types of the rows, of the worker's cycle and of what it holds. *)
TypeOK ==
  /\ jobs \subseteq Jobs
  /\ next \in [Jobs -> {"off", "ahead", "reached"}]
  /\ flag \in [Jobs -> {"none", "before", "since"}]
  /\ young \in [Jobs -> Nat] /\ old \in [Jobs -> Nat]
  /\ asked \in [Jobs -> SUBSET {"schedule", "click"}]
  /\ stage \in {"down", "waiting", "select", "advance", "begin", "running"}
  /\ todo \in {Families, Tail(Families), Tail(Tail(Families)), <<>>}
  /\ todo = <<>> <=> stage \in {"down", "waiting"}
  /\ leased \subseteq batch /\ (leased # {} => stage \in {"advance", "begin"})
  /\ batch \cup current \subseteq InHand
  /\ \A j, k \in current : j = k
  /\ wake \in BOOLEAN /\ link \in BOOLEAN

(* A job that would be handed out has been asked to run: its schedule came due  *)
(* and was not handed out since, or it was clicked and no run that began after   *)
(* the click has been reported (the lease of claim_due_jobs and the clearing of   *)
(* the flag in report_sync_run).  Excepted is the flag of a Calibre job, which    *)
(* no report clears; its schedule is not.                                        *)
DueIsAskedFor ==
  \A j \in Jobs : /\ Due(j) /\ j \notin Calibre => asked[j] # {}
                 /\ j \in jobs /\ next[j] = "reached" => "schedule" \in asked[j]

(* A click made while a run of the job is under way survives the report of that *)
(* run: only a run that began after it, or the deletion of the job, ends it       *)
(* (the comparison with started_at in report_sync_run).                           *)
ClickOutlivesEarlierRun ==
  [][\A j \in Jobs :
       /\ flag[j] = "since" /\ flag'[j] # "since" => current' = {j} /\ current = {}
       /\ flag[j] = "before" /\ flag'[j] = "none" => current = {j}]_vars

(* The worker stops dying and the passes over j's family stop failing. *)
Steady(j) ==
  <>[][~Crash /\ ~(FamilyFails /\ j \in InHand)]_vars

Served(j) ==
  /\ flag[j] = "since" ~> flag[j] # "since" \/ j \notin jobs
  /\ next[j] = "reached" ~> next[j] # "reached" \/ j \notin jobs

(* Whatever happens to wakes, connections and other families, the safety poll  *)
(* gets every click a run of its own and every occurrence a claim (run_worker,    *)
(* _run_cycle).                                                                   *)
ServedByPoll ==
  \A j \in Jobs : WF_vars(Polls) /\ Steady(j) => Served(j)

(* Without the poll, a worker that stays subscribed is woken for every click    *)
(* and occurrence, also one whose own wake was lost: the tick rings again         *)
(* (wake_due_job_workers, _mqtt_loop).                                            *)
ServedByWake ==
  \A j \in Immich \cup Gemini : <>[]link /\ Steady(j) => Served(j)

(* A running row nobody will report is closed by a later claim of the family,   *)
(* also when the job is gone or no job is due (begin_runs).                       *)
OldRowsClose ==
  \A j \in Jobs :
    WF_vars(Polls) /\ Steady(j) =>
      (old[j] > 0 ~> old[j] = 0)

===============================================================================
