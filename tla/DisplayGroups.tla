---------------------------- MODULE DisplayGroups ----------------------------
(* The groups of screens a display job generates for its grid: the claim that   *)
(* prunes the old ones, the worker that fills a new one screen by screen, and   *)
(* operators who put a group on the grid or delete it.  The API's pruning and   *)
(* displaying are several awaits each, the worker's steps are calls of the API. *)
EXTENDS Integers, FiniteSets

CONSTANTS GroupJobs,   \* display jobs, all with the same grid
          Parts,       \* screens a job renders, at most
          MaxGroups,
          MaxCuts      \* runs that are cut short

ASSUME GroupsAssumption == {Parts, MaxGroups, MaxCuts} \subseteq Nat /\ "nobody" \notin GroupJobs

VARIABLES
  group,    \* group[g]: job, screens, age, objects; or Gone
  groups,   \* groups ever made, numbered in the order of created_at
  current,  \* current_group_id of the grid, or Empty
  jobs,     \* jobs not deleted
  stage,    \* where the claim and then the worker's run of a job are
  running,  \* the job in hand, or Nobody
  spared,   \* the group the claim saw on the grid
  stale,    \* the groups it is about to delete
  filling,  \* the group the worker fills, or Empty
  partsLeft,
  chosen,   \* the group an operator's display has loaded, or Empty
  cuts,     \* runs cut short (no code)
  removed   \* an operator has deleted a generated group (no code)

prune == <<spared, stale>>
fill == <<filling, partsLeft>>
groupVars == <<group, groups, current, jobs, stage, running, prune, fill, chosen, cuts, removed>>

GroupIds == 1..MaxGroups
Empty == 0
Nobody == "nobody"
Gone == [job |-> Nobody, screens |-> 0, old |-> FALSE, whole |-> FALSE]
Existing == {g \in GroupIds : group[g] # Gone}
OfJob(j) == {g \in Existing : group[g].job = j}
NewestOf(S) == {g \in S : \A h \in S : h <= g}

GroupsInit ==
  /\ group = [g \in GroupIds |-> Gone] /\ groups = 0 /\ current = Empty /\ jobs = GroupJobs
  /\ stage = "idle" /\ running = Nobody /\ spared = Empty /\ stale = {}
  /\ filling = Empty /\ partsLeft = 0 /\ chosen = Empty /\ cuts = 0 /\ removed = FALSE

-----------------------------------------------------------------------------
(* The claim (its schedule and run rows are those of SyncJobs). *)

Claim(j) ==
  /\ stage = "idle" /\ j \in jobs
  /\ stage' = "claimed" /\ running' = j
  /\ UNCHANGED <<group, groups, current, jobs, prune, fill, chosen, cuts, removed>>

(* prune_generated_groups reads what is on a grid ... *)
ReadShowing ==
  /\ stage = "claimed" /\ stage' = "shown" /\ spared' = current
  /\ UNCHANGED <<group, groups, current, jobs, running, stale, fill, chosen, cuts, removed>>

(* Fault: the newest group is as good as any. *)
ReadAllGroups ==
  /\ stage = "shown" /\ stage' = "pruning"
  /\ stale' = {g \in OfJob(running) \ {spared} : group[g].old}
  /\ group' = [g \in GroupIds |-> IF g \in stale' THEN [group[g] EXCEPT !.whole = FALSE] ELSE group[g]]
  /\ UNCHANGED <<groups, current, jobs, running, spared, fill, chosen, cuts, removed>>

(* ... then the job's groups: the old ones, but the newest, and deletes the     *)
(* objects of their screens. *)
ReadGroups ==
  /\ stage = "shown" /\ stage' = "pruning"
  /\ stale' = {g \in OfJob(running) \ {spared} : group[g].old} \ NewestOf(OfJob(running))
  /\ group' = [g \in GroupIds |-> IF g \in stale' THEN [group[g] EXCEPT !.whole = FALSE] ELSE group[g]]
  /\ UNCHANGED <<groups, current, jobs, running, spared, fill, chosen, cuts, removed>>

(* The rows go in one commit, and the job is handed out. *)
CommitPrune ==
  /\ stage = "pruning" /\ stage' = "story" /\ stale' = {} /\ spared' = Empty
  /\ group' = [g \in GroupIds |-> IF g \in stale THEN Gone ELSE group[g]]
  /\ UNCHANGED <<groups, current, jobs, running, fill, chosen, cuts, removed>>

-----------------------------------------------------------------------------
(* The run. *)

Rest == stage' = "idle" /\ running' = Nobody

(* No slot with content, or no story: reported, and nothing made. *)
NoStory ==
  /\ stage = "story" /\ Rest
  /\ UNCHANGED <<group, groups, current, jobs, prune, fill, chosen, cuts, removed>>

(* The group is made before its screens.  An illustration that fails is a part  *)
(* less. *)
CreateGroup ==
  /\ stage = "story" /\ stage' = "fill"
  /\ groups < MaxGroups /\ groups' = groups + 1
  /\ group' = [group EXCEPT ![groups'] = [job |-> running, screens |-> 0, old |-> FALSE, whole |-> TRUE]]
  /\ filling' = groups' /\ partsLeft' \in 1..Parts
  /\ UNCHANGED <<current, jobs, running, prune, chosen, cuts, removed>>

(* The next part: rendered, stored and registered, or not renderable and left   *)
(* out.  Registering asks nothing of the group. *)
RenderPart ==
  /\ stage = "fill" /\ partsLeft > 0 /\ partsLeft' = partsLeft - 1
  /\ \/ group' = IF group[filling] = Gone THEN group
                 ELSE [group EXCEPT ![filling].screens = @ + 1]
     \/ UNCHANGED group
  /\ UNCHANGED <<groups, current, jobs, stage, running, prune, filling, chosen, cuts, removed>>

(* A group that got no screen is deleted again; the run is reported. *)
EndRun ==
  /\ stage = "fill" /\ partsLeft = 0 /\ Rest /\ filling' = Empty
  /\ group' = IF group[filling].screens = 0 THEN [group EXCEPT ![filling] = Gone] ELSE group
  /\ UNCHANGED <<groups, current, jobs, partsLeft, prune, chosen, cuts, removed>>

(* The claim or the run is cut short: a crash of either side, or an upload or a *)
(* registration that raises, which ends the whole pass.  What is made stays. *)
CutShort ==
  /\ stage # "idle" /\ cuts < MaxCuts /\ cuts' = cuts + 1
  /\ Rest /\ filling' = Empty /\ partsLeft' = 0 /\ spared' = Empty /\ stale' = {}
  /\ UNCHANGED <<group, groups, current, jobs, chosen, removed>>

-----------------------------------------------------------------------------
(* Operators and time. *)

(* What display_now takes: the newest group of the job, finished or not. *)
Taken(j) == NewestOf(OfJob(j))

(* display_now or display-group: what Taken is or a chosen group, refused if it *)
(* has no screen on a panel. *)
BeginDisplay(g) ==
  /\ chosen = Empty /\ g \in Existing /\ group[g].screens > 0
  /\ chosen' = g
  /\ UNCHANGED <<group, groups, current, jobs, stage, running, prune, fill, cuts, removed>>

(* Its commit.  It fails if the group is gone: the row carries the time of its  *)
(* display. *)
CommitDisplay ==
  /\ chosen # Empty /\ chosen' = Empty
  /\ current' = IF chosen \in Existing THEN chosen ELSE current
  /\ UNCHANGED <<group, groups, jobs, stage, running, prune, fill, cuts, removed>>

(* The grid is released, or shows something else. *)
ClearGrid ==
  /\ current # Empty /\ current' = Empty
  /\ UNCHANGED <<group, groups, jobs, stage, running, prune, fill, chosen, cuts, removed>>

(* Deleting a group returns or removes its images. *)
DeleteGroup(g) ==
  /\ g \in Existing /\ group' = [group EXCEPT ![g] = Gone] /\ removed' = TRUE
  /\ UNCHANGED <<groups, current, jobs, stage, running, prune, fill, chosen, cuts>>

(* Deleting a job leaves its groups, and their link to it. *)
DeleteJob(j) ==
  /\ j \in jobs /\ jobs' = jobs \ {j}
  /\ UNCHANGED <<group, groups, current, stage, running, prune, fill, chosen, cuts, removed>>

(* A week passes. *)
Age(g) ==
  /\ g \in Existing /\ ~group[g].old /\ g # filling
  /\ \A h \in Existing : h < g => group[h].old
  /\ group' = [group EXCEPT ![g].old = TRUE]
  /\ UNCHANGED <<groups, current, jobs, stage, running, prune, fill, chosen, cuts, removed>>

RunJob == ReadShowing \/ ReadGroups \/ CommitPrune \/ NoStory \/ CreateGroup \/ RenderPart \/ EndRun

GroupsNext ==
  \/ \E j \in GroupJobs : Claim(j) \/ DeleteJob(j)
  \/ RunJob \/ CutShort \/ CommitDisplay \/ ClearGrid
  \/ \E g \in GroupIds : BeginDisplay(g) \/ DeleteGroup(g) \/ Age(g)

GroupsSpec == GroupsInit /\ [][GroupsNext]_groupVars

-----------------------------------------------------------------------------
GroupsTypeOK ==
  /\ groups \in 0..MaxGroups /\ Existing \subseteq 1..groups
  /\ \A g \in GroupIds : group[g].job \in GroupJobs \cup {Nobody} /\ group[g].screens \in 0..Parts
  /\ current \in 0..groups /\ chosen \in 0..groups /\ spared \in 0..groups
  /\ stage = "idle" <=> running = Nobody
  /\ stage = "fill" <=> filling # Empty

Finished(j) == OfJob(j) \ {filling}
Playable(g) == group[g].screens > 0 /\ group[g].whole

(* Display now keeps working: once a run of a job has produced a group with a   *)
(* screen there is one for good, and the group Display now takes has screens    *)
(* and their objects, through failed stories, empty runs and pruning after any  *)
(* gap.  Three things are excepted: an operator who deletes groups, runs that   *)
(* were cut short, and, while a run is filling a group, that group, which       *)
(* Display now takes before it has a screen (it is refused) and then in parts.  *)
DisplayNowWorks ==
  [][cuts' = 0 /\ ~removed' =>
       \A j \in GroupJobs :
         /\ (\E g \in Finished(j) : Playable(g)) => (\E g \in Finished(j) : Playable(g))'
         /\ (\A g \in Taken(j) \ {filling} : Playable(g))']_groupVars
=============================================================================
