--------------------------- MODULE GenerationTasks ---------------------------
(* On-demand generation: a task row that says how a request fares, and the      *)
(* background coroutine that generates the picture, stores the object, commits  *)
(* the image row and pushes it to a panel.  Each of these is a transaction or a *)
(* call of its own, the row is written by yet others, and only the newest rows  *)
(* are kept.  Two requests run independently.                                   *)
EXTENDS Integers, FiniteSets

CONSTANTS MaxTasks,   \* requests ever made
          Kept,       \* rows that are kept
          MaxLosses   \* restarts of the API and failed writes of the outcome

ASSUME TasksAssumption == MaxTasks \in Nat /\ Kept \in Nat \ {0} /\ MaxLosses \in Nat

VARIABLES
  asked,     \* requests made, numbered in the order of created_at
  row,       \* row[t]: status and outcome of the task row, or Pruned
  doing,     \* doing[t]: where the coroutine of the task is
  object, image, pushed,  \* tasks whose object is stored, image row committed,
                          \* picture handed to the broker
  losses

taskVars == <<asked, row, doing, object, image, pushed, losses>>

TaskIds == 1..MaxTasks
Pruned == [status |-> "pruned", detail |-> "none"]
Row(s, d) == [status |-> s, detail |-> d]
Open == {"queued", "running"}
Listed == {t \in TaskIds : row[t] # Pruned}
Live == {t \in TaskIds : doing[t] \notin {"none", "ended"}}

TasksInit ==
  /\ asked = 0 /\ row = [t \in TaskIds |-> Pruned] /\ doing = [t \in TaskIds |-> "none"]
  /\ object = {} /\ image = {} /\ pushed = {} /\ losses = 0

(* The newest n of some tasks. *)
Newest(S, n) == {t \in S : Cardinality({u \in S : u > t}) < n}

(* Fault: only finished rows count against the limit. *)
CreateKeepingOpen ==
  /\ asked < MaxTasks /\ asked' = asked + 1
  /\ LET known == Listed \cup {asked'}
         open == {t \in Listed : row[t].status \in Open} \cup {asked'}
         keep == open \cup Newest(known, Kept)
     IN row' = [t \in TaskIds |-> IF t = asked' THEN Row("queued", "none")
                                  ELSE IF t \in keep THEN row[t] ELSE Pruned]
  /\ doing' = [doing EXCEPT ![asked'] = "start"]
  /\ UNCHANGED <<object, image, pushed, losses>>

(* generate_image: the row, with the oldest beyond the limit deleted in the     *)
(* same transaction, whatever their status; then the coroutine. *)
Create ==
  /\ asked < MaxTasks /\ asked' = asked + 1
  /\ LET keep == Newest(Listed \cup {asked'}, Kept)
     IN row' = [t \in TaskIds |-> IF t = asked' THEN Row("queued", "none")
                                  ELSE IF t \in keep THEN row[t] ELSE Pruned]
  /\ doing' = [doing EXCEPT ![asked'] = "start"]
  /\ UNCHANGED <<object, image, pushed, losses>>

(* A write of the status; a pruned task has no row to write to. *)
Mark(t, r) == row' = IF row[t] = Pruned THEN row ELSE [row EXCEPT ![t] = r]

Go(t, from, to) == doing[t] = from /\ doing' = [doing EXCEPT ![t] = to]

MarkRunning(t) ==
  /\ Go(t, "start", "generate") /\ Mark(t, Row("running", "none"))
  /\ UNCHANGED <<asked, object, image, pushed, losses>>

(* Profile, preset and blocks are found, the model answers, the picture fits. *)
Generate(t) ==
  /\ Go(t, "generate", "store") /\ UNCHANGED <<asked, row, object, image, pushed, losses>>

StoreObject(t) ==
  /\ Go(t, "store", "register") /\ object' = object \cup {t}
  /\ UNCHANGED <<asked, row, image, pushed, losses>>

(* The image row; what comes then depends on whether a push is wanted and on    *)
(* whether a panel of the profile and orientation is online and healthy. *)
RegisterImage(t) ==
  /\ \/ Go(t, "register", "push") \/ Go(t, "register", "unpushed")
  /\ image' = image \cup {t}
  /\ UNCHANGED <<asked, row, object, pushed, losses>>

Push(t) ==
  /\ Go(t, "push", "record") /\ pushed' = pushed \cup {t}
  /\ UNCHANGED <<asked, row, object, image, losses>>

(* The panel's row is committed. *)
Record(t) == Go(t, "record", "pushed") /\ UNCHANGED <<asked, row, object, image, pushed, losses>>

MarkCompleted(t) ==
  /\ \/ Go(t, "unpushed", "ended") /\ Mark(t, Row("completed", "registered"))
     \/ Go(t, "pushed", "ended") /\ Mark(t, Row("completed", "pushed"))
  /\ UNCHANGED <<asked, object, image, pushed, losses>>

(* Any step after mark_running may fail, the write of a good outcome too. *)
Fails(t) ==
  /\ \E s \in {"generate", "store", "register", "push", "record", "unpushed", "pushed"} :
       Go(t, s, "failed")
  /\ UNCHANGED <<asked, row, object, image, pushed, losses>>

MarkFailed(t) ==
  /\ Go(t, "failed", "ended") /\ Mark(t, Row("failed", "none"))
  /\ UNCHANGED <<asked, object, image, pushed, losses>>

(* The writes that nothing catches: mark_running and mark_failed. *)
MarkLost(t) ==
  /\ losses < MaxLosses /\ losses' = losses + 1
  /\ Go(t, "start", "ended") \/ Go(t, "failed", "ended")
  /\ UNCHANGED <<asked, row, object, image, pushed>>

(* A restart of the API ends every coroutine.  Nobody looks at the rows. *)
ApiRestart ==
  /\ losses < MaxLosses /\ Live # {} /\ losses' = losses + 1
  /\ doing' = [t \in TaskIds |-> IF t \in Live THEN "ended" ELSE doing[t]]
  /\ UNCHANGED <<asked, row, object, image, pushed>>

TasksNext ==
  \/ Create \/ ApiRestart
  \/ \E t \in TaskIds :
       \/ MarkRunning(t) \/ Generate(t) \/ StoreObject(t) \/ RegisterImage(t) \/ Push(t)
       \/ Record(t) \/ MarkCompleted(t) \/ Fails(t) \/ MarkFailed(t) \/ MarkLost(t)

TasksSpec == TasksInit /\ [][TasksNext]_taskVars

-----------------------------------------------------------------------------
TasksTypeOK ==
  /\ asked \in 0..MaxTasks /\ losses \in 0..MaxLosses
  /\ \A t \in TaskIds : /\ row[t].status \in Open \cup {"completed", "failed", "pruned"}
                        /\ row[t].detail \in {"none", "registered", "pushed"}
                        /\ (t > asked <=> doing[t] = "none")
  /\ {object, image, pushed} \subseteq SUBSET (1..asked)

(* What the list of tasks says is so: a completed task has its picture in the   *)
(* library and, if it says so, on its way to a panel; an open one is being      *)
(* worked on unless its outcome was lost; a failed one has ended; and the list  *)
(* holds exactly the newest requests, a pruned one never comes back. *)
TasksTellTheTruth ==
  /\ Listed = Newest(1..asked, Kept)
  /\ \A t \in Listed :
       /\ row[t].status = "completed" => t \in object \cap image
       /\ row[t].detail = "pushed" => t \in pushed
       /\ row[t].status \in Open /\ t \notin Live => losses > 0
       /\ row[t].status \in {"completed", "failed"} => doing[t] = "ended"
=============================================================================
