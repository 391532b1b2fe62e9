----------------------------- MODULE MCServices -----------------------------
(* Four parts of the system that share no state, checked in one run: a          *)
(* behaviour picks one of them and follows its specification.                   *)
EXTENDS Access, PanelDriver, GenerationTasks, DisplayGroups

VARIABLE part

Init ==
  /\ part \in {"access", "driver", "tasks", "groups"}
  /\ AccessInit /\ DriverInit /\ TasksInit /\ GroupsInit
  /\ part # "access" => ~enabled /\ ~fixed

Next ==
  /\ UNCHANGED part
  /\ \/ part = "access" /\ AccessNext /\ UNCHANGED <<panelVars, taskVars, groupVars>>
     \/ part = "driver" /\ DriverNext /\ UNCHANGED <<accessVars, taskVars, groupVars>>
     \/ part = "tasks" /\ TasksNext /\ UNCHANGED <<accessVars, panelVars, groupVars>>
     \/ part = "groups" /\ GroupsNext /\ UNCHANGED <<accessVars, panelVars, taskVars>>

Spec == Init /\ [][Next]_<<part, accessVars, panelVars, taskVars, groupVars>>

(* The variables of all four parts are of their types. *)
TypeOK == AccessTypeOK /\ DriverTypeOK /\ TasksTypeOK /\ GroupsTypeOK
=============================================================================
