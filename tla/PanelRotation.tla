--------------------------- MODULE PanelRotation ---------------------------
(***************************************************************************)
(* What is pushed to each panel and what its devices row says about it:    *)
(* the rotation loop, which lists the due panels in one session and serves *)
(* them one after the other, the pushes of operators and of generation     *)
(* tasks, and the group displays of the grid that some panels are part of. *)
(* A push is three steps, between which everybody else runs: the row is    *)
(* read, the command is published, the row is committed.                   *)
(***************************************************************************)
EXTENDS FiniteSets

CONSTANTS Devices,   \* registered panels
          Layout,    \* those placed on the grid
          Pool,      \* images of the solo pool
          Spread,    \* a group's image for each panel
          Rotation,  \* the rotation loop's task
          Op,        \* the operator's requests, or a generation task
          Nobody,    \* no panel
          Pinnable,  \* bound: panels an operator pins
          Failing    \* bound: panels whose refresh can fail

ASSUME PanelRotationAssumption == /\ Layout \subseteq Devices
                                  /\ Spread \notin Pool
                                  /\ Pool # {}
                                  /\ Rotation # Op
                                  /\ Nobody \notin Devices
                                  /\ Pinnable \subseteq Devices
                                  /\ Failing \subseteq Devices

VARIABLES claimed,  \* panels whose claimed_by_grid_id is set
          pinned,   \* panels whose is_pinned is set
          failed,   \* panels that failed more recently than the backoff
          online,   \* MQTTService._online, and devices.is_online with it
          due,      \* scheduled_next_at has passed
          cur,      \* devices.current_image_id
          sent,     \* the last image published to the panel
          list,     \* due panels the rotation has still to serve
          push,     \* the single-panel push a task is executing
          show,     \* the group display being executed
          ticked    \* the loop's queue tick has shown the group this round

gates == <<claimed, pinned, failed, online, due>>
vars == <<claimed, pinned, failed, online, due, cur, sent, list, push, show, ticked>>

Images == Pool \cup {Spread}
Tasks == {Rotation, Op}

(* What was loaded: the panel, its current image; then what is pushed.     *)
Push == [dev : Devices \cup {Nobody}, was : Images, img : Images, out : BOOLEAN]

NoPush == [dev |-> Nobody, was |-> Spread, img |-> Spread, out |-> FALSE]

(* A group display: the panels it still has to push to, all it targets, of *)
(* these the ones loaded as claimed, and as showing their image, and       *)
(* whether it is the queue tick's.                                         *)
Show == [todo : SUBSET Layout, all : SUBSET Layout,
         held : SUBSET Layout, shows : SUBSET Layout, tick : BOOLEAN]

NoShow == [todo |-> {}, all |-> {}, held |-> {}, shows |-> {}, tick |-> FALSE]

TypeOK == /\ {claimed, pinned, failed, online, due, list} \subseteq SUBSET Devices
          /\ cur \in [Devices -> Images]
          /\ sent \in [Devices -> Images]
          /\ push \in [Tasks -> Push]
          /\ show \in Show
          /\ ticked \in BOOLEAN

Init == /\ claimed = {}
        /\ pinned = {}
        /\ failed = {}
        /\ online = {}
        /\ due = Devices
        /\ \E i \in Pool : cur = [d \in Devices |-> i] /\ sent = cur
        /\ list = {}
        /\ push = [t \in Tasks |-> NoPush]
        /\ show = NoShow
        /\ ticked = FALSE

-----------------------------------------------------------------------------
(* Single-panel pushes                                                     *)

Begin(t, d, img) ==
    /\ push[t] = NoPush
    /\ push' = [push EXCEPT ![t] = [dev |-> d, was |-> cur[d], img |-> img, out |-> FALSE]]

(* Fault: an image that is on record for the panel already is not sent.    *)
PublishUnlessCurrent(t) ==
    /\ push[t].dev \in online
    /\ ~push[t].out
    /\ sent' = IF push[t].img = push[t].was THEN sent
               ELSE [sent EXCEPT ![push[t].dev] = push[t].img]
    /\ push' = [push EXCEPT ![t].out = TRUE]
    /\ UNCHANGED <<gates, cur, list, show, ticked>>

Publish(t) ==
    /\ push[t].dev \in online
    /\ ~push[t].out
    /\ sent' = [sent EXCEPT ![push[t].dev] = push[t].img]
    /\ push' = [push EXCEPT ![t].out = TRUE]
    /\ UNCHANGED <<gates, cur, list, show, ticked>>

(* update_display_state.  A column set to the value it was loaded with is  *)
(* not written; scheduled_next_at always is.                               *)
Commit(t) ==
    /\ push[t].out
    /\ cur' = IF push[t].img = push[t].was THEN cur
              ELSE [cur EXCEPT ![push[t].dev] = push[t].img]
    /\ due' = due \ {push[t].dev}
    /\ push' = [push EXCEPT ![t] = NoPush]
    /\ UNCHANGED <<claimed, pinned, failed, online, sent, list, show, ticked>>

(* Fault: one failed push ends the rotation's tick.                        *)
PushFailsEndsTick(t) ==
    /\ push[t] # NoPush
    /\ push' = [push EXCEPT ![t] = NoPush]
    /\ list' = IF t = Rotation THEN {} ELSE list
    /\ UNCHANGED <<gates, cur, sent, show, ticked>>

(* The panel went offline (KeyError), the broker or the database failed.   *)
(* The rotation logs it and goes on with the next panel.                   *)
PushFails(t) ==
    /\ push[t] # NoPush
    /\ push' = [push EXCEPT ![t] = NoPush]
    /\ UNCHANGED <<gates, cur, sent, list, show, ticked>>

-----------------------------------------------------------------------------
(* The rotation loop                                                       *)

Eligible(d) == d \in online \ (claimed \cup pinned \cup failed)

(* The loop's task is neither in a rotation nor in the queue tick.         *)
LoopIdle == list = {} /\ push[Rotation] = NoPush /\ ~show.tick

ListDue == /\ LoopIdle
           /\ list' = {d \in due : Eligible(d)}
           /\ ticked' = FALSE
           /\ UNCHANGED <<gates, cur, sent, push, show>>

(* Quiet hours skip the rotation, not the queue tick of the next round.    *)
SkipQuiet == /\ LoopIdle
             /\ ticked
             /\ ticked' = FALSE
             /\ UNCHANGED <<gates, cur, sent, list, push, show>>

(* The row is read again, but not checked again.                           *)
Rotate == /\ \E d \in list, i \in Pool :
                /\ Begin(Rotation, d, i)
                /\ list' = list \ {d}
          /\ UNCHANGED <<gates, cur, sent, show, ticked>>

-----------------------------------------------------------------------------
(* Requests                                                                *)

OpIdle == push[Op] = NoPush /\ (show = NoShow \/ show.tick)

(* POST display and POST next ask only whether the panel is online, a      *)
(* generation task also for its health; they push to claimed and pinned    *)
(* panels.  POST display takes any image, also one that belongs to a grid  *)
(* or to a group.                                                          *)
SendImage(d) == /\ OpIdle
                /\ d \in online
                /\ \E i \in Images : Begin(Op, d, i)
                /\ UNCHANGED <<gates, cur, sent, list, show, ticked>>

(* The queue tick runs in the rotation loop's task, once a round, before   *)
(* the rotation.                                                           *)
InTurn(tick) == IF tick THEN LoopIdle /\ ~ticked ELSE OpIdle

Load(S, tick) ==
    /\ ticked' = (ticked \/ tick)
    /\ show' = [todo |-> S, all |-> S, held |-> S \cap claimed,
                shows |-> {d \in S : cur[d] = Spread}, tick |-> tick]

(* Fault: a group is shown on any panels, not on the grid's.               *)
ShowGroupAnywhere(tick) ==
    /\ show = NoShow
    /\ InTurn(tick)
    /\ \E S \in SUBSET Devices \ {{}} : Load(S, tick)
    /\ UNCHANGED <<gates, cur, sent, list, push>>

(* By an operator, or by the schedule, on the panels that the group has an *)
(* image for.  Neither looks at the panels' pins or refresh health.        *)
ShowGroup(tick) ==
    /\ show = NoShow
    /\ InTurn(tick)
    /\ \E S \in SUBSET Layout \ {{}} : Load(S, tick)
    /\ UNCHANGED <<gates, cur, sent, list, push>>

(* A panel already showing its image is not repainted, and is reported as  *)
(* displayed.                                                              *)
AlreadyShowing(d) ==
    /\ d \in show.todo \cap show.held \cap show.shows
    /\ show' = [show EXCEPT !.todo = @ \ {d}]
    /\ UNCHANGED <<gates, cur, sent, list, push, ticked>>

(* An offline panel is claimed all the same.                               *)
PushSpread(d) ==
    /\ d \in show.todo \ (show.held \cap show.shows)
    /\ sent' = IF d \in online THEN [sent EXCEPT ![d] = Spread] ELSE sent
    /\ show' = [show EXCEPT !.todo = @ \ {d}]
    /\ UNCHANGED <<gates, cur, list, push, ticked>>

CommitGroup ==
    /\ show # NoShow
    /\ show.todo = {}
    /\ claimed' = claimed \cup (show.all \ show.held)
    /\ cur' = [d \in Devices |-> IF d \in show.all \ show.shows THEN Spread ELSE cur[d]]
    /\ show' = NoShow
    /\ UNCHANGED <<pinned, failed, online, due, sent, list, push, ticked>>

GroupFails == /\ show # NoShow
              /\ show' = NoShow
              /\ UNCHANGED <<gates, cur, sent, list, push, ticked>>

(* On expiry, by an operator's request, or with the queue empty.           *)
Release == /\ OpIdle
           /\ claimed # {}
           /\ claimed' = {}
           /\ due' = due \cup claimed
           /\ UNCHANGED <<pinned, failed, online, cur, sent, list, push, show, ticked>>

OpBegins == \/ \E d \in Devices : SendImage(d)
            \/ \E tick \in BOOLEAN : ShowGroup(tick)
            \/ Release

PushEnds(t) == Publish(t) \/ Commit(t) \/ PushFails(t)

ShowEnds == \/ \E d \in Layout : AlreadyShowing(d) \/ PushSpread(d)
            \/ CommitGroup
            \/ GroupFails

-----------------------------------------------------------------------------
(* What happens to a panel and to the clock                                *)

Toggle(S, d) == IF d \in S THEN S \ {d} ELSE S \cup {d}

ComesOrGoes(d) == /\ online' = Toggle(online, d)
                  /\ UNCHANGED <<claimed, pinned, failed, due, cur, sent, list, push, show, ticked>>

PinTurns(d) == /\ d \in Pinnable
               /\ pinned' = Toggle(pinned, d)
               /\ UNCHANGED <<claimed, failed, online, due, cur, sent, list, push, show, ticked>>

(* A refresh fails; one succeeds, or the failure outlives the backoff.     *)
HealthTurns(d) == /\ d \in Failing
                  /\ failed' = Toggle(failed, d)
                  /\ UNCHANGED <<claimed, pinned, online, due, cur, sent, list, push, show, ticked>>

Elapses(d) == /\ d \notin due
              /\ due' = due \cup {d}
              /\ UNCHANGED <<claimed, pinned, failed, online, cur, sent, list, push, show, ticked>>

Next == \/ ListDue
        \/ SkipQuiet
        \/ Rotate
        \/ OpBegins
        \/ \E t \in Tasks : PushEnds(t)
        \/ ShowEnds
        \/ \E d \in Devices : \/ ComesOrGoes(d)
                              \/ PinTurns(d)
                              \/ HealthTurns(d)
                              \/ Elapses(d)

(* The loop task goes on, a request that began ends, intervals elapse, and *)
(* every listed panel is served in turn.                                   *)
Fairness == /\ WF_vars(ListDue)
            /\ WF_vars(Rotate)
            /\ \A t \in Tasks : WF_vars(PushEnds(t))
            /\ WF_vars(ShowEnds)
            /\ \A d \in Devices : WF_vars(Elapses(d))

Spec == Init /\ [][Next]_vars /\ Fairness

-----------------------------------------------------------------------------
(* PROPERTIES                                                              *)

(* From some time on the panel stays with the solo rotation, quiet hours   *)
(* are over, and no push of the rotation to it fails.                      *)
LeftToRotation(d) ==
    /\ <>[]Eligible(d)
    /\ <>[][~SkipQuiet]_vars
    /\ <>[][push[Rotation].dev = d /\ PushFails(Rotation) => Commit(Rotation)]_vars

(* A panel left to the rotation is repainted again and again, whatever     *)
(* happens to the pushes to other panels of the same tick and however much *)
(* operators interfere.                                                    *)
RotationGoesOn ==
    \A d \in Devices :
        LeftToRotation(d)
            => []<><<\E t \in Tasks : push[t].dev = d /\ Commit(t)>>_vars

(* Once requests stop, the record of such a panel and what was sent to it  *)
(* come to agree, however their commits were ordered.                      *)
RecordsConverge ==
    \A d \in Devices :
        LeftToRotation(d) /\ <>[][~OpBegins]_vars
            => <>[](push[Rotation].dev # d => cur[d] = sent[d])

(* "don't repaint a panel that is already showing this exact image": a     *)
(* panel passed over as already showing its image has been sent it.        *)
PassedOverIsShowing ==
    [][\A d \in Layout : AlreadyShowing(d) => sent[d] = Spread]_vars
=============================================================================
