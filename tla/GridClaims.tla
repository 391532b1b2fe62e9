----------------------------- MODULE GridClaims -----------------------------
(***************************************************************************)
(* Who drives which panel: the grids, grid_devices and devices rows that   *)
(* decide it, and the requests that read and write them.                   *)
(*                                                                         *)
(* Every request handler runs in a database session of its own.  It loads  *)
(* rows, awaits (queries, MQTT publishes), and commits; other handlers run *)
(* at every await.  A commit writes only the columns whose value differs   *)
(* from the one the session LOADED, so a handler that sets claimed_by to   *)
(* the value it read writes nothing, and one that sets it to NULL writes   *)
(* NULL over whatever was committed since.  SQLite gives the first flush   *)
(* of a session the write lock until its commit.                           *)
(***************************************************************************)

CONSTANTS Grids,      \* grid ids; a deleted id is never used again (uuid4)
          Devices,    \* registered panels
          Ops,        \* operator requests that can be in flight together
          Scheduler,  \* the rotation loop's task
          NoGrid,     \* NULL in claimed_by_grid_id
          Overlap     \* TRUE: requests interleave; FALSE: one at a time

ASSUME GridClaimsAssumption == /\ NoGrid \notin Grids
                               /\ Scheduler \notin Ops
                               /\ Overlap \in BOOLEAN

VARIABLES grids,   \* ids with a row in the grids table
          gone,    \* ids of deleted grids
          layout,  \* the grid_devices rows: the panels placed on each grid
          claim,   \* devices.claimed_by_grid_id
          hold,    \* grids.hold_until: NULL, in the future or elapsed
          req      \* what each task has loaded and not yet committed

db == <<grids, gone, layout, claim, hold>>
vars == <<grids, gone, layout, claim, hold, req>>

Tasks == Ops \cup {Scheduler}

Steps == {"idle", "show", "release", "idleRelease", "listed",
          "layout", "dropped", "deletion", "delete"}

(* A request: the grids it still has to handle, the panels it is about to  *)
(* claim or place, and those whose claim it loaded as held by its grid (of *)
(* a layout edit or a deletion: the ones it is going to free).             *)
Request == [step : Steps, todo : SUBSET Grids,
            panels : SUBSET Devices, mine : SUBSET Devices]

Idle == [step |-> "idle", todo |-> {}, panels |-> {}, mine |-> {}]

TypeOK == /\ grids \in SUBSET Grids
          /\ gone \in SUBSET Grids
          /\ layout \in [Grids -> SUBSET Devices]
          /\ claim \in [Devices -> Grids \cup {NoGrid}]
          /\ hold \in [Grids -> {"none", "live", "over"}]
          /\ req \in [Tasks -> Request]

Init == /\ grids = {}
        /\ gone = {}
        /\ layout = [g \in Grids |-> {}]
        /\ claim = [d \in Devices |-> NoGrid]
        /\ hold = [g \in Grids |-> "none"]
        /\ req = [t \in Tasks |-> Idle]

-----------------------------------------------------------------------------
ClaimedBy(g) == {d \in Devices : claim[d] = g}

(* Fault: the device row is dropped where its claim should be cleared.     *)
FreeDropsRow(S) == [d \in Devices \ S |-> claim[d]]

Free(S) == [d \in Devices |-> IF d \in S THEN NoGrid ELSE claim[d]]

CanBegin(t) == /\ req[t] = Idle
               /\ Overlap \/ \A u \in Tasks : req[u] = Idle

Load(t, r) == /\ CanBegin(t)
              /\ req' = [req EXCEPT ![t] = r]
              /\ UNCHANGED db

Done(t) == req' = [req EXCEPT ![t] = Idle]

(* The session's flush finds no row for its grid (StaleDataError), a query *)
(* times out on the write lock, S3 or rendering fails: rolled back.        *)
Fail(t) == /\ req[t] # Idle
           /\ Done(t)
           /\ UNCHANGED db

-----------------------------------------------------------------------------
(* Showing content                                                         *)

LoadShow(t, g, P) ==
    Load(t, [step |-> "show", todo |-> {g}, panels |-> P,
             mine |-> {d \in P : claim[d] = g}])

(* A group's images go to the panels of the slots they are assigned to.    *)
(* Slots are edited at any time, and a slot may name no panel of this      *)
(* layout, so any part of the layout can be targeted.  start_group refuses *)
(* a group that reaches no panel, show_next does not.                      *)
ShowGroup(t, g) == /\ g \in grids
                   /\ \E P \in SUBSET layout[g] : LoadShow(t, g, P)

(* A loose pool image is cropped over the whole layout; panels held by     *)
(* another grid are skipped.                                               *)
ShowCanvas(t, g) ==
    /\ g \in grids
    /\ layout[g] # {}
    /\ LoadShow(t, g, {d \in layout[g] : claim[d] \in {NoGrid, g}})

(* The operator's image push refuses to start on a panel another grid has. *)
DisplayImage(t, g) ==
    /\ g \in grids
    /\ layout[g] # {}
    /\ \A d \in layout[g] : claim[d] \in {NoGrid, g}
    /\ LoadShow(t, g, layout[g])

CommitShow(t) ==
    /\ req[t].step = "show"
    /\ \E g \in req[t].todo \cap grids :
          /\ claim' = [d \in Devices |->
                          IF d \in req[t].panels \ req[t].mine THEN g ELSE claim[d]]
          /\ hold' = [hold EXCEPT ![g] = "live"]
    /\ Done(t)
    /\ UNCHANGED <<grids, gone, layout>>

-----------------------------------------------------------------------------
(* Ending a display.  release_queue clears the grid's columns before it    *)
(* selects the claimed devices, so the select flushes the grid row first   *)
(* and holds the write lock from then to the commit.  A grid loaded with   *)
(* nothing to clear is not flushed, and the select stands alone.           *)

LoadRelease(t, g) ==
    /\ g \in grids
    /\ Load(t, [Idle EXCEPT !.step = IF hold[g] = "none" THEN "idleRelease" ELSE "release",
                            !.todo = {g}])

(* queue_tick loads every grid whose hold has elapsed, then releases each. *)
LoadExpired ==
    /\ \E g \in grids : hold[g] = "over"
    /\ Load(Scheduler, [Idle EXCEPT !.step = "release",
                                    !.todo = {g \in grids : hold[g] = "over"}])

(* Fault: release looks panels up by placement, as release_grid does.      *)
FlushReleaseByPlacement(t) ==
    /\ req[t].step = "release"
    /\ \E g \in req[t].todo \cap grids :
          /\ claim' = Free(ClaimedBy(g) \cap layout[g])
          /\ hold' = [hold EXCEPT ![g] = "none"]
          /\ IF req[t].todo = {g} THEN Done(t)
             ELSE req' = [req EXCEPT ![t].todo = @ \ {g}]
    /\ UNCHANGED <<grids, gone, layout>>

(* Fault: the holds of every loaded grid are cleared in one statement.     *)
FlushReleaseBulk(t) ==
    /\ req[t].step = "release"
    /\ \E g \in req[t].todo \cap grids :
          /\ claim' = Free(ClaimedBy(g))
          /\ hold' = [h \in Grids |-> IF h \in req[t].todo THEN "none" ELSE hold[h]]
          /\ IF req[t].todo = {g} THEN Done(t)
             ELSE req' = [req EXCEPT ![t].todo = @ \ {g}]
    /\ UNCHANGED <<grids, gone, layout>>

FlushRelease(t) ==
    /\ req[t].step = "release"
    /\ \E g \in req[t].todo \cap grids :
          /\ claim' = Free(ClaimedBy(g))
          /\ hold' = [hold EXCEPT ![g] = "none"]
          /\ IF req[t].todo = {g} THEN Done(t)
             ELSE req' = [req EXCEPT ![t].todo = @ \ {g}]
    /\ UNCHANGED <<grids, gone, layout>>

ListClaims(t) ==
    /\ req[t].step = "idleRelease"
    /\ \E g \in req[t].todo :
          req' = [req EXCEPT ![t].step = "listed", ![t].mine = ClaimedBy(g)]
    /\ UNCHANGED db

CommitIdleRelease(t) ==
    /\ req[t].step = "listed"
    /\ req[t].todo \subseteq grids
    /\ claim' = Free(req[t].mine)
    /\ Done(t)
    /\ UNCHANGED <<grids, gone, layout, hold>>

-----------------------------------------------------------------------------
(* Layouts                                                                 *)

(* Fault: the check asks who claims the panel, not where it is placed.     *)
ClaimedElsewhere(g, d) == claim[d] \notin {NoGrid, g}

PlacedElsewhere(g, d) == \E h \in Grids \ {g} : d \in layout[h]

(* The new grid's row is inserted and flushed before the layout is         *)
(* checked: the request holds the write lock throughout.                   *)
CreateGrid(t, g) ==
    /\ CanBegin(t)
    /\ g \notin grids \cup gone
    /\ \E P \in SUBSET Devices :
          /\ P # {}
          /\ \A d \in P : ~PlacedElsewhere(g, d)
          /\ layout' = [layout EXCEPT ![g] = P]
    /\ grids' = grids \cup {g}
    /\ UNCHANGED <<gone, claim, hold, req>>

(* A layout edit checks the other grids' placements, then reads the claims *)
(* of the panels it drops, and writes.                                     *)
LoadLayout(t, g) ==
    /\ g \in grids
    /\ \E P \in SUBSET Devices :
          /\ P # {}
          /\ \A d \in P : ~PlacedElsewhere(g, d)
          /\ Load(t, [Idle EXCEPT !.step = "layout", !.todo = {g}, !.panels = P])

ListDropped(t) ==
    /\ req[t].step = "layout"
    /\ \E g \in req[t].todo :
          req' = [req EXCEPT ![t].step = "dropped",
                             ![t].mine = ClaimedBy(g) \cap (layout[g] \ req[t].panels)]
    /\ UNCHANGED db

(* Fault: panels dropped from the layout keep their claim.                 *)
CommitLayoutKeepsClaims(t) ==
    /\ req[t].step = "dropped"
    /\ \E g \in req[t].todo \cap grids :
          layout' = [layout EXCEPT ![g] = req[t].panels]
    /\ Done(t)
    /\ UNCHANGED <<grids, gone, claim, hold>>

CommitLayout(t) ==
    /\ req[t].step = "dropped"
    /\ claim' = Free(req[t].mine)
    /\ \E g \in req[t].todo \cap grids :
          layout' = [layout EXCEPT ![g] = req[t].panels]
    /\ Done(t)
    /\ UNCHANGED <<grids, gone, hold>>

(* Deletion reads the claims of the placed panels, releases the ones it    *)
(* read as its own in one transaction and deletes the grid's row in a      *)
(* second.  The grid_devices rows stay: the connections never switch       *)
(* SQLite's foreign keys on, so ON DELETE CASCADE is inert.                *)
LoadDeletion(t, g) ==
    /\ g \in grids
    /\ Load(t, [Idle EXCEPT !.step = "deletion", !.todo = {g},
                            !.mine = ClaimedBy(g) \cap layout[g]])

DeleteRelease(t) ==
    /\ req[t].step = "deletion"
    /\ claim' = Free(req[t].mine)
    /\ req' = [req EXCEPT ![t] = [@ EXCEPT !.step = "delete", !.mine = {}]]
    /\ UNCHANGED <<grids, gone, layout, hold>>

DeleteCommit(t) ==
    /\ req[t].step = "delete"
    /\ \E g \in req[t].todo \cap grids :
          /\ grids' = grids \ {g}
          /\ gone' = gone \cup {g}
    /\ Done(t)
    /\ UNCHANGED <<layout, claim, hold>>

-----------------------------------------------------------------------------
(* A hold with a duration elapses.                                         *)
Elapse(g) == /\ g \in grids
             /\ hold[g] = "live"
             /\ hold' = [hold EXCEPT ![g] = "over"]
             /\ UNCHANGED <<grids, gone, layout, claim, req>>

OperatorBegin(t, g) == \/ DisplayImage(t, g)
                       \/ LoadRelease(t, g)
                       \/ CreateGrid(t, g)
                       \/ LoadLayout(t, g)
                       \/ LoadDeletion(t, g)

Begin(t, g) == \/ ShowGroup(t, g)
               \/ ShowCanvas(t, g)
               \/ t \in Ops /\ OperatorBegin(t, g)

Continue(t) == \/ CommitShow(t)
               \/ FlushRelease(t)
               \/ ListClaims(t)
               \/ CommitIdleRelease(t)
               \/ ListDropped(t)
               \/ CommitLayout(t)
               \/ DeleteRelease(t)
               \/ DeleteCommit(t)
               \/ Fail(t)

Next == \/ \E t \in Tasks, g \in Grids : Begin(t, g)
        \/ \E t \in Tasks : Continue(t)
        \/ LoadExpired
        \/ \E g \in Grids : Elapse(g)

Spec == Init /\ [][Next]_vars

-----------------------------------------------------------------------------
(* PROPERTIES                                                              *)

(* However requests interleave, a panel claimed by an existing grid is     *)
(* claimed by a grid that holds a display: no lost update leaves a panel   *)
(* claimed with nothing left that would ever release it.                   *)
ClaimsHaveHold ==
    \A d \in Devices : claim[d] \in grids => hold[claim[d]] # "none"

(* With requests one at a time, a claimed panel is placed on the grid that *)
(* claims it, and that grid exists: layout edits and deletion release      *)
(* every panel they take away.                                             *)
ClaimsArePlaced ==
    \A d \in Devices : claim[d] # NoGrid => claim[d] \in grids /\ d \in layout[claim[d]]

(* "A device belongs to at most one grid's layout" (docs/grids.md).        *)
OneGridPerDevice ==
    \A g, h \in Grids : g # h => layout[g] \cap layout[h] = {}

(* Deleting a grid releases its claims (docstring of delete_grid): a panel  *)
(* left claimed by a deleted grid is driven by nobody, since solo rotation  *)
(* skips claimed panels.                                                   *)
DeletedGridsClaimNothing == \A d \in Devices : claim[d] \notin gone

(* The API implements the ledger: ownership of the existing grids.         *)
Ledger == INSTANCE ClaimLedger WITH
    showing <- {g \in grids : hold[g] # "none"},
    owner <- [d \in Devices |-> IF claim[d] \in grids THEN claim[d] ELSE NoGrid]

ImplementsLedger == Ledger!LedgerSpec
=============================================================================
