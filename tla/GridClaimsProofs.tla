-------------------------- MODULE GridClaimsProofs --------------------------
(***************************************************************************)
(* Proofs about GridClaims, for any number of grids, panels and requests.  *)
(***************************************************************************)
EXTENDS GridClaims, TLAPS

(* Claims and holds only ever name grids that were created.                *)
RowsKnown == /\ grids \cap gone = {}
             /\ \A d \in Devices : claim[d] \in grids \cup gone \cup {NoGrid}
             /\ \A g \in Grids : hold[g] # "none" => g \in grids \cup gone

-----------------------------------------------------------------------------
(* The records a request can hold.                                         *)
LEMMA IdleIsRequest == Idle \in Request
  BY DEF Idle, Request, Steps

(* A handler that only loads stores a well-formed request.                 *)
LEMMA LoadKeepsType ==
  ASSUME TypeOK, NEW t \in Tasks, NEW r \in Request, Load(t, r)
  PROVE  TypeOK' /\ UNCHANGED db
  BY DEF TypeOK, Load, db

(* Every variable keeps its type in every step: one case per action.       *)
LEMMA TypeStep == TypeOK /\ [Next]_vars => TypeOK'
<1> SUFFICES ASSUME TypeOK, [Next]_vars PROVE TypeOK'
  OBVIOUS
<1>1. ASSUME NEW t \in Tasks, NEW g \in Grids, ShowGroup(t, g) PROVE TypeOK'
  <2>1. PICK P \in SUBSET layout[g] : LoadShow(t, g, P)
    BY <1>1 DEF ShowGroup
  <2>2. P \in SUBSET Devices
    BY <2>1 DEF TypeOK
  <2>. QED
    BY <2>1, <2>2, LoadKeepsType DEF LoadShow, Request, Steps
<1>2. ASSUME NEW t \in Tasks, NEW g \in Grids, ShowCanvas(t, g) PROVE TypeOK'
  <2>1. {d \in layout[g] : claim[d] \in {NoGrid, g}} \in SUBSET Devices
    BY DEF TypeOK
  <2>. QED
    BY <1>2, <2>1, LoadKeepsType DEF ShowCanvas, LoadShow, Request, Steps
<1>3. ASSUME NEW t \in Tasks, NEW g \in Grids, DisplayImage(t, g) PROVE TypeOK'
  <2>1. layout[g] \in SUBSET Devices
    BY DEF TypeOK
  <2>. QED
    BY <1>3, <2>1, LoadKeepsType DEF DisplayImage, LoadShow, Request, Steps
<1>4. ASSUME NEW t \in Tasks, NEW g \in Grids, LoadRelease(t, g) PROVE TypeOK'
  BY <1>4, LoadKeepsType DEF LoadRelease, Request, Steps, Idle
<1>5. ASSUME NEW t \in Tasks, NEW g \in Grids, CreateGrid(t, g) PROVE TypeOK'
  BY <1>5 DEF CreateGrid, TypeOK
<1>6. ASSUME NEW t \in Tasks, NEW g \in Grids, LoadLayout(t, g) PROVE TypeOK'
  BY <1>6, LoadKeepsType DEF LoadLayout, Request, Steps, Idle
<1>7. ASSUME NEW t \in Tasks, NEW g \in Grids, LoadDeletion(t, g) PROVE TypeOK'
  <2>1. ClaimedBy(g) \cap layout[g] \in SUBSET Devices
    BY DEF ClaimedBy
  <2>. QED
    BY <1>7, <2>1, LoadKeepsType DEF LoadDeletion, Request, Steps, Idle
<1>18. ASSUME NEW t \in Tasks, DeleteRelease(t) PROVE TypeOK'
  <2>1. [req[t] EXCEPT !.step = "delete", !.mine = {}] \in Request
    BY DEF TypeOK, Request, Steps
  <2>. QED
    BY <1>18, <2>1 DEF DeleteRelease, TypeOK, Free
<1>19. ASSUME NEW t \in Tasks, ListDropped(t) PROVE TypeOK'
  <2>1. PICK g \in req[t].todo :
           req' = [req EXCEPT ![t].step = "dropped",
                              ![t].mine = ClaimedBy(g) \cap (layout[g] \ req[t].panels)]
    BY <1>19 DEF ListDropped
  <2>2. PICK S \in SUBSET Devices : S = ClaimedBy(g) \cap (layout[g] \ req[t].panels)
    BY DEF ClaimedBy
  <2>3. [req[t] EXCEPT !.step = "dropped", !.mine = S] \in Request
    BY DEF TypeOK, Request, Steps
  <2>4. req' = [req EXCEPT ![t] = [req[t] EXCEPT !.step = "dropped", !.mine = S]]
    BY <2>1, <2>2 DEF TypeOK, Request
  <2>. QED
    BY <1>19, <2>3, <2>4 DEF ListDropped, TypeOK, db
<1>8. ASSUME NEW t \in Tasks, CommitShow(t) PROVE TypeOK'
  BY <1>8, IdleIsRequest DEF CommitShow, Done, TypeOK
<1>9. ASSUME NEW t \in Tasks, FlushRelease(t) PROVE TypeOK'
  <2>1. \A g : [req[t] EXCEPT !.todo = req[t].todo \ {g}] \in Request
    BY DEF TypeOK, Request
  <2>2. claim' \in [Devices -> Grids \cup {NoGrid}] /\ hold' \in [Grids -> {"none", "live", "over"}]
    BY <1>9 DEF FlushRelease, TypeOK, Free
  <2>3. req' \in [Tasks -> Request]
    BY <1>9, <2>1, IdleIsRequest DEF FlushRelease, Done, TypeOK
  <2>. QED
    BY <1>9, <2>2, <2>3 DEF FlushRelease, TypeOK
<1>10. ASSUME NEW t \in Tasks, ListClaims(t) PROVE TypeOK'
  <2>1. \A g : [req[t] EXCEPT !.step = "listed", !.mine = ClaimedBy(g)] \in Request
    BY DEF TypeOK, Request, Steps, ClaimedBy
  <2>2. PICK g \in req[t].todo :
           req' = [req EXCEPT ![t].step = "listed", ![t].mine = ClaimedBy(g)]
    BY <1>10 DEF ListClaims
  <2>3. req' = [req EXCEPT ![t] = [req[t] EXCEPT !.step = "listed", !.mine = ClaimedBy(g)]]
    BY <2>2 DEF TypeOK, Request
  <2>. QED
    BY <1>10, <2>1, <2>3 DEF ListClaims, TypeOK, db
<1>11. ASSUME NEW t \in Tasks, CommitIdleRelease(t) PROVE TypeOK'
  BY <1>11, IdleIsRequest DEF CommitIdleRelease, Done, TypeOK, Free
<1>12. ASSUME NEW t \in Tasks, CommitLayout(t) PROVE TypeOK'
  <2>1. req[t].panels \in SUBSET Devices
    BY DEF TypeOK, Request
  <2>. QED
    BY <1>12, <2>1, IdleIsRequest DEF CommitLayout, Done, TypeOK, Free
<1>13. ASSUME NEW t \in Tasks, DeleteCommit(t) PROVE TypeOK'
  <2>1. req[t].todo \in SUBSET Grids
    BY DEF TypeOK, Request
  <2>. QED
    BY <1>13, <2>1, IdleIsRequest DEF DeleteCommit, Done, TypeOK
<1>14. ASSUME NEW t \in Tasks, Fail(t) PROVE TypeOK'
  BY <1>14, IdleIsRequest DEF Fail, Done, TypeOK, db
<1>15. CASE LoadExpired
  <2>1. {g \in grids : hold[g] = "over"} \in SUBSET Grids
    BY DEF TypeOK
  <2>. QED
    BY <1>15, <2>1, LoadKeepsType DEF LoadExpired, Request, Steps, Idle, Tasks
<1>16. ASSUME NEW g \in Grids, Elapse(g) PROVE TypeOK'
  BY <1>16 DEF Elapse, TypeOK
<1>17. CASE UNCHANGED vars
  BY <1>17 DEF vars, TypeOK
<1>. QED
  BY <1>1, <1>2, <1>3, <1>4, <1>5, <1>6, <1>7, <1>8, <1>9, <1>10, <1>11, <1>12,
     <1>13, <1>14, <1>15, <1>16, <1>17, <1>18, <1>19 DEF Next, Begin, OperatorBegin, Continue

(* The rows, claims, holds and requests keep their shape in every          *)
(* behaviour of the API.                                                   *)
THEOREM TypeCorrect == Spec => []TypeOK
<1>1. Init => TypeOK
  BY IdleIsRequest DEF Init, TypeOK
<1>. QED
  BY <1>1, TypeStep, PTL DEF Spec

-----------------------------------------------------------------------------
(* A step that leaves the rows alone preserves everything said of them.    *)
LEMMA QuietStep ==
  ASSUME RowsKnown, ClaimsHaveHold, UNCHANGED <<grids, gone, claim, hold>>
  PROVE  RowsKnown' /\ ClaimsHaveHold'
  BY DEF RowsKnown, ClaimsHaveHold

(* Handing panels back cannot leave a claim without a hold.                *)
LEMMA FreeStep ==
  ASSUME TypeOK, RowsKnown, ClaimsHaveHold, NEW S,
         claim' = Free(S), UNCHANGED <<grids, gone, hold>>
  PROVE  RowsKnown' /\ ClaimsHaveHold'
  BY GridClaimsAssumption DEF TypeOK, RowsKnown, ClaimsHaveHold, Free

(* The steps that claim panels set the hold with the claim, and the only   *)
(* step that clears a hold frees every panel the grid has at that moment.  *)
LEMMA ClaimStep == TypeOK /\ RowsKnown /\ ClaimsHaveHold /\ [Next]_vars
                     => RowsKnown' /\ ClaimsHaveHold'
<1> SUFFICES ASSUME TypeOK, RowsKnown, ClaimsHaveHold, [Next]_vars
             PROVE  RowsKnown' /\ ClaimsHaveHold'
  OBVIOUS
<1>1. ASSUME NEW t \in Tasks, NEW r, Load(t, r) PROVE RowsKnown' /\ ClaimsHaveHold'
  BY <1>1, QuietStep DEF Load, db
<1>2. ASSUME NEW t \in Tasks, NEW g \in Grids, CreateGrid(t, g)
      PROVE  RowsKnown' /\ ClaimsHaveHold'
  BY <1>2, GridClaimsAssumption DEF CreateGrid, TypeOK, RowsKnown, ClaimsHaveHold
<1>3. ASSUME NEW t \in Tasks, DeleteRelease(t) PROVE RowsKnown' /\ ClaimsHaveHold'
  BY <1>3, FreeStep DEF DeleteRelease
<1>4. ASSUME NEW t \in Tasks, CommitShow(t) PROVE RowsKnown' /\ ClaimsHaveHold'
  <2>1. PICK g \in req[t].todo \cap grids :
           /\ claim' = [d \in Devices |->
                           IF d \in req[t].panels \ req[t].mine THEN g ELSE claim[d]]
           /\ hold' = [hold EXCEPT ![g] = "live"]
    BY <1>4 DEF CommitShow
  <2>2. g \in Grids /\ UNCHANGED <<grids, gone>>
    BY <1>4 DEF CommitShow, TypeOK
  <2>3. \A h \in Grids : hold'[h] = IF h = g THEN "live" ELSE hold[h]
    BY <2>1, <2>2 DEF TypeOK
  <2>4. RowsKnown'
    BY <2>1, <2>2, <2>3 DEF RowsKnown, TypeOK
  <2>5. ClaimsHaveHold'
    BY <2>1, <2>2, <2>3 DEF ClaimsHaveHold, TypeOK
  <2>. QED
    BY <2>4, <2>5
<1>5. ASSUME NEW t \in Tasks, FlushRelease(t) PROVE RowsKnown' /\ ClaimsHaveHold'
  <2>1. PICK g \in req[t].todo \cap grids :
           claim' = Free(ClaimedBy(g)) /\ hold' = [hold EXCEPT ![g] = "none"]
    BY <1>5 DEF FlushRelease
  <2>2. g \in Grids /\ UNCHANGED <<grids, gone>>
    BY <1>5 DEF FlushRelease, TypeOK
  <2>3. \A h \in Grids : hold'[h] = IF h = g THEN "none" ELSE hold[h]
    BY <2>1, <2>2 DEF TypeOK
  <2>4. \A d \in Devices : claim'[d] = IF claim[d] = g THEN NoGrid ELSE claim[d]
    BY <2>1 DEF Free, ClaimedBy
  <2>5. RowsKnown'
    BY <2>2, <2>3, <2>4 DEF RowsKnown
  <2>6. ClaimsHaveHold'
    BY <2>2, <2>3, <2>4, GridClaimsAssumption DEF ClaimsHaveHold, TypeOK
  <2>. QED
    BY <2>5, <2>6
<1>6. ASSUME NEW t \in Tasks, ListClaims(t) \/ ListDropped(t) \/ Fail(t)
      PROVE  RowsKnown' /\ ClaimsHaveHold'
  BY <1>6, QuietStep DEF ListClaims, ListDropped, Fail, db
<1>7. ASSUME NEW t \in Tasks, CommitIdleRelease(t) PROVE RowsKnown' /\ ClaimsHaveHold'
  BY <1>7, FreeStep DEF CommitIdleRelease
<1>8. ASSUME NEW t \in Tasks, CommitLayout(t) PROVE RowsKnown' /\ ClaimsHaveHold'
  BY <1>8, FreeStep DEF CommitLayout
<1>9. ASSUME NEW t \in Tasks, DeleteCommit(t) PROVE RowsKnown' /\ ClaimsHaveHold'
  BY <1>9 DEF DeleteCommit, TypeOK, RowsKnown, ClaimsHaveHold
<1>10. ASSUME NEW g \in Grids, Elapse(g) PROVE RowsKnown' /\ ClaimsHaveHold'
  BY <1>10 DEF Elapse, TypeOK, RowsKnown, ClaimsHaveHold
<1>11. CASE UNCHANGED vars
  BY <1>11, QuietStep DEF vars
<1>12. Scheduler \in Tasks
  BY DEF Tasks
<1>. QED
  BY <1>1, <1>2, <1>3, <1>4, <1>5, <1>6, <1>7, <1>8, <1>9, <1>10, <1>11, <1>12
     DEF Next, Begin, OperatorBegin, Continue, ShowGroup, ShowCanvas, DisplayImage,
         LoadShow, LoadRelease, LoadLayout, LoadDeletion, LoadExpired

(* No interleaving of shows, releases, expiries, layout edits, deletions   *)
(* and failures leaves a panel claimed by a grid that holds no display, so *)
(* every claim of an existing grid is one that some release will end.      *)
THEOREM ClaimsAlwaysHeld == Spec => []ClaimsHaveHold
<1>1. Init => TypeOK /\ RowsKnown /\ ClaimsHaveHold
  BY IdleIsRequest DEF Init, TypeOK, RowsKnown, ClaimsHaveHold
<1>2. TypeOK /\ RowsKnown /\ ClaimsHaveHold /\ [Next]_vars
        => TypeOK' /\ RowsKnown' /\ ClaimsHaveHold'
  BY TypeStep, ClaimStep
<1>. QED
  BY <1>1, <1>2, PTL DEF Spec

-----------------------------------------------------------------------------
(* The ledger's variables, read off the rows.                              *)
Showing == {g \in grids : hold[g] # "none"}
Owner == [d \in Devices |-> IF claim[d] \in grids THEN claim[d] ELSE NoGrid]

(* A step that only frees panels is the ledger's Yield.                    *)
LEMMA FreeIsYield ==
  ASSUME TypeOK, NEW S \in SUBSET Devices,
         claim' = Free(S), UNCHANGED <<grids, hold>>
  PROVE  Ledger!Yield(S)
<1>1. Owner' = [d \in Devices |-> IF d \in S THEN NoGrid ELSE Owner[d]]
  BY GridClaimsAssumption DEF Owner, Free, TypeOK
<1>2. Showing' = Showing
  BY DEF Showing
<1>. QED
  BY <1>1, <1>2 DEF Owner, Showing, Ledger!Yield

(* Every step of the API is a step of the ledger or changes nothing there. *)
LEMMA LedgerStep ==
  ASSUME TypeOK, RowsKnown, ClaimsHaveHold, [Next]_vars
  PROVE  [Ledger!LedgerNext]_(Ledger!ledgerVars)
<1>0. ASSUME UNCHANGED <<grids, claim, hold>> PROVE UNCHANGED Ledger!ledgerVars
  BY <1>0 DEF Ledger!ledgerVars
<1>1. ASSUME NEW t \in Tasks, NEW r, Load(t, r) PROVE UNCHANGED Ledger!ledgerVars
  BY <1>1, <1>0 DEF Load, db
<1>2. ASSUME NEW t \in Tasks, NEW g \in Grids, CreateGrid(t, g)
      PROVE  UNCHANGED Ledger!ledgerVars
  <2>1. g \notin grids /\ grids' = grids \cup {g} /\ UNCHANGED <<claim, hold>> /\ g \notin gone
    BY <1>2 DEF CreateGrid
  <2>2. hold[g] = "none" /\ \A d \in Devices : claim[d] # g
    BY <2>1, GridClaimsAssumption DEF RowsKnown
  <2>3. Showing' = Showing
    BY <2>1, <2>2 DEF Showing
  <2>4. Owner' = Owner
    BY <2>1, <2>2 DEF Owner
  <2>. QED
    BY <2>3, <2>4 DEF Showing, Owner, Ledger!ledgerVars
<1>3. ASSUME NEW t \in Tasks, DeleteRelease(t) PROVE Ledger!LedgerNext
  <2>1. PICK S \in SUBSET Devices : S = req[t].mine
    BY DEF TypeOK, Request
  <2>2. Ledger!Yield(S)
    BY <1>3, <2>1, FreeIsYield DEF DeleteRelease
  <2>. QED
    BY <2>1, <2>2 DEF Ledger!LedgerNext
<1>4. ASSUME NEW t \in Tasks, CommitShow(t) PROVE Ledger!LedgerNext
  <2>0. PICK S \in SUBSET Devices : S = req[t].panels \ req[t].mine
    BY DEF TypeOK, Request
  <2>1. PICK g \in req[t].todo \cap grids :
           /\ claim' = [d \in Devices |-> IF d \in S THEN g ELSE claim[d]]
           /\ hold' = [hold EXCEPT ![g] = "live"]
    BY <1>4, <2>0 DEF CommitShow
  <2>2. g \in Grids /\ grids' = grids
    BY <1>4 DEF CommitShow, TypeOK, Request
  <2>3. \A h \in Grids : hold'[h] = IF h = g THEN "live" ELSE hold[h]
    BY <2>1, <2>2 DEF TypeOK
  <2>4. Showing' = Showing \cup {g}
    BY <2>1, <2>2, <2>3 DEF Showing, TypeOK
  <2>5. Owner' = [d \in Devices |-> IF d \in S THEN g ELSE Owner[d]]
    BY <2>1, <2>2 DEF Owner
  <2>6. Ledger!Display(g, S)
    BY <2>4, <2>5 DEF Showing, Owner, Ledger!Display
  <2>. QED
    BY <2>2, <2>6 DEF Ledger!LedgerNext
<1>5. ASSUME NEW t \in Tasks, FlushRelease(t) PROVE Ledger!LedgerNext
  <2>1. PICK g \in req[t].todo \cap grids :
           claim' = Free(ClaimedBy(g)) /\ hold' = [hold EXCEPT ![g] = "none"]
    BY <1>5 DEF FlushRelease
  <2>2. g \in Grids /\ grids' = grids
    BY <1>5 DEF FlushRelease, TypeOK
  <2>3. \A h \in Grids : hold'[h] = IF h = g THEN "none" ELSE hold[h]
    BY <2>1, <2>2 DEF TypeOK
  <2>4. Showing' = Showing \ {g}
    BY <2>1, <2>2, <2>3 DEF Showing, TypeOK
  <2>5. Owner' = [d \in Devices |-> IF Owner[d] = g THEN NoGrid ELSE Owner[d]]
    BY <2>1, <2>2, GridClaimsAssumption DEF Owner, Free, ClaimedBy, TypeOK
  <2>6. Ledger!EndDisplay(g)
    BY <2>4, <2>5 DEF Showing, Owner, Ledger!EndDisplay
  <2>. QED
    BY <2>2, <2>6 DEF Ledger!LedgerNext
<1>6. ASSUME NEW t \in Tasks, ListClaims(t) \/ ListDropped(t) \/ Fail(t)
      PROVE  UNCHANGED Ledger!ledgerVars
  BY <1>6, <1>0 DEF ListClaims, ListDropped, Fail, db
<1>7. ASSUME NEW t \in Tasks, CommitIdleRelease(t) PROVE Ledger!LedgerNext
  <2>1. PICK S \in SUBSET Devices : S = req[t].mine
    BY DEF TypeOK, Request
  <2>2. Ledger!Yield(S)
    BY <1>7, <2>1, FreeIsYield DEF CommitIdleRelease
  <2>. QED
    BY <2>1, <2>2 DEF Ledger!LedgerNext
<1>8. ASSUME NEW t \in Tasks, CommitLayout(t) PROVE Ledger!LedgerNext
  <2>1. PICK S \in SUBSET Devices : S = req[t].mine
    BY DEF TypeOK, Request
  <2>2. Ledger!Yield(S)
    BY <1>8, <2>1, FreeIsYield DEF CommitLayout
  <2>. QED
    BY <2>1, <2>2 DEF Ledger!LedgerNext
<1>9. ASSUME NEW t \in Tasks, DeleteCommit(t) PROVE Ledger!LedgerNext
  <2>1. PICK g \in req[t].todo \cap grids : grids' = grids \ {g}
    BY <1>9 DEF DeleteCommit
  <2>2. g \in Grids /\ UNCHANGED <<claim, hold>>
    BY <1>9 DEF DeleteCommit, TypeOK
  <2>3. Showing' = Showing \ {g}
    BY <2>1, <2>2 DEF Showing
  <2>4. Owner' = [d \in Devices |-> IF Owner[d] = g THEN NoGrid ELSE Owner[d]]
    BY <2>1, <2>2, GridClaimsAssumption DEF Owner, TypeOK
  <2>5. Ledger!EndDisplay(g)
    BY <2>3, <2>4 DEF Showing, Owner, Ledger!EndDisplay
  <2>. QED
    BY <2>2, <2>5 DEF Ledger!LedgerNext
<1>10. ASSUME NEW g \in Grids, Elapse(g) PROVE UNCHANGED Ledger!ledgerVars
  <2>1. Showing' = Showing
    BY <1>10 DEF Elapse, Showing, TypeOK
  <2>. QED
    BY <1>10, <2>1 DEF Elapse, Showing, Ledger!ledgerVars
<1>11. CASE UNCHANGED vars
  BY <1>11, <1>0 DEF vars
<1>12. Scheduler \in Tasks
  BY DEF Tasks
<1>. QED
  BY <1>1, <1>2, <1>3, <1>4, <1>5, <1>6, <1>7, <1>8, <1>9, <1>10, <1>11, <1>12
     DEF Next, Begin, OperatorBegin, Continue, ShowGroup, ShowCanvas, DisplayImage,
         LoadShow, LoadRelease, LoadLayout, LoadDeletion, LoadExpired

(* The claim columns, the holds and the requests that write them implement *)
(* the ledger: displays take panels, and end by handing all of them back.  *)
THEOREM Refinement == Spec => ImplementsLedger
<1>1. Init => Ledger!LedgerInit /\ TypeOK /\ RowsKnown /\ ClaimsHaveHold
  BY IdleIsRequest DEF Init, TypeOK, RowsKnown, ClaimsHaveHold, Ledger!LedgerInit
<1>2. TypeOK /\ RowsKnown /\ ClaimsHaveHold /\ [Next]_vars
        => /\ TypeOK' /\ RowsKnown' /\ ClaimsHaveHold'
           /\ [Ledger!LedgerNext]_(Ledger!ledgerVars)
  BY TypeStep, ClaimStep, LedgerStep
<1>. QED
  BY <1>1, <1>2, PTL DEF Spec, ImplementsLedger, Ledger!LedgerSpec

-----------------------------------------------------------------------------
(* What a request loaded still describes the rows when it is the only one  *)
(* in flight.                                                              *)
RequestFits(r) ==
    /\ r.step = "show" => \A g \in r.todo : r.panels \subseteq layout[g]
    /\ r.step \in {"layout", "dropped"} => \A g \in r.todo : \A d \in r.panels : ~PlacedElsewhere(g, d)
    /\ r.step = "layout" => \A g, h \in r.todo : g = h
    /\ r.step = "dropped" => \A g \in r.todo : r.mine = ClaimedBy(g) \cap (layout[g] \ r.panels)
    /\ r.step = "deletion" => \A g \in r.todo : r.mine = ClaimedBy(g) \cap layout[g]
    /\ r.step = "delete" => \A g \in r.todo : ClaimedBy(g) = {}

OneAtATime == \A t, u \in Tasks : req[t] # Idle /\ req[u] # Idle => t = u

SerialInv == /\ OneAtATime
             /\ ClaimsArePlaced
             /\ OneGridPerDevice
             /\ \A t \in Tasks : RequestFits(req[t])

LEMMA IdleFits == RequestFits(Idle)
  BY DEF RequestFits, Idle

(* Loading stores a request that fits, beside idle ones.                   *)
LEMMA SerialLoad ==
  ASSUME ~Overlap, TypeOK, SerialInv, NEW t \in Tasks, NEW r \in Request,
         Load(t, r), RequestFits(r)
  PROVE  SerialInv'
<1>1. \A u \in Tasks : req'[u] = IF u = t THEN r ELSE Idle
  BY DEF Load, CanBegin, TypeOK
<1>2. OneAtATime'
  BY <1>1 DEF OneAtATime, Idle
<1>3. ClaimsArePlaced' /\ OneGridPerDevice'
  BY DEF Load, db, SerialInv, ClaimsArePlaced, OneGridPerDevice
<1>4. RequestFits(r)' /\ RequestFits(Idle)'
  BY IdleFits DEF Load, db, RequestFits, PlacedElsewhere, ClaimedBy, Idle
<1>5. \A u \in Tasks : RequestFits(req[u])'
  BY <1>1, <1>4 DEF RequestFits, PlacedElsewhere, ClaimedBy
<1>. QED
  BY <1>2, <1>3, <1>5 DEF SerialInv

(* When the request in flight ends, every request is idle.                 *)
LEMMA SerialDone ==
  ASSUME TypeOK, OneAtATime, NEW t \in Tasks, req[t] # Idle, Done(t)
  PROVE  OneAtATime' /\ \A u \in Tasks : RequestFits(req[u])'
<1>1. \A u \in Tasks : req'[u] = Idle
  BY DEF OneAtATime, Done, TypeOK
<1>. QED
  BY <1>1 DEF OneAtATime, RequestFits, Idle

(* While one request is in flight the others are idle.                     *)
LEMMA SerialAlone ==
  ASSUME OneAtATime, NEW t \in Tasks, req[t] # Idle, NEW u \in Tasks, u # t
  PROVE  req[u] = Idle
  BY DEF OneAtATime

LEMMA SerialStep == ~Overlap /\ TypeOK /\ TypeOK' /\ SerialInv /\ [Next]_vars => SerialInv'
<1> SUFFICES ASSUME ~Overlap, TypeOK, TypeOK', SerialInv, [Next]_vars PROVE SerialInv'
  OBVIOUS
<1>0. OneAtATime /\ ClaimsArePlaced /\ OneGridPerDevice /\ \A t \in Tasks : RequestFits(req[t])
  BY DEF SerialInv
<1>1. ASSUME NEW t \in Tasks, NEW g \in Grids, NEW P \in SUBSET layout[g], LoadShow(t, g, P)
      PROVE  SerialInv'
  <2>. DEFINE r == [step |-> "show", todo |-> {g}, panels |-> P,
                    mine |-> {d \in P : claim[d] = g}]
  <2>1. r \in Request /\ RequestFits(r)
    BY DEF Request, Steps, TypeOK, RequestFits
  <2>. QED
    BY <1>1, <2>1, SerialLoad DEF LoadShow
<1>2. ASSUME NEW t \in Tasks, NEW g \in Grids, ShowGroup(t, g) \/ ShowCanvas(t, g) \/ DisplayImage(t, g)
      PROVE  SerialInv'
  <2>1. {d \in layout[g] : claim[d] \in {NoGrid, g}} \in SUBSET layout[g]
    OBVIOUS
  <2>. QED
    BY <1>1, <1>2, <2>1 DEF ShowGroup, ShowCanvas, DisplayImage
<1>3. ASSUME NEW t \in Tasks, NEW g \in Grids, LoadRelease(t, g) PROVE SerialInv'
  <2>. DEFINE r == [Idle EXCEPT !.step = IF hold[g] = "none" THEN "idleRelease" ELSE "release",
                                !.todo = {g}]
  <2>1. r \in Request /\ RequestFits(r)
    BY DEF Request, Steps, RequestFits, Idle
  <2>. QED
    BY <1>3, <2>1, SerialLoad DEF LoadRelease
<1>4. CASE LoadExpired
  <2>. DEFINE r == [Idle EXCEPT !.step = "release", !.todo = {g \in grids : hold[g] = "over"}]
  <2>1. {g \in grids : hold[g] = "over"} \in SUBSET Grids
    BY DEF TypeOK
  <2>2. r \in Request /\ RequestFits(r)
    BY <2>1 DEF Request, Steps, RequestFits, Idle
  <2>. QED
    BY <1>4, <2>2, SerialLoad DEF LoadExpired, Tasks
<1>5. ASSUME NEW t \in Tasks, NEW g \in Grids, LoadLayout(t, g) PROVE SerialInv'
  <2>1. PICK P \in SUBSET Devices :
           /\ \A d \in P : ~PlacedElsewhere(g, d)
           /\ Load(t, [Idle EXCEPT !.step = "layout", !.todo = {g}, !.panels = P])
    BY <1>5 DEF LoadLayout
  <2>. DEFINE r == [Idle EXCEPT !.step = "layout", !.todo = {g}, !.panels = P]
  <2>2. r \in Request /\ RequestFits(r)
    BY <2>1 DEF Request, Steps, RequestFits, Idle
  <2>. QED
    BY <2>1, <2>2, SerialLoad
<1>6. ASSUME NEW t \in Tasks, NEW g \in Grids, CreateGrid(t, g) PROVE SerialInv'
  <2>1. PICK P \in SUBSET Devices :
           (\A d \in P : ~PlacedElsewhere(g, d)) /\ layout' = [layout EXCEPT ![g] = P]
    BY <1>6 DEF CreateGrid
  <2>2. \A h \in Grids : layout'[h] = IF h = g THEN P ELSE layout[h]
    BY <2>1 DEF TypeOK
  <2>3. grids' = grids \cup {g} /\ g \notin grids /\ UNCHANGED <<claim, req>>
    BY <1>6 DEF CreateGrid
  <2>4. \A u \in Tasks : req'[u] = Idle
    BY <1>6, <2>3 DEF CreateGrid, CanBegin
  <2>5. OneGridPerDevice'
    BY <1>0, <2>1, <2>2 DEF OneGridPerDevice, PlacedElsewhere
  <2>6. ClaimsArePlaced'
    BY <1>0, <2>2, <2>3, GridClaimsAssumption DEF ClaimsArePlaced, TypeOK
  <2>7. OneAtATime' /\ \A u \in Tasks : RequestFits(req[u])'
    BY <2>4 DEF OneAtATime, RequestFits, Idle
  <2>. QED
    BY <2>5, <2>6, <2>7 DEF SerialInv
<1>7. ASSUME NEW t \in Tasks, NEW g \in Grids, LoadDeletion(t, g) PROVE SerialInv'
  <2>. DEFINE r == [Idle EXCEPT !.step = "deletion", !.todo = {g}, !.mine = ClaimedBy(g) \cap layout[g]]
  <2>1. ClaimedBy(g) \cap layout[g] \in SUBSET Devices
    BY DEF ClaimedBy
  <2>2. r \in Request /\ RequestFits(r)
    BY <2>1 DEF Request, Steps, RequestFits, Idle
  <2>. QED
    BY <1>7, <2>2, SerialLoad DEF LoadDeletion
<1>20. ASSUME NEW t \in Tasks, DeleteRelease(t) PROVE SerialInv'
  <2>. DEFINE r == [req[t] EXCEPT !.step = "delete", !.mine = {}]
  <2>1. req[t] # Idle /\ req[t].step = "deletion"
    BY <1>20 DEF DeleteRelease, Idle
  <2>2. \A u \in Tasks : req'[u] = IF u = t THEN r ELSE Idle
    BY <1>0, <1>20, <2>1, SerialAlone DEF DeleteRelease, TypeOK
  <2>3. claim' = Free(req[t].mine) /\ UNCHANGED <<grids, layout>>
    BY <1>20 DEF DeleteRelease
  <2>4. ClaimsArePlaced' /\ OneGridPerDevice'
    BY <1>0, <2>3 DEF ClaimsArePlaced, OneGridPerDevice, Free
  <2>5. \A g \in req[t].todo : ClaimedBy(g)' = {}
    <3> TAKE g \in req[t].todo
    <3>1. req[t].mine = ClaimedBy(g) \cap layout[g] /\ g \in Grids
      BY <1>0, <2>1 DEF RequestFits, TypeOK, Request
    <3>. QED
      BY <1>0, <2>3, <3>1, GridClaimsAssumption DEF ClaimedBy, Free, ClaimsArePlaced
  <2>6. r.step = "delete" /\ r.todo = req[t].todo
    BY DEF TypeOK, Request
  <2>7. OneAtATime'
    BY <2>2 DEF OneAtATime
  <2>8. \A u \in Tasks : RequestFits(req[u])'
    <3>1. req'[t].step = "delete" /\ req'[t].todo = req[t].todo
      BY <2>2, <2>6
    <3>2. RequestFits(req[t])'
      BY <2>5, <3>1 DEF RequestFits
    <3>. QED
      BY <2>2, <3>2 DEF RequestFits, Idle
  <2>. QED
    BY <2>4, <2>7, <2>8 DEF SerialInv
<1>21. ASSUME NEW t \in Tasks, ListDropped(t) PROVE SerialInv'
  <2>1. PICK g \in req[t].todo :
           req' = [req EXCEPT ![t].step = "dropped",
                              ![t].mine = ClaimedBy(g) \cap (layout[g] \ req[t].panels)]
    BY <1>21 DEF ListDropped
  <2>2. req[t] # Idle /\ req[t].step = "layout" /\ UNCHANGED db
    BY <1>21 DEF ListDropped, Idle
  <2>3. \A u \in Tasks \ {t} : req'[u] = Idle
    BY <1>0, <2>1, <2>2, SerialAlone DEF TypeOK
  <2>4. /\ req'[t].step = "dropped" /\ req'[t].todo = req[t].todo /\ req'[t].panels = req[t].panels
        /\ req'[t].mine = ClaimedBy(g) \cap (layout[g] \ req[t].panels)
    BY <2>1 DEF TypeOK, Request
  <2>5. \A h \in req[t].todo : h = g
    BY <1>0, <2>2 DEF RequestFits
  <2>6. OneAtATime'
    BY <2>3 DEF OneAtATime
  <2>7. \A u \in Tasks : RequestFits(req[u])'
    <3>1. RequestFits(req[t])
      BY <1>0
    <3>2. RequestFits(req[t])'
      BY <2>2, <2>4, <2>5, <3>1 DEF RequestFits, db, PlacedElsewhere, ClaimedBy
    <3>. QED
      BY <2>3, <3>2 DEF RequestFits, Idle
  <2>8. ClaimsArePlaced' /\ OneGridPerDevice'
    BY <1>0, <2>2 DEF db, ClaimsArePlaced, OneGridPerDevice
  <2>. QED
    BY <2>6, <2>7, <2>8 DEF SerialInv
<1>8. ASSUME NEW t \in Tasks, req[t] # Idle, Done(t), ClaimsArePlaced', OneGridPerDevice'
      PROVE  SerialInv'
  BY <1>0, <1>8, SerialDone DEF SerialInv
<1>9. ASSUME NEW t \in Tasks, CommitShow(t) PROVE SerialInv'
  <2>1. PICK g \in req[t].todo \cap grids :
           claim' = [d \in Devices |-> IF d \in req[t].panels \ req[t].mine THEN g ELSE claim[d]]
    BY <1>9 DEF CommitShow
  <2>2. req[t] # Idle /\ Done(t) /\ UNCHANGED <<grids, layout>>
    BY <1>9 DEF CommitShow, Idle
  <2>3. req[t].panels \subseteq layout[g]
    BY <1>0, <1>9, <2>1 DEF CommitShow, RequestFits
  <2>4. ClaimsArePlaced' /\ OneGridPerDevice'
    BY <1>0, <2>1, <2>2, <2>3 DEF ClaimsArePlaced, OneGridPerDevice
  <2>. QED
    BY <1>8, <2>2, <2>4
<1>10. ASSUME NEW S, claim' = Free(S), UNCHANGED <<grids, layout>>
       PROVE  ClaimsArePlaced' /\ OneGridPerDevice'
  BY <1>0, <1>10 DEF ClaimsArePlaced, OneGridPerDevice, Free
<1>11. ASSUME NEW t \in Tasks, FlushRelease(t) PROVE SerialInv'
  <2>1. PICK g \in req[t].todo \cap grids :
           /\ claim' = Free(ClaimedBy(g))
           /\ IF req[t].todo = {g} THEN Done(t)
              ELSE req' = [req EXCEPT ![t].todo = @ \ {g}]
    BY <1>11 DEF FlushRelease
  <2>2. req[t] # Idle /\ UNCHANGED <<grids, layout>>
    BY <1>11 DEF FlushRelease, Idle
  <2>3. PICK S : S = ClaimedBy(g)
    OBVIOUS
  <2>4. ClaimsArePlaced' /\ OneGridPerDevice'
    BY <1>10, <2>1, <2>2, <2>3
  <2>5. CASE req' = [req EXCEPT ![t].todo = @ \ {g}]
    <3>1. \A u \in Tasks : req'[u] = IF u = t THEN [req[t] EXCEPT !.todo = @ \ {g}] ELSE Idle
      BY <1>0, <2>2, <2>5, SerialAlone DEF TypeOK
    <3>2. req'[t].step = "release" /\ \A u \in Tasks \ {t} : req'[u] = Idle
      BY <1>11, <3>1 DEF FlushRelease, TypeOK, Request
    <3>3. OneAtATime'
      BY <3>1 DEF OneAtATime
    <3>4. \A u \in Tasks : RequestFits(req[u])'
      BY <3>2 DEF RequestFits, Idle
    <3>. QED
      BY <2>4, <3>3, <3>4 DEF SerialInv
  <2>. QED
    BY <1>8, <2>1, <2>2, <2>4, <2>5
<1>12. ASSUME NEW t \in Tasks, ListClaims(t) PROVE SerialInv'
  <2>1. PICK g \in req[t].todo :
           req' = [req EXCEPT ![t].step = "listed", ![t].mine = ClaimedBy(g)]
    BY <1>12 DEF ListClaims
  <2>2. req[t] # Idle /\ UNCHANGED db
    BY <1>12 DEF ListClaims, Idle
  <2>3. \A u \in Tasks \ {t} : req'[u] = Idle
    BY <1>0, <2>1, <2>2, SerialAlone DEF TypeOK
  <2>4. req'[t].step = "listed"
    BY <2>1 DEF TypeOK, Request
  <2>5. OneAtATime'
    BY <2>3 DEF OneAtATime
  <2>6. \A u \in Tasks : RequestFits(req[u])'
    BY <2>3, <2>4 DEF RequestFits, Idle
  <2>7. ClaimsArePlaced' /\ OneGridPerDevice'
    BY <1>0, <2>2 DEF db, ClaimsArePlaced, OneGridPerDevice
  <2>. QED
    BY <2>5, <2>6, <2>7 DEF SerialInv
<1>13. ASSUME NEW t \in Tasks, CommitIdleRelease(t) PROVE SerialInv'
  <2>1. PICK S : S = req[t].mine
    OBVIOUS
  <2>2. req[t] # Idle
    BY <1>13 DEF CommitIdleRelease, Idle
  <2>. QED
    BY <1>8, <1>10, <1>13, <2>1, <2>2 DEF CommitIdleRelease
<1>14. ASSUME NEW t \in Tasks, CommitLayout(t) PROVE SerialInv'
  <2>1. PICK g \in req[t].todo \cap grids :
           /\ claim' = Free(req[t].mine)
           /\ layout' = [layout EXCEPT ![g] = req[t].panels]
    BY <1>14 DEF CommitLayout
  <2>8. req[t].mine = ClaimedBy(g) \cap (layout[g] \ req[t].panels)
    BY <1>0, <1>14, <2>1 DEF CommitLayout, RequestFits
  <2>2. req[t] # Idle /\ Done(t) /\ UNCHANGED grids
    BY <1>14 DEF CommitLayout, Idle
  <2>3. \A h \in Grids : layout'[h] = IF h = g THEN req[t].panels ELSE layout[h]
    BY <2>1 DEF TypeOK
  <2>4. \A d \in req[t].panels : ~PlacedElsewhere(g, d)
    BY <1>0, <1>14, <2>1 DEF CommitLayout, RequestFits
  <2>5. OneGridPerDevice'
    BY <1>0, <2>3, <2>4 DEF OneGridPerDevice, PlacedElsewhere
  <2>6. \A d \in Devices : claim'[d] # NoGrid => claim'[d] \in grids /\ d \in layout'[claim'[d]]
    <3> TAKE d \in Devices
    <3> HAVE claim'[d] # NoGrid
    <3>1. claim'[d] = claim[d] /\ ~(claim[d] = g /\ d \in layout[g] /\ d \notin req[t].panels)
      BY <2>1, <2>8 DEF Free, ClaimedBy
    <3>2. claim[d] \in grids /\ d \in layout[claim[d]] /\ claim[d] \in Grids
      BY <1>0, <3>1 DEF ClaimsArePlaced, TypeOK
    <3>. QED
      BY <2>3, <3>1, <3>2
  <2>7. ClaimsArePlaced'
    BY <2>2, <2>6 DEF ClaimsArePlaced
  <2>. QED
    BY <1>8, <2>2, <2>5, <2>7
<1>15. ASSUME NEW t \in Tasks, DeleteCommit(t) PROVE SerialInv'
  <2>1. PICK g \in req[t].todo \cap grids : grids' = grids \ {g}
    BY <1>15 DEF DeleteCommit
  <2>2. req[t] # Idle /\ Done(t) /\ UNCHANGED <<layout, claim>>
    BY <1>15 DEF DeleteCommit, Idle
  <2>3. ClaimedBy(g) = {}
    BY <1>0, <1>15, <2>1 DEF DeleteCommit, RequestFits
  <2>4. ClaimsArePlaced' /\ OneGridPerDevice'
    BY <1>0, <2>1, <2>2, <2>3 DEF ClaimsArePlaced, OneGridPerDevice, ClaimedBy
  <2>. QED
    BY <1>8, <2>2, <2>4
<1>16. ASSUME NEW t \in Tasks, Fail(t) PROVE SerialInv'
  <2>1. ClaimsArePlaced' /\ OneGridPerDevice'
    BY <1>0, <1>16 DEF Fail, db, ClaimsArePlaced, OneGridPerDevice
  <2>. QED
    BY <1>8, <1>16, <2>1 DEF Fail
<1>17. ASSUME UNCHANGED <<grids, layout, claim, req>> PROVE SerialInv'
  <2>1. OneAtATime' /\ ClaimsArePlaced' /\ OneGridPerDevice'
    BY <1>0, <1>17 DEF OneAtATime, ClaimsArePlaced, OneGridPerDevice
  <2>2. \A t \in Tasks : RequestFits(req[t])'
    BY <1>0, <1>17 DEF RequestFits, PlacedElsewhere, ClaimedBy
  <2>. QED
    BY <2>1, <2>2 DEF SerialInv
<1>18. ASSUME NEW g \in Grids, Elapse(g) PROVE SerialInv'
  BY <1>17, <1>18 DEF Elapse
<1>19. CASE UNCHANGED vars
  BY <1>17, <1>19 DEF vars
<1>. QED
  BY <1>2, <1>3, <1>4, <1>5, <1>6, <1>7, <1>9, <1>11, <1>12, <1>13, <1>14, <1>15, <1>16,
     <1>18, <1>19, <1>20, <1>21 DEF Next, Begin, OperatorBegin, Continue

(* The invariant of requests that run one at a time.                       *)
LEMMA SerialInvariant == ~Overlap => (Spec => [](TypeOK /\ SerialInv))
<1> SUFFICES ASSUME ~Overlap PROVE Spec => [](TypeOK /\ SerialInv)
  OBVIOUS
<1>1. Init => TypeOK /\ SerialInv
  <2>1. Init => TypeOK
    BY IdleIsRequest DEF Init, TypeOK
  <2>2. Init => SerialInv
    BY IdleFits DEF Init, SerialInv, OneAtATime, ClaimsArePlaced, OneGridPerDevice, RequestFits, Idle
  <2>. QED
    BY <2>1, <2>2
<1>2. TypeOK /\ SerialInv /\ [Next]_vars => TypeOK' /\ SerialInv'
  BY TypeStep, SerialStep
<1>. QED
  BY <1>1, <1>2, PTL DEF Spec

(* Requests one at a time, every claimed panel is placed on the existing   *)
(* grid that claims it, through layout edits, deletions and failures.      *)
THEOREM SerialClaims == ~Overlap => (Spec => []ClaimsArePlaced)
<1>1. SerialInv => ClaimsArePlaced
  BY DEF SerialInv
<1>. QED
  BY <1>1, SerialInvariant, PTL

(* Requests one at a time, no panel is on two grids: whatever breaks this  *)
(* or the last theorem is an interleaving, never a single handler.         *)
THEOREM SerialLayouts == ~Overlap => (Spec => []OneGridPerDevice)
<1>1. SerialInv => OneGridPerDevice
  BY DEF SerialInv
<1>. QED
  BY <1>1, SerialInvariant, PTL

=============================================================================
