----------------------------- MODULE QueueTick -----------------------------
(***************************************************************************)
(* How a grid's content queue is played: the scheduler's queue tick, the   *)
(* operator's requests, and what both read before an await and act on      *)
(* after it.  A tick first ends the displays whose hold has elapsed, then  *)
(* starts the scheduled displays that are due, one grid after the other in *)
(* row order, each with a commit for the display and one for the lease.    *)
(*                                                                         *)
(* Instants are kept by what the tick can tell about them: it compares     *)
(* every one with the time at which it started, so a hold or a lease       *)
(* elapses, for this model, between two ticks.                             *)
(***************************************************************************)
EXTENDS Integers, Sequences, SequencesExt, FiniteSetsExt

CONSTANTS Grids,       \* grid rows, numbered in the order queries return them
          Entries,     \* groups and pool images, numbered in creation order
          Groups,      \* the entries that are image groups
          Unplayable,  \* groups of which no image has a panel assigned
          Broken,      \* images whose source cannot be fetched or rendered
          Movable,     \* entries an operator moves between pools
          Manual,      \* grids with no display duration
          Tick, Op,    \* the scheduler task and an operator request
          MaxFaults    \* bound: failed sessions and restarts in a behaviour

ASSUME QueueTickAssumption ==
    /\ Grids \subseteq Nat \ {0}
    /\ Entries \subseteq Nat \ {0} /\ IsFiniteSet(Entries)
    /\ Groups \subseteq Entries
    /\ Unplayable \subseteq Groups
    /\ Broken \subseteq Entries \ Groups
    /\ Movable \subseteq Entries
    /\ Manual \subseteq Grids
    /\ Tick # Op
    /\ {Tick, Op} \cap Entries = {}
    /\ MaxFaults \in Nat

VARIABLES lease,   \* display schedule: off, waiting, or due (display_next_at)
          hold,    \* hold_until: NULL, in the future, or elapsed
          home,    \* target_grid_id of an entry that may play, 0 for none
          pos,     \* queue_position of an entry that was never shown
          recent,  \* entries by last_displayed_at, oldest first; a request
                   \* that is showing one holds the place of its timestamp
          req,     \* what each task has loaded and not yet committed
          starts,  \* scheduled displays started for the occurrence now due
          faults   \* failed sessions and restarts so far

pool == <<home, pos>>
vars == <<lease, hold, home, pos, recent, req, starts, faults>>

Tasks == {Tick, Op}

Request == [step : {"idle", "release", "start", "show", "lease"},
            todo : SUBSET Grids,        \* a tick's list, or the request's grid
            entry : Entries \cup {0},   \* what it is showing,
            queued : BOOLEAN]           \* and whether the queue chose it

Idle == [step |-> "idle", todo |-> {}, entry |-> 0, queued |-> FALSE]

TypeOK == /\ lease \in [Grids -> {"off", "waiting", "due"}]
          /\ hold \in [Grids -> {"none", "live", "over"}]
          /\ home \in [Entries -> Grids \cup {0}]
          /\ pos \in [Entries -> Nat]
          /\ recent \in Seq(Entries \cup Tasks)
          /\ req \in [Tasks -> Request]
          /\ starts \in [Grids -> Nat]
          /\ faults \in 0..MaxFaults

Init == /\ lease = [g \in Grids |-> "off"]
        /\ hold = [g \in Grids |-> "none"]
        /\ home \in [Entries -> Grids]
        /\ pos = [e \in Entries |-> 0]
        /\ recent = <<>>
        /\ req = [t \in Tasks |-> Idle]
        /\ starts = [g \in Grids |-> 0]
        /\ faults = 0

-----------------------------------------------------------------------------
(* The queue: never-shown entries by position, then by creation; after     *)
(* them the shown ones, least recently shown first.                        *)

Pool(g) == {e \in Entries : home[e] = g} \ Unplayable
Fresh(g) == {e \in Pool(g) : ~Contains(recent, e)}
Place(s, x) == CHOOSE i \in DOMAIN s : s[i] = x

(* The order without x, which is in it once at most.                       *)
Without(s, x) == IF Contains(s, x) THEN RemoveAt(s, Place(s, x)) ELSE s

Ahead(e, f) == \/ pos[e] < pos[f]
               \/ pos[e] = pos[f] /\ e < f

(* Fault: among the shown entries the most recently shown comes first.     *)
IsNextNewestFirst(g, e) ==
    IF Fresh(g) # {}
    THEN e \in Fresh(g) /\ \A f \in Fresh(g) \ {e} : Ahead(e, f)
    ELSE e \in Pool(g) /\ \A f \in Pool(g) : Place(recent, e) >= Place(recent, f)

(* _next_playable stops at the first entry of the queue it can show.       *)
IsNext(g, e) ==
    IF Fresh(g) # {}
    THEN e \in Fresh(g) /\ \A f \in Fresh(g) \ {e} : Ahead(e, f)
    ELSE e \in Pool(g) /\ \A f \in Pool(g) : Place(recent, e) <= Place(recent, f)

Due(g) == lease[g] = "due" /\ hold[g] # "live"

-----------------------------------------------------------------------------
(* Sessions                                                                *)

(* The grid a task is working on: a tick takes its list in row order.      *)
At(t) == Min(req[t].todo)

LoadShow(t, g, e, queued) ==
    /\ req' = [req EXCEPT ![t] = [step |-> "show", todo |-> @.todo \cup {g},
                                  entry |-> e, queued |-> queued]]
    /\ recent' = Append(recent, t)

(* The end of show_next, start_group and claim_devices_and_push: the hold  *)
(* gets a new horizon, the entry the timestamp taken when the show began.  *)
CommitShow(t) ==
    /\ req[t].step = "show"
    /\ req[t].entry \notin Broken
    /\ hold' = [hold EXCEPT ![At(t)] = "live"]
    /\ recent' = ReplaceAll(Without(recent, req[t].entry), t, req[t].entry)
    /\ pos' = [pos EXCEPT ![req[t].entry] = 0]
    /\ IF t = Op
       THEN req' = [req EXCEPT ![t] = Idle] /\ UNCHANGED starts
       ELSE /\ req' = [req EXCEPT ![t].step = "lease"]
            /\ starts' = [starts EXCEPT ![At(t)] = @ + 1]
    /\ UNCHANGED <<lease, home, faults>>

(* release_queue, for an operator and for each grid a tick found expired.  *)
Release(t) ==
    /\ req[t].step = "release"
    /\ req[t].todo # {}
    /\ hold' = [hold EXCEPT ![At(t)] = "none"]
    /\ IF t = Op THEN req' = [req EXCEPT ![t] = Idle]
                 ELSE req' = [req EXCEPT ![t].todo = @ \ {At(t)}]
    /\ UNCHANGED <<lease, pool, recent, starts, faults>>

(* A session is rolled back; in the tick the exception ends the tick.      *)
Abort(t) == /\ req' = [req EXCEPT ![t] = Idle]
            /\ recent' = Without(recent, t)
            /\ UNCHANGED <<lease, hold, pool, starts>>

RenderFails(t) == /\ req[t].step = "show"
                  /\ req[t].entry \in Broken
                  /\ Abort(t)
                  /\ UNCHANGED faults

(* A query times out on the write lock, a connection breaks.               *)
Fail(t) == /\ req[t] # Idle
           /\ faults < MaxFaults
           /\ faults' = faults + 1
           /\ Abort(t)

Restart == /\ \E t \in Tasks : req[t] # Idle
           /\ faults < MaxFaults
           /\ faults' = faults + 1
           /\ req' = [t \in Tasks |-> Idle]
           /\ recent' = Without(Without(recent, Tick), Op)
           /\ UNCHANGED <<lease, hold, pool, starts>>

-----------------------------------------------------------------------------
(* queue_tick                                                              *)

(* Fault: only grids with a display schedule are looked at.                *)
BeginTickScheduled ==
    /\ req[Tick] = Idle
    /\ req' = [req EXCEPT ![Tick].step = "release",
                          ![Tick].todo = {g \in Grids : hold[g] = "over" /\ lease[g] # "off"}]
    /\ UNCHANGED <<lease, hold, pool, recent, starts, faults>>

BeginTick ==
    /\ req[Tick] = Idle
    /\ req' = [req EXCEPT ![Tick].step = "release",
                          ![Tick].todo = {g \in Grids : hold[g] = "over"}]
    /\ UNCHANGED <<lease, hold, pool, recent, starts, faults>>

FindDue ==
    /\ req[Tick].step = "release"
    /\ req[Tick].todo = {}
    /\ req' = [req EXCEPT ![Tick].step = "start",
                          ![Tick].todo = {g \in Grids : Due(g)}]
    /\ UNCHANGED <<lease, hold, pool, recent, starts, faults>>

(* The row is read again, then the queue.                                  *)
StartDisplay ==
    /\ req[Tick].step = "start"
    /\ req[Tick].todo # {}
    /\ Due(At(Tick))
    /\ \E e \in Entries : IsNext(At(Tick), e) /\ LoadShow(Tick, At(Tick), e, TRUE)
    /\ UNCHANGED <<lease, hold, pool, starts, faults>>

(* Fault: the lease of an empty queue is advanced as well.                 *)
SkipDisplayAdvances ==
    /\ req[Tick].step = "start"
    /\ req[Tick].todo # {}
    /\ ~Due(At(Tick)) \/ Pool(At(Tick)) = {}
    /\ lease' = [lease EXCEPT ![At(Tick)] = IF @ = "due" THEN "waiting" ELSE @]
    /\ req' = [req EXCEPT ![Tick].todo = @ \ {At(Tick)}]
    /\ UNCHANGED <<hold, pool, recent, starts, faults>>

(* Fault: the tick ends at the first grid with nothing to show.            *)
SkipDisplayReturns ==
    /\ req[Tick].step = "start"
    /\ req[Tick].todo # {}
    /\ ~Due(At(Tick)) \/ Pool(At(Tick)) = {}
    /\ req' = [req EXCEPT ![Tick].todo = {}]
    /\ UNCHANGED <<lease, hold, pool, recent, starts, faults>>

(* An empty queue keeps the lease: the next tick tries again.              *)
SkipDisplay ==
    /\ req[Tick].step = "start"
    /\ req[Tick].todo # {}
    /\ ~Due(At(Tick)) \/ Pool(At(Tick)) = {}
    /\ req' = [req EXCEPT ![Tick].todo = @ \ {At(Tick)}]
    /\ UNCHANGED <<lease, hold, pool, recent, starts, faults>>

(* Fault: the lease is advanced only if the display is still held.         *)
AdvanceLeaseIfHeld ==
    /\ req[Tick].step = "lease"
    /\ IF hold[At(Tick)] = "live"
       THEN /\ lease' = [lease EXCEPT ![At(Tick)] = IF @ = "off" THEN "off" ELSE "waiting"]
            /\ starts' = [starts EXCEPT ![At(Tick)] = 0]
       ELSE UNCHANGED <<lease, starts>>
    /\ req' = [req EXCEPT ![Tick] = [Idle EXCEPT !.step = "start",
                                                 !.todo = req[Tick].todo \ {At(Tick)}]]
    /\ UNCHANGED <<hold, pool, recent, faults>>

(* The second commit.  The row is fetched anew: an operator may have       *)
(* edited the schedule since the first.                                    *)
AdvanceLease ==
    /\ req[Tick].step = "lease"
    /\ lease' = [lease EXCEPT ![At(Tick)] = IF @ = "off" THEN "off" ELSE "waiting"]
    /\ starts' = [starts EXCEPT ![At(Tick)] = 0]
    /\ req' = [req EXCEPT ![Tick] = [Idle EXCEPT !.step = "start",
                                                 !.todo = req[Tick].todo \ {At(Tick)}]]
    /\ UNCHANGED <<hold, pool, recent, faults>>

EndTick ==
    /\ req[Tick].step = "start"
    /\ req[Tick].todo = {}
    /\ req' = [req EXCEPT ![Tick] = Idle]
    /\ UNCHANGED <<lease, hold, pool, recent, starts, faults>>

TickStep == \/ BeginTick
            \/ Release(Tick)
            \/ FindDue
            \/ StartDisplay
            \/ SkipDisplay
            \/ CommitShow(Tick)
            \/ RenderFails(Tick)
            \/ AdvanceLease
            \/ EndTick

-----------------------------------------------------------------------------
(* Operator requests                                                       *)

(* POST next; with an empty queue it does what POST release does.          *)
ShowNext(g) ==
    /\ req[Op] = Idle
    /\ \E e \in Entries : IsNext(g, e) /\ LoadShow(Op, g, e, TRUE)
    /\ UNCHANGED <<lease, hold, pool, starts, faults>>

(* POST display-group takes any group with an assigned panel, POST display *)
(* any image that targets no other grid.                                   *)
ShowNow(g, e) ==
    /\ req[Op] = Idle
    /\ e \in Groups \ Unplayable \/ (e \notin Groups /\ home[e] \in {0, g})
    /\ LoadShow(Op, g, e, FALSE)
    /\ UNCHANGED <<lease, hold, pool, starts, faults>>

(* Of a grid loaded with no hold, release_queue writes no hold.            *)
BeginRelease(g) ==
    /\ req[Op] = Idle
    /\ hold[g] # "none"
    /\ req' = [req EXCEPT ![Op].step = "release", ![Op].todo = {g}]
    /\ UNCHANGED <<lease, hold, pool, recent, starts, faults>>

(* PUT grid with a schedule field stamps or clears display_next_at.        *)
EditSchedule(g) ==
    /\ req[Op] = Idle
    /\ \E s \in {"off", "waiting"} : lease' = [lease EXCEPT ![g] = s]
    /\ starts' = [starts EXCEPT ![g] = 0]
    /\ UNCHANGED <<hold, pool, recent, req, faults>>

(* Fault: positions are counted from one below the first.                  *)
ReorderOffByOne(g) ==
    /\ req[Op] = Idle
    /\ \E s \in SetToSeqs(Fresh(g)) :
          pos' = [e \in Entries |-> IF e \in Fresh(g) THEN Place(s, e) - 2 ELSE pos[e]]
    /\ UNCHANGED <<lease, hold, home, recent, req, starts, faults>>

(* PUT queue numbers the grid's entries in the order the operator sends;   *)
(* it matters to the ones that were never shown.                           *)
Reorder(g) ==
    /\ req[Op] = Idle
    /\ \E s \in SetToSeqs(Fresh(g)) :
          pos' = [e \in Entries |-> IF e \in Fresh(g) THEN Place(s, e) - 1 ELSE pos[e]]
    /\ UNCHANGED <<lease, hold, home, recent, req, starts, faults>>

(* An entry joins a grid's pool, moves to another one, or leaves it.       *)
Retarget(e) ==
    /\ req[Op] = Idle
    /\ e \in Movable
    /\ \E g \in Grids \cup {0} : home' = [home EXCEPT ![e] = g]
    /\ UNCHANGED <<lease, hold, pos, recent, req, starts, faults>>

OpStep == \/ \E g \in Grids : \/ ShowNext(g)
                              \/ BeginRelease(g)
                              \/ EditSchedule(g)
                              \/ Reorder(g)
          \/ \E g \in Grids, e \in Entries : ShowNow(g, e)
          \/ \E e \in Entries : Retarget(e)

OpEnds == Release(Op) \/ CommitShow(Op) \/ RenderFails(Op)

-----------------------------------------------------------------------------
(* Time passes between ticks.                                              *)
HoldElapses(g) ==
    /\ req[Tick] = Idle
    /\ hold[g] = "live"
    /\ g \notin Manual
    /\ hold' = [hold EXCEPT ![g] = "over"]
    /\ UNCHANGED <<lease, pool, recent, req, starts, faults>>

LeaseElapses(g) ==
    /\ req[Tick] = Idle
    /\ lease[g] = "waiting"
    /\ lease' = [lease EXCEPT ![g] = "due"]
    /\ UNCHANGED <<hold, pool, recent, req, starts, faults>>

Next == \/ TickStep
        \/ OpStep
        \/ OpEnds
        \/ \E g \in Grids : HoldElapses(g) \/ LeaseElapses(g)
        \/ \E t \in Tasks : Fail(t)
        \/ Restart

(* The loop task never ends, a request that began is served to its end,    *)
(* and time passes between ticks.  Nothing obliges an operator to act.     *)
Fairness == /\ WF_vars(TickStep)
            /\ WF_vars(OpEnds)
            /\ \A g \in Grids : SF_vars(HoldElapses(g)) /\ SF_vars(LeaseElapses(g))

Spec == Init /\ [][Next]_vars /\ Fairness

-----------------------------------------------------------------------------
(* PROPERTIES                                                              *)

(* One occurrence of a schedule starts one display, whatever an operator   *)
(* does between the display's commit and the lease's; a second one takes a *)
(* failure or a restart between the two.                                   *)
OneDisplayPerOccurrence == \A g \in Grids : starts[g] <= 1 + faults

(* A due occurrence passes only by a display or an edit of its schedule:   *)
(* an empty queue, a failed render, an error or a restart leave the lease  *)
(* to the next tick.                                                       *)
NoOccurrenceLost ==
    [][\A g \in Grids : lease[g] = "due" /\ lease'[g] # "due"
                          => starts[g] > 0 \/ EditSchedule(g)]_vars

(* A hold that has elapsed ends, whatever else the tick meets on the way.  *)
ExpiredHoldsEnd == \A g \in Grids : hold[g] = "over" ~> hold[g] # "over"

(* A due occurrence with something to show is displayed in the end, unless *)
(* its schedule is edited or content is on display already, and whatever   *)
(* fails: it waits for ever only if again and again a due grid no later in *)
(* row order has a broken entry at the head of its queue, for the failing  *)
(* render ends the tick.  Grids behind it in that order do it no harm.     *)
BrokenHead(g) == Due(g) /\ \E e \in Broken : IsNext(g, e)
DueDisplaysStart ==
    \A g \in Grids :
        <>[](Due(g) /\ Pool(g) # {}) => []<>(\E f \in Grids : f <= g /\ BrokenHead(f))

(* No entry starves: if the queue of a grid keeps being stepped and an     *)
(* entry stays in it, the entry is shown again and again, however the      *)
(* operator reorders the queue and shows content out of turn.              *)
Steps(g) == \E t \in Tasks : CommitShow(t) /\ req[t].queued /\ At(t) = g
Shows(e) == \E t \in Tasks : CommitShow(t) /\ req[t].entry = e
EveryEntryPlays ==
    \A g \in Grids, e \in Entries \ (Unplayable \cup Broken) :
        /\ <>[][UNCHANGED home]_vars
        /\ <>[](home[e] = g)
        /\ []<><<Steps(g)>>_vars
        => []<><<Shows(e)>>_vars
=============================================================================
