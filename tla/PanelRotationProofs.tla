------------------------ MODULE PanelRotationProofs ------------------------
(* Proofs about PanelRotation, for any panels, layout, pool and failures.    *)
EXTENDS PanelRotation, TLAPS

(* Who is not on the grid is never claimed for it.                           *)
GridKeepsToItself == claimed \subseteq Layout

(* What a panel off the grid is sent is an image of the pool that the        *)
(* rotation picked, or the one that a request for this panel asked for.      *)
SentOffGrid ==
    \A d \in Devices \ Layout :
        sent'[d] # sent[d] => \/ push[Rotation].dev = d /\ Publish(Rotation) /\ sent'[d] \in Pool
                              \/ push[Op].dev = d /\ Publish(Op)

(* The loop's task is in the queue tick or in the rotation, which serves no  *)
(* panel twice in a round; the operator's is in one request.                 *)
OneAtATime ==
    /\ list # {} \/ push[Rotation] # NoPush => ~show.tick
    /\ push[Rotation].dev \notin list
    /\ push[Op] # NoPush => show = NoShow \/ show.tick

(* What the rotation pushes is of the solo pool.                             *)
PushesAreSolo == push[Rotation] # NoPush => push[Rotation].img \in Pool

RotationInv == TypeOK /\ GridKeepsToItself /\ OneAtATime /\ PushesAreSolo

USE PanelRotationAssumption

LEMMA Constants ==
  /\ Layout \subseteq Devices /\ Spread \notin Pool /\ Pool # {} /\ Rotation # Op /\ Nobody \notin Devices
  /\ Rotation \in Tasks /\ Op \in Tasks /\ Spread \in Images /\ Pool \subseteq Images
  /\ NoPush \in Push /\ NoPush.dev = Nobody /\ NoPush.out = FALSE
  /\ NoShow \in Show /\ NoShow.tick = FALSE /\ NoShow.todo = {}
  BY DEF PanelRotationAssumption, Tasks, Images, NoPush, Push, NoShow, Show

LEMMA RotationInitInv == Init => RotationInv
<1>. SUFFICES ASSUME Init PROVE RotationInv
  OBVIOUS
<1>1. PICK i \in Pool : cur = [d \in Devices |-> i] /\ sent = cur
  BY DEF Init
<1>2. cur \in [Devices -> Images] /\ sent \in [Devices -> Images]
  BY <1>1, Constants
<1>3. TypeOK
  BY <1>2, Constants DEF Init, TypeOK
<1>4. GridKeepsToItself
  BY <1>1 DEF Init, GridKeepsToItself
<1>5. OneAtATime /\ PushesAreSolo
  BY Constants DEF Init, OneAtATime, PushesAreSolo
<1>. QED
  BY <1>3, <1>4, <1>5 DEF RotationInv

(* A step that only one task's push takes.                                   *)
LEMMA PushStep ==
  ASSUME RotationInv, NEW t \in Tasks, NEW p \in Push, push' = [push EXCEPT ![t] = p],
         t = Rotation /\ p # NoPush => p.img \in Pool
  PROVE  /\ push' \in [Tasks -> Push] /\ PushesAreSolo' /\ push'[t] = p
         /\ \A u \in Tasks : u # t => push'[u] = push[u]
<1>1. push \in [Tasks -> Push]
  BY DEF RotationInv, TypeOK
<1>2. push' \in [Tasks -> Push] /\ push'[t] = p /\ \A u \in Tasks : u # t => push'[u] = push[u]
  BY <1>1
<1>3. push[Rotation] # NoPush => push[Rotation].img \in Pool
  BY DEF RotationInv, PushesAreSolo
<1>4. PushesAreSolo'
  BY <1>2, <1>3, Constants DEF PushesAreSolo
<1>. QED
  BY <1>2, <1>4

(* The beginning of a push: the panel and its record are loaded.             *)
LEMMA BeginStep ==
  ASSUME RotationInv, NEW t \in Tasks, NEW d \in Devices, NEW i \in Images, Begin(t, d, i),
         t = Rotation => i \in Pool
  PROVE  /\ push' \in [Tasks -> Push] /\ PushesAreSolo' /\ push'[t].dev = d /\ push[t] = NoPush
         /\ \A u \in Tasks : u # t => push'[u] = push[u]
<1>. DEFINE p == [dev |-> d, was |-> cur[d], img |-> i, out |-> FALSE]
<1>1. cur[d] \in Images
  BY DEF RotationInv, TypeOK
<1>2. p \in Push /\ p.img = i /\ p.dev = d
  BY <1>1, Constants DEF Push
<1>3. push' = [push EXCEPT ![t] = p] /\ push[t] = NoPush
  BY DEF Begin
<1>. HIDE DEF p
<1>. QED
  BY <1>2, <1>3, PushStep

LEMMA PushEndsStep ==
  ASSUME RotationInv, NEW t \in Tasks, PushEnds(t)
  PROVE  RotationInv'
<1>t. /\ push[t] \in Push /\ cur \in [Devices -> Images] /\ sent \in [Devices -> Images]
      /\ push \in [Tasks -> Push] /\ online \subseteq Devices /\ due \subseteq Devices
      /\ claimed \subseteq Devices /\ pinned \subseteq Devices /\ failed \subseteq Devices /\ list \subseteq Devices
      /\ show \in Show /\ ticked \in BOOLEAN
  BY DEF RotationInv, TypeOK
<1>g. /\ claimed \subseteq Layout
      /\ push[Rotation] # NoPush => push[Rotation].img \in Pool
  BY DEF RotationInv, GridKeepsToItself, PushesAreSolo
<1>o. /\ list # {} \/ push[Rotation] # NoPush => ~show.tick
      /\ push[Rotation].dev \notin list
      /\ push[Op] # NoPush => show = NoShow \/ show.tick
  BY DEF RotationInv, OneAtATime
<1>1. CASE Publish(t)
  <2>. DEFINE p == [push[t] EXCEPT !.out = TRUE]
  <2>1. /\ push[t].dev \in Devices /\ sent' = [sent EXCEPT ![push[t].dev] = push[t].img]
        /\ UNCHANGED <<claimed, pinned, failed, online, due, cur, list, show, ticked>>
    BY <1>1, <1>t DEF Publish, gates
  <2>2. push[t] # NoPush
    BY <2>1, Constants
  <2>3. p \in Push /\ p.img = push[t].img /\ p.dev = push[t].dev
    BY <1>t DEF Push
  <2>4. push' = [push EXCEPT ![t] = p]
    BY <1>1, <1>t DEF Publish
  <2>. HIDE DEF p
  <2>5. /\ push' \in [Tasks -> Push] /\ PushesAreSolo' /\ push'[t] = p
        /\ \A u \in Tasks : u # t => push'[u] = push[u]
    BY <2>2, <2>3, <2>4, <1>g, PushStep
  <2>6. push[t].img \in Images
    BY <1>t DEF Push
  <2>7. sent' \in [Devices -> Images]
    BY <2>1, <2>6, <1>t
  <2>8. TypeOK'
    BY <2>1, <2>5, <2>7, <1>t DEF TypeOK
  <2>9. GridKeepsToItself'
    BY <2>1, <2>7, <1>g DEF GridKeepsToItself
  <2>10. OneAtATime'
    <3>1. push'[Rotation].dev = push[Rotation].dev
      BY <2>3, <2>5, Constants
    <3>2. push'[Rotation] # NoPush => push[Rotation] # NoPush
      BY <2>2, <2>5, Constants
    <3>3. push'[Op] # NoPush => push[Op] # NoPush
      BY <2>2, <2>5, Constants
    <3>. QED
      BY <2>1, <3>1, <3>2, <3>3, <1>o DEF OneAtATime
  <2>. QED
    BY <2>5, <2>8, <2>9, <2>10 DEF RotationInv
<1>2. CASE Commit(t) \/ PushFails(t)
  <2>1. push' = [push EXCEPT ![t] = NoPush]
    BY <1>2 DEF Commit, PushFails
  <2>2. /\ push' \in [Tasks -> Push] /\ PushesAreSolo' /\ push'[t] = NoPush
        /\ \A u \in Tasks : u # t => push'[u] = push[u]
    BY <2>1, Constants, PushStep
  <2>3. UNCHANGED <<claimed, pinned, failed, online, sent, list, show, ticked>>
        /\ due' \subseteq due
    BY <1>2 DEF Commit, PushFails, gates
  <2>4. cur' \in [Devices -> Images]
    BY <1>2, <1>t DEF Commit, PushFails, gates, Push
  <2>5. TypeOK'
    BY <2>2, <2>3, <2>4, <1>t DEF TypeOK
  <2>6. GridKeepsToItself'
    BY <2>3, <2>4, <1>g DEF GridKeepsToItself
  <2>7. OneAtATime'
    <3>1. push'[Rotation] = push[Rotation] \/ push'[Rotation] = NoPush
      BY <2>2, Constants
    <3>2. push'[Op] = push[Op] \/ push'[Op] = NoPush
      BY <2>2, Constants
    <3>3. Nobody \notin list
      BY <1>t, Constants
    <3>. QED
      BY <2>3, <3>1, <3>2, <3>3, <1>o, Constants DEF OneAtATime
  <2>. QED
    BY <2>2, <2>5, <2>6, <2>7 DEF RotationInv
<1>. QED
  BY <1>1, <1>2 DEF PushEnds

LEMMA RotationNextInv == RotationInv /\ [Next]_vars => RotationInv'
<1>. SUFFICES ASSUME RotationInv, [Next]_vars PROVE RotationInv'
  OBVIOUS
<1>t. /\ cur \in [Devices -> Images] /\ sent \in [Devices -> Images]
      /\ push \in [Tasks -> Push] /\ online \subseteq Devices /\ due \subseteq Devices
      /\ claimed \subseteq Devices /\ pinned \subseteq Devices /\ failed \subseteq Devices /\ list \subseteq Devices
      /\ show \in Show /\ ticked \in BOOLEAN
  BY DEF RotationInv, TypeOK
<1>s. /\ show.todo \subseteq Layout /\ show.all \subseteq Layout /\ show.held \subseteq Layout
      /\ show.shows \subseteq Layout /\ show.tick \in BOOLEAN
  BY <1>t DEF Show
<1>g. claimed \subseteq Layout
  BY DEF RotationInv, GridKeepsToItself
<1>o. /\ list # {} \/ push[Rotation] # NoPush => ~show.tick
      /\ push[Rotation].dev \notin list
      /\ push[Op] # NoPush => show = NoShow \/ show.tick
  BY DEF RotationInv, OneAtATime
<1>p. UNCHANGED push => PushesAreSolo'
  BY DEF RotationInv, PushesAreSolo
<1>1. CASE ListDue \/ SkipQuiet
  <2>1. /\ LoopIdle /\ list' \subseteq Devices /\ ticked' = FALSE
        /\ UNCHANGED <<claimed, pinned, failed, online, due, cur, sent, push, show>>
    BY <1>1, <1>t DEF ListDue, SkipQuiet, gates, Eligible
  <2>2. TypeOK'
    BY <2>1, <1>t DEF TypeOK
  <2>3. GridKeepsToItself' /\ PushesAreSolo'
    BY <2>1, <1>g, <1>p DEF GridKeepsToItself
  <2>4. OneAtATime'
    <3>1. push[Rotation] = NoPush /\ ~show.tick /\ Nobody \notin list'
      BY <2>1, Constants DEF LoopIdle
    <3>. QED
      BY <2>1, <3>1, <1>o, Constants DEF OneAtATime
  <2>. QED
    BY <2>2, <2>3, <2>4 DEF RotationInv
<1>2. CASE Rotate
  <2>1. PICK d \in list, i \in Pool : Begin(Rotation, d, i) /\ list' = list \ {d}
    BY <1>2 DEF Rotate
  <2>2. UNCHANGED <<claimed, pinned, failed, online, due, cur, sent, show, ticked>>
    BY <1>2 DEF Rotate, gates
  <2>3. d \in Devices /\ i \in Images /\ Rotation \in Tasks /\ Op \in Tasks /\ Op # Rotation
    BY <1>t, Constants
  <2>4. /\ push' \in [Tasks -> Push] /\ PushesAreSolo' /\ push'[Rotation].dev = d
        /\ push'[Op] = push[Op]
    BY <2>1, <2>3, BeginStep
  <2>5. TypeOK'
    BY <2>1, <2>2, <2>4, <1>t DEF TypeOK
  <2>6. GridKeepsToItself'
    BY <2>2, <1>g DEF GridKeepsToItself
  <2>7. OneAtATime'
    BY <2>1, <2>2, <2>4, <1>o DEF OneAtATime
  <2>. QED
    BY <2>4, <2>5, <2>6, <2>7 DEF RotationInv
<1>3. ASSUME NEW d \in Devices, SendImage(d) PROVE RotationInv'
  <2>1. PICK i \in Images : Begin(Op, d, i)
    BY <1>3 DEF SendImage
  <2>2. UNCHANGED <<claimed, pinned, failed, online, due, cur, sent, list, show, ticked>> /\ OpIdle
    BY <1>3 DEF SendImage, gates
  <2>3. Rotation \in Tasks /\ Op \in Tasks /\ Op # Rotation
    BY Constants
  <2>4. push' \in [Tasks -> Push] /\ PushesAreSolo' /\ push'[Rotation] = push[Rotation]
    BY <2>1, <2>3, BeginStep
  <2>5. TypeOK'
    BY <2>2, <2>4, <1>t DEF TypeOK
  <2>6. GridKeepsToItself'
    BY <2>2, <1>g DEF GridKeepsToItself
  <2>7. OneAtATime'
    BY <2>2, <2>4, <1>o DEF OneAtATime, OpIdle
  <2>. QED
    BY <2>4, <2>5, <2>6, <2>7 DEF RotationInv
<1>4. ASSUME NEW tick \in BOOLEAN, ShowGroup(tick) PROVE RotationInv'
  <2>1. PICK S \in SUBSET Layout : Load(S, tick)
    BY <1>4 DEF ShowGroup
  <2>2. /\ InTurn(tick)
        /\ UNCHANGED <<claimed, pinned, failed, online, due, cur, sent, list, push>>
    BY <1>4 DEF ShowGroup, gates
  <2>3. show' \in Show /\ show'.tick = tick /\ ticked' \in BOOLEAN
    BY <2>1, <1>t DEF Load, Show
  <2>4. TypeOK'
    BY <2>2, <2>3, <1>t DEF TypeOK
  <2>5. GridKeepsToItself' /\ PushesAreSolo'
    BY <2>2, <1>g, <1>p DEF GridKeepsToItself
  <2>6. OneAtATime'
    <3>1. CASE tick
      BY <2>2, <2>3, <3>1, <1>o DEF OneAtATime, InTurn, LoopIdle
    <3>2. CASE ~tick
      BY <2>2, <2>3, <3>2, <1>o DEF OneAtATime, InTurn, OpIdle
    <3>. QED
      BY <3>1, <3>2
  <2>. QED
    BY <2>4, <2>5, <2>6 DEF RotationInv
<1>5. CASE Release
  <2>1. /\ claimed' = {} /\ due' = due \cup claimed
        /\ UNCHANGED <<pinned, failed, online, cur, sent, list, push, show, ticked>>
    BY <1>5 DEF Release
  <2>2. TypeOK'
    BY <2>1, <1>t DEF TypeOK
  <2>3. GridKeepsToItself' /\ PushesAreSolo' /\ OneAtATime'
    BY <2>1, <1>g, <1>p, <1>o DEF GridKeepsToItself, OneAtATime
  <2>. QED
    BY <2>2, <2>3 DEF RotationInv
<1>6. ASSUME NEW d \in Layout, AlreadyShowing(d) \/ PushSpread(d) PROVE RotationInv'
  <2>1. /\ show' = [show EXCEPT !.todo = @ \ {d}] /\ d \in show.todo
        /\ UNCHANGED <<claimed, pinned, failed, online, due, cur, list, push, ticked>>
    BY <1>6 DEF AlreadyShowing, PushSpread, gates
  <2>2. sent' = sent \/ sent' = [sent EXCEPT ![d] = Spread]
    BY <1>6 DEF AlreadyShowing, PushSpread
  <2>3. show' \in Show /\ show'.tick = show.tick
    BY <2>1, <1>t DEF Show
  <2>4. sent' \in [Devices -> Images]
    BY <2>2, <1>t, Constants
  <2>5. TypeOK'
    BY <2>1, <2>3, <2>4, <1>t DEF TypeOK
  <2>6. GridKeepsToItself' /\ PushesAreSolo'
    BY <2>1, <2>4, <1>g, <1>p DEF GridKeepsToItself
  <2>7. OneAtATime'
    <3>1. show # NoShow
      BY <2>1, Constants
    <3>. QED
      BY <2>1, <2>3, <3>1, <1>o DEF OneAtATime
  <2>. QED
    BY <2>5, <2>6, <2>7 DEF RotationInv
<1>7. CASE CommitGroup \/ GroupFails
  <2>1. /\ show' = NoShow
        /\ UNCHANGED <<pinned, failed, online, due, sent, list, push, ticked>>
    BY <1>7 DEF CommitGroup, GroupFails, gates
  <2>2. claimed' \subseteq Layout
    BY <1>7, <1>g, <1>s DEF CommitGroup, GroupFails, gates
  <2>3. cur' \in [Devices -> Images]
    BY <1>7, <1>t, <1>s, Constants DEF CommitGroup, GroupFails
  <2>4. TypeOK'
    BY <2>1, <2>2, <2>3, <1>t, Constants DEF TypeOK
  <2>5. GridKeepsToItself' /\ PushesAreSolo' /\ OneAtATime'
    BY <2>1, <2>2, <2>3, <1>g, <1>p, <1>o, Constants DEF GridKeepsToItself, OneAtATime
  <2>. QED
    BY <2>4, <2>5 DEF RotationInv
<1>8. ASSUME NEW d \in Devices, ComesOrGoes(d) \/ PinTurns(d) \/ HealthTurns(d) \/ Elapses(d) PROVE RotationInv'
  <2>1. /\ UNCHANGED <<claimed, cur, sent, list, push, show, ticked>>
        /\ online' \subseteq Devices /\ pinned' \subseteq Devices /\ failed' \subseteq Devices
        /\ due' \subseteq Devices
    BY <1>8, <1>t DEF ComesOrGoes, PinTurns, HealthTurns, Elapses, Toggle
  <2>2. TypeOK'
    BY <2>1, <1>t DEF TypeOK
  <2>3. GridKeepsToItself' /\ PushesAreSolo' /\ OneAtATime'
    BY <2>1, <1>g, <1>p, <1>o DEF GridKeepsToItself, OneAtATime
  <2>. QED
    BY <2>2, <2>3 DEF RotationInv
<1>9. CASE UNCHANGED vars
  <2>1. UNCHANGED <<claimed, pinned, failed, online, due, cur, sent, list, push, show, ticked>>
    BY <1>9 DEF vars, gates
  <2>2. TypeOK'
    BY <2>1, <1>t DEF TypeOK
  <2>3. GridKeepsToItself' /\ PushesAreSolo' /\ OneAtATime'
    BY <2>1, <1>g, <1>p, <1>o DEF GridKeepsToItself, OneAtATime
  <2>. QED
    BY <2>2, <2>3 DEF RotationInv
<1>10. CASE OpBegins
  BY <1>3, <1>4, <1>5, <1>10 DEF OpBegins
<1>11. CASE ShowEnds
  BY <1>6, <1>7, <1>11 DEF ShowEnds
<1>. QED
  BY <1>1, <1>2, <1>8, <1>9, <1>10, <1>11, PushEndsStep DEF Next

LEMMA RotationInvHolds == Spec => []RotationInv
  BY RotationInitInv, RotationNextInv, PTL DEF Spec

(* Every reachable state is well typed: no row or push is about a panel that *)
(* is not there, and a group display targets panels of the grid only.        *)
THEOREM TypeCorrect == Spec => []TypeOK
<1>1. RotationInv => TypeOK
  BY DEF RotationInv
<1>. QED
  BY <1>1, RotationInvHolds, PTL

LEMMA PublishesTo ==
  ASSUME RotationInv, NEW t \in Tasks, Publish(t), NEW d \in Devices, sent'[d] # sent[d]
  PROVE  push[t].dev = d /\ sent'[d] = push[t].img
<1>1. sent \in [Devices -> Images] /\ sent' = [sent EXCEPT ![push[t].dev] = push[t].img]
  BY DEF RotationInv, TypeOK, Publish
<1>. QED
  BY <1>1

LEMMA SentOffGridStep == RotationInv /\ [Next]_vars => SentOffGrid
<1>. SUFFICES ASSUME RotationInv, [Next]_vars, NEW d \in Devices \ Layout, sent'[d] # sent[d]
              PROVE  \/ push[Rotation].dev = d /\ Publish(Rotation) /\ sent'[d] \in Pool
                     \/ push[Op].dev = d /\ Publish(Op)
  BY DEF SentOffGrid
<1>1. ~UNCHANGED sent
  OBVIOUS
<1>2. CASE \E t \in Tasks : PushEnds(t)
  <2>1. PICK t \in Tasks : PushEnds(t)
    BY <1>2
  <2>2. Publish(t)
    BY <2>1, <1>1 DEF PushEnds, Commit, PushFails
  <2>3. push[t].dev = d /\ sent'[d] = push[t].img
    BY <2>2, PublishesTo
  <2>4. t = Rotation => push[Rotation].img \in Pool
    <3>1. push[t] # NoPush
      BY <2>3, Constants
    <3>. QED
      BY <3>1 DEF RotationInv, PushesAreSolo
  <2>. QED
    BY <2>2, <2>3, <2>4 DEF Tasks
<1>3. CASE ShowEnds
  <2>1. PICK e \in Layout : sent' = [sent EXCEPT ![e] = Spread]
    BY <1>1, <1>3 DEF ShowEnds, AlreadyShowing, PushSpread, CommitGroup, GroupFails
  <2>2. sent \in [Devices -> Images] /\ e # d
    BY DEF RotationInv, TypeOK
  <2>. QED
    BY <2>1, <2>2
<1>. QED
  BY <1>1, <1>2, <1>3 DEF Next, vars, gates, ListDue, SkipQuiet, Rotate, OpBegins, SendImage, ShowGroup, Release,
     ComesOrGoes, PinTurns, HealthTurns, Elapses

(* Whatever displays, pushes and failures overlap: the grid claims panels     *)
(* placed on it and no other, and nothing is sent to a panel off the grid but *)
(* the rotation's own picks, of the solo pool, and what was asked for by name *)
(* of that panel.                                                             *)
THEOREM GridStaysOnItsPanels == Spec => []GridKeepsToItself /\ [][SentOffGrid]_vars
<1>1. RotationInv => GridKeepsToItself
  BY DEF RotationInv
<1>. QED
  BY <1>1, SentOffGridStep, RotationInvHolds, PTL DEF Spec

(* The loop's task is never in the queue tick and the rotation at once, and a *)
(* round of the rotation serves no panel twice.                               *)
THEOREM LoopDoesOneThing == Spec => []OneAtATime
<1>1. RotationInv => OneAtATime
  BY DEF RotationInv
<1>. QED
  BY <1>1, RotationInvHolds, PTL
=============================================================================
