-------------------------- MODULE DeviceLinkProofs --------------------------
(***************************************************************************)
(* Proofs about DeviceLink, for any set of images and any queue bound.     *)
(***************************************************************************)
EXTENDS DeviceLink, SequenceTheorems, TLAPS

(* The controller's own variables have their types.  What is idle is       *)
(* NoJob, and only an image is ever retried.                               *)
ControllerTypes ==
    /\ ctl \in {"down", "registering", "running"}
    /\ stop \in BOOLEAN
    /\ cmds \in Seq(Shown) /\ Len(cmds) <= MaxQueue
    /\ job \in Job
    /\ job.by = "none" => job = NoJob
    /\ job.by = "retry" => job.img \in Images
    /\ orphan \in Images \cup {Torn}
    /\ panel \in Shown \cup {Torn}

(* So have the variables of the broker, the connections and the API.       *)
(* While the broker holds a session, the queue to a connected API has room *)
(* for the will that ends it.                                              *)
BrokerTypes ==
    /\ link \in {"down", "announced", "up", "lost"}
    /\ session \in BOOLEAN
    /\ retained \in {"none", "online", "offline"}
    /\ apiLink \in {"down", "up", "lost"}
    /\ up \in Seq({"online", "offline", "ok", "failed"})
    /\ Len(up) <= MaxQueue + 1
    /\ session /\ apiLink = "up" => Len(up) <= MaxQueue
    /\ online \in BOOLEAN
    /\ health \in {"none", "ok", "failed", "stale"}

(* What the API will believe once it has read everything on its way.       *)
Believed == IF up = <<>> THEN online ELSE up[Len(up)] # "offline"

(* The broker's session, its retained status and what a connected API is   *)
(* about to believe never disagree; a connection that works has a session, *)
(* and a disconnected API believes in no device.                           *)
OneStory ==
    /\ link \in {"announced", "up"} => session
    /\ session <=> retained = "online"
    /\ apiLink = "up" => (session <=> Believed)
    /\ apiLink = "down" => up = <<>> /\ ~online

(* Wherever a refresh can still begin or end, the newest command has not   *)
(* been painted yet.                                                       *)
Unpainted ==
    /\ painted \in BOOLEAN
    /\ \/ job.step \in {"fetch", "paint", "ackFail"}
       \/ job.by = "retry" /\ job.step = "wait"
       \/ orphan # Torn
       => ~painted

LinkInv == ControllerTypes /\ BrokerTypes /\ OneStory /\ Unpainted

-----------------------------------------------------------------------------
(* What a dead connection leaves of a queue.                               *)
LEMMA ReceivedPart ==
  ASSUME NEW S, NEW q \in Seq(S), NEW r \in Received(q)
  PROVE  r \in Seq(S) /\ Len(r) <= Len(q)
<1>1. PICK n \in 0..Len(q) : r = SubSeq(q, 1, n)
  BY DEF Received
<1>2. Len(q) \in Nat
  BY LenProperties
<1>3. r \in Seq(S) /\ Len(r) = n
  BY <1>1, <1>2, SubSeqProperties
<1>. QED
  BY <1>1, <1>2, <1>3

(* The last message of a queue that grows, and of one that is read.        *)
LEMMA LastOfQueue ==
  ASSUME NEW S, NEW q \in Seq(S)
  PROVE  /\ \A m \in S : /\ Append(q, m) \in Seq(S)
                         /\ Append(q, m) # <<>>
                         /\ Len(Append(q, m)) = Len(q) + 1
                         /\ Append(q, m)[Len(Append(q, m))] = m
         /\ q # <<>> =>
              /\ Len(q) \in Nat \ {0}
              /\ Head(q) \in S
              /\ Tail(q) \in Seq(S)
              /\ Len(Tail(q)) = Len(q) - 1
              /\ Tail(q) = <<>> => Head(q) = q[Len(q)]
              /\ Tail(q) # <<>> => Tail(q)[Len(Tail(q))] = q[Len(q)]
<1>1. ASSUME NEW m \in S
      PROVE  /\ Append(q, m) \in Seq(S)
             /\ Append(q, m) # <<>>
             /\ Len(Append(q, m)) = Len(q) + 1
             /\ Append(q, m)[Len(Append(q, m))] = m
  BY AppendProperties, EmptySeq
<1>2. ASSUME q # <<>>
      PROVE  /\ Len(q) \in Nat \ {0}
             /\ Head(q) \in S
             /\ Tail(q) \in Seq(S)
             /\ Len(Tail(q)) = Len(q) - 1
             /\ Tail(q) = <<>> => Head(q) = q[Len(q)]
             /\ Tail(q) # <<>> => Tail(q)[Len(Tail(q))] = q[Len(q)]
  <2>1. /\ Len(q) \in Nat \ {0} /\ Head(q) \in S /\ Tail(q) \in Seq(S)
        /\ Len(Tail(q)) = Len(q) - 1 /\ Head(q) = q[1]
    BY <1>2, HeadTailProperties, EmptySeq, LenProperties
  <2>2. Tail(q) = <<>> => Len(q) = 1
    BY <2>1, EmptySeq
  <2>3. Tail(q) # <<>> => Len(Tail(q)) \in 1..Len(Tail(q))
    BY <2>1, EmptySeq
  <2>4. \A i \in 1..Len(Tail(q)) : Tail(q)[i] = q[i+1]
    BY <1>2, HeadTailProperties
  <2>. QED
    BY <2>1, <2>2, <2>3, <2>4
<1>. QED
  BY <1>1, <1>2

-----------------------------------------------------------------------------
(* The controller's variables.                                             *)

LEMMA JobSteps ==
  ASSUME job \in Job
  PROVE  /\ NoJob \in Job
         /\ \A s \in {"wait", "waitAck", "fetch", "paint", "ackOk", "ackFail"} :
               /\ [job EXCEPT !.step = s] \in Job
               /\ [job EXCEPT !.step = s].by = job.by
               /\ [job EXCEPT !.step = s].img = job.img
               /\ [job EXCEPT !.step = s].step = s
  BY DEF Job, NoJob, Shown

LEMMA AgainJob ==
  ASSUME job \in Job, NEW s \in {"wait", "waitAck"}
  PROVE  /\ Again(s) \in Job
         /\ Again(s).by = "none" => Again(s) = NoJob
         /\ Again(s).by = "retry" => Again(s).img \in Images
         /\ Again(s) = NoJob \/ (Again(s).by = "retry" /\ Again(s).step = s)
  BY DEF Again, Job, NoJob, Shown

LEMMA ControllerStep ==
  ASSUME ControllerTypes, [Next]_vars
  PROVE  ControllerTypes'
<1>. USE DeviceLinkAssumption DEF DeviceLinkAssumption
<1>1. ASSUME UNCHANGED <<ctl, stop, cmds, job, orphan, panel>> PROVE ControllerTypes'
  BY <1>1 DEF ControllerTypes
<1>2. CASE Start \/ Register \/ Shutdown
  BY <1>2 DEF Start, Register, Shutdown, ControllerTypes, process, broker, glass, api
<1>3. CASE Crash
  <2>1. panel' \in Shown \cup {Torn}
    BY <1>3, Zenon DEF Crash, ControllerTypes
  <2>2. /\ NoJob \in Job /\ NoJob.by = "none"
        /\ <<>> \in Seq(Shown) /\ Len(<<>>) <= MaxQueue
    BY JobSteps, EmptySeq DEF ControllerTypes, NoJob
  <2>3. ctl' = "down" /\ stop' = FALSE /\ cmds' = <<>> /\ job' = NoJob /\ orphan' = Torn
    BY <1>3 DEF Crash
  <2>. QED
    BY <2>1, <2>2, <2>3 DEF ControllerTypes
<1>4. CASE LoseLink
  <2>1. cmds' \in Seq(Shown) /\ Len(cmds') <= Len(cmds)
    BY <1>4, ReceivedPart DEF LoseLink, ControllerTypes
  <2>2. Len(cmds) \in Nat /\ Len(cmds') \in Nat
    BY <2>1, LenProperties DEF ControllerTypes
  <2>. QED
    BY <1>4, <2>1, <2>2 DEF LoseLink, ControllerTypes, process, glass
<1>5. CASE Take
  <2>1. /\ Head(cmds) \in Shown /\ cmds' \in Seq(Shown)
        /\ Len(cmds') = Len(cmds) - 1 /\ Len(cmds) \in Nat
    BY <1>5, LastOfQueue DEF Take, ControllerTypes
  <2>2. job.step = "paint" => job.img \in Images
    BY <1>5 DEF Take, ControllerTypes, NoJob, Job
  <2>3. job' \in Job /\ job'.by = "command"
    BY <1>5, <2>1 DEF Take, Job
  <2>. QED
    BY <1>5, <2>1, <2>2, <2>3 DEF Take, ControllerTypes, process
<1>6. ASSUME NEW s \in {"wait", "waitAck", "fetch", "paint", "ackOk", "ackFail"},
             Advance(s), job.by # "none", UNCHANGED <<ctl, stop, cmds, orphan>>,
             panel' \in Shown \cup {Torn}
      PROVE  ControllerTypes'
  BY <1>6, JobSteps DEF Advance, ControllerTypes
<1>7. job.step # "wait" => job.by # "none"
  BY DEF ControllerTypes, NoJob
<1>8. CASE Fetched \/ FetchFails \/ Refreshed \/ RefreshFails
  BY <1>8, <1>6, <1>7 DEF Fetched, FetchFails, Refreshed, RefreshFails, ControllerTypes,
     process, glass, Job
<1>9. CASE OrphanEnds
  BY <1>9 DEF OrphanEnds, ControllerTypes, process, Shown
<1>10. CASE AckSent \/ AckUnsent
  <2>1. job' = NoJob \/ job' = Again("wait") \/ job' = Again("waitAck")
    BY <1>10 DEF AckSent, AckUnsent
  <2>2. /\ job' \in Job
        /\ job'.by = "none" => job' = NoJob
        /\ job'.by = "retry" => job'.img \in Images
    BY <2>1, AgainJob, JobSteps DEF ControllerTypes, NoJob
  <2>. QED
    BY <1>10, <2>2 DEF AckSent, AckUnsent, ControllerTypes, process, glass
<1>11. CASE RetryWakes
  <2>1. CASE job' = NoJob
    BY <1>11, <2>1, JobSteps DEF RetryWakes, ControllerTypes, process, glass, NoJob
  <2>2. CASE Advance("fetch") \/ Advance("ackOk")
    BY <1>11, <2>2, <1>6 DEF RetryWakes, ControllerTypes, process, glass
  <2>. QED
    BY <1>11, <2>1, <2>2 DEF RetryWakes
<1>12. ASSUME NEW img \in Shown, Send(img) PROVE ControllerTypes'
  <2>1. /\ cmds' = Append(cmds, img) /\ Len(cmds) < MaxQueue
        /\ UNCHANGED <<ctl, stop, job, orphan, panel>>
    BY <1>12 DEF Send, process, glass
  <2>2. cmds' \in Seq(Shown) /\ Len(cmds') = Len(cmds) + 1 /\ Len(cmds) \in Nat
    BY <2>1, LastOfQueue, LenProperties DEF ControllerTypes
  <2>. QED
    BY <2>1, <2>2 DEF ControllerTypes
<1>13. CASE \/ BrokerDrops \/ Announce \/ Subscribe \/ NoticeLoss \/ ApiConnects \/ ApiLoses
            \/ ApiNotices \/ Receive \/ AckUnrecorded \/ ErrorAges \/ UNCHANGED vars
  BY <1>13, <1>1 DEF BrokerDrops, Announce, Subscribe, NoticeLoss, ApiConnects, ApiLoses,
     ApiNotices, Receive, AckUnrecorded, ErrorAges, vars, process, glass
<1>. QED
  BY <1>2, <1>3, <1>4, <1>5, <1>8, <1>9, <1>10, <1>11, <1>12, <1>13
     DEF Next, Broken, Works, AutoPush, ManualPush, Shown

-----------------------------------------------------------------------------
(* The broker's variables and the API's.                                   *)

(* A message to a connected API is appended while there is room; whatever  *)
(* is appended becomes what the API will believe last.                     *)
LEMMA ToApiStep ==
  ASSUME BrokerTypes, NEW m \in {"online", "offline", "ok", "failed"}, ToApi(m),
         UNCHANGED <<apiLink, online>>
  PROVE  /\ up' \in Seq({"online", "offline", "ok", "failed"})
         /\ Len(up') <= MaxQueue + 1
         /\ apiLink = "up" => Len(up') <= MaxQueue
         /\ apiLink = "up" => (Believed' <=> m # "offline")
         /\ apiLink # "up" => up' = up
<1>. USE DeviceLinkAssumption DEF DeviceLinkAssumption
<1>1. CASE apiLink = "up"
  BY <1>1, LastOfQueue, LenProperties DEF ToApi, BrokerTypes, Believed
<1>2. CASE apiLink # "up"
  BY <1>2 DEF ToApi, BrokerTypes
<1>. QED
  BY <1>1, <1>2

LEMMA BrokerStep ==
  ASSUME ControllerTypes, BrokerTypes, OneStory, [Next]_vars
  PROVE  BrokerTypes' /\ OneStory'
<1>. USE DeviceLinkAssumption DEF DeviceLinkAssumption
<1>1. ASSUME UNCHANGED <<link, session, retained, apiLink, up, online, health>>
      PROVE  BrokerTypes' /\ OneStory'
  BY <1>1 DEF BrokerTypes, OneStory, Believed
<1>2. CASE BrokerDrops
  <2>1. CASE apiLink = "up"
    <3>1. up' = Append(up, "offline") /\ ~session' /\ retained' = "offline"
      BY <1>2, <2>1 DEF BrokerDrops
    <3>2. up' \in Seq({"online", "offline", "ok", "failed"}) /\ Len(up') <= MaxQueue + 1
      BY <1>2, <2>1, <3>1, LastOfQueue, LenProperties DEF BrokerDrops, BrokerTypes
    <3>3. ~Believed'
      BY <3>1, LastOfQueue DEF BrokerTypes, Believed
    <3>. QED
      BY <1>2, <2>1, <3>1, <3>2, <3>3 DEF BrokerDrops, BrokerTypes, OneStory, api
  <2>2. CASE apiLink # "up"
    BY <1>2, <2>2 DEF BrokerDrops, BrokerTypes, OneStory, api
  <2>. QED
    BY <2>1, <2>2
<1>3. CASE Crash \/ Subscribe \/ LoseLink \/ NoticeLoss
  BY <1>3 DEF Crash, Subscribe, LoseLink, NoticeLoss, BrokerTypes, OneStory, Believed, broker, api
<1>4. CASE Announce
  <2>. UNCHANGED <<apiLink, online, health>> /\ ToApi("online")
    BY <1>4 DEF Announce, api
  <2>. QED
    BY <1>4, ToApiStep DEF Announce, BrokerTypes, OneStory
<1>5. CASE AckSent
  <2>1. PICK m \in {"ok", "failed"} : ToApi(m)
    BY <1>5 DEF AckSent
  <2>2. session /\ UNCHANGED <<link, session, retained, apiLink, online, health>>
    BY <1>5 DEF AckSent, OneStory, api
  <2>. QED
    BY <2>1, <2>2, ToApiStep DEF BrokerTypes, OneStory
<1>6. CASE ApiConnects
  <2>1. retained = "none" => up' = <<>>
    BY <1>6 DEF ApiConnects
  <2>2. retained # "none" => up' = <<retained>> /\ Len(up') = 1 /\ up' # <<>> /\ up'[1] = retained
    BY <1>6 DEF ApiConnects
  <2>3. up' \in Seq({"online", "offline", "ok", "failed"}) /\ Len(up') <= MaxQueue
    <3>1. CASE retained = "none"
      BY <2>1, <3>1, EmptySeq
    <3>2. CASE retained # "none"
      <4>1. \A S : \A m \in S : <<m>> \in Seq(S)
        OBVIOUS
      <4>2. retained \in {"online", "offline", "ok", "failed"}
        BY <3>2 DEF BrokerTypes
      <4>3. up' \in Seq({"online", "offline", "ok", "failed"})
        BY <2>2, <3>2, <4>1, <4>2, Zenon
      <4>4. Len(up') = 1
        BY <2>2, <3>2, Zenon
      <4>. QED
        BY <4>3, <4>4
    <3>. QED
      BY <3>1, <3>2
  <2>4. Believed' <=> session
    BY <1>6, <2>1, <2>2 DEF ApiConnects, BrokerTypes, OneStory, Believed
  <2>. QED
    BY <1>6, <2>3, <2>4 DEF ApiConnects, BrokerTypes, OneStory
<1>7. CASE ApiLoses
  <2>1. up' \in Seq({"online", "offline", "ok", "failed"}) /\ Len(up') <= Len(up)
    BY <1>7, ReceivedPart DEF ApiLoses, BrokerTypes
  <2>2. Len(up) \in Nat /\ Len(up') \in Nat
    BY <2>1, LenProperties DEF BrokerTypes
  <2>. QED
    BY <1>7, <2>1, <2>2 DEF ApiLoses, BrokerTypes, OneStory
<1>8. CASE ApiNotices
  BY <1>8 DEF ApiNotices, BrokerTypes, OneStory, broker
<1>9. CASE Receive \/ AckUnrecorded
  <2>1. /\ up # <<>> /\ up' = Tail(up)
        /\ UNCHANGED <<link, session, retained, apiLink>>
        /\ health' \in {"none", "ok", "failed", "stale"}
        /\ online' = (Head(up) # "offline")
    BY <1>9 DEF Receive, AckUnrecorded, BrokerTypes
  <2>2. /\ up' \in Seq({"online", "offline", "ok", "failed"})
        /\ Len(up) \in Nat /\ Len(up') = Len(up) - 1
    BY <2>1, LastOfQueue DEF BrokerTypes
  <2>3. Believed' <=> Believed
    BY <2>1, LastOfQueue DEF BrokerTypes, Believed
  <2>. QED
    BY <2>1, <2>2, <2>3 DEF BrokerTypes, OneStory
<1>10. CASE Register \/ ErrorAges
  BY <1>10 DEF Register, ErrorAges, BrokerTypes, OneStory, Believed, broker
<1>11. CASE \/ Start \/ Shutdown \/ Take \/ Fetched \/ FetchFails \/ Refreshed \/ RefreshFails
            \/ OrphanEnds \/ AckUnsent \/ RetryWakes \/ (\E img \in Shown : Send(img))
            \/ UNCHANGED vars
  BY <1>11, <1>1 DEF Start, Shutdown, Take, Fetched, FetchFails, Refreshed, RefreshFails,
     OrphanEnds, AckUnsent, RetryWakes, Send, vars, broker, api
<1>. QED
  BY <1>2, <1>3, <1>4, <1>5, <1>6, <1>7, <1>8, <1>9, <1>10, <1>11
     DEF Next, Broken, Works, AutoPush, ManualPush, Shown

-----------------------------------------------------------------------------
(* A refresh begins for a command not painted yet, or for the retry of one *)
(* that failed; a later command makes both, and the refresh thread a       *)
(* cancelled retry leaves behind, older than the newest.                   *)
LEMMA UnpaintedStep ==
  ASSUME ControllerTypes, Unpainted, [Next]_vars
  PROVE  Unpainted'
<1>1. ASSUME UNCHANGED <<job, orphan, painted>> PROVE Unpainted'
  BY <1>1 DEF Unpainted
<1>2. CASE Crash
  BY <1>2 DEF Crash, Unpainted, NoJob
<1>3. CASE Take
  BY <1>3 DEF Take, Unpainted
<1>4. CASE Fetched \/ FetchFails \/ RefreshFails
  BY <1>4, JobSteps DEF Fetched, FetchFails, RefreshFails, Advance, Unpainted, ControllerTypes, glass
<1>5. CASE Refreshed
  BY <1>5, JobSteps DEF Refreshed, Advance, Unpainted, ControllerTypes
<1>6. CASE OrphanEnds
  BY <1>6 DEF OrphanEnds, Unpainted
<1>7. CASE AckSent \/ AckUnsent
  <2>1. CASE job.step = "ackOk"
    BY <1>7, <2>1, AgainJob DEF AckSent, AckUnsent, Unpainted, ControllerTypes, glass, NoJob
  <2>2. CASE job.step = "ackFail"
    BY <1>7, <2>2, AgainJob DEF AckSent, AckUnsent, Unpainted, ControllerTypes, glass, NoJob
  <2>. QED
    BY <1>7, <2>1, <2>2 DEF AckSent, AckUnsent
<1>8. CASE RetryWakes
  <2>1. UNCHANGED <<orphan, painted>>
    BY <1>8 DEF RetryWakes, glass
  <2>2. CASE job' = NoJob
    BY <2>1, <2>2 DEF Unpainted, NoJob
  <2>3. CASE job.step = "wait" /\ Advance("fetch")
    BY <1>8, <2>1, <2>3, JobSteps DEF RetryWakes, Advance, Unpainted, ControllerTypes
  <2>4. CASE job.step = "waitAck" /\ Advance("ackOk")
    BY <1>8, <2>1, <2>4, JobSteps DEF RetryWakes, Advance, Unpainted, ControllerTypes
  <2>. QED
    BY <1>8, <2>2, <2>3, <2>4 DEF RetryWakes
<1>9. CASE \/ BrokerDrops \/ Start \/ Register \/ Shutdown \/ Announce \/ Subscribe \/ LoseLink
           \/ NoticeLoss \/ ApiConnects \/ ApiLoses \/ ApiNotices \/ Receive \/ AckUnrecorded
           \/ ErrorAges \/ (\E img \in Shown : Send(img)) \/ UNCHANGED vars
  BY <1>9, <1>1 DEF BrokerDrops, Start, Register, Shutdown, Announce, Subscribe, LoseLink, NoticeLoss,
     ApiConnects, ApiLoses, ApiNotices, Receive, AckUnrecorded, ErrorAges, Send, vars, glass
<1>. QED
  BY <1>2, <1>3, <1>4, <1>5, <1>6, <1>7, <1>8, <1>9
     DEF Next, Broken, Works, AutoPush, ManualPush, Shown

-----------------------------------------------------------------------------
(* The inductive invariant.                                                *)
LEMMA LinkInvariant == Spec => []LinkInv
<1>1. Init => LinkInv
  <2>. SUFFICES ASSUME Init PROVE LinkInv
    OBVIOUS
  <2>1. /\ \A S : <<>> \in Seq(S)
        /\ Len(<<>>) = 0 /\ 0 <= MaxQueue /\ 0 <= MaxQueue + 1
    BY DeviceLinkAssumption, EmptySeq DEF DeviceLinkAssumption
  <2>2. NoJob \in Job /\ NoJob.by = "none" /\ NoJob.step = "wait"
    BY DEF NoJob, Job, Shown
  <2>3. ControllerTypes
    BY <2>1, <2>2 DEF Init, ControllerTypes, Shown
  <2>4. BrokerTypes
    BY <2>1 DEF Init, BrokerTypes
  <2>5. OneStory /\ Unpainted
    BY <2>2 DEF Init, OneStory, Unpainted
  <2>. QED
    BY <2>3, <2>4, <2>5 DEF LinkInv
<1>2. LinkInv /\ [Next]_vars => LinkInv'
  BY ControllerStep, BrokerStep, UnpaintedStep DEF LinkInv
<1>. QED
  BY <1>1, <1>2, PTL DEF Spec

(* The two programs', the broker's and the queues' variables keep their    *)
(* types in every behaviour.                                               *)
THEOREM TypeCorrect == Spec => []TypeOK
<1>1. LinkInv => TypeOK
  BY DEF LinkInv, ControllerTypes, BrokerTypes, Unpainted, TypeOK
<1>. QED
  BY <1>1, LinkInvariant, PTL

(* is_connected answers what the broker knows of the device, whichever     *)
(* connection was lost or came back first and however late an ack or a     *)
(* will arrived.                                                           *)
THEOREM OnlineIsTrueAlways == Spec => []OnlineIsTrue
<1>1. LinkInv => OnlineIsTrue
  BY DEF LinkInv, BrokerTypes, OneStory, Believed, OnlineIsTrue
<1>. QED
  BY <1>1, LinkInvariant, PTL

(* No refresh of the panel ends after the newest command has been painted: *)
(* neither a second one of its image nor one of an older image.            *)
THEOREM PaintedOnce == Spec => NewestIsPaintedOnce
<1>1. LinkInv => (Refreshed \/ OrphanEnds => ~painted)
  BY DEF LinkInv, Unpainted, Refreshed, OrphanEnds
<1>2. LinkInv /\ [Next]_vars => [Refreshed \/ OrphanEnds => ~painted]_vars
  BY <1>1
<1>. QED
  BY <1>2, LinkInvariant, PTL DEF Spec, NewestIsPaintedOnce
=============================================================================
