----------------------------- MODULE DeviceLink -----------------------------
(***************************************************************************)
(* One panel and everything between the API and its glass: the controller  *)
(* process with its command handler, its background retry and its refresh  *)
(* thread, the MQTT broker, and the API's MQTT service with the refresh    *)
(* health it keeps in the devices row.                                     *)
(*                                                                         *)
(* Both MQTT sessions are clean: what is published to a party that is not  *)
(* subscribed is gone, except the retained status.  A dead connection is   *)
(* noticed only when the loop that reads from it is back at its queue,     *)
(* after the messages that had already arrived.                            *)
(***************************************************************************)
EXTENDS Naturals, Sequences

CONSTANTS Images,    \* images the API pushes to the panel
          Blank,     \* what a clear command puts on the panel
          Torn,      \* the panel after a refresh that stalled
          MaxQueue   \* bound: messages on their way in one direction

ASSUME DeviceLinkAssumption == /\ Blank \notin Images
                               /\ Torn \notin Images \cup {Blank}
                               /\ MaxQueue \in Nat \ {0}

VARIABLES ctl,       \* the controller process: down, registering, running
          stop,      \* its shutdown event
          link,      \* its connection: down, announced, up, or lost unnoticed
          cmds,      \* commands on their way to it
          job,       \* what its handler or its retry task is doing
          orphan,    \* image still in the refresh thread of a cancelled retry
          panel,     \* what the glass shows
          painted,   \* the newest command it took up has been painted
          session,   \* the broker holds a session of the controller
          retained,  \* the status it keeps for the device
          apiLink,   \* the API's connection: down, up, or lost unnoticed
          up,        \* status messages and acks on their way to the API
          online,    \* the device is in MQTTService._online
          health     \* last_refresh_ok: none, ok, failed, or stale: failed
                     \* for longer than the dispatch backoff

process == <<ctl, stop>>
broker == <<session, retained, up>>
glass == <<orphan, panel, painted>>
api == <<apiLink, online, health>>
vars == <<ctl, stop, link, cmds, job, orphan, panel, painted,
          session, retained, apiLink, up, online, health>>

Shown == Images \cup {Blank}

(* One command or one retry at a time: a command cancels the retry, and a  *)
(* retry is scheduled by the handler's last step.                          *)
Job == [by : {"none", "command", "retry"}, img : Shown,
        step : {"wait", "waitAck", "fetch", "paint", "ackOk", "ackFail"}]

NoJob == [by |-> "none", img |-> Blank, step |-> "wait"]

TypeOK == /\ ctl \in {"down", "registering", "running"}
          /\ link \in {"down", "announced", "up", "lost"}
          /\ cmds \in Seq(Shown) /\ Len(cmds) <= MaxQueue
          /\ job \in Job
          /\ orphan \in Images \cup {Torn}
          /\ panel \in Shown \cup {Torn}
          /\ {stop, painted, session, online} \subseteq BOOLEAN
          /\ retained \in {"none", "online", "offline"}
          /\ apiLink \in {"down", "up", "lost"}
          /\ up \in Seq({"online", "offline", "ok", "failed"})
          /\ Len(up) <= MaxQueue + 1
          /\ health \in {"none", "ok", "failed", "stale"}

Init == /\ ctl = "down"
        /\ stop = FALSE
        /\ link = "down"
        /\ cmds = <<>>
        /\ job = NoJob
        /\ orphan = Torn
        /\ panel = Blank
        /\ painted = TRUE
        /\ session = FALSE
        /\ retained = "none"
        /\ apiLink = "down"
        /\ up = <<>>
        /\ online = FALSE
        /\ health = "none"

-----------------------------------------------------------------------------
(* The broker                                                              *)

ToApi(m) == IF apiLink = "up" THEN Len(up) < MaxQueue /\ up' = Append(up, m)
                              ELSE UNCHANGED up

(* A dead connection leaves what its client had already received.          *)
Received(q) == {SubSeq(q, 1, n) : n \in 0..Len(q)}

(* Fault: the will is published without the retain flag.                   *)
BrokerDropsUnretained ==
    /\ session
    /\ link \in {"lost", "down"}
    /\ session' = FALSE
    /\ up' = IF apiLink = "up" THEN Append(up, "offline") ELSE up
    /\ UNCHANGED <<process, link, cmds, job, glass, retained, api>>

(* The keepalive runs out, or the same client connects again: the will is  *)
(* published.                                                              *)
BrokerDrops ==
    /\ session
    /\ link \in {"lost", "down"}
    /\ session' = FALSE
    /\ retained' = "offline"
    /\ up' = IF apiLink = "up" THEN Append(up, "offline") ELSE up
    /\ UNCHANGED <<process, link, cmds, job, glass, api>>

-----------------------------------------------------------------------------
(* The controller process                                                  *)

Start == /\ ctl = "down"
         /\ ctl' = "registering"
         /\ UNCHANGED <<stop, link, cmds, job, glass, broker, api>>

(* The API takes a registration for the end of the previous process.       *)
Register == /\ ctl = "registering"
            /\ ctl' = "running"
            /\ health' = "none"
            /\ UNCHANGED <<stop, link, cmds, job, glass, broker, apiLink, online>>

(* SIGTERM.  While registering it ends the process.  While running it only *)
(* ends the shutdown monitor and the retry: the monitor cancels itself,    *)
(* which its task group takes for a finished task, and run() goes on       *)
(* waiting for the MQTT task.                                              *)
Shutdown == /\ ctl # "down"
            /\ IF ctl = "registering" THEN ctl' = "down" /\ UNCHANGED stop
                                      ELSE stop' = TRUE /\ UNCHANGED ctl
            /\ UNCHANGED <<link, cmds, job, glass, broker, api>>

(* A kill or a power cut, possibly in the middle of a refresh.             *)
Crash == /\ ctl # "down"
         /\ ctl' = "down"
         /\ stop' = FALSE
         /\ link' = "down"
         /\ cmds' = <<>>
         /\ job' = NoJob
         /\ orphan' = Torn
         /\ panel' \in IF job.step = "paint" \/ orphan # Torn THEN {panel, Torn} ELSE {panel}
         /\ painted' = TRUE
         /\ UNCHANGED <<broker, api>>

-----------------------------------------------------------------------------
(* Its MQTT client: the status is announced before it subscribes.          *)

Announce == /\ ctl = "running"
            /\ link = "down"
            /\ ~session
            /\ link' = "announced"
            /\ session' = TRUE
            /\ retained' = "online"
            /\ ToApi("online")
            /\ UNCHANGED <<process, cmds, job, glass, api>>

Subscribe == /\ link = "announced"
             /\ link' = "up"
             /\ UNCHANGED <<process, cmds, job, glass, broker, api>>

LoseLink == /\ link \in {"announced", "up"}
            /\ link' = "lost"
            /\ cmds' \in Received(cmds)
            /\ UNCHANGED <<process, job, glass, broker, api>>

NoticeLoss == /\ link = "lost"
              /\ cmds = <<>>
              /\ job.by # "command"
              /\ link' = "down"
              /\ UNCHANGED <<process, cmds, job, glass, broker, api>>

-----------------------------------------------------------------------------
(* Its handler and its retry                                               *)

(* A cancelled retry leaves a refresh that had started in its thread; one  *)
(* that was queued behind another refresh is dropped.                      *)
Take == /\ job.by # "command"
        /\ cmds # <<>>
        /\ cmds' = Tail(cmds)
        /\ job' = [by |-> "command", img |-> Head(cmds),
                   step |-> IF Head(cmds) = Blank THEN "paint" ELSE "fetch"]
        /\ orphan' = IF job.step = "paint" /\ orphan = Torn THEN job.img ELSE orphan
        /\ painted' = FALSE
        /\ UNCHANGED <<process, link, panel, broker, api>>

Advance(step) == job' = [job EXCEPT !.step = step]

Fetched == /\ job.step = "fetch"
           /\ Advance("paint")
           /\ UNCHANGED <<process, link, cmds, glass, broker, api>>

FetchFails == /\ job.step = "fetch"
              /\ Advance("ackFail")
              /\ UNCHANGED <<process, link, cmds, glass, broker, api>>

(* The refresh executor has a single thread.                               *)
Refreshed == /\ job.step = "paint"
             /\ orphan = Torn
             /\ panel' = job.img
             /\ painted' = TRUE
             /\ Advance("ackOk")
             /\ UNCHANGED <<process, link, cmds, orphan, broker, api>>

RefreshFails == /\ job.step = "paint"
                /\ orphan = Torn
                /\ panel' \in {panel, Torn}
                /\ Advance("ackFail")
                /\ UNCHANGED <<process, link, cmds, orphan, painted, broker, api>>

OrphanEnds == /\ orphan # Torn
              /\ panel' \in {orphan, panel, Torn}
              /\ orphan' = Torn
              /\ UNCHANGED <<process, link, cmds, job, painted, broker, api>>

(* A failed display is retried, a clear is not.                            *)
Again(step) == IF job.img = Blank THEN NoJob
               ELSE [by |-> "retry", img |-> job.img, step |-> step]

AckSent == /\ job.step \in {"ackOk", "ackFail"}
           /\ link \in {"announced", "up"}
           /\ ToApi(IF job.step = "ackOk" THEN "ok" ELSE "failed")
           /\ job' = IF job.step = "ackOk" THEN NoJob ELSE Again("wait")
           /\ UNCHANGED <<process, link, cmds, glass, session, retained, api>>

(* Fault: an unpublished success ack is retried like a failed display.     *)
AckUnsentRedisplays ==
    /\ job.step \in {"ackOk", "ackFail"}
    /\ link \in {"lost", "down"}
    /\ job' = Again("wait")
    /\ UNCHANGED <<process, link, cmds, glass, broker, api>>

(* The connection is gone, or does not come back within the 30 s wait.     *)
AckUnsent == /\ job.step \in {"ackOk", "ackFail"}
             /\ link \in {"lost", "down"}
             /\ job' = Again(IF job.step = "ackOk" THEN "waitAck" ELSE "wait")
             /\ UNCHANGED <<process, link, cmds, glass, broker, api>>

(* After the interval, or at once on shutdown.                             *)
RetryWakes == /\ job.by = "retry"
              /\ job.step \in {"wait", "waitAck"}
              /\ IF stop THEN job' = NoJob
                 ELSE Advance(IF job.step = "wait" THEN "fetch" ELSE "ackOk")
              /\ UNCHANGED <<process, link, cmds, glass, broker, api>>

-----------------------------------------------------------------------------
(* The API                                                                 *)

ApiConnects == /\ apiLink = "down"
               /\ apiLink' = "up"
               /\ up' = IF retained = "none" THEN <<>> ELSE <<retained>>
               /\ UNCHANGED <<process, link, cmds, job, glass, session, retained, online, health>>

ApiLoses == /\ apiLink = "up"
            /\ apiLink' = "lost"
            /\ up' \in Received(up)
            /\ UNCHANGED <<process, link, cmds, job, glass, session, retained, online, health>>

ApiNotices == /\ apiLink = "lost"
              /\ up = <<>>
              /\ apiLink' = "down"
              /\ online' = FALSE
              /\ UNCHANGED <<process, link, cmds, job, glass, broker, health>>

(* Fault: the outcome is stored as it came, with no flag for it.           *)
ReceiveRaw ==
    /\ up # <<>>
    /\ up' = Tail(up)
    /\ online' = (Head(up) # "offline")
    /\ health' = Head(up)
    /\ UNCHANGED <<process, link, cmds, job, glass, session, retained, apiLink>>

(* An ack is a proof of life as well.                                      *)
Receive ==
    /\ up # <<>>
    /\ up' = Tail(up)
    /\ online' = (Head(up) # "offline")
    /\ health' = IF Head(up) \in {"ok", "failed"} THEN Head(up) ELSE health
    /\ UNCHANGED <<process, link, cmds, job, glass, session, retained, apiLink>>

(* _record_ack logs a database error and goes on.  An outcome that is on    *)
(* record already makes no difference.                                     *)
AckUnrecorded ==
    /\ up # <<>>
    /\ Head(up) \in {"ok", "failed"} \ {health}
    /\ up' = Tail(up)
    /\ online' = TRUE
    /\ UNCHANGED <<process, link, cmds, job, glass, session, retained, apiLink, health>>

ErrorAges == /\ health = "failed"
             /\ health' = "stale"
             /\ UNCHANGED <<process, link, cmds, job, glass, broker, apiLink, online>>

(* send_command.  Sent to a controller that is not subscribed, a command   *)
(* is dropped and changes nothing, so that case is no step.                *)
Send(img) == /\ online
             /\ apiLink = "up"
             /\ link = "up"
             /\ Len(cmds) < MaxQueue
             /\ cmds' = Append(cmds, img)
             /\ UNCHANGED <<process, link, job, glass, broker, api>>

(* Fault: the dispatch gate never expires.                                 *)
AutoPushNoExpiry == /\ health \notin {"failed", "stale"}
                    /\ \E img \in Images : Send(img)

(* The rotation and generation tasks stay away from a recent failure.      *)
AutoPush == /\ health # "failed"
            /\ \E img \in Images : Send(img)

(* Operators' requests and the grids' displays do not.                     *)
ManualPush == \E img \in Shown : Send(img)

Broken == \/ LoseLink
          \/ ApiLoses
          \/ FetchFails
          \/ RefreshFails
          \/ AckUnrecorded
          \/ Crash
          \/ Shutdown

Works == \/ BrokerDrops
         \/ Start
         \/ Register
         \/ Announce
         \/ Subscribe
         \/ NoticeLoss
         \/ Take
         \/ Fetched
         \/ Refreshed
         \/ OrphanEnds
         \/ AckSent
         \/ AckUnsent
         \/ RetryWakes
         \/ ApiConnects
         \/ ApiNotices
         \/ Receive
         \/ ErrorAges

Next == Broken \/ Works \/ AutoPush \/ ManualPush

(* A process that ended is started again (systemd), every task of both     *)
(* programs keeps running, the network delivers, and time passes.  Nothing *)
(* obliges an operator to push or to shut down, or anything to break.      *)
Fairness == /\ WF_vars(BrokerDrops)
            /\ WF_vars(Start) /\ WF_vars(Register)
            /\ WF_vars(Announce) /\ WF_vars(Subscribe) /\ WF_vars(NoticeLoss)
            /\ WF_vars(Take)
            /\ WF_vars(Fetched \/ FetchFails)
            /\ WF_vars(Refreshed \/ RefreshFails)
            /\ WF_vars(OrphanEnds)
            /\ WF_vars(AckSent) /\ WF_vars(AckUnsent)
            /\ WF_vars(RetryWakes)
            /\ WF_vars(ApiConnects) /\ WF_vars(ApiNotices)
            /\ WF_vars(Receive \/ AckUnrecorded)
            /\ WF_vars(ErrorAges)
            /\ WF_vars(AutoPush)

Spec == Init /\ [][Next]_vars /\ Fairness

-----------------------------------------------------------------------------
(* PROPERTIES                                                              *)

(* What is_connected answers is the broker's view of the device, once      *)
(* everything on its way to a connected API has arrived: no ack that was   *)
(* late, no lost connection on either side leaves a stale online flag.     *)
OnlineIsTrue == apiLink = "up" /\ up = <<>> => (online <=> session)

(* Whatever was cancelled, retried or acked again, the newest command's    *)
(* image is painted once and nothing older is painted over it: an e-paper  *)
(* refresh is half a minute of flashing.                                   *)
NewestIsPaintedOnce == [][Refreshed \/ OrphanEnds => ~painted]_vars

(* "A controller restart or a success ack lost to an MQTT outage would     *)
(* otherwise halt the device permanently" (refresh_health.py): once        *)
(* nothing breaks any more, a failure is not on record for ever.           *)
RecoversUnattended == <>[][~Broken]_vars => <>[](health \notin {"failed", "stale"})
=============================================================================
