----------------------------- MODULE PanelDriver -----------------------------
(* One panel and the code that drives it: the calls of show_image, the executor *)
(* thread that runs them, the driver's commands with the wait after the refresh *)
(* command, the thread that watches the BUSY line, and the attempts of one call. *)
(*                                                                              *)
(* The panel (not code): powered off its line rests LOW, it stays LOW from      *)
(* power-on until a waveform has run and is HIGH then.  A waveform may take any *)
(* time or never end.  Powering off a panel in the middle of one may latch it:  *)
(* HIGH, and deaf to everything until its power is taken away.                  *)
EXTENDS Naturals, Sequences

CONSTANTS Images,      \* what a call may ask for
          Fitting,     \* those with the size of the panel
          MaxAttempts,
          MaxShows     \* calls the executor holds

ASSUME DriverAssumption ==
  /\ Fitting \subseteq Images /\ MaxAttempts \in Nat \ {0} /\ MaxShows \in Nat

VARIABLES
  lock,      \* the image of the call that holds the lock, or Free
  shows,     \* the executor's queue; the first is being worked on unless at = "idle"
  at,        \* where the executor thread is
  attempt,
  buffer,    \* the image set on the driver object
  asserted, late,   \* the wait: saw LOW; warned of a timeout
  handle, seen, low,  \* the watcher: the line can be read; it was read; LOW was read
  panel, painting, glass,  \* the panel, the image of its waveform, what is visible
  told       \* what the caller of the last call knows of it

shower == <<lock, shows, told>>
signals == <<asserted, late, seen, low>>
driver == <<at, attempt, buffer, handle>>
hardware == <<panel, painting, glass>>
panelVars == <<shower, signals, driver, hardware>>

Free == "free"
Mixed == "mixed"   \* neither the old image nor the new one
Running == {"setup", "power", "refresh", "wait", "off", "judge"}
Line == IF panel \in {"done", "latched"} THEN "HIGH" ELSE "LOW"

DriverInit ==
  /\ lock = Free /\ shows = <<>> /\ told = [image |-> Mixed, ok |-> FALSE]
  /\ at = "idle" /\ attempt = 0 /\ buffer = Mixed /\ handle = FALSE
  /\ asserted = FALSE /\ late = FALSE /\ seen = FALSE /\ low = FALSE
  /\ panel = "off" /\ painting = Mixed /\ glass = Mixed

-----------------------------------------------------------------------------
(* The calls. *)

(* show_image (clear is a call with a white image) under the lock. *)
ShowImage(i) ==
  /\ lock = Free /\ Len(shows) < MaxShows
  /\ lock' = i /\ shows' = Append(shows, i) /\ told' = [image |-> i, ok |-> FALSE]
  /\ UNCHANGED <<signals, driver, hardware>>

(* The caller is cancelled and the lock is free again.  The executor drops a    *)
(* job it has not begun and finishes one it has. *)
CancelShow ==
  /\ lock # Free /\ lock' = Free
  /\ shows' = IF at # "idle" /\ Len(shows) = 1 THEN shows ELSE SubSeq(shows, 1, Len(shows) - 1)
  /\ UNCHANGED <<told, signals, driver, hardware>>

(* The job in hand ends; its caller, if it still waits, is told. *)
End(ok) ==
  /\ at' = "idle" /\ shows' = Tail(shows)
  /\ IF Len(shows) = 1 /\ lock # Free
     THEN told' = [image |-> lock, ok |-> ok] /\ lock' = Free
     ELSE UNCHANGED <<told, lock>>

(* A picture of the wrong size is refused before the driver is touched, any     *)
(* other is set on the driver object, where it stays for all attempts. *)
BeginShow ==
  /\ at = "idle" /\ shows # <<>>
  /\ IF Head(shows) \in Fitting
     THEN /\ at' = "setup" /\ attempt' = 1 /\ buffer' = Head(shows)
          /\ late' = FALSE /\ seen' = FALSE /\ low' = FALSE /\ asserted' = FALSE
          /\ UNCHANGED shower
     ELSE End(FALSE) /\ UNCHANGED <<attempt, buffer, signals>>
  /\ UNCHANGED <<handle, hardware>>

-----------------------------------------------------------------------------
(* One attempt: show() with the patched update. *)

(* The reset reaches every panel that is not latched, and cuts a waveform short. *)
Setup ==
  /\ at = "setup" /\ at' = "power" /\ handle' = TRUE
  /\ panel' = IF panel = "latched" THEN panel ELSE "off"
  /\ glass' = IF panel = "busy" THEN Mixed ELSE glass
  /\ UNCHANGED <<shower, signals, attempt, buffer, painting>>

(* The picture is sent and the panel powered on. *)
PowerOn ==
  /\ at = "power" /\ at' = "refresh"
  /\ panel' = IF panel = "off" THEN "on" ELSE panel
  /\ UNCHANGED <<shower, signals, attempt, buffer, handle, painting, glass>>

(* The refresh command; a panel may also ignore it. *)
Refresh ==
  /\ at = "refresh" /\ at' = "wait" /\ asserted' = FALSE
  /\ \/ panel = "on" /\ panel' = "busy" /\ painting' = buffer
     \/ UNCHANGED <<panel, painting>>
  /\ UNCHANGED <<shower, late, seen, low, attempt, buffer, handle, glass>>

(* Fault: the wait ends at the first HIGH. *)
PollLevel ==
  /\ at = "wait"
  /\ IF Line = "LOW" THEN asserted' = TRUE /\ UNCHANGED at ELSE at' = "off" /\ UNCHANGED asserted
  /\ UNCHANGED <<shower, late, seen, low, attempt, buffer, handle, hardware>>

(* _refresh_wait: LOW, then HIGH. *)
Poll ==
  /\ at = "wait"
  /\ \/ Line = "LOW" /\ asserted' = TRUE /\ UNCHANGED at
     \/ Line = "HIGH" /\ asserted /\ at' = "off" /\ UNCHANGED asserted
  /\ UNCHANGED <<shower, late, seen, low, attempt, buffer, handle, hardware>>

(* ... or the time is over, which is a warning and no error. *)
TimeOut ==
  /\ at = "wait" /\ at' = "off" /\ late' = TRUE
  /\ UNCHANGED <<shower, asserted, seen, low, attempt, buffer, handle, hardware>>

PowerOff ==
  /\ at = "off" /\ at' = "judge"
  /\ panel' \in IF panel = "busy" THEN {"busy", "latched"}
                ELSE IF panel = "latched" THEN {"latched"} ELSE {"off"}
  /\ UNCHANGED <<shower, signals, attempt, buffer, handle, painting, glass>>

(* The driver raises: a missing or forbidden SPI device, a failed read of the   *)
(* line, anything.  Not retried, and the panel is left as it is. *)
DriverRaises ==
  /\ at \in Running \ {"judge"} /\ End(FALSE)
  /\ UNCHANGED <<signals, attempt, buffer, handle, hardware>>

(* _classify_refresh: the warning, or a line that was read and never LOW. *)
Failed == late \/ (seen /\ ~low)

(* Fault: one attempt too many. *)
JudgeOnceMore ==
  /\ at = "judge"
  /\ IF Failed /\ attempt <= MaxAttempts
     THEN /\ at' = "setup" /\ attempt' = attempt + 1
          /\ late' = FALSE /\ seen' = FALSE /\ low' = FALSE /\ asserted' = FALSE
          /\ UNCHANGED shower
     ELSE End(~Failed) /\ UNCHANGED <<attempt, signals>>
  /\ UNCHANGED <<buffer, handle, hardware>>

(* The next attempt begins anew, with a watcher of its own. *)
Judge ==
  /\ at = "judge"
  /\ IF Failed /\ attempt < MaxAttempts
     THEN /\ at' = "setup" /\ attempt' = attempt + 1
          /\ late' = FALSE /\ seen' = FALSE /\ low' = FALSE /\ asserted' = FALSE
          /\ UNCHANGED shower
     ELSE End(~Failed) /\ UNCHANGED <<attempt, signals>>
  /\ UNCHANGED <<buffer, handle, hardware>>

(* The watcher samples the line at any time of an attempt.  The driver creates  *)
(* the handle in its first setup; an error is no sample, and a line that cannot  *)
(* be read gives none at all. *)
Sample ==
  /\ at \in Running /\ handle
  /\ seen' = TRUE /\ low' = (low \/ Line = "LOW")
  /\ UNCHANGED <<shower, asserted, late, driver, hardware>>

-----------------------------------------------------------------------------
(* The panel. *)

WaveformEnds ==
  /\ panel = "busy" /\ panel' = "done" /\ glass' = painting
  /\ UNCHANGED <<shower, signals, driver, painting>>

(* Someone takes the power away and gives it back. *)
PowerCycle ==
  /\ at = "idle" /\ panel = "latched" /\ panel' = "off"
  /\ UNCHANGED <<shower, signals, driver, painting, glass>>

Attempt == Setup \/ PowerOn \/ Refresh \/ Poll \/ TimeOut \/ PowerOff \/ Judge

DriverNext ==
  \/ \E i \in Images : ShowImage(i)
  \/ CancelShow \/ BeginShow \/ Attempt \/ DriverRaises \/ Sample
  \/ WaveformEnds \/ PowerCycle

DriverSpec == DriverInit /\ [][DriverNext]_panelVars

-----------------------------------------------------------------------------
DriverTypeOK ==
  /\ lock \in Images \cup {Free} /\ shows \in Seq(Images) /\ Len(shows) <= MaxShows
  /\ lock # Free => shows # <<>> /\ shows[Len(shows)] = lock
  /\ at \in Running \cup {"idle"} /\ (at # "idle" => shows # <<>> /\ buffer = Head(shows))
  /\ attempt \in 0..MaxAttempts
  /\ {asserted, late, handle, seen, low} \subseteq BOOLEAN
  /\ panel \in {"off", "on", "busy", "done", "latched"}
  /\ {painting, glass, buffer} \subseteq Images \cup {Mixed}

(* A caller that is told its image is on the panel is told the truth: the       *)
(* waveform of this very image ran to its end and nothing was painted since.    *)
(* What may be around: a waveform that outlived its timeout, a refresh whose    *)
(* caller went away, a latched panel, a line nobody can read. *)
AckedMeansShown ==
  [][told' # told /\ told'.ok => glass' = told'.image]_panelVars
=============================================================================
