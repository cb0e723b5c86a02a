----------------------------- MODULE FanControl -----------------------------
(***************************************************************************)
(* fancontrol.Service: the choice of a driver, the startup test, the loop  *)
(* that follows the CPU temperature, and Close, which both liveRuntime and *)
(* the watcher of the context call.                                        *)
(*                                                                         *)
(* A duty is a level. The controller's arithmetic is left out: its output  *)
(* is nothing, small (within the deadband) or large, at any tick. A write  *)
(* to the driver may fail at any time, and leaves the fan as it is.        *)
(***************************************************************************)
EXTENDS Naturals, Sequences

VARIABLES
  config,    \* fan.backend, the level of fan.pwm_duty_min, and the board
  backend,   \* the driver in use, or none
  duty,      \* what the fan gets
  line,      \* the GPIO driver has its line
  shown,     \* the snapshot: enabled, duty, an error, a valid temperature
  loop,      \* where startupAndRun is
  graceful,  \* its flag
  driving,   \* lastPWM is not zero
  at,        \* where each call of Close is
  process,   \* "starting", "up", "exited" or "panicked"
  stopping,  \* the context is cancelled
  stop,      \* stopCh is closed
  history    \* whether the last reading of the temperature and the last write
             \* failed; whether a Close has driven 0

control == <<loop, graceful, driving>>
closing == <<at, stop>>
fixed == <<config, backend>>
fanVars == <<fixed, duty, line, shown, control, closing, process, stopping, history>>

Levels == {"off", "low", "driven", "full"}
Drivers == {"pwm", "gpio"}
Closers == {"watcher", "runtime"}

Up == process = "up"
Stopped == stopping \/ stop

---------------------------------------------------------------------------
(* The driver *)

\* A GPIO line is on or off; the snapshot says so, too.
Driven(level) == IF backend = "gpio" /\ level # "off" THEN "full" ELSE level

\* SetDutyPercent
Write(level, ok) == duty' = IF ok THEN Driven(level) ELSE duty

Remember(blind, ok) == history' = [history EXCEPT !.blind = blind, !.failed = ~ok]

\* The drivers that Start tries, in this order.
ToTry ==
  IF config.backend # "auto" THEN <<config.backend>>
  ELSE IF config.pi5 THEN <<"gpio", "pwm">> ELSE <<"pwm", "gpio">>

\* The first driver that opens is found, if one does.
Found(opens) ==
  {ToTry[i] : i \in {k \in 1..Len(ToTry) : /\ ToTry[k] \in opens
                                           /\ \A j \in 1..(k - 1) : ToTry[j] \notin opens}}

\* A PWM driver must be able to set its frequency; a GPIO driver has none.
SetsFrequency(driver, ok) == driver = "gpio" \/ ok

\* A PWM that is enabled gets the duty it was left with; a GPIO line is
\* requested as an output that is off.
FirstDuties(driver) == IF driver = "gpio" THEN {"off"} ELSE Levels

\* The driver that was found is closed if its frequency cannot be set, and no
\* other is tried.
FanStart ==
  /\ process = "starting" /\ process' = "up"
  /\ \E opens \in SUBSET Drivers, ok \in BOOLEAN :
       LET usable == {d \in Found(opens) : SetsFrequency(d, ok)}
       IN \/ /\ usable = {}
             /\ shown' = [shown EXCEPT !.enabled = TRUE, !.error = TRUE]
             /\ UNCHANGED <<backend, duty, line, loop>>
          \/ /\ backend' \in usable /\ duty' \in FirstDuties(backend')
             /\ line' = (backend' = "gpio") /\ loop' = "full"
             /\ shown' = [shown EXCEPT !.enabled = TRUE]
  /\ UNCHANGED <<config, graceful, driving, closing, stopping, history>>

---------------------------------------------------------------------------
(* startupAndRun *)

\* One write of the startup test: if it fails, the loop ends.
Test(here, level, next) ==
  /\ Up /\ loop = here
  /\ \E ok \in BOOLEAN :
       /\ Write(level, ok) /\ Remember(FALSE, ok)
       /\ IF ok THEN loop' = next /\ shown' = [shown EXCEPT !.duty = Driven(level)]
                ELSE loop' = "failsafe" /\ shown' = [shown EXCEPT !.error = TRUE]
  /\ UNCHANGED <<fixed, line, graceful, driving, closing, process, stopping>>

Elapses(here, next) ==
  /\ Up /\ loop = here /\ loop' = next
  /\ UNCHANGED <<fixed, duty, line, shown, graceful, driving, closing, process, stopping,
                 history>>

Startup ==
  \/ Test("full", "full", "fullWait") \/ Elapses("fullWait", "min")
  \/ Test("min", config.min, "minWait") \/ Elapses("minWait", "tick")

\* The context or stopCh ends a wait.
LoopStops ==
  /\ Up /\ Stopped /\ loop \in {"fullWait", "minWait", "tick"}
  /\ loop' = "done" /\ graceful' = TRUE
  /\ UNCHANGED <<fixed, duty, line, shown, driving, closing, process, stopping, history>>

\* The deferred function: it shows the full duty whether or not it is driven.
FailSafe ==
  /\ Up /\ loop = "failsafe" /\ loop' = "done"
  /\ \E ok \in BOOLEAN : Write("full", ok) /\ Remember(FALSE, ok)
  /\ shown' = [shown EXCEPT !.duty = "full"]
  /\ UNCHANGED <<fixed, line, graceful, driving, closing, process, stopping>>

\* Variant: the fan is left as it is, until the temperature can be read again.
TempFailsLeft ==
  /\ Up /\ loop = "tick" /\ Remember(TRUE, TRUE)
  /\ shown' = [shown EXCEPT !.cpu = FALSE, !.error = TRUE]
  /\ UNCHANGED <<fixed, duty, line, control, closing, process, stopping>>

\* The temperature cannot be read.
TempFails ==
  /\ Up /\ loop = "tick"
  /\ \E ok \in BOOLEAN :
       /\ Write("full", ok) /\ Remember(TRUE, ok)
       /\ shown' = [shown EXCEPT !.cpu = FALSE, !.error = TRUE,
                                 !.duty = IF ok THEN "full" ELSE @]
  /\ UNCHANGED <<fixed, line, control, closing, process, stopping>>

\* What the controller wants: nothing, less than the deadband, or more.
Outputs == {"none", "small", "large"}

\* The levels for it. The idle duty keeps a PWM fan spinning, except at the tick
\* at which the output falls to nothing.
Asked(out) ==
  IF out = "large" \/ driving
  THEN CASE out = "large" -> {"driven", "full"} [] out = "small" -> {"low"} [] OTHER -> {"off"}
  ELSE IF backend = "gpio" THEN {"off"} ELSE {"low"}

TempReads ==
  /\ Up /\ loop = "tick"
  /\ \E out \in Outputs, ok \in BOOLEAN : \E level \in Asked(out) :
       /\ driving' = (out = "large" \/ (driving /\ out = "small"))
       /\ Write(level, ok)
       /\ Remember(FALSE, ok)
       /\ shown' = IF ok THEN [shown EXCEPT !.cpu = TRUE, !.error = FALSE,
                                            !.duty = Driven(level)]
                         ELSE [shown EXCEPT !.error = TRUE]
  /\ UNCHANGED <<fixed, line, loop, graceful, closing, process, stopping>>

---------------------------------------------------------------------------
(* Close *)

Moves(c, here, next) == Up /\ at[c] = here /\ at' = [at EXCEPT ![c] = next]

\* The watcher is there if Start has succeeded.
Call(c) ==
  /\ Moves(c, "idle", "waiting") /\ stopping
  /\ c = "watcher" => backend # "none"
  /\ stop' = TRUE
  /\ UNCHANGED <<fixed, duty, line, shown, control, process, stopping, history>>

\* Variant: Close does not wait for the loop.
AtOnce(c) ==
  /\ Moves(c, "waiting", IF backend = "none" THEN "leave" ELSE "off")
  /\ UNCHANGED <<fixed, duty, line, shown, control, stop, process, stopping, history>>

\* Variant: the loop that Start could not start is waited for.
WaitedAlways(c) ==
  /\ Moves(c, "waiting", IF backend = "none" THEN "leave" ELSE "off")
  /\ loop = "done"
  /\ UNCHANGED <<fixed, duty, line, shown, control, stop, process, stopping, history>>

\* wg.Wait
Waited(c) ==
  /\ Moves(c, "waiting", IF backend = "none" THEN "leave" ELSE "off")
  /\ loop \in {"none", "done"}
  /\ UNCHANGED <<fixed, duty, line, shown, control, stop, process, stopping, history>>

\* A driver that has no line any more refuses; else the line it saw is used next.
Enters(c, here, next, refused) ==
  /\ Moves(c, here, IF backend = "gpio" /\ ~line THEN refused ELSE next)
  /\ UNCHANGED <<fixed, duty, line, shown, control, stop, process, stopping, history>>

\* The line is gone since it was seen: a nil pointer is used.
Panics(c) ==
  /\ Up /\ at[c] \in {"write", "release"} /\ backend = "gpio" /\ ~line
  /\ process' = "panicked"
  /\ UNCHANGED <<fixed, duty, line, shown, control, closing, stopping, history>>

\* The fan is driven with 0. A write that fails is ignored.
DrivesOff(ok) ==
  /\ Write("off", ok)
  /\ history' = [history EXCEPT !.failed = ~ok, !.off = @ \/ ok]

WritesOff(c) ==
  /\ Moves(c, "write", "shut") /\ (backend = "gpio" => line)
  /\ \E ok \in BOOLEAN : DrivesOff(ok)
  /\ shown' = [shown EXCEPT !.duty = "off"]
  /\ UNCHANGED <<fixed, line, control, stop, process, stopping>>

\* SetDutyPercent failed, and the duty is shown all the same.
ShowsOff(c) ==
  /\ Moves(c, "refused", "shut") /\ shown' = [shown EXCEPT !.duty = "off"]
  /\ UNCHANGED <<fixed, duty, line, control, stop, process, stopping, history>>

\* The driver's Close drives 0 once more and gives the line away.
Releases(c) ==
  /\ Moves(c, "release", "leave") /\ (backend = "gpio" => line)
  /\ \E ok \in BOOLEAN : DrivesOff(ok)
  /\ line' = FALSE
  /\ UNCHANGED <<fixed, shown, control, stop, process, stopping>>

Leaves(c) ==
  /\ Moves(c, "leave", "returned") /\ shown' = [shown EXCEPT !.enabled = FALSE]
  /\ UNCHANGED <<fixed, duty, line, control, stop, process, stopping, history>>

CloseStep(c) ==
  \/ Waited(c) \/ Enters(c, "off", "write", "refused") \/ WritesOff(c) \/ ShowsOff(c)
  \/ Enters(c, "shut", "release", "leave") \/ Releases(c) \/ Leaves(c)

---------------------------------------------------------------------------

FanCancel ==
  /\ Up /\ ~stopping /\ stopping' = TRUE
  /\ UNCHANGED <<fixed, duty, line, shown, control, closing, process, history>>

\* main returns without waiting for a Close.
FanExit ==
  /\ Up /\ stopping /\ process' = "exited"
  /\ UNCHANGED <<fixed, duty, line, shown, control, closing, stopping, history>>

FanInit ==
  /\ config \in [backend : {"auto"} \cup Drivers, min : {"off", "low"}, pi5 : BOOLEAN]
  /\ backend = "none" /\ duty = "off" /\ line = FALSE
  /\ shown = [enabled |-> FALSE, duty |-> "off", error |-> FALSE, cpu |-> FALSE]
  /\ loop = "none" /\ graceful = FALSE /\ driving = FALSE
  /\ at = [c \in Closers |-> "idle"]
  /\ process = "starting" /\ stopping = FALSE /\ stop = FALSE
  /\ history = [blind |-> FALSE, failed |-> FALSE, off |-> FALSE]

FanNext ==
  \/ FanStart \/ Startup \/ LoopStops \/ FailSafe \/ TempFails \/ TempReads
  \/ \E c \in Closers : Call(c) \/ CloseStep(c) \/ Panics(c)
  \/ FanCancel \/ FanExit

\* The goroutines run; a select that has a stop ready takes it some time. When the
\* runtime gets to the fan depends on the services that it closes before.
FanFairness ==
  /\ WF_fanVars(Startup) /\ WF_fanVars(FailSafe) /\ WF_fanVars(LoopStops)
  /\ WF_fanVars(Call("watcher")) /\ \A c \in Closers : WF_fanVars(CloseStep(c) \/ Panics(c))

FanSpec == FanInit /\ [][FanNext]_fanVars /\ FanFairness

---------------------------------------------------------------------------
(* Properties *)

Snapshots == [enabled : BOOLEAN, duty : Levels, error : BOOLEAN, cpu : BOOLEAN]
Histories == [blind : BOOLEAN, failed : BOOLEAN, off : BOOLEAN]

FanTypeOK ==
  /\ config \in [backend : {"auto"} \cup Drivers, min : {"off", "low"}, pi5 : BOOLEAN]
  /\ backend \in (IF config.backend = "auto" THEN Drivers ELSE {config.backend}) \cup {"none"}
  /\ duty \in Levels /\ line \in BOOLEAN
  /\ shown \in Snapshots
  /\ loop \in {"none", "full", "fullWait", "min", "minWait", "tick", "failsafe", "done"}
  /\ graceful \in BOOLEAN /\ driving \in BOOLEAN
  /\ at \in [Closers -> {"idle", "waiting", "off", "write", "refused", "shut", "release",
                         "leave", "returned"}]
  /\ process \in {"starting", "up", "exited", "panicked"}
  /\ stopping \in BOOLEAN /\ stop \in BOOLEAN
  /\ history \in Histories

\* Close has not begun to drive the fan.
Untouched == \A c \in Closers : at[c] \in {"idle", "waiting", "off", "write", "refused"}

\* When nobody follows the temperature, because it cannot be read or because the
\* loop has ended on an error, the fan is full on, unless the last write failed.
FullWhenBlind ==
  /\ Untouched
  /\ (loop = "tick" /\ history.blind) \/ (loop = "done" /\ ~graceful)
  => duty = "full" \/ history.failed

\* From the first write until Close, the duty on the page is the one driven; only
\* a fail-safe that failed shows more than there is, and then it shows an error.
ShownIsDriven ==
  /\ loop \notin {"none", "full", "failsafe"} /\ Untouched
  /\ ~(loop = "done" /\ ~graceful /\ history.failed /\ shown.error)
  => shown.duty = duty

\* Once a Close has driven 0 nothing turns the fan on again: not the loop, its
\* fail-safe or the other Close. One that has returned has driven 0, or failed to.
ClosedStaysOff ==
  /\ history.off => duty = "off"
  /\ \A c \in Closers : at[c] = "returned" /\ backend # "none" => history.off \/ history.failed

\* alwaysOn: "keeps fan spinning at low duty" (33-34, 366-367). A tick that can
\* read the temperature does not stop a PWM fan that turns.
KeptSpinning ==
  [][TempReads /\ backend = "pwm" /\ duty # "off" => duty' # "off"]_fanVars

\* Fan control fails safe and does not end the process (the two callers of Close
\* use one GPIO line: gpio_linux_gpiod.go 71-97, service.go 117-132).
FanNeverCrashes == process # "panicked"

\* The crash that FanNeverCrashes is about: both callers were closing a GPIO fan.
CrashedClosing ==
  process = "panicked" /\ backend = "gpio" /\ \A c \in Closers : at[c] # "idle"

\* Each Close that was called returns, whoever else closes, whatever the loop was
\* waiting for; unless main returns before it, or the other call's release of a
\* GPIO line crashes the process under it.
FanCloseReturns ==
  \A c \in Closers :
    (at[c] = "waiting") ~> (at[c] = "returned" \/ process = "exited" \/ CrashedClosing)
=============================================================================
