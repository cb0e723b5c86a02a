-------------------------- MODULE FanControlProofs --------------------------
(***************************************************************************)
(* The safety properties of FanControl, for both drivers and whatever the  *)
(* temperature, the writes and the two callers of Close do.                *)
(***************************************************************************)
EXTENDS FanControl, TLAPS

\* Nothing happens before Start. What a Close has passed is over: the loop, once
\* it drives the fan, and the fan itself, once it is through with it.
Untried ==
  process = "starting" =>
    /\ loop = "none" /\ backend = "none" /\ \A c \in Closers : at[c] = "idle"
    /\ ~history.off /\ ~history.blind

LoopOver ==
  /\ history.off => loop \in {"none", "done"}
  /\ \A c \in Closers : at[c] \notin {"idle", "waiting"} => loop \in {"none", "done"}
  /\ backend = "gpio" /\ ~line => loop \in {"none", "done"}

Driven0 == history.off \/ history.failed
Through == {"refused", "shut", "release", "leave", "returned"}

FanOver ==
  /\ backend = "gpio" /\ ~line => Driven0
  /\ \A c \in Closers : at[c] \in Through /\ backend # "none" => Driven0

\* The temperature is looked at in the loop alone, which ends for one of two
\* reasons.
LoopInv ==
  /\ loop \notin {"tick", "done"} => ~history.blind
  /\ loop # "done" => ~graceful
  /\ loop = "failsafe" => shown.error

IInv ==
  /\ FanTypeOK /\ Untried /\ LoopOver /\ FanOver /\ LoopInv
  /\ FullWhenBlind /\ ShownIsDriven /\ ClosedStaysOff

\* What is remembered of a write of the loop.
LEMMA Remembered ==
  ASSUME history \in Histories, NEW blind \in BOOLEAN, NEW ok \in BOOLEAN,
         Remember(blind, ok)
  PROVE  /\ history' \in Histories
         /\ (history'.off <=> history.off)
         /\ (history'.blind <=> blind) /\ (history'.failed <=> ~ok)
BY Zenon DEF Remember, Histories

\* What is remembered of a write of Close: the fan is off, or the write failed.
LEMMA DrivenOff ==
  ASSUME history \in Histories, duty \in Levels, NEW ok \in BOOLEAN, DrivesOff(ok)
  PROVE  /\ history' \in Histories
         /\ (history'.blind <=> history.blind)
         /\ (history'.off <=> history.off \/ ok) /\ (history'.failed <=> ~ok)
         /\ duty' = IF ok THEN "off" ELSE duty
<1>1. history' \in Histories
  BY Zenon DEF DrivesOff, Histories
<1>2. /\ (history'.blind <=> history.blind)
      /\ (history'.off <=> history.off \/ ok) /\ (history'.failed <=> ~ok)
  BY Zenon DEF DrivesOff, Histories
<1>3. duty' = IF ok THEN "off" ELSE duty
  BY SMT DEF DrivesOff, Write, Driven
<1> QED BY <1>1, <1>2, <1>3

\* What the page gets of a duty, and of an error.
LEMMA ShownDuty ==
  ASSUME shown \in Snapshots, NEW d \in Levels, shown' = [shown EXCEPT !.duty = d]
  PROVE  shown' \in Snapshots /\ shown'.duty = d /\ (shown'.error <=> shown.error)
BY Zenon DEF Snapshots

LEMMA ShownError ==
  ASSUME shown \in Snapshots, shown' = [shown EXCEPT !.error = TRUE]
  PROVE  shown' \in Snapshots /\ shown'.duty = shown.duty /\ shown'.error
BY Zenon DEF Snapshots

\* The invariant holds before Start.
LEMMA InitIInv == FanInit => IInv
<1> SUFFICES ASSUME FanInit PROVE IInv
  OBVIOUS
<1> USE DEF FanInit
<1>1. history \in Histories
  <2>1. FALSE \in BOOLEAN
    OBVIOUS
  <2> QED BY <2>1, Zenon DEF Histories
<1>2. shown \in Snapshots
  <2>1. "off" \in Levels /\ FALSE \in BOOLEAN
    BY DEF Levels
  <2> QED BY <2>1, Zenon DEF Snapshots
<1>3. FanTypeOK
  <2>1. at \in [Closers -> {"idle"}]
    BY SMT
  <2>2. backend \in (IF config.backend = "auto" THEN Drivers ELSE {config.backend}) \cup {"none"}
    BY Zenon
  <2>3. config \in [backend : {"auto"} \cup Drivers, min : {"off", "low"}, pi5 : BOOLEAN]
    BY Zenon
  <2>4. duty \in Levels /\ line \in BOOLEAN /\ graceful \in BOOLEAN /\ driving \in BOOLEAN
        /\ stopping \in BOOLEAN /\ stop \in BOOLEAN
    BY Zenon DEF Levels
  <2> QED BY <1>1, <1>2, <2>1, <2>2, <2>3, <2>4, SMT DEF FanTypeOK
<1>4. Untried /\ LoopOver /\ FanOver /\ LoopInv
  BY SMT DEF Untried, LoopOver, FanOver, Through, LoopInv
<1>5. FullWhenBlind /\ ShownIsDriven /\ ClosedStaysOff
  BY SMT DEF FullWhenBlind, ShownIsDriven, ClosedStaysOff, Untouched
<1> QED BY <1>3, <1>4, <1>5 DEF IInv

\* A write of the startup test keeps it.
LEMMA TestKeepsIInv ==
  ASSUME IInv, NEW here \in {"full", "min"}, NEW level \in Levels,
         NEW next \in {"fullWait", "minWait"}, Test(here, level, next)
  PROVE  IInv'
<1> USE DEF IInv
<1>1. PICK ok \in BOOLEAN :
        /\ Write(level, ok) /\ Remember(FALSE, ok)
        /\ IF ok THEN loop' = next /\ shown' = [shown EXCEPT !.duty = Driven(level)]
                 ELSE loop' = "failsafe" /\ shown' = [shown EXCEPT !.error = TRUE]
  BY DEF Test
<1>2. /\ Up /\ loop = here
      /\ UNCHANGED <<config, backend, line, graceful, driving, at, stop, process, stopping>>
  BY DEF Test, fixed, closing
<1>3. /\ history' \in Histories
      /\ (history'.off <=> history.off)
      /\ ~history'.blind /\ (history'.failed <=> ~ok)
  <2>1. FALSE \in BOOLEAN
    OBVIOUS
  <2>2. history \in Histories /\ Remember(FALSE, ok)
    BY <1>1 DEF FanTypeOK
  <2>3. /\ history' \in Histories
        /\ (history'.off <=> history.off)
        /\ (history'.blind <=> FALSE) /\ (history'.failed <=> ~ok)
    BY <2>1, <2>2, Remembered
  <2> QED BY <2>3
<1>4. /\ Driven(level) \in Levels
      /\ duty' = IF ok THEN Driven(level) ELSE duty
  BY <1>1, SMT DEF Write, Driven, Levels
<1>5. /\ shown' \in Snapshots
      /\ shown'.duty = IF ok THEN Driven(level) ELSE shown.duty
      /\ ~ok => shown'.error
  <2>1. CASE ok
    <3>1. shown' = [shown EXCEPT !.duty = Driven(level)]
      BY <1>1, <2>1
    <3>2. PICK d \in Levels : d = Driven(level)
      BY <1>4, Zenon
    <3>3. shown' = [shown EXCEPT !.duty = d]
      BY <3>1, <3>2, Zenon
    <3>4. shown' \in Snapshots /\ shown'.duty = d
      BY <3>3, ShownDuty, Zenon DEF FanTypeOK
    <3> QED BY <2>1, <3>2, <3>4
  <2>2. CASE ~ok
    <3>1. shown' = [shown EXCEPT !.error = TRUE]
      BY <1>1, <2>2
    <3>2. shown' \in Snapshots /\ shown'.duty = shown.duty /\ shown'.error
      BY <3>1, ShownError, Zenon DEF FanTypeOK
    <3> QED BY <2>2, <3>2
  <2> QED BY <2>1, <2>2
<1>6. loop' = IF ok THEN next ELSE "failsafe"
  BY <1>1
<1>7. FanTypeOK'
  BY <1>2, <1>3, <1>4, <1>5, <1>6, SMT DEF FanTypeOK
<1>8. Untried' /\ LoopOver' /\ FanOver'
  BY <1>2, <1>3, <1>6, SMT DEF Untried, LoopOver, FanOver, Through, Driven0, Up
<1>9. LoopInv'
  BY <1>2, <1>3, <1>5, <1>6, SMT DEF LoopInv
<1>10. FullWhenBlind'
  BY <1>2, <1>6, SMT DEF FullWhenBlind
<1>11. ShownIsDriven'
  BY <1>2, <1>4, <1>5, <1>6, SMT DEF ShownIsDriven, Untouched
<1>12. ClosedStaysOff'
  BY <1>2, <1>3, <1>6, SMT DEF ClosedStaysOff, LoopOver
<1> QED BY <1>7, <1>8, <1>9, <1>10, <1>11, <1>12

\* So does a wait that elapses.
LEMMA ElapsesKeepsIInv ==
  ASSUME IInv, NEW here \in {"fullWait", "minWait"}, NEW next \in {"min", "tick"},
         Elapses(here, next)
  PROVE  IInv'
<1> USE DEF IInv, Elapses, fixed, closing
<1>1. FanTypeOK'
  BY SMT DEF FanTypeOK
<1>2. Untried' /\ LoopOver' /\ FanOver' /\ LoopInv'
  BY SMT DEF Untried, LoopOver, FanOver, Through, Driven0, LoopInv, Up
<1>3. FullWhenBlind'
  BY SMT DEF FullWhenBlind, LoopInv
<1>4. ShownIsDriven' /\ ClosedStaysOff'
  BY SMT DEF ShownIsDriven, Untouched, ClosedStaysOff
<1> QED BY <1>1, <1>2, <1>3, <1>4

\* Start finds a driver and begins the loop, or finds none and never will.
LEMMA StartKeepsIInv ==
  ASSUME IInv, FanStart PROVE IInv'
<1> USE DEF IInv
<1>1. /\ process = "starting" /\ process' = "up"
      /\ UNCHANGED <<config, graceful, driving, at, stop, stopping, history>>
  BY DEF FanStart, closing
<1>2. \/ /\ shown' = [shown EXCEPT !.enabled = TRUE, !.error = TRUE]
         /\ UNCHANGED <<backend, duty, line, loop>>
      \/ /\ backend' \in Drivers /\ backend' \in (IF config.backend = "auto" THEN Drivers ELSE {config.backend})
         /\ duty' \in Levels
         /\ line' = (backend' = "gpio") /\ loop' = "full"
         /\ shown' = [shown EXCEPT !.enabled = TRUE]
  <2>1. PICK opens \in SUBSET Drivers, ok \in BOOLEAN :
          LET usable == {d \in Found(opens) : SetsFrequency(d, ok)}
          IN \/ /\ usable = {}
                /\ shown' = [shown EXCEPT !.enabled = TRUE, !.error = TRUE]
                /\ UNCHANGED <<backend, duty, line, loop>>
             \/ /\ backend' \in usable /\ duty' \in FirstDuties(backend')
                /\ line' = (backend' = "gpio") /\ loop' = "full"
                /\ shown' = [shown EXCEPT !.enabled = TRUE]
    BY DEF FanStart
  <2>2. Found(opens) \subseteq opens
    BY Zenon DEF Found
  <2>3. Found(opens) \subseteq IF config.backend = "auto" THEN Drivers ELSE {config.backend}
    <3>1. CASE config.backend = "auto"
      BY <2>2, <3>1
    <3>2. CASE config.backend # "auto"
      <4>1. ToTry = <<config.backend>>
        BY <3>2 DEF ToTry
      <4>2. \A i \in 1..Len(ToTry) : ToTry[i] = config.backend
        BY <4>1, SMT
      <4> QED BY <3>2, <4>2, Zenon DEF Found
    <3> QED BY <3>1, <3>2
  <2>4. FirstDuties(backend') \subseteq Levels
    BY DEF FirstDuties, Levels
  <2> QED BY <2>1, <2>2, <2>3, <2>4
<1>3. shown' \in Snapshots
  BY <1>2, Zenon DEF FanTypeOK, Snapshots
<1>4. FanTypeOK'
  <2>1. line' \in BOOLEAN
    BY <1>2, Zenon DEF FanTypeOK
  <2>2. /\ backend' \in (IF config.backend = "auto" THEN Drivers ELSE {config.backend}) \cup {"none"}
        /\ duty' \in Levels /\ loop' \in {loop, "full"}
    BY <1>2, Zenon DEF FanTypeOK
  <2>3. history' \in Histories
    BY <1>1, Zenon DEF FanTypeOK
  <2> QED BY <1>1, <1>3, <2>1, <2>2, <2>3, SMT DEF FanTypeOK
<1>5. Untried' /\ LoopOver' /\ FanOver' /\ LoopInv'
  <2>1. backend' = "gpio" /\ ~line' => backend' = backend /\ line' = line
    BY <1>2, Zenon
  <2>2. /\ backend = "none" /\ loop = "none" /\ ~history.off /\ ~history.blind
        /\ \A c \in Closers : at[c] = "idle"
    BY <1>1 DEF Untried
  <2>3. loop' \in {"none", "full"}
    BY <1>2, <2>2
  <2>4. Untried' /\ LoopOver' /\ FanOver'
    BY <1>1, <2>1, <2>2, <2>3, SMT DEF Untried, LoopOver, FanOver, Through
  <2>5. LoopInv'
    BY <1>1, <2>2, <2>3, SMT DEF LoopInv
  <2> QED BY <2>4, <2>5
<1>6. FullWhenBlind' /\ ShownIsDriven'
  BY <1>1, <1>2, SMT DEF FullWhenBlind, ShownIsDriven, Untried
<1>7. ClosedStaysOff'
  BY <1>1, <1>2, SMT DEF ClosedStaysOff, Untried
<1> QED BY <1>4, <1>5, <1>6, <1>7

\* The loop ends because it is told to.
LEMMA LoopStopsKeepsIInv ==
  ASSUME IInv, LoopStops PROVE IInv'
<1> USE DEF IInv, LoopStops, fixed, closing
<1>1. FanTypeOK'
  BY SMT DEF FanTypeOK
<1>2. Untried' /\ LoopOver' /\ FanOver' /\ LoopInv'
  BY SMT DEF Untried, LoopOver, FanOver, Through, Driven0, LoopInv, Up
<1>3. FullWhenBlind'
  BY SMT DEF FullWhenBlind
<1>4. ShownIsDriven' /\ ClosedStaysOff'
  BY SMT DEF ShownIsDriven, Untouched, ClosedStaysOff, LoopInv
<1> QED BY <1>1, <1>2, <1>3, <1>4

\* The fail-safe drives the fan full on, or fails to and shows that it has.
LEMMA FailSafeKeepsIInv ==
  ASSUME IInv, FailSafe PROVE IInv'
<1> USE DEF IInv
<1>1. PICK ok \in BOOLEAN : Write("full", ok) /\ Remember(FALSE, ok)
  BY DEF FailSafe
<1>2. /\ Up /\ loop = "failsafe" /\ loop' = "done" /\ shown' = [shown EXCEPT !.duty = "full"]
      /\ UNCHANGED <<config, backend, line, graceful, driving, at, stop, process, stopping>>
  BY DEF FailSafe, fixed, closing
<1>3. /\ history' \in Histories
      /\ (history'.off <=> history.off)
      /\ (history'.blind <=> FALSE) /\ (history'.failed <=> ~ok)
  <2>1. FALSE \in BOOLEAN
    OBVIOUS
  <2>2. history \in Histories /\ Remember(FALSE, ok)
    BY <1>1 DEF FanTypeOK
  <2> QED BY <2>1, <2>2, Remembered
<1>4. duty' = (IF ok THEN "full" ELSE duty) /\ "full" \in Levels
  BY <1>1, SMT DEF Write, Driven, Levels
<1>5. shown' \in Snapshots /\ shown'.duty = "full" /\ (shown'.error <=> shown.error)
  BY <1>2, <1>4, ShownDuty DEF FanTypeOK
<1>6. FanTypeOK'
  BY <1>2, <1>3, <1>4, <1>5, SMT DEF FanTypeOK
<1>7. Untried' /\ LoopOver' /\ FanOver' /\ LoopInv'
  BY <1>2, <1>3, <1>5, SMT DEF Untried, LoopOver, FanOver, Through, LoopInv, Up
<1>8. FullWhenBlind'
  BY <1>2, <1>3, <1>4, SMT DEF FullWhenBlind
<1>9. ShownIsDriven'
  BY <1>2, <1>3, <1>4, <1>5, SMT DEF ShownIsDriven, LoopInv
<1>10. ClosedStaysOff'
  BY <1>2, <1>3, SMT DEF ClosedStaysOff, LoopOver
<1> QED BY <1>6, <1>7, <1>8, <1>9, <1>10

\* A temperature that cannot be read.
LEMMA TempFailsKeepsIInv ==
  ASSUME IInv, TempFails PROVE IInv'
<1> USE DEF IInv
<1>1. PICK ok \in BOOLEAN :
        /\ Write("full", ok) /\ Remember(TRUE, ok)
        /\ shown' = [shown EXCEPT !.cpu = FALSE, !.error = TRUE,
                                  !.duty = IF ok THEN "full" ELSE @]
  BY DEF TempFails
<1>2. /\ Up /\ loop = "tick"
      /\ UNCHANGED <<config, backend, line, loop, graceful, driving, at, stop, process, stopping>>
  BY DEF TempFails, fixed, control, closing
<1>3. /\ history' \in Histories
      /\ (history'.off <=> history.off)
      /\ (history'.blind <=> TRUE) /\ (history'.failed <=> ~ok)
  <2>1. TRUE \in BOOLEAN
    OBVIOUS
  <2>2. history \in Histories /\ Remember(TRUE, ok)
    BY <1>1 DEF FanTypeOK
  <2> QED BY <2>1, <2>2, Remembered
<1>4. duty' = (IF ok THEN "full" ELSE duty) /\ "full" \in Levels
  BY <1>1, SMT DEF Write, Driven, Levels
<1>5. shown' \in Snapshots /\ shown'.duty = IF ok THEN "full" ELSE shown.duty
  <2>1. CASE ok
    <3>1. shown' = [shown EXCEPT !.cpu = FALSE, !.error = TRUE, !.duty = "full"]
      BY <1>1, <2>1
    <3> QED BY <1>4, <2>1, <3>1, Zenon DEF FanTypeOK, Snapshots
  <2>2. CASE ~ok
    <3>1. shown' = [shown EXCEPT !.cpu = FALSE, !.error = TRUE, !.duty = @]
      BY <1>1, <2>2
    <3> QED BY <2>2, <3>1, Zenon DEF FanTypeOK, Snapshots
  <2> QED BY <2>1, <2>2
<1>6. FanTypeOK'
  BY <1>2, <1>3, <1>4, <1>5, SMT DEF FanTypeOK
<1>7. Untried' /\ LoopOver' /\ FanOver' /\ LoopInv'
  BY <1>2, <1>3, <1>5, SMT DEF Untried, LoopOver, FanOver, Through, LoopInv, Up
<1>8. FullWhenBlind'
  BY <1>2, <1>3, <1>4, SMT DEF FullWhenBlind
<1>9. ShownIsDriven'
  BY <1>2, <1>4, <1>5, SMT DEF ShownIsDriven, Untouched
<1>10. ClosedStaysOff'
  BY <1>2, <1>3, SMT DEF ClosedStaysOff, LoopOver
<1> QED BY <1>6, <1>7, <1>8, <1>9, <1>10

\* A tick that reads the temperature drives some level, and shows it.
LEMMA TempReadsKeepsIInv ==
  ASSUME IInv, TempReads PROVE IInv'
<1> USE DEF IInv
<1>1. PICK out \in Outputs, ok \in BOOLEAN : \E level \in Asked(out) :
        /\ driving' = (out = "large" \/ (driving /\ out = "small"))
        /\ Write(level, ok)
        /\ Remember(FALSE, ok)
        /\ shown' = IF ok THEN [shown EXCEPT !.cpu = TRUE, !.error = FALSE,
                                             !.duty = Driven(level)]
                          ELSE [shown EXCEPT !.error = TRUE]
  BY DEF TempReads
<1>2. PICK level \in Asked(out) :
        /\ driving' = (out = "large" \/ (driving /\ out = "small"))
        /\ Write(level, ok)
        /\ Remember(FALSE, ok)
        /\ shown' = IF ok THEN [shown EXCEPT !.cpu = TRUE, !.error = FALSE,
                                             !.duty = Driven(level)]
                          ELSE [shown EXCEPT !.error = TRUE]
  BY <1>1
<1>3. /\ Up /\ loop = "tick"
      /\ UNCHANGED <<config, backend, line, loop, graceful, at, stop, process, stopping>>
  BY DEF TempReads, fixed, closing
<1>6. /\ history' \in Histories
      /\ (history'.off <=> history.off)
      /\ (history'.blind <=> FALSE) /\ (history'.failed <=> ~ok)
  <2>1. history \in Histories /\ Remember(FALSE, ok) /\ FALSE \in BOOLEAN
    BY <1>2 DEF FanTypeOK
  <2> QED BY <2>1, Remembered
<1>7. /\ level \in Levels /\ Driven(level) \in Levels
      /\ duty' = IF ok THEN Driven(level) ELSE duty
  <2>1. level \in Levels
    BY SMT DEF Asked, Levels, Outputs
  <2> QED BY <1>2, <2>1, SMT DEF Write, Driven, Levels
<1>8. shown' \in Snapshots /\ shown'.duty = IF ok THEN Driven(level) ELSE shown.duty
  <2>1. CASE ok
    <3>1. shown' = [shown EXCEPT !.cpu = TRUE, !.error = FALSE, !.duty = Driven(level)]
      BY <1>2, <2>1
    <3> QED BY <1>7, <2>1, <3>1, Zenon DEF FanTypeOK, Snapshots
  <2>2. CASE ~ok
    <3>1. shown' = [shown EXCEPT !.error = TRUE]
      BY <1>2, <2>2
    <3> QED BY <2>2, <3>1, Zenon DEF FanTypeOK, Snapshots
  <2> QED BY <2>1, <2>2
<1>9. driving' \in BOOLEAN
  BY <1>2, Zenon
<1>11. FanTypeOK'
  BY <1>3, <1>6, <1>7, <1>8, <1>9, SMT DEF FanTypeOK
<1>12. Untried' /\ LoopOver' /\ FanOver'
  BY <1>3, <1>6, SMT DEF Untried, LoopOver, FanOver, Through, Up
<1>13. LoopInv'
  BY <1>3, <1>6, SMT DEF LoopInv
<1>14. FullWhenBlind'
  BY <1>3, <1>6, SMT DEF FullWhenBlind
<1>15. ShownIsDriven' /\ ClosedStaysOff'
  BY <1>3, <1>6, <1>7, <1>8, SMT DEF ShownIsDriven, Untouched, ClosedStaysOff, LoopOver
<1> QED BY <1>11, <1>12, <1>13, <1>14, <1>15

\* A step of Close that drives nothing keeps it: a call, the end of the wait, a
\* driver that refuses because its line was given away, the return.
LEMMA QuietCloseKeepsIInv ==
  ASSUME IInv, NEW c \in Closers,
         \/ Call(c) \/ Waited(c) \/ ShowsOff(c) \/ Leaves(c)
         \/ Enters(c, "off", "write", "refused") \/ Enters(c, "shut", "release", "leave")
  PROVE  IInv'
<1> USE DEF IInv
<1>1. /\ Up
      /\ UNCHANGED <<config, backend, duty, line, loop, graceful, driving, process, stopping, history>>
      /\ stop' \in {stop, TRUE}
  BY DEF Call, Waited, ShowsOff, Leaves, Enters, Moves, fixed, control
<1>2. PICK next \in {"idle", "waiting", "off", "write", "refused", "shut", "release",
                     "leave", "returned"} :
        /\ at' = [at EXCEPT ![c] = next]
        /\ next \notin {"idle", "waiting"} => loop \in {"none", "done"}
        /\ next \in Through /\ backend # "none" =>
             at[c] \in Through \/ (backend = "gpio" /\ ~line)
  <2> DEFINE Goes(next) ==
        /\ at' = [at EXCEPT ![c] = next]
        /\ next \notin {"idle", "waiting"} => loop \in {"none", "done"}
        /\ next \in Through /\ backend # "none" =>
             at[c] \in Through \/ (backend = "gpio" /\ ~line)
  <2>1. CASE Call(c)
    <3>1. Goes("waiting")
      BY <2>1, SMT DEF Call, Moves, Through
    <3> QED BY <3>1
  <2>2. CASE Waited(c)
    <3>1. CASE backend = "none"
      <4>1. Goes("leave")
        BY <2>2, <3>1, SMT DEF Waited, Moves
      <4> QED BY <4>1
    <3>2. CASE backend # "none"
      <4>1. Goes("off")
        BY <2>2, <3>2, SMT DEF Waited, Moves, Through
      <4> QED BY <4>1
    <3> QED BY <3>1, <3>2
  <2>3. CASE ShowsOff(c)
    <3>1. Goes("shut")
      BY <2>3, SMT DEF ShowsOff, Moves, Through, LoopOver
    <3> QED BY <3>1
  <2>4. CASE Leaves(c)
    <3>1. Goes("returned")
      BY <2>4, SMT DEF Leaves, Moves, Through, LoopOver
    <3> QED BY <3>1
  <2>5. CASE Enters(c, "off", "write", "refused")
    <3>1. CASE backend = "gpio" /\ ~line
      <4>1. Goes("refused")
        BY <2>5, <3>1, SMT DEF Enters, Moves, LoopOver
      <4> QED BY <4>1
    <3>2. CASE ~(backend = "gpio" /\ ~line)
      <4>1. at[c] = "off" /\ at' = [at EXCEPT ![c] = "write"]
        BY <2>5, <3>2, Zenon DEF Enters, Moves
      <4>2. Goes("write")
        BY <4>1, SMT DEF Through, LoopOver
      <4> QED BY <4>2
    <3> QED BY <3>1, <3>2
  <2>6. CASE Enters(c, "shut", "release", "leave")
    <3>1. CASE backend = "gpio" /\ ~line
      <4>1. Goes("leave")
        BY <2>6, <3>1, SMT DEF Enters, Moves, LoopOver
      <4> QED BY <4>1
    <3>2. CASE ~(backend = "gpio" /\ ~line)
      <4>1. at[c] = "shut" /\ at' = [at EXCEPT ![c] = "release"]
        BY <2>6, <3>2, Zenon DEF Enters, Moves
      <4>2. Goes("release")
        BY <4>1, SMT DEF Through, LoopOver
      <4> QED BY <4>2
    <3> QED BY <3>1, <3>2
  <2> QED BY <2>1, <2>2, <2>3, <2>4, <2>5, <2>6
<1>3. /\ shown' \in Snapshots
      /\ Untouched' => shown'.duty = shown.duty /\ (shown'.error <=> shown.error)
  <2>1. CASE Call(c) \/ Waited(c) \/ Enters(c, "off", "write", "refused")
             \/ Enters(c, "shut", "release", "leave")
    BY <2>1, Zenon DEF Call, Waited, Enters, FanTypeOK
  <2>2. CASE ShowsOff(c) \/ Leaves(c)
    <3>1. shown' \in Snapshots
      BY <2>2, Zenon DEF ShowsOff, Leaves, FanTypeOK, Snapshots, Levels
    <3>2. ~Untouched'
      BY <2>2, SMT DEF ShowsOff, Leaves, Moves, Untouched, FanTypeOK
    <3> QED BY <3>1, <3>2
  <2> QED BY <2>1, <2>2
<1>4. Untouched' => Untouched
  BY <1>2, SMT DEF Untouched, FanTypeOK, Call, Waited, ShowsOff, Leaves, Enters, Moves
<1>5. FanTypeOK'
  <2>1. stop' \in BOOLEAN
    BY <1>1, Zenon DEF FanTypeOK
  <2>2. stopping' = stopping
    BY DEF Call, Waited, ShowsOff, Leaves, Enters
  <2> QED BY <1>1, <1>2, <1>3, <2>1, <2>2, SMT DEF FanTypeOK
<1>6. Untried' /\ LoopOver'
  BY <1>1, <1>2, SMT DEF Untried, LoopOver, FanTypeOK, Up
<1>7. FanOver'
  BY <1>1, <1>2, SMT DEF FanOver, Driven0, FanTypeOK
<1>8. LoopInv'
  <2>1. loop = "failsafe" => Call(c)
    BY SMT DEF Waited, ShowsOff, Leaves, Enters, Moves, LoopOver
  <2>2. loop = "failsafe" => shown' = shown
    BY <2>1 DEF Call
  <2> QED BY <1>1, <2>2, SMT DEF LoopInv
<1>9. FullWhenBlind'
  BY <1>1, <1>4, SMT DEF FullWhenBlind
<1>10. ShownIsDriven'
  BY <1>1, <1>3, <1>4, SMT DEF ShownIsDriven
<1>11. ClosedStaysOff'
  BY <1>1, <1>2, SMT DEF ClosedStaysOff, FanOver, Through, Driven0, FanTypeOK
<1> QED BY <1>5, <1>6, <1>7, <1>8, <1>9, <1>10, <1>11

\* A step of Close that drives 0: the loop is over, and so is the fan, or the write failed.
LEMMA DrivingCloseKeepsIInv ==
  ASSUME IInv, NEW c \in Closers, WritesOff(c) \/ Releases(c) PROVE IInv'
<1> USE DEF IInv
<1>1. PICK ok \in BOOLEAN : DrivesOff(ok)
  BY DEF WritesOff, Releases
<1>2. /\ Up /\ at[c] \in {"write", "release"}
      /\ UNCHANGED <<config, backend, loop, graceful, driving, process, stop, stopping>>
      /\ line' \in {line, FALSE}
  BY DEF WritesOff, Releases, Moves, fixed, control
<1>3. PICK next \in {"shut", "leave"} : at' = [at EXCEPT ![c] = next]
  BY DEF WritesOff, Releases, Moves
<1>4. /\ history' \in Histories
      /\ (history'.blind <=> history.blind)
      /\ (history'.off <=> history.off \/ ok) /\ (history'.failed <=> ~ok)
      /\ duty' = IF ok THEN "off" ELSE duty
  BY <1>1, DrivenOff DEF FanTypeOK
<1>5. shown' \in Snapshots /\ (shown'.error <=> shown.error)
  <2>1. CASE WritesOff(c)
    <3>1. shown' = [shown EXCEPT !.duty = "off"] /\ "off" \in Levels
      BY <2>1 DEF WritesOff, Levels
    <3> QED BY <3>1, ShownDuty DEF FanTypeOK
  <2>2. CASE Releases(c)
    BY <2>2 DEF Releases, FanTypeOK
  <2> QED BY <2>1, <2>2
<1>6. loop \in {"none", "done"}
  BY <1>2, SMT DEF LoopOver
<1>7. ~Untouched'
  BY <1>2, <1>3, SMT DEF Untouched, FanTypeOK
<1>8. FanTypeOK'
  <2>1. duty' \in Levels /\ line' \in BOOLEAN
    BY <1>2, <1>4, Zenon DEF FanTypeOK, Levels
  <2> QED BY <1>2, <1>3, <1>4, <1>5, <2>1, SMT DEF FanTypeOK
<1>9. Untried' /\ LoopOver'
  BY <1>2, <1>3, <1>4, <1>6, SMT DEF Untried, LoopOver, Up
<1>10. Driven0'
  BY <1>4 DEF Driven0
<1>11. FanOver' /\ FullWhenBlind' /\ ShownIsDriven'
  BY <1>7, <1>10 DEF FanOver, FullWhenBlind, ShownIsDriven
<1>12. LoopInv'
  BY <1>2, <1>4, <1>5, <1>6, SMT DEF LoopInv
<1>13. ClosedStaysOff'
  <2>1. history'.off => duty' = "off"
    BY <1>4 DEF ClosedStaysOff
  <2> QED BY <1>10, <2>1 DEF ClosedStaysOff, Driven0
<1> QED BY <1>8, <1>9, <1>11, <1>12, <1>13

\* What the process does as a whole disturbs nothing of it.
LEMMA ProcessKeepsIInv ==
  ASSUME IInv, FanCancel \/ FanExit \/ (\E c \in Closers : Panics(c)) \/ UNCHANGED fanVars
  PROVE  IInv'
<1> USE DEF IInv
<1>1. /\ UNCHANGED <<config, backend, duty, line, shown, loop, graceful, driving, at, stop, history>>
      /\ stopping' \in {stopping, TRUE}
      /\ process' = process \/ process' \in {"exited", "panicked"}
  BY DEF FanCancel, FanExit, Panics, fanVars, fixed, control, closing
<1>2. FanTypeOK'
  <2>1. stopping' \in BOOLEAN
    BY <1>1, Zenon DEF FanTypeOK
  <2> QED BY <1>1, <2>1, SMT DEF FanTypeOK
<1>3. Untried' /\ LoopOver' /\ FanOver' /\ LoopInv'
  BY <1>1, SMT DEF Untried, LoopOver, FanOver, Driven0, LoopInv
<1>4. FullWhenBlind' /\ ShownIsDriven' /\ ClosedStaysOff'
  BY <1>1, SMT DEF FullWhenBlind, ShownIsDriven, Untouched, ClosedStaysOff
<1> QED BY <1>2, <1>3, <1>4

\* Every step keeps the invariant.
LEMMA NextKeepsIInv == IInv /\ [FanNext]_fanVars => IInv'
<1> SUFFICES ASSUME IInv, [FanNext]_fanVars PROVE IInv'
  OBVIOUS
<1>1. CASE Startup
  <2>1. {"full", config.min} \subseteq Levels
    BY SMT DEF IInv, FanTypeOK, Levels
  <2>2. CASE Test("full", "full", "fullWait")
    BY <2>1, <2>2, TestKeepsIInv
  <2>3. CASE Test("min", config.min, "minWait")
    <3>1. PICK level \in Levels : level = config.min
      BY <2>1
    <3>2. Test("min", level, "minWait")
      BY <2>3, <3>1
    <3> QED BY <3>2, TestKeepsIInv
  <2>4. CASE Elapses("fullWait", "min") \/ Elapses("minWait", "tick")
    BY <2>4, ElapsesKeepsIInv
  <2> QED BY <1>1, <2>2, <2>3, <2>4 DEF Startup
<1>2. ASSUME NEW c \in Closers, Call(c) \/ CloseStep(c) PROVE IInv'
  <2>1. CASE WritesOff(c) \/ Releases(c)
    BY <2>1, DrivingCloseKeepsIInv
  <2>2. CASE ~(WritesOff(c) \/ Releases(c))
    BY <1>2, <2>2, QuietCloseKeepsIInv DEF CloseStep
  <2> QED BY <2>1, <2>2
<1> QED
  BY <1>1, <1>2, StartKeepsIInv, LoopStopsKeepsIInv, FailSafeKeepsIInv, TempFailsKeepsIInv,
     TempReadsKeepsIInv, ProcessKeepsIInv DEF FanNext

\* The inductive invariant holds in every state.
THEOREM Invariant == FanSpec => []IInv
BY InitIInv, NextKeepsIInv, PTL DEF FanSpec

\* Every variable keeps its type.
THEOREM TypeCorrect == FanSpec => []FanTypeOK
BY Invariant, PTL DEF IInv

\* When nobody follows the temperature the fan is full on, unless the last write failed
\* (fancontrol/service.go 267-278, 340-357).
THEOREM FullWhileBlind == FanSpec => []FullWhenBlind
BY Invariant, PTL DEF IInv

\* The page shows the duty that is driven, or an error (service.go 281-303, 349-397).
THEOREM ShowsWhatIsDriven == FanSpec => []ShownIsDriven
BY Invariant, PTL DEF IInv

\* Once a Close has driven 0 nothing turns the fan on again (service.go 107-137).
THEOREM StaysOffOnceClosed == FanSpec => []ClosedStaysOff
BY Invariant, PTL DEF IInv
=============================================================================
