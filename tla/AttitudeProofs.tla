--------------------------- MODULE AttitudeProofs ---------------------------
(***************************************************************************)
(* The attitude from the sensor to the browser: AHRS, for any clients and  *)
(* any axes, and AttitudeHub, for any handlers and any buffer.             *)
(***************************************************************************)
EXTENDS AHRS, AttitudeHub, TLAPS

\* The attitude follows from the offset, unless Set Level has been pressed since the last
\* sample; pressed once, it makes every attitude zero that follows.
LevelInv ==
  /\ valid /\ level \notin {"pressed", "again"} => roll = Tilt + offset
  /\ level \in {"pressed", "shown"} => offset = 0 - Tilt
  /\ LevelHolds

\* A caller has asked for one thing at most, and waits for it without an answer. Its window
\* has passed when it was noted to have.
HasAsked(c) ==
  /\ c \in {zeroDriftCh, cal.for} => caller[c] = "drift" /\ reply[c] = "none"
  /\ c # zeroDriftCh \/ c # cal.for
  /\ c = orientCh.for => caller[c] = orientCh.action /\ reply[c] = "none"
  /\ c = capture.for => caller[c] = "done" /\ reply[c] = "none"
  /\ c # orientCh.for \/ c # capture.for
  /\ caller[c] \in {"idle", "persist"} => reply[c] = "none"
  /\ c = cal.for /\ cal.elapsed => c \in waited

CallInv ==
  /\ \A c \in Callers : HasAsked(c)
  /\ startup = "warmup" => caller[Startup] = "idle"
  /\ DriftMeasured

\* An orientation needs a forward axis, and so does the window of Done, in which the board
\* stays as it is mounted.
OrientInv ==
  /\ orientCh.action = "none" => orientCh = NoRequest
  /\ capture.elapsed => capture.for # Nobody
  /\ Oriented \/ capture.for # Nobody => forward # 0
  /\ orientCh.action = "done" \/ capture.for # Nobody => pose = Mount
  /\ FrameRebuildable

AHRSInv == TypeOK /\ ValidFromHealthy /\ LevelInv /\ CallInv /\ OrientInv

---------------------------------------------------------------------------
(* Windows and requests *)

\* What becomes of a window: it is opened, its time passes, its caller leaves.
LEMMA Fields ==
  ASSUME NEW S, NEW w \in [for: S, elapsed: BOOLEAN], NEW x
  PROVE  /\ w.for \in S /\ w.elapsed \in BOOLEAN
         /\ x \in S => [w EXCEPT !.for = x] \in [for: S, elapsed: BOOLEAN]
         /\ [w EXCEPT !.for = x].for = x /\ [w EXCEPT !.for = x].elapsed = w.elapsed
         /\ w.for = x => [w EXCEPT !.for = x] = w
         /\ [w EXCEPT !.elapsed = TRUE] \in [for: S, elapsed: BOOLEAN]
         /\ [w EXCEPT !.elapsed = TRUE].for = w.for /\ [w EXCEPT !.elapsed = TRUE].elapsed
<1>1. [w EXCEPT !.elapsed = TRUE] \in [for: S, elapsed: BOOLEAN]
  BY Zenon
<1>2. [w EXCEPT !.elapsed = TRUE].elapsed = TRUE
  BY Zenon
<1>3. w.for \in S /\ w.elapsed \in BOOLEAN
  BY Zenon
<1> QED BY <1>1, <1>2, <1>3, SMT

LEMMA Windows ==
  ASSUME NEW w \in Window \cup {NoWindow}, NEW c \in Callers
  PROVE  /\ w.for \in Owners \cup {Nobody} /\ w.elapsed \in BOOLEAN
         /\ w.for = Nobody <=> w = NoWindow
         /\ w.for # Nobody => [w EXCEPT !.elapsed = TRUE] \in Window
         /\ [w EXCEPT !.for = Leaving(c, @)] \in Window \cup {NoWindow}
         /\ [w EXCEPT !.for = Leaving(c, @)].for = Leaving(c, w.for)
         /\ [w EXCEPT !.for = Leaving(c, @)].elapsed = w.elapsed
         /\ [w EXCEPT !.elapsed = TRUE].for = w.for
         /\ [w EXCEPT !.elapsed = TRUE].elapsed
<1>1. Nobody \notin Owners /\ Gone \in Owners /\ c # Nobody
  BY CallersAssumption DEF Owners, Callers
<1>2. NoWindow.for = Nobody /\ NoWindow \in [for: {Nobody}, elapsed: BOOLEAN]
  BY Zenon DEF NoWindow
<1>3. [w EXCEPT !.for = Leaving(c, @)] = [w EXCEPT !.for = Leaving(c, w.for)]
  OBVIOUS
<1>4. CASE w \in Window
  <2>1. w.for \in Owners /\ Leaving(c, w.for) \in Owners
    BY <1>1, <1>4, Fields DEF Window, Leaving
  <2> QED BY <1>1, <1>2, <1>3, <1>4, <2>1, Fields, Zenon DEF Window
<1>5. CASE w = NoWindow
  <2>1. Leaving(c, w.for) = w.for
    BY <1>1, <1>2, <1>5 DEF Leaving
  <2>2. w \in [for: {Nobody}, elapsed: BOOLEAN]
    BY <1>2, <1>5
  <2>3. [w EXCEPT !.for = Leaving(c, w.for)] = w
    <3>1. [w EXCEPT !.for = w.for] = w
      BY <2>2, Fields
    <3> QED BY <2>1, <3>1
  <2>4. [w EXCEPT !.elapsed = TRUE].for = w.for /\ [w EXCEPT !.elapsed = TRUE].elapsed
    BY <2>2, Fields, Zenon
  <2>5. w.for = Nobody /\ w.elapsed \in BOOLEAN
    BY <2>2, Fields, Zenon
  <2> QED BY <1>3, <1>5, <2>1, <2>3, <2>4, <2>5, Zenon
<1> QED BY <1>4, <1>5

LEMMA OpenedWindow ==
  ASSUME NEW c
  PROVE  /\ Opened(c).for = c /\ ~Opened(c).elapsed
         /\ c \in Owners => Opened(c) \in Window
<1>1. Opened(c).for = c /\ Opened(c).elapsed = FALSE
  BY Zenon DEF Opened
<1>2. c \in Owners => Opened(c) \in Window
  BY Zenon DEF Opened, Window
<1> QED BY <1>1, <1>2

LEMMA Requests ==
  ASSUME NEW r \in OrientRequest \cup {NoRequest}, NEW c \in Callers
  PROVE  /\ r.for \in Owners \cup {Nobody} /\ r.action \in {"none", "forward", "done"}
         /\ r.action = "none" <=> r = NoRequest
         /\ r # NoRequest => r.for \in Owners
         /\ [r EXCEPT !.for = Leaving(c, @)] \in OrientRequest \cup {NoRequest}
         /\ [r EXCEPT !.for = Leaving(c, @)].for = Leaving(c, r.for)
         /\ [r EXCEPT !.for = Leaving(c, @)].action = r.action
<1>1. NoRequest.for = Nobody /\ NoRequest.action = "none" /\ Gone \in Owners
  BY DEF NoRequest, Owners
<1>2. CASE r \in OrientRequest
  <2>1. /\ r = [action |-> r.action, for |-> r.for]
        /\ r.for \in Owners /\ r.action \in {"forward", "done"}
    BY <1>2, Zenon DEF OrientRequest
  <2>2. [r EXCEPT !.for = Leaving(c, @)] = [action |-> r.action, for |-> Leaving(c, r.for)]
    BY <2>1
  <2>3. Leaving(c, r.for) \in Owners
    BY <1>1, <2>1 DEF Leaving
  <2> QED BY <1>1, <2>1, <2>2, <2>3 DEF OrientRequest
<1>3. CASE r = NoRequest
  <2>1. Leaving(c, Nobody) = Nobody
    BY CallersAssumption DEF Leaving, Callers
  <2>2. [r EXCEPT !.for = Leaving(c, @)] = [action |-> "none", for |-> Nobody]
    BY <1>3, <2>1 DEF NoRequest
  <2> QED BY <1>1, <1>3, <2>1, <2>2 DEF NoRequest
<1> QED BY <1>2, <1>3

---------------------------------------------------------------------------
(* Set Level and the published errors *)

LEMMA Angles ==
  ASSUME TypeOK
  PROVE  roll \in Int /\ offset \in Int
BY Zenon DEF TypeOK, PublishedOK

\* Only a sample changes the attitude, and only Set Level the offset.
LEMMA StepKeepsLevelInv ==
  ASSUME TypeOK, LevelInv, [Next]_vars
  PROVE  LevelInv'
<1>0. Tilt \in Int /\ roll \in Int /\ offset \in Int
  BY LevelsAssumption, Angles
<1>1. CASE Sample
  <2>1. roll' = Tilt + offset /\ offset' = offset /\ level' = Shown
    BY <1>1 DEF Sample
  <2>2. level' \notin {"pressed", "again"} \/ level' = level
    BY <2>1 DEF Shown
  <2>3. level' # "pressed"
    BY <2>1 DEF Shown
  <2>4. level' = "shown" => level \in {"pressed", "shown"}
    BY <2>1 DEF Shown
  <2>5. offset = 0 - Tilt => roll' = 0
    BY <1>0, <2>1
  <2> QED BY <2>1, <2>3, <2>4, <2>5 DEF LevelInv, LevelHolds
<1>2. CASE SetLevel /\ UNCHANGED <<valid, roll>>
  <2>1. valid /\ offset' = offset - roll
    BY <1>2 DEF SetLevel
  <2>2. level' \in {"pressed", "again"}
    BY <1>2 DEF SetLevel
  <2>3. ASSUME level' = "pressed" PROVE offset' = 0 - Tilt
    <3>1. level \notin {"pressed", "again"}
      BY <1>2, <2>3 DEF SetLevel
    <3>2. roll = Tilt + offset
      BY <2>1, <3>1 DEF LevelInv
    <3> QED BY <1>0, <2>1, <3>2
  <2> QED BY <2>2, <2>3 DEF LevelInv, LevelHolds
<1>3. CASE UNCHANGED <<roll, offset, level>> /\ (valid' => valid)
  BY <1>3 DEF LevelInv, LevelHolds
<1> QED
  <2>1. CASE Read
    BY <1>1, <1>3, <2>1 DEF Read, SampleFails, BaroFound, BaroNotFound, BaroFails, BaroReads,
       FailIMU, FailBaro, ClearBaro, history
  <2>2. CASE ServeRequest \/ Stop \/ CalibrationElapses \/ CaptureElapses
    BY <1>3, <2>2 DEF ServeRequest, TakeZeroDrift, TakeOrientation, Stop, CalibrationElapses,
       CaptureElapses, published, history
  <2>3. CASE \E c \in Clients : Request(c) \/ Receive(c) \/ Timeout(c) \/ Persist(c)
    BY <1>3, <2>3 DEF Request, CallZeroDrift, CallOrient, Receive, Timeout, Persist, published,
       history
  <2>4. CASE PressLevel \/ MoveBoard
    BY <1>2, <1>3, <2>4 DEF PressLevel, MoveBoard, published, history
  <2>5. CASE StartupStep
    BY <1>2, <1>3, <2>5 DEF StartupStep, WarmUp, AwaitDrift, LevelAtStart, StartupStops,
       CallZeroDrift, published, history
  <2>6. CASE UNCHANGED vars
    BY <1>3, <2>6 DEF vars, published, history
  <2> QED BY <2>1, <2>2, <2>3, <2>4, <2>5, <2>6 DEF Next

LEMMA StepKeepsHealthy ==
  ASSUME TypeOK, ValidFromHealthy, [Next]_vars
  PROVE  ValidFromHealthy'
<1>1. pose # 0
  <2>1. pose \in {Nose, Mount}
    BY DEF TypeOK
  <2> QED BY <2>1, AxesAssumption
<1>2. CASE Sample
  BY <1>1, <1>2 DEF Sample, ClearIMU, ValidFromHealthy
<1>3. CASE SampleFails \/ BaroFound \/ BaroNotFound \/ BaroFails \/ BaroReads
  <2>1. last' = last
    BY <1>3 DEF SampleFails, BaroFound, BaroNotFound, BaroFails, BaroReads, local
  <2>2. CASE SampleFails
    BY <2>1, <2>2 DEF SampleFails, FailIMU, ValidFromHealthy
  <2>3. CASE BaroFound
    BY <2>1, <2>3 DEF BaroFound, ValidFromHealthy
  <2>4. CASE BaroNotFound \/ BaroFails
    BY <2>1, <2>4 DEF BaroNotFound, BaroFails, FailBaro, ValidFromHealthy
  <2>5. CASE BaroReads
    BY <2>1, <2>5 DEF BaroReads, ClearBaro, ValidFromHealthy
  <2> QED BY <1>3, <2>2, <2>3, <2>4, <2>5
<1>4. CASE UNCHANGED <<valid, baroDetected, altValid, imuErr, baroErr, last>>
  BY <1>4 DEF ValidFromHealthy
<1> QED
  <2>1. CASE ServeRequest \/ Stop \/ CalibrationElapses \/ CaptureElapses
    BY <1>4, <2>1 DEF ServeRequest, TakeZeroDrift, TakeOrientation, Stop, CalibrationElapses,
       CaptureElapses, published
  <2>2. CASE \E c \in Clients : Request(c) \/ Receive(c) \/ Timeout(c) \/ Persist(c)
    BY <1>4, <2>2 DEF Request, Receive, Timeout, Persist, published, local
  <2>3. CASE PressLevel \/ MoveBoard \/ StartupStep \/ UNCHANGED vars
    BY <1>4, <2>3 DEF PressLevel, MoveBoard, StartupStep, WarmUp, AwaitDrift, LevelAtStart,
       StartupStops, published, local, vars
  <2> QED BY <1>2, <1>3, <2>1, <2>2, <2>3 DEF Next, Read

---------------------------------------------------------------------------
(* Types *)

LEMMA StepKeepsPublished ==
  ASSUME TypeOK, [Next]_vars
  PROVE  PublishedOK'
<1>1. CASE SampleFails
  BY <1>1, Zenon DEF SampleFails, FailIMU, TypeOK, PublishedOK
<1>2. CASE BaroFound
  BY <1>2, Zenon DEF BaroFound, TypeOK, PublishedOK
<1>3. CASE BaroNotFound
  BY <1>3, Zenon DEF BaroNotFound, FailBaro, TypeOK, PublishedOK
<1>4. CASE BaroFails
  BY <1>4, Zenon DEF BaroFails, FailBaro, TypeOK, PublishedOK
<1>5. CASE BaroReads
  BY <1>5, Zenon DEF BaroReads, ClearBaro, TypeOK, PublishedOK
<1>6. CASE Sample
  <2>1. roll' \in Int
    <3>1. roll' = Tilt + offset
      BY <1>6, Zenon DEF Sample
    <3> QED BY <3>1, Angles, LevelsAssumption
  <2> QED BY <1>6, <2>1, Zenon DEF Sample, ClearIMU, TypeOK, PublishedOK
<1>7. CASE SetLevel /\ UNCHANGED <<valid, baroDetected, altValid, imuErr, baroErr, lastError, roll>>
           /\ ready' \in BOOLEAN
  <2>1. offset' \in Int
    <3>1. offset' = offset - roll
      BY <1>7, Zenon DEF SetLevel
    <3> QED BY <3>1, Angles
  <2> QED BY <1>7, <2>1, Zenon DEF TypeOK, PublishedOK
<1>8. CASE UNCHANGED published
  BY <1>8, Zenon DEF published, TypeOK, PublishedOK
<1>9. CASE UNCHANGED <<valid, baroDetected, altValid, imuErr, baroErr, lastError, roll, offset>>
           /\ ready' \in BOOLEAN
  BY <1>9, Zenon DEF TypeOK, PublishedOK
<1>10. ready \in BOOLEAN
  BY Zenon DEF TypeOK, PublishedOK
<1> QED
  <2>1. CASE ServeRequest \/ Stop \/ CalibrationElapses \/ CaptureElapses
    BY <1>8, <2>1 DEF ServeRequest, TakeZeroDrift, TakeOrientation, Stop, CalibrationElapses,
       CaptureElapses
  <2>2. CASE \E c \in Clients : Request(c) \/ Receive(c) \/ Timeout(c) \/ Persist(c)
    BY <1>8, <2>2 DEF Request, Receive, Timeout, Persist
  <2>3. CASE PressLevel
    BY <1>7, <1>10, <2>3, Zenon DEF PressLevel
  <2>4. CASE WarmUp
    BY <1>9, <1>10, <2>4, Zenon DEF WarmUp
  <2>5. CASE LevelAtStart
    BY <1>7, <1>9, <2>5, Zenon DEF LevelAtStart
  <2>6. CASE MoveBoard \/ AwaitDrift \/ StartupStops \/ UNCHANGED vars
    BY <1>8, <2>6 DEF MoveBoard, AwaitDrift, StartupStops, vars
  <2> QED BY <1>1, <1>2, <1>3, <1>4, <1>5, <1>6, <2>1, <2>2, <2>3, <2>4, <2>5, <2>6
          DEF Next, Read, StartupStep

\* What a window of gravity leaves behind.
LEMMA CaptureEnding ==
  ASSUME TypeOK, OrientInv, NEW answer \in {"none", "ok", "err"}, CaptureEnds(answer)
  PROVE  /\ capture' = NoWindow \/ UNCHANGED capture
         /\ gravity' \in Axes \cup {0} /\ bodyX' \in Axes \cup {0}
         /\ UNCHANGED <<gravity, bodyX>>
            \/ /\ capture.elapsed /\ answer = "ok"
               /\ gravity' = Captured /\ bodyX' \in BodyXFor(Captured)
<1>1. pose \in Axes
  BY AxesAssumption DEF TypeOK, Axes
<1>2. Captured \in Axes
  BY <1>1 DEF Captured, InBody, Axes
<1>3. CASE capture.elapsed
  <2>1. forward \in Axes
    BY <1>3 DEF OrientInv, TypeOK, OrientationOK
  <2>2. BodyXFor(Captured) \subseteq Axes
    BY <2>1 DEF BodyXFor
  <2> QED BY <1>2, <1>3, <2>2 DEF CaptureEnds, TypeOK, OrientationOK
<1>4. CASE ~capture.elapsed
  BY <1>4 DEF CaptureEnds, TypeOK, OrientationOK
<1> QED BY <1>3, <1>4

LEMMA StepKeepsLocal ==
  ASSUME TypeOK, OrientInv, [Next]_vars
  PROVE  LocalOK'
<1>0. Startup \in Callers
  BY DEF Callers
<1>1. CASE Sample
  <2>1. PICK answer \in {"none", "ok", "err"} : CaptureEnds(answer)
    BY <1>1 DEF Sample
  <2>2. capture' \in Window \cup {NoWindow}
    BY <2>1, CaptureEnding, Zenon DEF TypeOK, LocalOK
  <2>3. last' \in Axes \cup {0}
    BY <1>1, AxesAssumption, Zenon DEF Sample, TypeOK, Axes
  <2>4. cal' \in Window \cup {NoWindow}
    BY <1>1, Zenon DEF Sample, TypeOK, LocalOK
  <2> QED BY <1>1, <2>2, <2>3, <2>4, Zenon DEF Sample, TypeOK, LocalOK
<1>2. CASE BaroFound
  BY <1>2, Zenon DEF BaroFound, TypeOK, LocalOK
<1>3. CASE CalibrationElapses
  <2>1. cal' \in Window
    BY <1>0, <1>3, Windows, Zenon DEF CalibrationElapses, TypeOK, LocalOK
  <2> QED BY <1>3, <2>1, Zenon DEF CalibrationElapses, TypeOK, LocalOK
<1>4. CASE CaptureElapses
  <2>1. capture' \in Window
    BY <1>0, <1>4, Windows, Zenon DEF CaptureElapses, TypeOK, LocalOK
  <2> QED BY <1>4, <2>1, Zenon DEF CaptureElapses, TypeOK, LocalOK
<1>5. CASE TakeZeroDrift
  <2>1. cal' \in Window
    BY <1>5, OpenedWindow, Zenon DEF TakeZeroDrift, TypeOK, RequestsOK
  <2> QED BY <1>5, <2>1, Zenon DEF TakeZeroDrift, TypeOK, LocalOK
<1>6. CASE TakeOrientation
  <2>1. orientCh.for \in Owners
    BY <1>0, <1>6, Requests, Zenon DEF TakeOrientation, TypeOK, RequestsOK
  <2>2. capture' = Opened(orientCh.for) \/ UNCHANGED capture
    BY <1>6, Zenon DEF TakeOrientation
  <2>3. capture' \in Window \cup {NoWindow}
    BY <2>1, <2>2, OpenedWindow, Zenon DEF TypeOK, LocalOK
  <2> QED BY <1>6, <2>3, Zenon DEF TakeOrientation, TypeOK, LocalOK
<1>7. CASE Stop
  BY <1>7, Zenon DEF Stop, TypeOK, LocalOK
<1>8. ASSUME NEW c \in Clients, Timeout(c) PROVE LocalOK'
  <2>1. /\ cal' \in Window \cup {NoWindow}
        /\ capture' \in Window \cup {NoWindow}
    BY <1>8, Windows, Zenon DEF Timeout, TypeOK, LocalOK, Callers
  <2> QED BY <1>8, <2>1, Zenon DEF Timeout, TypeOK, LocalOK
<1>9. CASE UNCHANGED local
  BY <1>9, Zenon DEF local, TypeOK, LocalOK
<1> QED
  <2>1. CASE SampleFails \/ BaroNotFound \/ BaroFails \/ BaroReads
    BY <1>9, <2>1 DEF SampleFails, BaroNotFound, BaroFails, BaroReads
  <2>2. CASE \E c \in Clients : Request(c) \/ Receive(c) \/ Persist(c)
    BY <1>9, <2>2 DEF Request, Receive, Persist
  <2>3. CASE PressLevel \/ MoveBoard \/ StartupStep \/ UNCHANGED vars
    BY <1>9, <2>3 DEF PressLevel, MoveBoard, StartupStep, WarmUp, AwaitDrift, LevelAtStart,
       StartupStops, vars
  <2> QED BY <1>1, <1>2, <1>3, <1>4, <1>5, <1>6, <1>7, <1>8, <2>1, <2>2, <2>3
          DEF Next, Read, ServeRequest

LEMMA StepKeepsHistory ==
  ASSUME TypeOK, [Next]_vars
  PROVE  /\ HistoryOK' /\ pose' \in {Nose, Mount}
         /\ startup' \in {"warmup", "drift", "level", "over"}
<1>1. pose' \in {Nose, Mount}
  <2>1. CASE MoveBoard
    BY <2>1, Zenon DEF MoveBoard
  <2>2. CASE UNCHANGED pose
    BY <2>2, Zenon DEF TypeOK
  <2> QED BY <2>1, <2>2 DEF Next, Read, Sample, SampleFails, BaroFound, BaroNotFound, BaroFails,
      BaroReads, ServeRequest, TakeZeroDrift, TakeOrientation, Stop, CalibrationElapses,
      CaptureElapses, Request, Receive, Timeout, Persist, PressLevel, StartupStep, WarmUp,
      AwaitDrift, LevelAtStart, StartupStops, vars
<1>2. startup' \in {"warmup", "drift", "level", "over"}
  <2>1. CASE StartupStep
    BY <2>1 DEF StartupStep, WarmUp, AwaitDrift, LevelAtStart, StartupStops
  <2>2. CASE UNCHANGED startup
    BY <2>2, Zenon DEF TypeOK
  <2> QED BY <2>1, <2>2 DEF Next, Read, Sample, SampleFails, BaroFound, BaroNotFound, BaroFails,
      BaroReads, ServeRequest, TakeZeroDrift, TakeOrientation, Stop, CalibrationElapses,
      CaptureElapses, Request, Receive, Timeout, Persist, PressLevel, MoveBoard, vars
<1>3. scene' = scene
  BY DEF Next, Read, Sample, SampleFails, BaroFound, BaroNotFound, BaroFails,
      BaroReads, ServeRequest, TakeZeroDrift, TakeOrientation, Stop, CalibrationElapses,
      CaptureElapses, Request, Receive, Timeout, Persist, PressLevel, MoveBoard, StartupStep,
      WarmUp, AwaitDrift, LevelAtStart, StartupStops, CallZeroDrift, CallOrient, history, vars
<1>4. waited' \subseteq Callers
  <2>1. waited \subseteq Callers
    BY Zenon DEF TypeOK, HistoryOK
  <2>2. waited' \subseteq waited \cup Callers
    BY DEF Next, Read, Sample, SampleFails, BaroFound, BaroNotFound, BaroFails,
      BaroReads, ServeRequest, TakeZeroDrift, TakeOrientation, Stop, CalibrationElapses,
      CaptureElapses, Request, Receive, Timeout, Persist, PressLevel, MoveBoard, StartupStep,
      WarmUp, AwaitDrift, LevelAtStart, StartupStops, CallZeroDrift, CallOrient, history, vars
  <2> QED BY <2>1, <2>2
<1>5. level' \in {"never", "pressed", "shown", "again", "off"}
  <2>1. CASE Sample
    BY <2>1 DEF Sample, Shown, TypeOK, HistoryOK
  <2>2. CASE SetLevel
    BY <2>2 DEF SetLevel
  <2>3. CASE UNCHANGED level
    BY <2>3, Zenon DEF TypeOK, HistoryOK
  <2> QED BY <2>1, <2>2, <2>3 DEF Next, Read, SampleFails, BaroFound, BaroNotFound, BaroFails,
      BaroReads, ServeRequest, TakeZeroDrift, TakeOrientation, Stop, CalibrationElapses,
      CaptureElapses, Request, Receive, Timeout, Persist, PressLevel, MoveBoard, StartupStep,
      WarmUp, AwaitDrift, LevelAtStart, StartupStops, CallZeroDrift, CallOrient, history, vars
<1>6. levels' \in 0..MaxLevels
  <2>1. levels \in 0..MaxLevels
    BY Zenon DEF TypeOK, HistoryOK
  <2>2. levels' = levels \/ (levels > 0 /\ levels' = levels - 1)
    BY DEF Next, Read, Sample, SampleFails, BaroFound, BaroNotFound, BaroFails,
      BaroReads, ServeRequest, TakeZeroDrift, TakeOrientation, Stop, CalibrationElapses,
      CaptureElapses, Request, Receive, Timeout, Persist, PressLevel, MoveBoard, StartupStep,
      WarmUp, AwaitDrift, LevelAtStart, StartupStops, CallZeroDrift, CallOrient, history, vars
  <2> QED BY <2>1, <2>2, LevelsAssumption
<1> QED BY <1>1, <1>2, <1>3, <1>4, <1>5, <1>6, Zenon DEF TypeOK, HistoryOK

LEMMA StepKeepsOrientation ==
  ASSUME TypeOK, OrientInv, [Next]_vars
  PROVE  OrientationOK' /\ (forward # 0 => forward' # 0)
<1>1. CASE Sample
  <2>1. PICK answer \in {"none", "ok", "err"} : CaptureEnds(answer)
    BY <1>1 DEF Sample
  <2>2. gravity' \in Axes \cup {0} /\ bodyX' \in Axes \cup {0}
    BY <2>1, CaptureEnding, Zenon
  <2> QED BY <1>1, <2>2, Zenon DEF Sample, TypeOK, OrientationOK
<1>2. CASE SetForward(last) /\ last # 0
  <2>1. last \in Axes \cup {0}
    BY Zenon DEF TypeOK, LocalOK
  <2> QED BY <1>2, <2>1, Zenon DEF SetForward, TypeOK, OrientationOK
<1>3. ASSUME NEW c \in Clients, Persist(c) PROVE OrientationOK' /\ forward' = forward
  <2>1. CASE Oriented
    <3>1. forward \in Axes /\ gravity \in Axes
      BY <2>1 DEF Oriented, OrientInv, TypeOK, OrientationOK
    <3>2. [forward |-> forward, gravity |-> gravity] \in [forward: Axes, gravity: Axes]
      BY <3>1
    <3> QED BY <1>3, <3>2, Zenon DEF Persist, TypeOK, OrientationOK
  <2>2. CASE ~Oriented
    BY <1>3, <2>2, Zenon DEF Persist, TypeOK, OrientationOK
  <2> QED BY <2>1, <2>2
<1>4. CASE UNCHANGED orientation
  BY <1>4, Zenon DEF orientation, TypeOK, OrientationOK
<1> QED
  <2>1. CASE SampleFails \/ BaroFound \/ BaroNotFound \/ BaroFails \/ BaroReads
    BY <1>4, <2>1 DEF SampleFails, BaroFound, BaroNotFound, BaroFails, BaroReads
  <2>2. CASE TakeZeroDrift \/ Stop \/ CalibrationElapses \/ CaptureElapses
    BY <1>4, <2>2 DEF TakeZeroDrift, Stop, CalibrationElapses, CaptureElapses
  <2>3. CASE TakeOrientation
    BY <1>2, <1>4, <2>3 DEF TakeOrientation
  <2>4. CASE \E c \in Clients : Request(c) \/ Receive(c) \/ Timeout(c)
    BY <1>4, <2>4 DEF Request, Receive, Timeout
  <2>5. CASE PressLevel \/ MoveBoard \/ StartupStep \/ UNCHANGED vars
    BY <1>4, <2>5 DEF PressLevel, MoveBoard, StartupStep, WarmUp, AwaitDrift, LevelAtStart,
       StartupStops, vars
  <2> QED BY <1>1, <1>3, <2>1, <2>2, <2>3, <2>4, <2>5 DEF Next, Read, ServeRequest

---------------------------------------------------------------------------
(* Callers *)

LEMMA AnswerKeepsType ==
  ASSUME TypeOK, NEW c, NEW answer \in {"none", "ok", "err"}, Reply(c, answer)
  PROVE  /\ reply' \in [Callers -> {"none", "ok", "err"}]
         /\ \A d \in Callers : reply'[d] = IF d = c THEN answer ELSE reply[d]
<1>1. \A d \in Callers : reply[d] \in {"none", "ok", "err"}
  BY Zenon DEF TypeOK, RequestsOK
<1> QED BY <1>1 DEF Reply

LEMMA CallerType ==
  ASSUME TypeOK, NEW c \in Callers,
         NEW s \in {"idle", "drift", "forward", "done", "persist"},
         caller' = [caller EXCEPT ![c] = s]
  PROVE  /\ caller' \in [Callers -> {"idle", "drift", "forward", "done", "persist"}]
         /\ caller'[c] = s
         /\ \A d \in Callers : d # c => caller'[d] = caller[d]
<1>1. caller \in [Callers -> {"idle", "drift", "forward", "done", "persist"}]
  BY Zenon DEF TypeOK, RequestsOK
<1> QED BY <1>1

LEMMA StepKeepsRequests ==
  ASSUME TypeOK, [Next]_vars
  PROVE  RequestsOK'
<1>0. Clients \subseteq Callers /\ Startup \in Callers
  BY DEF Callers
<1>1. CASE Sample
  <2>1. PICK answer \in {"none", "ok", "err"} : reply' = [c \in Callers |-> Answered(c, answer)]
    BY <1>1 DEF Sample
  <2>2. \A c \in Callers : reply[c] \in {"none", "ok", "err"}
    BY Zenon DEF TypeOK, RequestsOK
  <2>3. \A c \in Callers : Answered(c, answer) \in {"none", "ok", "err"}
    BY <2>2 DEF Answered
  <2> QED BY <1>1, <2>1, <2>3, Zenon DEF Sample, TypeOK, RequestsOK
<1>2. CASE TakeZeroDrift
  BY <1>2, Zenon DEF TakeZeroDrift, TypeOK, RequestsOK
<1>3. CASE TakeOrientation
  <2>1. reply' \in [Callers -> {"none", "ok", "err"}]
    <3>1. CASE UNCHANGED reply
      BY <3>1, Zenon DEF TypeOK, RequestsOK
    <3>2. CASE \E answer \in {"none", "ok", "err"} : Reply(orientCh.for, answer)
      BY <3>2, AnswerKeepsType, Zenon
    <3> QED BY <1>3, <3>1, <3>2, Zenon DEF TakeOrientation
  <2> QED BY <1>3, <2>1, Zenon DEF TakeOrientation, TypeOK, RequestsOK
<1>4. ASSUME NEW c \in Callers, CallZeroDrift(c) PROVE RequestsOK'
  <2>1. CASE UNCHANGED caller
    BY <1>4, <2>1, Zenon DEF CallZeroDrift, TypeOK, RequestsOK, Owners
  <2>2. CASE caller' = [caller EXCEPT ![c] = "drift"]
    <3>1. caller' \in [Callers -> {"idle", "drift", "forward", "done", "persist"}]
      BY <2>2, CallerType, Zenon
    <3> QED BY <1>4, <3>1, Zenon DEF CallZeroDrift, TypeOK, RequestsOK, Owners
  <2> QED BY <1>4, <2>1, <2>2 DEF CallZeroDrift
<1>5. ASSUME NEW c \in Callers, NEW action \in {"forward", "done"}, CallOrient(c, action)
      PROVE  RequestsOK'
  <2>1. caller' \in [Callers -> {"idle", "drift", "forward", "done", "persist"}]
    BY <1>5, CallerType, Zenon DEF CallOrient
  <2>2. orientCh' \in OrientRequest
    BY <1>5, Zenon DEF CallOrient, OrientRequest, Owners
  <2> QED BY <1>5, <2>1, <2>2, Zenon DEF CallOrient, TypeOK, RequestsOK
<1>6. ASSUME NEW c \in Callers, Receive(c) PROVE RequestsOK'
  <2>1. reply' \in [Callers -> {"none", "ok", "err"}]
    BY <1>6, AnswerKeepsType, Zenon DEF Receive
  <2>2. caller' = [caller EXCEPT ![c] = "persist"] \/ caller' = [caller EXCEPT ![c] = "idle"]
    BY <1>6 DEF Receive
  <2>3. caller' \in [Callers -> {"idle", "drift", "forward", "done", "persist"}]
    BY <2>2, CallerType, Zenon
  <2> QED BY <1>6, <2>1, <2>3, Zenon DEF Receive, TypeOK, RequestsOK
<1>7. ASSUME NEW c \in Callers, Timeout(c) PROVE RequestsOK'
  <2>1. reply' \in [Callers -> {"none", "ok", "err"}]
    BY <1>7, AnswerKeepsType, Zenon DEF Timeout
  <2>2. caller' \in [Callers -> {"idle", "drift", "forward", "done", "persist"}]
    BY <1>7, CallerType, Zenon DEF Timeout
  <2>3. zeroDriftCh' \in Owners \cup {Nobody}
    BY <1>7, Zenon DEF Timeout, Leaving, TypeOK, RequestsOK, Owners
  <2>4. orientCh' \in OrientRequest \cup {NoRequest}
    BY <1>7, Requests, Zenon DEF Timeout, TypeOK, RequestsOK
  <2> QED BY <2>1, <2>2, <2>3, <2>4, Zenon DEF RequestsOK
<1>8. ASSUME NEW c \in Callers, Persist(c) PROVE RequestsOK'
  <2>1. caller' \in [Callers -> {"idle", "drift", "forward", "done", "persist"}]
    BY <1>8, CallerType, Zenon DEF Persist
  <2> QED BY <1>8, <2>1, Zenon DEF Persist, TypeOK, RequestsOK
<1>9. CASE AwaitDrift
  <2>1. reply' \in [Callers -> {"none", "ok", "err"}]
    BY <1>9, AnswerKeepsType, Zenon DEF AwaitDrift
  <2>2. caller' \in [Callers -> {"idle", "drift", "forward", "done", "persist"}]
    BY <1>0, <1>9, CallerType, Zenon DEF AwaitDrift
  <2> QED BY <1>9, <2>1, <2>2, Zenon DEF AwaitDrift, TypeOK, RequestsOK
<1>10. CASE UNCHANGED requests
  BY <1>10, Zenon DEF requests, TypeOK, RequestsOK
<1> QED
  <2>1. CASE SampleFails \/ BaroFound \/ BaroNotFound \/ BaroFails \/ BaroReads
    BY <1>10, <2>1 DEF SampleFails, BaroFound, BaroNotFound, BaroFails, BaroReads
  <2>2. CASE Stop \/ CalibrationElapses \/ CaptureElapses
    BY <1>10, <2>2 DEF Stop, CalibrationElapses, CaptureElapses
  <2>3. CASE \E c \in Clients : Request(c)
    BY <1>0, <1>4, <1>5, <2>3 DEF Request
  <2>4. CASE WarmUp
    BY <1>0, <1>4, <1>10, <2>4 DEF WarmUp
  <2>5. CASE PressLevel \/ MoveBoard \/ LevelAtStart \/ StartupStops \/ UNCHANGED vars
    BY <1>10, <2>5 DEF PressLevel, MoveBoard, LevelAtStart, StartupStops, vars
  <2> QED BY <1>0, <1>1, <1>2, <1>3, <1>6, <1>7, <1>8, <1>9, <2>1, <2>2, <2>3, <2>4, <2>5
          DEF Next, Read, ServeRequest, StartupStep

---------------------------------------------------------------------------
(* The orientation *)

LEMMA StepKeepsOrientInv ==
  ASSUME TypeOK, OrientInv, [Next]_vars
  PROVE  OrientInv'
<1> USE DEF OrientInv, Oriented, FrameRebuildable, BodyXFor
<1>0. /\ NoWindow.for = Nobody /\ ~NoWindow.elapsed
      /\ NoRequest.action = "none"
  BY Zenon DEF NoWindow, NoRequest
<1>1. CASE Sample
  <2>1. PICK answer \in {"none", "ok", "err"} : CaptureEnds(answer)
    BY <1>1 DEF Sample
  <2>2. orientCh' = orientCh /\ pose' = pose /\ forward' = forward
    BY <1>1 DEF Sample
  <2>3. capture' = NoWindow \/ UNCHANGED capture
    BY <2>1, CaptureEnding
  <2>4. CASE UNCHANGED <<gravity, bodyX>>
    BY <1>0, <2>2, <2>3, <2>4
  <2>5. CASE capture.elapsed /\ gravity' = Captured /\ bodyX' \in BodyXFor(Captured)
    BY <1>0, <2>2, <2>3, <2>5
  <2> QED BY <2>1, <2>4, <2>5, CaptureEnding
<1>2. CASE TakeOrientation
  <2>1. /\ orientCh' = NoRequest /\ pose' = pose
        /\ orientCh.action = "done" => pose = Mount
    BY <1>2 DEF TakeOrientation
  <2>2. CASE SetForward(last) /\ last # 0 /\ UNCHANGED capture
    BY <1>0, <2>1, <2>2 DEF SetForward
  <2>3. CASE /\ orientCh.action = "done" /\ forward # 0 /\ capture' = Opened(orientCh.for)
             /\ orientCh.for # Nobody /\ UNCHANGED orientation
    BY <1>0, <2>1, <2>3, OpenedWindow DEF orientation
  <2>4. CASE UNCHANGED <<orientation, capture>>
    BY <1>0, <2>1, <2>4 DEF orientation
  <2>5. orientCh.for # Nobody
    <3>1. orientCh \in OrientRequest
      BY <1>2, Zenon DEF TakeOrientation, TypeOK, RequestsOK
    <3>2. orientCh.for \in Owners
      BY <3>1, Zenon DEF OrientRequest
    <3> QED BY <3>2, CallersAssumption DEF Owners, Callers
  <2> QED BY <1>2, <2>2, <2>3, <2>4, <2>5 DEF TakeOrientation
<1>3. CASE CaptureElapses
  <2>1. capture'.for = capture.for /\ capture.for # Nobody
    <3>1. Startup \in Callers
      BY DEF Callers
    <3> QED BY <1>3, <3>1, Windows, Zenon DEF CaptureElapses, TypeOK, LocalOK
  <2> QED BY <1>3, <2>1 DEF CaptureElapses, orientation, requests
<1>4. ASSUME NEW c \in Clients, Request(c) PROVE OrientInv'
  <2>1. capture' = capture /\ pose' = pose /\ UNCHANGED <<gravity, forward, bodyX>>
    BY <1>4 DEF Request, local, orientation
  <2>2. CASE UNCHANGED orientCh
    BY <2>1, <2>2
  <2>3. CASE orientCh' = [action |-> "forward", for |-> c]
    BY <2>1, <2>3
  <2>4. CASE orientCh' = [action |-> "done", for |-> c] /\ pose = Mount
    BY <2>1, <2>4
  <2> QED BY <1>4, <2>2, <2>3, <2>4 DEF Request, CallZeroDrift, CallOrient
<1>5. ASSUME NEW c \in Clients, Timeout(c) PROVE OrientInv'
  <2>1. pose' = pose /\ UNCHANGED <<gravity, forward, bodyX>>
    BY <1>5 DEF Timeout, orientation
  <2>2. /\ capture'.for = Leaving(c, capture.for) /\ capture'.elapsed = capture.elapsed
        /\ orientCh'.action = orientCh.action
        /\ orientCh' \in OrientRequest \cup {NoRequest}
    <3>1. c \in Callers
      BY DEF Callers
    <3>2. /\ capture \in Window \cup {NoWindow} /\ orientCh \in OrientRequest \cup {NoRequest}
      BY Zenon DEF TypeOK, LocalOK, RequestsOK
    <3>3. /\ capture' = [capture EXCEPT !.for = Leaving(c, @)]
          /\ orientCh' = [orientCh EXCEPT !.for = Leaving(c, @)]
      BY <1>5 DEF Timeout
    <3>4. capture'.for = Leaving(c, capture.for) /\ capture'.elapsed = capture.elapsed
      BY <3>1, <3>2, <3>3, Windows
    <3>5. /\ orientCh'.action = orientCh.action
          /\ orientCh' \in OrientRequest \cup {NoRequest}
      BY <3>1, <3>2, <3>3, Requests
    <3> QED BY <3>4, <3>5
  <2>3. orientCh'.action = "none" => orientCh' = NoRequest
    BY <1>5, <2>2, Requests, Zenon DEF Callers
  <2>4. Leaving(c, capture.for) = Nobody <=> capture.for = Nobody
    BY CallersAssumption DEF Leaving
  <2> QED BY <2>1, <2>2, <2>3, <2>4
<1>6. CASE MoveBoard
  BY <1>0, <1>6 DEF MoveBoard, orientation, requests, local
<1>7. CASE UNCHANGED <<orientCh, capture, gravity, forward, bodyX, pose>>
  BY <1>7
<1> QED
  <2>1. CASE SampleFails \/ BaroFound \/ BaroNotFound \/ BaroFails \/ BaroReads
    BY <1>7, <2>1 DEF SampleFails, BaroFound, BaroNotFound, BaroFails, BaroReads, local,
       orientation, requests
  <2>2. CASE TakeZeroDrift \/ Stop \/ CalibrationElapses
    BY <1>7, <2>2 DEF TakeZeroDrift, Stop, CalibrationElapses, orientation, requests
  <2>3. CASE \E c \in Clients : Receive(c) \/ Persist(c)
    BY <1>7, <2>3 DEF Receive, Persist, local, orientation
  <2>4. CASE PressLevel \/ StartupStep \/ UNCHANGED vars
    BY <1>7, <2>4 DEF PressLevel, StartupStep, WarmUp, AwaitDrift, LevelAtStart,
       StartupStops, CallZeroDrift, local, orientation, requests, vars
  <2> QED BY <1>1, <1>2, <1>3, <1>4, <1>5, <1>6, <2>1, <2>2, <2>3, <2>4
          DEF Next, Read, ServeRequest

\* The step that ends the window of a Done after Set Forward takes the axis of the mounted
\* board.
LEMMA StepTakesMount ==
  ASSUME TypeOK, OrientInv, [Next]_vars, ~Oriented, gravity' # 0
  PROVE  gravity' = Mount
<1>1. gravity' # gravity
  BY DEF Oriented
<1>2. CASE Sample
  <2>1. PICK answer \in {"none", "ok", "err"} : CaptureEnds(answer)
    BY <1>2 DEF Sample
  <2>2. capture.elapsed /\ gravity' = Captured
    BY <1>1, <2>1, CaptureEnding
  <2>3. pose = Mount
    BY <2>2 DEF OrientInv
  <2> QED BY <2>2, <2>3 DEF Captured, InBody
<1>3. CASE TakeOrientation
  BY <1>1, <1>3 DEF TakeOrientation, SetForward, orientation
<1>4. CASE UNCHANGED gravity
  BY <1>1, <1>4
<1> QED
  <2>1. CASE SampleFails \/ BaroFound \/ BaroNotFound \/ BaroFails \/ BaroReads
    BY <1>4, <2>1 DEF SampleFails, BaroFound, BaroNotFound, BaroFails, BaroReads, orientation
  <2>2. CASE TakeZeroDrift \/ Stop \/ CalibrationElapses \/ CaptureElapses
    BY <1>4, <2>2 DEF TakeZeroDrift, Stop, CalibrationElapses, CaptureElapses, orientation
  <2>3. CASE \E c \in Clients : Request(c) \/ Receive(c) \/ Timeout(c) \/ Persist(c)
    BY <1>4, <2>3 DEF Request, Receive, Timeout, Persist, orientation
  <2>4. CASE PressLevel \/ MoveBoard \/ StartupStep \/ UNCHANGED vars
    BY <1>4, <2>4 DEF PressLevel, MoveBoard, StartupStep, WarmUp, AwaitDrift, LevelAtStart,
       StartupStops, orientation, vars
  <2> QED BY <1>2, <1>3, <2>1, <2>2, <2>3, <2>4 DEF Next, Read, ServeRequest

---------------------------------------------------------------------------
(* Requests and their answers *)

\* The same for what CallInv says of one caller: it depends on what is his.
LEMMA Untouched ==
  ASSUME NEW c \in Callers, HasAsked(c),
         caller'[c] = caller[c], reply'[c] = reply[c],
         c = zeroDriftCh' => c = zeroDriftCh,
         c = cal'.for => c = cal.for /\ cal'.elapsed = cal.elapsed,
         c = orientCh'.for => c = orientCh.for /\ orientCh'.action = orientCh.action,
         c = capture'.for => c = capture.for,
         c \in waited => c \in waited'
  PROVE  HasAsked(c)'
BY DEF HasAsked

LEMMA StepKeepsCallInv ==
  ASSUME TypeOK, CallInv, [Next]_vars
  PROVE  CallInv'
<1> USE DEF CallInv
<1> DEFINE Measured(c) == caller[c] = "drift" /\ reply[c] = "ok" => c \in waited
<1>1. /\ Startup \in Callers /\ Clients \subseteq Callers /\ Startup \notin Clients
      /\ Nobody \notin Callers /\ Gone \notin Callers
      /\ NoWindow.for = Nobody /\ NoRequest.for = Nobody
  BY CallersAssumption DEF Callers, NoWindow, NoRequest
<1>2. \A c \in Callers : HasAsked(c) /\ Measured(c)
  BY DEF DriftMeasured
<1>0. orientCh.action \in {"none", "forward", "done"}
  BY <1>1, Requests, Zenon DEF TypeOK, RequestsOK
<1>3. ASSUME \A c \in Callers : HasAsked(c)' /\ Measured(c)',
             startup' = "warmup" => startup = "warmup" /\ caller'[Startup] = caller[Startup]
      PROVE  CallInv'
  BY <1>3 DEF DriftMeasured
<1>4. CASE Sample
  <2>1. PICK answer \in {"none", "ok", "err"} :
          CaptureEnds(answer) /\ reply' = [c \in Callers |-> Answered(c, answer)]
    BY <1>4 DEF Sample
  <2>2. /\ UNCHANGED <<caller, zeroDriftCh, orientCh, startup, waited>>
        /\ cal' = IF cal.elapsed THEN NoWindow ELSE cal
        /\ \/ answer = "none" /\ capture' = capture /\ ~capture.elapsed
           \/ capture' = NoWindow /\ capture.elapsed
    BY <1>4, <2>1 DEF Sample, CaptureEnds
  <2>3. ASSUME NEW c \in Callers PROVE HasAsked(c)' /\ Measured(c)'
    <3>1. reply'[c] = Answered(c, answer)
      BY <2>1, <2>3
    <3>2. CASE cal.elapsed /\ cal.for = c
      <4>1. reply'[c] = "ok" /\ caller[c] = "drift" /\ c \in waited /\ c # zeroDriftCh
            /\ c # orientCh.for /\ c # capture.for
        BY <1>0, <1>2, <3>1, <3>2 DEF Answered, HasAsked
      <4>2. c # capture'.for /\ c # cal'.for
        BY <1>1, <2>2, <3>2, <4>1
      <4> QED BY <2>2, <4>1, <4>2 DEF HasAsked
    <3>3. CASE capture.elapsed /\ capture.for = c /\ cal.for # c
      <4>1. caller[c] = "done" /\ c # zeroDriftCh /\ c # orientCh.for
        BY <1>2, <3>3 DEF HasAsked
      <4>2. c # capture'.for /\ c # cal'.for
        BY <1>1, <2>2, <3>3
      <4> QED BY <2>2, <4>1, <4>2 DEF HasAsked
    <3>4. CASE ~(cal.elapsed /\ cal.for = c) /\ ~(capture.elapsed /\ capture.for = c)
      <4>1. reply'[c] = reply[c]
        BY <3>1, <3>4 DEF Answered
      <4>2. c = cal'.for => cal' = cal
        BY <1>1, <2>2
      <4>3. c = capture'.for => capture' = capture
        BY <1>1, <2>2
      <4>4. HasAsked(c)'
        BY <1>2, <2>2, <4>1, <4>2, <4>3, Untouched, Zenon
      <4> QED BY <1>2, <2>2, <4>1, <4>4
    <3>5. cal.for = c => capture.for # c
      BY <1>2 DEF HasAsked
    <3> QED BY <3>2, <3>3, <3>4, <3>5
  <2> QED BY <1>3, <2>2, <2>3
<1>5. CASE TakeZeroDrift
  <2>1. /\ UNCHANGED <<caller, reply, orientCh, capture, startup, waited>>
        /\ zeroDriftCh' = Nobody
        /\ cal' = Opened(zeroDriftCh)
    BY <1>5 DEF TakeZeroDrift, history
  <2>2. cal'.for = zeroDriftCh /\ ~cal'.elapsed
    BY <2>1, OpenedWindow
  <2>3. ASSUME NEW c \in Callers PROVE HasAsked(c)' /\ Measured(c)'
    BY <1>1, <1>2, <2>1, <2>2 DEF HasAsked
  <2> QED BY <1>3, <2>1, <2>3
<1>6. CASE TakeOrientation
  <2>1. /\ UNCHANGED <<caller, zeroDriftCh, cal, startup, waited>>
        /\ orientCh' = NoRequest
    BY <1>6 DEF TakeOrientation, history
  <2>2. CASE /\ orientCh.action = "done" /\ capture' = Opened(orientCh.for)
             /\ UNCHANGED reply
    <3>1. capture'.for = orientCh.for
      BY <2>2, OpenedWindow
    <3>2. ASSUME NEW c \in Callers PROVE HasAsked(c)' /\ Measured(c)'
      BY <1>1, <1>2, <2>1, <2>2, <3>1 DEF HasAsked
    <3> QED BY <1>3, <2>1, <3>2
  <2>3. ASSUME NEW answer \in {"ok", "err"}, Reply(orientCh.for, answer), UNCHANGED capture,
               orientCh.action \in {"forward", "done"}
        PROVE  CallInv'
    <3>1. \A c \in Callers : reply'[c] = IF c = orientCh.for THEN answer ELSE reply[c]
      <4>1. PICK d : d = orientCh.for
        OBVIOUS
      <4>2. TypeOK /\ Reply(d, answer) /\ answer \in {"none", "ok", "err"}
        BY <2>3, <4>1
      <4>3. \A c \in Callers : reply'[c] = IF c = d THEN answer ELSE reply[c]
        BY <4>2, AnswerKeepsType
      <4> QED BY <4>1, <4>3
    <3>2. ASSUME NEW c \in Callers PROVE HasAsked(c)' /\ Measured(c)'
      <4>1. CASE c = orientCh.for
        <5>1. caller[c] \in {"forward", "done"} /\ c # capture.for /\ c # cal.for /\ c # zeroDriftCh
          BY <1>2, <2>3, <4>1 DEF HasAsked
        <5> QED BY <1>1, <2>1, <2>3, <5>1 DEF HasAsked
      <4>2. CASE c # orientCh.for
        <5>1. reply'[c] = reply[c] /\ c # orientCh'.for
          BY <1>1, <2>1, <3>1, <4>2
        <5> QED BY <1>2, <2>1, <2>3, <5>1 DEF HasAsked
      <4> QED BY <4>1, <4>2
    <3> QED BY <1>3, <2>1, <3>2
  <2>4. orientCh.action \in {"forward", "done"}
    <3>1. orientCh \in OrientRequest
      BY <1>6, Zenon DEF TakeOrientation, TypeOK, RequestsOK
    <3> QED BY <3>1, Zenon DEF OrientRequest
  <2> QED BY <1>6, <2>2, <2>3, <2>4 DEF TakeOrientation
<1>7. CASE CalibrationElapses
  <2>1. /\ UNCHANGED <<caller, reply, zeroDriftCh, orientCh, capture, startup>>
        /\ waited' = waited \cup ({cal.for} \cap Callers)
    BY <1>7 DEF CalibrationElapses, requests
  <2>2. cal'.for = cal.for
    BY <1>1, <1>7, Windows, Zenon DEF CalibrationElapses, TypeOK, LocalOK
  <2>3. ASSUME NEW c \in Callers PROVE HasAsked(c)' /\ Measured(c)'
    BY <1>2, <2>1, <2>2 DEF HasAsked
  <2> QED BY <1>3, <2>1, <2>3
<1>8. CASE CaptureElapses
  <2>1. /\ UNCHANGED <<caller, reply, zeroDriftCh, orientCh, cal, startup, waited>>
    BY <1>8 DEF CaptureElapses, requests, history
  <2>2. capture'.for = capture.for
    BY <1>1, <1>8, Windows, Zenon DEF CaptureElapses, TypeOK, LocalOK
  <2>3. ASSUME NEW c \in Callers PROVE HasAsked(c)' /\ Measured(c)'
    BY <1>2, <2>1, <2>2 DEF HasAsked
  <2> QED BY <1>3, <2>1, <2>3
<1>9. ASSUME NEW c \in Callers, caller[c] = "idle", CallZeroDrift(c),
             UNCHANGED <<cal, capture>>,
             startup' = "warmup" => startup = "warmup" /\ c # Startup
      PROVE  CallInv'
  <2>1. /\ UNCHANGED <<reply, orientCh, cal, capture>>
        /\ waited' = waited \ {c}
        /\ zeroDriftCh' \in {zeroDriftCh, c}
    BY <1>9 DEF CallZeroDrift
  <2>2. \A d \in Callers : d # c => caller'[d] = caller[d]
    BY <1>9, CallerType DEF CallZeroDrift
  <2>3. \/ UNCHANGED <<caller, zeroDriftCh>>
        \/ caller'[c] = "drift" /\ zeroDriftCh = Nobody
    BY <1>9, CallerType DEF CallZeroDrift
  <2>4. /\ reply[c] = "none" /\ c # cal.for /\ c # capture.for /\ c # orientCh.for
        /\ c # zeroDriftCh
    BY <1>0, <1>2, <1>9 DEF HasAsked
  <2>5. HasAsked(c)' /\ Measured(c)'
    BY <1>9, <2>1, <2>3, <2>4 DEF HasAsked
  <2>6. ASSUME NEW d \in Callers, d # c PROVE HasAsked(d)' /\ Measured(d)'
    BY <1>2, <2>1, <2>2, <2>6 DEF HasAsked
  <2> QED BY <1>1, <1>3, <1>9, <2>2, <2>5, <2>6
<1>10. ASSUME NEW c \in Clients, CallOrient(c, "forward") \/ CallOrient(c, "done"),
              caller[c] = "idle", UNCHANGED <<cal, capture, startup>>
       PROVE  CallInv'
  <2>1. PICK action \in {"forward", "done"} : CallOrient(c, action)
    BY <1>10
  <2>2. /\ UNCHANGED <<reply, zeroDriftCh, waited, cal, capture, startup>>
        /\ orientCh = NoRequest
        /\ orientCh' = [action |-> action, for |-> c]
        /\ caller' = [caller EXCEPT ![c] = action]
    BY <1>10, <2>1 DEF CallOrient, history
  <2>3. orientCh'.for = c /\ orientCh'.action = action
    BY <2>2
  <2>4. caller'[c] = action /\ \A d \in Callers : d # c => caller'[d] = caller[d]
    BY <1>1, <2>2, CallerType
  <2>5. reply[c] = "none" /\ c # zeroDriftCh /\ c # cal.for /\ c # capture.for
    BY <1>1, <1>2, <1>10 DEF HasAsked
  <2>6. HasAsked(c)' /\ Measured(c)'
    BY <2>2, <2>3, <2>4, <2>5 DEF HasAsked
  <2>7. ASSUME NEW d \in Callers, d # c PROVE HasAsked(d)' /\ Measured(d)'
    BY <1>2, <2>2, <2>3, <2>4, <2>7 DEF HasAsked
  <2> QED BY <1>1, <1>3, <2>2, <2>4, <2>6, <2>7
<1>11. ASSUME NEW c \in Callers, reply[c] # "none", Reply(c, "none"),
              NEW s \in {"idle", "persist"}, caller' = [caller EXCEPT ![c] = s],
              UNCHANGED <<zeroDriftCh, orientCh, cal, capture, waited>>,
              startup' = "warmup" => startup = "warmup" /\ c # Startup
       PROVE  CallInv'
  <2>1. caller'[c] = s /\ \A d \in Callers : d # c => caller'[d] = caller[d]
    BY <1>11, CallerType
  <2>2. reply'[c] = "none" /\ \A d \in Callers : d # c => reply'[d] = reply[d]
    BY <1>11, AnswerKeepsType, Zenon
  <2>3. c # zeroDriftCh /\ c # cal.for /\ c # orientCh.for /\ c # capture.for
    BY <1>2, <1>11 DEF HasAsked
  <2>4. HasAsked(c)' /\ Measured(c)'
    BY <1>11, <2>1, <2>2, <2>3 DEF HasAsked
  <2>5. ASSUME NEW d \in Callers, d # c PROVE HasAsked(d)' /\ Measured(d)'
    BY <1>2, <1>11, <2>1, <2>2, <2>5 DEF HasAsked
  <2> QED BY <1>1, <1>3, <1>11, <2>1, <2>4, <2>5
<1>12. ASSUME NEW c \in Clients, Timeout(c) PROVE CallInv'
  <2>1. /\ UNCHANGED <<waited, startup>>
        /\ caller' = [caller EXCEPT ![c] = "idle"]
        /\ Reply(c, "none")
        /\ zeroDriftCh' = Leaving(c, zeroDriftCh)
    BY <1>12 DEF Timeout, history
  <2>2. caller'[c] = "idle" /\ \A d \in Callers : d # c => caller'[d] = caller[d]
    BY <1>1, <2>1, CallerType
  <2>3. reply'[c] = "none" /\ \A d \in Callers : d # c => reply'[d] = reply[d]
    BY <1>1, <2>1, AnswerKeepsType, Zenon
  <2>4. /\ cal'.for = Leaving(c, cal.for) /\ cal'.elapsed = cal.elapsed
        /\ capture'.for = Leaving(c, capture.for)
    <3>1. cal \in Window \cup {NoWindow} /\ capture \in Window \cup {NoWindow}
      BY Zenon DEF TypeOK, LocalOK
    <3>2. /\ cal' = [cal EXCEPT !.for = Leaving(c, @)]
          /\ capture' = [capture EXCEPT !.for = Leaving(c, @)]
      BY <1>12 DEF Timeout
    <3> QED BY <1>1, <3>1, <3>2, Windows
  <2>5. orientCh'.for = Leaving(c, orientCh.for) /\ orientCh'.action = orientCh.action
    <3>1. orientCh \in OrientRequest \cup {NoRequest}
      BY Zenon DEF TypeOK, RequestsOK
    <3>2. orientCh' = [orientCh EXCEPT !.for = Leaving(c, @)]
      BY <1>12 DEF Timeout
    <3> QED BY <1>1, <3>1, <3>2, Requests
  <2>6. \A x : Leaving(c, x) # c /\ (Leaving(c, x) # x => Leaving(c, x) = Gone)
    BY <1>1 DEF Leaving
  <2>7. HasAsked(c)' /\ Measured(c)'
    BY <2>1, <2>2, <2>3, <2>4, <2>5, <2>6 DEF HasAsked
  <2>8. ASSUME NEW d \in Callers, d # c PROVE HasAsked(d)' /\ Measured(d)'
    <3>1. \A x : d = Leaving(c, x) => d = x
      BY <1>1, <2>6
    <3>2. HasAsked(d)'
      <4>1. /\ d = zeroDriftCh' => d = zeroDriftCh
            /\ d = cal'.for => d = cal.for /\ cal'.elapsed = cal.elapsed
            /\ d = orientCh'.for => d = orientCh.for /\ orientCh'.action = orientCh.action
            /\ d = capture'.for => d = capture.for
            /\ d \in waited => d \in waited'
        BY <2>1, <2>4, <2>5, <3>1
      <4> QED BY <1>2, <2>2, <2>3, <2>8, <4>1, Untouched
    <3> QED BY <1>2, <2>1, <2>2, <2>3, <2>8, <3>2
  <2> QED BY <1>1, <1>3, <2>1, <2>2, <2>7, <2>8
<1>13. ASSUME NEW c \in Clients, Persist(c) PROVE CallInv'
  <2>1. /\ caller[c] = "persist" /\ caller' = [caller EXCEPT ![c] = "idle"]
        /\ UNCHANGED <<reply, zeroDriftCh, orientCh, cal, capture, waited, startup>>
    BY <1>13 DEF Persist, local, history
  <2>2. caller'[c] = "idle" /\ \A d \in Callers : d # c => caller'[d] = caller[d]
    BY <1>1, <2>1, CallerType
  <2>3. ASSUME NEW d \in Callers PROVE HasAsked(d)' /\ Measured(d)'
    <3>1. CASE d = c
      <4>1. reply[c] = "none" /\ c # zeroDriftCh /\ c # cal.for /\ c # orientCh.for /\ c # capture.for
        BY <1>0, <1>1, <1>2, <2>1 DEF HasAsked
      <4> QED BY <2>1, <2>2, <3>1, <4>1 DEF HasAsked
    <3>2. CASE d # c
      BY <1>2, <2>1, <2>2, <3>2 DEF HasAsked
    <3> QED BY <3>1, <3>2
  <2> QED BY <1>1, <1>3, <2>1, <2>2, <2>3
<1>14. CASE /\ UNCHANGED <<caller, reply, zeroDriftCh, orientCh, cal, capture, waited>>
            /\ startup' = "warmup" => startup = "warmup"
  <2>1. ASSUME NEW c \in Callers PROVE HasAsked(c)' /\ Measured(c)'
    BY <1>2, <1>14 DEF HasAsked
  <2> QED BY <1>3, <1>14, <2>1
<1> QED
  <2>1. CASE SampleFails \/ BaroFound \/ BaroNotFound \/ BaroFails \/ BaroReads
    BY <1>14, <2>1 DEF SampleFails, BaroFound, BaroNotFound, BaroFails, BaroReads, local,
       requests, history
  <2>2. CASE Stop \/ PressLevel \/ MoveBoard \/ LevelAtStart \/ StartupStops \/ UNCHANGED vars
    BY <1>14, <2>2 DEF Stop, PressLevel, MoveBoard, LevelAtStart, StartupStops, local,
       requests, history, vars
  <2>3. ASSUME NEW c \in Clients, Request(c) PROVE CallInv'
    <3>1. caller[c] = "idle" /\ UNCHANGED <<cal, capture, startup>> /\ c # Startup
      BY <1>1, <2>3 DEF Request, local
    <3> QED BY <1>1, <1>9, <1>10, <2>3, <3>1 DEF Request
  <2>4. ASSUME NEW c \in Clients, Receive(c) PROVE CallInv'
    <3>1. /\ reply[c] # "none" /\ Reply(c, "none") /\ c # Startup
          /\ UNCHANGED <<zeroDriftCh, orientCh, cal, capture, waited, startup>>
      BY <1>1, <2>4 DEF Receive, local, history
    <3>2. caller' = [caller EXCEPT ![c] = "persist"] \/ caller' = [caller EXCEPT ![c] = "idle"]
      BY <2>4 DEF Receive
    <3> QED BY <1>1, <1>11, <3>1, <3>2
  <2>5. CASE WarmUp
    <3>1. UNCHANGED <<cal, capture>> /\ startup = "warmup" /\ startup' # "warmup"
      BY <2>5 DEF WarmUp, local
    <3>2. caller[Startup] = "idle"
      BY <3>1
    <3> QED BY <1>1, <1>9, <1>14, <2>5, <3>1, <3>2 DEF WarmUp, requests, history
  <2>6. CASE AwaitDrift
    <3>1. /\ reply[Startup] # "none" /\ Reply(Startup, "none") /\ startup' # "warmup"
          /\ UNCHANGED <<zeroDriftCh, orientCh, cal, capture, waited>>
          /\ caller' = [caller EXCEPT ![Startup] = "idle"]
      BY <2>6 DEF AwaitDrift, local, history
    <3> QED BY <1>1, <1>11, <3>1
  <2> QED BY <1>4, <1>5, <1>6, <1>7, <1>8, <1>12, <1>13, <2>1, <2>2, <2>3, <2>4, <2>5, <2>6
          DEF Next, Read, ServeRequest, StartupStep

---------------------------------------------------------------------------
(* The theorems of AHRS *)

LEMMA InitAHRSInv == Init => AHRSInv
<1> SUFFICES ASSUME Init PROVE AHRSInv
  OBVIOUS
<1>1. NoWindow.for = Nobody /\ NoWindow.elapsed = FALSE
      /\ NoRequest.for = Nobody /\ NoRequest.action = "none"
  BY Zenon DEF NoWindow, NoRequest
<1>2. Nobody \notin Callers /\ Startup \in Callers
  BY CallersAssumption DEF Callers
<1>3. Nose \in Axes /\ Mount \in Axes /\ Nose # 0 /\ Mount # 0
  BY AxesAssumption DEF Axes
<1>4. /\ saved = NotSaved \/ saved = [forward |-> Nose, gravity |-> Mount]
      /\ forward = saved.forward /\ gravity = saved.gravity /\ bodyX = saved.forward
  BY Zenon DEF Init
<1>5. \/ forward = 0 /\ gravity = 0 /\ bodyX = 0
      \/ forward = Nose /\ gravity = Mount /\ bodyX = Nose
  BY <1>4 DEF NotSaved
<1>6. PublishedOK
  <2>1. roll = 0 /\ offset = 0
    BY Zenon DEF Init
  <2>2. roll \in Int /\ offset \in Int
    BY <2>1
  <2>3. ready \in BOOLEAN
    <3>1. ready = (startup = "over")
      BY Zenon DEF Init
    <3> QED BY <3>1, Zenon
  <2> QED BY <2>2, <2>3, Zenon DEF Init, PublishedOK
<1>7. LocalOK
  BY Zenon DEF Init, LocalOK
<1>8. OrientationOK
  <2>1. saved \in [forward: Axes, gravity: Axes] \cup {NotSaved}
    BY <1>3, <1>4
  <2> QED BY <1>3, <1>5, <2>1 DEF OrientationOK
<1>9. RequestsOK /\ HistoryOK
  <2>1. levels = MaxLevels
    BY Zenon DEF Init
  <2>2. levels \in 0..MaxLevels
    BY <2>1, LevelsAssumption
  <2>3. caller = [c \in Callers |-> "idle"] /\ reply = [c \in Callers |-> "none"]
    BY Zenon DEF Init
  <2>4. RequestsOK
    BY <2>3, Zenon DEF Init, RequestsOK
  <2> QED BY <2>2, <2>4, Zenon DEF Init, HistoryOK
<1>10. TypeOK
  <2>1. startup \in {"warmup", "drift", "level", "over"}
    <3>1. startup = IF "startup" \in scene THEN "warmup" ELSE "over"
      BY Zenon DEF Init
    <3> QED BY <3>1
  <2>2. pose \in {Nose, Mount}
    BY Zenon DEF Init
  <2> QED BY <1>6, <1>7, <1>8, <1>9, <2>1, <2>2, Zenon DEF TypeOK
<1>11. ValidFromHealthy
  BY Zenon DEF Init, ValidFromHealthy
<1>12. LevelInv
  BY Zenon DEF Init, LevelInv, LevelHolds
<1>13. CallInv
  BY <1>1, <1>2 DEF Init, CallInv, HasAsked, DriftMeasured
<1>14. OrientInv
  <2>1. /\ orientCh = NoRequest /\ capture = NoWindow
    BY Zenon DEF Init
  <2> QED BY <1>1, <1>3, <1>5, <2>1, AxesAssumption DEF OrientInv, Oriented, FrameRebuildable, BodyXFor
<1> QED BY <1>10, <1>11, <1>12, <1>13, <1>14 DEF AHRSInv

LEMMA StepKeepsAHRSInv == AHRSInv /\ [Next]_vars => AHRSInv'
<1> SUFFICES ASSUME AHRSInv, [Next]_vars PROVE AHRSInv'
  OBVIOUS
<1> USE DEF AHRSInv
<1>1. TypeOK'
  BY StepKeepsPublished, StepKeepsLocal, StepKeepsOrientation, StepKeepsRequests,
     StepKeepsHistory, Zenon DEF TypeOK
<1> QED BY <1>1, StepKeepsHealthy, StepKeepsLevelInv, StepKeepsCallInv, StepKeepsOrientInv

\* The inductive invariant of the service, for any clients, axes, tilt and scenes.
THEOREM Invariant == Spec => []AHRSInv
BY InitAHRSInv, StepKeepsAHRSInv, PTL DEF Spec

\* Every variable of the service keeps its type.
THEOREM TypeCorrect == Spec => []TypeOK
<1>1. AHRSInv => TypeOK
  BY DEF AHRSInv
<1> QED BY <1>1, Invariant, PTL

\* What is published as valid comes from a sensor that works, in whatever order
\* reads fail and succeed.
THEOREM ValidIsHealthy == Spec => []ValidFromHealthy
<1>1. AHRSInv => ValidFromHealthy
  BY DEF AHRSInv
<1> QED BY <1>1, Invariant, PTL

\* A zero drift that is reported as done has had a window of its own, with any
\* number of callers, overlapping requests and timeouts.
THEOREM DriftIsMeasured == Spec => []DriftMeasured
<1>1. AHRSInv => DriftMeasured
  BY DEF AHRSInv, CallInv
<1> QED BY <1>1, Invariant, PTL

\* The frame in use is one that the saved pair builds again.
THEOREM FrameIsRebuildable == Spec => []FrameRebuildable
<1>1. AHRSInv => FrameRebuildable
  BY DEF AHRSInv, OrientInv
<1> QED BY <1>1, Invariant, PTL

\* A board at any tilt shows level after one Set Level, and goes on showing it.
THEOREM LevelStays == Spec => []LevelHolds
<1>1. AHRSInv => LevelHolds
  BY DEF AHRSInv, LevelInv
<1> QED BY <1>1, Invariant, PTL

\* A Done without an orientation in force measures gravity on the mounted board.
THEOREM DoneTakesMount == Spec => GravityOfMount
<1>1. AHRSInv /\ [Next]_vars => [~Oriented /\ gravity' # 0 => gravity' = Mount]_vars
  BY StepTakesMount DEF AHRSInv
<1> QED BY <1>1, Invariant, PTL DEF Spec, GravityOfMount

---------------------------------------------------------------------------
(* AttitudeHub: what it keeps *)


\* The table is copied when nothing is left to send; a handler that is served and has not
\* closed its channel since has subscribed; one that is idle has nothing.
TableInv ==
  /\ ~copied => sending = {}
  /\ attitude = 0 => copied /\ sending = {}
  /\ \A h \in sending \ closed : pc[h] # "idle"
  /\ \A h \in Handlers : pc[h] = "idle" => chan[h] = <<>>

\* Nothing is newer than the last attitude.
BoundInv ==
  \A h \in Handlers :
    /\ first[h] <= attitude /\ shown[h] <= attitude
    /\ \A i \in 1..Len(chan[h]) : chan[h][i] <= attitude

\* An attitude that has still to be sent to a handler is newer than all that it has, unless
\* it is the one that it loaded when it subscribed.
FreshFor(h) ==
  \/ attitude = first[h]
  \/ shown[h] < attitude /\ \A i \in 1..Len(chan[h]) : chan[h][i] < attitude

FreshInv ==
  \A h \in Handlers : pc[h] # "idle" /\ (~copied \/ h \in sending \ closed) => FreshFor(h)

HubInv == HubTypeOK /\ TableInv /\ BoundInv /\ FreshInv /\ OrderedButForFirst

---------------------------------------------------------------------------
(* One channel *)

\* What a client has before it, in order but for the attitude f.
Ordered(x, q, f) ==
  /\ \A i \in 1..Len(q) : q[i] >= f
  /\ \A i, j \in 1..Len(<<x>> \o q) :
       i < j => \/ (<<x>> \o q)[i] < (<<x>> \o q)[j]
                \/ (<<x>> \o q)[j] = f

\* The same, without the concatenation.
LEMMA OrderedParts ==
  ASSUME NEW x \in Nat, NEW q \in Seq(Nat), NEW f \in Nat
  PROVE  Ordered(x, q, f) <=>
           \A j \in 1..Len(q) :
             /\ q[j] >= f
             /\ q[j] = f \/ (x < q[j] /\ \A i \in 1..Len(q) : i < j => q[i] < q[j])
<1> DEFINE p == <<x>> \o q
<1>1. /\ p \in Seq(Nat) /\ Len(p) = Len(q) + 1 /\ p[1] = x /\ Len(q) \in Nat
      /\ \A i \in 1..Len(q) : p[i + 1] = q[i] /\ i + 1 \in 1..Len(p)
      /\ \A i \in 1..Len(p) : i = 1 \/ (i - 1 \in 1..Len(q) /\ p[i] = q[i - 1])
  BY SMT
<1>2. ASSUME Ordered(x, q, f), NEW j \in 1..Len(q)
      PROVE  /\ q[j] >= f
             /\ q[j] = f \/ (x < q[j] /\ \A i \in 1..Len(q) : i < j => q[i] < q[j])
  <2>1. \A i, k \in 1..Len(p) : i < k => p[i] < p[k] \/ p[k] = f
    BY <1>2 DEF Ordered
  <2>2. q[j] >= f
    BY <1>2 DEF Ordered
  <2> HIDE DEF p
  <2>3. x < q[j] \/ q[j] = f
    BY <1>1, <2>1, SMT
  <2>4. ASSUME NEW i \in 1..Len(q), i < j PROVE q[i] < q[j] \/ q[j] = f
    <3>1. /\ i + 1 \in 1..Len(p) /\ j + 1 \in 1..Len(p) /\ p[i + 1] = q[i] /\ p[j + 1] = q[j]
      BY <1>1
    <3>2. i + 1 < j + 1
      BY <1>1, <2>4, SMT
    <3> QED BY <2>1, <3>1, <3>2
  <2> QED BY <2>2, <2>3, <2>4
<1>3. ASSUME \A j \in 1..Len(q) :
               /\ q[j] >= f
               /\ q[j] = f \/ (x < q[j] /\ \A i \in 1..Len(q) : i < j => q[i] < q[j])
      PROVE  Ordered(x, q, f)
  <2>1. ASSUME NEW i \in 1..Len(p), NEW j \in 1..Len(p), i < j
        PROVE  p[i] < p[j] \/ p[j] = f
    <3> HIDE DEF p
    <3>1. j # 1 /\ j - 1 \in 1..Len(q) /\ p[j] = q[j - 1]
      BY <1>1, <2>1, SMT
    <3>2. CASE i = 1
      BY <1>1, <1>3, <3>1, <3>2
    <3>3. CASE i # 1
      <4>1. i - 1 \in 1..Len(q) /\ p[i] = q[i - 1] /\ i - 1 < j - 1
        BY <1>1, <2>1, <3>3, SMT
      <4> QED BY <1>3, <3>1, <4>1
    <3> QED BY <3>2, <3>3
  <2> QED BY <1>3, <2>1 DEF Ordered
<1> QED BY <1>2, <1>3

\* An attitude more, newer than the others or the first one, keeps the order.
LEMMA OrderedAppend ==
  ASSUME NEW x \in Nat, NEW q \in Seq(Nat), NEW f \in Nat, NEW a \in Nat,
         Ordered(x, q, f), a >= f,
         a = f \/ (x < a /\ \A i \in 1..Len(q) : q[i] < a)
  PROVE  Ordered(x, Append(q, a), f)
<1> DEFINE r == Append(q, a)
<1>1. /\ r \in Seq(Nat) /\ Len(r) = Len(q) + 1 /\ Len(q) \in Nat /\ r[Len(q) + 1] = a
      /\ \A i \in 1..Len(q) : r[i] = q[i]
  BY SMT
<1>2. \A j \in 1..Len(q) :
        /\ q[j] >= f
        /\ q[j] = f \/ (x < q[j] /\ \A i \in 1..Len(q) : i < j => q[i] < q[j])
  BY OrderedParts
<1> HIDE DEF r
<1>3. ASSUME NEW j \in 1..Len(r)
      PROVE  /\ r[j] >= f
             /\ r[j] = f \/ (x < r[j] /\ \A i \in 1..Len(r) : i < j => r[i] < r[j])
  <2>1. CASE j = Len(q) + 1
    <3>1. r[j] = a /\ \A i \in 1..Len(r) : i < j => i \in 1..Len(q)
      BY <1>1, <2>1, SMT
    <3> QED BY <1>1, <3>1
  <2>2. CASE j # Len(q) + 1
    <3>1. j \in 1..Len(q) /\ \A i \in 1..Len(r) : i < j => i \in 1..Len(q)
      BY <1>1, <2>2, SMT
    <3> QED BY <1>1, <1>2, <3>1
  <2> QED BY <2>1, <2>2
<1> QED BY <1>1, <1>3, OrderedParts DEF r

\* So does the next one to be shown.
LEMMA OrderedTail ==
  ASSUME NEW x \in Nat, NEW q \in Seq(Nat), NEW f \in Nat, Ordered(x, q, f), q # <<>>
  PROVE  Ordered(Head(q), Tail(q), f)
<1> DEFINE r == Tail(q)
<1>1. /\ r \in Seq(Nat) /\ Len(r) = Len(q) - 1 /\ Len(q) \in Nat /\ Len(q) > 0
      /\ Head(q) = q[1] /\ q[1] \in Nat
      /\ \A i \in 1..Len(r) : r[i] = q[i + 1] /\ i + 1 \in 1..Len(q)
  BY SMT
<1>2. \A j \in 1..Len(q) :
        /\ q[j] >= f
        /\ q[j] = f \/ (x < q[j] /\ \A i \in 1..Len(q) : i < j => q[i] < q[j])
  BY OrderedParts
<1> HIDE DEF r
<1>3. ASSUME NEW j \in 1..Len(r)
      PROVE  /\ r[j] >= f
             /\ r[j] = f \/ (q[1] < r[j] /\ \A i \in 1..Len(r) : i < j => r[i] < r[j])
  <2>1. 1 \in 1..Len(q) /\ 1 < j + 1 /\ \A i \in 1..Len(r) : i < j => i + 1 < j + 1
    BY <1>1, SMT
  <2> QED BY <1>1, <1>2, <2>1
<1>4. Ordered(q[1], r, f)
  BY <1>1, <1>3, OrderedParts
<1> QED BY <1>1, <1>4 DEF r

\* What is left of a channel.
LEMMA TailParts ==
  ASSUME NEW S, NEW q \in Seq(S), q # <<>>
  PROVE  /\ Tail(q) \in Seq(S) /\ Head(q) \in S
         /\ Len(Tail(q)) = Len(q) - 1 /\ 1 \in 1..Len(q)
         /\ \A i \in 1..Len(Tail(q)) : i + 1 \in 1..Len(q) /\ Tail(q)[i] = q[i + 1]
BY SMT

---------------------------------------------------------------------------
(* The steps *)

\* The order of all channels is the order of each.
LEMMA OrderOfEach ==
  OrderedButForFirst <=>
    \A h \in Handlers : pc[h] # "idle" => Ordered(shown[h], chan[h], first[h])
BY DEF OrderedButForFirst, Ordered, Pending

LEMMA OrderOfEachNext ==
  OrderedButForFirst' <=>
    \A h \in Handlers : pc'[h] # "idle" => Ordered(shown'[h], chan'[h], first'[h])
BY DEF OrderedButForFirst, Ordered, Pending

\* Numbers of attitudes are numbers.
LEMMA Numbers ==
  ASSUME HubTypeOK, NEW h \in Handlers
  PROVE  /\ attitude \in Nat /\ first[h] \in Nat /\ shown[h] \in Nat /\ chan[h] \in Seq(Nat)
         /\ Len(chan[h]) \in Nat /\ \A i \in 1..Len(chan[h]) : chan[h][i] \in Nat
BY BoundsAssumption, SMT DEF HubTypeOK

\* A channel gets an attitude more, or loses it.
LEMMA OfferTo ==
  ASSUME HubTypeOK, NEW h \in Handlers, NEW a \in 1..MaxAttitudes, Offer(h, a)
  PROVE  /\ chan' \in [Handlers -> Seq(1..MaxAttitudes)]
         /\ \A g \in Handlers : Len(chan'[g]) <= Buffer
         /\ \A g \in Handlers \ {h} : chan'[g] = chan[g]
         /\ chan'[h] = chan[h] \/ chan'[h] = Append(chan[h], a)
<1>1. CASE Len(chan[h]) < Buffer
  <2>1. /\ Append(chan[h], a) \in Seq(1..MaxAttitudes)
        /\ Len(Append(chan[h], a)) <= Buffer
    BY <1>1, BoundsAssumption, SMT DEF HubTypeOK
  <2>2. chan' = [chan EXCEPT ![h] = Append(chan[h], a)]
    BY <1>1 DEF Offer
  <2> QED BY <2>1, <2>2, Zenon DEF HubTypeOK
<1>2. CASE ~(Len(chan[h]) < Buffer)
  <2>1. chan' = [chan EXCEPT ![h] = chan[h]]
    BY <1>2 DEF Offer
  <2> QED BY <2>1, Zenon DEF HubTypeOK
<1> QED BY <1>1, <1>2

\* Nothing has been published or subscribed at the start.
LEMMA InitHubInv == HubInit => HubInv
<1> SUFFICES ASSUME HubInit PROVE HubInv
  OBVIOUS
<1> USE BoundsAssumption DEF HubInit
<1>1. HubTypeOK
  <2>1. <<>> \in Seq(1..MaxAttitudes) /\ Len(<<>>) <= Buffer /\ 0 \in 0..MaxAttitudes
    BY SMT
  <2> QED BY <2>1, Zenon DEF HubTypeOK
<1>2. TableInv /\ BoundInv /\ FreshInv
  BY SMT DEF TableInv, BoundInv, FreshInv
<1>3. OrderedButForFirst
  BY Zenon DEF OrderedButForFirst
<1> QED BY <1>1, <1>2, <1>3 DEF HubInv

\* A new attitude is newer than all there are; the table that is copied is of handlers that
\* have subscribed, and may have changed since.
LEMMA StreamerKeepsHubInv ==
  ASSUME HubInv, StartStreamer \/ StopStreamer \/ Publish \/ CopyTable \/ UNCHANGED hubVars
  PROVE  HubInv'
<1> USE DEF HubInv
<1>1. UNCHANGED <<pc, first, shown, chan, closed>>
  BY DEF StartStreamer, StopStreamer, Publish, CopyTable, handlers, hubVars
<1>2. HubTypeOK' /\ TableInv' /\ BoundInv' /\ FreshInv'
  <2>1. CASE StartStreamer \/ StopStreamer \/ UNCHANGED hubVars
    <3>1. UNCHANGED <<attitude, sending, copied, panicked>> /\ available' \in BOOLEAN
      BY <2>1 DEF StartStreamer, StopStreamer, hubVars, HubTypeOK
    <3>2. HubTypeOK' /\ TableInv' /\ BoundInv'
      BY <1>1, <3>1 DEF HubTypeOK, TableInv, BoundInv
    <3>3. FreshInv'
      BY <1>1, <3>1 DEF FreshInv, FreshFor
    <3> QED BY <3>2, <3>3
  <2>2. CASE Publish
    <3>1. /\ attitude' = attitude + 1 /\ copied' = FALSE /\ sending = {} /\ attitude < MaxAttitudes
          /\ UNCHANGED <<available, sending, panicked>>
      BY <2>2 DEF Publish
    <3>2. attitude' \in 0..MaxAttitudes /\ attitude' # 0
      BY <3>1, BoundsAssumption, SMT DEF HubTypeOK
    <3>3. HubTypeOK'
      BY <1>1, <3>1, <3>2 DEF HubTypeOK
    <3>4. TableInv'
      BY <1>1, <3>1, <3>2 DEF TableInv
    <3>5. ASSUME NEW h \in Handlers
          PROVE  /\ first[h] < attitude' /\ shown[h] < attitude'
                 /\ \A i \in 1..Len(chan[h]) : chan[h][i] < attitude'
      BY <3>1, Numbers, SMT DEF BoundInv
    <3>6. ASSUME NEW h \in Handlers
          PROVE  /\ first[h] <= attitude' /\ shown[h] <= attitude'
                 /\ \A i \in 1..Len(chan[h]) : chan[h][i] <= attitude'
      BY <3>1, Numbers, SMT DEF BoundInv
    <3>7. BoundInv'
      BY <1>1, <3>6 DEF BoundInv
    <3>8. FreshInv'
      BY <1>1, <3>5 DEF FreshInv, FreshFor
    <3> QED BY <3>3, <3>4, <3>7, <3>8
  <2>3. CASE CopyTable
    <3>1. /\ ~copied /\ copied' = TRUE /\ sending' = attSubs /\ closed = {}
          /\ UNCHANGED <<available, attitude, panicked>>
      BY <2>3 DEF CopyTable, HubTypeOK, TableInv
    <3>2. HubTypeOK'
      BY <1>1, <3>1 DEF HubTypeOK, attSubs
    <3>3. TableInv'
      BY <1>1, <3>1 DEF TableInv, attSubs
    <3>4. BoundInv'
      BY <1>1, <3>1 DEF BoundInv
    <3>5. FreshInv'
      BY <1>1, <3>1 DEF FreshInv, FreshFor
    <3> QED BY <3>2, <3>3, <3>4, <3>5
  <2> QED BY <2>1, <2>2, <2>3
<1>3. OrderedButForFirst'
  BY <1>1, OrderOfEach, OrderOfEachNext
<1> QED BY <1>2, <1>3

\* An attitude a that is offered to h keeps what is said of one channel, if it is newer than
\* what is in it or the first one.
LEMMA OfferKeepsChannels ==
  ASSUME HubTypeOK, BoundInv, OrderedButForFirst,
         NEW h \in Handlers, pc[h] # "idle", NEW a \in 1..MaxAttitudes, Offer(h, a),
         first[h] <= a, a <= attitude,
         a = first[h] \/ (shown[h] < a /\ \A i \in 1..Len(chan[h]) : chan[h][i] < a),
         UNCHANGED <<attitude, first, shown>>,
         \A g \in Handlers : pc'[g] # "idle" => pc[g] # "idle"
  PROVE  BoundInv' /\ OrderedButForFirst'
<1>1. /\ \A g \in Handlers \ {h} : chan'[g] = chan[g]
      /\ chan'[h] = chan[h] \/ chan'[h] = Append(chan[h], a)
  BY OfferTo
<1>2. a \in Nat
  BY SMT
<1>3. BoundInv'
  <2>1. ASSUME NEW i \in 1..Len(chan'[h]) PROVE chan'[h][i] <= attitude
    <3>1. CASE chan'[h] = chan[h]
      BY <3>1, <2>1 DEF BoundInv
    <3>2. CASE chan'[h] = Append(chan[h], a)
      <4>1. i \in 1..Len(chan[h]) \/ chan'[h][i] = a
        BY <2>1, <3>2, Numbers, SMT
      <4>2. i \in 1..Len(chan[h]) => chan'[h][i] = chan[h][i]
        BY <3>2, Numbers, SMT
      <4> QED BY <4>1, <4>2 DEF BoundInv
    <3> QED BY <1>1, <3>1, <3>2
  <2> QED BY <1>1, <2>1 DEF BoundInv
<1>4. ASSUME NEW g \in Handlers, pc'[g] # "idle"
      PROVE  Ordered(shown'[g], chan'[g], first'[g])
  <2>1. Ordered(shown[g], chan[g], first[g])
    BY <1>4, OrderOfEach
  <2>2. CASE chan'[g] = chan[g]
    BY <2>1, <2>2
  <2>3. CASE g = h /\ chan'[h] = Append(chan[h], a)
    BY <1>2, <2>1, <2>3, Numbers, OrderedAppend
  <2> QED BY <1>1, <2>2, <2>3
<1> QED BY <1>3, <1>4, OrderOfEachNext

\* The streamer sends to one handler.
LEMMA SendKeepsHubInv ==
  ASSUME HubInv, NEW h \in Handlers, SendTo(h) PROVE HubInv'
<1> USE DEF HubInv
<1>1. /\ h \in sending /\ sending' = sending \ {h} /\ closed' = closed \ {h}
      /\ UNCHANGED <<available, attitude, copied, pc, first, shown>>
  BY DEF SendTo, handlers
<1>2. CASE h \in closed
  <2>1. panicked' = TRUE /\ chan' = chan
    BY <1>2 DEF SendTo
  <2>2. HubTypeOK' /\ TableInv' /\ BoundInv'
    BY <1>1, <2>1 DEF HubTypeOK, TableInv, BoundInv
  <2>3. FreshInv'
    BY <1>1, <2>1 DEF FreshInv, FreshFor, TableInv
  <2>4. OrderedButForFirst'
    BY <1>1, <2>1, OrderOfEach, OrderOfEachNext
  <2> QED BY <2>2, <2>3, <2>4
<1>3. CASE h \notin closed
  <2>1. Offer(h, attitude) /\ panicked' = panicked
    BY <1>3 DEF SendTo
  <2>2. pc[h] # "idle" /\ copied /\ attitude # 0
    BY <1>1, <1>3 DEF TableInv
  <2>3. attitude \in 1..MaxAttitudes
    BY <2>2, SMT DEF HubTypeOK
  <2>4. FreshFor(h) /\ first[h] <= attitude /\ attitude <= attitude
    BY <1>1, <1>3, <2>2, Numbers, SMT DEF FreshInv, BoundInv
  <2>5. PICK a \in 1..MaxAttitudes : a = attitude
    BY <2>3
  <2>6. BoundInv' /\ OrderedButForFirst'
    BY <1>1, <2>1, <2>2, <2>4, <2>5, OfferKeepsChannels DEF FreshFor
  <2>7. /\ chan' \in [Handlers -> Seq(1..MaxAttitudes)]
        /\ \A g \in Handlers : Len(chan'[g]) <= Buffer
        /\ \A g \in Handlers \ {h} : chan'[g] = chan[g]
    BY <2>1, <2>5, OfferTo
  <2>8. HubTypeOK'
    BY <1>1, <2>1, <2>7 DEF HubTypeOK
  <2>9. TableInv'
    BY <1>1, <2>2, <2>7 DEF TableInv
  <2>10. FreshInv'
    BY <1>1, <2>2, <2>7 DEF FreshInv, FreshFor, TableInv
  <2> QED BY <2>6, <2>8, <2>9, <2>10
<1> QED BY <1>2, <1>3

\* A handler subscribes: it has nothing yet, and the last attitude is its first.
LEMMA SubscribeKeepsHubInv ==
  ASSUME HubInv, NEW h \in Handlers, Subscribe(h) PROVE HubInv'
<1> USE DEF HubInv
<1>1. /\ pc[h] = "idle" /\ pc' = [pc EXCEPT ![h] = "subscribed"]
      /\ first' = [first EXCEPT ![h] = attitude] /\ shown' = [shown EXCEPT ![h] = 0]
      /\ UNCHANGED <<available, attitude, sending, copied, chan, closed, panicked>>
  BY DEF Subscribe, streamer
<1>2. /\ pc'[h] = "subscribed" /\ first'[h] = attitude /\ shown'[h] = 0
      /\ chan[h] = <<>> /\ attitude \in Nat
      /\ \A g \in Handlers \ {h} : pc'[g] = pc[g] /\ first'[g] = first[g] /\ shown'[g] = shown[g]
  BY <1>1, Numbers DEF HubTypeOK, TableInv
<1>3. HubTypeOK'
  <2>1. 0 \in 0..MaxAttitudes
    BY BoundsAssumption, SMT
  <2> QED BY <1>1, <2>1, Zenon DEF HubTypeOK
<1>4. TableInv'
  BY <1>1, <1>2, Zenon DEF TableInv, HubTypeOK
<1>5. BoundInv'
  <2>1. 0 <= attitude /\ attitude <= attitude /\ 1..Len(<<>>) = {}
    BY <1>2, SMT
  <2> QED BY <1>1, <1>2, <2>1 DEF BoundInv
<1>6. FreshInv'
  BY <1>1, <1>2 DEF FreshInv, FreshFor
<1>7. OrderedButForFirst'
  <2>1. Ordered(0, <<>>, attitude)
    <3>1. <<>> \in Seq(Nat) /\ 0 \in Nat /\ 1..Len(<<>>) = {}
      BY SMT
    <3> QED BY <1>2, <3>1, OrderedParts
  <2> QED BY <1>1, <1>2, <2>1, OrderOfEach, OrderOfEachNext
<1> QED BY <1>3, <1>4, <1>5, <1>6, <1>7

\* It sends the attitude that it loaded, which may be old by now.
LEMMA SendFirstKeepsHubInv ==
  ASSUME HubInv, NEW h \in Handlers, SendFirst(h) PROVE HubInv'
<1> USE DEF HubInv
<1>1. /\ pc[h] = "subscribed" /\ pc' = [pc EXCEPT ![h] = "streaming"]
      /\ UNCHANGED <<available, attitude, sending, copied, first, shown, closed, panicked>>
  BY DEF SendFirst, streamer
<1>2. /\ pc'[h] = "streaming" /\ \A g \in Handlers \ {h} : pc'[g] = pc[g]
      /\ \A g \in Handlers : pc'[g] # "idle" <=> pc[g] # "idle"
  BY <1>1 DEF HubTypeOK
<1>3. /\ chan' \in [Handlers -> Seq(1..MaxAttitudes)]
      /\ \A g \in Handlers : Len(chan'[g]) <= Buffer
      /\ \A g \in Handlers \ {h} : chan'[g] = chan[g]
      /\ BoundInv' /\ OrderedButForFirst'
      /\ FreshFor(h) => FreshFor(h)'
  <2>1. CASE first[h] = 0
    <3>1. chan' = chan
      BY <2>1 DEF SendFirst
    <3>2. BoundInv' /\ (FreshFor(h) => FreshFor(h)')
      BY <1>1, <3>1 DEF BoundInv, FreshFor
    <3>3. OrderedButForFirst'
      BY <1>1, <1>2, <3>1, OrderOfEach, OrderOfEachNext
    <3> QED BY <3>1, <3>2, <3>3 DEF HubTypeOK
  <2>2. CASE first[h] # 0
    <3>1. PICK a \in 1..MaxAttitudes : a = first[h]
      BY <2>2, SMT DEF HubTypeOK
    <3>2. Offer(h, a) /\ pc[h] # "idle" /\ a <= attitude /\ first[h] <= a
      BY <1>1, <2>2, <3>1, Numbers, SMT DEF SendFirst, BoundInv
    <3>3. BoundInv' /\ OrderedButForFirst'
      BY <1>1, <1>2, <3>1, <3>2, OfferKeepsChannels
    <3>4. /\ chan' \in [Handlers -> Seq(1..MaxAttitudes)]
          /\ \A g \in Handlers : Len(chan'[g]) <= Buffer
          /\ \A g \in Handlers \ {h} : chan'[g] = chan[g]
          /\ chan'[h] = chan[h] \/ chan'[h] = Append(chan[h], a)
      BY <3>2, OfferTo
    <3>5. ASSUME FreshFor(h) PROVE FreshFor(h)'
      <4>1. CASE attitude = first[h] \/ chan'[h] = chan[h]
        BY <1>1, <3>5, <4>1 DEF FreshFor
      <4>2. CASE attitude # first[h] /\ chan'[h] = Append(chan[h], a)
        <5>1. a < attitude
          BY <3>1, <3>2, <4>2, Numbers, SMT
        <5>2. \A i \in 1..Len(chan'[h]) :
                \/ chan'[h][i] = a
                \/ i \in 1..Len(chan[h]) /\ chan'[h][i] = chan[h][i]
          BY <4>2, Numbers, SMT
        <5> QED BY <1>1, <3>5, <4>2, <5>1, <5>2 DEF FreshFor
      <4> QED BY <3>4, <4>1, <4>2
    <3> QED BY <3>3, <3>4, <3>5
  <2> QED BY <2>1, <2>2
<1>4. HubTypeOK'
  BY <1>1, <1>3, Zenon DEF HubTypeOK
<1>5. TableInv'
  BY <1>1, <1>2, <1>3 DEF TableInv, HubTypeOK
<1>6. FreshInv'
  <2>1. ASSUME NEW g \in Handlers, g # h, FreshFor(g) PROVE FreshFor(g)'
    BY <1>1, <1>3, <2>1 DEF FreshFor
  <2> QED BY <1>1, <1>2, <1>3, <2>1 DEF FreshInv
<1> QED BY <1>3, <1>4, <1>5, <1>6

\* It writes the next one to its client.
LEMMA WriteKeepsHubInv ==
  ASSUME HubInv, NEW h \in Handlers, Write(h) PROVE HubInv'
<1> USE DEF HubInv
<1>1. /\ pc[h] = "streaming" /\ chan[h] # <<>>
      /\ shown' = [shown EXCEPT ![h] = Head(chan[h])] /\ chan' = [chan EXCEPT ![h] = Tail(chan[h])]
      /\ UNCHANGED <<available, attitude, sending, copied, pc, first, closed, panicked>>
  BY DEF Write, streamer
<1>2. /\ shown'[h] = chan[h][1] /\ chan'[h] = Tail(chan[h])
      /\ \A g \in Handlers \ {h} : shown'[g] = shown[g] /\ chan'[g] = chan[g]
  BY <1>1, Numbers, SMT DEF HubTypeOK
<1>3. /\ Tail(chan[h]) \in Seq(1..MaxAttitudes) /\ Len(Tail(chan[h])) <= Buffer
      /\ Head(chan[h]) \in 0..MaxAttitudes
      /\ 1 \in 1..Len(chan[h])
      /\ \A i \in 1..Len(Tail(chan[h])) : /\ i + 1 \in 1..Len(chan[h])
                                         /\ Tail(chan[h])[i] = chan[h][i + 1]
  <2>1. chan[h] \in Seq(1..MaxAttitudes) /\ Len(chan[h]) <= Buffer
    BY DEF HubTypeOK
  <2>2. /\ Tail(chan[h]) \in Seq(1..MaxAttitudes) /\ Head(chan[h]) \in 1..MaxAttitudes
        /\ Len(Tail(chan[h])) = Len(chan[h]) - 1 /\ 1 \in 1..Len(chan[h])
        /\ \A i \in 1..Len(Tail(chan[h])) : /\ i + 1 \in 1..Len(chan[h])
                                           /\ Tail(chan[h])[i] = chan[h][i + 1]
    BY <1>1, <2>1, TailParts
  <2>3. Len(Tail(chan[h])) <= Buffer /\ 1..MaxAttitudes \subseteq 0..MaxAttitudes
    BY <2>1, <2>2, BoundsAssumption, SMT
  <2> QED BY <2>2, <2>3
<1>4. HubTypeOK'
  <2>1. chan' \in [Handlers -> Seq(1..MaxAttitudes)] /\ shown' \in [Handlers -> 0..MaxAttitudes]
    BY <1>1, <1>3, Zenon DEF HubTypeOK
  <2> QED BY <1>1, <1>2, <1>3, <2>1 DEF HubTypeOK
<1>5. TableInv'
  BY <1>1, <1>2 DEF TableInv
<1>6. BoundInv'
  BY <1>1, <1>2, <1>3 DEF BoundInv
<1>7. FreshInv'
  <2>1. ASSUME NEW g \in Handlers, FreshFor(g) PROVE FreshFor(g)'
    BY <1>1, <1>2, <1>3, <2>1 DEF FreshFor
  <2> QED BY <1>1, <2>1 DEF FreshInv
<1>8. OrderedButForFirst'
  <2>1. Ordered(Head(chan[h]), Tail(chan[h]), first[h])
    BY <1>1, Numbers, OrderOfEach, OrderedTail
  <2>2. shown'[h] = Head(chan[h])
    BY <1>1 DEF HubTypeOK
  <2> QED BY <1>1, <1>2, <2>1, <2>2, OrderOfEach, OrderOfEachNext
<1> QED BY <1>4, <1>5, <1>6, <1>7, <1>8

\* The client goes away.
LEMMA UnsubscribeKeepsHubInv ==
  ASSUME HubInv, NEW h \in Handlers, Unsubscribe(h) PROVE HubInv'
<1> USE DEF HubInv
<1>1. /\ pc[h] = "streaming" /\ pc' = [pc EXCEPT ![h] = "idle"]
      /\ chan' = [chan EXCEPT ![h] = <<>>] /\ closed' = closed \cup ({h} \cap sending)
      /\ shown' = [shown EXCEPT ![h] = 0] /\ first' = [first EXCEPT ![h] = 0]
      /\ UNCHANGED <<available, attitude, sending, copied, panicked>>
  BY DEF Unsubscribe, streamer
<1>2. /\ pc'[h] = "idle" /\ chan'[h] = <<>> /\ shown'[h] = 0 /\ first'[h] = 0
      /\ \A g \in Handlers \ {h} : /\ pc'[g] = pc[g] /\ chan'[g] = chan[g]
                                 /\ shown'[g] = shown[g] /\ first'[g] = first[g]
  BY <1>1 DEF HubTypeOK
<1>3. HubTypeOK'
  <2>1. <<>> \in Seq(1..MaxAttitudes) /\ Len(<<>>) <= Buffer /\ 0 \in 0..MaxAttitudes
    BY BoundsAssumption, SMT
  <2>2. /\ pc' \in [Handlers -> {"idle", "subscribed", "streaming"}]
        /\ chan' \in [Handlers -> Seq(1..MaxAttitudes)]
        /\ shown' \in [Handlers -> 0..MaxAttitudes] /\ first' \in [Handlers -> 0..MaxAttitudes]
    BY <1>1, <2>1, Zenon DEF HubTypeOK
  <2> QED BY <1>1, <1>2, <2>1, <2>2 DEF HubTypeOK
<1>4. TableInv'
  BY <1>1, <1>2 DEF TableInv, HubTypeOK
<1>5. BoundInv'
  <2>1. 0 <= attitude /\ 1..Len(<<>>) = {}
    BY Numbers, SMT
  <2> QED BY <1>1, <1>2, <2>1 DEF BoundInv
<1>6. FreshInv'
  BY <1>1, <1>2 DEF FreshInv, FreshFor, HubTypeOK
<1>7. OrderedButForFirst'
  BY <1>1, <1>2, OrderOfEach, OrderOfEachNext
<1> QED BY <1>3, <1>4, <1>5, <1>6, <1>7

\* Every step keeps the invariant.
LEMMA NextKeepsHubInv == HubInv /\ [HubNext]_hubVars => HubInv'
BY StreamerKeepsHubInv, SendKeepsHubInv, SubscribeKeepsHubInv, SendFirstKeepsHubInv, WriteKeepsHubInv,
   UnsubscribeKeepsHubInv DEF HubNext, Streamer

\* The inductive invariant holds in every state.
THEOREM HubInvariant == HubSpec => []HubInv
BY InitHubInv, NextKeepsHubInv, PTL DEF HubSpec

\* Every variable keeps its type; no channel holds more than its buffer (status.go 229-251).
THEOREM HubTypeCorrect == HubSpec => []HubTypeOK
BY HubInvariant, PTL DEF HubInv

\* What a client sees goes forward in time but for the attitude that it loaded when it
\* subscribed (status.go 229-251, 267-285).
THEOREM ClientsSeeOrder == HubSpec => []OrderedButForFirst
BY HubInvariant, PTL DEF HubInv
=============================================================================
