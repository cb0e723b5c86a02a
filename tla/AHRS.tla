-------------------------------- MODULE AHRS --------------------------------
(***************************************************************************)
(* internal/ahrs.Service: the goroutine `run` that reads the IMU and the   *)
(* barometer and serves calibration requests between two reads, the        *)
(* goroutine `startupCal` that calibrates once per process, and the web    *)
(* handlers that ask for Set Level, Zero Drift and the two orientation     *)
(* steps, each with a timeout.                                             *)
(*                                                                         *)
(* Data abstraction: the sensor's axes are 1, 2 and 3 without their sign,  *)
(* and gravity lies along one of them. The attitude is one integer, of a   *)
(* board that is held still. A window of time (2 s of zero drift, 1 s of   *)
(* gravity) is a flag that some later step sets. The complementary filter, *)
(* the g-meter and the gyro's numbers are left out.                        *)
(***************************************************************************)
EXTENDS Integers

CONSTANTS
  Clients,    \* web handlers
  Startup,    \* the goroutine startupCal, which also calls ZeroDrift
  Nobody,     \* an empty channel, or no caller
  Gone,       \* a reply channel whose caller has left
  Nose,       \* the sensor axis along gravity when the nose end points up
  Mount,      \* the sensor axis along gravity when the board is mounted
  Tilt,       \* the attitude the filter computes
  MaxLevels,  \* bound: Set Level presses per behaviour
  Scenes      \* bound: what disturbs the service together in one behaviour

ASSUME CallersAssumption ==
  /\ Startup \notin Clients /\ {Nobody, Gone} \cap (Clients \cup {Startup}) = {}
  /\ Nobody # Gone

ASSUME AxesAssumption == Nose \in 1..3 /\ Mount \in 1..3 /\ Nose # Mount

ASSUME LevelsAssumption == Tilt \in Int /\ MaxLevels \in Nat

\* An IMU or a barometer that fails, users who press buttons, and a startup
\* calibration that is still under way.
Disturbances == {"imu", "baro", "level", "drift", "orient", "startup"}

ASSUME ScenesAssumption == Scenes \subseteq SUBSET Disturbances

VARIABLES
  scene,    \* the disturbances of this behaviour; it never changes
  \* published by run, under mu
  valid, baroDetected, altValid, ready,
  imuErr, baroErr, lastError,
  roll, offset,
  \* local to run
  running, baro, last, cal, capture,
  \* the orientation: forwardAxis, gravityInSensor, bodyXInSensor, and the
  \* configuration file
  forward, gravity, bodyX, saved,
  \* channels, callers and the startup sequence
  zeroDriftCh, orientCh, caller, reply, startup,
  \* the board in the user's hands
  pose,
  \* history: callers whose own window passed; how far SetLevel has come
  waited, level, levels

published == <<valid, baroDetected, altValid, ready, imuErr, baroErr, lastError, roll, offset>>
local == <<running, baro, last, cal, capture>>
orientation == <<forward, gravity, bodyX, saved>>
requests == <<zeroDriftCh, orientCh, caller, reply>>
history == <<waited, level, levels, scene>>
vars == <<published, local, orientation, requests, startup, pose, history>>

Axes == 1..3
Callers == Clients \cup {Startup}
Owners == Callers \cup {Gone}

\* A window that run measures for a caller, and whether its time has passed.
Window == [for: Owners, elapsed: BOOLEAN]
NoWindow == [for |-> Nobody, elapsed |-> FALSE]
Opened(c) == [for |-> c, elapsed |-> FALSE]

OrientRequest == [action: {"forward", "done"}, for: Owners]
NoRequest == [action |-> "none", for |-> Nobody]

NotSaved == [forward |-> 0, gravity |-> 0]

\* orientationSet holds as long as gravityInSensor is not the zero vector.
Oriented == gravity # 0

---------------------------------------------------------------------------
(* Errors: setIMUErr, setBaroErr and the two ways to clear them *)

FailIMU ==
  /\ imuErr' = TRUE /\ lastError' = "imu" /\ valid' = FALSE
  /\ UNCHANGED <<baroErr, altValid>>

FailBaro ==
  /\ baroErr' = TRUE /\ lastError' = "baro" /\ altValid' = FALSE
  /\ UNCHANGED <<imuErr, valid>>

ClearIMU ==
  /\ imuErr' = FALSE /\ valid' = TRUE
  /\ lastError' = IF baroErr THEN lastError ELSE ""
  /\ UNCHANGED <<baroErr, altValid>>

ClearBaro ==
  /\ baroErr' = FALSE /\ altValid' = TRUE
  /\ lastError' = IF imuErr THEN lastError ELSE ""
  /\ UNCHANGED <<imuErr, valid>>

---------------------------------------------------------------------------
(* run: the IMU tick *)

\* A sensor axis in the body frame that the orientation defines: z is gravity
\* and y the third axis.
InBody(axis) ==
  IF ~Oriented THEN axis
  ELSE IF axis = gravity THEN 3
  ELSE IF axis = bodyX THEN 1
  ELSE 2

\* Variant: the sample of before the window's last one.
CapturedBefore == InBody(last)

\* The accelerometer's average over the window, taken after the mapping.
Captured == InBody(pose)

\* applyOrientationFromGravity makes the forward axis horizontal. When it is
\* along gravity nothing is left of it but the noise of the samples, which
\* points anywhere; only a remainder of exactly zero is refused.
BodyXFor(axis) == IF forward # axis THEN {forward} ELSE Axes \ {axis}
MayRefuse(axis) == forward = axis

\* The end of the window that Done has opened, with its answer.
CaptureEnds(answer) ==
  \/ /\ ~capture.elapsed /\ answer = "none"
     /\ UNCHANGED <<capture, gravity, bodyX>>
  \/ /\ capture.elapsed /\ capture' = NoWindow
     /\ \/ /\ answer = "ok"
           /\ gravity' = Captured /\ bodyX' \in BodyXFor(Captured)
        \/ /\ answer = "err" /\ MayRefuse(Captured)
           /\ UNCHANGED <<gravity, bodyX>>

\* The answers that a sample sends.
Answered(c, answer) ==
  IF cal.elapsed /\ cal.for = c THEN "ok"
  ELSE IF capture.elapsed /\ capture.for = c THEN answer
  ELSE reply[c]

\* A pressed Set Level takes effect with the next sample.
Shown == CASE level = "pressed" -> "shown"
           [] level = "again"   -> "off"
           [] OTHER             -> level

\* One good sample. It finishes the windows whose time has passed and
\* publishes the attitude with the offset that Set Level has left.
Sample ==
  /\ running
  /\ last' = pose
  /\ cal' = IF cal.elapsed THEN NoWindow ELSE cal
  /\ \E answer \in {"none", "ok", "err"} :
       /\ CaptureEnds(answer)
       /\ reply' = [c \in Callers |-> Answered(c, answer)]
  /\ ClearIMU
  /\ roll' = Tilt + offset
  /\ level' = Shown
  /\ UNCHANGED <<baroDetected, ready, offset, running, baro, forward, saved,
                 zeroDriftCh, orientCh, caller, startup, pose, waited, levels, scene>>

SampleFails ==
  /\ running /\ "imu" \in scene
  /\ FailIMU
  /\ UNCHANGED <<baroDetected, ready, roll, offset, local, orientation, requests,
                 startup, pose, history>>

\* Time passes while a window is open.
CalibrationElapses ==
  /\ cal.for # Nobody /\ ~cal.elapsed
  /\ cal' = [cal EXCEPT !.elapsed = TRUE]
  /\ waited' = waited \cup ({cal.for} \cap Callers)
  /\ UNCHANGED <<published, running, baro, last, capture, orientation, requests,
                 startup, pose, level, levels, scene>>

CaptureElapses ==
  /\ capture.for # Nobody /\ ~capture.elapsed
  /\ capture' = [capture EXCEPT !.elapsed = TRUE]
  /\ UNCHANGED <<published, running, baro, last, cal, orientation, requests,
                 startup, pose, history>>

---------------------------------------------------------------------------
(* run: the barometer tick *)

\* Without a barometer initBaro is tried now and then.
BaroFound ==
  /\ running /\ "baro" \in scene /\ ~baro
  /\ baro' = TRUE /\ baroDetected' = TRUE
  /\ UNCHANGED <<valid, altValid, ready, imuErr, baroErr, lastError, roll, offset,
                 running, last, cal, capture, orientation, requests, startup, pose,
                 history>>

BaroNotFound ==
  /\ running /\ "baro" \in scene /\ ~baro
  /\ baroDetected' = FALSE
  /\ FailBaro
  /\ UNCHANGED <<ready, roll, offset, local, orientation, requests, startup, pose,
                 history>>

\* Variant: the altitude of before the failure stays valid.
BaroFailsQuietly ==
  /\ running /\ "baro" \in scene /\ baro
  /\ baroErr' = TRUE /\ lastError' = "baro"
  /\ UNCHANGED <<valid, altValid, imuErr, baroDetected, ready, roll, offset, local,
                 orientation, requests, startup, pose, history>>

\* A read fails or gives no pressure. After ten failures initBaro is tried
\* again, which may or may not find the barometer.
BaroFails ==
  /\ running /\ "baro" \in scene /\ baro
  /\ FailBaro
  /\ baroDetected' \in BOOLEAN
  /\ UNCHANGED <<ready, roll, offset, local, orientation, requests, startup, pose,
                 history>>

BaroReads ==
  /\ running /\ "baro" \in scene /\ baro
  /\ baroDetected' = TRUE
  /\ ClearBaro
  /\ UNCHANGED <<ready, roll, offset, local, orientation, requests, startup, pose,
                 history>>

---------------------------------------------------------------------------
(* run: requests *)

\* Variant: the window that is open goes on for the new caller.
TakeZeroDriftKeepingWindow ==
  /\ running /\ zeroDriftCh # Nobody
  /\ zeroDriftCh' = Nobody
  /\ cal' = [cal EXCEPT !.for = zeroDriftCh]
  /\ UNCHANGED <<published, running, baro, last, capture, orientation, orientCh,
                 caller, reply, startup, pose, history>>

\* A new window starts, whether or not one is open for another caller.
TakeZeroDrift ==
  /\ running /\ zeroDriftCh # Nobody
  /\ zeroDriftCh' = Nobody
  /\ cal' = Opened(zeroDriftCh)
  /\ UNCHANGED <<published, running, baro, last, capture, orientation, orientCh,
                 caller, reply, startup, pose, history>>

Reply(c, answer) == reply' = [d \in Callers |-> IF d = c THEN answer ELSE reply[d]]

\* Variant: the gravity of an earlier orientation is kept.
SetForwardOnly(axis) == forward' = axis /\ UNCHANGED <<gravity, bodyX, saved>>

\* Set Forward takes the axis of the last sample, which may be an old one,
\* and forgets the orientation; bodyXInSensor is not read until the next one.
SetForward(axis) == forward' = axis /\ gravity' = 0 /\ bodyX' = 0 /\ UNCHANGED saved

\* Set Forward is done at once; Done opens a window. Both are refused while a
\* window is open.
TakeOrientation ==
  LET c == orientCh.for IN
  /\ running /\ orientCh # NoRequest
  /\ orientCh' = NoRequest
  /\ \/ /\ capture.for = Nobody /\ orientCh.action = "forward" /\ last # 0
        /\ SetForward(last)
        /\ Reply(c, "ok")
        /\ UNCHANGED capture
     \/ /\ capture.for = Nobody /\ orientCh.action = "done" /\ forward # 0
        /\ capture' = Opened(c)
        /\ UNCHANGED <<orientation, reply>>
     \/ /\ \/ capture.for # Nobody
           \/ orientCh.action = "forward" /\ last = 0
           \/ orientCh.action = "done" /\ forward = 0
        /\ Reply(c, "err")
        /\ UNCHANGED <<orientation, capture>>
  /\ UNCHANGED <<published, running, baro, last, cal, zeroDriftCh, caller, startup,
                 pose, history>>

\* The context is cancelled: run closes the bus and returns.
Stop ==
  /\ running /\ running' = FALSE
  /\ UNCHANGED <<published, baro, last, cal, capture, orientation, requests, startup,
                 pose, history>>

---------------------------------------------------------------------------
(* Callers *)

\* ZeroDrift, OrientForward and OrientDone send without waiting: a channel
\* that holds a request already refuses the second one.
CallZeroDrift(c) ==
  /\ IF zeroDriftCh = Nobody
       THEN zeroDriftCh' = c /\ caller' = [caller EXCEPT ![c] = "drift"]
       ELSE UNCHANGED <<zeroDriftCh, caller>>
  /\ waited' = waited \ {c}
  /\ UNCHANGED <<orientCh, reply, level, levels, scene>>

CallOrient(c, action) ==
  /\ orientCh = NoRequest
  /\ orientCh' = [action |-> action, for |-> c]
  /\ caller' = [caller EXCEPT ![c] = action]
  /\ UNCHANGED <<zeroDriftCh, reply, history>>

\* The user follows the instructions: nose end up for Set Forward, mounted
\* for Done, and the board is kept still meanwhile.
Request(c) ==
  /\ caller[c] = "idle"
  /\ \/ CallZeroDrift(c) /\ "drift" \in scene
     \/ /\ "orient" \in scene
        /\ \/ CallOrient(c, "forward") /\ pose = Nose
           \/ CallOrient(c, "done") /\ pose = Mount
  /\ UNCHANGED <<published, local, orientation, startup, pose>>

\* The reply arrives. After Done the handler persists what Orientation gives.
Receive(c) ==
  /\ reply[c] # "none"
  /\ Reply(c, "none")
  /\ caller' = [caller EXCEPT ![c] = IF @ = "done" /\ reply[c] = "ok" THEN "persist"
                                                                      ELSE "idle"]
  /\ UNCHANGED <<published, local, orientation, zeroDriftCh, orientCh, startup, pose,
                 history>>

Waiting(c) == caller[c] \in {"drift", "forward", "done"}

\* A request whose caller has left is carried out all the same.
Leaving(c, owner) == IF owner = c THEN Gone ELSE owner

\* Variant: the handler waits for as long as it takes.
TimeoutNever(c) == Waiting(c) /\ UNCHANGED vars

\* The handler's 5 s are over, or its client has gone.
Timeout(c) ==
  /\ Waiting(c)
  /\ caller' = [caller EXCEPT ![c] = "idle"]
  /\ Reply(c, "none")
  /\ zeroDriftCh' = Leaving(c, zeroDriftCh)
  /\ orientCh' = [orientCh EXCEPT !.for = Leaving(c, @)]
  /\ cal' = [cal EXCEPT !.for = Leaving(c, @)]
  /\ capture' = [capture EXCEPT !.for = Leaving(c, @)]
  /\ UNCHANGED <<published, running, baro, last, orientation, startup, pose, history>>

\* Orientation and save; the handler ignores a save that fails.
Persist(c) ==
  /\ caller[c] = "persist"
  /\ caller' = [caller EXCEPT ![c] = "idle"]
  /\ saved' \in {saved} \cup IF Oriented THEN {[forward |-> forward, gravity |-> gravity]}
                                         ELSE {}
  /\ UNCHANGED <<published, local, forward, gravity, bodyX, zeroDriftCh, orientCh, reply,
                 startup, pose, history>>

\* Variant: the offset is set, not adjusted.
SetLevelAnew ==
  /\ valid
  /\ offset' = 0 - roll
  /\ level' = IF level \in {"pressed", "again"} THEN "again" ELSE "pressed"

\* Set Level takes what is shown for the attitude. Pressed twice between two
\* samples it counts the same attitude twice.
SetLevel ==
  /\ valid
  /\ offset' = offset - roll
  /\ level' = IF level \in {"pressed", "again"} THEN "again" ELSE "pressed"

PressLevel ==
  /\ "level" \in scene /\ levels > 0 /\ levels' = levels - 1
  /\ SetLevel
  /\ UNCHANGED <<valid, baroDetected, altValid, ready, imuErr, baroErr, lastError, roll,
                 local, orientation, requests, startup, pose, waited, scene>>

MoveBoard ==
  /\ "orient" \in scene /\ orientCh = NoRequest /\ capture.for = Nobody
  /\ pose' \in {Nose, Mount}
  /\ UNCHANGED <<published, local, orientation, requests, startup, history>>

---------------------------------------------------------------------------
(* startupCal *)

\* The warm-up ends with a valid sample, or with the deadline of 45 s.
WarmUp ==
  /\ startup = "warmup" /\ running
  /\ \/ /\ last # 0 /\ valid
        /\ IF zeroDriftCh = Nobody
             THEN startup' = "drift" /\ CallZeroDrift(Startup)
             ELSE startup' = "level" /\ UNCHANGED <<requests, history>>
        /\ UNCHANGED ready
     \/ /\ ready' = TRUE /\ startup' = "over"
        /\ UNCHANGED <<requests, history>>
  /\ UNCHANGED <<valid, baroDetected, altValid, imuErr, baroErr, lastError, roll, offset,
                 local, orientation, pose>>

\* It waits for the zero drift, with no deadline but the process's context.
AwaitDrift ==
  /\ startup = "drift" /\ reply[Startup] # "none"
  /\ startup' = "level"
  /\ caller' = [caller EXCEPT ![Startup] = "idle"]
  /\ Reply(Startup, "none")
  /\ UNCHANGED <<published, local, orientation, zeroDriftCh, orientCh, pose, history>>

\* Variant: attitude is trusted only once Set Level has worked.
LevelOrGiveUp ==
  /\ startup = "level"
  /\ \/ SetLevel /\ ready' = TRUE
     \/ ~valid /\ UNCHANGED <<offset, level, ready>>
  /\ startup' = "over"
  /\ UNCHANGED <<valid, baroDetected, altValid, imuErr, baroErr, lastError, roll, local,
                 orientation, requests, pose, waited, levels, scene>>

\* After a pause it presses Set Level, again and again for 10 s if need be.
LevelAtStart ==
  /\ startup = "level"
  /\ \/ SetLevel
     \/ ~valid /\ UNCHANGED <<offset, level>>   \* and so for 10 s
  /\ ready' = TRUE /\ startup' = "over"
  /\ UNCHANGED <<valid, baroDetected, altValid, imuErr, baroErr, lastError, roll, local,
                 orientation, requests, pose, waited, levels, scene>>

StartupStops ==
  /\ ~running /\ startup # "over"
  /\ startup' = "over"
  /\ UNCHANGED <<published, local, orientation, requests, pose, history>>

StartupStep == WarmUp \/ AwaitDrift \/ LevelAtStart \/ StartupStops

---------------------------------------------------------------------------

\* Start has found the IMU, perhaps the barometer, and has loaded the
\* orientation of an earlier run if the file has one.
Init ==
  /\ scene \in Scenes
  /\ baro \in BOOLEAN /\ (baro \/ "baro" \in scene)
  /\ baroDetected = baro /\ baroErr = ~baro
  /\ lastError = IF baro THEN "" ELSE "baro"
  /\ valid = FALSE /\ altValid = FALSE /\ imuErr = FALSE
  /\ startup = IF "startup" \in scene THEN "warmup" ELSE "over"
  /\ ready = (startup = "over")
  /\ roll = 0 /\ offset = 0
  /\ running = TRUE /\ last = 0 /\ cal = NoWindow /\ capture = NoWindow
  /\ saved \in {NotSaved, [forward |-> Nose, gravity |-> Mount]}
  /\ forward = saved.forward /\ gravity = saved.gravity /\ bodyX = saved.forward
  /\ zeroDriftCh = Nobody /\ orientCh = NoRequest
  /\ caller = [c \in Callers |-> "idle"] /\ reply = [c \in Callers |-> "none"]
  /\ pose = Mount
  /\ waited = {} /\ level = "never" /\ levels = MaxLevels

ServeRequest == TakeZeroDrift \/ TakeOrientation

Read == Sample \/ SampleFails \/ BaroFound \/ BaroNotFound \/ BaroFails \/ BaroReads

Next ==
  \/ Read \/ ServeRequest \/ Stop
  \/ CalibrationElapses \/ CaptureElapses
  \/ \E c \in Clients : Request(c) \/ Receive(c) \/ Timeout(c) \/ Persist(c)
  \/ PressLevel \/ MoveBoard
  \/ StartupStep

\* run serves its channels and reads an IMU again that it has just read; one
\* that fails may do so for good. Time passes; startupCal and the handlers are
\* scheduled. Nothing makes a user press anything, and nothing stops the process.
Fairness ==
  /\ WF_vars(~imuErr /\ Sample) /\ WF_vars(TakeZeroDrift) /\ WF_vars(TakeOrientation)
  /\ WF_vars(CalibrationElapses) /\ WF_vars(CaptureElapses)
  /\ WF_vars(StartupStep)
  /\ \A c \in Clients : WF_vars(Receive(c) \/ Timeout(c)) /\ WF_vars(Persist(c))

Spec == Init /\ [][Next]_vars /\ Fairness

---------------------------------------------------------------------------
(* What is checked *)

\* Types, part by part: what run publishes, what it keeps to itself, the
\* orientation, requests and history.
PublishedOK ==
  /\ valid \in BOOLEAN /\ baroDetected \in BOOLEAN /\ altValid \in BOOLEAN
  /\ ready \in BOOLEAN /\ imuErr \in BOOLEAN /\ baroErr \in BOOLEAN
  /\ lastError \in {"", "imu", "baro"}
  /\ roll \in Int /\ offset \in Int

LocalOK ==
  /\ running \in BOOLEAN /\ baro \in BOOLEAN
  /\ last \in Axes \cup {0}
  /\ cal \in Window \cup {NoWindow} /\ capture \in Window \cup {NoWindow}

OrientationOK ==
  /\ forward \in Axes \cup {0} /\ gravity \in Axes \cup {0} /\ bodyX \in Axes \cup {0}
  /\ saved \in [forward: Axes, gravity: Axes] \cup {NotSaved}

RequestsOK ==
  /\ zeroDriftCh \in Owners \cup {Nobody}
  /\ orientCh \in OrientRequest \cup {NoRequest}
  /\ caller \in [Callers -> {"idle", "drift", "forward", "done", "persist"}]
  /\ reply \in [Callers -> {"none", "ok", "err"}]

HistoryOK ==
  /\ scene \in Scenes
  /\ waited \subseteq Callers
  /\ level \in {"never", "pressed", "shown", "again", "off"}
  /\ levels \in 0..MaxLevels

TypeOK ==
  /\ PublishedOK /\ LocalOK /\ OrientationOK /\ RequestsOK /\ HistoryOK
  /\ startup \in {"warmup", "drift", "level", "over"}
  /\ pose \in {Nose, Mount}

\* What is published as valid comes from a sensor that works: attitude from a
\* good last sample, altitude from a barometer that was found and read.
ValidFromHealthy ==
  /\ valid => ~imuErr /\ last # 0
  /\ altValid => baroDetected /\ ~baroErr

\* A caller is told that the zero drift is done only after a window of its
\* own, also when requests overlap or callers leave (402-408, 562-584).
DriftMeasured ==
  \A c \in Callers : caller[c] = "drift" /\ reply[c] = "ok" => c \in waited

\* The frame in use is the one the next start builds from what a handler may
\* write to the configuration file at any moment: Set Forward by another client
\* cannot pair a new forward axis with an old gravity (server.go 131-142,
\* service.go 171-177, 238-251, 429-435, 866-870).
FrameRebuildable == Oriented => bodyX \in BodyXFor(gravity)

\* A still board shows level after Set Level, unless it was pressed twice
\* between two samples (service.go 305-321, 603).
LevelHolds == level = "shown" => roll = 0

\* Every handler comes back, whatever happens to the others, the IMU or run.
HandlersReturn == \A c \in Clients : caller[c] # "idle" ~> caller[c] = "idle"

\* Another caller's window has taken the place of the startup's, whose reply
\* never comes.
Replaced ==
  /\ startup = "drift" /\ reply[Startup] = "none"
  /\ zeroDriftCh # Startup /\ cal.for \in Clients \cup {Gone}

\* The IMU gives a good sample now and then.
IMUGoesOn == []<>~imuErr

\* With an IMU that goes on, the startup sequence ends and consumers may trust
\* the attitude, however often reads fail in between; the only way out is that
\* somebody presses Zero Drift while its own is open (402-408, 877-960). One
\* that fails for good after the warm-up leaves startupCal waiting, with no
\* deadline but the process's context (458-460, 927).
StartupCompletes ==
  IMUGoesOn => (startup = "warmup" ~> ready \/ ~running \/ Replaced)

\* Done after Set Forward takes for down the sensor axis that points down where
\* the board is mounted, not that of an earlier sample or of another frame. A
\* Done that finds an orientation in force does not: it averages vectors that
\* are mapped already (281, 482-493, 588-596, 866).
GravityOfMount == [][~Oriented /\ gravity' # 0 => gravity' = Mount]_vars
=============================================================================
