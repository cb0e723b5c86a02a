# Stratux-NG: a TLA+ verification project

Stratux-NG is an appliance for light aircraft. It reads two radio decoders (1090 MHz
and 978 MHz), a GPS receiver, an inertial sensor and a barometer, and sends GDL90
frames by UDP to the pilot's tablet. A web page shows its state and edits its
configuration. This directory holds TLA+ models of it, the TLC runs that check them
and proofs that TLAPS checks.

    tlc -workers 2 -config services.cfg MCServices
    tlapm ConfigApplyProofs.tla

## 1. The system

One process, `cmd/stratux-ng`. `main` loads the YAML file, starts the web server and a
runtime goroutine, and waits for its context to be cancelled. The runtime goroutine owns
`liveRuntime`, which holds every service, and loops over three events: cancellation, a
configuration to apply, and a tick (one second by default) that reads the services and
sends frames.

| component | state | operations | talks to |
|---|---|---|---|
| configuration (`internal/config`, `internal/web/settings.go`, `aircraft.go`, `server.go`, `liveRuntime.Apply`) | the YAML file, `liveRuntime.cfg`, the current broadcaster and ticker, the "logical" decoder settings | POST settings, POST aircraft, POST wifi/ap, wifi/client, orient/done; `Apply`; `load`, `save` | handlers send over the channel `applyCh` to the main loop and wait |
| traffic store (`internal/traffic`) | a map from ICAO address to target | `Apply`, `SnapshotDetailed` | called by the two decoder clients' goroutines and by the tick |
| AHRS (`internal/ahrs`) | snapshot, errors, offsets, orientation, open calibration windows | `run`, `startupCal`, `SetLevel`, `ZeroDrift`, `OrientForward`, `OrientDone`, `Close` | channels of one request each; replies on a channel of the caller |
| attitude hub (`internal/web/status.go`) | last attitude, table of subscribers' channels | `SetAttitude`, `SubscribeAttitude`, `UnsubscribeAttitude` | streamer (20 Hz) to web handlers |
| decoder clients (`internal/decoder/ndjson_client.go`, `line_client.go`) | connection state, counters | `Start`, `Close`, reconnect loop | call the traffic store, the aggregator and the uplink queue |
| supervisor (`internal/decoder/supervisor.go`) | the child process and its backoff | `Start`, `Close`, `runOnce` | the decoder programs |
| GPS (`internal/gps`) | snapshot, connection or serial port | `Start`, `Close`, the reader | gpsd or a serial port |
| fan (`internal/fancontrol`) | driver, duty, PID | `Start`, `Close`, `runLoop` | GPIO or sysfs PWM |
| FIS-B aggregation (`internal/uat978`) | rings of 60 one-second buckets per tower and product | `Add`, `Snapshot` | raw 978 MHz client, tick |
| uplink relay (`live_runtime.go`) | a queue of 512 frames | enqueue, drain 50 a tick | raw 978 MHz client, tick |
| record and replay (`internal/replay`) | a log writer, or a list of records | `WriteFrame`, `Play` | tick and streamer; a replay goroutine |
| GDL90, UDP, SDR assignment, Wi-Fi, sensors, host | none, or a socket or a device | encodings, commands, I/O | |

What is hard in each, and what makes it correct:

* **Configuration.** Handlers share no lock, each loads the file, edits it, has the main
  loop apply it and saves it; a save may fail after the Apply worked; the process may be
  told to stop while a handler waits; a crash may come between any two steps; structs are
  copied while their slices are shared. Correct means: frames leave with the identity and
  for the destination that the configuration says, the next start can use the file, an
  accepted edit is in effect, and file and runtime agree.
* **Traffic store.** Goroutines read the clock before they take the lock; two bands report
  the same aircraft with different fields; the map is bounded and its entries expire.
  Correct means: an aircraft that is heard is reported, a silent one is not, nothing an
  aircraft said is overwritten by what a parser guessed.
* **AHRS.** Two sensors fail independently and share an error text; requests overlap, and
  their callers leave after 5 seconds; the startup calibration uses the same request path.
  Correct means: errors and validity are what they are, a caller's success is its own, the
  frame is built from one pair of axis and gravity, the startup completes.
* **Attitude hub.** Sends happen outside the lock that guards the table. Correct means:
  order, no blocking, no send on a closed channel.
* **Decoder clients, supervisor, GPS, fan, shutdown.** Reconnects and restarts with
  backoff; blocking reads that a context does not interrupt; `Close` called from two
  goroutines; a fan that must end in a safe state. Correct means: `Close` returns, a lost
  connection comes back, a fix is not shown as newer than it is.
* **FIS-B, uplink.** Rings indexed by a wall clock that may be set back, a text ring that
  wraps inside a frame, a bounded queue between a decoder's goroutine and the tick. Correct
  means: while the clock is not set back the pages show what was heard in the last minute,
  what is relayed is in order,
  complete as long as no more comes than leaves, and never late.
* **Record and replay.** Two goroutines record, `main` closes the writer under them, disks
  fail and power goes. Correct means: the log has what was sent, it is the start of what was
  recorded, and a replay is the recording again.
* **SDR assignment.** Serials that name a band, both or none, and arguments that somebody
  has written. Correct means: two bands get two dongles, and a serial written as the tag stays.

Every line where this bites is listed under `hazards` in `PROJECT.json`, with the
properties that cover it, the theorem that does, or the reason why none does.

## 2. Plan and state

| step | modules | state |
|---|---|---|
| 1 the only path that changes what the appliance does | `ConfigApply`, `ConfigApplyProofs` | checked, all safety proved |
| 2 what the pilot sees | `TrafficPicture` (abstract), `TrafficStore`, `TrafficStoreProofs` | checked and proved, refinement included |
| 3 the attitude, and its way to browsers | `AHRS`, `AttitudeHub`, `AttitudeProofs` | checked and proved |
| 4 the decoders | `DecoderLink`, `DecoderProofs` | checked and proved |
| 5 the dongles they open | `SDRAssign`, `DecoderProofs` | checked and proved |
| 6 the receiver | `GPS`, `GPSProofs` | checked and proved |
| 7 the fan | `FanControl`, `FanControlProofs` | checked and proved |
| 8 uplink frames | `UATRelay`, `UATRelayProofs` | checked and proved |
| 9 the log | `GDL90Log`, `GDL90Replay` (composed with it), `GDL90LogProofs` | checked and proved |

The `Close` of each service is in the module of that service, against the goroutines that
it has to end. A module for `liveRuntime.Close` as a whole would add nothing to these:
`main` returns without waiting for it, so no order in which it stops services is promised
to anybody; that `main`'s own deferred calls run beside goroutines that go on is in
`GDL90Log`.

Every safety property that a run checks is proved. What is left is liveness, which stays with
TLC, and what section 6 names.

## 3. The modules and the code

### ConfigApply

One handler is a process with a program counter: `PostSettings`, `PostAircraft` and
`PostPersist` load, edit and validate; `MainLoopApply` is `liveRuntime.Apply` in the main
loop; `TakeAnswer`, `SaveSucceeds` and `SaveFails` are the rest of the handler, with the
rollback; `Abandon` is the cancelled wait in `applyFunc`. `StartProcess`, `Cancel` and
`Exit` are the process. `disk` is the file, `rt` is `liveRuntime.cfg`, `sender` the
broadcaster's destination, `logical` the args Apply compares with.

A configuration has six fields, one for each thing that `Apply` and `DefaultAndValidate`
do with a field: `dest` is applied live, `own`, `active` and `prof` are the identity and
its profiles, `args` is the decoder argument that device detection rewrites, `boot` stands
for every field that Apply refuses to change. A request is one step from its arrival to
the hand-over, since what it does meanwhile is local after the read of the file.

`cause` and `alone` are history: why file and runtime may differ now, and which handlers
have met no other.

### TrafficPicture and TrafficStore

`TrafficPicture` is what the pilot relies on: aircraft known while they report where they are,
the stalest dropped when there are too many, those that have fallen silent forgotten before a
report. `TrafficStore` is the code: each goroutine first takes a stamp
(`TakeStamp`), and later runs `Apply` or `Snapshot` under the lock with the stamp it has.
Time is kept as ages, so that it needs no bound but `Lag`, the age a stamp may reach
before the lock is taken. `heard` and `placed` are history: how long ago an aircraft sent
anything, and a position. `ImplementsPicture` states the refinement; the picture is allowed
an imprecision of `Lag` (its `Slack`). It forgets nobody whose last position is younger than
the TTL and keeps nobody who has been silent for longer, and leaves open what happens between,
where the code and `dev.md:79` disagree: a store that refreshes the TTL with positions only
would implement it too. `TTLFromPosition` is what `dev.md:79` says, and is violated.

### AHRS

The loop `run` is one action per case of its `select` and per outcome: `Sample`,
`SampleFails`, four barometer outcomes, `TakeZeroDrift`, `TakeOrientation`, `Stop`. Time
windows are flags that `CalibrationElapses` and `CaptureElapses` set. Callers send
(`CallZeroDrift`, `CallOrient`), receive, or leave (`Timeout`); a request whose caller has
left is carried out for `Gone`. `startupCal` is `WarmUp`, `AwaitDrift`, `LevelAtStart`.
An orientation is a forward axis, gravity and the body's x axis, each a sensor axis.

### AttitudeHub

`Publish`, `CopyTable` and one `SendTo` per channel are `SetAttitude` and
`broadcastAttitude`; `Subscribe` and `SendFirst` are the two halves of
`SubscribeAttitude`, one inside and one outside the lock; `Write` and `Unsubscribe` are
the handler.

### DecoderLink

A decoder, its supervisor and the clients of its streams. `sup` is where the loop of the
supervisor is: `StartSucceeds` and `StartFails` are `cmd.Start`, `Reap` is `cmd.Wait`,
`AfterRun` the decision to go on, `SupPause` the backoff; `Kill` is what the cancelled
context does to the child. `supShown` is its snapshot. `pc[c]` is where the loop of client
`c` is: `DialSucceeds`, `DialFails`, `ReadLine` and `ReadFails` are its branches,
`SetState` what it shows. `conn` and `wire` are the connection and the lines on it,
which a decoder that ends or drops the client leaves to be read. The decoder itself (`Listen`,
`End`, `ExternalStarts`, `Send`, `Drop`) is external; without a command it is a service that
nobody supervises and comes and goes by itself. `closing` walks through `liveRuntime.Close`:
clients first, then the supervisor, each `Awaited`.

### GPS

`st` is `gpsdState` or `nmeaState`, `snap` what `Snapshot` returns: `ApplyTPV` and
`ApplyNMEA` merge a report into the first and publish the second. Times are ages; `skew` is
the difference between the appliance's clock and the receiver's. `FixOK` is the test in
`buildGDL90FramesWithGPS` that lets ownship go out. `Top`, `DialSucceeds`, `DialFails`,
`Backoff`, `StoreCloser`, `Check`, `ReadReport` and `ReadFails` are the reader, which is at
`readerAt`;
`PublishInitial` is the end of `Start`, which publishes a first snapshot after it has
started the NMEA reader; `TakeCloser`, `CloseTaken` and `CloseDone` are `Close`, which may
miss the closer that a dial is about to store.

### FanControl

`FanStart` opens the drivers in the order of `ToTry`; `loop` is where `startupAndRun` is:
the startup test, the ticks, the deferred `FailSafe`. A tick is `TempReads` or `TempFails`;
`driving` is `lastPWM # 0`. `at[c]` is where each of the two calls of `Close` is: the
wait for the loop, the last duty, the driver's own `Close`. Every write may fail. A duty
is one of four levels; the controller's output is nothing, small or large at will, which
leaves out how long it takes to react.

### UATRelay

`Add` is `Aggregator.Add` under its lock and `Offer` the send to the queue that follows it
in the handler of the raw stream; they are two steps, since a tick may come between.
`Count` is one entry of a ring of one-second buckets, kept for each tower and product;
`Admitting` is the eviction of a tower, which takes any one of them, as the iteration of a Go
map does. `AddText` writes the lines of a frame into the text ring, and `ShownText` walks
it backwards as `Snapshot` does. `BeginTick`, `DrainOne` and `DrainEmpty` are the loop in
the tick that takes up to `Drain` frames. `Pass` and `SetBack` are the wall clock.
`received` is the list of all frames, which the properties compare the rings with; `waited`,
`burst` and `steady` are history about the queue.

### GDL90Log and GDL90Replay

A producer is the tick or the attitude streamer: `Wake`, then for each of its frames
`Enter` (it takes `recMu` and finds the writer open), `WriteFrame` or `WriteFrameFails`, and
`Send`; the tick ends with `Flush`, two steps where the buffer is written. `main` is how far
the deferred calls of `main` are; they close the broadcaster and the writer without `recMu`
and without waiting for anybody, which `raced` remembers. A line has two halves, so that a
full buffer may leave half of one in the file. `Crash` ends the process at any step, by a crash or a power cut, which also
takes the end of the file.

`GDL90Replay` starts where the process of `GDL90Log` has ended, on whatever file is left.
`ReadAll`, `ReadTorn` and `ReadRefuses` are the reader, which takes a whole file, one
with a torn last line that still parses, or none of it; `PlayOne`, `EndPass`,
`PlayStops` and `SendFails` are `Play` and `runReplay`. It is a composition: the steps of the
recorder are steps of it, and its properties speak of the lines that the recorder has recorded.

### SDRAssign

One step for detection (`DetectSucceeds`, with `AutoAssign1090And978`, or `NoDetection`)
and one for each band's arguments (`Configure1090`, `Configure978`). `Opens` is what a
decoder does with its selector, modelled from the arguments that `src/` gives it and
marked external. The initial states are all dongles and all configurations.

## 4. The runs

| run | checks | shows |
|---|---|---|
| `services` | `RuntimeCoherent`, `FileBootable`, `EditTakesEffect`, `DivergenceExplained`, `RequestsAnswered`, `RestartFieldsFixed` | the configuration path with two requests in flight, failures and crashes |
| | `FullWhenBlind`, `ClosedStaysOff`, `FanCloseReturns` | the fan: full on when nobody follows the temperature, off for good after Close, which returns unless the process ends under it |
| `ownship` | `ValidFromHealthy`, `DriftMeasured`, `FrameRebuildable`, `LevelHolds`, `HandlersReturn`, `StartupCompletes`, `GravityOfMount` | sensors and calibrations, with overlapping callers |
| | `OrderedButForFirst`, `StreamerProgress` | the attitude hub: order and no blocking |
| | `OwnshipBounded`, `PositionOfFix`, `GPSCloseReturns`, `GPSComesBack` | a recent fix or no ownship; reconnects and Close |
| `decoder_link` | `ClosedMeansGone`, `StatusExplained`, `CloseReturns`, `StreamComesBack` | child and clients that end, hang up and are closed at any time |
| `receivers` | `DistinctDongles`, `SerialsRespected` | every set of up to three dongles with every configuration |
| | `LastKnownKept`, `AgeBounded`, `PositionedBounded`, `ImplementsPicture` | the store does what the picture promises |
| | `TallyOfMinute`, `TextNewestFirst`, `RelayInTime` | tallies against the list of all frames, with towers that make room and a clock that is set back; the queue |
| `gdl90_log` | `SentIsInLog`, `LogIsPrefix`, `ReplayIsFaithful`, `ReplayEnds` | two producers, a disk that fails, every way to end, and a replay of what is left |
| `config_rollback` | `RollbackRestoresRuntime`, violated | the rollback after a failed save applies the new identity |
| `config_restart` | `NoFalseRestart`, violated | with a device flag in the file every edit is refused as one that needs a restart |
| `traffic_ttl` | `TTLFromPosition`, violated | an aircraft that sends only metadata is reported with a position older than the TTL |
| `sdr_choice` | `SelectionKept`, violated | a selector written in the arguments is replaced while the tag is automatic |
| `attitude_panic` | `NoPanic`, violated | a browser that leaves can end the process |
| `fan_panic` | `FanNeverCrashes`, violated | two calls of Close on one GPIO line can end the process |
| `fan_spin` | `KeptSpinning`, violated | one tick drives a PWM fan to 0 that is to be kept spinning |

The seven violated properties quote a comment or a document of the repository; the quotes
are under `findings` in `PROJECT.json`. Type invariants are proved (section 5) and
therefore in no run; `SDRAssign` needs none, its properties read every variable.

Three runs hold several components that share no state (`MCServices`, `MCOwnship`,
`MCReceivers`). Their variable `part` says which of them moves in a behaviour; the others rest
in a state of theirs in which nothing fair is enabled, or, in `MCOwnship`, without fairness.
Nothing is lost by it, since their interleavings would tell no property anything, and each
component has all of its behaviours. The tallies of 978 MHz frames and their relay are two
parts in the same way: no counter reads the queue and the queue reads no clock.

Bounds. Configuration: two handlers, since the code has no state that a third would meet
and a lost update or an inverted order of apply and save needs two; three requests, so
that a third one follows two that overlapped; one start from each of three files (legacy,
with profiles, with a device flag), with and without an override. Fan: no constants, two
closers are all there are. Traffic: two aircraft and room for one, so that an eviction has a
choice and a tie; one field, since fields do not interact; TTL 1 and Lag 1, so that a stamp
may be younger than, equal to and older than the limit. AHRS: two clients beside the
startup; two presses of Set Level; `Scenes` keeps apart what shares no state (the barometer
never reads the orientation), and its comment says why. Hub: channels of two instead of
four, so that they fill; four attitudes, so that a full channel, a loss and a later success
all happen. GPS: a limit of 1, so that an age is under, at and over it once a clock is
skewed; ages are capped at 3, which is past every comparison; skews of -2, 0 and 1. Decoders:
two clients, one of each kind; one line on the wire, so that a hang-up may have a line before
it or none. 978 MHz frames: three towers and room for two, so that one must go; a window of
two seconds and a clock of three values, so that a bucket is used for another minute; a text
ring of three and frames of two lines, so that it wraps inside a frame; a queue of three of
which a tick takes two, so that it fills and needs a second tick; five frames. Log: a buffer
of one line and a half, so that a write tears a line; three lines and a clock of three values,
so that two producers may record out of order. Dongles: three is one more than there are
bands; serials of each kind. The aircraft of `receivers` are a symmetry set: nothing in the
store prefers one to another, and the run checks no liveness.

Deadlock is not checked where the system stops: a process that is down with no starts
left, a fan that was closed, an AHRS service that was stopped, a streamer that has returned,
decoders that have been started, a log that was replayed. Every run has such a component.

Fairness. Handlers and loops are goroutines, which the scheduler runs. `MainLoopApply` is
fair while the process is up because the main loop returns to its `select`, which picks
among ready cases at random, so a request is not passed over for ever; when the context is
cancelled the loop may return first, so it is not fair then, and `Abandon` answers. In
AHRS requests and timers are fair, and good samples are while the last read worked; nothing
makes an IMU that has failed work again. `StartupCompletes` has an IMU that goes on
(`IMUGoesOn`) as its premise: with one that fails for good after the warm-up `startupCal` waits,
without a deadline, for a window that never closes (`service.go:458-460`, `927`).
Nothing makes a user, a client, a crash or a barometer act. A web handler that writes to a
client that stopped reading is not fair, which is why `StreamerProgress` may not rely on it.
In DecoderLink and GPS a dial that is tried again and again to a peer that accepts succeeds
at some time (strong fairness of `DialSucceeds`), and what is buffered on a connection
is finite, so a read ends (`ReadFails`); goroutines, and the kill of a cancelled context,
happen. Nothing makes a decoder, gpsd or a receiver end, listen or send: `StreamComesBack`
and `GPSComesBack` name what they need of it as a premise. In FanControl a `select` with
a tick and a stop both ready picks at random, so a stop is taken at some time; nothing
makes `liveRuntime.Close` get to the fan, since it closes other services first, nor a
write succeed. In GDL90Replay the replay goroutine runs (`WF(Play)`): its waits end and
its callback returns; nothing makes the recording end or a user stop the replay.
UATRelay and SDRAssign state no fairness and check no liveness.

## 5. What is proved

`ConfigApplyProofs` proves, for any number of handlers, requests and starts and any sets
of values that satisfy the assumptions in `ConfigApply`:

* `TypeCorrect`, `RuntimeStaysCoherent`, `FileStaysBootable`, from `Invariant`.

`RuntimeCoherent` and `FileBootable` are not inductive: what is applied and what is saved
comes from a handler's locals. The invariant `IInv` adds that every configuration a handler
works on is `Sound` (its active profile exists and is mirrored in the ownship block where
it was validated) and that a handler which Apply has accepted holds a destination that
can be used. The lemmas say what `DefaultAndValidate`, `WithSettings`, `WithAircraft`
and `Commit` keep of this; the step lemma has one case per action.

* `EditsTakeEffect`, `DivergenceIsExplained` and the action property `RestartFieldsStay`
  (what other goroutines read without a lock never changes while the process runs),
  from `EditsKept`;
* `FalseRestartNeedsFlag`, about the finding `NoFalseRestart`: where no command line
  overrides the file and it has no device flag in the decoder arguments, Apply refuses an
  edit only for a destination that cannot be used. So there is no third way to it.

These need a second layer, `EditInv`. Every request in flight asks for no restart and carries
the identity that its client asked for (`RequestKept`); one that no other overlaps has,
after Apply, its edit in force (`InForce`), and for its rollback the file itself, or, for
settings, the file with the edited profile (`OldKept`), which Apply never refuses. While
nothing is applied and not saved, file and runtime differ only for a cause (`DivergeInv`).

`TrafficStoreProofs` proves for any aircraft, feeds, fields, TTL, Lag and MaxTargets:

* `TypeCorrect`, `ReportsBounded`, `AgesAreBounded`, `LastKnownIsKept`, and
  `StoreImplementsPicture`: every behaviour of the store is one of the picture.

The invariant needs `SaidOfTracked` (nothing is remembered of an aircraft that is not in
the map). `ReportsBounded` needs an argument about cardinality: an update without a
position adds no reported target, one with a position leaves at most `MaxTargets` in the
map. The refinement takes one case per action of the store; that the stalest go first
follows from `AgeBounded`: a target's age lies between the time since it was last heard and,
but for `Lag`, the time since its last position. The invariant itself knows more of this
code, whose age follows every message; the property does not ask for that.

`DecoderProofs` proves of `DecoderLink`, for any set of clients and any bound on the wire:

* `TypeCorrect`, `ClosedIsGone`, `NoSocketIsLeft`, `StatusIsExplained`, `ExitIsExplained`.

The invariant adds `CloseInv` (every client that Close has passed is over, and a program is
there only while the supervisor waits for it) and `RunInv` (a program that runs has no
error, a pause shows "exited"): `ClosedMeansGone` speaks of the end of Close alone, and
`ExitExplained` alone allows an error of one run to be there when the next one ends.

And of `SDRAssign`, for any dongles and any serials:

* `DonglesAreDistinct`, `SerialsAreRespected`, from `AssignInvariant`.

Both speak of the end of the start. `FoundInv` says that detection assigned all that is plugged
in, by `AutoAssign1090And978`; `ArgumentsInv` follows the arguments from what was written
to what was chosen, one band after the other: configuring 1090 must leave alone what 978 will
read. The lemmas say what the assignment is for each combination of hints and fallbacks.

`GPSProofs` proves, for any limit, lag, cap and skews:

* `TypeCorrect`, `OwnshipIsBounded`, `PositionIsOfFix`.

The invariant states both of the accumulated fix `st.fix` as well as of the published one:
its age as shown and its real age differ by the skew or the way (`Dated`), its position
is that of a fix (`Placed`). A published fix is a copy of the accumulated one.

`FanControlProofs` proves, with reads and writes that fail at any time:

* `TypeCorrect`, `FullWhileBlind`, `ShowsWhatIsDriven`, `StaysOffOnceClosed`.

The properties speak of what is driven; the invariant adds where the loop and the closers
must be for it: the fan is driven to 0 only after the loop has ended (`LoopOver`), a closer
that is through has driven it or failed to (`FanOver`).

`AttitudeProofs` proves of `AHRS`, for any clients, axes, tilt and scenes:

* `TypeCorrect`, `ValidIsHealthy`, `DriftIsMeasured`, `FrameIsRebuildable`, `LevelStays`,
  and the action property `DoneTakesMount`, from `Invariant`.

`ValidFromHealthy` is inductive with the types. `CallInv` says that a caller has asked for
one thing at most and waits for it without an answer, also while its request is in a channel
or its window is open (`HasAsked`): without it a late reply might reach a caller that
has asked again. `OrientInv` says that a capture is open only with a forward axis and with the
board as it is mounted, which is what keeps the pair of axis and gravity together. `LevelInv`
says what the offset is while Set Level is pressed and until the next sample shows it.

And of `AttitudeHub`, for any number of browsers and any buffer:

* `HubTypeCorrect`, `ClientsSeeOrder`, from `HubInvariant`.

The invariant adds that nothing is newer than the last attitude (`BoundInv`), that an attitude
which has still to be sent to a browser is newer than all that it has, unless it is the
one of its subscription (`FreshInv`), and that the table the streamer copied holds only
browsers that are there or have been closed since (`TableInv`).

`UATRelayProofs` proves, for any capacity of the queue, any share of it that a tick takes,
and rings of any size:

* `TypeCorrect`, `RelaysInTime`, from `Invariant`.

The arithmetic is in `DelayInv`: a frame at place `i` of the queue that has waited for `w` > 0
ticks satisfies `i + w * Drain <= Cap + left`, which each tick and each frame taken keeps.
`RelayDelay` does not know of `i` and is not inductive. `SteadyInv` says that a tick which is
running has as many rounds left as the queue has frames, as long as no burst was too large.

* `TextIsNewest`.

`TextNewestFirst` counts the lines that are newer than one that is shown, which no step
keeps by itself. `TextInv` says it without counting: what is shown came, each line newer than
the next, and a line that is not shown is older than all that are, of which there are then
`MaxText`. `TextAfter` is the arithmetic of the ring: what it shows at place `i` after `L` more
lines, for `i` and `L` on either side of its size and of each other.

* `TalliesAreRight`.

While the clock has not been set back the tallies are those of the frames of the last minute.
After a set-back they are at most those of the frames that are not behind the minute: what
was heard ahead of the clock stays counted, as the code has it (section 7).

`TallyInv` relates each bucket to the list of all frames: it counts no more than the frames
of its second (`AtMost`), and just these while the clock was not set back and no tower
had to go (`Exact`), when also no bucket is behind a frame that it should count. A bucket that
is in use is the one of its second, so no two stand for the same (`RingSum`). What a snapshot
shows is a sum over a set, which the community module defines by recursion. `SumsToWeight`
proves that sum to be the number of pairs of a member and a number up to its weight
(`Weight`), by the least counterexample; the rest is cardinalities of disjoint unions
(`PartsSum`). That no counter is compared with `Window` but through the remainder needs
`RemaindersApart`: two seconds of one bucket are `Window` apart or more.

`GDL90LogProofs` proves, for any producers, batches and buffer:

* `TypeCorrect`, `FileIsPrefix`, of the composition with the replay, from `Invariant`.

The invariant says that file and buffer together are the halves 1, 2, 3 and so on of what was
recorded, as long as nothing has failed (`FileInv`), and that one producer at a time is in the
writer (`MutexInv`); both hold unless somebody was in it when `main` closed it (`LogInv`).

* `SentIsLogged`.

Unless somebody was in the writer when `main` closed it this follows from the prefix. If
somebody was, halves may be written twice or be missing, and the proof needs to know whose:
whoever was in the writer stays alone there and nothing is sent anymore (`AloneInv`), and the
lines that were sent before are in one piece in the file and the buffer, and in the file
alone while a flush may write its buffer again (`SentInv`).

* `ReplayIsTheRecording`.

It needs that a half in the file is of a line that was recorded (`HalvesInv`), so that the
records have times, and that the player has played the records before the next one, the last
of them at the time it is at (`PlayerInv`).

What recursive definitions compute is out of the prover's reach, as induction takes an operator
for a parameter; where a proof needs it, as for sums, a least counterexample does instead
(`Least`, from the well-foundedness of the natural numbers).

Only model-checked: all liveness (`RequestsAnswered`, `HandlersReturn`, `StartupCompletes`,
`StreamerProgress`, `CloseReturns`, `FanCloseReturns`, `GPSCloseReturns`, `StreamComesBack`,
`GPSComesBack`, `ReplayEnds`), which is out of the prover's reach.

## 6. What is not modelled

* GDL90 encoding (`internal/gdl90`) and `decode.go` of `internal/uat978`: functions of one
  value without state. Byte stuffing, a checksum and bit fields are what the table tests
  of the packages reach; a model would restate them.
* Sensor drivers and I2C: register access and fixed-point compensation. That they fail is
  an action of AHRS.
* Wi-Fi setup and host integration: commands, their output, and files of the kernel.
* The numbers: the complementary filter, the g-meter, the PID, the fusing of headings, the
  parsers' arithmetic.
* Data races on `liveRuntime.cfg` (the streamer reads it while Apply writes it, though never
  a field that changes, which `RestartFieldsFixed` shows) and on the AHRS bus in `Close`.
* The order in which `liveRuntime.Close` stops services, and the tails of a child's output
  with the goroutines that read them (a reader stops at a line that is too long; the child
  then blocks on a full pipe until it is killed).
* YAML decoding errors of the file: the process does not start then.

In the models: two POSTs whose loads and renames interleave inside one step are not told
apart, since `load` reads the file at once and the rename is atomic. DecoderLink leaves out
the lengths of backoffs and errors of the handlers, which none returns; an external decoder
that stays silent keeps a client's `Close` waiting, which `CloseReturns` excludes: only
the end of the process ends it. `jsonfile_poller.go` has no caller. The NMEA reader of GPS does
not open its port again after a failed read, as the code has it, so `GPSComesBack` is about gpsd. A log is one
that `Writer` wrote: comments and a second START are left out, and so is the speed of a
replay, which scales waits. UATRelay leaves out levels in dB and the number of rows of a page.

## 7. What the models state as the code has it

Seven places where the code does other than the repository says are findings, with the run that
shows each: the rollback, the false restart, the TTL, the selector, the two panics, and the
fan that is not kept spinning. The code differs from the repository's text in two more, which
no run shows:

* SDR. With the same serial on two dongles both bands open the same one, where
  `dev.md:161` says that auto assigns one for each band. `DistinctDongles` and its
  theorem are about serials that differ.
* Heading. The comment at `main.go:749` speaks of a fresh track, but the gate at
  `main.go:911` does not look at the age of the fix. No module holds the fusing of headings.

And the models follow the code in these, where a reader might expect something else. The
properties named leave the case out or allow it, so they would not catch it:

* Configuration. POST wifi/ap writes a new destination that is not applied until the next
  start, and does not look at the error of the save (`DivergenceExplained` names it as a cause).
* AHRS. An IMU that fails for good leaves the startup waiting, and a Zero Drift pressed while
  the startup's own is open can leave `StartupReady` false for good (`StartupCompletes`). Done
  after Done averages vectors that are mapped already, and so stores a gravity of the wrong
  frame (`GravityOfMount`). Set Level pressed twice between two samples corrects twice
  (`LevelHolds`). Sensors share one `LastError`, which has the text of the one that wrote it
  last and is cleared by the first that works; no property is about it. The gyro bias is kept
  in the frame in which it was measured when the board is oriented anew.
* Traffic. Metadata alone may keep more aircraft in the map than `MaxTargets`
  (`PositionedBounded` counts those of a report).
* Decoders. A line that is rejected leaves a client at "error" for the rest of its
  connection (`StatusExplained`). An error of one run of a child stays until another one
  replaces it.
* GPS. A report of a fix without a position dates the last position anew (`PositionOfFix`).
* Fan. `FanCloseReturns` asks for no return where the process ends under the call: where `main`
  returns, or where the crash comes that `FanNeverCrashes` finds.
* Uplink. Any tower may go when there are too many, also the one that is heard most. When the
  clock is set back, counts of the last minute may be lost, and frames with a time ahead of the
  clock stay counted until it is a minute past them, since `aggregate.go:207` and `256` have
  no upper bound: for that time the page shows more than the last minute that
  `index.html:548` promises (`TallyOfMinute`).
* Log. `CreateWriter` truncates the log at every start. A torn last line may make the reader
  refuse the whole log. An error of a send ends a replay, where the live tick goes on. A log
  without a frame, played in a loop, never pauses and never ends (`ReplayEnds` asks for a
  frame); one whose frames share one time floods the network.
* SDR. One band set by hand and the other on auto may share a dongle. `--device auto` stays
  in the arguments when detection fails.
