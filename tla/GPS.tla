-------------------------------- MODULE GPS --------------------------------
(***************************************************************************)
(* The GPS receiver: gps.Service, which reads gpsd's JSON reports over TCP *)
(* or NMEA sentences from a serial port and publishes a snapshot, and the  *)
(* age limit under which the tick of main sends an ownship report from it. *)
(*                                                                         *)
(* Times are ages, in steps of Tick, that stop at Old. A report carries    *)
(* both coordinates or none; the other fields follow the same rules and    *)
(* are left out, and so is the text of the last error. The clock of the    *)
(* appliance is behind GPS time by `skew` (ahead, if negative).            *)
(***************************************************************************)
EXTENDS Integers

CONSTANTS
  Limit,  \* the age up to which a fix is good: 3 s
  Lag,    \* bound: the age of a report's data when it is read
  Skews,  \* bound: by how much the clock may be behind
  Old     \* bound: ages are counted up to here

ASSUME GPSAssumption ==
  /\ Limit \in Nat /\ Lag \in Nat /\ Skews \subseteq Int
  /\ Old \in Nat /\ Old > Limit + Lag /\ \A s \in Skews : Old > Limit + s

Never == Old + 1

VARIABLES
  source,   \* "gpsd" or "nmea"
  skew,
  st,       \* gpsdState or nmeaState
  snap,     \* what Snapshot returns
  gpsd,     \* whether gpsd accepts connections
  readerAt, \* where the reader is
  conn,     \* its connection, or the serial port
  closer,   \* Service.closer: nothing, this connection, or an earlier one
  cancelled, \* main's context is cancelled
  phase,    \* where Start and Close are
  taken     \* the closer that Close has taken

data == <<st, snap>>
link == <<readerAt, conn, closer, taken>>
world == <<source, skew>>
gpsVars == <<world, data, gpsd, link, cancelled, phase>>

\* The age of the position; that of the report of a fix by the time it is about
\* and by LastFixUTC; whether that report was stamped, and came without a position.
NoFix == [pos |-> Never, real |-> Never, shown |-> Never,
          stamped |-> FALSE, partial |-> FALSE]

\* Variant: the snapshot's Valid alone, as on the traffic page.
FixOKByValid == snap.real # Never

\* buildGDL90FramesWithGPS sends an ownship report. Valid is set with LastFixUTC
\* and never reset.
FixOK == snap.real # Never /\ snap.shown <= Limit

---------------------------------------------------------------------------
(* Reports *)

TPVs == [mode : {"none", "nofix", "fix"}, pos : BOOLEAN, stamped : BOOLEAN, lag : 0..Lag]
NMEAs == [fix : BOOLEAN, pos : BOOLEAN, alt : BOOLEAN, lag : 0..Lag, type : {"RMC", "GGA"}]

Position(r) == IF r.pos THEN r.lag ELSE st.fix.pos

\* The fix of a report, dated with its own time if it has one, else with the clock.
Fixed(r, stamped) ==
  [pos |-> Position(r), real |-> r.lag, shown |-> IF stamped THEN r.lag - skew ELSE 0,
   stamped |-> stamped, partial |-> ~r.pos]

\* Variant: any report dates the fix.
ApplyTPVAnyMode(r) ==
  LET mode == IF r.mode = "none" THEN st.mode ELSE r.mode
      fix == IF Position(r) # Never
             THEN [Fixed(r, r.stamped) EXCEPT !.partial = ~r.pos /\ mode = "fix"]
             ELSE st.fix
  IN st' = [mode |-> mode, fix |-> fix] /\ snap' = fix

\* applyTPV, and the Store of the snapshot. The mode of an earlier report holds.
ApplyTPV(r) ==
  LET mode == IF r.mode = "none" THEN st.mode ELSE r.mode
      fix == IF mode = "fix" /\ Position(r) # Never
             THEN Fixed(r, r.stamped)
             ELSE [st.fix EXCEPT !.pos = Position(r)]
  IN st' = [mode |-> mode, fix |-> fix] /\ snap' = fix

\* applyRMC and applyGGA: a void sentence changes nothing. A GGA that brings
\* nothing new dates the fix, but is not published.
ApplyNMEA(r) ==
  LET fix == IF Position(r) # Never THEN Fixed(r, FALSE) ELSE st.fix
      updated == Position(r) # Never /\ (r.type = "RMC" \/ r.pos \/ r.alt)
  IN IF r.fix
     THEN /\ st' = [st EXCEPT !.fix = fix]
          /\ snap' = IF updated THEN fix ELSE snap
     ELSE UNCHANGED data

\* A report is read, perhaps one that was buffered before the connection ended:
\* of a position, or of satellites, which publishes what is known, or noise,
\* which changes only the error.
ReadReport ==
  /\ readerAt = "scan" /\ conn # "none" /\ readerAt' = "check"
  /\ \/ source = "gpsd" /\ \E r \in TPVs : ApplyTPV(r)
     \/ source = "nmea" /\ \E r \in NMEAs : ApplyNMEA(r)
     \/ source = "gpsd" /\ snap' = st.fix /\ UNCHANGED st
     \/ UNCHANGED data
  /\ UNCHANGED <<world, gpsd, conn, closer, taken, cancelled, phase>>

Aged(a) == IF a >= Old THEN a ELSE a + 1
AgedFix(f) == [f EXCEPT !.pos = Aged(@), !.real = Aged(@), !.shown = Aged(@)]

Tick ==
  /\ st' = [st EXCEPT !.fix = AgedFix(@)] /\ snap' = AgedFix(snap)
  /\ UNCHANGED <<world, gpsd, link, cancelled, phase>>

---------------------------------------------------------------------------
(* The reader *)

\* The deferred Close of the connection, or of the port.
Released(c) == IF c = "this" THEN "earlier" ELSE c
Release ==
  conn' = "none" /\ closer' = Released(closer) /\ taken' = Released(taken)

Top ==
  /\ readerAt = "top" /\ readerAt' = IF cancelled THEN "done" ELSE "dial"
  /\ UNCHANGED <<world, data, gpsd, conn, closer, taken, cancelled, phase>>

\* Variant: no second try.
DialGivesUp ==
  /\ readerAt = "dial" /\ readerAt' = "done"
  /\ UNCHANGED <<world, data, gpsd, conn, closer, taken, cancelled, phase>>

DialFails ==
  /\ readerAt = "dial" /\ readerAt' = "backoff"
  /\ UNCHANGED <<world, data, gpsd, conn, closer, taken, cancelled, phase>>

DialSucceeds ==
  /\ readerAt = "dial" /\ gpsd /\ conn' = "open" /\ readerAt' = "store"
  /\ UNCHANGED <<world, data, gpsd, closer, taken, cancelled, phase>>

\* The timer, or the context.
Backoff ==
  /\ readerAt = "backoff"
  /\ \/ readerAt' = "top"
     \/ cancelled /\ readerAt' = "done"
  /\ UNCHANGED <<world, data, gpsd, conn, closer, taken, cancelled, phase>>

\* Variant: Close keeps the closer it had.
ForgetCloser ==
  /\ readerAt = "store" /\ readerAt' = "check"
  /\ UNCHANGED <<world, data, gpsd, conn, closer, taken, cancelled, phase>>

\* Under the lock. gpsdWatch follows; its write fails as a read would.
StoreCloser ==
  /\ readerAt = "store" /\ readerAt' = "check" /\ closer' = "this"
  /\ UNCHANGED <<world, data, gpsd, conn, taken, cancelled, phase>>

Check ==
  /\ readerAt = "check"
  /\ IF cancelled THEN readerAt' = "done" /\ Release
                 ELSE readerAt' = "scan" /\ UNCHANGED <<conn, closer, taken>>
  /\ UNCHANGED <<world, data, gpsd, cancelled, phase>>

\* gpsd is dialed again, at once; the serial port is not opened a second time.
AfterReadFails == IF source = "gpsd" THEN "top" ELSE "done"

\* setError waits for the lock that Start holds.
ReadFails ==
  /\ readerAt = "scan" /\ conn = "eof" /\ phase # "starting"
  /\ readerAt' = AfterReadFails /\ Release
  /\ UNCHANGED <<world, data, gpsd, cancelled, phase>>

Reader ==
  Top \/ DialFails \/ DialSucceeds \/ Backoff \/ StoreCloser \/ Check \/ ReadFails

---------------------------------------------------------------------------
(* gpsd, or the receiver; and Close *)

\* gpsd goes, or drops the reader; the receiver is unplugged.
Lose ==
  /\ gpsd' \in BOOLEAN
  /\ conn' = IF conn = "open" THEN "eof" ELSE conn
  /\ UNCHANGED <<world, data, readerAt, closer, taken, cancelled, phase>>

Return ==
  /\ ~gpsd /\ gpsd' = TRUE
  /\ UNCHANGED <<world, data, link, cancelled, phase>>

GPSCancel ==
  /\ ~cancelled /\ cancelled' = TRUE
  /\ UNCHANGED <<world, data, gpsd, link, phase>>

\* Close takes the closer under the lock.
TakeCloser ==
  /\ cancelled /\ phase = "running" /\ phase' = "taken"
  /\ taken' = closer /\ closer' = "none"
  /\ UNCHANGED <<world, data, gpsd, readerAt, conn, cancelled>>

\* It closes what it took: a read on a connection fails then. A read on the serial
\* port does not, since that file is a blocking one; it goes on until a byte comes.
CloseTaken ==
  /\ phase = "taken" /\ phase' = "waiting"
  /\ conn' = IF taken = "this" /\ conn = "open" /\ source = "gpsd" THEN "eof" ELSE conn
  /\ UNCHANGED <<world, data, gpsd, readerAt, closer, taken, cancelled>>

\* wg.Wait
CloseDone ==
  /\ phase = "waiting" /\ readerAt = "done" /\ phase' = "done"
  /\ UNCHANGED <<world, data, gpsd, link, cancelled>>

---------------------------------------------------------------------------

\* Start has started the reader of the serial port, which may have read already,
\* when it publishes a first snapshot. A reader of gpsd waits for the lock first.
PublishInitial ==
  /\ phase = "starting" /\ phase' = "running" /\ snap' = NoFix
  /\ UNCHANGED <<world, st, gpsd, link, cancelled>>

\* Start: an NMEA reader whose port cannot be opened does not run.
GPSInit ==
  /\ source \in {"gpsd", "nmea"} /\ skew \in Skews
  /\ st = [mode |-> "none", fix |-> NoFix] /\ snap = NoFix
  /\ gpsd \in BOOLEAN
  /\ \/ source = "gpsd" /\ readerAt = "top" /\ conn = "none" /\ closer = "none"
     \/ source = "nmea" /\ readerAt = "check" /\ conn = "open" /\ closer = "this"
     \/ source = "nmea" /\ readerAt = "done" /\ conn = "none" /\ closer = "none"
  /\ phase = IF source = "nmea" /\ readerAt = "check" THEN "starting" ELSE "running"
  /\ cancelled = FALSE /\ taken = "none"

GPSNext ==
  \/ PublishInitial \/ ReadReport \/ Tick \/ Reader
  \/ Lose \/ Return \/ GPSCancel \/ TakeCloser \/ CloseTaken \/ CloseDone

\* The reader and Close run; what is buffered is finite; a gpsd that accepts
\* connections accepts one that is tried again. Nothing has to be sent.
GPSFairness ==
  /\ WF_gpsVars(Reader) /\ SF_gpsVars(DialSucceeds) /\ SF_gpsVars(ReadFails)
  /\ WF_gpsVars(PublishInitial) /\ WF_gpsVars(CloseTaken) /\ WF_gpsVars(CloseDone)

GPSSpec == GPSInit /\ [][GPSNext]_gpsVars /\ GPSFairness

---------------------------------------------------------------------------
(* Properties *)

Fixes == [pos : 0..Never, real : 0..Never, shown : Int, stamped : BOOLEAN, partial : BOOLEAN]

GPSTypeOK ==
  /\ source \in {"gpsd", "nmea"} /\ skew \in Skews
  /\ st \in [mode : {"none", "nofix", "fix"}, fix : Fixes] /\ snap \in Fixes
  /\ gpsd \in BOOLEAN
  /\ readerAt \in IF source = "gpsd"
                   THEN {"top", "dial", "backoff", "store", "check", "scan", "done"}
                   ELSE {"check", "scan", "done"}
  /\ conn \in {"none", "open", "eof"}
  /\ closer \in {"none", "this", "earlier"} /\ taken \in {"none", "this", "earlier"}
  /\ cancelled \in BOOLEAN /\ phase \in {"starting", "running", "taken", "waiting", "done"}

\* An ownship report is sent only while the last report of a fix is recent,
\* whatever came since: reports without a fix, satellites, errors, a lost
\* connection, nothing. The limit is exact but for what the date of the fix
\* cannot know: the error of the clock, or the way of a report without a time.
\* A clock that is ahead by more than Limit sends nothing at all.
OwnshipBounded ==
  FixOK => snap.real <= Limit + (IF snap.stamped THEN skew ELSE Lag)

\* The position that goes out is no older than the fix that dates it, by more
\* than a report's way, except after a report of a fix that came without a
\* position: such a report makes an earlier position look as fresh as itself.
PositionOfFix ==
  snap.real # Never /\ ~snap.partial => snap.pos <= snap.real + Lag

\* Close returns with gpsd, even when it races a dial: either it closes the
\* connection, or the reader sees the context before it waits for a report.
GPSCloseReturns == (phase = "taken" /\ source = "gpsd") ~> (phase = "done")

\* While gpsd accepts connections the reader has one, again and again.
GPSComesBack ==
  (<>[](gpsd /\ ~cancelled) /\ source = "gpsd") => []<>(conn = "open")
=============================================================================
