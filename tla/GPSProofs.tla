----------------------------- MODULE GPSProofs -----------------------------
(***************************************************************************)
(* What an ownship report may say, for any limit, way of a report and      *)
(* error of the clock.                                                     *)
(***************************************************************************)
EXTENDS GPS, TLAPS

\* While the date of a fix is not capped, the fix is no older than the date
\* says, but for the error of the clock or the way of the report.
Dated(f) == f.shown < Old => f.real <= f.shown + (IF f.stamped THEN skew ELSE Lag)

\* A fix that came with a position is about as old as that position.
Placed(f) == f.real # Never /\ ~f.partial => f.pos <= f.real + Lag

Good(f) == f \in Fixes /\ Dated(f) /\ Placed(f)

\* The fix that the reader builds keeps this as well as the published one: the
\* next report may publish it.
IInv == GPSTypeOK /\ Good(st.fix) /\ Good(snap)

\* The constants are numbers of this order.
LEMMA Bounds ==
  /\ Limit \in Nat /\ Lag \in Nat /\ Old \in Nat /\ Skews \subseteq Int
  /\ Old > Limit + Lag /\ Never = Old + 1 /\ Never \in Nat
  /\ 0 \in 0..Never /\ 0..Lag \subseteq 0..Never
BY GPSAssumption, SMT DEF Never

\* Before the first report there is no fix.
LEMMA NoFixIsGood == Good(NoFix)
<1>1. NoFix \in Fixes
  BY Bounds, SMT DEF NoFix, Fixes
<1>2. Dated(NoFix)
  BY Bounds, SMT DEF NoFix, Dated
<1>3. Placed(NoFix)
  BY Bounds, SMT DEF NoFix, Placed
<1> QED BY <1>1, <1>2, <1>3 DEF Good

\* A capped age grows by one at most, and never becomes Never.
LEMMA Ages ==
  ASSUME NEW a \in 0..Never
  PROVE  /\ Aged(a) \in 0..Never
         /\ Aged(a) = Never <=> a = Never
         /\ a < Old => Aged(a) = a + 1
         /\ a >= Old => Aged(a) = a
BY Bounds, SMT DEF Aged

\* A fix with other ages is one.
LEMMA FixWithAges ==
  ASSUME NEW f \in Fixes, NEW p \in 0..Never, NEW a \in 0..Never, NEW b \in Int
  PROVE  [f EXCEPT !.pos = p, !.real = a, !.shown = b] \in Fixes
BY Zenon DEF Fixes

\* Time keeps a good fix good.
LEMMA TimeKeepsGood ==
  ASSUME NEW f, Good(f), skew \in Int
  PROVE  Good(AgedFix(f))
<1> DEFINE g == AgedFix(f)
<1> USE Bounds
<1>1. /\ f.pos \in 0..Never /\ f.real \in 0..Never /\ f.shown \in Int
      /\ f.stamped \in BOOLEAN /\ f.partial \in BOOLEAN
  BY DEF Good, Fixes
<1>2. /\ g.pos = Aged(f.pos) /\ g.real = Aged(f.real) /\ g.shown = Aged(f.shown)
      /\ g.stamped = f.stamped /\ g.partial = f.partial
  <2>1. f \in Fixes
    BY DEF Good
  <2> QED BY <2>1, SMT DEF AgedFix, Fixes
<1>3. Aged(f.shown) \in Int
  BY <1>1, SMT DEF Aged
<1>4. g \in Fixes
  <2>1. f \in Fixes /\ Aged(f.pos) \in 0..Never /\ Aged(f.real) \in 0..Never
    BY <1>1, Ages DEF Good
  <2> QED BY <1>3, <2>1, FixWithAges DEF AgedFix
<1>5. Dated(g)
  <2>1. SUFFICES ASSUME Aged(f.shown) < Old
                 PROVE  Aged(f.real) <= Aged(f.shown) + (IF f.stamped THEN skew ELSE Lag)
    BY <1>2, SMT DEF Dated
  <2>2. f.shown < Old /\ Aged(f.shown) = f.shown + 1
    BY <1>1, <2>1, SMT DEF Aged
  <2>3. Aged(f.real) <= f.real + 1
    BY <1>1, SMT DEF Aged
  <2>4. f.real <= f.shown + (IF f.stamped THEN skew ELSE Lag)
    BY <2>2 DEF Good, Dated
  <2>5. Aged(f.real) \in Int
    BY <1>1, SMT DEF Aged
  <2> QED BY <1>1, <2>2, <2>3, <2>4, <2>5, SMT
<1>6. Placed(g)
  <2>1. SUFFICES ASSUME Aged(f.real) # Never, ~f.partial
                 PROVE  Aged(f.pos) <= Aged(f.real) + Lag
    BY <1>2, SMT DEF Placed
  <2>2. f.pos <= f.real + Lag
    BY <1>1, <2>1, Ages DEF Good, Placed
  <2> QED BY <1>1, <2>2, SMT DEF Aged
<1> QED BY <1>4, <1>5, <1>6 DEF Good

\* A report brings a position as old as itself, or leaves the one there is.
LEMMA Positions ==
  ASSUME NEW r, r.lag \in 0..Lag, r.pos \in BOOLEAN, Good(st.fix)
  PROVE  /\ Position(r) \in 0..Never
         /\ r.pos => Position(r) = r.lag
         /\ ~r.pos => Position(r) = st.fix.pos
BY Bounds, SMT DEF Position, Good, Fixes

\* The fix of a report of one is good, dated by its own time or by the clock.
LEMMA FixedIsGood ==
  ASSUME NEW r, r.lag \in 0..Lag, r.pos \in BOOLEAN, NEW s \in BOOLEAN,
         Good(st.fix), skew \in Int
  PROVE  Good(Fixed(r, s))
<1> DEFINE f == Fixed(r, s)
<1> USE Bounds
<1>1. /\ f.pos = Position(r) /\ f.real = r.lag /\ f.stamped = s /\ f.partial = ~r.pos
      /\ f.shown = IF s THEN r.lag - skew ELSE 0
  BY SMT DEF Fixed
<1>2. f \in Fixes
  <2>1. (IF s THEN r.lag - skew ELSE 0) \in Int
    BY SMT
  <2>2. r.lag \in 0..Never
    BY SMT
  <2>3. (~r.pos) \in BOOLEAN
    BY Zenon
  <2> QED BY <2>1, <2>2, <2>3, Positions, SMT DEF Fixed, Fixes
<1>3. Dated(f)
  BY <1>1, SMT DEF Dated
<1>4. Placed(f)
  <2>1. ~f.partial => f.pos = r.lag
    BY <1>1, Positions, Zenon
  <2> HIDE DEF f
  <2> QED BY <1>1, <2>1, SMT DEF Placed
<1> QED BY <1>2, <1>3, <1>4 DEF Good

\* A report without a fix may move the position, and leaves the date.
LEMMA MovedIsGood ==
  ASSUME NEW r, r.lag \in 0..Lag, r.pos \in BOOLEAN, Good(st.fix)
  PROVE  Good([st.fix EXCEPT !.pos = Position(r)])
<1> DEFINE g == [st.fix EXCEPT !.pos = Position(r)]
<1> USE Bounds
<1>1. st.fix \in Fixes
  BY DEF Good
<1>2. g \in Fixes
  BY <1>1, Positions, SMT DEF Fixes
<1>3. /\ g.pos = Position(r) /\ g.real = st.fix.real /\ g.shown = st.fix.shown
      /\ g.stamped = st.fix.stamped /\ g.partial = st.fix.partial
  BY <1>1, SMT DEF Fixes
<1>4. Dated(g)
  BY <1>3 DEF Dated, Good
<1>5. Placed(g)
  BY <1>1, <1>3, Positions, SMT DEF Placed, Good, Fixes
<1> QED BY <1>2, <1>4, <1>5 DEF Good

\* The invariant holds when the service starts.
LEMMA InitIInv == GPSInit => IInv
<1> SUFFICES ASSUME GPSInit PROVE IInv
  OBVIOUS
<1>1. st.fix = NoFix /\ snap = NoFix
  BY DEF GPSInit
<1>2. NoFix \in Fixes
  BY NoFixIsGood DEF Good
<1>3. GPSTypeOK
  <2>1. st \in [mode : {"none", "nofix", "fix"}, fix : Fixes]
    BY <1>2, SMT DEF GPSInit
  <2>2. /\ source \in {"gpsd", "nmea"} /\ skew \in Skews
        /\ gpsd \in BOOLEAN /\ cancelled \in BOOLEAN
    BY Zenon DEF GPSInit
  <2>3. /\ readerAt \in (IF source = "gpsd"
                  THEN {"top", "dial", "backoff", "store", "check", "scan", "done"}
                  ELSE {"check", "scan", "done"})
        /\ conn \in {"none", "open", "eof"}
        /\ closer \in {"none", "this", "earlier"} /\ taken \in {"none", "this", "earlier"}
        /\ phase \in {"starting", "running", "taken", "waiting", "done"}
    BY SMT DEF GPSInit
  <2> QED BY <1>1, <1>2, <2>1, <2>2, <2>3, Zenon DEF GPSTypeOK
<1> QED BY <1>1, <1>3, NoFixIsGood DEF IInv

\* What the report does to the fixes.
LEMMA ReportKeepsGood ==
  ASSUME IInv, ReadReport
  PROVE  /\ st' \in [mode : {"none", "nofix", "fix"}, fix : Fixes]
         /\ Good(st'.fix) /\ Good(snap')
<1> USE DEF IInv
<1>1. skew \in Int
  BY Bounds DEF GPSTypeOK
<1>2. ASSUME NEW r \in TPVs, ApplyTPV(r)
      PROVE  /\ st' \in [mode : {"none", "nofix", "fix"}, fix : Fixes]
             /\ Good(st'.fix) /\ Good(snap')
  <2> DEFINE mode == IF r.mode = "none" THEN st.mode ELSE r.mode
             fix == IF mode = "fix" /\ Position(r) # Never
                    THEN Fixed(r, r.stamped)
                    ELSE [st.fix EXCEPT !.pos = Position(r)]
  <2>1. r.lag \in 0..Lag /\ r.pos \in BOOLEAN /\ r.stamped \in BOOLEAN
    BY DEF TPVs
  <2>2. Good(fix)
    BY <1>1, <2>1, FixedIsGood, MovedIsGood
  <2>3. mode \in {"none", "nofix", "fix"}
    BY SMT DEF TPVs, GPSTypeOK
  <2>4. st' = [mode |-> mode, fix |-> fix] /\ snap' = fix
    BY <1>2, Zenon DEF ApplyTPV
  <2>5. fix \in Fixes
    BY <2>2 DEF Good
  <2> HIDE DEF mode, fix
  <2>6. st'.fix = fix
    BY <2>4
  <2> QED BY <2>2, <2>3, <2>4, <2>5, <2>6, SMT
<1>3. ASSUME NEW r \in NMEAs, ApplyNMEA(r)
      PROVE  /\ st' \in [mode : {"none", "nofix", "fix"}, fix : Fixes]
             /\ Good(st'.fix) /\ Good(snap')
  <2> DEFINE fix == IF Position(r) # Never THEN Fixed(r, FALSE) ELSE st.fix
             updated == Position(r) # Never /\ (r.type = "RMC" \/ r.pos \/ r.alt)
  <2>1. r.lag \in 0..Lag /\ r.pos \in BOOLEAN
    BY DEF NMEAs
  <2>2. Good(fix)
    BY <1>1, <2>1, FixedIsGood
  <2>3. CASE r.fix
    <3>1. st' = [st EXCEPT !.fix = fix] /\ snap' = IF updated THEN fix ELSE snap
      BY <1>3, <2>3, Zenon DEF ApplyNMEA
    <3>2. fix \in Fixes
      BY <2>2 DEF Good
    <3> HIDE DEF fix, updated
    <3>3. st' \in [mode : {"none", "nofix", "fix"}, fix : Fixes] /\ st'.fix = fix
      BY <3>1, <3>2, SMT DEF GPSTypeOK
    <3>4. snap' = fix \/ snap' = snap
      BY <3>1
    <3> QED BY <2>2, <3>3, <3>4
  <2>4. CASE ~r.fix
    BY <1>3, <2>4, SMT DEF ApplyNMEA, data, GPSTypeOK
  <2> QED BY <2>3, <2>4
<1>4. CASE snap' = st.fix /\ UNCHANGED st
  BY <1>4 DEF GPSTypeOK
<1>5. CASE UNCHANGED data
  BY <1>5 DEF GPSTypeOK, data
<1> QED BY <1>2, <1>3, <1>4, <1>5 DEF ReadReport

\* Everything but the fixes: what the reader, gpsd and Close change.
LEMMA OthersKeepTypes ==
  ASSUME GPSTypeOK, GPSNext, UNCHANGED data \/ PublishInitial \/ ReadReport \/ Tick,
         st' \in [mode : {"none", "nofix", "fix"}, fix : Fixes], snap' \in Fixes
  PROVE  GPSTypeOK'
<1>1. /\ source' = source /\ skew' = skew
      /\ gpsd' \in BOOLEAN /\ cancelled' \in BOOLEAN
  BY Zenon DEF GPSTypeOK, GPSNext, PublishInitial, ReadReport, Tick, Reader, Top, DialFails, DialSucceeds, Backoff,
     StoreCloser, Check, ReadFails, Lose, Return, GPSCancel, TakeCloser, CloseTaken, CloseDone,
     world, link
<1>2. readerAt' \in (IF source = "gpsd"
               THEN {"top", "dial", "backoff", "store", "check", "scan", "done"}
               ELSE {"check", "scan", "done"})
  BY SMT DEF GPSTypeOK, GPSNext, PublishInitial, ReadReport, Tick, Reader, Top, DialFails, DialSucceeds, Backoff,
     StoreCloser, Check, ReadFails, AfterReadFails, Lose, Return, GPSCancel, TakeCloser,
     CloseTaken, CloseDone, link
<1>3. conn' \in {"none", "open", "eof"} /\ phase' \in {"starting", "running", "taken", "waiting", "done"}
  BY SMT DEF GPSTypeOK, GPSNext, PublishInitial, ReadReport, Tick, Reader, Top, DialFails, DialSucceeds, Backoff,
     StoreCloser, Check, ReadFails, Release, Lose, Return, GPSCancel, TakeCloser, CloseTaken,
     CloseDone, link
<1>4. /\ closer' \in {"none", "this", "earlier"}
      /\ taken' \in {"none", "this", "earlier"}
  BY SMT DEF GPSTypeOK, GPSNext, PublishInitial, ReadReport, Tick, Reader, Top, DialFails, DialSucceeds, Backoff,
     StoreCloser, Check, ReadFails, Release, Released, Lose, Return, GPSCancel, TakeCloser,
     CloseTaken, CloseDone, link
<1> QED BY <1>1, <1>2, <1>3, <1>4, Zenon DEF GPSTypeOK

\* Every step keeps the invariant.
LEMMA NextIInv == IInv /\ [GPSNext]_gpsVars => IInv'
<1> SUFFICES ASSUME IInv, [GPSNext]_gpsVars PROVE IInv'
  OBVIOUS
<1>1. GPSTypeOK /\ skew \in Int
  BY Bounds DEF IInv, GPSTypeOK
<1>2. CASE UNCHANGED gpsVars
  BY <1>2 DEF gpsVars, world, data, link, IInv, GPSTypeOK, Good, Dated, Placed
<1>3. CASE GPSNext
  <2>1. skew' = skew
    BY <1>3, Zenon DEF GPSNext, PublishInitial, ReadReport, Tick, Reader, Top, DialFails, DialSucceeds, Backoff,
       StoreCloser, Check, ReadFails, Lose, Return, GPSCancel, TakeCloser, CloseTaken, CloseDone,
       world
  <2>2. /\ UNCHANGED data \/ PublishInitial \/ ReadReport \/ Tick
        /\ st' \in [mode : {"none", "nofix", "fix"}, fix : Fixes]
        /\ Good(st'.fix) /\ Good(snap')
    <3>1. CASE ReadReport
      BY <3>1, ReportKeepsGood
    <3>2. CASE Tick
      <4>1. st' = [st EXCEPT !.fix = AgedFix(st.fix)] /\ snap' = AgedFix(snap)
        BY <3>2 DEF Tick
      <4>2. Good(AgedFix(st.fix)) /\ Good(AgedFix(snap))
        BY <1>1, TimeKeepsGood DEF IInv
      <4>3. AgedFix(st.fix) \in Fixes
        BY <4>2 DEF Good
      <4>4. /\ st' \in [mode : {"none", "nofix", "fix"}, fix : Fixes]
            /\ st'.fix = AgedFix(st.fix)
        BY <1>1, <4>1, <4>3, SMT DEF GPSTypeOK
      <4> QED BY <3>2, <4>1, <4>2, <4>4
    <3>4. CASE PublishInitial
      BY <3>4, NoFixIsGood DEF PublishInitial, IInv, GPSTypeOK
    <3>3. CASE UNCHANGED data
      BY <3>3 DEF data, IInv, GPSTypeOK
    <3> QED
      BY <1>3, <3>1, <3>2, <3>3, <3>4, Zenon DEF GPSNext, Reader, Top, DialFails, DialSucceeds,
         Backoff, StoreCloser, Check, ReadFails, Lose, Return, GPSCancel, TakeCloser,
         CloseTaken, CloseDone, data
  <2>3. GPSTypeOK'
    <3>1. snap' \in Fixes
      BY <2>2 DEF Good
    <3> QED BY <1>1, <1>3, <2>2, <3>1, OthersKeepTypes
  <2>4. Good(st.fix)' /\ Good(snap)'
    BY <2>1, <2>2 DEF Good, Dated, Placed
  <2> QED BY <2>3, <2>4 DEF IInv
<1> QED BY <1>2, <1>3

\* The inductive invariant of the receiver.
THEOREM Invariant == GPSSpec => []IInv
<1> QED BY InitIInv, NextIInv, PTL DEF GPSSpec

\* Every variable keeps its type.
THEOREM TypeCorrect == GPSSpec => []GPSTypeOK
<1>1. IInv => GPSTypeOK
  BY DEF IInv
<1> QED BY <1>1, Invariant, PTL

\* An ownship report is sent only on a recent fix, for any limit and any error
\* of the clock.
THEOREM OwnshipIsBounded == GPSSpec => []OwnshipBounded
<1>1. IInv => OwnshipBounded
  <2> SUFFICES ASSUME IInv, FixOK
               PROVE  snap.real <= Limit + (IF snap.stamped THEN skew ELSE Lag)
    BY DEF OwnshipBounded
  <2>1. snap \in Fixes /\ Dated(snap) /\ skew \in Skews
    BY DEF IInv, Good, GPSTypeOK
  <2>2. /\ snap.real \in Int /\ snap.shown \in Int /\ skew \in Int
        /\ snap.shown <= Limit /\ Limit < Old
    BY <2>1, Bounds, SMT DEF Fixes, FixOK
  <2>3. snap.shown < Old
    BY <2>2, Bounds, SMT
  <2>4. snap.real <= snap.shown + (IF snap.stamped THEN skew ELSE Lag)
    BY <2>1, <2>3 DEF Dated
  <2> QED BY <2>2, <2>4, Bounds, SMT
<1> QED BY <1>1, Invariant, PTL

\* The position that goes out is as recent as the fix that dates it, unless
\* that fix came without one.
THEOREM PositionIsOfFix == GPSSpec => []PositionOfFix
<1>1. IInv => PositionOfFix
  BY DEF IInv, Good, Placed, PositionOfFix
<1> QED BY <1>1, Invariant, PTL
=============================================================================
