------------------------------ MODULE UATRelay ------------------------------
(***************************************************************************)
(* What becomes of an uplink frame from a 978 MHz ground station. The      *)
(* handler of the raw stream counts it for the Towers and Weather pages    *)
(* (uat978.Aggregator.Add) and then offers it to a bounded queue; the tick *)
(* of the main loop reads the tallies and sends what is in the queue, no   *)
(* more than Drain frames at a time. A line that is no uplink is ignored;  *)
(* one that is has the length the decoder asks for, and is always counted. *)
(*                                                                         *)
(* Tallies of the last minute are rings of one-second buckets, indexed by  *)
(* the wall clock, which may be set back. Frame n is the n-th one heard; a *)
(* text line is a frame and the line's place in it. Left out are levels in *)
(* dB, and the limit on the rows that a page shows.                        *)
(***************************************************************************)
EXTENDS Integers, Sequences, FiniteSets, FiniteSetsExt

CONSTANTS
  Towers,     \* ground stations, by their position
  Products,   \* FIS-B product ids
  Kinds,      \* what a frame may hold
  NoLine,     \* an unused slot of the text ring
  Window,     \* buckets in a ring: 60
  MaxTowers,  \* AggregatorConfig.MaxTowers: 64
  MaxText,    \* AggregatorConfig.MaxText: 40
  Cap,        \* capacity of uat978UplinkQ: 512
  Drain,      \* frames a tick takes from it: 50
  Backward,   \* whether the clock may be set back
  MaxClock,   \* bound: seconds
  MaxFrames   \* bound: frames heard

Kind == [tower: Towers, products: [Products -> Nat], lines: Nat, signal: BOOLEAN]

ASSUME KindsAssumption == Kinds \subseteq Kind
ASSUME BoundsAssumption ==
  /\ {Window, MaxTowers, MaxText, Cap, Drain} \subseteq Nat \ {0} /\ Drain <= Cap
  /\ Backward \in BOOLEAN /\ {MaxClock, MaxFrames} \subseteq Nat

VARIABLES
  clock,     \* Unix seconds of the wall clock
  setBack,   \* it has been set back
  received,  \* the frames heard, each with the second of its Add
  pending,   \* a frame has been heard and not yet offered to the queue
  towers,    \* Aggregator.towers
  products,  \* Aggregator.products
  textRing, textNext, textSize,
  queue,     \* uat978UplinkQ
  left,      \* frames the running tick may still take; 0 between ticks
  relayed,   \* the frames sent, in order
  waited,    \* for each frame in the queue, the ticks begun since it came
  burst,     \* frames offered since the last tick was done with the queue
  steady     \* burst has never been more than Drain

vars == <<clock, setBack, received, pending, towers, products, textRing, textNext,
          textSize, queue, left, relayed, waited, burst, steady>>

tallies == <<towers, products, textRing, textNext, textSize>>
relay == <<queue, left, relayed, waited>>
load == <<burst, steady>>

---------------------------------------------------------------------------
(* The aggregator *)

Bucket == [sec: Nat, count: Nat, ssN: Nat]
Slots == 0 .. Window - 1

NewStats == [total |-> 0, buckets |-> [i \in Slots |-> [sec |-> 0, count |-> 0, ssN |-> 0]]]

\* Variant: the count of a bucket goes on from the minute before.
CountOn(s, sec, n, signal) ==
  LET i == sec % Window
      b == s.buckets[i]
  IN [total |-> s.total + n,
      buckets |-> [s.buckets EXCEPT ![i] =
        [sec |-> sec, count |-> b.count + n, ssN |-> b.ssN + IF signal THEN n ELSE 0]]]

\* The tallies s after n more frames in second sec, with or without a signal.
Count(s, sec, n, signal) ==
  LET i == sec % Window
      b == IF s.buckets[i].sec = sec THEN s.buckets[i]
           ELSE [sec |-> sec, count |-> 0, ssN |-> 0]
  IN [total |-> s.total + n,
      buckets |-> [s.buckets EXCEPT ![i] =
        [sec |-> sec, count |-> b.count + n, ssN |-> b.ssN + IF signal THEN n ELSE 0]]]

\* The towers that stay when a frame of tower t comes: any one may have to go.
Admitting(t) ==
  IF t \in DOMAIN towers \/ Cardinality(DOMAIN towers) < MaxTowers
  THEN {DOMAIN towers}
  ELSE {DOMAIN towers \ {u} : u \in DOMAIN towers}

AddTower(k) ==
  \E kept \in Admitting(k.tower) :
    towers' = [t \in kept \union {k.tower} |->
      LET s == IF t \in DOMAIN towers THEN towers[t] ELSE NewStats
      IN IF t = k.tower THEN Count(s, clock, 1, k.signal) ELSE s]

AddProducts(k) ==
  products' = [p \in DOMAIN products \union {q \in Products : k.products[q] > 0} |->
    LET s == IF p \in DOMAIN products THEN products[p] ELSE NewStats
    IN IF k.products[p] > 0 THEN Count(s, clock, k.products[p], FALSE) ELSE s]

\* The lines go into the ring one after another, from textNext on.
AddText(n, k) ==
  LET slot(j) == (textNext + j - 1) % MaxText
      last(i) == {j \in 1 .. k.lines : slot(j) = i /\ k.lines - j < MaxText}
  IN /\ textRing' = [i \in 0 .. MaxText - 1 |->
          IF last(i) = {} THEN textRing[i] ELSE <<n, CHOOSE j \in last(i) : TRUE>>]
     /\ textNext' = (textNext + k.lines) % MaxText
     /\ textSize' = IF textSize + k.lines < MaxText THEN textSize + k.lines ELSE MaxText

\* Snapshot adds up every bucket that is not too old, also one of a second to come.
Recent(s, now) == {i \in Slots : s.buckets[i].sec >= now - (Window - 1)}
LastMinute(s, now) == MapThenSumSet(LAMBDA i : s.buckets[i].count, Recent(s, now))
Signals(s, now) == MapThenSumSet(LAMBDA i : s.buckets[i].ssN, Recent(s, now))

\* Variant: from where the next line will go.
ShownFromNext == [i \in 1 .. textSize |-> textRing[(textNext + 1 - i) % MaxText]]

\* The lines Snapshot gives, the newest first.
ShownText == [i \in 1 .. textSize |-> textRing[(textNext - i) % MaxText]]

---------------------------------------------------------------------------
(* The handler of the raw stream *)

Init ==
  /\ clock = Window /\ setBack = FALSE
  /\ received = <<>> /\ pending = FALSE
  /\ towers = <<>> /\ products = <<>>
  /\ textRing = [i \in 0 .. MaxText - 1 |-> NoLine] /\ textNext = 0 /\ textSize = 0
  /\ queue = <<>> /\ left = 0 /\ relayed = <<>> /\ waited = <<>>
  /\ burst = 0 /\ steady = TRUE

\* Aggregator.Add, under its lock.
Add(k) ==
  /\ ~pending /\ Len(received) < MaxFrames
  /\ received' = Append(received, [sec |-> clock, kind |-> k]) /\ pending' = TRUE
  /\ AddTower(k) /\ AddProducts(k) /\ AddText(Len(received) + 1, k)
  /\ UNCHANGED <<clock, setBack, relay, load>>

\* The frame goes into the queue, or is dropped when that is full.
Offer ==
  /\ pending /\ pending' = FALSE
  /\ IF Len(queue) < Cap
     THEN queue' = Append(queue, Len(received)) /\ waited' = Append(waited, 0)
     ELSE UNCHANGED <<queue, waited>>
  /\ burst' = burst + 1 /\ steady' = (steady /\ burst' <= Drain)
  /\ UNCHANGED <<clock, setBack, received, tallies, left, relayed>>

---------------------------------------------------------------------------
(* The tick *)

\* Variant: the last round of the loop is left out.
BeginTickShort ==
  /\ left = 0 /\ left' = Drain - 1
  /\ waited' = [n \in DOMAIN waited |-> waited[n] + 1]
  /\ UNCHANGED <<clock, setBack, received, pending, tallies, queue, relayed, load>>

BeginTick ==
  /\ left = 0 /\ left' = Drain
  /\ waited' = [n \in DOMAIN waited |-> waited[n] + 1]
  /\ UNCHANGED <<clock, setBack, received, pending, tallies, queue, relayed, load>>

\* The tick has all it may take, or finds the queue empty.
Finish(taken) ==
  LET done == left - taken = 0
  IN /\ left' = left - taken
     /\ burst' = IF done THEN 0 ELSE burst

DrainOne ==
  /\ left > 0 /\ queue # <<>>
  /\ queue' = Tail(queue) /\ waited' = Tail(waited)
  /\ relayed' = Append(relayed, Head(queue))
  /\ Finish(1)
  /\ UNCHANGED <<clock, setBack, received, pending, tallies, steady>>

DrainEmpty ==
  /\ left > 0 /\ queue = <<>>
  /\ Finish(left)
  /\ UNCHANGED <<clock, setBack, received, pending, tallies, queue, relayed, waited, steady>>

---------------------------------------------------------------------------
(* The wall clock *)

Pass ==
  /\ clock < MaxClock /\ clock' = clock + 1
  /\ UNCHANGED <<setBack, received, pending, tallies, relay, load>>

SetBack ==
  /\ Backward /\ clock > Window /\ ~setBack
  /\ clock' \in Window .. clock - 1 /\ setBack' = TRUE
  /\ UNCHANGED <<received, pending, tallies, relay, load>>

Next ==
  \/ \E k \in Kinds : Add(k)
  \/ Offer
  \/ BeginTick \/ DrainOne \/ DrainEmpty
  \/ Pass \/ SetBack

Spec == Init /\ [][Next]_vars

---------------------------------------------------------------------------
(* Properties *)

Frames == 1 .. MaxFrames
Stats == [total: Nat, buckets: [Slots -> Bucket]]

FeedTypes ==
  /\ clock \in Nat /\ setBack \in BOOLEAN /\ pending \in BOOLEAN
  /\ received \in Seq([sec: Nat, kind: Kinds]) /\ Len(received) <= MaxFrames

TallyTypes ==
  /\ DOMAIN towers \in SUBSET Towers /\ \A t \in DOMAIN towers : towers[t] \in Stats
  /\ IsFiniteSet(DOMAIN towers) /\ Cardinality(DOMAIN towers) <= MaxTowers
  /\ DOMAIN products \in SUBSET Products /\ \A p \in DOMAIN products : products[p] \in Stats
  /\ textRing \in [0 .. MaxText - 1 -> {NoLine} \union (Frames \X Nat)]
  /\ textNext \in 0 .. MaxText - 1 /\ textSize \in 0 .. MaxText

RelayTypes ==
  /\ queue \in Seq(Frames) /\ Len(queue) <= Cap /\ left \in 0 .. Drain
  /\ relayed \in Seq(Frames) /\ waited \in Seq(Nat) /\ Len(waited) = Len(queue)
  /\ burst \in Nat /\ steady \in BOOLEAN

\* Every variable has its type, and the aggregator keeps no more than MaxTowers towers.
TypeOK == FeedTypes /\ TallyTypes /\ RelayTypes

\* The frames of the minute that ends with second now, and those whose second is
\* still to come: they were heard before the clock was set back, however long ago,
\* or after the snapshot took its time.
Minute(now) == {n \in DOMAIN received : received[n].sec \in now - (Window - 1) .. now}
Ahead(now) == {n \in DOMAIN received : received[n].sec > now}

OfTower(t) == {n \in DOMAIN received : received[n].kind.tower = t}
HeardTowers == {received[n].kind.tower : n \in DOMAIN received}

\* What the list of all frames says of a set of them.
TowerFrames(t, from) == Cardinality(from \intersect OfTower(t))
TowerSignals(t, from) == Cardinality({n \in from \intersect OfTower(t) : received[n].kind.signal})
ProductFrames(p, from) == MapThenSumSet(LAMBDA n : received[n].kind.products[p], from)

\* As long as the clock has not been set back, a page shows of the last minute what the list
\* of all frames says: for every product and, while no tower had to make room for another,
\* for every tower. After that, or with a snapshot whose time is a second old when it gets
\* the lock, the ring may have lost frames; what it counts is of the minute, or ahead of the
\* clock: those frames stay on the page, as if they were recent, until the clock has passed
\* them and a minute more (aggregate.go 141-148, 194, 207, 256).
TallyOfMinute ==
  /\ \A now \in {clock - 1, clock} :
       LET from == Minute(now) \union Ahead(now)
       IN /\ \A t \in DOMAIN towers : LastMinute(towers[t], now) <= TowerFrames(t, from)
          /\ \A p \in DOMAIN products : LastMinute(products[p], now) <= ProductFrames(p, from)
  /\ ~setBack =>
       \A p \in DOMAIN products :
         LastMinute(products[p], clock) = ProductFrames(p, Minute(clock))
  /\ ~setBack /\ Cardinality(HeardTowers) <= MaxTowers =>
       /\ DOMAIN towers = HeardTowers
       /\ \A t \in HeardTowers :
            /\ LastMinute(towers[t], clock) = TowerFrames(t, Minute(clock))
            /\ Signals(towers[t], clock) = TowerSignals(t, Minute(clock))

Lines == UNION {{<<n, j>> : j \in 1 .. received[n].kind.lines} : n \in DOMAIN received}
Newer(a, b) == a[1] > b[1] \/ (a[1] = b[1] /\ a[2] > b[2])

\* The Weather page shows the last MaxText lines that came, the newest first.
TextNewestFirst ==
  LET text == ShownText
      all == Lines
  IN /\ Len(text) = IF Cardinality(all) < MaxText THEN Cardinality(all) ELSE MaxText
     /\ \A i \in DOMAIN text :
          /\ text[i] \in all
          /\ Cardinality({l \in all : Newer(l, text[i])}) = i - 1

Offered == Len(received) - IF pending THEN 1 ELSE 0

\* Frames leave in the order they came and none twice. As long as no more than Drain come
\* from one tick to the next, every frame leaves, with the next tick.
LosslessAtRate ==
  LET all == relayed \o queue
  IN /\ \A i, j \in DOMAIN all : i < j => all[i] < all[j]
     /\ steady =>
          /\ all = [n \in 1 .. Offered |-> n]
          /\ \A i \in DOMAIN queue : waited[i] <= IF left = 0 THEN 0 ELSE 1

\* However many come, a frame that was not dropped waits for no more ticks than it takes to
\* empty a full queue.
RelayDelay ==
  \A i \in DOMAIN queue : waited[i] * Drain < Cap + left

\* Both: what the relay promises of frames that come slowly, and of frames that do not.
RelayInTime == LosslessAtRate /\ RelayDelay
=============================================================================
