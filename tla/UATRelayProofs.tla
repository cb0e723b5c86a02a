--------------------------- MODULE UATRelayProofs ---------------------------
(***************************************************************************)
(* Types, the relay, the text ring and the tallies of UATRelay, for any    *)
(* towers, products and frames, any capacity of the queue and any share of *)
(* it that a tick takes, and any size of the rings.                        *)
(***************************************************************************)
EXTENDS UATRelay, FiniteSetTheorems, WellFoundedInduction, TLAPS

\* A frame that is pending is the last one heard.
PendingInv == pending => Len(received) >= 1

Pipe == relayed \o queue

\* What is in the pipe is in order, and nothing in it has yet to be offered.
OrderInv ==
  /\ \A i, j \in DOMAIN Pipe : i < j => Pipe[i] < Pipe[j]
  /\ \A i \in DOMAIN Pipe : Pipe[i] <= Offered

\* While no burst has been larger than a tick can take, all that was offered is in the pipe,
\* and a tick that is running has as many rounds left as there are frames.
SteadyInv ==
  steady =>
    /\ Pipe = [n \in 1 .. Offered |-> n]
    /\ \A i \in DOMAIN queue : waited[i] <= IF left = 0 THEN 0 ELSE 1
    /\ burst <= Drain
    /\ Len(queue) <= IF left = 0 THEN burst ELSE burst - (Drain - left)

\* A frame that has seen ticks begin was no further back than Cap at the first of them, and
\* each of them takes Drain frames before it.
DelayInv ==
  \A i \in DOMAIN queue : waited[i] > 0 => i + waited[i] * Drain <= Cap + left

IInv == TypeOK /\ PendingInv /\ OrderInv /\ SteadyInv /\ DelayInv

---------------------------------------------------------------------------
(* Sequences *)

\* A frame more at the end of the queue is one more at the end of the pipe.
LEMMA PipeGrows ==
  ASSUME NEW S, NEW r \in Seq(S), NEW q \in Seq(S), NEW x \in S
  PROVE  r \o Append(q, x) = Append(r \o q, x)
BY SMT

\* The numbers up to n, and one more.
LEMMA CountGrows ==
  ASSUME NEW n \in Nat
  PROVE  Append([m \in 1 .. n |-> m], n + 1) = [m \in 1 .. n + 1 |-> m]
<1>1. [m \in 1 .. n |-> m] \in Seq(Nat) /\ [m \in 1 .. n + 1 |-> m] \in Seq(Nat)
  BY SMT
<1>2. Len([m \in 1 .. n |-> m]) = n /\ Len([m \in 1 .. n + 1 |-> m]) = n + 1
  BY SMT
<1> QED BY <1>1, <1>2, SMT

\* A frame that goes from the queue to the air stays where it is in the pipe.
LEMMA PipeStays ==
  ASSUME NEW S, NEW r \in Seq(S), NEW q \in Seq(S), q # <<>>
  PROVE  /\ Append(r, Head(q)) \o Tail(q) = r \o q
         /\ Append(r, Head(q)) \in Seq(S) /\ Tail(q) \in Seq(S) /\ Len(Tail(q)) = Len(q) - 1
         /\ \A i \in 1 .. Len(q) - 1 : Tail(q)[i] = q[i + 1]
BY SMT

---------------------------------------------------------------------------
(* The tallies *)

\* Counting keeps the shape of a tally.
LEMMA CountType ==
  ASSUME NEW s \in Stats, NEW sec \in Nat, NEW n \in Nat, NEW signal \in BOOLEAN
  PROVE  Count(s, sec, n, signal) \in Stats
<1> DEFINE i == sec % Window
           b == IF s.buckets[i].sec = sec THEN s.buckets[i]
                ELSE [sec |-> sec, count |-> 0, ssN |-> 0]
           c == [sec |-> sec, count |-> b.count + n, ssN |-> b.ssN + IF signal THEN n ELSE 0]
<1>1. i \in Slots
  BY BoundsAssumption, SMT DEF Slots
<1>2. b \in Bucket
  BY <1>1, SMT DEF Stats, Bucket
<1>3. c \in Bucket
  BY <1>2, SMT DEF Bucket
<1>4. /\ Count(s, sec, n, signal) = [total |-> s.total + n, buckets |-> [s.buckets EXCEPT ![i] = c]]
      /\ s.total + n \in Nat
  BY SMT DEF Count, Stats
<1>5. [s.buckets EXCEPT ![i] = c] \in [Slots -> Bucket]
  <2>1. s.buckets \in [Slots -> Bucket]
    BY DEF Stats
  <2> HIDE DEF i, c
  <2> QED BY <1>1, <1>3, <2>1
<1> HIDE DEF i, c
<1> QED BY <1>4, <1>5 DEF Stats

\* So has a new one.
LEMMA NewStatsType == NewStats \in Stats
BY SMT DEF NewStats, Stats, Bucket

\* What a frame may hold.
LEMMA KindParts ==
  ASSUME NEW k \in Kinds
  PROVE  /\ k.tower \in Towers /\ k.lines \in Nat /\ k.signal \in BOOLEAN
         /\ \A p \in Products : k.products[p] \in Nat
BY KindsAssumption, SMT DEF Kind

\* A tower more than there are is admitted only when there is room, or made room for.
LEMMA AdmittingBounds ==
  ASSUME TallyTypes, NEW t \in Towers, NEW kept \in Admitting(t)
  PROVE  /\ kept \subseteq DOMAIN towers
         /\ IsFiniteSet(kept \union {t}) /\ Cardinality(kept \union {t}) <= MaxTowers
<1> DEFINE D == DOMAIN towers
<1>1. IsFiniteSet(D) /\ Cardinality(D) <= MaxTowers /\ MaxTowers \in Nat
  BY BoundsAssumption DEF TallyTypes
<1>2. Cardinality(D) \in Nat
  BY <1>1, FS_CardinalityType
<1>3. CASE t \in D /\ kept = D
  <2>1. kept \union {t} = D
    BY <1>3
  <2> QED BY <1>1, <1>3, <2>1
<1>4. CASE t \notin D /\ kept = D /\ Cardinality(D) < MaxTowers
  <2>1. IsFiniteSet(D \union {t}) /\ Cardinality(D \union {t}) = Cardinality(D) + 1
    BY <1>1, <1>4, FS_AddElement
  <2>2. kept \union {t} = D \union {t} /\ kept \subseteq D
    BY <1>4
  <2> HIDE DEF D
  <2>3. Cardinality(D) + 1 <= MaxTowers
    BY <1>1, <1>2, <1>4, SMT
  <2> QED BY <2>1, <2>2, <2>3 DEF D
<1>5. CASE t \notin D /\ \E u \in D : kept = D \ {u}
  <2>1. PICK u \in D : kept = D \ {u}
    BY <1>5
  <2>2. IsFiniteSet(kept) /\ Cardinality(kept) = Cardinality(D) - 1
    BY <1>1, <2>1, FS_RemoveElement
  <2>3. IsFiniteSet(kept \union {t}) /\ Cardinality(kept \union {t}) = Cardinality(kept) + 1
    BY <1>5, <2>1, <2>2, FS_AddElement
  <2> HIDE DEF D
  <2>4. kept \subseteq D
    BY <2>1
  <2> QED BY <1>1, <1>2, <2>2, <2>3, <2>4, SMT DEF D
<1> QED BY <1>3, <1>4, <1>5 DEF Admitting

\* A frame keeps the types of the tallies.
LEMMA AddKeepsTallies ==
  ASSUME TallyTypes, clock \in Nat, NEW n \in Frames, NEW k \in Kinds,
         AddTower(k), AddProducts(k), AddText(n, k)
  PROVE  TallyTypes'
<1>1. /\ k.tower \in Towers /\ k.lines \in Nat /\ k.signal \in BOOLEAN
      /\ \A p \in Products : k.products[p] \in Nat
  BY KindParts
<1>2. /\ DOMAIN towers' \in SUBSET Towers
      /\ IsFiniteSet(DOMAIN towers') /\ Cardinality(DOMAIN towers') <= MaxTowers
      /\ \A t \in DOMAIN towers' : towers'[t] \in Stats
  <2>1. PICK kept \in Admitting(k.tower) :
          towers' = [t \in kept \union {k.tower} |->
            LET s == IF t \in DOMAIN towers THEN towers[t] ELSE NewStats
            IN IF t = k.tower THEN Count(s, clock, 1, k.signal) ELSE s]
    BY DEF AddTower
  <2>2. /\ kept \subseteq DOMAIN towers
        /\ IsFiniteSet(kept \union {k.tower}) /\ Cardinality(kept \union {k.tower}) <= MaxTowers
    BY <1>1, AdmittingBounds
  <2>3. DOMAIN towers' = kept \union {k.tower}
    BY <2>1
  <2>4. ASSUME NEW t \in kept \union {k.tower} PROVE towers'[t] \in Stats
    <3> DEFINE s == IF t \in DOMAIN towers THEN towers[t] ELSE NewStats
    <3>1. s \in Stats
      BY NewStatsType DEF TallyTypes
    <3>2. towers'[t] = IF t = k.tower THEN Count(s, clock, 1, k.signal) ELSE s
      BY <2>1
    <3> HIDE DEF s
    <3>3. Count(s, clock, 1, k.signal) \in Stats
      BY <1>1, <3>1, CountType
    <3> QED BY <3>1, <3>2, <3>3
  <2> QED BY <1>1, <2>2, <2>3, <2>4 DEF TallyTypes
<1>3. DOMAIN products' \in SUBSET Products /\ \A p \in DOMAIN products' : products'[p] \in Stats
  <2> DEFINE D == DOMAIN products \union {q \in Products : k.products[q] > 0}
  <2>1. products' = [p \in D |->
          LET s == IF p \in DOMAIN products THEN products[p] ELSE NewStats
          IN IF k.products[p] > 0 THEN Count(s, clock, k.products[p], FALSE) ELSE s]
    BY DEF AddProducts
  <2>2. DOMAIN products' = D /\ D \subseteq Products
    BY <2>1 DEF TallyTypes
  <2>3. ASSUME NEW p \in D PROVE products'[p] \in Stats
    <3> DEFINE s == IF p \in DOMAIN products THEN products[p] ELSE NewStats
    <3>1. s \in Stats
      BY NewStatsType DEF TallyTypes
    <3>2. products'[p] = IF k.products[p] > 0 THEN Count(s, clock, k.products[p], FALSE) ELSE s
      BY <2>1
    <3>3. k.products[p] \in Nat /\ FALSE \in BOOLEAN
      BY <1>1, <2>2
    <3> HIDE DEF s
    <3>4. Count(s, clock, k.products[p], FALSE) \in Stats
      BY <3>1, <3>3, CountType
    <3> QED BY <3>1, <3>2, <3>4
  <2> HIDE DEF D
  <2> QED BY <2>2, <2>3
<1>4. textRing' \in [0 .. MaxText - 1 -> {NoLine} \union (Frames \X Nat)]
  <2> DEFINE slot(j) == (textNext + j - 1) % MaxText
             last(i) == {j \in 1 .. k.lines : slot(j) = i /\ k.lines - j < MaxText}
  <2>1. textRing' = [i \in 0 .. MaxText - 1 |->
          IF last(i) = {} THEN textRing[i] ELSE <<n, CHOOSE j \in last(i) : TRUE>>]
    BY DEF AddText
  <2>2. ASSUME NEW i \in 0 .. MaxText - 1, last(i) # {}
        PROVE  <<n, CHOOSE j \in last(i) : TRUE>> \in Frames \X Nat
    <3>1. (CHOOSE j \in last(i) : TRUE) \in last(i)
      BY <2>2
    <3>2. last(i) \subseteq Nat
      BY <1>1, SMT
    <3> HIDE DEF last
    <3> QED BY <3>1, <3>2
  <2>3. ASSUME NEW i \in 0 .. MaxText - 1 PROVE textRing[i] \in {NoLine} \union (Frames \X Nat)
    BY DEF TallyTypes
  <2> HIDE DEF last
  <2> QED BY <2>1, <2>2, <2>3
<1>5. textNext' \in 0 .. MaxText - 1 /\ textSize' \in 0 .. MaxText
  <2>1. /\ textNext' = (textNext + k.lines) % MaxText
        /\ textSize' = IF textSize + k.lines < MaxText THEN textSize + k.lines ELSE MaxText
    BY DEF AddText
  <2>2. textNext \in Nat /\ textSize \in Nat /\ k.lines \in Nat /\ MaxText \in Nat \ {0}
    BY <1>1, BoundsAssumption, SMT DEF TallyTypes
  <2> QED BY <2>1, <2>2, SMT
<1> QED BY <1>2, <1>3, <1>4, <1>5 DEF TallyTypes

---------------------------------------------------------------------------
(* The relay *)

\* The bounds are numbers.
LEMMA Bounds ==
  /\ Window \in Nat \ {0} /\ MaxTowers \in Nat \ {0} /\ MaxText \in Nat \ {0}
  /\ Cap \in Nat \ {0} /\ Drain \in Nat \ {0} /\ Drain <= Cap
  /\ MaxFrames \in Nat
BY BoundsAssumption

\* The invariant holds before the first frame.
LEMMA InitIInv == Init => IInv
<1> SUFFICES ASSUME Init PROVE IInv
  OBVIOUS
<1> USE Bounds DEF Init
<1>1. FeedTypes
  BY SMT DEF FeedTypes
<1>2. TallyTypes
  <2>1. /\ DOMAIN towers = {} /\ DOMAIN products = {}
    BY SMT
  <2>2. IsFiniteSet({}) /\ Cardinality({}) = 0
    BY FS_EmptySet
  <2>3. 0 <= MaxTowers
    BY SMT
  <2>4. textRing \in [0 .. MaxText - 1 -> {NoLine} \union (Frames \X Nat)]
    BY Zenon
  <2>5. textNext \in 0 .. MaxText - 1 /\ textSize \in 0 .. MaxText
    BY SMT
  <2> QED BY <2>1, <2>2, <2>3, <2>4, <2>5, Zenon DEF TallyTypes
<1>3. RelayTypes
  BY SMT DEF RelayTypes
<1>4. PendingInv /\ OrderInv /\ SteadyInv /\ DelayInv
  BY SMT DEF PendingInv, OrderInv, SteadyInv, DelayInv, Pipe, Offered
<1> QED BY <1>1, <1>2, <1>3, <1>4 DEF IInv, TypeOK

\* A frame that is heard is not offered yet.
LEMMA AddKeepsIInv ==
  ASSUME IInv, NEW k \in Kinds, Add(k) PROVE IInv'
<1> USE Bounds DEF IInv, TypeOK
<1>1. /\ ~pending /\ Len(received) < MaxFrames
      /\ received' = Append(received, [sec |-> clock, kind |-> k]) /\ pending' = TRUE
      /\ UNCHANGED <<clock, setBack, queue, left, relayed, waited, burst, steady>>
  BY DEF Add, relay, load
<1>2. FeedTypes'
  <2>1. [sec |-> clock, kind |-> k] \in [sec: Nat, kind: Kinds]
    BY DEF FeedTypes
  <2> QED BY <1>1, <2>1, SMT DEF FeedTypes
<1>3. Len(received') = Len(received) + 1 /\ Len(received) \in Nat
  BY <1>1, SMT DEF FeedTypes
<1>4. TallyTypes'
  <2>1. Len(received) + 1 \in Frames
    BY <1>1, <1>3, SMT DEF Frames
  <2>2. AddTower(k) /\ AddProducts(k) /\ AddText(Len(received) + 1, k) /\ clock \in Nat
    BY DEF Add, FeedTypes
  <2> QED BY <2>1, <2>2, AddKeepsTallies
<1>5. Offered' = Offered
  BY <1>1, <1>3, SMT DEF Offered
<1>6. RelayTypes' /\ Pipe' = Pipe
  BY <1>1 DEF RelayTypes, Pipe
<1>7. PendingInv'
  BY <1>3, SMT DEF PendingInv
<1>8. OrderInv' /\ SteadyInv' /\ DelayInv'
  BY <1>1, <1>5, <1>6 DEF OrderInv, SteadyInv, DelayInv
<1> QED BY <1>2, <1>4, <1>6, <1>7, <1>8

\* A frame that is offered comes last, or finds the queue full, which it does not while no
\* burst has been larger than a tick can take.
LEMMA OfferKeepsIInv ==
  ASSUME IInv, Offer PROVE IInv'
<1> USE Bounds DEF IInv, TypeOK
<1> DEFINE n == Len(received)
<1>1. /\ pending /\ pending' = FALSE
      /\ burst' = burst + 1 /\ steady' = (steady /\ burst' <= Drain)
      /\ UNCHANGED <<clock, setBack, received, towers, products, textRing, textNext, textSize,
                     left, relayed>>
  BY DEF Offer, tallies
<1>2. n \in Frames /\ n \in Nat
  BY <1>1, SMT DEF PendingInv, FeedTypes, Frames
<1>3. Offered' = n /\ Offered = n - 1
  BY <1>1, SMT DEF Offered
<1>4. queue \in Seq(Frames) /\ relayed \in Seq(Frames) /\ Pipe \in Seq(Frames)
  BY SMT DEF RelayTypes, Pipe
<1>5. FeedTypes' /\ TallyTypes' /\ PendingInv'
  BY <1>1 DEF FeedTypes, TallyTypes, PendingInv
<1>6. burst' \in Nat /\ steady' \in BOOLEAN /\ (steady' => steady /\ burst + 1 <= Drain)
  <2>1. burst' \in Nat
    BY <1>1, SMT DEF RelayTypes
  <2>2. steady' \in BOOLEAN /\ (steady' => steady /\ burst' <= Drain)
    BY <1>1, Zenon
  <2> QED BY <1>1, <2>1, <2>2
<1>7. CASE Len(queue) < Cap
  <2>1. queue' = Append(queue, n) /\ waited' = Append(waited, 0)
    BY <1>7 DEF Offer
  <2>2. /\ queue' \in Seq(Frames) /\ Len(queue') = Len(queue) + 1
        /\ waited' \in Seq(Nat) /\ Len(waited') = Len(waited) + 1
        /\ \A i \in DOMAIN queue : waited'[i] = waited[i]
        /\ waited'[Len(queue')] = 0
    BY <1>2, <1>4, <2>1, SMT DEF RelayTypes
  <2>3. RelayTypes'
    BY <1>1, <1>6, <1>7, <2>2, SMT DEF RelayTypes
  <2>4. Pipe' = Append(Pipe, n)
    BY <1>1, <1>2, <1>4, <2>1, PipeGrows DEF Pipe
  <2>5. \A i \in DOMAIN queue' : i \in DOMAIN queue \/ i = Len(queue')
    BY <1>4, <2>2, SMT
  <2>6. OrderInv'
    <3>1. /\ \A i, j \in DOMAIN Pipe : i < j => Pipe[i] < Pipe[j]
          /\ \A i \in DOMAIN Pipe : Pipe[i] <= n - 1
      BY <1>3 DEF OrderInv
    <3> HIDE DEF Pipe, n
    <3> QED BY <1>2, <1>3, <1>4, <2>4, <3>1, SMT DEF OrderInv, Frames
  <2>7. SteadyInv'
    <3> SUFFICES ASSUME steady' PROVE SteadyInv'
      BY DEF SteadyInv
    <3>1. /\ Pipe = [m \in 1 .. n - 1 |-> m]
          /\ \A i \in DOMAIN queue : waited[i] <= IF left = 0 THEN 0 ELSE 1
          /\ Len(queue) <= IF left = 0 THEN burst ELSE burst - (Drain - left)
          /\ burst + 1 <= Drain
      BY <1>3, <1>6 DEF SteadyInv
    <3>2. Pipe' = [m \in 1 .. n |-> m]
      <4>1. n - 1 \in Nat /\ n - 1 + 1 = n
        BY <1>2, SMT DEF Frames
      <4>2. Append([m \in 1 .. n - 1 |-> m], n - 1 + 1) = [m \in 1 .. n - 1 + 1 |-> m]
        BY <4>1, CountGrows
      <4> QED BY <2>4, <3>1, <4>1, <4>2
    <3>3. \A i \in DOMAIN queue' : waited'[i] <= IF left = 0 THEN 0 ELSE 1
      <4>1. \A i \in DOMAIN queue : waited'[i] <= IF left = 0 THEN 0 ELSE 1
        BY <2>2, <3>1
      <4>2. waited'[Len(queue')] <= IF left = 0 THEN 0 ELSE 1
        BY <2>2, SMT
      <4> QED BY <2>5, <4>1, <4>2
    <3>4. burst' <= Drain /\ Len(queue') <= IF left = 0 THEN burst' ELSE burst' - (Drain - left)
      BY <1>1, <2>2, <3>1, SMT DEF RelayTypes
    <3> QED BY <1>1, <1>3, <3>2, <3>3, <3>4 DEF SteadyInv
  <2>8. DelayInv'
    <3>1. \A i \in DOMAIN queue : waited'[i] > 0 => i + waited'[i] * Drain <= Cap + left
      BY <2>2 DEF DelayInv
    <3>2. ~(waited'[Len(queue')] > 0)
      BY <2>2, SMT
    <3> QED BY <1>1, <2>5, <3>1, <3>2 DEF DelayInv
  <2> QED BY <1>5, <2>3, <2>6, <2>7, <2>8
<1>8. CASE ~(Len(queue) < Cap)
  <2>1. queue' = queue /\ waited' = waited
    BY <1>8 DEF Offer
  <2>2. Pipe' = Pipe
    BY <1>1, <2>1 DEF Pipe
  <2>3. RelayTypes'
    BY <1>1, <1>6, <2>1 DEF RelayTypes
  <2>4. OrderInv'
    <3>1. /\ \A i, j \in DOMAIN Pipe : i < j => Pipe[i] < Pipe[j]
          /\ \A i \in DOMAIN Pipe : Pipe[i] <= n - 1
      BY <1>3 DEF OrderInv
    <3>2. \A i \in DOMAIN Pipe : Pipe[i] \in Nat
      BY <1>4, SMT DEF Frames
    <3> HIDE DEF Pipe, n
    <3> QED BY <1>2, <1>3, <2>2, <3>1, <3>2, SMT DEF OrderInv
  <2>5. ~steady'
    <3>1. steady => Len(queue) <= burst
      BY SMT DEF SteadyInv, RelayTypes
    <3> QED BY <1>6, <1>8, <3>1, SMT DEF RelayTypes
  <2>6. SteadyInv' /\ DelayInv'
    BY <1>1, <2>1, <2>5 DEF SteadyInv, DelayInv
  <2> QED BY <1>5, <2>3, <2>4, <2>6
<1> QED BY <1>7, <1>8

\* A sequence of numbers, each one larger.
LEMMA OneMore ==
  ASSUME NEW w \in Seq(Nat)
  PROVE  LET v == [n \in DOMAIN w |-> w[n] + 1]
         IN v \in Seq(Nat) /\ Len(v) = Len(w) /\ \A n \in DOMAIN w : v[n] = w[n] + 1
<1> DEFINE v == [n \in DOMAIN w |-> w[n] + 1]
<1>1. Len(w) \in Nat /\ DOMAIN w = 1 .. Len(w) /\ \A n \in DOMAIN w : w[n] \in Nat
  BY SMT
<1>2. \A n \in DOMAIN w : w[n] + 1 \in Nat
  BY <1>1, SMT
<1>3. PICK k \in Nat : k = Len(w) /\ DOMAIN w = 1 .. k
  BY <1>1
<1>4. v \in [1 .. k -> Nat]
  BY <1>2, <1>3, Zenon
<1>5. v \in Seq(Nat) /\ DOMAIN v = 1 .. k
  BY <1>4
<1>6. Len(v) = k
  BY <1>3, <1>5, SMT
<1> QED BY <1>3, <1>5, <1>6

\* A tick that begins finds every frame within reach of one tick, if no burst was larger
\* than that; every other one may take Cap frames and Drain more.
LEMMA BeginKeepsIInv ==
  ASSUME IInv, BeginTick PROVE IInv'
<1> USE Bounds DEF IInv, TypeOK
<1>1. /\ left = 0 /\ left' = Drain
      /\ waited' = [n \in DOMAIN waited |-> waited[n] + 1]
      /\ UNCHANGED <<clock, setBack, received, pending, towers, products, textRing, textNext,
                     textSize, queue, relayed, burst, steady>>
  BY DEF BeginTick, tallies, load
<1>2. /\ waited \in Seq(Nat) /\ Len(waited) = Len(queue) /\ queue \in Seq(Frames)
      /\ Len(queue) <= Cap
  BY DEF RelayTypes
<1>3. /\ waited' \in Seq(Nat) /\ Len(waited') = Len(queue)
      /\ \A i \in DOMAIN queue : waited'[i] = waited[i] + 1
  <2>1. DOMAIN queue = DOMAIN waited
    BY <1>2
  <2> QED BY <1>1, <1>2, <2>1, OneMore
<1>4. FeedTypes' /\ TallyTypes' /\ PendingInv' /\ Pipe' = Pipe /\ Offered' = Offered
  BY <1>1 DEF FeedTypes, TallyTypes, PendingInv, Pipe, Offered
<1>5. RelayTypes'
  BY <1>1, <1>3, SMT DEF RelayTypes
<1>6. OrderInv'
  BY <1>4 DEF OrderInv
<1>7. SteadyInv'
  <2> SUFFICES ASSUME steady PROVE SteadyInv'
    BY <1>1 DEF SteadyInv
  <2>1. \A i \in DOMAIN queue : waited'[i] <= 1
    BY <1>1, <1>2, <1>3, SMT DEF SteadyInv
  <2>2. Len(queue) <= burst - (Drain - Drain)
    BY <1>1, SMT DEF SteadyInv, RelayTypes
  <2> QED BY <1>1, <1>4, <2>1, <2>2, SMT DEF SteadyInv
<1>8. DelayInv'
  <2> SUFFICES ASSUME NEW i \in DOMAIN queue
               PROVE  i + waited'[i] * Drain <= Cap + Drain
    BY <1>1 DEF DelayInv
  <2>1. i \in Nat /\ i <= Cap /\ waited[i] \in Nat
    BY <1>2, SMT
  <2>2. waited[i] > 0 => i + waited[i] * Drain <= Cap
    BY <1>1, SMT DEF DelayInv
  <2>3. (waited[i] + 1) * Drain = waited[i] * Drain + Drain /\ waited[i] * Drain \in Nat
    BY <2>1, SMT
  <2>4. waited'[i] * Drain = waited[i] * Drain + Drain
    BY <1>3, <2>3
  <2>5. i + waited[i] * Drain <= Cap
    <3>1. CASE waited[i] > 0
      BY <2>2, <3>1
    <3>2. CASE waited[i] = 0
      <4>1. waited[i] * Drain = 0
        BY <3>2, SMT
      <4> QED BY <2>1, <4>1, SMT
    <3> QED BY <2>1, <3>1, <3>2, SMT
  <2> QED BY <2>1, <2>3, <2>4, <2>5, SMT
<1> QED BY <1>4, <1>5, <1>6, <1>7, <1>8

\* A round of the tick: every frame in the queue is one place further.
LEMMA DrainKeepsIInv ==
  ASSUME IInv, DrainOne PROVE IInv'
<1> USE Bounds DEF IInv, TypeOK
<1>1. /\ left > 0 /\ queue # <<>> /\ left' = left - 1
      /\ queue' = Tail(queue) /\ waited' = Tail(waited)
      /\ relayed' = Append(relayed, Head(queue))
      /\ burst' = IF left - 1 = 0 THEN 0 ELSE burst
      /\ UNCHANGED <<clock, setBack, received, pending, towers, products, textRing, textNext,
                     textSize, steady>>
  BY DEF DrainOne, Finish, tallies
<1>2. /\ waited \in Seq(Nat) /\ Len(waited) = Len(queue) /\ queue \in Seq(Frames)
      /\ relayed \in Seq(Frames) /\ left \in 0 .. Drain /\ burst \in Nat /\ Len(queue) <= Cap
  BY DEF RelayTypes
<1>3. /\ queue' \in Seq(Frames) /\ Len(queue') = Len(queue) - 1 /\ relayed' \in Seq(Frames)
      /\ Pipe' = Pipe
  BY <1>1, <1>2, PipeStays DEF Pipe
<1>4. /\ waited' \in Seq(Nat) /\ Len(waited') = Len(queue')
      /\ \A i \in DOMAIN queue' : i + 1 \in DOMAIN queue /\ waited'[i] = waited[i + 1]
                                /\ i \in Nat /\ waited[i + 1] \in Nat
  <2>1. waited # <<>>
    BY <1>1, <1>2, SMT
  <2>2. /\ Tail(waited) \in Seq(Nat) /\ Len(Tail(waited)) = Len(waited) - 1
        /\ \A i \in 1 .. Len(waited) - 1 : Tail(waited)[i] = waited[i + 1]
    BY <1>2, <2>1, SMT
  <2>3. DOMAIN queue' = 1 .. Len(queue) - 1 /\ DOMAIN queue = 1 .. Len(queue) /\ Len(queue) \in Nat
    BY <1>2, <1>3, SMT
  <2>4. \A i \in 1 .. Len(queue) - 1 : i + 1 \in 1 .. Len(queue) /\ i \in Nat /\ waited[i + 1] \in Nat
    BY <1>2, <2>3, SMT
  <2> QED BY <1>1, <1>2, <1>3, <2>2, <2>3, <2>4
<1>5. FeedTypes' /\ TallyTypes' /\ PendingInv' /\ Offered' = Offered
  BY <1>1 DEF FeedTypes, TallyTypes, PendingInv, Offered
<1>6. RelayTypes'
  BY <1>1, <1>2, <1>3, <1>4, SMT DEF RelayTypes
<1>7. OrderInv'
  BY <1>3, <1>5 DEF OrderInv
<1>8. SteadyInv'
  <2> SUFFICES ASSUME steady PROVE SteadyInv'
    BY <1>1 DEF SteadyInv
  <2>1. Len(queue) <= burst - (Drain - left) /\ burst <= Drain
    BY <1>1, SMT DEF SteadyInv
  <2>2. CASE left = 1
    <3>1. DOMAIN queue' = {}
      BY <1>2, <1>3, <2>1, <2>2, SMT
    <3>2. left' = 0 /\ burst' = 0 /\ Len(queue') <= 0 /\ burst' <= Drain
      BY <1>1, <1>2, <1>3, <2>1, <2>2, SMT
    <3>3. /\ Pipe' = [n \in 1 .. Offered' |-> n]
          /\ \A i \in DOMAIN queue' : waited'[i] <= IF left' = 0 THEN 0 ELSE 1
          /\ Len(queue') <= IF left' = 0 THEN burst' ELSE burst' - (Drain - left')
      BY <1>3, <1>5, <3>1, <3>2 DEF SteadyInv
    <3> QED BY <3>2, <3>3 DEF SteadyInv
  <2>3. CASE left # 1
    <3>1. left' # 0 /\ burst' = burst /\ Len(queue') <= burst' - (Drain - left')
      BY <1>1, <1>2, <1>3, <2>1, <2>3, SMT
    <3>2. \A i \in DOMAIN queue : waited[i] <= 1
      BY <1>1, SMT DEF SteadyInv
    <3>3. \A i \in DOMAIN queue' : waited'[i] <= 1
      BY <1>4, <3>2
    <3>4. /\ Pipe' = [n \in 1 .. Offered' |-> n]
          /\ \A i \in DOMAIN queue' : waited'[i] <= IF left' = 0 THEN 0 ELSE 1
          /\ Len(queue') <= IF left' = 0 THEN burst' ELSE burst' - (Drain - left')
      BY <1>3, <1>5, <3>1, <3>3 DEF SteadyInv
    <3> QED BY <2>1, <3>1, <3>4 DEF SteadyInv
  <2> QED BY <2>2, <2>3
<1>9. DelayInv'
  <2> SUFFICES ASSUME NEW i \in DOMAIN queue', waited'[i] > 0
               PROVE  i + waited'[i] * Drain <= Cap + left'
    BY DEF DelayInv
  <2>1. i + 1 \in DOMAIN queue /\ waited'[i] = waited[i + 1] /\ i \in Nat /\ waited[i + 1] \in Nat
    BY <1>4
  <2>2. i + 1 + waited[i + 1] * Drain <= Cap + left
    BY <2>1 DEF DelayInv
  <2>3. PICK m \in Nat : m = waited[i + 1] * Drain
    BY <2>1, SMT
  <2>4. i + 1 + m <= Cap + left /\ m = waited'[i] * Drain
    BY <2>1, <2>2, <2>3
  <2>5. left' = left - 1 /\ left \in Int /\ Cap \in Int /\ i \in Int /\ m \in Int
    BY <1>1, <1>2, <2>1, SMT
  <2>6. i + m <= Cap + left'
    <3>1. i + 1 + m <= Cap + left
      BY <2>4
    <3> QED BY ONLY <2>5, <3>1, SMT
  <2> QED BY <2>4, <2>6
<1> QED BY <1>3, <1>5, <1>6, <1>7, <1>8, <1>9

\* A tick that finds the queue empty leaves nothing behind.
LEMMA DrainEmptyKeepsIInv ==
  ASSUME IInv, DrainEmpty PROVE IInv'
<1> USE Bounds DEF IInv, TypeOK
<1>1. /\ queue = <<>> /\ left' = 0 /\ burst' = 0
      /\ UNCHANGED <<clock, setBack, received, pending, towers, products, textRing, textNext,
                     textSize, queue, relayed, waited, steady>>
  BY SMT DEF DrainEmpty, Finish, tallies, RelayTypes
<1>2. DOMAIN queue = {} /\ Len(queue) = 0
  BY <1>1, SMT
<1>3. FeedTypes' /\ TallyTypes' /\ PendingInv' /\ Pipe' = Pipe /\ Offered' = Offered
  BY <1>1 DEF FeedTypes, TallyTypes, PendingInv, Pipe, Offered
<1>4. RelayTypes'
  BY <1>1, SMT DEF RelayTypes
<1>5. OrderInv' /\ DelayInv'
  BY <1>1, <1>2, <1>3 DEF OrderInv, DelayInv
<1>6. SteadyInv'
  BY <1>1, <1>2, <1>3, SMT DEF SteadyInv
<1> QED BY <1>3, <1>4, <1>5, <1>6

\* The clock has no part in the relay.
LEMMA ClockKeepsIInv ==
  ASSUME IInv, Pass \/ SetBack \/ UNCHANGED vars PROVE IInv'
<1> USE Bounds DEF IInv, TypeOK
<1>1. UNCHANGED <<received, pending, towers, products, textRing, textNext, textSize, queue, left,
                  relayed, waited, burst, steady>>
  BY DEF Pass, SetBack, vars, tallies, relay, load
<1>2. clock' \in Nat /\ setBack' \in BOOLEAN
  <2>1. CASE Pass
    BY <2>1, SMT DEF Pass, FeedTypes
  <2>2. CASE SetBack
    BY <2>2, SMT DEF SetBack, FeedTypes
  <2>3. CASE UNCHANGED vars
    BY <2>3, Zenon DEF vars, FeedTypes
  <2> QED BY <2>1, <2>2, <2>3
<1>3. FeedTypes' /\ TallyTypes' /\ RelayTypes' /\ PendingInv'
  BY <1>1, <1>2 DEF FeedTypes, TallyTypes, RelayTypes, PendingInv
<1>4. Pipe' = Pipe /\ Offered' = Offered
  BY <1>1 DEF Pipe, Offered
<1>5. OrderInv' /\ SteadyInv' /\ DelayInv'
  BY <1>1, <1>4 DEF OrderInv, SteadyInv, DelayInv
<1> QED BY <1>3, <1>5

\* Every step keeps the invariant.
LEMMA NextKeepsIInv == IInv /\ [Next]_vars => IInv'
BY AddKeepsIInv, OfferKeepsIInv, BeginKeepsIInv, DrainKeepsIInv, DrainEmptyKeepsIInv,
   ClockKeepsIInv DEF Next

\* What the invariant says of the relay.
LEMMA RelayFollows == IInv => RelayInTime
<1> SUFFICES ASSUME IInv PROVE LosslessAtRate /\ RelayDelay
  BY DEF RelayInTime
<1> USE Bounds DEF IInv, TypeOK
<1>1. LosslessAtRate
  BY DEF LosslessAtRate, OrderInv, SteadyInv, Pipe
<1>2. RelayDelay
  <2> SUFFICES ASSUME NEW i \in DOMAIN queue PROVE waited[i] * Drain < Cap + left
    BY DEF RelayDelay
  <2>1. i \in Nat /\ i > 0 /\ waited[i] \in Nat /\ left \in Nat
    BY SMT DEF RelayTypes
  <2>2. waited[i] * Drain \in Nat /\ (waited[i] = 0 => waited[i] * Drain = 0)
    BY <2>1, SMT
  <2>3. waited[i] > 0 => i + waited[i] * Drain <= Cap + left
    BY DEF DelayInv
  <2> QED BY <2>1, <2>2, <2>3, SMT
<1> QED BY <1>1, <1>2

---------------------------------------------------------------------------
(* The text ring *)

\* Remainders: their range, that they add up, and that equal ones are far apart.
LEMMA Remainder ==
  ASSUME NEW m \in Nat \ {0}, NEW a \in Int
  PROVE  /\ a % m \in 0 .. m - 1
         /\ a \div m \in Int /\ a = m * (a \div m) + (a % m)
         /\ a \in 0 .. m - 1 => a % m = a
<1>1. a % m \in 0 .. m - 1
  BY SMT
<1>2. a \div m \in Int
  BY SMT
<1>3. a = m * (a \div m) + (a % m)
  BY SMT
<1>4. a \in 0 .. m - 1 => a % m = a
  BY SMT
<1> QED BY <1>1, <1>2, <1>3, <1>4

\* A number is known by quotient and remainder.
LEMMA RemainderIs ==
  ASSUME NEW m \in Nat \ {0}, NEW a \in Int, NEW q \in Int, NEW r \in 0 .. m - 1, a = m * q + r
  PROVE  a % m = r
<1>1. a = q * m + r
  BY SMT
<1> QED BY <1>1, SMT

\* A remainder may be taken before another number is added.
LEMMA RemainderAdds ==
  ASSUME NEW m \in Nat \ {0}, NEW a \in Int, NEW b \in Int
  PROVE  ((a % m) + b) % m = (a + b) % m
<1> DEFINE q == a \div m
           r == a % m
           q2 == (r + b) \div m
           r2 == (r + b) % m
<1>1. q \in Int /\ r \in 0 .. m - 1 /\ a = m * q + r
  BY Remainder
<1> HIDE DEF q, r
<1>2. r + b \in Int
  BY <1>1, SMT
<1>3. q2 \in Int /\ r2 \in 0 .. m - 1 /\ r + b = m * q2 + r2
  BY <1>2, Remainder
<1> HIDE DEF q2, r2
<1>4. a + b \in Int /\ q + q2 \in Int
  BY <1>1, <1>3, SMT
<1>5. a + b = m * (q + q2) + r2
  <2>1. m * (q + q2) = m * q + m * q2
    BY <1>1, <1>3, SMT
  <2>2. m * q \in Int /\ m * q2 \in Int
    BY <1>1, <1>3, SMT
  <2> QED BY <1>1, <1>3, <2>1, <2>2, SMT
<1>6. (a + b) % m = r2
  BY <1>3, <1>4, <1>5, RemainderIs
<1> QED BY <1>6 DEF r, r2

\* Two numbers with one remainder are at least m apart.
LEMMA RemaindersApart ==
  ASSUME NEW m \in Nat \ {0}, NEW a \in Int, NEW b \in Int, a % m = b % m, a < b
  PROVE  b - a >= m
<1> DEFINE q == a \div m
           r == a % m
           q2 == b \div m
<1>1. q \in Int /\ r \in 0 .. m - 1 /\ a = m * q + r /\ q2 \in Int /\ b = m * q2 + r
  BY Remainder
<1> HIDE DEF q, r, q2
<1>2. q2 > q
  BY <1>1, SMT
<1> DEFINE d == q2 - q - 1
<1>3. d \in Nat /\ q2 = q + 1 + d
  BY <1>1, <1>2, SMT
<1> HIDE DEF d
<1>4. m * q2 = m * q + m + m * d
  BY <1>1, <1>3, SMT
<1>5. m * d \in Nat /\ m * q \in Int /\ m * q2 \in Int
  BY <1>1, <1>3, SMT
<1> QED BY <1>1, <1>4, <1>5, SMT

\* Where the slots are: seen from before and from after L lines more,
LEMMA SlotAfter ==
  ASSUME NEW m \in Nat \ {0}, NEW x \in 0 .. m - 1, NEW L \in Nat, NEW i \in 1 .. m
  PROVE  /\ (((x + L) % m) - i) % m = (x + L - i) % m
         /\ (x + L - i) % m \in 0 .. m - 1
<1>1. x + L \in Int /\ -i \in Int /\ x + L - i \in Int
  BY SMT
<1>2. (((x + L) % m) + (-i)) % m = ((x + L) + (-i)) % m
  BY <1>1, RemainderAdds
<1>3. (x + L) % m \in 0 .. m - 1
  BY <1>1, Remainder
<1>4. ((x + L) % m) + (-i) = ((x + L) % m) - i /\ (x + L) + (-i) = x + L - i
  BY <1>1, <1>3, SMT
<1>5. (x + L - i) % m \in 0 .. m - 1
  BY <1>1, Remainder
<1> QED BY <1>2, <1>4, <1>5

\* the i-th newest of them,
LEMMA SlotOfNew ==
  ASSUME NEW m \in Nat \ {0}, NEW x \in 0 .. m - 1, NEW L \in Nat, NEW i \in 1 .. m, i <= L
  PROVE  /\ L + 1 - i \in 1 .. L /\ (x + (L + 1 - i) - 1) % m = (x + L - i) % m
         /\ L - (L + 1 - i) < m
<1>1. L + 1 - i \in 1 .. L /\ L - (L + 1 - i) < m /\ x + (L + 1 - i) - 1 = x + L - i
  BY SMT
<1> QED BY <1>1

\* and no other one of the last m.
LEMMA SlotOfOne ==
  ASSUME NEW m \in Nat \ {0}, NEW x \in 0 .. m - 1, NEW L \in Nat, NEW i \in 1 .. m,
         NEW j \in 1 .. L,
         (x + j - 1) % m = (x + L - i) % m, L - j < m
  PROVE  i <= L /\ j = L + 1 - i
<1>1. x + j - 1 \in Int /\ x + L - i \in Int
  BY SMT
<1>2. ~(x + j - 1 < x + L - i)
  <2>1. x + j - 1 < x + L - i => (x + L - i) - (x + j - 1) >= m
    BY <1>1, RemaindersApart
  <2> QED BY <2>1, SMT
<1>3. ~(x + L - i < x + j - 1)
  <2>1. x + L - i < x + j - 1 => (x + j - 1) - (x + L - i) >= m
    BY <1>1, RemaindersApart
  <2> QED BY <2>1, SMT
<1> QED BY <1>2, <1>3, SMT

\* What the ring shows after L lines more: these, the newest first, and behind them what it
\* showed before.
LEMMA TextAfter ==
  ASSUME TallyTypes, NEW n, NEW k, k.lines \in Nat, AddText(n, k)
  PROVE  /\ textSize' = (IF textSize + k.lines < MaxText THEN textSize + k.lines ELSE MaxText)
         /\ \A i \in 1 .. textSize' :
              /\ i <= k.lines => ShownText'[i] = <<n, k.lines + 1 - i>>
              /\ ~(i <= k.lines) =>
                   i - k.lines \in 1 .. textSize /\ ShownText'[i] = ShownText[i - k.lines]
<1> DEFINE L == k.lines
           slot(j) == (textNext + j - 1) % MaxText
           last(s) == {j \in 1 .. L : slot(j) = s /\ L - j < MaxText}
<1>1. /\ textRing' = [s \in 0 .. MaxText - 1 |->
             IF last(s) = {} THEN textRing[s] ELSE <<n, CHOOSE j \in last(s) : TRUE>>]
      /\ textNext' = (textNext + L) % MaxText
      /\ textSize' = IF textSize + L < MaxText THEN textSize + L ELSE MaxText
  BY DEF AddText
<1>2. MaxText \in Nat \ {0} /\ textNext \in 0 .. MaxText - 1 /\ textSize \in 0 .. MaxText /\ L \in Nat
  BY Bounds DEF TallyTypes
<1> HIDE DEF L
<1>3. ASSUME NEW i \in 1 .. textSize'
      PROVE  /\ i <= L => ShownText'[i] = <<n, L + 1 - i>>
             /\ ~(i <= L) => i - L \in 1 .. textSize /\ ShownText'[i] = ShownText[i - L]
  <2>1. i \in 1 .. MaxText
    BY <1>1, <1>2, SMT
  <2> DEFINE s == (textNext + L - i) % MaxText
  <2>2. /\ (((textNext + L) % MaxText) - i) % MaxText = s
        /\ s \in 0 .. MaxText - 1
        /\ i <= L => L + 1 - i \in 1 .. L /\ slot(L + 1 - i) = s /\ L - (L + 1 - i) < MaxText
        /\ \A j \in 1 .. L : slot(j) = s /\ L - j < MaxText => i <= L /\ j = L + 1 - i
    <3> HIDE DEF s, last
    <3>1. /\ (((textNext + L) % MaxText) - i) % MaxText = (textNext + L - i) % MaxText
          /\ (textNext + L - i) % MaxText \in 0 .. MaxText - 1
      BY <1>2, <2>1, SlotAfter, Zenon
    <3>2. i <= L => /\ L + 1 - i \in 1 .. L
                    /\ (textNext + (L + 1 - i) - 1) % MaxText = (textNext + L - i) % MaxText
                    /\ L - (L + 1 - i) < MaxText
      BY <1>2, <2>1, SlotOfNew, Zenon
    <3>3. \A j \in 1 .. L :
            (textNext + j - 1) % MaxText = (textNext + L - i) % MaxText /\ L - j < MaxText =>
              i <= L /\ j = L + 1 - i
      BY <1>2, <2>1, SlotOfOne, Zenon
    <3> QED BY <3>1, <3>2, <3>3 DEF s
  <2>3. ShownText'[i] = textRing'[s]
    BY <1>1, <2>2 DEF ShownText
  <2> HIDE DEF s
  <2>4. ShownText'[i] = IF last(s) = {} THEN textRing[s] ELSE <<n, CHOOSE j \in last(s) : TRUE>>
    BY <1>1, <2>2, <2>3
  <2>5. CASE i <= L
    <3>1. last(s) = {L + 1 - i}
      BY <2>2, <2>5, Zenon
    <3>2. (CHOOSE j \in last(s) : TRUE) = L + 1 - i
      BY <3>1
    <3> QED BY <2>4, <2>5, <3>1, <3>2
  <2>6. CASE ~(i <= L)
    <3>1. last(s) = {}
      BY <2>2, <2>6
    <3>2. i - L \in 1 .. textSize /\ textNext + L - i = textNext - (i - L)
      BY <1>1, <1>2, <2>6, SMT
    <3>3. ShownText[i - L] = textRing[s]
      BY <3>2 DEF ShownText, s
    <3> QED BY <2>4, <2>6, <3>1, <3>2, <3>3
  <2> QED BY <2>5, <2>6
<1> QED BY <1>1, <1>3 DEF L

\* The ring shows lines that came, each newer than the next, and leaves one out only when it is
\* full of newer ones.
TextInv ==
  /\ IsFiniteSet(Lines)
  /\ \A i \in 1 .. textSize : ShownText[i] \in Lines
  /\ \A i, j \in 1 .. textSize : i < j => Newer(ShownText[i], ShownText[j])
  /\ \A l \in Lines :
       \/ \E i \in 1 .. textSize : ShownText[i] = l
       \/ textSize = MaxText /\ \A i \in 1 .. textSize : Newer(ShownText[i], l)

\* The lines of frame n.
LinesOf(n, count) == {<<n, j>> : j \in 1 .. count}

\* They are finitely many.
LEMMA LinesOfFrame ==
  ASSUME NEW n, NEW count \in Nat
  PROVE  IsFiniteSet(LinesOf(n, count))
<1> DEFINE f == [j \in 1 .. count |-> <<n, j>>]
<1>1. IsFiniteSet(1 .. count)
  BY FS_Interval
<1>2. f \in Surjection(1 .. count, LinesOf(n, count))
  BY Zenon DEF Surjection, LinesOf
<1> QED BY <1>1, <1>2, FS_Surjection

\* A line that came: the number of its frame, and its place in it.
LEMMA LineIs ==
  ASSUME FeedTypes, NEW l \in Lines
  PROVE  /\ l[1] \in 1 .. Len(received) /\ l[2] \in Nat
         /\ l[1] \in Nat /\ l[1] <= Len(received)
<1>1. PICK n \in DOMAIN received : \E j \in 1 .. received[n].kind.lines : l = <<n, j>>
  BY DEF Lines
<1>2. PICK j \in 1 .. received[n].kind.lines : l = <<n, j>>
  BY <1>1
<1>3. n \in 1 .. Len(received) /\ Len(received) \in Nat /\ received[n].kind \in Kinds
  <2> DEFINE S == [sec : Nat, kind : Kinds]
  <2>1. received \in Seq(S) /\ n \in DOMAIN received
    BY <1>1 DEF FeedTypes
  <2> HIDE DEF S
  <2>2. n \in 1 .. Len(received) /\ Len(received) \in Nat /\ received[n] \in S
    BY <2>1, SMT
  <2> QED BY <2>2 DEF S
<1>4. received[n].kind.lines \in Nat
  BY <1>3, KindParts
<1>5. l[1] = n /\ l[2] = j
  BY <1>2
<1>6. n \in Nat /\ n <= Len(received)
  BY <1>3, SMT
<1>7. j \in Nat
  BY <1>4, SMT
<1> QED BY <1>3, <1>5, <1>6, <1>7

\* A frame brings its lines, which are newer than those before.
LEMMA LinesGrow ==
  ASSUME FeedTypes, NEW k \in Kinds, received' = Append(received, [sec |-> clock, kind |-> k])
  PROVE  Lines' = Lines \union LinesOf(Len(received) + 1, k.lines)
<1> DEFINE n == Len(received) + 1
           r == [sec |-> clock, kind |-> k]
<1>1. Len(received) \in Nat /\ DOMAIN received = 1 .. Len(received)
  BY SMT DEF FeedTypes
<1>2. /\ DOMAIN received' = DOMAIN received \union {n}
      /\ \A m \in DOMAIN received : received'[m] = received[m]
      /\ received'[n] = r
  <2>1. received \in Seq([sec : Nat, kind : Kinds]) /\ r \in [sec : Nat, kind : Kinds]
    BY DEF FeedTypes
  <2> DEFINE S == [sec : Nat, kind : Kinds]
  <2> HIDE DEF S, r
  <2>2. /\ DOMAIN received' = 1 .. n /\ \A m \in 1 .. Len(received) : received'[m] = received[m]
        /\ received'[n] = r
    BY <1>1, <2>1, SMT DEF r, S
  <2>3. 1 .. n = (1 .. Len(received)) \union {n}
    BY <1>1, SMT
  <2> QED BY <1>1, <2>2, <2>3
<1>3. r.kind = k
  OBVIOUS
<1> HIDE DEF n, r
<1>4. \A l : l \in Lines' <=> \E m \in DOMAIN received' : l \in LinesOf(m, received'[m].kind.lines)
  BY DEF Lines, LinesOf
<1>5. \A l : l \in Lines <=> \E m \in DOMAIN received : l \in LinesOf(m, received[m].kind.lines)
  BY DEF Lines, LinesOf
<1>6. LinesOf(n, received'[n].kind.lines) = LinesOf(n, k.lines)
  BY <1>2, <1>3
<1>7. \A l : l \in Lines' <=> l \in Lines \/ l \in LinesOf(n, k.lines)
  BY <1>2, <1>4, <1>5, <1>6, Zenon
<1> QED BY <1>7, Zenon DEF n

\* What the ring shows of a line of a frame that came before is older than any new line.
LEMMA NewIsNewer ==
  ASSUME FeedTypes, NEW l \in Lines, NEW j
  PROVE  Newer(<<Len(received) + 1, j>>, l)
<1>1. l[1] \in Nat /\ l[1] <= Len(received) /\ Len(received) \in Nat
  BY LineIs, SMT DEF FeedTypes
<1>2. Len(received) + 1 > l[1]
  BY <1>1, SMT
<1> QED BY <1>2 DEF Newer

\* A frame puts its lines before those that are shown, and pushes out the oldest.
LEMMA AddKeepsText ==
  ASSUME IInv, TextInv, NEW k \in Kinds, Add(k)
  PROVE  TextInv'
<1> USE DEF IInv, TypeOK
<1> DEFINE n == Len(received) + 1
           L == k.lines
           size == textSize'
<1>1. received' = Append(received, [sec |-> clock, kind |-> k]) /\ AddText(n, k)
  BY DEF Add
<1>2. L \in Nat /\ textSize \in 0 .. MaxText /\ MaxText \in Nat /\ Len(received) \in Nat
  <2>1. Len(received) \in Nat
    BY SMT DEF FeedTypes
  <2> QED BY <2>1, KindParts, Bounds DEF TallyTypes
<1>3. Lines' = Lines \union LinesOf(n, L)
  BY <1>1, LinesGrow
<1>4. /\ size = (IF textSize + L < MaxText THEN textSize + L ELSE MaxText)
      /\ \A i \in 1 .. size :
           /\ i <= L => ShownText'[i] = <<n, L + 1 - i>>
           /\ ~(i <= L) => i - L \in 1 .. textSize /\ ShownText'[i] = ShownText[i - L]
  BY <1>1, <1>2, TextAfter
<1> DEFINE new == ShownText'
           old == ShownText
<1>5. \A l \in Lines : \A j : Newer(<<n, j>>, l)
  BY NewIsNewer
<1>6. /\ IsFiniteSet(Lines)
      /\ \A i \in 1 .. textSize : old[i] \in Lines
      /\ \A i, j \in 1 .. textSize : i < j => Newer(old[i], old[j])
      /\ \A l \in Lines :
           \/ \E i \in 1 .. textSize : old[i] = l
           \/ textSize = MaxText /\ \A i \in 1 .. textSize : Newer(old[i], l)
  BY DEF TextInv
<1>7. IsFiniteSet(Lines')
  BY <1>2, <1>3, <1>6, LinesOfFrame, FS_Union
<1> HIDE DEF n, L, size, new, old
<1>8. \A i \in 1 .. size : i <= L => new[i] = <<n, L + 1 - i>> /\ L + 1 - i \in 1 .. L
  <2>1. \A i \in 1 .. size : i <= L => L + 1 - i \in 1 .. L
    BY <1>2, <1>4, SMT
  <2> QED BY <1>4, <2>1 DEF new
<1>9. \A i \in 1 .. size : ~(i <= L) => i - L \in 1 .. textSize /\ new[i] = old[i - L]
  BY <1>4 DEF new, old
<1>10. ASSUME NEW i \in 1 .. size PROVE new[i] \in Lines'
  <2>1. CASE i <= L
    BY <1>3, <1>8, <2>1, Zenon DEF LinesOf
  <2>2. CASE ~(i <= L)
    BY <1>3, <1>6, <1>9, <2>2, Zenon
  <2> QED BY <2>1, <2>2
<1>11. ASSUME NEW i \in 1 .. size, NEW j \in 1 .. size, i < j PROVE Newer(new[i], new[j])
  <2>1. CASE j <= L
    <3>1. i <= L /\ L + 1 - i > L + 1 - j
      BY <1>2, <1>4, <1>11, <2>1, SMT
    <3>2. new[i] = <<n, L + 1 - i>> /\ new[j] = <<n, L + 1 - j>>
      BY <1>8, <2>1, <3>1
    <3> QED BY <3>1, <3>2 DEF Newer
  <2>2. CASE i <= L /\ ~(j <= L)
    BY <1>5, <1>6, <1>8, <1>9, <2>2, Zenon
  <2>3. CASE ~(i <= L)
    <3>1. ~(j <= L) /\ i - L < j - L
      BY <1>2, <1>4, <1>11, <2>3, SMT
    <3> QED BY <1>6, <1>9, <2>3, <3>1, Zenon
  <2> QED BY <2>1, <2>2, <2>3
<1>12. ASSUME NEW l \in Lines'
       PROVE  \/ \E i \in 1 .. size : new[i] = l
              \/ size = MaxText /\ \A i \in 1 .. size : Newer(new[i], l)
  <2>1. CASE l \in LinesOf(n, L)
    <3>1. PICK j \in 1 .. L : l = <<n, j>>
      BY <2>1 DEF LinesOf
    <3> DEFINE i == L + 1 - j
    <3>2. i \in 1 .. L /\ L + 1 - i = j
      BY <1>2, SMT
    <3>3. CASE i <= size
      <4>1. i \in 1 .. size /\ i <= L
        BY <1>2, <1>4, <3>2, <3>3, SMT
      <4>2. new[i] = <<n, L + 1 - i>>
        BY <1>8, <4>1
      <4> QED BY <3>1, <3>2, <4>1, <4>2
    <3>4. CASE ~(i <= size)
      <4>1. size = MaxText
        BY <1>2, <1>4, <3>2, <3>4, SMT
      <4>2. ASSUME NEW x \in 1 .. size PROVE Newer(new[x], l)
        <5>1. x <= L /\ L + 1 - x > j
          BY <1>2, <1>4, <3>2, <3>4, SMT
        <5>2. new[x] = <<n, L + 1 - x>>
          BY <1>8, <5>1
        <5> QED BY <3>1, <5>1, <5>2 DEF Newer
      <4> QED BY <4>1, <4>2
    <3> QED BY <3>3, <3>4
  <2>2. CASE l \in Lines
    <3>1. CASE \E i \in 1 .. textSize : old[i] = l
      <4>1. PICK i \in 1 .. textSize : old[i] = l
        BY <3>1
      <4>2. CASE i + L <= size
        <5>1. i + L \in 1 .. size /\ ~(i + L <= L) /\ (i + L) - L = i
          BY <1>2, <4>2, SMT
        <5>2. new[i + L] = old[i]
          BY <1>9, <5>1
        <5> QED BY <4>1, <5>1, <5>2
      <4>3. CASE ~(i + L <= size)
        <5>1. size = MaxText
          BY <1>2, <1>4, <4>3, SMT
        <5>2. ASSUME NEW x \in 1 .. size PROVE Newer(new[x], l)
          <6>1. CASE x <= L
            BY <1>5, <1>8, <2>2, <6>1, Zenon
          <6>2. CASE ~(x <= L)
            <7>1. x - L < i
              BY <1>2, <1>4, <4>3, <6>2, SMT
            <7> QED BY <1>6, <1>9, <4>1, <6>2, <7>1, Zenon
          <6> QED BY <6>1, <6>2
        <5> QED BY <5>1, <5>2
      <4> QED BY <4>2, <4>3
    <3>2. CASE textSize = MaxText /\ \A i \in 1 .. textSize : Newer(old[i], l)
      <4>1. size = MaxText
        BY <1>2, <1>4, <3>2, SMT
      <4>2. ASSUME NEW x \in 1 .. size PROVE Newer(new[x], l)
        <5>1. CASE x <= L
          BY <1>5, <1>8, <2>2, <5>1, Zenon
        <5>2. CASE ~(x <= L)
          BY <1>9, <3>2, <5>2, Zenon
        <5> QED BY <5>1, <5>2
      <4> QED BY <4>1, <4>2
    <3> QED BY <1>6, <2>2, <3>1, <3>2
  <2> QED BY <1>3, <2>1, <2>2
<1> QED BY <1>7, <1>10, <1>11, <1>12, Zenon DEF TextInv, new, size

\* What follows for the page: its lines are the last ones, the newest first.
LEMMA TextFollows ==
  ASSUME TypeOK, TextInv
  PROVE  TextNewestFirst
<1> USE DEF TypeOK
<1> DEFINE text == ShownText
           t(i) == text[i]
<1>1. textSize \in 0 .. MaxText /\ MaxText \in Nat /\ textSize \in Nat
  <2>1. textSize \in 0 .. MaxText /\ MaxText \in Nat
    BY Bounds DEF TallyTypes
  <2> QED BY <2>1, SMT
<1>2. DOMAIN text = 1 .. textSize /\ Len(text) = textSize
  <2>1. DOMAIN text = 1 .. textSize
    BY DEF ShownText
  <2> HIDE DEF text
  <2> QED BY <1>1, <2>1, SMT
<1> HIDE DEF text
<1>3. \A i, j \in 1 .. textSize :
        i < j => Newer(text[i], text[j]) /\ ~Newer(text[j], text[i]) /\ text[i] # text[j]
  <2> SUFFICES ASSUME NEW i \in 1 .. textSize, NEW j \in 1 .. textSize, i < j
               PROVE  Newer(text[i], text[j]) /\ ~Newer(text[j], text[i]) /\ text[i] # text[j]
    OBVIOUS
  <2>1. Newer(text[i], text[j]) /\ text[i] \in Lines /\ text[j] \in Lines
    BY DEF TextInv, text
  <2>2. text[i][1] \in Nat /\ text[i][2] \in Nat /\ text[j][1] \in Nat /\ text[j][2] \in Nat
    BY <2>1, LineIs
  <2>3. PICK a \in Nat, b \in Nat, c \in Nat, d \in Nat :
          a = text[i][1] /\ b = text[i][2] /\ c = text[j][1] /\ d = text[j][2]
    BY <2>2
  <2>4. a > c \/ (a = c /\ b > d)
    BY <2>1, <2>3 DEF Newer
  <2>5. ~(c > a \/ (c = a /\ d > b)) /\ (a # c \/ b # d)
    BY <2>4, SMT
  <2> QED BY <2>1, <2>3, <2>5 DEF Newer
<1>4. \A m \in 0 .. textSize : /\ IsFiniteSet({text[j] : j \in 1 .. m})
                               /\ Cardinality({text[j] : j \in 1 .. m}) = m
  <2> SUFFICES ASSUME NEW m \in 0 .. textSize
               PROVE  /\ IsFiniteSet({text[j] : j \in 1 .. m})
                      /\ Cardinality({text[j] : j \in 1 .. m}) = m
    OBVIOUS
  <2> DEFINE S == {text[j] : j \in 1 .. m}
             f == [j \in 1 .. m |-> text[j]]
  <2>1. m \in Nat /\ IsFiniteSet(1 .. m) /\ Cardinality(1 .. m) = m
    <3>1. m \in Nat
      BY <1>1, SMT
    <3>2. IsFiniteSet(1 .. m) /\ Cardinality(1 .. m) = IF 1 > m THEN 0 ELSE m - 1 + 1
      BY <3>1, FS_Interval
    <3>3. (IF 1 > m THEN 0 ELSE m - 1 + 1) = m
      BY <3>1, SMT
    <3> QED BY <3>1, <3>2, <3>3
  <2>2. \A i, j \in 1 .. m : text[i] = text[j] => i = j
    <3>1. \A i, j \in 1 .. m : /\ i \in 1 .. textSize /\ j \in 1 .. textSize
                               /\ i < j \/ j < i \/ i = j
      BY <1>1, SMT
    <3> QED BY <1>3, <3>1
  <2>3. f \in Surjection(1 .. m, S)
    BY Zenon DEF Surjection
  <2>4. f \in Injection(1 .. m, S)
    BY <2>2, Zenon DEF Injection, IsInjective
  <2> HIDE DEF f, S
  <2>5. IsFiniteSet(S) /\ Cardinality(S) = Cardinality(1 .. m)
    BY <2>1, <2>3, <2>4, FS_Surjection
  <2> QED BY <2>1, <2>5 DEF S
<1>5. Len(text) = IF Cardinality(Lines) < MaxText THEN Cardinality(Lines) ELSE MaxText
  <2> DEFINE S == {text[j] : j \in 1 .. textSize}
  <2>1. IsFiniteSet(S) /\ Cardinality(S) = textSize
    BY <1>1, <1>4
  <2>2. S \subseteq Lines /\ IsFiniteSet(Lines)
    BY DEF TextInv, text
  <2>3. Cardinality(Lines) \in Nat /\ Cardinality(S) <= Cardinality(Lines)
    BY <2>2, FS_Subset, FS_CardinalityType
  <2>4. CASE textSize = MaxText
    <3>1. ~(Cardinality(Lines) < MaxText)
      BY <1>1, <2>1, <2>3, <2>4, SMT
    <3> QED BY <1>2, <2>4, <3>1
  <2>5. CASE textSize # MaxText
    <3>1. S = Lines
      BY <2>2, <2>5 DEF TextInv, text
    <3>2. Cardinality(Lines) = textSize /\ textSize < MaxText
      BY <1>1, <2>1, <2>5, <3>1, SMT
    <3> QED BY <1>2, <3>2
  <2> QED BY <2>4, <2>5
<1>6. ASSUME NEW i \in DOMAIN text
      PROVE  text[i] \in Lines /\ Cardinality({l \in Lines : Newer(l, text[i])}) = i - 1
  <2>1. i \in 1 .. textSize /\ text[i] \in Lines
    BY <1>2 DEF TextInv, text
  <2>2. i - 1 \in 0 .. textSize /\ \A j : j \in 1 .. i - 1 <=> j \in 1 .. textSize /\ j < i
    BY <1>1, <2>1, SMT
  <2>3. ~Newer(text[i], text[i])
    <3>1. PICK a \in Nat, b \in Nat : a = text[i][1] /\ b = text[i][2]
      BY <2>1, LineIs
    <3>2. ~(a > a \/ (a = a /\ b > b))
      BY SMT
    <3> QED BY <3>1, <3>2 DEF Newer
  <2>4. \A j \in 1 .. textSize : j < i \/ j = i \/ i < j
    BY <1>1, <2>1, SMT
  <2>5. {l \in Lines : Newer(l, text[i])} = {text[j] : j \in 1 .. i - 1}
    <3>1. ASSUME NEW l \in Lines, Newer(l, text[i]) PROVE \E j \in 1 .. i - 1 : l = text[j]
      <4>1. ~Newer(text[i], l)
        <5>1. PICK a \in Nat, b \in Nat, c \in Nat, d \in Nat :
                a = l[1] /\ b = l[2] /\ c = text[i][1] /\ d = text[i][2]
          BY <2>1, LineIs
        <5>2. a > c \/ (a = c /\ b > d)
          BY <3>1, <5>1 DEF Newer
        <5>3. ~(c > a \/ (c = a /\ d > b))
          BY <5>2, SMT
        <5> QED BY <5>1, <5>3 DEF Newer
      <4>2. PICK j \in 1 .. textSize : text[j] = l
        BY <2>1, <4>1 DEF TextInv, text
      <4>3. j < i
        BY <1>3, <2>1, <2>3, <2>4, <3>1, <4>2
      <4> QED BY <2>2, <4>2, <4>3
    <3>2. ASSUME NEW j \in 1 .. i - 1 PROVE text[j] \in Lines /\ Newer(text[j], text[i])
      BY <1>3, <2>1, <2>2 DEF TextInv, text
    <3> QED BY <3>1, <3>2
  <2> QED BY <1>4, <2>1, <2>2, <2>5
<1> QED BY <1>5, <1>6 DEF TextNewestFirst, text

\* A set of natural numbers has a least one.
LEMMA Least ==
  ASSUME NEW T, T \subseteq Nat, T # {}
  PROVE  \E x \in T : \A y \in T : x <= y
<1> DEFINE R == {ss \in Nat \X Nat : ss[1] < ss[2]}
<1>1. IsWellFoundedOn(R, Nat)
  BY NatLessThanWellFounded DEF OpToRel
<1>2. \E x \in T : \A y \in T : ~(<<y, x>> \in R)
  <2> HIDE DEF R
  <2>1. T \subseteq Nat /\ T # {}
    OBVIOUS
  <2> QED BY <1>1, <2>1, WFMin, Zenon
<1>3. PICK x \in T : \A y \in T : ~(<<y, x>> \in R)
  BY <1>2
<1>4. ASSUME NEW y \in T, y < x PROVE FALSE
  <2>1. <<y, x>> \in Nat \X Nat /\ <<y, x>>[1] = y /\ <<y, x>>[2] = x
    OBVIOUS
  <2>2. <<y, x>> \in R
    BY <1>4, <2>1
  <2> QED BY <1>3, <2>2
<1>5. \A y \in T : x <= y
  BY <1>4
<1> QED BY <1>5

---------------------------------------------------------------------------
(* Sums, as numbers of pairs *)

\* The pairs of an x in S with each of 1 .. w[x], and how many they are: the sum of w over S.
PairsOf(w, x) == {<<x, j>> : j \in 1 .. w[x]}
Pairs(w, S) == UNION {PairsOf(w, x) : x \in S}
Weight(w, S) == Cardinality(Pairs(w, S))

\* What a pair is.
LEMMA PairIs ==
  ASSUME NEW w, NEW S, NEW p
  PROVE  p \in Pairs(w, S) <=> p[1] \in S /\ p[2] \in 1 .. w[p[1]] /\ p = <<p[1], p[2]>>
<1>1. ASSUME p \in Pairs(w, S) PROVE p[1] \in S /\ p[2] \in 1 .. w[p[1]] /\ p = <<p[1], p[2]>>
  <2>1. PICK x \in S : p \in PairsOf(w, x)
    BY <1>1 DEF Pairs
  <2>2. PICK j \in 1 .. w[x] : p = <<x, j>>
    BY <2>1 DEF PairsOf
  <2> QED BY <2>2
<1>2. ASSUME p[1] \in S, p[2] \in 1 .. w[p[1]], p = <<p[1], p[2]>> PROVE p \in Pairs(w, S)
  <2>1. p \in PairsOf(w, p[1])
    BY <1>2 DEF PairsOf
  <2> QED BY <1>2, <2>1 DEF Pairs
<1> QED BY <1>1, <1>2

\* There are w[x] of x,
LEMMA PairsOfOne ==
  ASSUME NEW w, NEW x, w[x] \in Nat
  PROVE  IsFiniteSet(PairsOf(w, x)) /\ Cardinality(PairsOf(w, x)) = w[x]
<1> DEFINE m == w[x]
           f == [j \in 1 .. m |-> <<x, j>>]
<1>1. m \in Nat
  OBVIOUS
<1>2. f \in Surjection(1 .. m, PairsOf(w, x)) /\ f \in Injection(1 .. m, PairsOf(w, x))
  <2>1. f \in [1 .. m -> PairsOf(w, x)]
    BY DEF PairsOf
  <2>2. \A t \in PairsOf(w, x) : \E j \in 1 .. m : f[j] = t
    BY DEF PairsOf
  <2>3. \A i, j \in 1 .. m : f[i] = f[j] => i = j
    OBVIOUS
  <2> HIDE DEF f, m
  <2> QED BY <2>1, <2>2, <2>3, Zenon DEF Surjection, Injection, IsInjective
<1> HIDE DEF f, m
<1>3. IsFiniteSet(1 .. m) /\ Cardinality(1 .. m) = IF 1 > m THEN 0 ELSE m - 1 + 1
  BY <1>1, FS_Interval
<1>4. (IF 1 > m THEN 0 ELSE m - 1 + 1) = m
  BY <1>1, SMT
<1> QED BY <1>2, <1>3, <1>4, FS_Surjection DEF m

\* Over nothing the sum is 0.
LEMMA WeightOfNone ==
  ASSUME NEW w
  PROVE  IsFiniteSet(Pairs(w, {})) /\ Weight(w, {}) = 0
<1>1. Pairs(w, {}) = {}
  BY DEF Pairs
<1> QED BY <1>1, FS_EmptySet DEF Weight

\* and finitely many of a finite set.
LEMMA PairsFinite ==
  ASSUME NEW w, NEW S, IsFiniteSet(S), \A x \in S : w[x] \in Nat
  PROVE  IsFiniteSet(Pairs(w, S)) /\ Weight(w, S) \in Nat
<1> DEFINE T == {PairsOf(w, x) : x \in S}
           f == [x \in S |-> PairsOf(w, x)]
<1>1. f \in Surjection(S, T)
  BY Zenon DEF Surjection
<1>2. \A t \in T : IsFiniteSet(t)
  BY PairsOfOne
<1> HIDE DEF f, T
<1>3. IsFiniteSet(T)
  BY <1>1, FS_Surjection
<1>4. IsFiniteSet(UNION T)
  BY <1>2, <1>3, FS_UNION
<1> QED BY <1>4, FS_CardinalityType DEF T, Pairs, Weight

\* One member more adds its weight.
LEMMA WeightAdds ==
  ASSUME NEW w, NEW S, NEW x, IsFiniteSet(S), x \notin S, w[x] \in Nat, \A y \in S : w[y] \in Nat
  PROVE  Weight(w, S \union {x}) = w[x] + Weight(w, S)
<1>1. Pairs(w, S \union {x}) = Pairs(w, S) \union PairsOf(w, x)
  BY Zenon DEF Pairs
<1>2. Pairs(w, S) \intersect PairsOf(w, x) = {}
  BY PairIs DEF PairsOf
<1>3. IsFiniteSet(Pairs(w, S)) /\ Weight(w, S) \in Nat
  BY PairsFinite
<1>4. IsFiniteSet(PairsOf(w, x)) /\ Cardinality(PairsOf(w, x)) = w[x]
  BY PairsOfOne
<1>5. Cardinality(Pairs(w, S) \union PairsOf(w, x)) =
        Cardinality(Pairs(w, S)) + Cardinality(PairsOf(w, x)) - Cardinality({})
  BY <1>2, <1>3, <1>4, FS_Union
<1>6. Cardinality({}) = 0
  BY FS_EmptySet
<1>7. Weight(w, S) + w[x] - 0 = w[x] + Weight(w, S)
  BY <1>3, SMT
<1> QED BY <1>1, <1>3, <1>4, <1>5, <1>6, <1>7 DEF Weight

\* The recursion by which a set is summed up.
Sums(g, w, S) ==
  g = [s \in SUBSET S |->
        IF s = {} THEN 0 ELSE w[CHOOSE x \in s : TRUE] + g[s \ {CHOOSE x \in s : TRUE}]]

\* It is well defined,
LEMMA WeightSums ==
  ASSUME NEW w, NEW S, IsFiniteSet(S), \A x \in S : w[x] \in Nat
  PROVE  Sums([s \in SUBSET S |-> Weight(w, s)], w, S)
<1> DEFINE g == [s \in SUBSET S |-> Weight(w, s)]
<1>1. ASSUME NEW s \in SUBSET S
      PROVE  g[s] = IF s = {} THEN 0 ELSE w[CHOOSE x \in s : TRUE] + g[s \ {CHOOSE x \in s : TRUE}]
  <2>1. CASE s = {}
    BY <2>1, WeightOfNone
  <2>2. CASE s # {}
    <3> DEFINE x == CHOOSE y \in s : TRUE
               r == s \ {x}
    <3>1. x \in s
      BY <2>2
    <3> HIDE DEF x
    <3>2. IsFiniteSet(r) /\ r \in SUBSET S /\ x \notin r /\ r \union {x} = s
      <4>1. r \in SUBSET S /\ x \notin r /\ r \union {x} = s
        BY <3>1
      <4> QED BY <4>1, FS_Subset
    <3> HIDE DEF r
    <3>3. Weight(w, s) = w[x] + Weight(w, r)
      <4>1. w[x] \in Nat /\ \A y \in r : w[y] \in Nat
        BY <3>1, <3>2
      <4> QED BY <3>2, <4>1, WeightAdds
    <3> QED BY <2>2, <3>2, <3>3 DEF r, x
  <2> QED BY <2>1, <2>2
<1> QED BY <1>1 DEF Sums

\* and gives the same whatever is chosen.
LEMMA SumsToWeight ==
  ASSUME NEW w, NEW S, IsFiniteSet(S), \A x \in S : w[x] \in Nat, NEW g, Sums(g, w, S)
  PROVE  g[S] = Weight(w, S)
<1> DEFINE Bad(n) == \E s \in SUBSET S : Cardinality(s) = n /\ g[s] # Weight(w, s)
           T == {n \in Nat : Bad(n)}
<1>1. SUFFICES ASSUME g[S] # Weight(w, S) PROVE FALSE
  OBVIOUS
<1>2. T # {}
  <2>1. Cardinality(S) \in Nat /\ S \in SUBSET S
    BY FS_CardinalityType
  <2> QED BY <1>1, <2>1
<1>3. PICK n \in T : \A m \in T : n <= m
  <2>1. T \subseteq Nat
    OBVIOUS
  <2> HIDE DEF T
  <2> QED BY <1>2, <2>1, Least
<1>4. PICK s \in SUBSET S : Cardinality(s) = n /\ g[s] # Weight(w, s)
  BY <1>3
<1>5. g[s] = IF s = {} THEN 0 ELSE w[CHOOSE x \in s : TRUE] + g[s \ {CHOOSE x \in s : TRUE}]
  BY DEF Sums
<1>6. s # {}
  BY <1>4, <1>5, WeightOfNone
<1> DEFINE x == CHOOSE y \in s : TRUE
           r == s \ {x}
<1>7. x \in s
  BY <1>6
<1>8. g[s] = w[x] + g[r]
  BY <1>5, <1>6
<1> HIDE DEF x
<1>9. r \in SUBSET S /\ x \notin r /\ r \union {x} = s
  BY <1>7
<1>10. IsFiniteSet(s) /\ IsFiniteSet(r) /\ Cardinality(r) = Cardinality(s) - 1
  BY <1>7, <1>9, FS_Subset, FS_RemoveElement
<1> HIDE DEF r
<1>11. Weight(w, s) = w[x] + Weight(w, r)
  <2>1. w[x] \in Nat /\ \A y \in r : w[y] \in Nat
    BY <1>7, <1>9
  <2> QED BY <1>9, <1>10, <2>1, WeightAdds
<1>12. g[r] # Weight(w, r)
  BY <1>4, <1>8, <1>11
<1>13. Cardinality(r) \in T
  BY <1>9, <1>10, <1>12, FS_CardinalityType
<1>14. n \in Nat /\ ~(n <= n - 1)
  BY SMT
<1> QED BY <1>3, <1>4, <1>10, <1>13, <1>14

\* So what the community module sums up is the number of the pairs.
LEMMA SumIsWeight ==
  ASSUME NEW w, NEW S, IsFiniteSet(S), \A x \in S : w[x] \in Nat
  PROVE  (CHOOSE g : Sums(g, w, S))[S] = Weight(w, S)
<1>1. Sums(CHOOSE g : Sums(g, w, S), w, S)
  BY WeightSums, Zenon
<1> QED BY <1>1, SumsToWeight

\* Only what has a positive weight counts.
LEMMA WeightOfSame ==
  ASSUME NEW w, NEW v, NEW S, NEW T, T \subseteq S,
         \A x \in T : v[x] = w[x], \A x \in S : w[x] \in Nat, \A x \in S : w[x] > 0 => x \in T
  PROVE  Pairs(w, S) = Pairs(v, T) /\ Weight(w, S) = Weight(v, T)
<1>1. ASSUME NEW p, p \in Pairs(w, S) PROVE p \in Pairs(v, T)
  <2>1. p[1] \in S /\ p[2] \in 1 .. w[p[1]] /\ p = <<p[1], p[2]>>
    BY <1>1, PairIs
  <2>2. w[p[1]] > 0
    <3>1. PICK m \in Nat : m = w[p[1]]
      BY <2>1
    <3>2. p[2] \in 1 .. m
      BY <2>1, <3>1
    <3>3. m > 0
      BY <3>2, SMT
    <3> QED BY <3>1, <3>3
  <2> QED BY <2>1, <2>2, PairIs
<1>2. ASSUME NEW p, p \in Pairs(v, T) PROVE p \in Pairs(w, S)
  <2>1. p[1] \in T /\ p[2] \in 1 .. v[p[1]] /\ p = <<p[1], p[2]>>
    BY <1>2, PairIs
  <2> QED BY <2>1, PairIs
<1> QED BY <1>1, <1>2, Zenon DEF Weight

\* Weights of one: the number of those that have one.
LEMMA WeightOfOnes ==
  ASSUME NEW w, NEW S, IsFiniteSet(S), \A x \in S : w[x] \in {0, 1}
  PROVE  Weight(w, S) = Cardinality({x \in S : w[x] = 1})
<1> DEFINE T == {x \in S : w[x] = 1}
           f == [x \in T |-> <<x, 1>>]
<1>1. ASSUME NEW p PROVE p \in Pairs(w, S) <=> \E x \in T : p = <<x, 1>>
  <2>1. ASSUME p \in Pairs(w, S) PROVE \E x \in T : p = <<x, 1>>
    <3>1. p[1] \in S /\ p[2] \in 1 .. w[p[1]] /\ p = <<p[1], p[2]>>
      BY <2>1, PairIs
    <3>2. w[p[1]] = 1 /\ p[2] = 1
      BY <3>1, SMT
    <3> QED BY <3>1, <3>2
  <2>2. ASSUME NEW x \in T, p = <<x, 1>> PROVE p \in Pairs(w, S)
    <3>1. p[1] = x /\ p[2] = 1 /\ 1 \in 1 .. 1
      BY <2>2, SMT
    <3> QED BY <2>2, <3>1, PairIs
  <2> QED BY <2>1, <2>2
<1>2. f \in Surjection(T, Pairs(w, S)) /\ f \in Injection(T, Pairs(w, S))
  <2>1. f \in [T -> Pairs(w, S)] /\ (\A p \in Pairs(w, S) : \E x \in T : f[x] = p)
    BY <1>1
  <2>2. \A x, y \in T : f[x] = f[y] => x = y
    OBVIOUS
  <2> HIDE DEF f, T
  <2> QED BY <2>1, <2>2, Zenon DEF Surjection, Injection, IsInjective
<1>3. IsFiniteSet(T)
  BY FS_Subset
<1> HIDE DEF f, T
<1> QED BY <1>2, <1>3, FS_Surjection DEF T, Weight

\* Two sets apart.
LEMMA WeightJoins ==
  ASSUME NEW w, NEW S, NEW T, IsFiniteSet(S), IsFiniteSet(T), S \intersect T = {},
         \A x \in S \union T : w[x] \in Nat
  PROVE  Weight(w, S \union T) = Weight(w, S) + Weight(w, T)
<1>1. Pairs(w, S \union T) = Pairs(w, S) \union Pairs(w, T)
  BY Zenon DEF Pairs
<1>2. Pairs(w, S) \intersect Pairs(w, T) = {}
  BY PairIs
<1>3. /\ IsFiniteSet(Pairs(w, S)) /\ Weight(w, S) \in Nat
      /\ IsFiniteSet(Pairs(w, T)) /\ Weight(w, T) \in Nat
  BY PairsFinite
<1>4. Cardinality(Pairs(w, S) \union Pairs(w, T)) =
        Cardinality(Pairs(w, S)) + Cardinality(Pairs(w, T)) - Cardinality({})
  BY <1>2, <1>3, FS_Union
<1>5. Cardinality({}) = 0
  BY FS_EmptySet
<1>6. Weight(w, S) + Weight(w, T) - 0 = Weight(w, S) + Weight(w, T)
  BY <1>3, SMT
<1> QED BY <1>1, <1>4, <1>5, <1>6 DEF Weight

\* Counts of disjoint parts of S, each no more than its part weighs, are together no more than S
\* does; and just that, if each count is right and no part with a weight is left out.
LEMMA PartsSum ==
  ASSUME NEW w, NEW S, IsFiniteSet(S), \A x \in S : w[x] \in Nat,
         NEW R, IsFiniteSet(R), NEW P, \A i \in R : P[i] \subseteq S,
         \A i, j \in R : i # j => P[i] \intersect P[j] = {},
         NEW c, \A i \in R : c[i] \in Nat /\ c[i] <= Weight(w, P[i])
  PROVE  /\ Weight(c, R) <= Weight(w, S)
         /\ /\ \A i \in R : c[i] = Weight(w, P[i])
            /\ \A x \in S : w[x] > 0 => \E i \in R : x \in P[i]
            => Weight(c, R) = Weight(w, S)
<1> DEFINE U(r) == UNION {P[i] : i \in r}
           Good(r) == /\ Weight(c, r) <= Weight(w, U(r))
                      /\ (\A i \in R : c[i] = Weight(w, P[i])) => Weight(c, r) = Weight(w, U(r))
           T == {n \in Nat : \E r \in SUBSET R : Cardinality(r) = n /\ ~Good(r)}
<1>1. \A r \in SUBSET R : U(r) \subseteq S /\ IsFiniteSet(U(r)) /\ Weight(w, U(r)) \in Nat
  <2> SUFFICES ASSUME NEW r \in SUBSET R
               PROVE  U(r) \subseteq S /\ IsFiniteSet(U(r)) /\ Weight(w, U(r)) \in Nat
    OBVIOUS
  <2>1. U(r) \subseteq S
    OBVIOUS
  <2> HIDE DEF U
  <2>2. IsFiniteSet(U(r))
    BY <2>1, FS_Subset
  <2>3. \A x \in U(r) : w[x] \in Nat
    BY <2>1
  <2> QED BY <2>1, <2>2, <2>3, PairsFinite
<1>2. ASSUME NEW r \in SUBSET R, NEW i \in r, Good(r \ {i}) PROVE Good(r)
  <2> DEFINE q == r \ {i}
  <2>1. q \in SUBSET R /\ i \notin q /\ q \union {i} = r /\ i \in R
    OBVIOUS
  <2>2. U(r) = U(q) \union P[i] /\ U(q) \intersect P[i] = {}
    BY <2>1
  <2> HIDE DEF q, U
  <2>3. IsFiniteSet(q) /\ IsFiniteSet(P[i])
    BY <2>1, FS_Subset
  <2>4. Weight(c, r) = c[i] + Weight(c, q) /\ Weight(c, q) \in Nat
    <3>1. c[i] \in Nat /\ \A j \in q : c[j] \in Nat
      BY <2>1
    <3> QED BY <2>1, <2>3, <3>1, WeightAdds, PairsFinite
  <2>5. Weight(w, U(r)) = Weight(w, U(q)) + Weight(w, P[i]) /\ Weight(w, P[i]) \in Nat
    <3>1. IsFiniteSet(U(q)) /\ \A x \in U(q) \union P[i] : w[x] \in Nat
      BY <1>1, <2>1
    <3>2. \A x \in P[i] : w[x] \in Nat
      BY <2>1
    <3> QED BY <2>2, <2>3, <3>1, <3>2, WeightJoins, PairsFinite
  <2>6. PICK a \in Nat, b \in Nat, d \in Nat, e \in Nat :
          /\ a = Weight(c, q) /\ b = Weight(w, U(q)) /\ d = c[i] /\ e = Weight(w, P[i])
          /\ a <= b /\ d <= e
          /\ (\A j \in R : c[j] = Weight(w, P[j])) => a = b /\ d = e
    BY <1>1, <1>2, <2>1, <2>4, <2>5 DEF q
  <2>7. d + a <= b + e /\ (a = b /\ d = e => d + a = b + e)
    BY <2>6, SMT
  <2> QED BY <2>4, <2>5, <2>6, <2>7
<1>3. Good({})
  <2>1. U({}) = {}
    OBVIOUS
  <2>2. Weight(c, {}) = 0 /\ Weight(w, {}) = 0 /\ 0 <= 0
    BY WeightOfNone, SMT
  <2> HIDE DEF U
  <2> QED BY <2>1, <2>2
<1> HIDE DEF Good, U
<1>4. Good(R)
  <2> SUFFICES ASSUME ~Good(R) PROVE FALSE
    OBVIOUS
  <2>1. T # {} /\ T \subseteq Nat
    <3>1. Cardinality(R) \in Nat /\ R \in SUBSET R
      BY FS_CardinalityType
    <3> QED BY <3>1
  <2>2. PICK n \in T : \A m \in T : n <= m
    <3> HIDE DEF T
    <3> QED BY <2>1, Least
  <2>3. PICK r \in SUBSET R : Cardinality(r) = n /\ ~Good(r)
    BY <2>2
  <2>4. PICK i \in r : TRUE
    BY <1>3, <2>3
  <2>5. ~Good(r \ {i})
    BY <1>2, <2>3
  <2>6. IsFiniteSet(r) /\ r \ {i} \in SUBSET R
    BY FS_Subset
  <2>7. Cardinality(r \ {i}) = n - 1 /\ Cardinality(r \ {i}) \in Nat
    BY <2>3, <2>6, FS_RemoveElement, FS_CardinalityType
  <2>8. n - 1 \in T
    BY <2>5, <2>6, <2>7
  <2>9. n \in Nat /\ ~(n <= n - 1)
    BY SMT
  <2> QED BY <2>2, <2>8, <2>9
<1>5. U(R) \subseteq S /\ Weight(w, U(R)) \in Nat
  BY <1>1
<1>6. Weight(w, U(R)) <= Weight(w, S)
  <2>1. Pairs(w, U(R)) \subseteq Pairs(w, S)
    BY <1>5, PairIs
  <2>2. IsFiniteSet(Pairs(w, S))
    BY PairsFinite
  <2> QED BY <2>1, <2>2, FS_Subset DEF Weight
<1>7. Weight(c, R) \in Nat /\ Weight(w, S) \in Nat
  BY PairsFinite
<1>8. Weight(c, R) <= Weight(w, S)
  <2>1. Weight(c, R) <= Weight(w, U(R))
    BY <1>4 DEF Good
  <2> QED BY <1>5, <1>6, <1>7, <2>1, SMT
<1>9. ASSUME \A i \in R : c[i] = Weight(w, P[i]), \A x \in S : w[x] > 0 => \E i \in R : x \in P[i]
      PROVE  Weight(c, R) = Weight(w, S)
  <2>1. Weight(c, R) = Weight(w, U(R))
    BY <1>4, <1>9 DEF Good
  <2>2. \A x \in S : w[x] > 0 => x \in U(R)
    BY <1>9 DEF U
  <2>3. Weight(w, S) = Weight(w, U(R))
    BY <1>5, <2>2, WeightOfSame
  <2> QED BY <2>1, <2>3
<1> QED BY <1>8, <1>9

---------------------------------------------------------------------------
(* The rings of buckets *)

\* A ring as three functions: the second of each bucket, and its two counts.
Secs(s) == [i \in Slots |-> s.buckets[i].sec]
Counts(s) == [i \in Slots |-> s.buckets[i].count]
WithSignal(s) == [i \in Slots |-> s.buckets[i].ssN]

\* The frames of list h that came in second x, or in the minute before now.
FramesAt(h, x) == {n \in DOMAIN h : h[n].sec = x}
FramesSince(h, now) == {n \in DOMAIN h : h[n].sec >= now - (Window - 1)}

\* No bucket counts more than the list has for its second, with u what a frame weighs; and a
\* bucket that is in use is that of its second.
AtMost(h, sec, c, u) ==
  \A i \in Slots : c[i] <= Weight(u, FramesAt(h, sec[i])) /\ (sec[i] = 0 \/ sec[i] % Window = i)

\* Each counts just what the list has, and none is behind a frame that it should count.
Exact(h, now, sec, c, u) ==
  /\ \A i \in Slots : c[i] = Weight(u, FramesAt(h, sec[i])) /\ sec[i] <= now
  /\ \A n \in DOMAIN h : u[n] > 0 => h[n].sec <= sec[h[n].sec % Window]

\* The seconds of a list are those of a clock that shows Window or more.
Dated(h) == /\ IsFiniteSet(DOMAIN h)
            /\ \A n \in DOMAIN h : h[n].sec \in Nat /\ h[n].sec >= Window

\* What the tallies show is a sum over buckets.
LEMMA CountsSum ==
  ASSUME NEW s \in Stats, NEW R \in SUBSET Slots
  PROVE  MapThenSumSet(LAMBDA i : s.buckets[i].count, R) = Weight(Counts(s), R)
<1> DEFINE w == Counts(s)
<1>1. IsFiniteSet(R)
  <2>1. IsFiniteSet(Slots)
    BY Bounds, FS_Interval DEF Slots
  <2> QED BY <2>1, FS_Subset
<1>2. \A x \in R : w[x] \in Nat /\ w[x] = s.buckets[x].count
  BY DEF Counts, Stats, Bucket
<1> DEFINE P(g) == g = [t \in SUBSET R |->
              IF t = {} THEN 0
              ELSE s.buckets[CHOOSE x \in t : TRUE].count + g[t \ {CHOOSE x \in t : TRUE}]]
<1>3. \A g : P(g) <=> Sums(g, w, R)
  <2>1. ASSUME NEW t \in SUBSET R, t # {}
        PROVE  w[CHOOSE x \in t : TRUE] = s.buckets[CHOOSE x \in t : TRUE].count
    <3>1. (CHOOSE x \in t : TRUE) \in R
      BY <2>1
    <3> QED BY <1>2, <3>1
  <2> HIDE DEF w
  <2>2. ASSUME NEW g PROVE P(g) <=> Sums(g, w, R)
    <3>1. [t \in SUBSET R |-> IF t = {} THEN 0
              ELSE s.buckets[CHOOSE x \in t : TRUE].count + g[t \ {CHOOSE x \in t : TRUE}]]
          = [t \in SUBSET R |-> IF t = {} THEN 0
              ELSE w[CHOOSE x \in t : TRUE] + g[t \ {CHOOSE x \in t : TRUE}]]
      BY <2>1
    <3> QED BY <3>1 DEF Sums
  <2> QED BY <2>2
<1>4. MapThenSumSet(LAMBDA i : s.buckets[i].count, R) = (CHOOSE g : P(g))[R]
  BY DEF MapThenSumSet, MapThenFoldSet
<1> HIDE DEF P, w
<1>5. Sums(CHOOSE g : P(g), w, R)
  <2>1. \E g : P(g)
    BY <1>1, <1>2, <1>3, WeightSums, Zenon
  <2> QED BY <1>3, <2>1
<1>6. (CHOOSE g : P(g))[R] = Weight(w, R)
  BY <1>1, <1>2, <1>5, SumsToWeight
<1> QED BY <1>4, <1>6 DEF w

\* The same for the frames with a signal.
LEMMA SignalsSum ==
  ASSUME NEW s \in Stats, NEW R \in SUBSET Slots
  PROVE  MapThenSumSet(LAMBDA i : s.buckets[i].ssN, R) = Weight(WithSignal(s), R)
<1> DEFINE w == WithSignal(s)
<1>1. IsFiniteSet(R)
  <2>1. IsFiniteSet(Slots)
    BY Bounds, FS_Interval DEF Slots
  <2> QED BY <2>1, FS_Subset
<1>2. \A x \in R : w[x] \in Nat /\ w[x] = s.buckets[x].ssN
  BY DEF WithSignal, Stats, Bucket
<1> DEFINE P(g) == g = [t \in SUBSET R |->
              IF t = {} THEN 0
              ELSE s.buckets[CHOOSE x \in t : TRUE].ssN + g[t \ {CHOOSE x \in t : TRUE}]]
<1>3. \A g : P(g) <=> Sums(g, w, R)
  <2>1. ASSUME NEW t \in SUBSET R, t # {}
        PROVE  w[CHOOSE x \in t : TRUE] = s.buckets[CHOOSE x \in t : TRUE].ssN
    <3>1. (CHOOSE x \in t : TRUE) \in R
      BY <2>1
    <3> QED BY <1>2, <3>1
  <2> HIDE DEF w
  <2>2. ASSUME NEW g PROVE P(g) <=> Sums(g, w, R)
    <3>1. [t \in SUBSET R |-> IF t = {} THEN 0
              ELSE s.buckets[CHOOSE x \in t : TRUE].ssN + g[t \ {CHOOSE x \in t : TRUE}]]
          = [t \in SUBSET R |-> IF t = {} THEN 0
              ELSE w[CHOOSE x \in t : TRUE] + g[t \ {CHOOSE x \in t : TRUE}]]
      BY <2>1
    <3> QED BY <3>1 DEF Sums
  <2> QED BY <2>2
<1>4. MapThenSumSet(LAMBDA i : s.buckets[i].ssN, R) = (CHOOSE g : P(g))[R]
  BY DEF MapThenSumSet, MapThenFoldSet
<1> HIDE DEF P, w
<1>5. Sums(CHOOSE g : P(g), w, R)
  <2>1. \E g : P(g)
    BY <1>1, <1>2, <1>3, WeightSums, Zenon
  <2> QED BY <1>3, <2>1
<1>6. (CHOOSE g : P(g))[R] = Weight(w, R)
  BY <1>1, <1>2, <1>5, SumsToWeight
<1> QED BY <1>4, <1>6 DEF w

\* So is what the list of frames says of a product.
LEMMA ProductsSum ==
  ASSUME FeedTypes, NEW p \in Products, NEW R \in SUBSET DOMAIN received
  PROVE  MapThenSumSet(LAMBDA n : received[n].kind.products[p], R)
           = Weight([n \in DOMAIN received |-> received[n].kind.products[p]], R)
<1> DEFINE w == [n \in DOMAIN received |-> received[n].kind.products[p]]
<1>1. IsFiniteSet(R)
  <2>1. DOMAIN received = 1 .. Len(received) /\ Len(received) \in Nat
    BY SMT DEF FeedTypes
  <2>2. IsFiniteSet(DOMAIN received)
    BY <2>1, FS_Interval
  <2> QED BY <2>2, FS_Subset
<1>2. \A x \in R : w[x] \in Nat /\ w[x] = received[x].kind.products[p]
  <2> SUFFICES ASSUME NEW x \in R PROVE w[x] \in Nat /\ w[x] = received[x].kind.products[p]
    OBVIOUS
  <2> DEFINE S == [sec : Nat, kind : Kinds]
  <2>1. received \in Seq(S) /\ x \in DOMAIN received
    BY DEF FeedTypes
  <2> HIDE DEF S
  <2>2. received[x] \in S
    BY <2>1, SMT
  <2>3. received[x].kind \in Kinds
    BY <2>2 DEF S
  <2> QED BY <2>1, <2>3, KindParts
<1> DEFINE P(g) == g = [t \in SUBSET R |->
              IF t = {} THEN 0
              ELSE received[CHOOSE x \in t : TRUE].kind.products[p] + g[t \ {CHOOSE x \in t : TRUE}]]
<1>3. \A g : P(g) <=> Sums(g, w, R)
  <2>1. ASSUME NEW t \in SUBSET R, t # {}
        PROVE  w[CHOOSE x \in t : TRUE] = received[CHOOSE x \in t : TRUE].kind.products[p]
    <3>1. (CHOOSE x \in t : TRUE) \in R
      BY <2>1
    <3> QED BY <1>2, <3>1
  <2> HIDE DEF w
  <2>2. ASSUME NEW g PROVE P(g) <=> Sums(g, w, R)
    <3>1. [t \in SUBSET R |-> IF t = {} THEN 0
              ELSE received[CHOOSE x \in t : TRUE].kind.products[p] + g[t \ {CHOOSE x \in t : TRUE}]]
          = [t \in SUBSET R |-> IF t = {} THEN 0
              ELSE w[CHOOSE x \in t : TRUE] + g[t \ {CHOOSE x \in t : TRUE}]]
      BY <2>1
    <3> QED BY <3>1 DEF Sums
  <2> QED BY <2>2
<1>4. MapThenSumSet(LAMBDA n : received[n].kind.products[p], R) = (CHOOSE g : P(g))[R]
  BY DEF MapThenSumSet, MapThenFoldSet
<1> HIDE DEF P, w
<1>5. Sums(CHOOSE g : P(g), w, R)
  <2>1. \E g : P(g)
    BY <1>1, <1>2, <1>3, WeightSums, Zenon
  <2> QED BY <1>3, <2>1
<1>6. (CHOOSE g : P(g))[R] = Weight(w, R)
  BY <1>1, <1>2, <1>5, SumsToWeight
<1> QED BY <1>4, <1>6 DEF w

\* A sum over the buckets of the minute before now is no more than what the list has of it;
\* and just that, when the ring is exact and no frame is later than now.
LEMMA RingSum ==
  ASSUME NEW h, Dated(h), NEW u, \A n \in DOMAIN h : u[n] \in Nat,
         NEW sec, NEW c, \A i \in Slots : sec[i] \in Nat /\ c[i] \in Nat,
         AtMost(h, sec, c, u), NEW now \in Int, now >= Window - 1
  PROVE  LET R == {i \in Slots : sec[i] >= now - (Window - 1)}
         IN /\ Weight(c, R) <= Weight(u, FramesSince(h, now))
            /\ Exact(h, now, sec, c, u) => Weight(c, R) = Weight(u, FramesSince(h, now))
<1> DEFINE R == {i \in Slots : sec[i] >= now - (Window - 1)}
           S == FramesSince(h, now)
           P == [i \in R |-> FramesAt(h, sec[i])]
<1>1. Window \in Nat \ {0}
  BY Bounds
<1>2. IsFiniteSet(R) /\ IsFiniteSet(S)
  <2>1. IsFiniteSet(Slots)
    BY <1>1, FS_Interval DEF Slots
  <2> QED BY <2>1, FS_Subset DEF Dated, FramesSince
<1>3. \A x \in S : u[x] \in Nat
  BY DEF FramesSince
<1>4. \A i \in R : P[i] \subseteq S
  BY DEF FramesAt, FramesSince
<1>5. \A n \in DOMAIN h : h[n].sec \in Nat /\ h[n].sec >= Window /\ h[n].sec # 0
  BY <1>1, SMT DEF Dated
<1>6. \A i, j \in R : i # j => P[i] \intersect P[j] = {}
  <2> SUFFICES ASSUME NEW i \in R, NEW j \in R, NEW n \in P[i], n \in P[j] PROVE i = j
    OBVIOUS
  <2>1. n \in DOMAIN h /\ h[n].sec = sec[i] /\ h[n].sec = sec[j] /\ i \in Slots /\ j \in Slots
    BY DEF FramesAt
  <2>2. sec[i] % Window = i /\ sec[j] % Window = j
    BY <1>5, <2>1, Zenon DEF AtMost
  <2> QED BY <2>1, <2>2
<1>7. \A i \in R : c[i] \in Nat /\ c[i] <= Weight(u, P[i])
  BY DEF AtMost
<1>8. ASSUME Exact(h, now, sec, c, u)
      PROVE  /\ \A i \in R : c[i] = Weight(u, P[i])
             /\ \A n \in S : u[n] > 0 => \E i \in R : n \in P[i]
  <2>1. \A i \in R : c[i] = Weight(u, P[i])
    BY <1>8 DEF Exact
  <2>2. ASSUME NEW n \in S, u[n] > 0 PROVE \E i \in R : n \in P[i]
    <3> DEFINE x == h[n].sec
               i == x % Window
    <3>1. n \in DOMAIN h /\ x >= now - (Window - 1)
      BY DEF FramesSince
    <3>2. x \in Nat /\ x >= Window
      BY <1>5, <3>1
    <3>3. i \in Slots
      <4> HIDE DEF x
      <4> QED BY <1>1, <3>2, SMT DEF Slots
    <3>4. x <= sec[i] /\ sec[i] <= now /\ sec[i] \in Nat
      BY <1>8, <2>2, <3>1, <3>3 DEF Exact
    <3> HIDE DEF x, i
    <3>5. sec[i] # 0
      BY <1>1, <3>2, <3>4, SMT
    <3>6. sec[i] % Window = i
      BY <3>3, <3>5, Zenon DEF AtMost
    <3>7. ~(x < sec[i])
      <4>1. x < sec[i] => sec[i] - x >= Window
        <5>1. x % Window = sec[i] % Window
          BY <3>6 DEF i
        <5>2. PICK y \in Nat : y = sec[i]
          BY <3>4
        <5>3. x \in Int /\ y \in Int
          BY <3>2, <5>2, SMT
        <5>4. x % Window = y % Window
          BY <5>1, <5>2
        <5>5. x < y => y - x >= Window
          BY <1>1, <5>3, <5>4, RemaindersApart, Zenon
        <5> QED BY <5>2, <5>5
      <4> QED BY <1>1, <3>1, <3>2, <3>4, <4>1, SMT
    <3>8. x = sec[i]
      BY <3>2, <3>4, <3>7, SMT
    <3>9. i \in R /\ n \in P[i]
      BY <3>1, <3>3, <3>8 DEF FramesAt, x
    <3> QED BY <3>9
  <2> QED BY <2>1, <2>2
<1> HIDE DEF R, S, P
<1>9. /\ Weight(c, R) <= Weight(u, S)
      /\ /\ \A i \in R : c[i] = Weight(u, P[i])
         /\ \A x \in S : u[x] > 0 => \E i \in R : x \in P[i]
         => Weight(c, R) = Weight(u, S)
  BY <1>2, <1>3, <1>4, <1>6, <1>7, PartsSum
<1> QED BY <1>8, <1>9 DEF R, S

---------------------------------------------------------------------------
(* One frame more *)

\* The list g is h with the frame m of second now at the end.
OneMoreAt(h, g, m, now) ==
  /\ DOMAIN g = DOMAIN h \union {m} /\ m \notin DOMAIN h /\ g[m].sec = now
  /\ \A n \in DOMAIN h : g[n].sec = h[n].sec

\* Its weights v go on from u.
WeighsAs(h, m, u, v, d) ==
  /\ \A n \in DOMAIN h : u[n] \in Nat /\ v[n] = u[n]
  /\ v[m] = d

\* What a second holds then,
LEMMA FramesAtGrow ==
  ASSUME NEW h, NEW g, NEW m, NEW now, OneMoreAt(h, g, m, now), NEW x
  PROVE  FramesAt(g, x) = IF x = now THEN FramesAt(h, x) \union {m} ELSE FramesAt(h, x)
BY DEF OneMoreAt, FramesAt

\* and what it weighs.
LEMMA WeightAtGrows ==
  ASSUME NEW h, Dated(h), NEW g, NEW m, NEW now, OneMoreAt(h, g, m, now),
         NEW u, NEW v, NEW d \in Nat, WeighsAs(h, m, u, v, d), NEW x
  PROVE  /\ Weight(u, FramesAt(h, x)) \in Nat
         /\ Weight(v, FramesAt(g, x)) = IF x = now THEN d + Weight(u, FramesAt(h, x))
                                        ELSE Weight(u, FramesAt(h, x))
<1> DEFINE S == FramesAt(h, x)
<1>1. S \subseteq DOMAIN h /\ m \notin S /\ IsFiniteSet(S)
  BY FS_Subset DEF FramesAt, Dated, OneMoreAt
<1>2. \A n \in S : u[n] \in Nat /\ v[n] = u[n] /\ v[n] \in Nat
  BY <1>1 DEF WeighsAs
<1>3. v[m] \in Nat /\ v[m] = d
  BY DEF WeighsAs
<1>4. FramesAt(g, x) = IF x = now THEN S \union {m} ELSE S
  BY FramesAtGrow
<1> HIDE DEF S
<1>5. Weight(u, S) \in Nat
  BY <1>1, <1>2, PairsFinite
<1>6. Weight(v, S) = Weight(u, S)
  BY <1>2, WeightOfSame
<1>7. Weight(v, S \union {m}) = v[m] + Weight(v, S)
  BY <1>1, <1>2, <1>3, WeightAdds
<1> QED BY <1>3, <1>4, <1>5, <1>6, <1>7 DEF S

\* A ring that does not count the frame need not.
LEMMA RingStays ==
  ASSUME NEW h, Dated(h), NEW g, NEW m, NEW now \in Nat, now >= Window, OneMoreAt(h, g, m, now),
         NEW u, NEW v, WeighsAs(h, m, u, v, 0), NEW sec, NEW c,
         \A i \in Slots : sec[i] \in Nat /\ c[i] \in Nat
  PROVE  /\ AtMost(h, sec, c, u) => AtMost(g, sec, c, v)
         /\ Exact(h, now, sec, c, u) => Exact(g, now, sec, c, v)
<1>1. \A x : Weight(v, FramesAt(g, x)) = Weight(u, FramesAt(h, x))
  <2> SUFFICES ASSUME NEW x PROVE Weight(v, FramesAt(g, x)) = Weight(u, FramesAt(h, x))
    OBVIOUS
  <2>1. Weight(u, FramesAt(h, x)) \in Nat
        /\ Weight(v, FramesAt(g, x)) = IF x = now THEN 0 + Weight(u, FramesAt(h, x))
                                        ELSE Weight(u, FramesAt(h, x))
    BY WeightAtGrows
  <2> QED BY <2>1, SMT
<1>2. AtMost(h, sec, c, u) => AtMost(g, sec, c, v)
  BY <1>1, Zenon DEF AtMost
<1>3. ASSUME Exact(h, now, sec, c, u) PROVE Exact(g, now, sec, c, v)
  <2>1. ASSUME NEW n \in DOMAIN g, v[n] > 0 PROVE g[n].sec <= sec[g[n].sec % Window]
    <3>1. n # m
      BY <2>1, SMT DEF WeighsAs
    <3>2. n \in DOMAIN h /\ g[n].sec = h[n].sec /\ u[n] > 0
      BY <2>1, <3>1 DEF OneMoreAt, WeighsAs
    <3> QED BY <1>3, <3>2 DEF Exact
  <2> QED BY <1>1, <1>3, <2>1, Zenon DEF Exact
<1> QED BY <1>2, <1>3

\* One that does counts it in the bucket of its second, and empties that first if it was of
\* another one.
LEMMA RingCounts ==
  ASSUME NEW h, Dated(h), NEW g, NEW m, NEW now \in Nat, now >= Window, OneMoreAt(h, g, m, now),
         NEW u, NEW v, NEW d \in Nat, WeighsAs(h, m, u, v, d), NEW sec, NEW c,
         \A i \in Slots : sec[i] \in Nat /\ c[i] \in Nat,
         NEW sec2, NEW c2, NEW b \in Slots, b = now % Window,
         \A i \in Slots : i # b => sec2[i] = sec[i] /\ c2[i] = c[i],
         sec2[b] = now, c2[b] = (IF sec[b] = now THEN c[b] ELSE 0) + d,
         AtMost(h, sec, c, u)
  PROVE  /\ AtMost(g, sec2, c2, v)
         /\ Exact(h, now, sec, c, u) => Exact(g, now, sec2, c2, v)
<1>1. Window \in Nat \ {0} /\ now # 0
  BY Bounds, SMT
<1>2. \A x : /\ Weight(u, FramesAt(h, x)) \in Nat
             /\ Weight(v, FramesAt(g, x)) = IF x = now THEN d + Weight(u, FramesAt(h, x))
                                            ELSE Weight(u, FramesAt(h, x))
  BY WeightAtGrows
<1>3. \A i \in Slots : i # b => sec[i] # now
  BY <1>1, Zenon DEF AtMost
<1>4. PICK w \in Nat : w = Weight(u, FramesAt(h, now)) /\ Weight(v, FramesAt(g, now)) = d + w
  BY <1>2
<1>5. c[b] \in Nat /\ (sec[b] = now => c[b] <= w)
  BY <1>4 DEF AtMost
<1>6. AtMost(g, sec2, c2, v)
  <2>1. c2[b] <= Weight(v, FramesAt(g, sec2[b]))
    BY <1>4, <1>5, SMT
  <2>2. sec2[b] % Window = b
    OBVIOUS
  <2>3. ASSUME NEW i \in Slots, i # b
        PROVE  c2[i] <= Weight(v, FramesAt(g, sec2[i])) /\ (sec2[i] = 0 \/ sec2[i] % Window = i)
    <3>1. sec2[i] = sec[i] /\ c2[i] = c[i] /\ sec[i] # now
      BY <1>3, <2>3
    <3>2. Weight(v, FramesAt(g, sec[i])) = Weight(u, FramesAt(h, sec[i]))
      BY <1>2, <3>1
    <3> QED BY <3>1, <3>2, Zenon DEF AtMost
  <2> QED BY <2>1, <2>2, <2>3, Zenon DEF AtMost
<1>7. ASSUME Exact(h, now, sec, c, u) PROVE Exact(g, now, sec2, c2, v)
  <2>1. sec[b] \in Nat /\ sec[b] <= now
    BY <1>7 DEF Exact
  <2>2. sec[b] # now => w = 0
    <3> SUFFICES ASSUME sec[b] # now PROVE w = 0
      OBVIOUS
    <3>1. ~(now <= sec[b])
      BY <2>1, SMT
    <3>2. \A n \in FramesAt(h, now) : ~(u[n] > 0)
      BY <1>7, <3>1 DEF Exact, FramesAt
    <3>3. \A n \in FramesAt(h, now) : u[n] \in Nat
      BY DEF FramesAt, WeighsAs
    <3>4. Weight(u, FramesAt(h, now)) = Weight(u, {})
      BY <3>2, <3>3, WeightOfSame
    <3> QED BY <1>4, <3>4, WeightOfNone
  <2>3. c2[b] = Weight(v, FramesAt(g, sec2[b]))
    <3>1. sec[b] = now => c[b] = w
      BY <1>4, <1>7 DEF Exact
    <3>2. c2[b] = d + w
      BY <1>4, <1>5, <2>2, <3>1, SMT
    <3> QED BY <1>4, <3>2
  <2>4. ASSUME NEW i \in Slots, i # b
        PROVE  c2[i] = Weight(v, FramesAt(g, sec2[i])) /\ sec2[i] <= now
    <3>1. sec2[i] = sec[i] /\ c2[i] = c[i] /\ sec[i] # now
      BY <1>3, <2>4
    <3>2. Weight(v, FramesAt(g, sec[i])) = Weight(u, FramesAt(h, sec[i]))
      BY <1>2, <3>1
    <3> QED BY <1>7, <3>1, <3>2, Zenon DEF Exact
  <2>5. sec2[b] <= now
    BY SMT
  <2>6. ASSUME NEW n \in DOMAIN g, v[n] > 0 PROVE g[n].sec <= sec2[g[n].sec % Window]
    <3>1. CASE n = m
      <4>1. g[n].sec = now
        BY <3>1 DEF OneMoreAt
      <4> QED BY <2>5, <4>1
    <3>2. CASE n # m
      <4>1. n \in DOMAIN h /\ g[n].sec = h[n].sec /\ u[n] > 0
        BY <2>6, <3>2 DEF OneMoreAt, WeighsAs
      <4> DEFINE x == h[n].sec
                 j == x % Window
      <4>2. x \in Nat /\ x <= sec[j]
        BY <1>7, <4>1 DEF Exact, Dated
      <4>3. j \in Slots
        <5> HIDE DEF x
        <5> QED BY <1>1, <4>2, SMT DEF Slots
      <4> HIDE DEF x, j
      <4>4. sec[j] <= sec2[j] /\ sec[j] \in Nat /\ sec2[j] \in Nat
        <5>1. CASE j = b
          BY <2>1, <5>1
        <5>2. CASE j # b
          <6>1. sec2[j] = sec[j] /\ sec[j] \in Nat
            BY <4>3, <5>2
          <6> QED BY <6>1, SMT
        <5> QED BY <5>1, <5>2
      <4>5. x <= sec2[j]
        BY <4>2, <4>4, SMT
      <4> QED BY <4>1, <4>5 DEF x, j
    <3> QED BY <3>1, <3>2
  <2> QED BY <2>3, <2>4, <2>5, <2>6, Zenon DEF Exact
<1> QED BY <1>6, <1>7

\* A new ring counts nothing, which is right where the list has nothing.
LEMMA RingStarts ==
  ASSUME NEW h, Dated(h), NEW u, \A n \in DOMAIN h : u[n] \in Nat, NEW sec, NEW c,
         \A i \in Slots : sec[i] = 0 /\ c[i] = 0, NEW now \in Nat
  PROVE  /\ AtMost(h, sec, c, u)
         /\ (\A n \in DOMAIN h : u[n] = 0) => Exact(h, now, sec, c, u)
<1>1. FramesAt(h, 0) = {}
  <2>1. ASSUME NEW n \in DOMAIN h PROVE h[n].sec # 0
    BY Bounds, SMT DEF Dated
  <2> QED BY <2>1 DEF FramesAt
<1>2. Weight(u, {}) = 0 /\ 0 <= 0 /\ 0 <= now
  BY WeightOfNone, SMT
<1>3. AtMost(h, sec, c, u)
  BY <1>1, <1>2 DEF AtMost
<1>4. ASSUME \A n \in DOMAIN h : u[n] = 0 PROVE Exact(h, now, sec, c, u)
  <2>1. \A n \in DOMAIN h : ~(u[n] > 0)
    BY <1>4, SMT
  <2> QED BY <1>1, <1>2, <2>1 DEF Exact
<1> QED BY <1>3, <1>4

\* Both counts of a tally, the second of frames that weigh w.
Tally(h, s, u, w) == AtMost(h, Secs(s), Counts(s), u) /\ AtMost(h, Secs(s), WithSignal(s), w)
TallyExact(h, now, s, u, w) ==
  Exact(h, now, Secs(s), Counts(s), u) /\ Exact(h, now, Secs(s), WithSignal(s), w)

\* What the three functions of a tally are.
LEMMA StatsParts ==
  ASSUME NEW s \in Stats
  PROVE  \A i \in Slots : /\ Secs(s)[i] \in Nat /\ Counts(s)[i] \in Nat /\ WithSignal(s)[i] \in Nat
                          /\ Secs(s)[i] = s.buckets[i].sec /\ Counts(s)[i] = s.buckets[i].count
                          /\ WithSignal(s)[i] = s.buckets[i].ssN
BY DEF Stats, Bucket, Secs, Counts, WithSignal

\* A tally that counts a frame stays right,
LEMMA TallyCounts ==
  ASSUME NEW h, Dated(h), NEW g, NEW m, NEW now \in Nat, now >= Window, OneMoreAt(h, g, m, now),
         NEW u, NEW v, NEW d \in Nat, WeighsAs(h, m, u, v, d), NEW signal \in BOOLEAN,
         NEW w, NEW x, WeighsAs(h, m, w, x, IF signal THEN d ELSE 0),
         NEW s \in Stats, Tally(h, s, u, w)
  PROVE  /\ Tally(g, Count(s, now, d, signal), v, x)
         /\ TallyExact(h, now, s, u, w) => TallyExact(g, now, Count(s, now, d, signal), v, x)
<1> DEFINE b == now % Window
           r == Count(s, now, d, signal)
           e == IF signal THEN d ELSE 0
<1>1. b \in Slots
  BY Bounds, SMT DEF Slots
<1>2. r \in Stats /\ e \in Nat
  BY CountType
<1>3. /\ \A i \in Slots : i # b => r.buckets[i] = s.buckets[i]
      /\ r.buckets[b].sec = now
      /\ r.buckets[b].count = (IF s.buckets[b].sec = now THEN s.buckets[b].count ELSE 0) + d
      /\ r.buckets[b].ssN = (IF s.buckets[b].sec = now THEN s.buckets[b].ssN ELSE 0) + e
  <2> DEFINE a == IF s.buckets[b].sec = now THEN s.buckets[b]
                  ELSE [sec |-> now, count |-> 0, ssN |-> 0]
             f == [sec |-> now, count |-> a.count + d, ssN |-> a.ssN + e]
  <2>1. r.buckets = [s.buckets EXCEPT ![b] = f] /\ DOMAIN s.buckets = Slots
    BY DEF Count, Stats
  <2>2. /\ f.sec = now /\ f.count = a.count + d /\ f.ssN = a.ssN + e
        /\ a.count = IF s.buckets[b].sec = now THEN s.buckets[b].count ELSE 0
        /\ a.ssN = IF s.buckets[b].sec = now THEN s.buckets[b].ssN ELSE 0
    OBVIOUS
  <2> HIDE DEF b, r, f, a, e
  <2> QED BY <1>1, <2>1, <2>2
<1> HIDE DEF b, r, e
<1>4. \A i \in Slots : /\ Secs(s)[i] \in Nat /\ Counts(s)[i] \in Nat /\ WithSignal(s)[i] \in Nat
                       /\ Secs(s)[i] = s.buckets[i].sec /\ Counts(s)[i] = s.buckets[i].count
                       /\ WithSignal(s)[i] = s.buckets[i].ssN
  BY StatsParts
<1>5. \A i \in Slots : /\ Secs(r)[i] = r.buckets[i].sec /\ Counts(r)[i] = r.buckets[i].count
                       /\ WithSignal(r)[i] = r.buckets[i].ssN
  BY <1>2, StatsParts
<1> DEFINE sec == Secs(s)
           c == Counts(s)
           z == WithSignal(s)
           sec2 == Secs(r)
           c2 == Counts(r)
           z2 == WithSignal(r)
<1>6. /\ \A i \in Slots : i # b => sec2[i] = sec[i] /\ c2[i] = c[i] /\ z2[i] = z[i]
      /\ sec2[b] = now /\ c2[b] = (IF sec[b] = now THEN c[b] ELSE 0) + d
      /\ z2[b] = (IF sec[b] = now THEN z[b] ELSE 0) + e
  BY <1>1, <1>3, <1>4, <1>5
<1>7. \A i \in Slots : sec[i] \in Nat /\ c[i] \in Nat /\ z[i] \in Nat
  BY <1>4
<1>8. AtMost(h, sec, c, u) /\ AtMost(h, sec, z, w)
  BY DEF Tally
<1>9. WeighsAs(h, m, w, x, e) /\ b = now % Window
  BY DEF e, b
<1> HIDE DEF sec, c, z, sec2, c2, z2
<1>10. AtMost(g, sec2, c2, v) /\ (Exact(h, now, sec, c, u) => Exact(g, now, sec2, c2, v))
  BY <1>1, <1>6, <1>7, <1>8, <1>9, RingCounts
<1>11. AtMost(g, sec2, z2, x) /\ (Exact(h, now, sec, z, w) => Exact(g, now, sec2, z2, x))
  BY <1>1, <1>2, <1>6, <1>7, <1>8, <1>9, RingCounts
<1> QED BY <1>10, <1>11 DEF Tally, TallyExact, sec, c, z, sec2, c2, z2, r

\* so does one that need not,
LEMMA TallyStays ==
  ASSUME NEW h, Dated(h), NEW g, NEW m, NEW now \in Nat, now >= Window, OneMoreAt(h, g, m, now),
         NEW u, NEW v, WeighsAs(h, m, u, v, 0), NEW w, NEW x, WeighsAs(h, m, w, x, 0),
         NEW s \in Stats
  PROVE  /\ Tally(h, s, u, w) => Tally(g, s, v, x)
         /\ TallyExact(h, now, s, u, w) => TallyExact(g, now, s, v, x)
<1>1. \A i \in Slots : Secs(s)[i] \in Nat /\ Counts(s)[i] \in Nat /\ WithSignal(s)[i] \in Nat
  BY StatsParts
<1> DEFINE sec == Secs(s)
           c == Counts(s)
           z == WithSignal(s)
<1> HIDE DEF sec, c, z
<1>2. \A i \in Slots : sec[i] \in Nat /\ c[i] \in Nat /\ z[i] \in Nat
  BY <1>1 DEF sec, c, z
<1>3. /\ AtMost(h, sec, c, u) => AtMost(g, sec, c, v)
      /\ Exact(h, now, sec, c, u) => Exact(g, now, sec, c, v)
  BY <1>2, RingStays
<1>4. /\ AtMost(h, sec, z, w) => AtMost(g, sec, z, x)
      /\ Exact(h, now, sec, z, w) => Exact(g, now, sec, z, x)
  BY <1>2, RingStays
<1> QED BY <1>3, <1>4 DEF Tally, TallyExact, sec, c, z

\* one that is new,
LEMMA TallyStarts ==
  ASSUME NEW h, Dated(h), NEW u, \A n \in DOMAIN h : u[n] \in Nat,
         NEW w, \A n \in DOMAIN h : w[n] \in Nat, NEW now \in Nat
  PROVE  /\ Tally(h, NewStats, u, w)
         /\ (\A n \in DOMAIN h : u[n] = 0 /\ w[n] = 0) => TallyExact(h, now, NewStats, u, w)
<1> DEFINE sec == Secs(NewStats)
           c == Counts(NewStats)
           z == WithSignal(NewStats)
<1>1. \A i \in Slots : sec[i] = 0 /\ c[i] = 0 /\ z[i] = 0
  BY DEF Secs, Counts, WithSignal, NewStats
<1> HIDE DEF sec, c, z
<1>2. /\ AtMost(h, sec, c, u)
      /\ (\A n \in DOMAIN h : u[n] = 0) => Exact(h, now, sec, c, u)
  BY <1>1, RingStarts
<1>3. /\ AtMost(h, sec, z, w)
      /\ (\A n \in DOMAIN h : w[n] = 0) => Exact(h, now, sec, z, w)
  BY <1>1, RingStarts
<1> QED BY <1>2, <1>3 DEF Tally, TallyExact, sec, c, z

\* and one that is seen a second later.
LEMMA TallyLater ==
  ASSUME NEW h, NEW now \in Int, NEW s \in Stats, NEW u, NEW w, TallyExact(h, now, s, u, w)
  PROVE  TallyExact(h, now + 1, s, u, w)
<1>1. \A i \in Slots : Secs(s)[i] <= now => Secs(s)[i] <= now + 1
  <2> SUFFICES ASSUME NEW i \in Slots PROVE Secs(s)[i] <= now => Secs(s)[i] <= now + 1
    OBVIOUS
  <2>1. PICK a \in Nat : a = Secs(s)[i]
    BY StatsParts
  <2>2. a <= now => a <= now + 1
    BY SMT
  <2> QED BY <2>1, <2>2
<1> QED BY <1>1, Zenon DEF TallyExact, Exact

\* What a frame of list h weighs: in the count of a tower or a product, and in that of the
\* frames with a signal.
TowerWeight(h, t) == [n \in DOMAIN h |-> IF h[n].kind.tower = t THEN 1 ELSE 0]
SignalWeight(h, t) == [n \in DOMAIN h |-> IF h[n].kind.tower = t /\ h[n].kind.signal THEN 1 ELSE 0]
ProductWeight(h, p) == [n \in DOMAIN h |-> h[n].kind.products[p]]
NoWeight(h) == [n \in DOMAIN h |-> 0]

\* No tower has had to make room for another.
Few == Cardinality(HeardTowers) <= MaxTowers

FeedInv ==
  /\ clock >= Window /\ Dated(received)
  /\ ~setBack => \A n \in DOMAIN received : received[n].sec <= clock

TowersInv ==
  /\ \A t \in DOMAIN towers :
       Tally(received, towers[t], TowerWeight(received, t), SignalWeight(received, t))
  /\ Few => DOMAIN towers = HeardTowers
  /\ ~setBack /\ Few =>
       \A t \in DOMAIN towers :
         TallyExact(received, clock, towers[t], TowerWeight(received, t), SignalWeight(received, t))

ProductsInv ==
  /\ \A p \in DOMAIN products :
       Tally(received, products[p], ProductWeight(received, p), NoWeight(received))
  /\ \A p \in Products : \A n \in DOMAIN received :
       received[n].kind.products[p] > 0 => p \in DOMAIN products
  /\ ~setBack =>
       \A p \in DOMAIN products :
         TallyExact(received, clock, products[p], ProductWeight(received, p), NoWeight(received))

\* The tallies are those of the list of all frames.
TallyInv == FeedInv /\ TowersInv /\ ProductsInv

\* What the list of frames holds.
LEMMA HeardParts ==
  ASSUME FeedTypes
  PROVE  /\ Len(received) \in Nat /\ DOMAIN received = 1 .. Len(received) /\ IsFiniteSet(DOMAIN received)
         /\ \A n \in DOMAIN received : received[n].sec \in Nat /\ received[n].kind \in Kinds
<1> DEFINE S == [sec : Nat, kind : Kinds]
<1>1. received \in Seq(S)
  BY DEF FeedTypes
<1> HIDE DEF S
<1>2. Len(received) \in Nat /\ DOMAIN received = 1 .. Len(received) /\ \A n \in DOMAIN received : received[n] \in S
  BY <1>1, SMT
<1>3. IsFiniteSet(1 .. Len(received))
  BY <1>2, FS_Interval
<1> QED BY <1>2, <1>3 DEF S

\* Weights are numbers, those of towers and signals 0 or 1.
LEMMA Weights ==
  ASSUME FeedTypes
  PROVE  /\ \A t : \A n \in DOMAIN received : /\ TowerWeight(received, t)[n] \in {0, 1}
                                              /\ TowerWeight(received, t)[n] \in Nat
                                              /\ SignalWeight(received, t)[n] \in {0, 1}
                                              /\ SignalWeight(received, t)[n] \in Nat
         /\ \A p \in Products : \A n \in DOMAIN received : ProductWeight(received, p)[n] \in Nat
         /\ \A n \in DOMAIN received : NoWeight(received)[n] \in Nat /\ NoWeight(received)[n] = 0
<1>1. \A p \in Products : \A n \in DOMAIN received : received[n].kind.products[p] \in Nat
  BY HeardParts, KindParts
<1>2. 0 \in {0, 1} /\ 1 \in {0, 1} /\ 0 \in Nat /\ 1 \in Nat
  OBVIOUS
<1> QED BY <1>1, <1>2, Zenon DEF TowerWeight, SignalWeight, ProductWeight, NoWeight

\* The frame that comes: the list and its weights.
LEMMA HeardGrows ==
  ASSUME FeedTypes, NEW k \in Kinds, received' = Append(received, [sec |-> clock, kind |-> k])
  PROVE  LET m == Len(received) + 1
         IN /\ OneMoreAt(received, received', m, clock)
            /\ received'[m].kind = k /\ \A n \in DOMAIN received : received'[n].kind = received[n].kind
            /\ \A t : /\ WeighsAs(received, m, TowerWeight(received, t), TowerWeight(received', t),
                                  IF t = k.tower THEN 1 ELSE 0)
                      /\ WeighsAs(received, m, SignalWeight(received, t), SignalWeight(received', t),
                                  IF t = k.tower /\ k.signal THEN 1 ELSE 0)
            /\ \A p \in Products :
                 WeighsAs(received, m, ProductWeight(received, p), ProductWeight(received', p), k.products[p])
            /\ WeighsAs(received, m, NoWeight(received), NoWeight(received'), 0)
            /\ HeardTowers' = HeardTowers \union {k.tower}
<1> DEFINE m == Len(received) + 1
           r == [sec |-> clock, kind |-> k]
<1>1. /\ DOMAIN received' = DOMAIN received \union {m} /\ m \notin DOMAIN received
      /\ \A n \in DOMAIN received : received'[n] = received[n]
      /\ received'[m] = r
  <2> DEFINE S == [sec : Nat, kind : Kinds]
  <2>1. received \in Seq(S) /\ r \in S
    BY DEF FeedTypes
  <2> HIDE DEF S, r
  <2>2. Len(received) \in Nat /\ DOMAIN received = 1 .. Len(received)
    BY HeardParts
  <2>3. /\ DOMAIN received' = 1 .. m /\ \A n \in 1 .. Len(received) : received'[n] = received[n]
        /\ received'[m] = r
    BY <2>1, <2>2, SMT DEF r
  <2>4. 1 .. m = (1 .. Len(received)) \union {m} /\ m \notin 1 .. Len(received)
    BY <2>2, SMT
  <2> QED BY <2>2, <2>3, <2>4
<1>2. r.sec = clock /\ r.kind = k
  OBVIOUS
<1> HIDE DEF m, r
<1>3. OneMoreAt(received, received', m, clock)
  BY <1>1, <1>2 DEF OneMoreAt
<1>4. received'[m].kind = k /\ \A n \in DOMAIN received : received'[n].kind = received[n].kind
  BY <1>1, <1>2
<1>5. m \in DOMAIN received' /\ \A n \in DOMAIN received : n \in DOMAIN received'
  BY <1>1
<1>6. ASSUME NEW t
      PROVE  /\ WeighsAs(received, m, TowerWeight(received, t), TowerWeight(received', t),
                         IF t = k.tower THEN 1 ELSE 0)
             /\ WeighsAs(received, m, SignalWeight(received, t), SignalWeight(received', t),
                         IF t = k.tower /\ k.signal THEN 1 ELSE 0)
  <2>1. \A n \in DOMAIN received : /\ TowerWeight(received, t)[n] \in Nat
                                   /\ SignalWeight(received, t)[n] \in Nat
    BY Weights
  <2> QED BY <1>4, <1>5, <2>1, Zenon DEF WeighsAs, TowerWeight, SignalWeight
<1>7. ASSUME NEW p \in Products
      PROVE  WeighsAs(received, m, ProductWeight(received, p), ProductWeight(received', p), k.products[p])
  <2>1. \A n \in DOMAIN received : ProductWeight(received, p)[n] \in Nat
    BY Weights
  <2> QED BY <1>4, <1>5, <2>1, Zenon DEF WeighsAs, ProductWeight
<1>8. WeighsAs(received, m, NoWeight(received), NoWeight(received'), 0)
  <2>1. 0 \in Nat
    OBVIOUS
  <2> QED BY <1>5, <2>1, Zenon DEF WeighsAs, NoWeight
<1>9. HeardTowers' = HeardTowers \union {k.tower}
  BY <1>1, <1>4 DEF HeardTowers
<1> QED BY <1>3, <1>4, <1>6, <1>7, <1>8, <1>9 DEF m

\* Finitely many towers are heard.
LEMMA HeardTowersFinite ==
  ASSUME FeedTypes
  PROVE  IsFiniteSet(HeardTowers) /\ Cardinality(HeardTowers) \in Nat
<1> DEFINE f == [n \in DOMAIN received |-> received[n].kind.tower]
<1>1. f \in Surjection(DOMAIN received, HeardTowers)
  BY Zenon DEF Surjection, HeardTowers
<1> HIDE DEF f
<1> QED BY <1>1, HeardParts, FS_Surjection, FS_CardinalityType

\* While the towers are few, none has to go.
LEMMA FewAdmits ==
  ASSUME FeedTypes, TallyTypes, TowersInv, NEW k \in Kinds,
         received' = Append(received, [sec |-> clock, kind |-> k]), Few',
         NEW kept \in Admitting(k.tower)
  PROVE  Few /\ DOMAIN towers = HeardTowers /\ kept = DOMAIN towers
<1> DEFINE H == HeardTowers
           t == k.tower
<1>1. HeardTowers' = H \union {t}
  BY HeardGrows
<1>2. IsFiniteSet(H) /\ Cardinality(H) \in Nat /\ MaxTowers \in Nat
  BY HeardTowersFinite, Bounds
<1>3. Cardinality(H \union {t}) <= MaxTowers
  BY <1>1 DEF Few
<1> HIDE DEF H, t
<1>4. IsFiniteSet(H \union {t})
      /\ Cardinality(H \union {t}) = IF t \in H THEN Cardinality(H) ELSE Cardinality(H) + 1
  BY <1>2, FS_AddElement
<1>5. Cardinality(H) <= MaxTowers /\ (t \in H \/ Cardinality(H) < MaxTowers)
  BY <1>2, <1>3, <1>4, SMT
<1>6. Few /\ DOMAIN towers = H
  BY <1>5 DEF Few, H, TowersInv
<1>7. kept = DOMAIN towers
  BY <1>5, <1>6 DEF Admitting, t
<1> QED BY <1>6, <1>7 DEF H

\* The frame that comes has the second of the clock.
LEMMA AddKeepsFeed ==
  ASSUME FeedTypes, FeedInv, NEW k \in Kinds, clock' = clock, setBack' = setBack,
         received' = Append(received, [sec |-> clock, kind |-> k])
  PROVE  FeedInv'
<1> DEFINE m == Len(received) + 1
<1>1. OneMoreAt(received, received', m, clock)
  BY HeardGrows
<1> HIDE DEF m
<1>2. clock \in Nat /\ clock >= Window /\ clock <= clock /\ IsFiniteSet(DOMAIN received)
  <2>1. clock \in Nat
    BY DEF FeedTypes
  <2> QED BY <2>1, SMT DEF FeedInv, Dated
<1>3. IsFiniteSet(DOMAIN received')
  <2>1. IsFiniteSet(DOMAIN received \union {m})
    BY <1>2, FS_AddElement
  <2> QED BY <1>1, <2>1 DEF OneMoreAt
<1>4. \A n \in DOMAIN received' : received'[n].sec \in Nat /\ received'[n].sec >= Window
  BY <1>1, <1>2, Zenon DEF OneMoreAt, FeedInv, Dated
<1>5. ~setBack => \A n \in DOMAIN received' : received'[n].sec <= clock
  BY <1>1, <1>2, Zenon DEF OneMoreAt, FeedInv
<1> QED BY <1>2, <1>3, <1>4, <1>5, Zenon DEF FeedInv, Dated

\* The tally of its tower counts it, the others need not; a tower that is new, or has been
\* thrown out, starts again.
LEMMA AddKeepsTowers ==
  ASSUME FeedTypes, TallyTypes, FeedInv, TowersInv, NEW k \in Kinds,
         clock' = clock, setBack' = setBack,
         received' = Append(received, [sec |-> clock, kind |-> k]), AddTower(k)
  PROVE  TowersInv'
<1> DEFINE m == Len(received) + 1
           now == clock
           h == received
           g == received'
<1>1. /\ OneMoreAt(h, g, m, now)
      /\ \A t : /\ WeighsAs(h, m, TowerWeight(h, t), TowerWeight(g, t),
                            IF t = k.tower THEN 1 ELSE 0)
                /\ WeighsAs(h, m, SignalWeight(h, t), SignalWeight(g, t),
                            IF t = k.tower /\ k.signal THEN 1 ELSE 0)
      /\ HeardTowers' = HeardTowers \union {k.tower}
  BY HeardGrows
<1>2. /\ Dated(h) /\ now \in Nat /\ now >= Window /\ k.signal \in BOOLEAN
      /\ 1 \in Nat /\ 0 \in Nat
  BY KindParts DEF FeedInv, FeedTypes
<1>3. PICK kept \in Admitting(k.tower) :
        towers' = [t \in kept \union {k.tower} |->
          LET s == IF t \in DOMAIN towers THEN towers[t] ELSE NewStats
          IN IF t = k.tower THEN Count(s, clock, 1, k.signal) ELSE s]
  BY DEF AddTower
<1>4. kept \subseteq DOMAIN towers /\ DOMAIN towers' = kept \union {k.tower}
  BY <1>3, KindParts, AdmittingBounds
<1> DEFINE old(t) == IF t \in DOMAIN towers THEN towers[t] ELSE NewStats
<1>5. /\ \A t \in DOMAIN towers' : t # k.tower => t \in DOMAIN towers /\ towers'[t] = towers[t]
      /\ towers'[k.tower] = Count(old(k.tower), now, 1, k.signal)
  BY <1>3, <1>4
<1>6. \A t : old(t) \in Stats
  BY NewStatsType DEF TallyTypes
<1>7. \A t : \A n \in DOMAIN h : TowerWeight(h, t)[n] \in Nat /\ SignalWeight(h, t)[n] \in Nat
  BY Weights
<1>8. \A t : Tally(h, old(t), TowerWeight(h, t), SignalWeight(h, t))
  <2> SUFFICES ASSUME NEW t PROVE Tally(h, old(t), TowerWeight(h, t), SignalWeight(h, t))
    OBVIOUS
  <2>1. CASE t \in DOMAIN towers
    BY <2>1 DEF TowersInv
  <2>2. CASE t \notin DOMAIN towers
    <3>1. Tally(h, NewStats, TowerWeight(h, t), SignalWeight(h, t))
      BY <1>2, <1>7, TallyStarts
    <3> QED BY <2>2, <3>1
  <2> QED BY <2>1, <2>2
<1>9. Few' /\ ~setBack => \A t : TallyExact(h, now, old(t), TowerWeight(h, t), SignalWeight(h, t))
  <2> SUFFICES ASSUME Few', ~setBack, NEW t
               PROVE  TallyExact(h, now, old(t), TowerWeight(h, t), SignalWeight(h, t))
    OBVIOUS
  <2>1. Few /\ DOMAIN towers = HeardTowers
    BY FewAdmits, <1>3
  <2>2. CASE t \in DOMAIN towers
    BY <2>1, <2>2 DEF TowersInv
  <2>3. CASE t \notin DOMAIN towers
    <3>1. \A n \in DOMAIN h : h[n].kind.tower # t
      BY <2>1, <2>3 DEF HeardTowers
    <3>2. \A n \in DOMAIN h : TowerWeight(h, t)[n] = 0 /\ SignalWeight(h, t)[n] = 0
      BY <3>1, Zenon DEF TowerWeight, SignalWeight
    <3>3. TallyExact(h, now, NewStats, TowerWeight(h, t), SignalWeight(h, t))
      BY <1>2, <1>7, <3>2, TallyStarts
    <3> QED BY <2>3, <3>3
  <2> QED BY <2>2, <2>3
<1> HIDE DEF old, m, now, h, g
<1>10. ASSUME NEW t \in DOMAIN towers'
       PROVE  /\ Tally(g, towers'[t], TowerWeight(g, t), SignalWeight(g, t))
              /\ Few' /\ ~setBack =>
                   TallyExact(g, now, towers'[t], TowerWeight(g, t), SignalWeight(g, t))
  <2> DEFINE u == TowerWeight(h, t)
             v == TowerWeight(g, t)
             w == SignalWeight(h, t)
             x == SignalWeight(g, t)
             s == old(t)
  <2>1. /\ s \in Stats /\ Tally(h, s, u, w)
        /\ Few' /\ ~setBack => TallyExact(h, now, s, u, w)
    BY <1>6, <1>8, <1>9
  <2>2. CASE t = k.tower
    <3>1. WeighsAs(h, m, u, v, 1) /\ WeighsAs(h, m, w, x, IF k.signal THEN 1 ELSE 0)
      BY <1>1, <2>2
    <3>2. towers'[t] = Count(s, now, 1, k.signal)
      BY <1>5, <2>2
    <3> HIDE DEF u, v, w, x, s
    <3>3. /\ Tally(g, Count(s, now, 1, k.signal), v, x)
          /\ TallyExact(h, now, s, u, w) => TallyExact(g, now, Count(s, now, 1, k.signal), v, x)
      BY <1>1, <1>2, <2>1, <3>1, TallyCounts
    <3> QED BY <2>1, <3>2, <3>3 DEF v, x
  <2>3. CASE t # k.tower
    <3>1. WeighsAs(h, m, u, v, 0) /\ WeighsAs(h, m, w, x, 0)
      BY <1>1, <2>3
    <3>2. towers'[t] = s
      BY <1>5, <2>3 DEF old
    <3> HIDE DEF u, v, w, x, s
    <3>3. /\ Tally(h, s, u, w) => Tally(g, s, v, x)
          /\ TallyExact(h, now, s, u, w) => TallyExact(g, now, s, v, x)
      BY <1>1, <1>2, <2>1, <3>1, TallyStays
    <3> QED BY <2>1, <3>2, <3>3 DEF v, x
  <2> QED BY <2>2, <2>3
<1>11. Few' => DOMAIN towers' = HeardTowers'
  <2>1. Few' => kept = HeardTowers
    BY <1>3, FewAdmits
  <2> QED BY <1>1, <1>4, <2>1
<1> QED BY <1>10, <1>11 DEF TowersInv, g, now

\* So with the products it holds.
LEMMA AddKeepsProducts ==
  ASSUME FeedTypes, TallyTypes, FeedInv, ProductsInv, NEW k \in Kinds,
         clock' = clock, setBack' = setBack,
         received' = Append(received, [sec |-> clock, kind |-> k]), AddProducts(k)
  PROVE  ProductsInv'
<1> DEFINE m == Len(received) + 1
           now == clock
           h == received
           g == received'
<1>1. /\ OneMoreAt(h, g, m, now)
      /\ \A p \in Products : WeighsAs(h, m, ProductWeight(h, p), ProductWeight(g, p), k.products[p])
      /\ WeighsAs(h, m, NoWeight(h), NoWeight(g), 0)
      /\ g[m].kind = k /\ \A n \in DOMAIN h : g[n].kind = h[n].kind
  BY HeardGrows
<1>2. /\ Dated(h) /\ now \in Nat /\ now >= Window /\ FALSE \in BOOLEAN
      /\ \A p \in Products : k.products[p] \in Nat
  BY KindParts DEF FeedInv, FeedTypes
<1> DEFINE D == DOMAIN products \union {q \in Products : k.products[q] > 0}
           old(p) == IF p \in DOMAIN products THEN products[p] ELSE NewStats
<1>3. /\ DOMAIN products' = D /\ D \subseteq Products
      /\ \A p \in D : products'[p] = IF k.products[p] > 0
                                     THEN Count(old(p), now, k.products[p], FALSE) ELSE old(p)
  BY DEF AddProducts, TallyTypes
<1>4. \A p : old(p) \in Stats
  BY NewStatsType DEF TallyTypes
<1>5. \A p \in Products : \A n \in DOMAIN h : ProductWeight(h, p)[n] \in Nat
  BY Weights
<1>6. \A n \in DOMAIN h : NoWeight(h)[n] \in Nat /\ NoWeight(h)[n] = 0
  BY Weights
<1>7. \A p \in Products : Tally(h, old(p), ProductWeight(h, p), NoWeight(h))
  <2> SUFFICES ASSUME NEW p \in Products PROVE Tally(h, old(p), ProductWeight(h, p), NoWeight(h))
    OBVIOUS
  <2>1. CASE p \in DOMAIN products
    BY <2>1 DEF ProductsInv
  <2>2. CASE p \notin DOMAIN products
    <3>1. Tally(h, NewStats, ProductWeight(h, p), NoWeight(h))
      BY <1>2, <1>5, <1>6, TallyStarts
    <3> QED BY <2>2, <3>1
  <2> QED BY <2>1, <2>2
<1>8. ~setBack => \A p \in Products : TallyExact(h, now, old(p), ProductWeight(h, p), NoWeight(h))
  <2> SUFFICES ASSUME ~setBack, NEW p \in Products
               PROVE  TallyExact(h, now, old(p), ProductWeight(h, p), NoWeight(h))
    OBVIOUS
  <2>1. CASE p \in DOMAIN products
    BY <2>1 DEF ProductsInv
  <2>2. CASE p \notin DOMAIN products
    <3>1. \A n \in DOMAIN h : ~(h[n].kind.products[p] > 0)
      BY <2>2 DEF ProductsInv
    <3>2. \A n \in DOMAIN h : ProductWeight(h, p)[n] = h[n].kind.products[p]
      BY DEF ProductWeight
    <3>3. \A n \in DOMAIN h : ProductWeight(h, p)[n] = 0
      BY <1>5, <3>1, <3>2, SMT
    <3>4. TallyExact(h, now, NewStats, ProductWeight(h, p), NoWeight(h))
      BY <1>2, <1>5, <1>6, <3>3, TallyStarts
    <3> QED BY <2>2, <3>4
  <2> QED BY <2>1, <2>2
<1>9. ASSUME NEW p \in Products, NEW n \in DOMAIN g, g[n].kind.products[p] > 0 PROVE p \in D
  <2>1. CASE n = m
    BY <1>1, <1>9, <2>1
  <2>2. CASE n # m
    <3>1. n \in DOMAIN h
      BY <1>1, <2>2 DEF OneMoreAt
    <3> QED BY <1>1, <1>9, <3>1 DEF ProductsInv
  <2> QED BY <2>1, <2>2
<1> HIDE DEF old, m, now, h, g, D
<1>10. ASSUME NEW p \in D
       PROVE  /\ Tally(g, products'[p], ProductWeight(g, p), NoWeight(g))
              /\ ~setBack => TallyExact(g, now, products'[p], ProductWeight(g, p), NoWeight(g))
  <2> DEFINE u == ProductWeight(h, p)
             v == ProductWeight(g, p)
             w == NoWeight(h)
             x == NoWeight(g)
             s == old(p)
             d == k.products[p]
  <2>1. /\ s \in Stats /\ Tally(h, s, u, w) /\ (~setBack => TallyExact(h, now, s, u, w))
        /\ d \in Nat /\ WeighsAs(h, m, u, v, d) /\ WeighsAs(h, m, w, x, 0)
    BY <1>1, <1>2, <1>3, <1>4, <1>7, <1>8
  <2>2. products'[p] = IF d > 0 THEN Count(s, now, d, FALSE) ELSE s
    BY <1>3
  <2> HIDE DEF u, v, w, x, s, d
  <2>3. CASE d > 0
    <3>1. WeighsAs(h, m, w, x, IF FALSE THEN d ELSE 0)
      BY <2>1
    <3>2. /\ Tally(g, Count(s, now, d, FALSE), v, x)
          /\ TallyExact(h, now, s, u, w) => TallyExact(g, now, Count(s, now, d, FALSE), v, x)
      BY <1>1, <1>2, <2>1, <3>1, TallyCounts
    <3> QED BY <2>1, <2>2, <2>3, <3>2 DEF v, x
  <2>4. CASE ~(d > 0)
    <3>1. d = 0
      BY <2>1, <2>4, SMT
    <3>2. /\ Tally(h, s, u, w) => Tally(g, s, v, x)
          /\ TallyExact(h, now, s, u, w) => TallyExact(g, now, s, v, x)
      BY <1>1, <1>2, <2>1, <3>1, TallyStays
    <3> QED BY <2>1, <2>2, <2>4, <3>2 DEF v, x
  <2> QED BY <2>3, <2>4
<1> QED BY <1>3, <1>9, <1>10 DEF ProductsInv, g, now

---------------------------------------------------------------------------
(* Every step keeps text and tallies *)

\* Before the first frame there is nothing to show,
LEMMA InitText == Init => TextInv
<1> SUFFICES ASSUME Init PROVE TextInv
  OBVIOUS
<1>1. received = <<>> /\ textSize = 0 /\ DOMAIN received = {}
  BY SMT DEF Init
<1>2. Lines = {} /\ 1 .. textSize = {}
  BY <1>1, SMT DEF Lines
<1> QED BY <1>2, FS_EmptySet DEF TextInv

\* and nothing to count.
LEMMA InitTally == Init => TallyInv
<1> SUFFICES ASSUME Init PROVE TallyInv
  OBVIOUS
<1>1. /\ DOMAIN received = {} /\ DOMAIN towers = {} /\ DOMAIN products = {}
      /\ clock = Window
  BY SMT DEF Init
<1>2. FeedInv
  <2>1. clock >= Window
    BY <1>1, Bounds, SMT
  <2> QED BY <1>1, <2>1, FS_EmptySet DEF FeedInv, Dated
<1>3. HeardTowers = {}
  BY <1>1 DEF HeardTowers
<1> QED BY <1>1, <1>2, <1>3 DEF TallyInv, TowersInv, ProductsInv

\* What the steps that hear no frame leave alone.
LEMMA OthersLeave ==
  ASSUME Offer \/ BeginTick \/ DrainOne \/ DrainEmpty \/ Pass \/ SetBack \/ UNCHANGED vars
  PROVE  UNCHANGED <<received, towers, products, textRing, textNext, textSize>>
BY Zenon DEF Offer, BeginTick, DrainOne, DrainEmpty, Pass, SetBack, vars, tallies

\* Every step keeps the text,
LEMMA NextKeepsText == IInv /\ TextInv /\ [Next]_vars => TextInv'
<1> SUFFICES ASSUME IInv, TextInv, [Next]_vars PROVE TextInv'
  OBVIOUS
<1>1. ASSUME NEW k \in Kinds, Add(k) PROVE TextInv'
  BY <1>1, AddKeepsText
<1>2. ASSUME UNCHANGED <<received, textRing, textNext, textSize>> PROVE TextInv'
  BY <1>2 DEF TextInv, Lines, ShownText
<1> QED BY <1>1, <1>2, OthersLeave DEF Next

\* a frame keeps the tallies,
LEMMA AddKeepsTally ==
  ASSUME TypeOK, TallyInv, NEW k \in Kinds, Add(k)
  PROVE  TallyInv'
<1>1. /\ received' = Append(received, [sec |-> clock, kind |-> k])
      /\ clock' = clock /\ setBack' = setBack /\ AddTower(k) /\ AddProducts(k)
  BY DEF Add
<1> QED BY <1>1, AddKeepsFeed, AddKeepsTowers, AddKeepsProducts DEF TypeOK, TallyInv

\* The clock: later, every bucket is still right; once it is set back nothing is said of
\* those ahead of it.
LEMMA OthersKeepTally ==
  ASSUME TypeOK, TallyInv, UNCHANGED <<received, towers, products>>,
         clock' \in Nat, clock' >= Window,
         setBack' \/ (setBack' = setBack /\ clock' \in {clock, clock + 1})
  PROVE  TallyInv'
<1>1. clock \in Nat /\ HeardTowers' = HeardTowers
  BY DEF TypeOK, FeedTypes, HeardTowers
<1>2. Few' = Few
  BY <1>1 DEF Few
<1>3. ASSUME ~setBack' PROVE ~setBack /\ (clock' = clock \/ clock' = clock + 1)
  BY <1>3
<1>4. FeedInv'
  <2>1. ASSUME ~setBack', NEW n \in DOMAIN received PROVE received[n].sec <= clock'
    <3>1. PICK a \in Nat : a = received[n].sec /\ a <= clock
      BY <1>3, <2>1, HeardParts DEF TallyInv, FeedInv, TypeOK
    <3>2. a <= clock'
      BY <1>1, <1>3, <2>1, <3>1, SMT
    <3> QED BY <3>1, <3>2
  <2> QED BY <2>1 DEF TallyInv, FeedInv
<1>5. TowersInv'
  <2>1. ASSUME ~setBack', Few, NEW t \in DOMAIN towers
        PROVE  TallyExact(received, clock', towers[t], TowerWeight(received, t), SignalWeight(received, t))
    <3>1. TallyExact(received, clock, towers[t], TowerWeight(received, t), SignalWeight(received, t))
      BY <1>3, <2>1 DEF TallyInv, TowersInv
    <3>2. towers[t] \in Stats /\ clock \in Int
      BY <1>1 DEF TypeOK, TallyTypes
    <3>3. TallyExact(received, clock + 1, towers[t], TowerWeight(received, t), SignalWeight(received, t))
      BY <3>1, <3>2, TallyLater
    <3> QED BY <1>3, <2>1, <3>1, <3>3
  <2> QED BY <1>1, <1>2, <2>1 DEF TallyInv, TowersInv
<1>6. ProductsInv'
  <2>1. ASSUME ~setBack', NEW p \in DOMAIN products
        PROVE  TallyExact(received, clock', products[p], ProductWeight(received, p), NoWeight(received))
    <3>1. TallyExact(received, clock, products[p], ProductWeight(received, p), NoWeight(received))
      BY <1>3, <2>1 DEF TallyInv, ProductsInv
    <3>2. products[p] \in Stats /\ clock \in Int
      BY <1>1 DEF TypeOK, TallyTypes
    <3>3. TallyExact(received, clock + 1, products[p], ProductWeight(received, p), NoWeight(received))
      BY <3>1, <3>2, TallyLater
    <3> QED BY <1>3, <2>1, <3>1, <3>3
  <2> QED BY <2>1 DEF TallyInv, ProductsInv
<1> QED BY <1>4, <1>5, <1>6 DEF TallyInv

\* and so does every step.
LEMMA NextKeepsTally == IInv /\ TallyInv /\ [Next]_vars => TallyInv'
<1> SUFFICES ASSUME IInv, TallyInv, [Next]_vars PROVE TallyInv'
  OBVIOUS
<1>1. TypeOK /\ clock \in Nat /\ Window \in Nat /\ clock >= Window
  BY Bounds DEF IInv, TypeOK, FeedTypes, TallyInv, FeedInv
<1>2. ASSUME NEW k \in Kinds, Add(k) PROVE TallyInv'
  BY <1>1, <1>2, AddKeepsTally
<1>3. CASE Offer \/ BeginTick \/ DrainOne \/ DrainEmpty \/ UNCHANGED vars
  <2>1. clock' = clock /\ setBack' = setBack
    BY <1>3, Zenon DEF Offer, BeginTick, DrainOne, DrainEmpty, vars
  <2> QED BY <1>1, <1>3, <2>1, OthersLeave, OthersKeepTally
<1>4. CASE Pass
  <2>1. clock' = clock + 1 /\ setBack' = setBack
    BY <1>4 DEF Pass
  <2>2. clock' \in Nat /\ clock' >= Window
    BY <1>1, <2>1, SMT
  <2> QED BY <1>1, <1>4, <2>1, <2>2, OthersLeave, OthersKeepTally
<1>5. CASE SetBack
  <2>1. setBack' /\ clock' \in Window .. clock - 1
    BY <1>5 DEF SetBack
  <2>2. clock' \in Nat /\ clock' >= Window
    BY <1>1, <2>1, SMT
  <2> QED BY <1>1, <1>5, <2>1, <2>2, OthersLeave, OthersKeepTally
<1> QED BY <1>2, <1>3, <1>4, <1>5 DEF Next

\* A ring counts from a second on; nothing is ahead of a clock that was never set back.
LEMMA SinceIs ==
  ASSUME Dated(received), NEW now \in Int
  PROVE  /\ FramesSince(received, now) = Minute(now) \union Ahead(now)
         /\ (\A n \in DOMAIN received : received[n].sec <= now) =>
              FramesSince(received, now) = Minute(now)
<1>1. Window \in Nat /\ \A n \in DOMAIN received : received[n].sec \in Int
  BY Bounds DEF Dated
<1>2. \A n \in DOMAIN received :
        received[n].sec >= now - (Window - 1) <=>
          received[n].sec \in now - (Window - 1) .. now \/ received[n].sec > now
  BY <1>1, SMT
<1>3. \A n \in DOMAIN received :
        received[n].sec <= now =>
          (received[n].sec >= now - (Window - 1) <=> received[n].sec \in now - (Window - 1) .. now)
  BY <1>1, SMT
<1> QED BY <1>2, <1>3, Zenon DEF FramesSince, Minute, Ahead

\* What follows for a snapshot.
LEMMA TowerShows ==
  ASSUME TypeOK, TallyInv, NEW t \in DOMAIN towers, NEW now \in Int, now >= Window - 1
  PROVE  /\ LastMinute(towers[t], now) <= TowerFrames(t, FramesSince(received, now))
         /\ TallyExact(received, now, towers[t], TowerWeight(received, t), SignalWeight(received, t)) =>
              /\ LastMinute(towers[t], now) = TowerFrames(t, FramesSince(received, now))
              /\ Signals(towers[t], now) = TowerSignals(t, FramesSince(received, now))
<1> DEFINE s == towers[t]
           u == TowerWeight(received, t)
           w == SignalWeight(received, t)
           sec == Secs(s)
           c == Counts(s)
           z == WithSignal(s)
           R == {i \in Slots : sec[i] >= now - (Window - 1)}
           F == FramesSince(received, now)
<1>1. s \in Stats /\ Dated(received) /\ FeedTypes
  BY DEF TypeOK, TallyTypes, TallyInv, FeedInv
<1>2. \A i \in Slots : sec[i] \in Nat /\ c[i] \in Nat /\ z[i] \in Nat /\ sec[i] = s.buckets[i].sec
  BY <1>1, StatsParts
<1>3. \A n \in DOMAIN received : /\ u[n] \in Nat /\ w[n] \in Nat /\ u[n] \in {0, 1} /\ w[n] \in {0, 1}
                                 /\ u[n] = 1 <=> received[n].kind.tower = t
                                 /\ w[n] = 1 <=> received[n].kind.tower = t /\ received[n].kind.signal
  BY <1>1, Weights DEF TowerWeight, SignalWeight
<1>4. AtMost(received, sec, c, u) /\ AtMost(received, sec, z, w)
  BY DEF TallyInv, TowersInv, Tally
<1>5. Recent(s, now) = R /\ R \subseteq Slots
  BY <1>2 DEF Recent
<1>6. LastMinute(s, now) = Weight(c, R) /\ Signals(s, now) = Weight(z, R)
  <2>1. R \in SUBSET Slots
    OBVIOUS
  <2> HIDE DEF R, s
  <2> QED BY <1>1, <1>5, <2>1, CountsSum, SignalsSum DEF LastMinute, Signals
<1>7. F = FramesSince(received, now) /\ IsFiniteSet(F) /\ F \subseteq DOMAIN received
  BY <1>1, FS_Subset DEF FramesSince, Dated
<1>8. Weight(u, F) = TowerFrames(t, FramesSince(received, now)) /\ Weight(w, F) = TowerSignals(t, FramesSince(received, now))
  <2>1. {n \in F : u[n] = 1} = F \intersect OfTower(t)
    BY <1>3, <1>7 DEF OfTower
  <2>2. {n \in F : w[n] = 1} = {n \in F \intersect OfTower(t) : received[n].kind.signal}
    BY <1>3, <1>7 DEF OfTower
  <2> HIDE DEF u, w, F
  <2>3. /\ Weight(u, F) = Cardinality({n \in F : u[n] = 1})
        /\ Weight(w, F) = Cardinality({n \in F : w[n] = 1})
    BY <1>3, <1>7, WeightOfOnes
  <2> QED BY <1>7, <2>1, <2>2, <2>3 DEF TowerFrames, TowerSignals
<1> HIDE DEF s, u, w, sec, c, z
<1>9. /\ Weight(c, R) <= Weight(u, F)
      /\ Exact(received, now, sec, c, u) => Weight(c, R) = Weight(u, F)
  BY <1>1, <1>2, <1>3, <1>4, RingSum
<1>10. Exact(received, now, sec, z, w) => Weight(z, R) = Weight(w, F)
  BY <1>1, <1>2, <1>3, <1>4, RingSum
<1> QED BY <1>6, <1>8, <1>9, <1>10 DEF TallyExact, s, u, w, sec, c, z

\* The same for a product.
LEMMA ProductShows ==
  ASSUME TypeOK, TallyInv, NEW p \in DOMAIN products, NEW now \in Int, now >= Window - 1
  PROVE  /\ LastMinute(products[p], now) <= ProductFrames(p, FramesSince(received, now))
         /\ TallyExact(received, now, products[p], ProductWeight(received, p), NoWeight(received)) =>
              LastMinute(products[p], now) = ProductFrames(p, FramesSince(received, now))
<1> DEFINE s == products[p]
           u == ProductWeight(received, p)
           sec == Secs(s)
           c == Counts(s)
           R == {i \in Slots : sec[i] >= now - (Window - 1)}
           F == FramesSince(received, now)
<1>1. s \in Stats /\ Dated(received) /\ FeedTypes /\ p \in Products
  BY DEF TypeOK, TallyTypes, TallyInv, FeedInv
<1>2. \A i \in Slots : sec[i] \in Nat /\ c[i] \in Nat /\ sec[i] = s.buckets[i].sec
  BY <1>1, StatsParts
<1>3. \A n \in DOMAIN received : u[n] \in Nat
  BY <1>1, Weights
<1>4. AtMost(received, sec, c, u)
  BY DEF TallyInv, ProductsInv, Tally
<1>5. Recent(s, now) = R /\ R \subseteq Slots
  BY <1>2 DEF Recent
<1>6. LastMinute(s, now) = Weight(c, R)
  <2>1. R \in SUBSET Slots
    OBVIOUS
  <2> HIDE DEF R, s
  <2> QED BY <1>1, <1>5, <2>1, CountsSum DEF LastMinute
<1>7. F = FramesSince(received, now) /\ F \in SUBSET DOMAIN received
  BY DEF FramesSince
<1>8. Weight(u, F) = ProductFrames(p, FramesSince(received, now))
  <2> HIDE DEF F
  <2> QED BY <1>1, <1>7, ProductsSum DEF ProductFrames, ProductWeight
<1> HIDE DEF s, u, sec, c
<1>9. /\ Weight(c, R) <= Weight(u, F)
      /\ Exact(received, now, sec, c, u) => Weight(c, R) = Weight(u, F)
  BY <1>1, <1>2, <1>3, <1>4, RingSum
<1> QED BY <1>6, <1>8, <1>9 DEF TallyExact, s, u, sec, c

\* So the invariant says what it should.
LEMMA TallyFollows ==
  ASSUME TypeOK, TallyInv
  PROVE  TallyOfMinute
<1>1. clock \in Int /\ clock - 1 \in Int /\ clock >= Window - 1 /\ clock - 1 >= Window - 1
  <2>1. clock \in Nat /\ Window \in Nat /\ clock >= Window
    BY Bounds DEF TypeOK, FeedTypes, TallyInv, FeedInv
  <2> QED BY <2>1, SMT
<1>2. Dated(received)
  BY DEF TallyInv, FeedInv
<1>3. ~setBack => FramesSince(received, clock) = Minute(clock)
  BY <1>1, <1>2, SinceIs DEF TallyInv, FeedInv
<1>4. ASSUME NEW now \in {clock - 1, clock}, NEW from, from = Minute(now) \union Ahead(now)
      PROVE  /\ \A t \in DOMAIN towers : LastMinute(towers[t], now) <= TowerFrames(t, from)
             /\ \A p \in DOMAIN products : LastMinute(products[p], now) <= ProductFrames(p, from)
  <2>1. now \in Int /\ now >= Window - 1
    BY <1>1
  <2>2. from = FramesSince(received, now)
    BY <1>2, <1>4, <2>1, SinceIs
  <2> QED BY <2>1, <2>2, TowerShows, ProductShows
<1>5. ASSUME ~setBack, NEW p \in DOMAIN products
      PROVE  LastMinute(products[p], clock) = ProductFrames(p, Minute(clock))
  BY <1>1, <1>3, <1>5, ProductShows DEF TallyInv, ProductsInv
<1>6. ASSUME ~setBack, Few
      PROVE  /\ DOMAIN towers = HeardTowers
             /\ \A t \in HeardTowers :
                  /\ LastMinute(towers[t], clock) = TowerFrames(t, Minute(clock))
                  /\ Signals(towers[t], clock) = TowerSignals(t, Minute(clock))
  <2>1. DOMAIN towers = HeardTowers
    BY <1>6 DEF TallyInv, TowersInv
  <2>2. ASSUME NEW t \in HeardTowers
        PROVE  /\ LastMinute(towers[t], clock) = TowerFrames(t, Minute(clock))
               /\ Signals(towers[t], clock) = TowerSignals(t, Minute(clock))
    BY <1>1, <1>3, <1>6, <2>1, TowerShows DEF TallyInv, TowersInv
  <2> QED BY <2>1, <2>2
<1> QED BY <1>4, <1>5, <1>6, Zenon DEF TallyOfMinute, Few

---------------------------------------------------------------------------
(* The theorems *)

\* The inductive invariant holds in every state.
THEOREM Invariant == Spec => []IInv
BY InitIInv, NextKeepsIInv, PTL DEF Spec

\* Every variable keeps its type, and no more than MaxTowers towers are kept
\* (uat978/aggregate.go 121-132).
THEOREM TypeCorrect == Spec => []TypeOK
BY Invariant, PTL DEF IInv

\* Frames are relayed in order and none twice; all of them, with the next tick, while no
\* more come than a tick takes; and none waits longer than a full queue takes to empty
\* (live_runtime.go 458-478, 601-625).
THEOREM RelaysInTime == Spec => []RelayInTime
BY Invariant, RelayFollows, PTL

\* The Weather page shows the lines that came last, the newest first and none left out: the
\* ring never shows a line that another has overwritten (uat978/aggregate.go 169-184, 290-300).
THEOREM TextIsNewest == Spec => []TextNewestFirst
<1>1. IInv /\ TextInv => TextNewestFirst
  BY TextFollows DEF IInv
<1> QED BY <1>1, InitIInv, InitText, NextKeepsIInv, NextKeepsText, PTL DEF Spec

\* What a snapshot shows of the last minute is what the list of all frames says, for any
\* number of buckets and any frames, on a clock that was never set back; on one that was,
\* it never exceeds the frames of the minute and those stamped ahead of the clock
\* (uat978/aggregate.go 141-167, 194-214, 249-262).
THEOREM TalliesAreRight == Spec => []TallyOfMinute
<1>1. IInv /\ TallyInv => TallyOfMinute
  BY TallyFollows DEF IInv
<1> QED BY <1>1, InitIInv, InitTally, NextKeepsIInv, NextKeepsTally, PTL DEF Spec
=============================================================================
