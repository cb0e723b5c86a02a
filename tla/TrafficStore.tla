---------------------------- MODULE TrafficStore ----------------------------
(***************************************************************************)
(* internal/traffic.Store, the map of aircraft that two decoder goroutines *)
(* (1090 MHz and 978 MHz) fill and the main loop's tick reads and prunes.  *)
(* Each of the three reads the clock first and takes the store's lock      *)
(* afterwards, so stamps reach the map late and out of order.              *)
(*                                                                         *)
(* Time is relative: a stamp, and the seenAt of a target, are kept as      *)
(* their age, and TimePasses makes them one unit older. Ages stop at       *)
(* Oldest, beyond which nothing changes any more. Fields stands for the    *)
(* values that a message may leave out (tail, speed, track, vertical       *)
(* speed, altitude, on-ground, squawk); the position itself is abstracted  *)
(* to whether the target has one.                                          *)
(***************************************************************************)
EXTENDS Integers, FiniteSets

CONSTANTS
  Aircraft,    \* ICAO addresses
  Feeds,       \* the goroutines that call Apply
  MetaFeeds,   \* the feeds that also deliver messages without a position
  Tick,        \* the main loop
  Fields, Values,
  Guess,       \* what each feed's parser puts where a message is silent
  Zero,        \* Go's zero value of a field
  NoTarget, NoStamp, Unsaid,
  MaxTargets,  \* StoreConfig.MaxTargets
  TTL,         \* StoreConfig.TTL
  Lag          \* bound: age of a stamp when the lock is taken

ASSUME SetsAssumption ==
  /\ MetaFeeds \subseteq Feeds /\ Tick \notin Feeds
  /\ Zero \in Values /\ Guess \in [Feeds -> Values]
  /\ Unsaid \notin Values
  /\ NoTarget \notin [age: Nat, hasPosition: BOOLEAN, fields: [Fields -> Values]]
  /\ IsFiniteSet(Aircraft)

ASSUME TimesAssumption ==
  /\ MaxTargets \in Nat \ {0} /\ TTL \in Nat \ {0} /\ Lag \in Nat
  /\ NoStamp \notin 0..Lag

VARIABLES
  targets,  \* Store.targets; a missing key is NoTarget
  stamp,    \* the age of the `now` each goroutine carries to the lock
  heard,    \* history: time since Apply last ran for each aircraft
  placed,   \* history: time since it last sent a position, or came into the map
  said      \* history: what each aircraft last said since it is in the map

storeVars == <<targets, stamp, heard, placed, said>>

Oldest == TTL + Lag + 1
Goroutines == Feeds \cup {Tick}

Target == [age: 0..Oldest, hasPosition: BOOLEAN, fields: [Fields -> Values]]

Tracked == {a \in Aircraft : targets[a] # NoTarget}

\* What Snapshot and trafficReportsFromSnapshots leave of the map.
Reported == {a \in Tracked : targets[a].hasPosition}

\* An update carries no position, the position (0,0) that stands for none, or
\* a position, and some of the fields.
Positions == {"none", "null", "fix"}
Told == UNION {[D -> Values] : D \in SUBSET Fields}
NoFields == {told \in Told : DOMAIN told = {}}

---------------------------------------------------------------------------
(* The target that Apply builds *)

\* What is told, over what was there before.
Over(told, before) ==
  [f \in Fields |-> IF f \in DOMAIN told THEN told[f] ELSE before[f]]

\* What a new target starts with.
Fresh(unknown) == [f \in Fields |-> unknown]

\* Variant: a position frame overwrites what the target had.
MergeForgetting(a, told, unknown) == Over(told, Fresh(unknown))

\* carryForwardMetadata and applyMetadata: fields the update gives win, then
\* the target's own, then what a new target starts with.
Merge(a, told, unknown) ==
  Over(told, IF targets[a] # NoTarget THEN targets[a].fields ELSE Fresh(unknown))

\* Variant: an update of a target that is there leaves its seenAt alone.
SeenAtFirst(a, age, pos) == IF targets[a] # NoTarget THEN targets[a].age ELSE age

\* Position and metadata alike set seenAt.
Seen(a, age, pos) == age

\* Metadata alone keeps the position the target has.
HasPosition(a, pos) ==
  \/ pos = "fix"
  \/ pos = "none" /\ targets[a] # NoTarget /\ targets[a].hasPosition

Updated(a, age, pos, told, guess) ==
  [age |-> Seen(a, age, pos),
   hasPosition |-> HasPosition(a, pos),
   fields |-> Merge(a, told, IF pos = "none" THEN Zero ELSE guess)]

---------------------------------------------------------------------------
(* evictIfNeededLocked *)

\* Variant: one target too many is kept.
AllowedPlusOne == MaxTargets + 1

Allowed == MaxTargets

Present(m) == {a \in Aircraft : m[a] # NoTarget}

\* The sort by seenAt leaves the order of equal ones open, so any choice of
\* the stalest targets may go, the one just updated included.
Evictions(m) ==
  IF Cardinality(Present(m)) <= Allowed THEN {{}}
  ELSE {E \in SUBSET Present(m) :
          /\ Cardinality(Present(m) \ E) = Allowed
          /\ \A e \in E, k \in Present(m) \ E : m[e].age >= m[k].age}

Without(m, gone) == [a \in Aircraft |-> IF a \in gone THEN NoTarget ELSE m[a]]

---------------------------------------------------------------------------

\* What was said by an aircraft that is no longer in the map does not count.
Nothing == [f \in Fields |-> Unsaid]
Remembered(s) == [a \in Aircraft |-> IF targets'[a] = NoTarget THEN Nothing ELSE s[a]]

\* A goroutine reads the clock.
TakeStamp(g) ==
  /\ stamp[g] = NoStamp
  /\ stamp' = [stamp EXCEPT ![g] = 0]
  /\ UNCHANGED <<targets, heard, placed, said>>

\* Store.Apply. Only an update with a position makes room afterwards.
Apply(g, a, pos, told) ==
  LET updated == [targets EXCEPT ![a] = Updated(a, stamp[g], pos, told, Guess[g])]
  IN
  /\ stamp[g] # NoStamp
  /\ pos = "none" => g \in MetaFeeds /\ told \notin NoFields
  /\ \E gone \in IF pos = "none" THEN {{}} ELSE Evictions(updated) :
       targets' = Without(updated, gone)
  /\ stamp' = [stamp EXCEPT ![g] = NoStamp]
  /\ heard' = [heard EXCEPT ![a] = 0]
  /\ placed' = [placed EXCEPT ![a] = IF pos = "none" /\ a \in Tracked THEN @ ELSE 0]
  /\ said' = Remembered([said EXCEPT ![a] = Over(told, said[a])])

\* Variant: the comparison with the cutoff is the wrong way round.
NeverExpired == {}

\* The targets seen before now - TTL, where now is the tick's own stamp.
Expired == {a \in Tracked : targets[a].age > TTL + stamp[Tick]}

\* Store.SnapshotDetailed: prune, then copy.
Snapshot ==
  /\ stamp[Tick] # NoStamp
  /\ targets' = Without(targets, Expired)
  /\ stamp' = [stamp EXCEPT ![Tick] = NoStamp]
  /\ said' = Remembered(said)
  /\ UNCHANGED <<heard, placed>>

Older(age) == IF age < Oldest THEN age + 1 ELSE Oldest

TimePasses ==
  /\ \A g \in Goroutines : stamp[g] # NoStamp => stamp[g] < Lag
  /\ stamp' = [g \in Goroutines |-> IF stamp[g] = NoStamp THEN NoStamp ELSE stamp[g] + 1]
  /\ targets' = [a \in Aircraft |->
                   IF targets[a] = NoTarget THEN NoTarget
                   ELSE [targets[a] EXCEPT !.age = Older(@)]]
  /\ heard' = [a \in Aircraft |-> Older(heard[a])]
  /\ placed' = [a \in Aircraft |-> Older(placed[a])]
  /\ UNCHANGED said

StoreInit ==
  /\ targets = [a \in Aircraft |-> NoTarget]
  /\ stamp = [g \in Goroutines |-> NoStamp]
  /\ heard = [a \in Aircraft |-> Oldest] /\ placed = [a \in Aircraft |-> Oldest]
  /\ said = [a \in Aircraft |-> Nothing]

Receive(g) == \E a \in Aircraft, pos \in Positions, told \in Told : Apply(g, a, pos, told)

StoreNext ==
  \/ \E g \in Goroutines : TakeStamp(g)
  \/ \E g \in Feeds : Receive(g)
  \/ Snapshot
  \/ TimePasses

StoreSpec == StoreInit /\ [][StoreNext]_storeVars

---------------------------------------------------------------------------
(* What is checked *)

StoreTypeOK ==
  /\ targets \in [Aircraft -> Target \cup {NoTarget}]
  /\ stamp \in [Goroutines -> 0..Lag \cup {NoStamp}]
  /\ heard \in [Aircraft -> 0..Oldest] /\ placed \in [Aircraft -> 0..Oldest]
  /\ said \in [Aircraft -> [Fields -> Values \cup {Unsaid}]]

\* The number of traffic reports in a tick never exceeds MaxTargets, although
\* the map itself may: targets known from metadata alone are only evicted by
\* the next frame with a position (store.go 183-185).
PositionedBounded == Cardinality(Reported) <= MaxTargets

\* seenAt may go back when a stamp arrives late, but a target never looks fresher
\* than what was last heard of it, nor, by more than the lag of a stamp, older than
\* its last position, or its first message if it never sent one. Which of the two
\* it should follow is asked by TTLFromPosition, not here.
AgeBounded ==
  \A a \in Tracked : heard[a] <= targets[a].age /\ targets[a].age <= placed[a] + Lag

\* Whatever mixture of messages with and without positions two bands deliver,
\* each field shows the last value the aircraft sent for it; a parser's guess
\* never replaces it (store.go 149-172, 233-277).
LastKnownKept ==
  \A a \in Tracked, f \in Fields :
    said[a][f] # Unsaid => targets[a].fields[f] = said[a][f]

\* dev.md 79: the store "applies a **30 s TTL** that only refreshes when a new
\* position-bearing frame arrives". So no target is in a report whose last position
\* is older than the TTL, by more than the lag of a stamp, when the report is made.
TTLFromPosition ==
  [][Snapshot => \A a \in Reported' : placed[a] <= TTL + Lag]_storeVars

\* The store implements the picture it promises: no aircraft is dropped whose
\* position is younger than TTL - Lag unless the map was full, and then the
\* stalest ones first; and no aircraft is in a report that was silent for more
\* than TTL + Lag, whenever a report is made (store.go 63-89, 279-304).
Picture == INSTANCE TrafficPicture WITH
  Slack <- Lag,
  known <- Tracked,
  located <- Reported,
  silence <- heard,
  since <- placed,
  due <- stamp[Tick] # NoStamp

ImplementsPicture == Picture!Spec
=============================================================================
