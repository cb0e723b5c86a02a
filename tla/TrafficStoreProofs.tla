-------------------------- MODULE TrafficStoreProofs --------------------------
(***************************************************************************)
(* Theorems about TrafficStore, for any set of aircraft and feeds, any     *)
(* MaxTargets, TTL and lag: the invariants of the store, and that it       *)
(* implements TrafficPicture.                                              *)
(***************************************************************************)
EXTENDS TrafficStore, FiniteSetTheorems, TLAPS

\* What was said by an aircraft the map does not have is forgotten.
SaidOfTracked == \A a \in Aircraft : targets[a] = NoTarget => said[a] = Nothing

\* What the code does: seenAt follows every message, up to the lag of a stamp.
AgeFollows ==
  \A a \in Tracked : heard[a] <= targets[a].age /\ targets[a].age <= heard[a] + Lag

\* Every message with a position is one that was heard.
HeardSince == \A a \in Aircraft : heard[a] <= placed[a]

IInv ==
  /\ StoreTypeOK
  /\ HeardSince
  /\ SaidOfTracked
  /\ AgeFollows
  /\ LastKnownKept
  /\ PositionedBounded

---------------------------------------------------------------------------
(* The helpers *)

\* Ages and stamps fit, and no target is the missing one.
LEMMA TargetFacts ==
  /\ Oldest \in Nat /\ Lag <= Oldest /\ 0 \in 0..Oldest
  /\ NoTarget \notin Target
<1>1. Target \subseteq [age: Nat, hasPosition: BOOLEAN, fields: [Fields -> Values]]
  BY TimesAssumption DEF Target, Oldest
<1>. QED BY <1>1, SetsAssumption, TimesAssumption DEF Oldest

LEMMA OverTyped ==
  ASSUME NEW V, NEW told \in Told, NEW before \in [Fields -> V], Values \subseteq V
  PROVE  Over(told, before) \in [Fields -> V]
<1>1. PICK D \in SUBSET Fields : told \in [D -> Values]
  BY DEF Told
<1>. QED BY <1>1 DEF Over

LEMMA FreshTyped ==
  ASSUME NEW v \in Values
  PROVE  Fresh(v) \in [Fields -> Values]
BY DEF Fresh

\* The target that Apply builds is one, whatever the update left out.
LEMMA UpdatedTyped ==
  ASSUME StoreTypeOK, NEW g \in Feeds, NEW a \in Aircraft, NEW pos \in Positions,
         NEW told \in Told, stamp[g] # NoStamp
  PROVE  /\ Updated(a, stamp[g], pos, told, Guess[g]) \in Target
         /\ Updated(a, stamp[g], pos, told, Guess[g]).age = stamp[g]
         /\ stamp[g] \in 0..Lag
<1> DEFINE u == IF pos = "none" THEN Zero ELSE Guess[g]
<1>1. stamp[g] \in 0..Lag
  BY DEF StoreTypeOK, Goroutines
<1>2. u \in Values
  BY SetsAssumption
<1>3. targets[a] # NoTarget => targets[a] \in Target
  BY DEF StoreTypeOK
<1>4. Merge(a, told, u) \in [Fields -> Values]
  <2>1. (IF targets[a] # NoTarget THEN targets[a].fields ELSE Fresh(u)) \in [Fields -> Values]
    BY <1>2, <1>3, FreshTyped DEF Target
  <2>. QED BY <2>1, OverTyped DEF Merge
<1>5. HasPosition(a, pos) \in BOOLEAN
  BY <1>3 DEF HasPosition, Target
<1>6. Seen(a, stamp[g], pos) = stamp[g] /\ stamp[g] \in 0..Oldest
  BY <1>1, TargetFacts, TimesAssumption DEF Seen
<1>. QED BY <1>1, <1>4, <1>5, <1>6 DEF Updated, Target

\* evictIfNeededLocked removes targets and changes none.
LEMMA WithoutTyped ==
  ASSUME NEW m \in [Aircraft -> Target \cup {NoTarget}], NEW gone
  PROVE  /\ Without(m, gone) \in [Aircraft -> Target \cup {NoTarget}]
         /\ \A a \in Aircraft : Without(m, gone)[a] \in {m[a], NoTarget}
BY DEF Without

---------------------------------------------------------------------------
(* What each action does to the map, in terms that the invariants need *)

\* The effect of Apply once it has built the target t and gone has left.
ApplyEffect(g, a, pos, told, t, gone) ==
  /\ t = Updated(a, stamp[g], pos, told, Guess[g])
  /\ t.age = stamp[g] /\ stamp[g] \in 0..Lag
  /\ targets' = Without([targets EXCEPT ![a] = t], gone)
  /\ gone \in IF pos = "none" THEN {{}} ELSE Evictions([targets EXCEPT ![a] = t])
  /\ stamp' = [stamp EXCEPT ![g] = NoStamp]
  /\ heard' = [heard EXCEPT ![a] = 0]
  /\ placed' = [placed EXCEPT ![a] = IF pos = "none" /\ a \in Tracked THEN @ ELSE 0]
  /\ said' = Remembered([said EXCEPT ![a] = Over(told, said[a])])

LEMMA ApplyUnfolded ==
  ASSUME StoreTypeOK, NEW g \in Feeds, NEW a \in Aircraft, NEW pos \in Positions,
         NEW told \in Told, Apply(g, a, pos, told)
  PROVE  \E t \in Target, gone \in SUBSET Aircraft : ApplyEffect(g, a, pos, told, t, gone)
<1> DEFINE t == Updated(a, stamp[g], pos, told, Guess[g])
           m == [targets EXCEPT ![a] = t]
<1>1. t \in Target /\ t.age = stamp[g] /\ stamp[g] \in 0..Lag
  BY UpdatedTyped DEF Apply
<1>2. PICK gone \in IF pos = "none" THEN {{}} ELSE Evictions(m) : targets' = Without(m, gone)
  BY DEF Apply
<1>3. gone \in SUBSET Aircraft
  BY <1>2 DEF Evictions, Present
<1>4. /\ stamp' = [stamp EXCEPT ![g] = NoStamp]
      /\ heard' = [heard EXCEPT ![a] = 0]
      /\ placed' = [placed EXCEPT ![a] = IF pos = "none" /\ a \in Tracked THEN @ ELSE 0]
      /\ said' = Remembered([said EXCEPT ![a] = Over(told, said[a])])
  BY DEF Apply
<1> HIDE DEF t
<1>5. t = Updated(a, stamp[g], pos, told, Guess[g])
  BY DEF t
<1>. QED BY <1>1, <1>2, <1>3, <1>4, <1>5 DEF ApplyEffect

\* What Remembered does to one aircraft.
LEMMA RememberedTyped ==
  ASSUME NEW s \in [Aircraft -> [Fields -> Values \cup {Unsaid}]]
  PROVE  /\ Remembered(s) \in [Aircraft -> [Fields -> Values \cup {Unsaid}]]
         /\ \A a \in Aircraft : targets'[a] = NoTarget => Remembered(s)[a] = Nothing
         /\ \A a \in Aircraft : targets'[a] # NoTarget => Remembered(s)[a] = s[a]
BY DEF Remembered, Nothing

LEMMA ApplyTypeOK ==
  ASSUME StoreTypeOK, NEW g \in Feeds, NEW a \in Aircraft, NEW pos \in Positions,
         NEW told \in Told, Apply(g, a, pos, told)
  PROVE  StoreTypeOK'
<1>1. PICK t \in Target, gone \in SUBSET Aircraft : ApplyEffect(g, a, pos, told, t, gone)
  BY ApplyUnfolded
<1>2. targets' \in [Aircraft -> Target \cup {NoTarget}]
  BY <1>1, WithoutTyped DEF StoreTypeOK, ApplyEffect
<1>3. stamp' \in [Goroutines -> 0..Lag \cup {NoStamp}] /\ heard' \in [Aircraft -> 0..Oldest]
      /\ placed' \in [Aircraft -> 0..Oldest]
  BY <1>1, TargetFacts DEF StoreTypeOK, ApplyEffect
<1>4. Over(told, said[a]) \in [Fields -> Values \cup {Unsaid}]
  BY OverTyped DEF StoreTypeOK
<1>5. said' \in [Aircraft -> [Fields -> Values \cup {Unsaid}]]
  BY <1>1, <1>4, RememberedTyped DEF StoreTypeOK, ApplyEffect
<1>. QED BY <1>2, <1>3, <1>5 DEF StoreTypeOK

LEMMA SnapshotTypeOK ==
  ASSUME StoreTypeOK, Snapshot
  PROVE  StoreTypeOK'
<1>1. targets' \in [Aircraft -> Target \cup {NoTarget}]
  BY WithoutTyped DEF StoreTypeOK, Snapshot
<1>2. said' \in [Aircraft -> [Fields -> Values \cup {Unsaid}]]
  BY RememberedTyped DEF StoreTypeOK, Snapshot
<1>. QED BY <1>1, <1>2 DEF StoreTypeOK, Snapshot

LEMMA OlderTyped ==
  ASSUME NEW n \in 0..Oldest
  PROVE  Older(n) \in 0..Oldest /\ Older(n) = IF n < Oldest THEN n + 1 ELSE Oldest
BY TargetFacts DEF Older

\* A target that has become older is the same target otherwise.
LEMMA AgedTyped ==
  ASSUME NEW t \in Target
  PROVE  LET u == [t EXCEPT !.age = Older(@)] IN
           /\ u \in Target /\ u.age = Older(t.age)
           /\ u.hasPosition = t.hasPosition /\ u.fields = t.fields
BY OlderTyped DEF Target

\* What TimePasses does to one aircraft.
LEMMA TimePassesEffect ==
  ASSUME StoreTypeOK, TimePasses, NEW a \in Aircraft
  PROVE  /\ targets[a] = NoTarget => targets'[a] = NoTarget
         /\ targets[a] # NoTarget =>
              /\ targets[a] \in Target /\ targets'[a] \in Target
              /\ targets'[a] # NoTarget
              /\ targets'[a].age = Older(targets[a].age)
              /\ targets'[a].hasPosition = targets[a].hasPosition
              /\ targets'[a].fields = targets[a].fields
         /\ heard'[a] = Older(heard[a]) /\ placed'[a] = Older(placed[a])
         /\ heard[a] \in 0..Oldest /\ placed[a] \in 0..Oldest
<1>1. targets[a] # NoTarget => targets[a] \in Target
  BY DEF StoreTypeOK
<1>2. targets'[a] = IF targets[a] = NoTarget THEN NoTarget
                    ELSE [targets[a] EXCEPT !.age = Older(@)]
  BY DEF TimePasses
<1>3. heard'[a] = Older(heard[a]) /\ heard[a] \in 0..Oldest
      /\ placed'[a] = Older(placed[a]) /\ placed[a] \in 0..Oldest
  BY DEF TimePasses, StoreTypeOK
<1>. QED BY <1>1, <1>2, <1>3, AgedTyped, TargetFacts

LEMMA TimePassesTypeOK ==
  ASSUME StoreTypeOK, TimePasses
  PROVE  StoreTypeOK'
<1>1. targets' \in [Aircraft -> Target \cup {NoTarget}]
  <2>1. targets' = [a \in Aircraft |-> targets'[a]]
    BY DEF TimePasses
  <2>2. \A a \in Aircraft : targets'[a] \in Target \cup {NoTarget}
    BY TimePassesEffect
  <2>. QED BY <2>1, <2>2
<1>2. stamp' \in [Goroutines -> 0..Lag \cup {NoStamp}]
  BY TimesAssumption DEF StoreTypeOK, TimePasses
<1>3. heard' \in [Aircraft -> 0..Oldest] /\ placed' \in [Aircraft -> 0..Oldest]
  BY OlderTyped DEF StoreTypeOK, TimePasses
<1>. QED BY <1>1, <1>2, <1>3 DEF StoreTypeOK, TimePasses

---------------------------------------------------------------------------
(* The invariants, one by one *)

\* What Apply leaves of an aircraft: the one it updated, unless it made room
\* at once, and the others as they were or gone.
LEMMA ApplyOne ==
  ASSUME StoreTypeOK, NEW g \in Feeds, NEW a \in Aircraft, NEW pos \in Positions,
         NEW told \in Told, NEW t \in Target, NEW gone \in SUBSET Aircraft,
         ApplyEffect(g, a, pos, told, t, gone), NEW b \in Aircraft
  PROVE  /\ targets'[b] # NoTarget => targets'[b] = IF b = a THEN t ELSE targets[b]
         /\ heard'[b] = IF b = a THEN 0 ELSE heard[b]
         /\ placed'[b] \in {0, placed[b]} /\ (b # a => placed'[b] = placed[b])
<1>1. targets'[b] = IF b \in gone THEN NoTarget ELSE IF b = a THEN t ELSE targets[b]
  BY DEF ApplyEffect, Without, StoreTypeOK
<1>. QED BY <1>1 DEF ApplyEffect, StoreTypeOK

LEMMA ApplySaid ==
  ASSUME StoreTypeOK, SaidOfTracked, LastKnownKept,
         NEW g \in Feeds, NEW a \in Aircraft, NEW pos \in Positions,
         NEW told \in Told, Apply(g, a, pos, told)
  PROVE  SaidOfTracked' /\ LastKnownKept'
<1>1. PICK t \in Target, gone \in SUBSET Aircraft : ApplyEffect(g, a, pos, told, t, gone)
  BY ApplyUnfolded
<1> DEFINE s == [said EXCEPT ![a] = Over(told, said[a])]
<1>2. s \in [Aircraft -> [Fields -> Values \cup {Unsaid}]] /\ said' = Remembered(s)
  BY <1>1, OverTyped DEF StoreTypeOK, ApplyEffect
<1>3. SaidOfTracked'
  BY <1>2, RememberedTyped DEF SaidOfTracked, Nothing
<1>4. ASSUME NEW b \in Aircraft, targets'[b] # NoTarget, NEW f \in Fields, said'[b][f] # Unsaid
      PROVE  targets'[b].fields[f] = said'[b][f]
  <2>1. said'[b] = IF b = a THEN Over(told, said[a]) ELSE said[b]
    <3>1. s[b] = IF b = a THEN Over(told, said[a]) ELSE said[b]
      BY DEF StoreTypeOK
    <3> HIDE DEF s
    <3>2. said'[b] = s[b]
      BY <1>2, <1>4, RememberedTyped
    <3>. QED BY <3>1, <3>2
  <2>2. targets'[b] = IF b = a THEN t ELSE targets[b]
    BY <1>1, <1>4, ApplyOne
  <2>3. CASE b # a
    BY <1>4, <2>1, <2>2, <2>3 DEF LastKnownKept, Tracked
  <2>4. CASE b = a
    <3> DEFINE u == IF pos = "none" THEN Zero ELSE Guess[g]
               old == IF targets[a] # NoTarget THEN targets[a].fields ELSE Fresh(u)
    <3>1. t.fields = Over(told, old)
      BY <1>1 DEF ApplyEffect, Updated, Merge
    <3>2. said'[b][f] = (IF f \in DOMAIN told THEN told[f] ELSE said[a][f])
          /\ t.fields[f] = (IF f \in DOMAIN told THEN told[f] ELSE old[f])
      BY <2>1, <2>4, <3>1 DEF Over
    <3>3. f \notin DOMAIN told => targets[a] # NoTarget /\ targets[a].fields[f] = said[a][f]
      BY <1>4, <2>4, <3>2 DEF SaidOfTracked, Nothing, LastKnownKept, Tracked
    <3>. QED BY <2>2, <2>4, <3>2, <3>3
  <2>. QED BY <2>3, <2>4
<1>. QED BY <1>3, <1>4 DEF LastKnownKept, Tracked

LEMMA ApplyAge ==
  ASSUME StoreTypeOK, AgeFollows,
         NEW g \in Feeds, NEW a \in Aircraft, NEW pos \in Positions,
         NEW told \in Told, Apply(g, a, pos, told)
  PROVE  AgeFollows'
<1>1. PICK t \in Target, gone \in SUBSET Aircraft : ApplyEffect(g, a, pos, told, t, gone)
  BY ApplyUnfolded
<1>2. t.age \in 0..Lag /\ Lag \in Nat
  BY <1>1, TimesAssumption DEF ApplyEffect
<1>3. ASSUME NEW b \in Aircraft, targets'[b] # NoTarget
      PROVE  heard'[b] <= targets'[b].age /\ targets'[b].age <= heard'[b] + Lag
  <2>1. CASE b = a
    BY <1>1, <1>2, <1>3, <2>1, ApplyOne
  <2>2. CASE b # a
    BY <1>1, <1>3, <2>2, ApplyOne DEF AgeFollows, Tracked
  <2>. QED BY <2>1, <2>2
<1>. QED BY <1>3 DEF AgeFollows, Tracked

LEMMA ApplyHeard ==
  ASSUME StoreTypeOK, HeardSince,
         NEW g \in Feeds, NEW a \in Aircraft, NEW pos \in Positions,
         NEW told \in Told, Apply(g, a, pos, told)
  PROVE  HeardSince'
<1>1. ASSUME NEW b \in Aircraft PROVE heard'[b] <= placed'[b]
  <2>1. /\ heard'[b] = IF b = a THEN 0 ELSE heard[b]
        /\ placed'[b] \in {0, placed[b]} /\ (b # a => placed'[b] = placed[b])
    BY ApplyUnfolded, ApplyOne
  <2>2. heard[b] \in Nat /\ placed[b] \in Nat /\ heard[b] <= placed[b]
    BY TargetFacts DEF StoreTypeOK, HeardSince
  <2>. QED BY <2>1, <2>2
<1>. QED BY <1>1 DEF HeardSince

\* A smaller set of reports is bounded too.
LEMMA FewerReported ==
  ASSUME PositionedBounded, Reported' \subseteq Reported
  PROVE  PositionedBounded'
<1>1. Reported \in SUBSET Aircraft
  BY DEF Reported, Tracked
<1>2. IsFiniteSet(Reported)
  BY <1>1, SetsAssumption, FS_Subset
<1>3. Cardinality(Reported') <= Cardinality(Reported)
  BY <1>2, FS_Subset
<1>4. Cardinality(Reported') \in Nat /\ Cardinality(Reported) \in Nat
  BY <1>2, FS_Subset, FS_CardinalityType
<1>. QED BY <1>3, <1>4, TimesAssumption DEF PositionedBounded

\* A frame with a position leaves at most MaxTargets targets of any kind.
LEMMA RoomIsMade ==
  ASSUME NEW m, NEW gone \in Evictions(m)
  PROVE  /\ IsFiniteSet(Present(m) \ gone)
         /\ Cardinality(Present(m) \ gone) \in Nat
         /\ Cardinality(Present(m) \ gone) <= MaxTargets
<1>1. IsFiniteSet(Present(m))
  BY SetsAssumption, FS_Subset DEF Present
<1>2. IsFiniteSet(Present(m) \ gone)
  BY <1>1, FS_Difference
<1>3. CASE Cardinality(Present(m)) <= MaxTargets
  <2>1. Present(m) \ gone = Present(m)
    BY <1>3 DEF Evictions, Allowed
  <2>. QED BY <1>2, <1>3, <2>1, FS_CardinalityType
<1>4. CASE ~(Cardinality(Present(m)) <= MaxTargets)
  <2>1. Cardinality(Present(m) \ gone) = MaxTargets
    BY <1>4 DEF Evictions, Allowed
  <2>. QED BY <1>2, <2>1, TimesAssumption
<1>. QED BY <1>2, <1>3, <1>4

LEMMA ApplyBounded ==
  ASSUME StoreTypeOK, PositionedBounded,
         NEW g \in Feeds, NEW a \in Aircraft, NEW pos \in Positions,
         NEW told \in Told, Apply(g, a, pos, told)
  PROVE  PositionedBounded'
<1>1. PICK t \in Target, gone \in SUBSET Aircraft : ApplyEffect(g, a, pos, told, t, gone)
  BY ApplyUnfolded
<1>2. CASE pos = "none"
  <2>1. t.hasPosition = (targets[a] # NoTarget /\ targets[a].hasPosition)
    BY <1>1, <1>2 DEF ApplyEffect, Updated, HasPosition
  <2>2. ASSUME NEW b \in Aircraft, targets'[b] # NoTarget, targets'[b].hasPosition
        PROVE  targets[b] # NoTarget /\ targets[b].hasPosition
    <3>1. targets'[b] = IF b = a THEN t ELSE targets[b]
      BY <1>1, <2>2, ApplyOne
    <3>2. CASE b = a
      <4>1. t.hasPosition
        BY <2>2, <3>1, <3>2
      <4>. QED BY <2>1, <3>2, <4>1
    <3>3. CASE b # a
      BY <2>2, <3>1, <3>3
    <3>. QED BY <3>2, <3>3
  <2>3. Reported' \subseteq Reported
    BY <2>2 DEF Reported, Tracked
  <2>. QED BY <2>3, FewerReported
<1>3. CASE pos # "none"
  <2> DEFINE m == [targets EXCEPT ![a] = t]
  <2>1. gone \in Evictions(m) /\ targets' = Without(m, gone)
    BY <1>1, <1>3 DEF ApplyEffect
  <2>2. Reported' \in SUBSET (Present(m) \ gone)
    BY <2>1 DEF Reported, Tracked, Present, Without
  <2> HIDE DEF m
  <2>3. IsFiniteSet(Present(m) \ gone) /\ Cardinality(Present(m) \ gone) \in Nat
        /\ Cardinality(Present(m) \ gone) <= MaxTargets
    BY <2>1, RoomIsMade
  <2>4. IsFiniteSet(Reported') /\ Cardinality(Reported') <= Cardinality(Present(m) \ gone)
    BY <2>2, <2>3, FS_Subset
  <2>5. Cardinality(Reported') \in Nat
    BY <2>4, FS_CardinalityType
  <2>. QED BY <2>3, <2>4, <2>5, TimesAssumption DEF PositionedBounded
<1>. QED BY <1>2, <1>3

\* The tick only removes targets.
LEMMA SnapshotIInv ==
  ASSUME IInv, Snapshot
  PROVE  IInv'
<1>1. StoreTypeOK'
  BY SnapshotTypeOK DEF IInv
<1>2. \A b \in Aircraft : /\ targets'[b] \in {targets[b], NoTarget}
                          /\ heard'[b] = heard[b] /\ placed'[b] = placed[b]
  BY DEF Snapshot, Without, IInv, StoreTypeOK
<1>3. \A b \in Aircraft : /\ targets'[b] = NoTarget => said'[b] = Nothing
                          /\ targets'[b] # NoTarget => said'[b] = said[b]
  BY RememberedTyped DEF Snapshot, IInv, StoreTypeOK
<1>4. SaidOfTracked' /\ LastKnownKept'
  BY <1>2, <1>3 DEF SaidOfTracked, Nothing, LastKnownKept, Tracked, IInv
<1>5. AgeFollows' /\ HeardSince'
  BY <1>2 DEF AgeFollows, HeardSince, Tracked, IInv
<1>6. Reported' \subseteq Reported
  BY <1>2 DEF Reported, Tracked
<1>. QED BY <1>1, <1>4, <1>5, <1>6, FewerReported DEF IInv

LEMMA TimePassesIInv ==
  ASSUME IInv, TimePasses
  PROVE  IInv'
<1>1. StoreTypeOK /\ StoreTypeOK' /\ said' = said
  BY TimePassesTypeOK DEF IInv, TimePasses
<1>2. SaidOfTracked' /\ LastKnownKept'
  BY <1>1, TimePassesEffect DEF SaidOfTracked, LastKnownKept, Tracked, IInv, Nothing
<1>3. ASSUME NEW a \in Aircraft, targets'[a] # NoTarget
      PROVE  heard'[a] <= targets'[a].age /\ targets'[a].age <= heard'[a] + Lag
  <2>1. targets[a] # NoTarget /\ targets[a].age \in 0..Oldest
    BY <1>1, <1>3, TimePassesEffect DEF Target
  <2>2. heard[a] <= targets[a].age /\ targets[a].age <= heard[a] + Lag
    BY <2>1 DEF IInv, AgeFollows, Tracked
  <2>3. heard'[a] = Older(heard[a]) /\ targets'[a].age = Older(targets[a].age)
        /\ heard[a] \in 0..Oldest
    BY <1>1, <2>1, TimePassesEffect
  <2>. QED BY <2>1, <2>2, <2>3, OlderTyped, TargetFacts, TimesAssumption
<1>4. Reported' \subseteq Reported
  BY <1>1, TimePassesEffect DEF Reported, Tracked
<1>5. ASSUME NEW a \in Aircraft PROVE heard'[a] <= placed'[a]
  <2>1. /\ heard'[a] = Older(heard[a]) /\ placed'[a] = Older(placed[a])
        /\ heard[a] \in 0..Oldest /\ placed[a] \in 0..Oldest /\ heard[a] <= placed[a]
    BY <1>1, TimePassesEffect DEF IInv, HeardSince
  <2>. QED BY <2>1, OlderTyped, TargetFacts
<1>. QED BY <1>1, <1>2, <1>3, <1>4, <1>5, FewerReported DEF IInv, AgeFollows, HeardSince, Tracked

LEMMA TakeStampIInv ==
  ASSUME IInv, NEW g \in Goroutines, TakeStamp(g)
  PROVE  IInv'
<1>1. StoreTypeOK'
  BY TimesAssumption DEF TakeStamp, IInv, StoreTypeOK
<1>. QED BY <1>1 DEF TakeStamp, IInv, SaidOfTracked, Nothing, AgeFollows, HeardSince,
                     LastKnownKept, PositionedBounded, Reported, Tracked

LEMMA ApplyIInv ==
  ASSUME IInv, NEW g \in Feeds, NEW a \in Aircraft, NEW pos \in Positions,
         NEW told \in Told, Apply(g, a, pos, told)
  PROVE  IInv'
BY ApplyTypeOK, ApplySaid, ApplyAge, ApplyHeard, ApplyBounded DEF IInv

LEMMA InitIInv == StoreInit => IInv
<1>. SUFFICES ASSUME StoreInit PROVE IInv
  OBVIOUS
<1>1. StoreTypeOK
  BY TargetFacts DEF StoreInit, StoreTypeOK, Nothing
<1>2. Tracked = {} /\ Reported = {}
  BY DEF StoreInit, Tracked, Reported
<1>3. PositionedBounded
  BY <1>2, FS_EmptySet, TimesAssumption DEF PositionedBounded
<1>4. SaidOfTracked
  BY DEF StoreInit, SaidOfTracked
<1>5. HeardSince
  BY TargetFacts DEF StoreInit, HeardSince
<1>. QED BY <1>1, <1>2, <1>3, <1>4, <1>5 DEF IInv, AgeFollows, LastKnownKept

LEMMA NextIInv == IInv /\ [StoreNext]_storeVars => IInv'
<1>. SUFFICES ASSUME IInv, [StoreNext]_storeVars PROVE IInv'
  OBVIOUS
<1>1. CASE \E g \in Goroutines : TakeStamp(g)
  BY <1>1, TakeStampIInv
<1>2. CASE \E g \in Feeds : Receive(g)
  BY <1>2, ApplyIInv DEF Receive
<1>3. CASE Snapshot
  BY <1>3, SnapshotIInv
<1>4. CASE TimePasses
  BY <1>4, TimePassesIInv
<1>5. CASE UNCHANGED storeVars
  BY <1>5 DEF storeVars, IInv, StoreTypeOK, SaidOfTracked, Nothing, AgeFollows, HeardSince,
              LastKnownKept, PositionedBounded, Reported, Tracked
<1>. QED BY <1>1, <1>2, <1>3, <1>4, <1>5 DEF StoreNext

---------------------------------------------------------------------------
(* The theorems *)

\* The inductive invariant holds throughout every behaviour.
THEOREM Invariant == StoreSpec => []IInv
BY InitIInv, NextIInv, PTL DEF StoreSpec

\* A target is complete whatever the updates left out, and the map never
\* holds the age of a stamp that was not taken.
THEOREM TypeCorrect == StoreSpec => []StoreTypeOK
<1>1. IInv => StoreTypeOK
  BY DEF IInv
<1>. QED BY <1>1, Invariant, PTL

\* A tick reports at most MaxTargets aircraft, whichever order frames with
\* and without positions come in.
THEOREM ReportsBounded == StoreSpec => []PositionedBounded
<1>1. IInv => PositionedBounded
  BY DEF IInv
<1>. QED BY <1>1, Invariant, PTL

\* By more than the time a goroutine waits for the lock, no target looks fresher than what was
\* last heard of it, nor older than its last position.
THEOREM AgesAreBounded == StoreSpec => []AgeBounded
<1>1. ASSUME IInv, NEW a \in Tracked
      PROVE  heard[a] <= targets[a].age /\ targets[a].age <= placed[a] + Lag
  <2>1. a \in Aircraft /\ targets[a] \in Target
    BY <1>1 DEF Tracked, IInv, StoreTypeOK
  <2>2. targets[a].age \in Int /\ heard[a] \in Int /\ placed[a] \in Int /\ Lag \in Int
    BY <1>1, <2>1, TargetFacts, TimesAssumption DEF Target, IInv, StoreTypeOK
  <2>3. heard[a] <= targets[a].age /\ targets[a].age <= heard[a] + Lag /\ heard[a] <= placed[a]
    BY <1>1, <2>1 DEF IInv, AgeFollows, HeardSince
  <2>. QED BY <2>2, <2>3
<1>2. IInv => AgeBounded
  BY <1>1 DEF AgeBounded
<1>. QED BY <1>2, Invariant, PTL

\* Each field shows the last value the aircraft sent, on either band.
THEOREM LastKnownIsKept == StoreSpec => []LastKnownKept
<1>1. IInv => LastKnownKept
  BY DEF IInv
<1>. QED BY <1>1, Invariant, PTL

---------------------------------------------------------------------------
(* The store implements TrafficPicture *)

\* An aircraft in the map that Apply has not pruned yet is as old as it was
\* silent, up to the lag.
LEMMA AgesBeforeEviction ==
  ASSUME IInv, NEW g \in Feeds, NEW a \in Aircraft, NEW pos \in Positions,
         NEW told \in Told, NEW t \in Target, NEW gone \in SUBSET Aircraft,
         ApplyEffect(g, a, pos, told, t, gone),
         NEW b \in Present([targets EXCEPT ![a] = t])
  PROVE  LET age == [targets EXCEPT ![a] = t][b].age IN
           /\ b \in Aircraft /\ age \in Nat /\ heard'[b] \in Nat
           /\ heard'[b] <= age /\ age <= heard'[b] + Lag
<1>1. b \in Aircraft /\ [targets EXCEPT ![a] = t][b] = IF b = a THEN t ELSE targets[b]
  BY DEF Present, IInv, StoreTypeOK
<1>2. heard'[b] = IF b = a THEN 0 ELSE heard[b]
  BY <1>1, ApplyOne DEF IInv
<1>3. CASE b = a
  BY <1>1, <1>2, <1>3, TimesAssumption DEF ApplyEffect
<1>4. CASE b # a
  <2>1. targets[b] # NoTarget /\ targets[b] \in Target
    BY <1>1, <1>4 DEF Present, IInv, StoreTypeOK
  <2>2. targets[b].age \in 0..Oldest /\ heard[b] \in 0..Oldest
    BY <1>1, <2>1 DEF Target, IInv, StoreTypeOK
  <2>3. heard[b] <= targets[b].age /\ targets[b].age <= heard[b] + Lag
    BY <1>1, <2>1 DEF IInv, AgeFollows, Tracked
  <2>. QED BY <1>1, <1>2, <1>4, <2>2, <2>3
<1>. QED BY <1>3, <1>4

LEMMA ApplyHears ==
  ASSUME IInv, NEW g \in Feeds, NEW a \in Aircraft, NEW pos \in Positions,
         NEW told \in Told, Apply(g, a, pos, told)
  PROVE  Picture!Hear(a, pos)
<1>1. PICK t \in Target, gone \in SUBSET Aircraft : ApplyEffect(g, a, pos, told, t, gone)
  BY ApplyUnfolded DEF IInv
<1> DEFINE m == [targets EXCEPT ![a] = t]
           among == Tracked \cup {a}
<1>2. Present(m) = among
  BY TargetFacts DEF Present, Tracked, IInv, StoreTypeOK
<1>3. gone \subseteq Present(m)
  BY <1>1 DEF ApplyEffect, Evictions
<1>4. Tracked' = among \ gone
  <2>1. \A b \in Aircraft : targets'[b] # NoTarget <=> b \in Present(m) /\ b \notin gone
    BY <1>1 DEF ApplyEffect, Without, Present
  <2>. QED BY <1>2, <2>1 DEF Tracked
<1>5. among \ Tracked' = gone
  BY <1>2, <1>3, <1>4
<1>6. gone # {} => pos # "none" /\ Cardinality(among \ gone) = MaxTargets
  <2>1. ASSUME gone # {}
        PROVE  pos # "none" /\ gone \in Evictions(m)
    BY <1>1, <2>1 DEF ApplyEffect
  <2> HIDE DEF m
  <2>. QED BY <1>2, <2>1 DEF Evictions, Allowed
<1>7. \A d \in gone, k \in among \ gone : placed'[d] + Lag >= heard'[k]
  <2>. SUFFICES ASSUME NEW d \in gone, NEW k \in among \ gone
                PROVE  placed'[d] + Lag >= heard'[k]
    OBVIOUS
  <2>1. gone \in Evictions(m)
    BY <1>1 DEF ApplyEffect
  <2>2. d \in Present(m) /\ k \in Present(m) \ gone
    BY <1>2, <1>3
  <2>3. m[d].age >= m[k].age
    <3> HIDE DEF m
    <3>. QED BY <2>1, <2>2 DEF Evictions
  <2>4. /\ m[d].age \in Nat /\ heard'[d] \in Nat /\ m[d].age <= heard'[d] + Lag
        /\ m[k].age \in Nat /\ heard'[k] \in Nat /\ heard'[k] <= m[k].age
    BY <1>1, <2>2, AgesBeforeEviction
  <2>5. placed'[d] \in Nat /\ heard'[d] <= placed'[d]
    <3>1. d \in Aircraft
      BY <2>2 DEF Present
    <3>. QED BY <3>1, ApplyHeard, ApplyTypeOK DEF IInv, StoreTypeOK, HeardSince
  <2> HIDE DEF m
  <2>. QED BY <2>3, <2>4, <2>5, TimesAssumption
<1>8. Reported' = Picture!Shown(a, pos) \ gone
  <2>1. \A b \in Tracked' : b \in Aircraft /\ targets'[b] = IF b = a THEN t ELSE targets[b]
    BY <1>1, ApplyOne DEF Tracked, IInv
  <2>2. t.hasPosition = HasPosition(a, pos)
    BY <1>1 DEF ApplyEffect, Updated
  <2>3. \A b \in Tracked' : b \in Reported' <=> IF b = a THEN HasPosition(a, pos)
                                                       ELSE b \in Reported
    <3>. SUFFICES ASSUME NEW b \in Tracked'
                  PROVE  b \in Reported' <=> IF b = a THEN HasPosition(a, pos)
                                                      ELSE b \in Reported
      OBVIOUS
    <3>1. b \in Reported' <=> targets'[b].hasPosition
      BY DEF Reported
    <3>2. CASE b = a
      BY <2>1, <2>2, <3>1, <3>2
    <3>3. CASE b # a
      <4>1. b \in Tracked
        BY <1>4, <3>3
      <4>2. b \in Reported <=> targets[b].hasPosition
        BY <4>1 DEF Reported
      <4>3. targets'[b] = targets[b]
        BY <2>1, <3>3
      <4>. QED BY <3>1, <3>3, <4>2, <4>3
    <3>. QED BY <3>2, <3>3
  <2>4. Reported \subseteq Tracked /\ Reported' \subseteq Tracked'
    BY DEF Reported
  <2>5. a \in Reported <=> targets[a] # NoTarget /\ targets[a].hasPosition
    BY DEF Reported, Tracked
  <2>6. Reported' = {b \in among \ gone : IF b = a THEN HasPosition(a, pos) ELSE b \in Reported}
    BY <1>4, <2>3, <2>4
  <2>7. CASE pos = "none"
    <3>1. HasPosition(a, pos) <=> a \in Reported
      BY <2>5, <2>7 DEF HasPosition
    <3>. QED BY <2>4, <2>6, <2>7, <3>1 DEF Picture!Shown
  <2>8. CASE pos = "null"
    <3>1. ~HasPosition(a, pos)
      BY <2>8 DEF HasPosition
    <3>. QED BY <2>4, <2>6, <2>8, <3>1 DEF Picture!Shown
  <2>9. CASE pos = "fix"
    <3>1. HasPosition(a, pos)
      BY <2>9 DEF HasPosition
    <3>. QED BY <2>4, <2>6, <2>9, <3>1 DEF Picture!Shown
  <2>. QED BY <2>7, <2>8, <2>9 DEF Positions
<1>9. /\ heard' = [heard EXCEPT ![a] = 0] /\ stamp'[Tick] = stamp[Tick]
      /\ placed' = [placed EXCEPT ![a] = IF pos = "none" /\ a \in Tracked THEN @ ELSE 0]
  BY <1>1, SetsAssumption DEF ApplyEffect, IInv, StoreTypeOK, Goroutines
<1>10. Picture!Cardinality(among \ gone) = Cardinality(among \ gone)
  BY Zenon DEF Picture!Cardinality, Cardinality
<1>11. Picture!MakesRoom(gone, among, heard', placed')
  <2>1. gone \subseteq among
    BY <1>2, <1>3
  <2> HIDE DEF m, among
  <2>. QED BY <1>6, <1>7, <1>10, <2>1 DEF Picture!MakesRoom
<1>12. among \ gone \subseteq among /\ among = Tracked \cup {a}
  OBVIOUS
<1> HIDE DEF m, among
<1>. QED BY <1>4, <1>5, <1>6, <1>8, <1>9, <1>11, <1>12 DEF Picture!Hear

\* The tick forgets what fell silent, allowing for its own stamp's age.
LEMMA SnapshotReports ==
  ASSUME IInv, Snapshot
  PROVE  Picture!Report
<1>1. \A b \in Tracked : /\ b \in Aircraft
                         /\ targets[b].age \in Nat /\ heard[b] \in Nat
                         /\ placed[b] \in Nat /\ heard[b] <= placed[b]
                         /\ heard[b] <= targets[b].age /\ targets[b].age <= heard[b] + Lag
  BY TargetFacts DEF IInv, StoreTypeOK, Target, AgeFollows, HeardSince, Tracked
<1>2. stamp[Tick] \in 0..Lag /\ stamp[Tick] # NoStamp /\ stamp'[Tick] = NoStamp
  BY DEF Snapshot, IInv, StoreTypeOK, Goroutines
<1>3. Tracked' = Tracked \ Expired
  BY DEF Snapshot, Without, Tracked
<1>4. \A b \in Tracked' : targets'[b] = targets[b]
  BY DEF Snapshot, Without, Tracked
<1>5. Reported' = Reported \ Expired
  BY <1>3, <1>4 DEF Reported
<1>6. Expired \subseteq Tracked /\ Reported \subseteq Tracked
  BY DEF Expired, Reported
<1>7. \A b \in Tracked \ Tracked' : placed[b] + Lag > TTL
  BY <1>1, <1>2, <1>3, TimesAssumption DEF Expired
<1>8. \A b \in Tracked' : heard[b] <= TTL + Lag
  BY <1>1, <1>2, <1>3, TimesAssumption DEF Expired
<1>9. Tracked \ Tracked' = Expired /\ Tracked' \subseteq Tracked
  BY <1>3, <1>6
<1>10. heard' = heard /\ placed' = placed
  BY DEF Snapshot
<1>. QED BY <1>2, <1>5, <1>7, <1>8, <1>9, <1>10 DEF Picture!Report

LEMMA TimePassesSilence ==
  ASSUME IInv, TimePasses
  PROVE  Picture!Silence
<1>1. /\ heard' = [a \in Aircraft |-> IF heard[a] < Oldest THEN heard[a] + 1 ELSE Oldest]
      /\ placed' = [a \in Aircraft |-> IF placed[a] < Oldest THEN placed[a] + 1 ELSE Oldest]
  BY DEF TimePasses, Older
<1>2. Tracked' = Tracked
  BY TimePassesEffect DEF IInv, Tracked
<1>3. Reported' = Reported
  BY <1>2, TimePassesEffect DEF IInv, Reported, Tracked
<1>4. (stamp[Tick] # NoStamp)' = (stamp[Tick] # NoStamp)
  <2>1. stamp'[Tick] = IF stamp[Tick] = NoStamp THEN NoStamp ELSE stamp[Tick] + 1
    BY DEF TimePasses, Goroutines
  <2>2. stamp[Tick] # NoStamp => stamp[Tick] + 1 \in 0..Lag
    BY TimesAssumption DEF TimePasses, Goroutines, IInv, StoreTypeOK
  <2>. QED BY <2>1, <2>2, TimesAssumption
<1>5. Picture!Longest = Oldest
  BY DEF Picture!Longest, Oldest
<1>. QED BY <1>1, <1>2, <1>3, <1>4, <1>5 DEF Picture!Silence, Picture!Later

LEMMA TakeStampDue ==
  ASSUME IInv, NEW g \in Goroutines, TakeStamp(g)
  PROVE  Picture!BecomesDue \/ UNCHANGED Picture!vars
<1>1. Tracked' = Tracked /\ Reported' = Reported /\ heard' = heard /\ placed' = placed
  BY DEF TakeStamp, Tracked, Reported
<1>2. CASE g = Tick
  <2>1. stamp[Tick] = NoStamp /\ stamp'[Tick] = 0 /\ 0 # NoStamp
    BY <1>2, TimesAssumption DEF TakeStamp, IInv, StoreTypeOK
  <2>. QED BY <1>1, <2>1 DEF Picture!BecomesDue
<1>3. CASE g # Tick
  <2>1. stamp'[Tick] = stamp[Tick]
    BY <1>3 DEF TakeStamp, IInv, StoreTypeOK, Goroutines
  <2>. QED BY <1>1, <2>1 DEF Picture!vars
<1>. QED BY <1>2, <1>3

LEMMA InitPicture == StoreInit => Picture!Init
<1>. SUFFICES ASSUME StoreInit PROVE Picture!Init
  OBVIOUS
<1>1. Tracked = {} /\ Reported = {}
  BY DEF StoreInit, Tracked, Reported
<1>2. stamp[Tick] = NoStamp
  BY DEF StoreInit, Goroutines
<1>3. heard = [a \in Aircraft |-> Picture!Longest] /\ placed = [a \in Aircraft |-> Picture!Longest]
  BY DEF StoreInit, Oldest, Picture!Longest
<1>. QED BY <1>1, <1>2, <1>3 DEF Picture!Init

LEMMA NextPicture == IInv /\ [StoreNext]_storeVars => [Picture!Next]_(Picture!vars)
<1>. SUFFICES ASSUME IInv, [StoreNext]_storeVars PROVE [Picture!Next]_(Picture!vars)
  OBVIOUS
<1>1. CASE \E g \in Goroutines : TakeStamp(g)
  BY <1>1, TakeStampDue DEF Picture!Next
<1>2. CASE \E g \in Feeds : Receive(g)
  BY <1>2, ApplyHears DEF Receive, Positions, Picture!Next
<1>3. CASE Snapshot
  BY <1>3, SnapshotReports DEF Picture!Next
<1>4. CASE TimePasses
  BY <1>4, TimePassesSilence DEF Picture!Next
<1>5. CASE UNCHANGED storeVars
  BY <1>5 DEF storeVars, Picture!vars, Tracked, Reported
<1>. QED BY <1>1, <1>2, <1>3, <1>4, <1>5 DEF StoreNext

\* Out-of-order stamps, evictions and frames without a position never show in
\* the picture: by more than the lag, no aircraft is lost while its position is
\* younger than the TTL, and none is kept that was silent for longer.
THEOREM StoreImplementsPicture == StoreSpec => ImplementsPicture
<1>1. StoreInit => Picture!Init
  BY InitPicture
<1>2. IInv /\ [StoreNext]_storeVars => [Picture!Next]_(Picture!vars)
  BY NextPicture
<1>. QED BY <1>1, <1>2, Invariant, PTL DEF StoreSpec, ImplementsPicture, Picture!Spec
=============================================================================
