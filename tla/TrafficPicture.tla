--------------------------- MODULE TrafficPicture ---------------------------
(***************************************************************************)
(* What the traffic store promises to the pilot's display, without locks,  *)
(* clocks or time stamps: an aircraft is known while it reports where it   *)
(* is and forgotten when it falls silent, or earlier when there are too    *)
(* many and it is among the stalest ones. Whether messages without a       *)
(* position keep it known is left open. Slack is the imprecision that the  *)
(* implementation's time stamps are allowed.                               *)
(***************************************************************************)
EXTENDS Integers, FiniteSets

CONSTANTS Aircraft, MaxTargets, TTL, Slack

VARIABLES
  known,    \* the aircraft that are tracked
  located,  \* the ones that are reported with a position
  silence,  \* time since each aircraft was last heard, up to Longest
  since,    \* time since it last reported a position, or became known
  due       \* a report is being made

vars == <<known, located, silence, since, due>>

Longest == TTL + Slack + 1

Init ==
  /\ known = {} /\ located = {}
  /\ silence = [a \in Aircraft |-> Longest] /\ since = [a \in Aircraft |-> Longest]
  /\ due = FALSE

\* Aircraft are dropped only when there are too many of them, no more of them
\* than that, and none whose position is clearly later than what was last heard of
\* one that stays.
MakesRoom(dropped, among, heard, placed) ==
  /\ dropped \subseteq among
  /\ dropped # {} => Cardinality(among \ dropped) = MaxTargets
  /\ \A d \in dropped, k \in among \ dropped : placed[d] + Slack >= heard[k]

\* A message without a position leaves the one that is shown.
Shown(a, position) ==
  CASE position = "none" -> located
    [] position = "null" -> located \ {a}
    [] position = "fix"  -> located \cup {a}

Hear(a, position) ==
  LET among == known \cup {a}
      dropped == among \ known'
  IN
  /\ silence' = [silence EXCEPT ![a] = 0]
  /\ since' = [since EXCEPT ![a] = IF position = "none" /\ a \in known THEN @ ELSE 0]
  /\ known' \subseteq among
  /\ MakesRoom(dropped, among, silence', since')
  /\ position = "none" => dropped = {}
  /\ located' = Shown(a, position) \ dropped
  /\ UNCHANGED due

BecomesDue == ~due /\ due' = TRUE /\ UNCHANGED <<known, located, silence, since>>

\* Before a report is made, the aircraft that fell silent are forgotten.
Report ==
  LET forgotten == known \ known' IN
  /\ due /\ due' = FALSE
  /\ known' \subseteq known
  /\ \A a \in forgotten : since[a] + Slack > TTL
  /\ \A a \in known' : silence[a] <= TTL + Slack
  /\ located' = located \ forgotten
  /\ UNCHANGED <<silence, since>>

Later(times) == [a \in Aircraft |-> IF times[a] < Longest THEN times[a] + 1 ELSE Longest]

Silence ==
  /\ silence' = Later(silence) /\ since' = Later(since)
  /\ UNCHANGED <<known, located, due>>

Next ==
  \/ \E a \in Aircraft, position \in {"none", "null", "fix"} : Hear(a, position)
  \/ BecomesDue \/ Report
  \/ Silence

Spec == Init /\ [][Next]_vars
=============================================================================
