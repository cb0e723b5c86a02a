---------------------------- MODULE AttitudeHub ----------------------------
(***************************************************************************)
(* The live attitude on the web page: web.Status.SetAttitude, which only   *)
(* the attitude streamer calls, and the handlers of /api/attitude/live,    *)
(* each with a buffered channel of its own from SubscribeAttitude. The     *)
(* lock attSubsMu covers the table of channels, neither the last attitude  *)
(* nor the sends.                                                          *)
(*                                                                         *)
(* An attitude is the number of the SetAttitude that published it.         *)
(***************************************************************************)
EXTENDS Naturals, Sequences

CONSTANTS
  Handlers,     \* HTTP handlers, one subscription at a time each
  Buffer,       \* capacity of a subscription's channel
  MaxAttitudes  \* bound: attitudes published

ASSUME BoundsAssumption == Buffer \in Nat \ {0} /\ MaxAttitudes \in Nat

VARIABLES
  available,  \* Status.attAvail: the streamer runs
  attitude,   \* Status.attitude; 0 before the first SetAttitude
  sending,    \* the handlers whose channel broadcastAttitude has still to serve
  copied,     \* whether it has copied the table of channels
  pc,         \* a handler is idle, has subscribed, or is streaming
  first,      \* the attitude a handler loaded when it subscribed
  chan,       \* the contents of each handler's channel
  closed,     \* the handlers in sending whose channel has been closed since
  shown,      \* what each handler has last written to its client
  panicked    \* a send on a closed channel has ended the process

hubVars == <<available, attitude, sending, copied, pc, first, chan, closed, shown, panicked>>

streamer == <<available, attitude, sending, copied>>
handlers == <<pc, first, shown>>

\* The table attSubs.
attSubs == {h \in Handlers : pc[h] # "idle"}

---------------------------------------------------------------------------
(* The attitude streamer *)

StartStreamer ==
  /\ ~panicked /\ ~available /\ attitude = 0
  /\ available' = TRUE
  /\ UNCHANGED <<attitude, sending, copied, handlers, chan, closed, panicked>>

\* It returns when the context is cancelled or a frame cannot be recorded.
StopStreamer ==
  /\ ~panicked /\ available /\ copied /\ sending = {}
  /\ available' = FALSE
  /\ UNCHANGED <<attitude, sending, copied, handlers, chan, closed, panicked>>

\* SetAttitude stores the attitude first.
Publish ==
  /\ ~panicked /\ available /\ copied /\ sending = {}
  /\ attitude < MaxAttitudes
  /\ attitude' = attitude + 1 /\ copied' = FALSE
  /\ UNCHANGED <<available, sending, handlers, chan, closed, panicked>>

\* broadcastAttitude copies the table under its read lock and lets go of it.
CopyTable ==
  /\ ~panicked /\ ~copied
  /\ copied' = TRUE /\ sending' = attSubs
  /\ UNCHANGED <<available, attitude, handlers, chan, closed, panicked>>

\* Variant: a send without a default case, which waits for room.
OfferBlocking(h, a) ==
  Len(chan[h]) < Buffer /\ chan' = [chan EXCEPT ![h] = Append(@, a)]

\* A send with a default case: a full channel loses the new attitude.
Offer(h, a) ==
  chan' = [chan EXCEPT ![h] = IF Len(@) < Buffer THEN Append(@, a) ELSE @]

\* The table's order is the map's: any. To send on a channel that its handler
\* has closed panics, with or without a default case.
SendTo(h) ==
  /\ ~panicked /\ h \in sending
  /\ sending' = sending \ {h}
  /\ IF h \in closed
       THEN panicked' = TRUE /\ UNCHANGED chan
       ELSE Offer(h, attitude) /\ UNCHANGED panicked
  /\ closed' = closed \ {h}
  /\ UNCHANGED <<available, attitude, copied, handlers>>

---------------------------------------------------------------------------
(* The handler of /api/attitude/live *)

\* SubscribeAttitude registers a channel and loads the last attitude under the
\* lock.
Subscribe(h) ==
  /\ ~panicked /\ available /\ pc[h] = "idle"
  /\ pc' = [pc EXCEPT ![h] = "subscribed"]
  /\ first' = [first EXCEPT ![h] = attitude]
  /\ shown' = [shown EXCEPT ![h] = 0]
  /\ UNCHANGED <<streamer, chan, closed, panicked>>

\* Variant: the attitude is loaded when it is sent.
SendFirstLate(h) ==
  /\ ~panicked /\ pc[h] = "subscribed"
  /\ pc' = [pc EXCEPT ![h] = "streaming"]
  /\ IF attitude # 0 THEN Offer(h, attitude) ELSE UNCHANGED chan
  /\ UNCHANGED <<streamer, first, shown, closed, panicked>>

\* It sends that attitude, if there is one, after the lock is released.
SendFirst(h) ==
  /\ ~panicked /\ pc[h] = "subscribed"
  /\ pc' = [pc EXCEPT ![h] = "streaming"]
  /\ IF first[h] # 0 THEN Offer(h, first[h]) ELSE UNCHANGED chan
  /\ UNCHANGED <<streamer, first, shown, closed, panicked>>

Write(h) ==
  /\ ~panicked /\ pc[h] = "streaming" /\ chan[h] # << >>
  /\ shown' = [shown EXCEPT ![h] = Head(chan[h])]
  /\ chan' = [chan EXCEPT ![h] = Tail(@)]
  /\ UNCHANGED <<streamer, pc, first, closed, panicked>>

\* The client goes away and UnsubscribeAttitude closes the channel, which the
\* streamer may be about to send on.
Unsubscribe(h) ==
  /\ ~panicked /\ pc[h] = "streaming"
  /\ pc' = [pc EXCEPT ![h] = "idle"]
  /\ chan' = [chan EXCEPT ![h] = << >>]
  /\ closed' = closed \cup ({h} \cap sending)
  /\ shown' = [shown EXCEPT ![h] = 0] /\ first' = [first EXCEPT ![h] = 0]
  /\ UNCHANGED <<streamer, panicked>>

HubInit ==
  /\ available = FALSE /\ attitude = 0 /\ sending = {} /\ copied = TRUE
  /\ pc = [h \in Handlers |-> "idle"]
  /\ first = [h \in Handlers |-> 0]
  /\ chan = [h \in Handlers |-> << >>]
  /\ closed = {}
  /\ shown = [h \in Handlers |-> 0]
  /\ panicked = FALSE

Streamer == Publish \/ CopyTable \/ \E h \in Handlers : SendTo(h)

HubNext ==
  \/ StartStreamer \/ StopStreamer \/ Streamer
  \/ \E h \in Handlers : Subscribe(h) \/ SendFirst(h) \/ Write(h) \/ Unsubscribe(h)

\* Only the streamer is sure to go on: a client may stop reading, and its
\* handler then stays where it is.
HubFairness == WF_hubVars(CopyTable) /\ \A h \in Handlers : WF_hubVars(SendTo(h))

HubSpec == HubInit /\ [][HubNext]_hubVars /\ HubFairness

---------------------------------------------------------------------------
(* What is checked *)

HubTypeOK ==
  /\ available \in BOOLEAN /\ copied \in BOOLEAN /\ panicked \in BOOLEAN
  /\ attitude \in 0..MaxAttitudes
  /\ sending \subseteq Handlers /\ closed \subseteq sending
  /\ pc \in [Handlers -> {"idle", "subscribed", "streaming"}]
  /\ first \in [Handlers -> 0..MaxAttitudes]
  /\ shown \in [Handlers -> 0..MaxAttitudes]
  /\ chan \in [Handlers -> Seq(1..MaxAttitudes)]
  /\ \A h \in Handlers : Len(chan[h]) <= Buffer

\* What a client sees goes forward in time, and never repeats, except for one
\* attitude: the one sent when it subscribed, which may come late, after newer
\* ones. Nothing is older than that (status.go 229-251, 267-285).
Pending(h) == <<shown[h]>> \o chan[h]

OrderedButForFirst ==
  \A h \in Handlers : pc[h] # "idle" =>
    /\ \A i \in 1..Len(chan[h]) : chan[h][i] >= first[h]
    /\ \A i, j \in 1..Len(Pending(h)) :
         i < j => \/ Pending(h)[i] < Pending(h)[j]
                  \/ Pending(h)[j] = first[h]

\* A client that stops reading never holds up the streamer, which also sends
\* the attitude to the cockpit (status.go 278-284, main.go 973-1032).
StreamerProgress == sending # {} ~> sending = {} \/ panicked

\* .github/copilot-instructions.md 5 asks that failures of the AHRS "log and
\* continue (don't crash the appliance)". A browser that leaves should not
\* crash it either, and a panic in the streamer's goroutine does.
NoPanic == ~panicked
=============================================================================
