------------------------------ MODULE GDL90Log ------------------------------
(***************************************************************************)
(* Recording the frames that are sent. The tick of the main loop and the   *)
(* attitude streamer take the time, build their frames, and record each    *)
(* one before they send it (recordFrame, sender.Send); the tick flushes    *)
(* at its end. recMu covers the writer, except against main, which closes  *)
(* the broadcaster and then the writer when the context is cancelled,      *)
(* without waiting for anybody, and returns. The process or the machine    *)
(* may stop at any time.                                                   *)
(*                                                                         *)
(* Line n of the log is the n-th frame that the writer took. It has two    *)
(* halves, 2n-1 and 2n, so that a full buffer can tear it. The first line, *)
(* START, is left out.                                                     *)
(***************************************************************************)
EXTENDS Integers, Sequences

CONSTANTS
  Producers,  \* the tick and the attitude streamer
  Tick,       \* the one of them that flushes
  Batch,      \* frames each of them builds at a time
  BufSize,    \* halves that the buffer of the writer holds
  NoTime,     \* Writer.start before the first frame
  MaxLines,   \* bound: lines recorded
  MaxTime     \* bound: clock

ASSUME ProducersAssumption == Tick \in Producers /\ NoTime \notin Nat
ASSUME BoundsAssumption ==
  /\ Batch \in [Producers -> Nat \ {0}] /\ {MaxLines, MaxTime} \subseteq Nat
  /\ BufSize \in Nat /\ BufSize >= 2

VARIABLES
  clock,
  pc,         \* where each producer is
  stamp,      \* the time it took for its frames
  todo,       \* the frames it has still to record or send
  cur,        \* the line of the frame it is about to send
  lines,      \* the lines the writer got: the time each says
  start,      \* Writer.start
  closed,     \* Writer.closed
  failed,     \* the error that the buffer keeps once a write has failed
  buf, file,  \* the halves in the buffer and in the file
  flushed,    \* the halves there were at the end of the last flush of a tick
  sent,       \* the lines whose frames the broadcaster took
  sender,     \* the broadcaster is there
  cancelled,  \* the context
  main,       \* how far main's deferred calls are
  raced       \* a producer was in the writer when main closed it

vars == <<clock, pc, stamp, todo, cur, lines, start, closed, failed, buf, file,
          flushed, sent, sender, cancelled, main, raced>>

producer == <<pc, stamp, todo, cur>>
writer == <<lines, start, closed, failed, buf, file, flushed>>
ending == <<sender, cancelled, main, raced>>

Up == main \notin {"exited", "crashed", "power cut"}

\* recMu is held from the test of closed to the end of the write.
InWriter == {"writing", "flushing"}
MuFree == \A p \in Producers : pc[p] \notin InWriter

Init ==
  /\ clock = 0
  /\ pc = [p \in Producers |-> "idle"] /\ stamp = [p \in Producers |-> 0]
  /\ todo = [p \in Producers |-> 0] /\ cur = [p \in Producers |-> 0]
  /\ lines = <<>> /\ start = NoTime /\ closed = FALSE /\ failed = FALSE
  /\ buf = <<>> /\ file = <<>> /\ flushed = 0 /\ sent = {}
  /\ sender = TRUE /\ cancelled = FALSE /\ main = "waiting" /\ raced = FALSE

Pass ==
  /\ Up /\ clock < MaxTime /\ clock' = clock + 1
  /\ UNCHANGED <<producer, writer, sent, ending>>

---------------------------------------------------------------------------
(* A producer *)

\* A ticker fires. The streamer has the time the ticker gave it, which may be old.
Wake(p) ==
  /\ Up /\ pc[p] = "idle"
  /\ \E t \in (IF p = Tick THEN {clock} ELSE {clock, clock - 1} \ {-1}) :
       stamp' = [stamp EXCEPT ![p] = t]
  /\ todo' = [todo EXCEPT ![p] = Batch[p]]
  /\ pc' = [pc EXCEPT ![p] = "record"]
  /\ UNCHANGED <<clock, cur, writer, sent, ending>>

\* The loop sees that the context is cancelled. A ticker that is ready may win over it.
Leave(p) ==
  /\ Up /\ cancelled /\ pc[p] = "idle"
  /\ pc' = [pc EXCEPT ![p] = "over"]
  /\ UNCHANGED <<clock, stamp, todo, cur, writer, sent, ending>>

\* An error of the writer ends the producer and cancels the context.
GiveUp(p) ==
  /\ pc' = [pc EXCEPT ![p] = "over"] /\ cancelled' = TRUE
  /\ UNCHANGED <<clock, stamp, todo, cur, sent, sender, main, raced>>

\* Variant: recordFrame does not take recMu.
EnterUnlocked(p) ==
  /\ Up /\ pc[p] = "record" /\ ~closed /\ Len(lines) < MaxLines
  /\ pc' = [pc EXCEPT ![p] = "writing"]
  /\ UNCHANGED <<clock, stamp, todo, cur, writer, sent, ending>>

\* recordFrame takes recMu, WriteFrame finds the writer open.
Enter(p) ==
  /\ Up /\ pc[p] = "record" /\ MuFree /\ ~closed /\ Len(lines) < MaxLines
  /\ pc' = [pc EXCEPT ![p] = "writing"]
  /\ UNCHANGED <<clock, stamp, todo, cur, writer, sent, ending>>

RecordRefused(p) ==
  /\ Up /\ pc[p] = "record" /\ MuFree /\ closed
  /\ GiveUp(p) /\ UNCHANGED writer

\* The first frame sets the origin of the times; a time before it counts as the origin.
Origin(p) == IF start = NoTime THEN stamp[p] ELSE start
At(p) == IF stamp[p] < Origin(p) THEN 0 ELSE stamp[p] - Origin(p)

\* What the buffer and the file hold after a line more: a full buffer goes to the file.
WithLine(n) ==
  LET all == buf \o <<2 * n - 1, 2 * n>>
  IN IF Len(all) <= BufSize THEN [buf |-> all, out |-> <<>>]
     ELSE [buf |-> SubSeq(all, BufSize + 1, Len(all)), out |-> SubSeq(all, 1, BufSize)]

WriteFrame(p) ==
  LET n == Len(lines) + 1
  IN /\ Up /\ pc[p] = "writing" /\ ~failed
     /\ WithLine(n).out # <<>> => main # "file closed"
     /\ buf' = WithLine(n).buf /\ file' = file \o WithLine(n).out
     /\ lines' = Append(lines, At(p))
     /\ start' = Origin(p)
     /\ cur' = [cur EXCEPT ![p] = n] /\ pc' = [pc EXCEPT ![p] = "send"]
     /\ UNCHANGED <<clock, stamp, todo, closed, failed, flushed, sent, ending>>

\* A write to the file fails when the disk is full or the file is closed, and may have
\* written a part; from then on the buffer refuses everything.
PartWritten(out) ==
  \E k \in 0 .. Len(out) : file' = file \o SubSeq(out, 1, k)

WriteFrameFails(p) ==
  /\ Up /\ pc[p] = "writing"
  /\ \/ failed /\ UNCHANGED <<lines, file>>
     \/ /\ ~failed /\ WithLine(Len(lines) + 1).out # <<>>
        /\ lines' = Append(lines, At(p))
        /\ IF main = "file closed" THEN UNCHANGED file
           ELSE PartWritten(WithLine(Len(lines) + 1).out)
  /\ failed' = TRUE /\ start' = Origin(p)
  /\ GiveUp(p)
  /\ UNCHANGED <<closed, buf, flushed>>

\* safeBroadcaster.Send. An error of it is logged and no more.
Send(p) ==
  /\ Up /\ pc[p] = "send"
  /\ sent' = IF sender THEN sent \union {cur[p]} ELSE sent
  /\ todo' = [todo EXCEPT ![p] = @ - 1]
  /\ pc' = [pc EXCEPT ![p] = IF todo[p] > 1 THEN "record" ELSE IF p = Tick THEN "flush" ELSE "idle"]
  /\ UNCHANGED <<clock, stamp, cur, writer, ending>>

---------------------------------------------------------------------------
(* The flush at the end of a tick: the write to the file, then the empty buffer *)

FlushNothing ==
  /\ Up /\ pc[Tick] = "flush" /\ MuFree /\ (closed \/ (buf = <<>> /\ ~failed))
  /\ pc' = [pc EXCEPT ![Tick] = "idle"]
  /\ flushed' = IF closed THEN flushed ELSE 2 * Len(lines)
  /\ UNCHANGED <<clock, stamp, todo, cur, lines, start, closed, failed, buf, file, sent, ending>>

FlushWrites ==
  /\ Up /\ pc[Tick] = "flush" /\ MuFree /\ ~closed /\ ~failed /\ buf # <<>>
  /\ file' = file \o buf /\ pc' = [pc EXCEPT ![Tick] = "flushing"]
  /\ UNCHANGED <<clock, stamp, todo, cur, lines, start, closed, failed, buf, flushed, sent, ending>>

FlushDone ==
  /\ Up /\ pc[Tick] = "flushing"
  /\ buf' = <<>> /\ pc' = [pc EXCEPT ![Tick] = "idle"]
  /\ flushed' = 2 * Len(lines)
  /\ UNCHANGED <<clock, stamp, todo, cur, lines, start, closed, failed, file, sent, ending>>

FlushFails ==
  /\ Up /\ pc[Tick] = "flush" /\ MuFree /\ ~closed
  /\ \/ failed /\ UNCHANGED file
     \/ ~failed /\ buf # <<>> /\ PartWritten(buf)
  /\ failed' = TRUE
  /\ GiveUp(Tick)
  /\ UNCHANGED <<lines, start, closed, buf, flushed>>

---------------------------------------------------------------------------
(* The end of the process *)

Cancel ==
  /\ Up /\ cancelled' = TRUE
  /\ UNCHANGED <<clock, producer, writer, sent, sender, main, raced>>

\* Variant: the deferred calls in the other order.
CloseSenderLast ==
  /\ main = "waiting" /\ cancelled
  /\ main' = "sender closed"
  /\ UNCHANGED <<clock, producer, writer, sent, sender, cancelled, raced>>

\* main's deferred calls, the last one first: the broadcaster, then the writer.
CloseSender ==
  /\ main = "waiting" /\ cancelled
  /\ sender' = FALSE /\ main' = "sender closed"
  /\ UNCHANGED <<clock, producer, writer, sent, cancelled, raced>>

CloseWriter ==
  /\ main = "sender closed"
  /\ closed' = TRUE /\ raced' = ~MuFree /\ main' = "writer closed"
  /\ UNCHANGED <<clock, producer, lines, start, failed, buf, file, flushed, sent, sender, cancelled>>

CloseFlushes ==
  /\ main = "writer closed"
  /\ \/ ~failed /\ file' = file \o buf /\ UNCHANGED failed
     \/ (failed \/ buf # <<>>) /\ failed' = TRUE /\ (IF failed THEN UNCHANGED file ELSE PartWritten(buf))
  /\ main' = "flushed"
  /\ UNCHANGED <<clock, producer, lines, start, closed, buf, flushed, sent, sender, cancelled, raced>>

CloseFile ==
  /\ main = "flushed"
  /\ buf' = <<>> /\ main' = "file closed"
  /\ UNCHANGED <<clock, producer, lines, start, closed, failed, file, flushed, sent, sender, cancelled, raced>>

\* What a process that has ended leaves behind is the file.
Gone(how) ==
  /\ main' = how /\ buf' = <<>> /\ start' = NoTime /\ closed' = FALSE
  /\ pc' = [p \in Producers |-> "over"] /\ stamp' = [p \in Producers |-> 0]
  /\ todo' = [p \in Producers |-> 0] /\ cur' = [p \in Producers |-> 0]
  /\ sender' = FALSE /\ cancelled' = FALSE
  /\ clock' = 0 /\ UNCHANGED <<lines, failed, flushed, sent, raced>>

Exit == main = "file closed" /\ Gone("exited") /\ UNCHANGED file

\* The process dies; or the power goes, and with it what the disk has not got yet.
Crash ==
  /\ Up
  /\ \/ Gone("crashed") /\ UNCHANGED file
     \/ Gone("power cut") /\ \E k \in 0 .. Len(file) : file' = SubSeq(file, 1, k)

Produce(p) ==
  \/ Wake(p) \/ Leave(p) \/ Enter(p) \/ RecordRefused(p)
  \/ WriteFrame(p) \/ WriteFrameFails(p) \/ Send(p)

Flush == FlushNothing \/ FlushWrites \/ FlushDone \/ FlushFails

End == Cancel \/ CloseSender \/ CloseWriter \/ CloseFlushes \/ CloseFile \/ Exit \/ Crash

LogNext == Pass \/ (\E p \in Producers : Produce(p)) \/ Flush \/ End

---------------------------------------------------------------------------
(* Properties *)

ProducerTypes ==
  /\ clock \in Nat
  /\ pc \in [Producers -> {"idle", "record", "writing", "send", "flush", "flushing", "over"}]
  /\ stamp \in [Producers -> Nat] /\ todo \in [Producers -> Nat] /\ cur \in [Producers -> Nat]

WriterTypes ==
  /\ lines \in Seq(Nat) /\ start \in Nat \union {NoTime}
  /\ closed \in BOOLEAN /\ failed \in BOOLEAN
  /\ buf \in Seq(Nat) /\ Len(buf) <= BufSize /\ file \in Seq(Nat) /\ flushed \in Nat

EndingTypes ==
  /\ sent \subseteq 1 .. Len(lines)
  /\ sender \in BOOLEAN /\ cancelled \in BOOLEAN /\ raced \in BOOLEAN
  /\ main \in {"waiting", "sender closed", "writer closed", "flushed", "file closed",
               "exited", "crashed", "power cut"}

LogTypeOK == ProducerTypes /\ WriterTypes /\ EndingTypes

\* Line n is in the file, in one piece.
InFile(n) == \E i \in 1 .. Len(file) - 1 : file[i] = 2 * n - 1 /\ file[i + 1] = 2 * n

\* What receivers got, the log has: after an orderly end every frame that was sent is in the
\* file in one piece, whoever was in the writer when it was closed, if no write failed.
SentIsInLog ==
  main = "exited" /\ ~failed => \A n \in sent : InFile(n)

\* The file is the start of what was recorded, with nothing twice or in between, and has all
\* that a tick has flushed if the machine stays on; that main closes the writer without its
\* lock does no harm unless somebody is in it at that time.
LogIsPrefix ==
  ~raced =>
    /\ \A i \in DOMAIN file : file[i] = i
    /\ main # "power cut" => Len(file) >= flushed
    /\ main = "exited" /\ ~failed => Len(file) = 2 * Len(lines)
=============================================================================
