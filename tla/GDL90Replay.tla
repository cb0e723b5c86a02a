---------------------------- MODULE GDL90Replay ----------------------------
(***************************************************************************)
(* Replaying a log. When the process of GDL90Log has ended, however it     *)
(* did, another one is started in replay mode on the file that is left:    *)
(* runReplay reads it as a whole and plays its frames with the distances   *)
(* of their times, once or in a loop, until its context is cancelled or a  *)
(* frame cannot be sent. The speed is 1: a multiplier only scales waits.   *)
(***************************************************************************)
EXTENDS GDL90Log

VARIABLES
  replay,   \* how far runReplay is
  loop,     \* gdl90.replay.loop
  records,  \* the frames of the log: line, time, whether it has lost its end
  next,     \* the record to play
  elapsed,  \* what it has waited since the pass through the log began
  played,   \* the frames sent in this pass, and when
  stopping  \* the context of this process is cancelled

player == <<replay, loop, records, next, elapsed, played, stopping>>
allVars == <<vars, player>>

recorder == <<clock, producer, writer, sent, ending>>

ReplayInit ==
  /\ Init
  /\ replay = "off" /\ loop = FALSE /\ records = <<>> /\ next = 1
  /\ elapsed = 0 /\ played = <<>> /\ stopping = FALSE

Recording == LogNext /\ UNCHANGED player

---------------------------------------------------------------------------
(* The reader *)

Rec(n, torn) == [line |-> n, at |-> lines[n], torn |-> torn]

\* No line is torn, but for the last one.
Parses ==
  \A i \in DOMAIN file :
    IF file[i] % 2 = 0 THEN i > 1 /\ file[i - 1] = file[i] - 1
    ELSE i < Len(file) => file[i + 1] = file[i] + 1

\* The lines that are there from end to end, of a file that parses.
WholeLines == [i \in 1 .. Len(file) \div 2 |-> Rec(file[2 * i] \div 2, FALSE)]

TornEnd == file # <<>> /\ file[Len(file)] % 2 = 1

ReadsAs(recs) ==
  /\ ~Up /\ replay = "off"
  /\ replay' = "playing" /\ records' = recs /\ loop' \in BOOLEAN
  /\ UNCHANGED <<recorder, next, elapsed, played, stopping>>

ReadAll == Parses /\ ~TornEnd /\ ReadsAs(WholeLines)

\* What is left of a torn line may parse, as all of the frame or as its beginning.
ReadTorn ==
  /\ Parses /\ TornEnd
  /\ \E torn \in BOOLEAN :
       ReadsAs(Append(WholeLines, Rec((file[Len(file)] + 1) \div 2, torn)))

\* One line that does not parse, or a file without even a START, and nothing is played;
\* the error ends the process.
ReadRefuses ==
  /\ ~Up /\ replay = "off" /\ (~Parses \/ TornEnd \/ file = <<>>)
  /\ replay' = "refused" /\ stopping' = TRUE
  /\ UNCHANGED <<recorder, loop, records, next, elapsed, played>>

---------------------------------------------------------------------------
(* The player *)

\* Variant: Play waits for the time that the record says.
WaitUntil(i) == records[i].at

\* How long Play waits before record i.
WaitBefore(i) ==
  IF i = 1 \/ records[i].at < records[i - 1].at THEN 0
  ELSE records[i].at - records[i - 1].at

PlayOne ==
  /\ replay = "playing" /\ ~stopping /\ next <= Len(records)
  /\ elapsed' = elapsed + WaitBefore(next)
  /\ played' = Append(played, [rec |-> next, when |-> elapsed'])
  /\ next' = next + 1
  /\ UNCHANGED <<recorder, replay, loop, records, stopping>>

\* Variant: the context is not looked at while the log is played.
PlayStopsNever ==
  /\ replay = "playing" /\ stopping /\ next <= Len(records)
  /\ next' = next + 1 /\ played' = Append(played, [rec |-> next, when |-> elapsed])
  /\ UNCHANGED <<recorder, replay, loop, records, elapsed, stopping>>

\* The callback finds the context cancelled; a wait ends early for it.
PlayStops ==
  /\ replay = "playing" /\ stopping /\ next <= Len(records)
  /\ replay' = "over"
  /\ UNCHANGED <<recorder, loop, records, next, elapsed, played, stopping>>

\* A frame that cannot be sent ends the replay, and with it the process.
SendFails ==
  /\ replay = "playing" /\ ~stopping /\ next <= Len(records)
  /\ replay' = "over" /\ stopping' = TRUE
  /\ UNCHANGED <<recorder, loop, records, next, elapsed, played>>

\* After the last record a loop begins again at once.
EndPass ==
  /\ replay = "playing" /\ next > Len(records)
  /\ IF loop THEN next' = 1 /\ elapsed' = 0 /\ played' = <<>> /\ UNCHANGED replay
     ELSE replay' = "over" /\ UNCHANGED <<next, elapsed, played>>
  /\ UNCHANGED <<recorder, loop, records, stopping>>

\* A signal.
StopReplay ==
  /\ replay = "playing" /\ stopping' = TRUE
  /\ UNCHANGED <<recorder, replay, loop, records, next, elapsed, played>>

Play == PlayOne \/ PlayStops \/ SendFails \/ EndPass

Next == Recording \/ ReadAll \/ ReadTorn \/ ReadRefuses \/ Play \/ StopReplay

\* The replay goroutine runs. Nothing makes the recording process end or a user stop.
Spec == ReplayInit /\ [][Next]_allVars /\ WF_allVars(Play)

---------------------------------------------------------------------------
(* Properties *)

Sorted(i, j) == \A k \in i .. j - 1 : records[k].at <= records[k + 1].at

\* A replay plays the frames of the log in its order, from the first one on, and keeps their
\* distances: never a shorter one, and the same one where the times in the log do not go
\* back, as they do where two producers took their times in another order than the lock.
ReplayKeepsDistances ==
  /\ \A i \in DOMAIN played : played[i].rec = i
  /\ \A i, j \in DOMAIN played : i < j =>
       LET live == records[j].at - records[i].at
           replayed == played[j].when - played[i].when
       IN live <= replayed /\ (Sorted(i, j) => live = replayed)

\* What is played is what was recorded: record i is line i of the log, and it is whole unless
\* it is the last one and the recording did not end in order. Only a producer that is in the
\* writer when main closes it can spoil this.
PlaysTheRecording ==
  ~raced => \A i \in DOMAIN records :
    /\ records[i].line = i
    /\ records[i].torn => i = Len(records) /\ (failed \/ main # "exited")

\* Both: a replay is the recording again.
ReplayIsFaithful == PlaysTheRecording /\ ReplayKeepsDistances

\* A replay of a log with a frame in it ends when it is stopped, and without a loop by itself.
ReplayEnds ==
  replay = "playing" /\ records # <<>> /\ (stopping \/ ~loop) ~> replay = "over"
=============================================================================
