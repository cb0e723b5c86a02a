--------------------------- MODULE GDL90LogProofs ---------------------------
(***************************************************************************)
(* GDL90Log: types, that the file is the start of what was recorded, and   *)
(* that it has all that was sent; GDL90Replay: that a replay is the        *)
(* recording again. For any producers, batches and size of the buffer.     *)
(***************************************************************************)
EXTENDS GDL90Replay, WellFoundedInduction, TLAPS

\* A frame that is recorded or sent is one of those still to do; one that is sent has a line;
\* only the tick flushes.
ProducerInv ==
  \A p \in Producers :
    /\ pc[p] \in {"record", "writing", "send"} => todo[p] >= 1
    /\ pc[p] = "send" => cur[p] \in 1 .. Len(lines)
    /\ pc[p] \in {"flush", "flushing"} => p = Tick

\* One producer at a time is in the writer, and the buffer has no error while it is flushed.
\* The writer is closed once main has got so far, and nobody was in it at that time.
MutexInv ==
  /\ \A p, q \in Producers : pc[p] \in InWriter /\ pc[q] \in InWriter => p = q
  /\ Up => (closed <=> main \in {"writer closed", "flushed", "file closed"})
  /\ closed => MuFree
  /\ pc[Tick] = "flushing" => ~failed

\* The file counts from 1, and so do file and buffer together, unless the buffer is in the file.
Counts == \A i \in DOMAIN file : file[i] = i
Total == 2 * Len(lines)
BufferNext ==
  /\ Len(file) + Len(buf) = Total
  /\ \A i \in DOMAIN buf : buf[i] = Len(file) + i
Open == main \in {"waiting", "sender closed", "writer closed"}

FileInv ==
  /\ Counts /\ Len(file) <= Total /\ flushed <= Total
  /\ main # "power cut" => Len(file) >= flushed
  /\ ~failed /\ Open /\ pc[Tick] # "flushing" => BufferNext
  /\ ~failed /\ Open /\ pc[Tick] = "flushing" => Len(file) = Total
  /\ ~failed /\ main \in {"flushed", "file closed", "exited"} => Len(file) = Total

\* Both hold as long as nobody is in the writer when main closes it, which is not before then.
LogInv ==
  /\ ~raced => MutexInv /\ FileInv
  /\ main \in {"waiting", "sender closed"} => ~raced

IInv == LogTypeOK /\ ProducerInv /\ LogInv

---------------------------------------------------------------------------
(* Sequences *)

LEMMA Parameters ==
  /\ Tick \in Producers /\ NoTime \notin Nat /\ Batch \in [Producers -> Nat \ {0}]
  /\ BufSize \in Nat /\ BufSize >= 2
BY ProducersAssumption, BoundsAssumption

\* The first k of a sequence, and the rest.
LEMMA Cut ==
  ASSUME NEW s \in Seq(Nat), NEW k \in 0 .. Len(s)
  PROVE  /\ SubSeq(s, 1, k) \in Seq(Nat) /\ Len(SubSeq(s, 1, k)) = k
         /\ \A i \in 1 .. k : SubSeq(s, 1, k)[i] = s[i]
         /\ SubSeq(s, k + 1, Len(s)) \in Seq(Nat) /\ Len(SubSeq(s, k + 1, Len(s))) = Len(s) - k
         /\ \A i \in 1 .. Len(s) - k : SubSeq(s, k + 1, Len(s))[i] = s[k + i]
<1>1. Len(s) \in Nat /\ k \in Nat /\ k <= Len(s)
  BY SMT
<1>2. /\ SubSeq(s, 1, k) \in Seq(Nat) /\ Len(SubSeq(s, 1, k)) = k
      /\ \A i \in 1 .. k : SubSeq(s, 1, k)[i] = s[i]
  BY <1>1, SMT
<1>3. /\ SubSeq(s, k + 1, Len(s)) \in Seq(Nat) /\ Len(SubSeq(s, k + 1, Len(s))) = Len(s) - k
      /\ \A i \in 1 .. Len(s) - k : SubSeq(s, k + 1, Len(s))[i] = s[k + i]
  BY <1>1, SMT
<1> QED BY <1>2, <1>3

\* A file that counts still does with what comes next behind it.
LEMMA CountsOn ==
  ASSUME NEW f \in Seq(Nat), NEW s \in Seq(Nat),
         \A i \in DOMAIN f : f[i] = i, \A i \in DOMAIN s : s[i] = Len(f) + i
  PROVE  /\ f \o s \in Seq(Nat) /\ Len(f \o s) = Len(f) + Len(s)
         /\ \A i \in DOMAIN (f \o s) : (f \o s)[i] = i
<1>1. /\ f \o s \in Seq(Nat) /\ Len(f \o s) = Len(f) + Len(s)
      /\ Len(f) \in Nat /\ Len(s) \in Nat
  BY SMT
<1>2. ASSUME NEW i \in DOMAIN (f \o s) PROVE (f \o s)[i] = i
  <2>1. CASE i <= Len(f)
    <3>1. i \in DOMAIN f /\ (f \o s)[i] = f[i]
      BY <1>1, <2>1, SMT
    <3> QED BY <3>1
  <2>2. CASE ~(i <= Len(f))
    <3>1. i - Len(f) \in DOMAIN s /\ (f \o s)[i] = s[i - Len(f)] /\ Len(f) + (i - Len(f)) = i
      BY <1>1, <2>2, SMT
    <3> QED BY <3>1
  <2> QED BY <2>1, <2>2
<1> QED BY <1>1, <1>2

\* So it does with a part of it.
LEMMA PartCountsOn ==
  ASSUME NEW f \in Seq(Nat), NEW s \in Seq(Nat), NEW k \in 0 .. Len(s),
         \A i \in DOMAIN f : f[i] = i, \A i \in DOMAIN s : s[i] = Len(f) + i
  PROVE  /\ f \o SubSeq(s, 1, k) \in Seq(Nat) /\ Len(f \o SubSeq(s, 1, k)) = Len(f) + k
         /\ \A i \in DOMAIN (f \o SubSeq(s, 1, k)) : (f \o SubSeq(s, 1, k))[i] = i
<1> DEFINE t == SubSeq(s, 1, k)
<1>1. t \in Seq(Nat) /\ Len(t) = k /\ \A i \in 1 .. k : t[i] = s[i]
  BY Cut
<1>2. DOMAIN t = 1 .. k /\ \A i \in 1 .. k : i \in DOMAIN s
  BY <1>1, SMT
<1> HIDE DEF t
<1>3. \A i \in DOMAIN t : t[i] = Len(f) + i
  BY <1>1, <1>2
<1>4. /\ f \o t \in Seq(Nat) /\ Len(f \o t) = Len(f) + Len(t)
      /\ \A i \in DOMAIN (f \o t) : (f \o t)[i] = i
  BY <1>1, <1>3, CountsOn
<1> QED BY <1>1, <1>4 DEF t

---------------------------------------------------------------------------
(* The producers *)

\* The invariant holds before the first frame.
LEMMA InitIInv == Init => IInv
<1> SUFFICES ASSUME Init PROVE IInv
  OBVIOUS
<1> USE Parameters DEF Init
<1>1. ProducerTypes
  BY SMT DEF ProducerTypes
<1>2. WriterTypes /\ EndingTypes
  <2>1. <<>> \in Seq(Nat) /\ Len(<<>>) <= BufSize /\ 0 \in Nat
    BY SMT
  <2> QED BY <2>1, Zenon DEF WriterTypes, EndingTypes
<1>3. ProducerInv
  <2>1. \A p \in Producers : pc[p] = "idle"
    BY Zenon
  <2> QED BY <2>1, Zenon DEF ProducerInv
<1>4. MutexInv
  BY SMT DEF MutexInv, InWriter, MuFree, Up
<1>5. FileInv
  BY SMT DEF FileInv, Counts, Total, BufferNext, Open
<1> QED BY <1>1, <1>2, <1>3, <1>4, <1>5 DEF IInv, LogTypeOK, LogInv

\* What happens outside the writer keeps the invariant: the clock, a ticker, the end of a loop,
\* the step into the writer, a frame that is sent.
LEMMA OutsideKeepsIInv ==
  ASSUME IInv,
         \/ Pass
         \/ \E p \in Producers : Wake(p) \/ Leave(p) \/ Enter(p) \/ RecordRefused(p) \/ Send(p)
  PROVE  IInv'
<1> USE Parameters DEF IInv, LogTypeOK
<1>1. /\ UNCHANGED writer /\ UNCHANGED <<main, raced, sender>>
      /\ cancelled' \in {cancelled, TRUE} /\ Up
  BY DEF Pass, Wake, Leave, Enter, RecordRefused, GiveUp, Send, ending
<1>2. WriterTypes'
  BY <1>1 DEF writer, WriterTypes
<1>3. CASE Pass
  <2>1. UNCHANGED <<pc, stamp, todo, cur, sent, cancelled>> /\ clock' = clock + 1
    BY <1>3 DEF Pass, producer, ending
  <2>2. ProducerTypes'
    BY <2>1, SMT DEF ProducerTypes
  <2>3. EndingTypes'
    BY <1>1, <2>1 DEF writer, EndingTypes
  <2>4. ProducerInv' /\ LogInv'
    BY <1>1, <2>1, Zenon DEF writer, ProducerInv, LogInv, MutexInv, MuFree, FileInv, Counts, Total,
       BufferNext, Open, Up
  <2> QED BY <1>2, <2>2, <2>3, <2>4
<1>4. ASSUME NEW p \in Producers, Wake(p) \/ Leave(p) \/ Enter(p) \/ RecordRefused(p) \/ Send(p)
      PROVE  IInv'
  <2>1. clock' = clock
    BY <1>4 DEF Wake, Leave, Enter, RecordRefused, GiveUp, Send
  <2>2. PICK target \in {"idle", "record", "writing", "send", "flush", "over"} :
          /\ pc' = [pc EXCEPT ![p] = target]
          /\ target = "writing" => pc[p] = "record" /\ MuFree /\ ~closed
          /\ target # "send" /\ pc[p] # "flushing"
          /\ target = "flush" => p = Tick
    <3>1. CASE Wake(p)
      BY <1>4, <3>1, Zenon DEF Wake
    <3>2. CASE Leave(p)
      BY <3>2, Zenon DEF Leave
    <3>3. CASE Enter(p)
      BY <3>3, Zenon DEF Enter
    <3>4. CASE RecordRefused(p)
      BY <3>4, Zenon DEF RecordRefused, GiveUp
    <3>5. CASE Send(p)
      <4>1. CASE todo[p] > 1
        BY <3>5, <4>1, Zenon DEF Send
      <4>2. CASE ~(todo[p] > 1) /\ p = Tick
        BY <3>5, <4>2, Zenon DEF Send
      <4>3. CASE ~(todo[p] > 1) /\ p # Tick
        BY <3>5, <4>3, Zenon DEF Send
      <4> QED BY <4>1, <4>2, <4>3
    <3> QED BY <1>4, <3>1, <3>2, <3>3, <3>4, <3>5
  <2>3. stamp' \in [Producers -> Nat] /\ cur' = cur
    <3>1. CASE Wake(p)
      <4>1. PICK t \in (IF p = Tick THEN {clock} ELSE {clock, clock - 1} \ {-1}) :
              stamp' = [stamp EXCEPT ![p] = t]
        BY <3>1 DEF Wake
      <4>2. t \in Nat
        BY SMT DEF ProducerTypes
      <4> QED BY <3>1, <4>1, <4>2 DEF Wake, ProducerTypes
    <3>2. CASE ~Wake(p)
      BY <1>4, <3>2 DEF Leave, Enter, RecordRefused, GiveUp, Send, ProducerTypes
    <3> QED BY <3>1, <3>2
  <2>4. /\ todo' \in [Producers -> Nat] /\ \A q \in Producers \ {p} : todo'[q] = todo[q]
        /\ pc'[p] \in {"record", "writing"} => todo'[p] >= 1
    <3>1. CASE Wake(p)
      <4>1. todo' = [todo EXCEPT ![p] = Batch[p]]
        BY <3>1 DEF Wake
      <4> QED BY <4>1, SMT DEF ProducerTypes
    <3>2. CASE Send(p)
      <4>1. /\ todo' = [todo EXCEPT ![p] = todo[p] - 1] /\ pc[p] = "send"
            /\ pc'[p] = "record" => todo[p] > 1
            /\ pc'[p] # "writing"
        BY <3>2, Zenon DEF Send, ProducerTypes
      <4>2. todo[p] >= 1
        BY <4>1 DEF ProducerInv
      <4> QED BY <4>1, <4>2, SMT DEF ProducerTypes
    <3>3. CASE ~Wake(p) /\ ~Send(p)
      <4>1. todo' = todo /\ pc'[p] # "record" /\ (pc'[p] = "writing" => pc[p] = "record")
        BY <1>4, <3>3, <2>2, Zenon DEF Leave, Enter, RecordRefused, GiveUp, ProducerTypes
      <4> QED BY <4>1 DEF ProducerTypes, ProducerInv
    <3> QED BY <3>1, <3>2, <3>3
  <2>5. ProducerTypes'
    BY <2>1, <2>2, <2>3, <2>4, Zenon DEF ProducerTypes
  <2>6. EndingTypes'
    <3>1. sent' \subseteq 1 .. Len(lines)
      <4>1. CASE Send(p)
        BY <4>1, Zenon DEF Send, EndingTypes, ProducerInv
      <4>2. CASE ~Send(p)
        BY <1>4, <4>2 DEF Wake, Leave, Enter, RecordRefused, GiveUp, EndingTypes
      <4> QED BY <4>1, <4>2
    <3> QED BY <1>1, <3>1, Zenon DEF writer, EndingTypes
  <2>7. /\ pc'[p] = target /\ \A q \in Producers \ {p} : pc'[q] = pc[q]
    BY <2>2 DEF ProducerTypes
  <2>8. ProducerInv'
    BY <1>1, <2>2, <2>3, <2>4, <2>7, Zenon DEF writer, ProducerInv
  <2>9. ASSUME ~raced PROVE MutexInv' /\ FileInv'
    <3>1. MutexInv /\ FileInv
      BY <2>9 DEF LogInv
    <3>2. pc'[Tick] = "flushing" <=> pc[Tick] = "flushing"
      BY <2>2, <2>7, Zenon
    <3>3. MutexInv'
      BY <1>1, <2>2, <2>7, <3>1, <3>2, Zenon DEF writer, MutexInv, InWriter, MuFree, Up
    <3>4. FileInv'
      BY <1>1, <3>1, <3>2, Zenon DEF writer, FileInv, Counts, Total, BufferNext, Open
    <3> QED BY <3>3, <3>4
  <2> QED BY <1>1, <1>2, <2>5, <2>6, <2>8, <2>9 DEF LogInv
<1> QED BY <1>3, <1>4

---------------------------------------------------------------------------
(* The writer *)

\* The time a line says.
LEMMA LineTime ==
  ASSUME LogTypeOK, NEW p \in Producers
  PROVE  /\ Origin(p) \in Nat /\ At(p) \in Nat
         /\ Append(lines, At(p)) \in Seq(Nat) /\ Len(Append(lines, At(p))) = Len(lines) + 1
         /\ Len(lines) \in Nat
<1> USE DEF LogTypeOK
<1>1. stamp[p] \in Nat /\ Origin(p) \in Nat
  BY SMT DEF Origin, ProducerTypes, WriterTypes
<1>2. At(p) \in Nat
  BY <1>1, SMT DEF At
<1>3. lines \in Seq(Nat)
  BY DEF WriterTypes
<1> QED BY <1>1, <1>2, <1>3, SMT

\* What the buffer and the file get of a line.
LEMMA LineParts ==
  ASSUME WriterTypes, NEW n \in Nat \ {0}
  PROVE  LET all == buf \o <<2 * n - 1, 2 * n>>
             out == WithLine(n).out
             rest == WithLine(n).buf
         IN /\ all \in Seq(Nat) /\ Len(all) = Len(buf) + 2 /\ Len(buf) \in Nat
            /\ \A i \in DOMAIN buf : all[i] = buf[i]
            /\ all[Len(buf) + 1] = 2 * n - 1 /\ all[Len(buf) + 2] = 2 * n
            /\ \A i \in DOMAIN all : i \in DOMAIN buf \/ i = Len(buf) + 1 \/ i = Len(buf) + 2
            /\ \/ out = <<>> /\ rest = all /\ Len(all) <= BufSize
               \/ /\ BufSize \in 0 .. Len(all) /\ out = SubSeq(all, 1, BufSize)
                  /\ rest = SubSeq(all, BufSize + 1, Len(all)) /\ Len(all) - BufSize <= BufSize
<1> DEFINE all == buf \o <<2 * n - 1, 2 * n>>
<1>1. buf \in Seq(Nat) /\ Len(buf) <= BufSize /\ Len(buf) \in Nat
  BY SMT DEF WriterTypes
<1>2. /\ all \in Seq(Nat) /\ Len(all) = Len(buf) + 2
      /\ \A i \in DOMAIN buf : all[i] = buf[i]
      /\ all[Len(buf) + 1] = 2 * n - 1 /\ all[Len(buf) + 2] = 2 * n
      /\ \A i \in DOMAIN all : i \in DOMAIN buf \/ i = Len(buf) + 1 \/ i = Len(buf) + 2
  <2>1. /\ 2 * n - 1 \in Nat /\ 2 * n \in Nat
    BY SMT
  <2>2. PICK a \in Nat, b \in Nat : a = 2 * n - 1 /\ b = 2 * n
    BY <2>1
  <2>3. LET s == buf \o <<a, b>>
        IN /\ s \in Seq(Nat) /\ Len(s) = Len(buf) + 2
           /\ \A i \in DOMAIN buf : s[i] = buf[i]
           /\ s[Len(buf) + 1] = a /\ s[Len(buf) + 2] = b
           /\ \A i \in DOMAIN s : i \in DOMAIN buf \/ i = Len(buf) + 1 \/ i = Len(buf) + 2
    BY <1>1, SMT
  <2> QED BY <2>2, <2>3
<1>3. WithLine(n) = IF Len(all) <= BufSize THEN [buf |-> all, out |-> <<>>]
                    ELSE [buf |-> SubSeq(all, BufSize + 1, Len(all)), out |-> SubSeq(all, 1, BufSize)]
  BY DEF WithLine
<1> HIDE DEF all
<1>4. CASE Len(all) <= BufSize
  <2>1. WithLine(n).out = <<>> /\ WithLine(n).buf = all
    BY <1>3, <1>4
  <2> QED BY <1>1, <1>2, <1>4, <2>1 DEF all
<1>5. CASE ~(Len(all) <= BufSize)
  <2> DEFINE a == SubSeq(all, BufSize + 1, Len(all))
             b == SubSeq(all, 1, BufSize)
  <2>0. WithLine(n) = [buf |-> a, out |-> b]
    BY <1>3, <1>5, Zenon
  <2> HIDE DEF a, b
  <2>1. WithLine(n).out = b /\ WithLine(n).buf = a
    BY <2>0
  <2> USE DEF a, b
  <2>2. BufSize \in 0 .. Len(all) /\ Len(all) - BufSize <= BufSize
    BY <1>1, <1>2, <1>5, Parameters, SMT
  <2> QED BY <1>1, <1>2, <2>1, <2>2 DEF all
<1> QED BY <1>4, <1>5

\* The types of what a line leaves behind.
LEMMA LineTypes ==
  ASSUME WriterTypes, NEW n \in Nat \ {0}
  PROVE  /\ WithLine(n).buf \in Seq(Nat) /\ Len(WithLine(n).buf) <= BufSize
         /\ WithLine(n).out \in Seq(Nat)
<1> DEFINE all == buf \o <<2 * n - 1, 2 * n>>
<1>1. /\ all \in Seq(Nat)
      /\ \/ WithLine(n).out = <<>> /\ WithLine(n).buf = all /\ Len(all) <= BufSize
         \/ /\ BufSize \in 0 .. Len(all) /\ WithLine(n).out = SubSeq(all, 1, BufSize)
            /\ WithLine(n).buf = SubSeq(all, BufSize + 1, Len(all)) /\ Len(all) - BufSize <= BufSize
  BY LineParts
<1> HIDE DEF all
<1>2. CASE WithLine(n).out = <<>> /\ WithLine(n).buf = all /\ Len(all) <= BufSize
  <2>1. <<>> \in Seq(Nat)
    BY SMT
  <2> QED BY <1>1, <1>2, <2>1
<1>3. CASE /\ BufSize \in 0 .. Len(all) /\ WithLine(n).out = SubSeq(all, 1, BufSize)
           /\ WithLine(n).buf = SubSeq(all, BufSize + 1, Len(all)) /\ Len(all) - BufSize <= BufSize
  BY <1>1, <1>3, Cut
<1> QED BY <1>1, <1>2, <1>3

\* If file and buffer count, a line counts on: what goes to the file, and what stays.
LEMMA LineCounts ==
  ASSUME LogTypeOK, Counts, BufferNext
  PROVE  LET n == Len(lines) + 1
             out == WithLine(n).out
             rest == WithLine(n).buf
         IN /\ \A i \in DOMAIN out : out[i] = Len(file) + i
            /\ Len(out) \in Nat /\ Len(file) \in Nat
            /\ Len(file) + Len(out) + Len(rest) = 2 * (Len(lines) + 1)
            /\ Len(file) + Len(out) <= 2 * (Len(lines) + 1)
            /\ \A i \in DOMAIN rest : rest[i] = Len(file) + Len(out) + i
<1> USE DEF LogTypeOK
<1> DEFINE n == Len(lines) + 1
           all == buf \o <<2 * n - 1, 2 * n>>
           out == WithLine(n).out
           rest == WithLine(n).buf
<1>1. Len(lines) \in Nat /\ n \in Nat \ {0} /\ Len(file) \in Nat /\ Len(buf) \in Nat
  BY SMT DEF WriterTypes
<1>2. /\ all \in Seq(Nat) /\ Len(all) = Len(buf) + 2
      /\ \A i \in DOMAIN buf : all[i] = buf[i]
      /\ all[Len(buf) + 1] = 2 * n - 1 /\ all[Len(buf) + 2] = 2 * n
      /\ \A i \in DOMAIN all : i \in DOMAIN buf \/ i = Len(buf) + 1 \/ i = Len(buf) + 2
      /\ \/ out = <<>> /\ rest = all
         \/ /\ BufSize \in 0 .. Len(all) /\ out = SubSeq(all, 1, BufSize)
            /\ rest = SubSeq(all, BufSize + 1, Len(all))
  BY <1>1, LineParts
<1>3. Len(file) + Len(buf) = 2 * Len(lines) /\ \A i \in DOMAIN buf : buf[i] = Len(file) + i
  BY DEF BufferNext, Total
<1>4. 2 * n - 1 = Len(file) + (Len(buf) + 1) /\ 2 * n = Len(file) + (Len(buf) + 2)
  BY <1>1, <1>3, SMT
<1> HIDE DEF all, out, rest
<1>5. \A i \in DOMAIN all : all[i] = Len(file) + i
  BY <1>2, <1>3, <1>4
<1>6. Len(file) + Len(all) = 2 * (Len(lines) + 1)
  BY <1>1, <1>2, <1>4, SMT
<1>7. CASE out = <<>> /\ rest = all
  <2>1. Len(out) = 0 /\ DOMAIN out = {} /\ Len(all) \in Nat
    BY <1>2, <1>7, SMT
  <2>2. \A i \in DOMAIN rest : rest[i] = Len(file) + Len(out) + i
    <3>1. Len(file) + Len(out) = Len(file)
      BY <1>1, <2>1, SMT
    <3> QED BY <1>5, <1>7, <3>1, Zenon
  <2>3. /\ Len(file) + Len(out) + Len(rest) = 2 * (Len(lines) + 1)
        /\ Len(file) + Len(out) <= 2 * (Len(lines) + 1)
    <3>1. PICK f \in Nat, a \in Nat, m \in Nat : f = Len(file) /\ a = Len(all) /\ m = Len(lines)
      BY <1>1, <2>1
    <3>2. f + a = 2 * (m + 1) /\ a \in Nat => f + 0 + a = 2 * (m + 1) /\ f + 0 <= 2 * (m + 1)
      BY SMT
    <3> QED BY <1>6, <1>7, <2>1, <3>1, <3>2
  <2>4. Len(out) \in Nat /\ \A i \in DOMAIN out : out[i] = Len(file) + i
    BY <2>1
  <2> QED BY <1>1, <2>2, <2>3, <2>4 DEF out, rest
<1>8. CASE BufSize \in 0 .. Len(all) /\ out = SubSeq(all, 1, BufSize)
           /\ rest = SubSeq(all, BufSize + 1, Len(all))
  <2>1. /\ out \in Seq(Nat) /\ Len(out) = BufSize /\ \A i \in 1 .. BufSize : out[i] = all[i]
        /\ rest \in Seq(Nat) /\ Len(rest) = Len(all) - BufSize
        /\ \A i \in 1 .. Len(all) - BufSize : rest[i] = all[BufSize + i]
    BY <1>2, <1>8, Cut
  <2>0. PICK f \in Nat, a \in Nat, m \in Nat, k \in Nat :
          f = Len(file) /\ a = Len(all) /\ m = Len(lines) /\ k = BufSize
    <3>1. Len(all) \in Nat
      BY <1>2, SMT
    <3> QED BY <1>1, <3>1, Parameters
  <2>2. /\ DOMAIN out = 1 .. k /\ DOMAIN rest = 1 .. a - k
        /\ \A i \in 1 .. k : i \in DOMAIN all
        /\ \A i \in 1 .. a - k : k + i \in DOMAIN all /\ f + (k + i) = f + k + i
    <3>1. k <= a /\ DOMAIN all = 1 .. a
      BY <1>2, <1>8, <2>0, SMT
    <3>2. \A i \in 1 .. k : i \in 1 .. a
      BY <3>1, SMT
    <3>3. \A i \in 1 .. a - k : k + i \in 1 .. a /\ f + (k + i) = f + k + i
      BY ONLY <3>1, f \in Nat, a \in Nat, k \in Nat, SMT
    <3>4. DOMAIN out = 1 .. Len(out) /\ DOMAIN rest = 1 .. Len(rest)
      BY <2>1, SMT
    <3> QED BY <2>0, <2>1, <3>1, <3>2, <3>3, <3>4
  <2>3. /\ Len(file) + Len(out) + Len(rest) = 2 * (Len(lines) + 1)
        /\ Len(file) + Len(out) <= 2 * (Len(lines) + 1) /\ Len(out) \in Nat
    <3>1. f + a = 2 * (m + 1) /\ k <= a
      BY <1>6, <1>8, <2>0, SMT
    <3>2. f + k + (a - k) = 2 * (m + 1) /\ f + k <= 2 * (m + 1)
      BY ONLY <3>1, f \in Nat, a \in Nat, k \in Nat, m \in Nat, SMT
    <3> QED BY <2>0, <2>1, <3>2
  <2>4. \A i \in DOMAIN out : out[i] = Len(file) + i
    BY <1>5, <2>0, <2>1, <2>2, Zenon
  <2>5. \A i \in DOMAIN rest : rest[i] = Len(file) + Len(out) + i
    BY <1>5, <2>0, <2>1, <2>2, Zenon
  <2> QED BY <1>1, <2>3, <2>4, <2>5 DEF out, rest
<1> QED BY <1>2, <1>7, <1>8

\* Who is in the writer is there alone, and the writer is open.
LEMMA InWriterAlone ==
  ASSUME LogTypeOK, MutexInv, Up, NEW p \in Producers, pc[p] \in InWriter
  PROVE  /\ ~closed /\ main \in {"waiting", "sender closed"} /\ Open
         /\ pc[Tick] = "flushing" => p = Tick
         /\ \A q \in Producers : pc[q] \in InWriter => q = p
<1>1. ~closed
  BY DEF MutexInv, MuFree
<1>2. main \in {"waiting", "sender closed"}
  BY <1>1 DEF MutexInv, LogTypeOK, EndingTypes, Up
<1> QED BY <1>1, <1>2, Parameters DEF Open, MutexInv, InWriter

\* A line more is a frame more to refer to.
LEMMA MoreLines ==
  ASSUME LogTypeOK, NEW p \in Producers, lines' = Append(lines, At(p)) \/ lines' = lines
  PROVE  /\ lines' \in Seq(Nat) /\ Len(lines') \in Nat
         /\ 1 .. Len(lines) \subseteq 1 .. Len(lines') /\ Total <= Total' /\ Total \in Nat
<1>1. lines \in Seq(Nat) /\ Len(lines) \in Nat
  BY SMT DEF LogTypeOK, WriterTypes
<1>2. lines' \in Seq(Nat) /\ (Len(lines') = Len(lines) + 1 \/ Len(lines') = Len(lines))
  BY <1>1, LineTime
<1>3. PICK m \in Nat, n \in Nat : m = Len(lines) /\ n = Len(lines') /\ m <= n
  BY <1>1, <1>2, SMT
<1>4. 1 .. m \subseteq 1 .. n /\ 2 * m <= 2 * n /\ 2 * m \in Nat
  BY <1>3, SMT
<1> QED BY <1>2, <1>3, <1>4 DEF Total

LEMMA WriteFrameKeepsIInv ==
  ASSUME IInv, NEW p \in Producers, WriteFrame(p)
  PROVE  IInv'
<1> USE Parameters DEF IInv, LogTypeOK
<1> DEFINE n == Len(lines) + 1
           out == WithLine(n).out
           rest == WithLine(n).buf
<1>1. /\ Up /\ pc[p] = "writing" /\ ~failed
      /\ buf' = rest /\ file' = file \o out
      /\ lines' = Append(lines, At(p)) /\ start' = Origin(p)
      /\ cur' = [cur EXCEPT ![p] = n] /\ pc' = [pc EXCEPT ![p] = "send"]
      /\ UNCHANGED <<clock, stamp, todo, closed, failed, flushed, sent, sender, cancelled, main, raced>>
  BY DEF WriteFrame, ending
<1>2. /\ n \in Nat \ {0} /\ Len(lines') = n /\ Origin(p) \in Nat
      /\ lines' \in Seq(Nat) /\ 1 .. Len(lines) \subseteq 1 .. n /\ n \in 1 .. n /\ Total <= Total'
  <2>1. Len(lines) \in Nat /\ Len(lines') = n /\ Origin(p) \in Nat
    BY <1>1, LineTime
  <2>2. n \in Nat \ {0} /\ n \in 1 .. n
    BY <2>1, SMT
  <2> QED BY <1>1, <2>1, <2>2, MoreLines
<1>3. /\ rest \in Seq(Nat) /\ Len(rest) <= BufSize /\ out \in Seq(Nat)
  BY <1>2, LineTypes
<1>4. file \in Seq(Nat) /\ file' \in Seq(Nat)
  <2>1. file \in Seq(Nat)
    BY DEF WriterTypes
  <2> HIDE DEF out
  <2> QED BY <1>1, <1>3, <2>1, SMT
<1> HIDE DEF n, out, rest
<1>5. WriterTypes'
  BY <1>1, <1>2, <1>3, <1>4, Zenon DEF WriterTypes
<1>6. ProducerTypes' /\ EndingTypes'
  <2>1. n \in Nat
    BY <1>2
  <2> QED BY <1>1, <1>2, <2>1 DEF ProducerTypes, EndingTypes
<1>7. /\ pc'[p] = "send" /\ cur'[p] = n
      /\ \A q \in Producers \ {p} : pc'[q] = pc[q] /\ cur'[q] = cur[q]
  BY <1>1 DEF ProducerTypes
<1>8. ProducerInv'
  BY <1>1, <1>2, <1>7 DEF ProducerInv
<1>9. ASSUME ~raced PROVE MutexInv' /\ FileInv'
  <2>1. MutexInv /\ FileInv
    BY <1>9 DEF LogInv
  <2>2. /\ ~closed /\ main \in {"waiting", "sender closed"} /\ Open /\ pc[Tick] # "flushing"
        /\ pc'[Tick] # "flushing"
    BY <1>1, <1>7, <2>1, InWriterAlone, Zenon DEF InWriter
  <2>3. Counts /\ BufferNext
    BY <1>1, <2>1, <2>2 DEF FileInv
  <2>4. MutexInv'
    BY <1>1, <1>7, <2>1, <2>2, Zenon DEF MutexInv, InWriter, MuFree, Up
  <2>5. /\ \A i \in DOMAIN out : out[i] = Len(file) + i
        /\ Len(out) \in Nat /\ Len(file) \in Nat
        /\ Len(file) + Len(out) + Len(rest) = 2 * n
        /\ Len(file) + Len(out) <= 2 * n
        /\ \A i \in DOMAIN rest : rest[i] = Len(file) + Len(out) + i
    BY <2>3, LineCounts DEF n, out, rest
  <2>6. Len(file') = Len(file) + Len(out) /\ Counts'
    BY <1>1, <1>3, <1>4, <2>3, <2>5, CountsOn DEF Counts
  <2>7. BufferNext' /\ Len(file') <= Total'
    BY <1>1, <1>2, <2>5, <2>6 DEF BufferNext, Total
  <2>8. flushed' <= Total' /\ (main' # "power cut" => Len(file') >= flushed')
    <3>1. /\ flushed \in Nat /\ flushed <= Total /\ Len(file) >= flushed /\ flushed' = flushed
          /\ Total \in Nat /\ Total' \in Nat
      <4>1. main # "power cut" /\ Total \in Nat
        BY <1>1, <2>2, MoreLines
      <4>2. Total' \in Nat
        BY <1>2, SMT DEF Total
      <4> QED BY <1>1, <2>1, <4>1, <4>2 DEF FileInv, WriterTypes
    <3>2. PICK t \in Nat, u \in Nat, f \in Nat, o \in Nat, x \in Nat :
            t = Total /\ u = Total' /\ f = Len(file) /\ o = Len(out) /\ x = flushed
      BY <2>5, <3>1
    <3>3. x <= u /\ f + o >= x
      BY ONLY <1>2, <3>1, <3>2, SMT
    <3> QED BY <2>6, <3>1, <3>2, <3>3
  <2>9. FileInv'
    BY <1>1, <2>2, <2>6, <2>7, <2>8, Zenon DEF FileInv, Open
  <2> QED BY <2>4, <2>9
<1> QED BY <1>1, <1>5, <1>6, <1>8, <1>9, Zenon DEF LogInv

LEMMA WriteFrameFailsKeepsIInv ==
  ASSUME IInv, NEW p \in Producers, WriteFrameFails(p)
  PROVE  IInv'
<1> USE Parameters DEF IInv, LogTypeOK
<1> DEFINE n == Len(lines) + 1
           out == WithLine(n).out
<1>1. /\ Up /\ pc[p] = "writing" /\ failed' = TRUE /\ start' = Origin(p)
      /\ pc' = [pc EXCEPT ![p] = "over"] /\ cancelled' = TRUE
      /\ UNCHANGED <<clock, stamp, todo, cur, closed, buf, flushed, sent, sender, main, raced>>
  BY DEF WriteFrameFails, GiveUp
<1>2. lines' = Append(lines, At(p)) \/ lines' = lines
  BY DEF WriteFrameFails
<1>3. /\ n \in Nat \ {0} /\ Origin(p) \in Nat /\ lines' \in Seq(Nat)
      /\ 1 .. Len(lines) \subseteq 1 .. Len(lines') /\ Total <= Total' /\ Total \in Nat
      /\ Total' \in Nat
  <2>1. Len(lines) \in Nat /\ Origin(p) \in Nat /\ Len(lines') \in Nat
    BY <1>2, LineTime, MoreLines
  <2>2. n \in Nat \ {0}
    BY <2>1, SMT
  <2>3. Total' \in Nat
    BY <2>1, SMT DEF Total
  <2> QED BY <1>2, <2>1, <2>2, <2>3, MoreLines
<1>4. file \in Seq(Nat) /\ out \in Seq(Nat)
  BY <1>3, LineTypes DEF WriterTypes
<1>5. \/ file' = file
      \/ /\ ~failed /\ lines' = Append(lines, At(p))
         /\ \E k \in 0 .. Len(out) : file' = file \o SubSeq(out, 1, k)
  BY DEF WriteFrameFails, PartWritten
<1>6. file' \in Seq(Nat)
  <2>1. CASE file' = file
    BY <1>4, <2>1
  <2>2. CASE file' # file
    <3>1. PICK k \in 0 .. Len(out) : file' = file \o SubSeq(out, 1, k)
      BY <1>5, <2>2
    <3>2. SubSeq(out, 1, k) \in Seq(Nat)
      BY <1>4, Cut
    <3>3. PICK t \in Seq(Nat) : t = SubSeq(out, 1, k)
      BY <3>2
    <3>4. file \o t \in Seq(Nat)
      BY <1>4, SMT
    <3> QED BY <3>1, <3>3, <3>4
  <2> QED BY <2>1, <2>2
<1> HIDE DEF n, out
<1>7. WriterTypes' /\ ProducerTypes' /\ EndingTypes'
  <2>1. WriterTypes'
    BY <1>1, <1>3, <1>6, Zenon DEF WriterTypes
  <2> QED BY <1>1, <1>3, <2>1 DEF ProducerTypes, EndingTypes
<1>8. /\ pc'[p] = "over" /\ \A q \in Producers \ {p} : pc'[q] = pc[q]
  BY <1>1 DEF ProducerTypes
<1>9. ProducerInv'
  BY <1>1, <1>3, <1>8 DEF ProducerInv
<1>10. ASSUME ~raced PROVE MutexInv' /\ FileInv'
  <2>1. MutexInv /\ FileInv
    BY <1>10 DEF LogInv
  <2>2. /\ ~closed /\ main \in {"waiting", "sender closed"} /\ Open /\ pc[Tick] # "flushing"
        /\ pc'[Tick] # "flushing"
    BY <1>1, <1>8, <2>1, InWriterAlone, Zenon DEF InWriter
  <2>3. MutexInv'
    BY <1>1, <1>8, <2>1, <2>2, Zenon DEF MutexInv, InWriter, MuFree, Up
  <2>4. /\ Counts' /\ Len(file') >= Len(file) /\ Len(file') <= Total' /\ Len(file') \in Nat
    <3>1. CASE file' = file
      <4>1. Counts /\ Len(file) <= Total
        BY <2>1 DEF FileInv
      <4>2. Len(file) \in Nat
        BY <1>4, SMT
      <4>3. PICK f \in Nat, t \in Nat, u \in Nat :
              f = Len(file) /\ t = Total /\ u = Total' /\ f <= t /\ t <= u
        BY <1>3, <4>1, <4>2
      <4>4. f <= u /\ f >= f
        BY ONLY f \in Nat, t \in Nat, u \in Nat, <4>3, SMT
      <4> QED BY <3>1, <4>1, <4>2, <4>3, <4>4 DEF Counts
    <3>2. CASE file' # file
      <4>1. /\ ~failed /\ lines' = Append(lines, At(p))
            /\ \E k \in 0 .. Len(out) : file' = file \o SubSeq(out, 1, k)
        BY <1>5, <3>2
      <4>2. PICK k \in 0 .. Len(out) : file' = file \o SubSeq(out, 1, k)
        BY <4>1
      <4>3. Counts /\ BufferNext
        BY <4>1, <2>1, <2>2 DEF FileInv
      <4>4. /\ \A i \in DOMAIN out : out[i] = Len(file) + i
            /\ Len(out) \in Nat /\ Len(file) \in Nat
            /\ Len(file) + Len(out) <= 2 * n
        BY <4>3, LineCounts DEF n, out
      <4>5. Len(file') = Len(file) + k /\ Counts'
        BY <1>4, <4>2, <4>3, <4>4, PartCountsOn DEF Counts
      <4>6. Total' = 2 * n
        BY <4>1, LineTime DEF Total, n
      <4>7. PICK f \in Nat, o \in Nat, t \in Nat :
              f = Len(file) /\ o = Len(out) /\ t = Total' /\ f + o <= t
        BY <1>3, <4>4, <4>6
      <4>8. f + k >= f /\ f + k <= t /\ f + k \in Nat
        BY <4>7, SMT
      <4> QED BY <4>5, <4>7, <4>8
    <3> QED BY <3>1, <3>2
  <2>5. flushed' <= Total' /\ Len(file') >= flushed'
    <3>1. /\ flushed \in Nat /\ flushed <= Total /\ Len(file) >= flushed /\ Len(file) \in Nat
      <4>1. main # "power cut"
        BY <2>2
      <4>2. Len(file) \in Nat
        BY <1>4, SMT
      <4> QED BY <2>1, <4>1, <4>2 DEF FileInv, WriterTypes
    <3>2. PICK t \in Nat, u \in Nat, f \in Nat, g \in Nat, x \in Nat :
            t = Total /\ u = Total' /\ f = Len(file) /\ g = Len(file') /\ x = flushed
      BY <1>3, <2>4, <3>1
    <3>3. x <= u /\ g >= x
      BY ONLY <1>3, <2>4, <3>1, <3>2, SMT
    <3> QED BY <1>1, <3>2, <3>3
  <2>6. FileInv'
    BY <1>1, <2>4, <2>5, Zenon DEF FileInv
  <2> QED BY <2>3, <2>6
<1> QED BY <1>1, <1>7, <1>9, <1>10, Zenon DEF LogInv

---------------------------------------------------------------------------
(* The flush at the end of a tick *)

LEMMA FlushKeepsIInv ==
  ASSUME IInv, Flush
  PROVE  IInv'
<1> USE Parameters DEF IInv, LogTypeOK
<1>1. /\ Up /\ pc[Tick] \in {"flush", "flushing"}
      /\ UNCHANGED <<clock, stamp, todo, cur, lines, start, closed, sent, sender, main, raced>>
  BY DEF Flush, FlushNothing, FlushWrites, FlushDone, FlushFails, GiveUp, ending
<1>2. PICK target \in {"idle", "flushing", "over"} : pc' = [pc EXCEPT ![Tick] = target]
  BY Zenon DEF Flush, FlushNothing, FlushWrites, FlushDone, FlushFails, GiveUp
<1>3. /\ pc'[Tick] = target /\ \A q \in Producers \ {Tick} : pc'[q] = pc[q]
  BY <1>2 DEF ProducerTypes
<1>4. ProducerTypes'
  BY <1>1, <1>2 DEF ProducerTypes
<1>5. ProducerInv'
  BY <1>1, <1>2, <1>3, Zenon DEF ProducerInv
<1>6. EndingTypes'
  <2>1. cancelled' \in {cancelled, TRUE}
    BY DEF Flush, FlushNothing, FlushWrites, FlushDone, FlushFails, GiveUp, ending
  <2> QED BY <1>1, <2>1, Zenon DEF EndingTypes
<1>7. /\ buf \in Seq(Nat) /\ file \in Seq(Nat) /\ Len(buf) \in Nat /\ Len(file) \in Nat
      /\ flushed \in Nat /\ Total \in Nat /\ Total' = Total
      /\ <<>> \in Seq(Nat) /\ Len(<<>>) = 0 /\ Len(<<>>) <= BufSize /\ DOMAIN <<>> = {}
  <2>1. buf \in Seq(Nat) /\ file \in Seq(Nat) /\ flushed \in Nat /\ Len(lines) \in Nat
    BY SMT DEF WriterTypes
  <2> QED BY <1>1, <2>1, SMT DEF Total
<1>8. file' \in {file, file \o buf} \/ \E k \in 0 .. Len(buf) : file' = file \o SubSeq(buf, 1, k)
  BY DEF Flush, FlushNothing, FlushWrites, FlushDone, FlushFails, PartWritten
<1>9. file' \in Seq(Nat)
  <2>1. file \o buf \in Seq(Nat)
    BY <1>7, SMT
  <2>2. ASSUME NEW k \in 0 .. Len(buf) PROVE file \o SubSeq(buf, 1, k) \in Seq(Nat)
    <3>1. PICK t \in Seq(Nat) : t = SubSeq(buf, 1, k)
      BY <1>7, Cut
    <3>2. file \o t \in Seq(Nat)
      BY <1>7, SMT
    <3> QED BY <3>1, <3>2
  <2> QED BY <1>7, <1>8, <2>1, <2>2
<1>10. WriterTypes'
  <2>1. buf' \in {buf, <<>>} /\ failed' \in {failed, TRUE} /\ flushed' \in {flushed, Total}
    BY DEF Flush, FlushNothing, FlushWrites, FlushDone, FlushFails, Total
  <2> QED BY <1>1, <1>7, <1>9, <2>1, Zenon DEF WriterTypes
<1>11. ASSUME ~raced PROVE MutexInv' /\ FileInv'
  <2>1. MutexInv /\ FileInv
    BY <1>11 DEF LogInv
  <2>2. main # "power cut" /\ Len(file) >= flushed /\ Len(file) <= Total /\ flushed <= Total
    BY <1>1, <2>1 DEF FileInv, Up
  <2>3. ~closed => Open
    BY <1>1, <2>1, Zenon DEF MutexInv, Open, Up, EndingTypes
  <2>4. CASE FlushNothing
    <3>1. /\ pc' = [pc EXCEPT ![Tick] = "idle"] /\ (closed \/ (buf = <<>> /\ ~failed))
          /\ flushed' = IF closed THEN flushed ELSE Total
          /\ pc[Tick] = "flush" /\ UNCHANGED <<failed, buf, file>>
      BY <2>4 DEF FlushNothing, Total
    <3>2. pc'[Tick] = "idle"
      BY <3>1 DEF ProducerTypes
    <3>3. ~closed => Len(file) = Total
      <4>1. ~closed => BufferNext /\ Len(buf) = 0
        BY <1>7, <2>1, <2>3, <3>1, Zenon DEF FileInv
      <4> QED BY <1>7, <4>1, SMT DEF BufferNext
    <3>4. flushed' <= Total' /\ Len(file') >= flushed'
      <4>1. CASE closed
        BY <1>7, <2>2, <3>1, <4>1
      <4>2. CASE ~closed
        BY <1>7, <3>1, <3>3, <4>2
      <4> QED BY <4>1, <4>2
    <3>5. MutexInv'
      BY <1>1, <1>3, <2>1, <3>1, <3>2, Zenon DEF MutexInv, InWriter, MuFree, Up
    <3>6. FileInv'
      BY <1>1, <1>7, <2>1, <2>2, <3>1, <3>2, <3>4, Zenon DEF FileInv, Counts, BufferNext, Open
    <3> QED BY <3>5, <3>6
  <2>5. CASE FlushWrites
    <3>1. /\ pc[Tick] = "flush" /\ MuFree /\ ~closed /\ ~failed /\ file' = file \o buf
          /\ pc' = [pc EXCEPT ![Tick] = "flushing"] /\ UNCHANGED <<failed, buf, flushed>>
      BY <2>5 DEF FlushWrites
    <3>2. pc'[Tick] = "flushing"
      BY <3>1 DEF ProducerTypes
    <3>3. Counts /\ BufferNext /\ main \in {"waiting", "sender closed"}
      BY <1>1, <2>1, <2>3, <3>1, Zenon DEF FileInv, MutexInv, Up, EndingTypes
    <3>4. Counts' /\ Len(file') = Len(file) + Len(buf)
      BY <1>7, <3>1, <3>3, CountsOn DEF Counts, BufferNext
    <3>5. Len(file') = Total'
      BY <1>7, <3>3, <3>4 DEF BufferNext
    <3>6. flushed' <= Total' /\ Len(file') >= flushed' /\ Len(file') <= Total'
      <4>1. PICK t \in Nat, x \in Nat : t = Total /\ x = flushed /\ x <= t
        BY <1>7, <2>2
      <4>2. t >= x /\ t <= t
        BY <4>1, SMT
      <4> QED BY <1>7, <2>2, <3>1, <3>5, <4>1, <4>2
    <3>7. MutexInv'
      BY <1>1, <1>3, <2>1, <3>1, <3>2, Zenon DEF MutexInv, InWriter, MuFree, Up
    <3>8. FileInv'
      BY <1>1, <3>2, <3>3, <3>4, <3>5, <3>6, Zenon DEF FileInv, Open
    <3> QED BY <3>7, <3>8
  <2>6. CASE FlushDone
    <3>1. /\ pc[Tick] = "flushing" /\ buf' = <<>> /\ flushed' = Total
          /\ pc' = [pc EXCEPT ![Tick] = "idle"] /\ UNCHANGED <<failed, file>>
      BY <2>6 DEF FlushDone, Total
    <3>2. pc'[Tick] = "idle"
      BY <3>1 DEF ProducerTypes
    <3>3. ~failed /\ ~closed /\ Len(file) = Total
      <4>1. ~failed /\ ~closed
        BY <2>1, <3>1, Zenon DEF MutexInv, MuFree, InWriter
      <4> QED BY <2>1, <2>3, <3>1, <4>1, Zenon DEF FileInv
    <3>4. Len(file) + 0 = Total /\ flushed' <= Total' /\ Len(file') >= flushed'
      BY <1>7, <3>1, <3>3
    <3>5. BufferNext'
      BY <1>7, <3>1, <3>4 DEF BufferNext
    <3>6. MutexInv'
      BY <1>1, <1>3, <2>1, <3>1, <3>2, Zenon DEF MutexInv, InWriter, MuFree, Up
    <3>7. FileInv'
      BY <1>1, <1>7, <2>1, <2>2, <3>1, <3>2, <3>4, <3>5, Zenon DEF FileInv, Counts, Open
    <3> QED BY <3>6, <3>7
  <2>7. CASE FlushFails
    <3>1. /\ pc[Tick] = "flush" /\ ~closed /\ failed' = TRUE
          /\ pc' = [pc EXCEPT ![Tick] = "over"] /\ UNCHANGED <<buf, flushed>>
          /\ file' = file \/ (~failed /\ \E k \in 0 .. Len(buf) : file' = file \o SubSeq(buf, 1, k))
      BY <2>7 DEF FlushFails, GiveUp, PartWritten
    <3>2. pc'[Tick] = "over"
      BY <3>1 DEF ProducerTypes
    <3>3. Counts' /\ Len(file') >= Len(file) /\ Len(file') <= Total /\ Len(file') \in Nat
      <4>1. CASE file' = file
        <5>1. Counts /\ Len(file) <= Total
          BY <2>1 DEF FileInv
        <5>2. Len(file) >= Len(file)
          BY <1>7, SMT
        <5> QED BY <1>7, <4>1, <5>1, <5>2 DEF Counts
      <4>2. CASE file' # file
        <5>1. PICK k \in 0 .. Len(buf) : file' = file \o SubSeq(buf, 1, k)
          BY <3>1, <4>2
        <5>2. Counts /\ BufferNext
          <6>1. ~failed /\ Open /\ pc[Tick] # "flushing"
            BY <2>3, <3>1, <4>2
          <6> QED BY <2>1, <6>1 DEF FileInv
        <5>3. Len(file') = Len(file) + k /\ Counts'
          <6>1. /\ \A i \in DOMAIN file : file[i] = i
                /\ \A i \in DOMAIN buf : buf[i] = Len(file) + i
            BY <5>2 DEF Counts, BufferNext
          <6> QED BY <1>7, <5>1, <6>1, PartCountsOn DEF Counts
        <5>4. PICK f \in Nat, b \in Nat, t \in Nat :
                f = Len(file) /\ b = Len(buf) /\ t = Total /\ f + b = t
          BY <1>7, <5>2 DEF BufferNext
        <5>5. f + k >= f /\ f + k <= t /\ f + k \in Nat
          BY <5>4, SMT
        <5> QED BY <5>3, <5>4, <5>5
      <4> QED BY <4>1, <4>2
    <3>4. flushed' <= Total' /\ Len(file') >= flushed' /\ Len(file') <= Total'
      <4>1. PICK f \in Nat, g \in Nat, t \in Nat, x \in Nat :
              /\ f = Len(file) /\ g = Len(file') /\ t = Total /\ x = flushed
              /\ x <= t /\ f >= x /\ g >= f
        BY <1>7, <2>2, <3>3
      <4>2. g >= x
        BY <4>1, SMT
      <4> QED BY <1>7, <3>1, <3>3, <4>1, <4>2
    <3>5. MutexInv'
      BY <1>1, <1>3, <2>1, <3>1, <3>2, Zenon DEF MutexInv, InWriter, MuFree, Up
    <3>6. FileInv'
      BY <3>1, <3>3, <3>4, Zenon DEF FileInv
    <3> QED BY <3>5, <3>6
  <2> QED BY <2>4, <2>5, <2>6, <2>7 DEF Flush
<1> QED BY <1>1, <1>4, <1>5, <1>6, <1>10, <1>11, Zenon DEF LogInv

---------------------------------------------------------------------------
(* The end of the process *)

\* The context is cancelled and main closes the broadcaster, the writer and the file.
LEMMA ClosingKeepsIInv ==
  ASSUME IInv, Cancel \/ CloseSender \/ CloseWriter \/ CloseFlushes \/ CloseFile
  PROVE  IInv'
<1> USE Parameters DEF IInv, LogTypeOK
<1>1. UNCHANGED <<clock, pc, stamp, todo, cur, lines, start, flushed, sent>>
  BY DEF Cancel, CloseSender, CloseWriter, CloseFlushes, CloseFile, producer, writer
<1>2. /\ buf \in Seq(Nat) /\ file \in Seq(Nat) /\ Len(buf) \in Nat /\ Len(file) \in Nat
      /\ flushed \in Nat /\ Total \in Nat /\ Total' = Total
      /\ <<>> \in Seq(Nat) /\ Len(<<>>) <= BufSize
  <2>1. buf \in Seq(Nat) /\ file \in Seq(Nat) /\ flushed \in Nat /\ Len(lines) \in Nat
    BY SMT DEF WriterTypes
  <2> QED BY <1>1, <2>1, SMT DEF Total
<1>3. ProducerTypes' /\ ProducerInv'
  BY <1>1, Zenon DEF ProducerTypes, ProducerInv
<1>4. EndingTypes'
  BY <1>1, Zenon DEF Cancel, CloseSender, CloseWriter, CloseFlushes, CloseFile, EndingTypes, MuFree
<1>5. file' \in {file, file \o buf} \/ \E k \in 0 .. Len(buf) : file' = file \o SubSeq(buf, 1, k)
  BY DEF Cancel, CloseSender, CloseWriter, CloseFlushes, CloseFile, PartWritten, writer
<1>6. file' \in Seq(Nat)
  <2>1. file \o buf \in Seq(Nat)
    BY <1>2, SMT
  <2>2. ASSUME NEW k \in 0 .. Len(buf) PROVE file \o SubSeq(buf, 1, k) \in Seq(Nat)
    <3>1. PICK t \in Seq(Nat) : t = SubSeq(buf, 1, k)
      BY <1>2, Cut
    <3>2. file \o t \in Seq(Nat)
      BY <1>2, SMT
    <3> QED BY <3>1, <3>2
  <2> QED BY <1>2, <1>5, <2>1, <2>2
<1>7. WriterTypes'
  <2>1. buf' \in {buf, <<>>} /\ failed' \in {failed, TRUE} /\ closed' \in {closed, TRUE}
    BY DEF Cancel, CloseSender, CloseWriter, CloseFlushes, CloseFile, writer
  <2> QED BY <1>1, <1>2, <1>6, <2>1, Zenon DEF WriterTypes
<1>8. LogInv'
  <2>1. CASE Cancel
    <3>1. UNCHANGED <<closed, failed, buf, file, main, raced>>
      BY <2>1 DEF Cancel, writer
    <3> QED BY <1>1, <3>1, Zenon DEF LogInv, MutexInv, FileInv, Counts, BufferNext, Total, Open, Up, MuFree
  <2>2. CASE CloseSender
    <3>1. /\ main = "waiting" /\ main' = "sender closed"
          /\ UNCHANGED <<closed, failed, buf, file, raced>>
      BY <2>2 DEF CloseSender, writer
    <3> QED BY <1>1, <3>1, Zenon DEF LogInv, MutexInv, FileInv, Counts, BufferNext, Total, Open, Up, MuFree
  <2>3. CASE CloseWriter
    <3>1. /\ main = "sender closed" /\ main' = "writer closed" /\ closed' = TRUE
          /\ raced' = ~MuFree /\ UNCHANGED <<failed, buf, file>>
      BY <2>3 DEF CloseWriter
    <3>2. MutexInv /\ FileInv
      BY <3>1 DEF LogInv
    <3>3. ~raced' => MutexInv'
      BY <1>1, <3>1, <3>2, Zenon DEF MutexInv, Up, MuFree
    <3>4. FileInv'
      BY <1>1, <3>1, <3>2, Zenon DEF FileInv, Counts, BufferNext, Total, Open
    <3> QED BY <3>1, <3>3, <3>4 DEF LogInv
  <2>4. CASE CloseFlushes
    <3> SUFFICES ASSUME ~raced PROVE MutexInv' /\ FileInv'
      BY <2>4 DEF LogInv, CloseFlushes
    <3>1. /\ main = "writer closed" /\ main' = "flushed" /\ UNCHANGED <<closed, buf>>
          /\ \/ ~failed /\ file' = file \o buf /\ failed' = failed
             \/ failed' = TRUE /\ file' = file
             \/ ~failed /\ failed' = TRUE /\ \E k \in 0 .. Len(buf) : file' = file \o SubSeq(buf, 1, k)
      BY <2>4 DEF CloseFlushes, PartWritten
    <3>2. MutexInv /\ FileInv
      BY DEF LogInv
    <3>3. closed /\ pc[Tick] # "flushing" /\ Open
      BY <3>1, <3>2 DEF MutexInv, MuFree, InWriter, Up, Open
    <3>4. MutexInv'
      BY <1>1, <3>1, <3>2, <3>3, Zenon DEF MutexInv, Up, MuFree
    <3>5. Counts /\ Len(file) <= Total /\ flushed <= Total /\ Len(file) >= flushed
      BY <3>1, <3>2 DEF FileInv
    <3>6. ~failed => /\ BufferNext
                     /\ \A i \in DOMAIN file : file[i] = i
                     /\ \A i \in DOMAIN buf : buf[i] = Len(file) + i
                     /\ Len(file) + Len(buf) = Total
      BY <3>2, <3>3, <3>5 DEF FileInv, BufferNext, Counts
    <3>7. /\ Counts' /\ Len(file') >= Len(file) /\ Len(file') <= Total /\ Len(file') \in Nat
          /\ ~failed' => Len(file') = Total
      <4>1. CASE ~failed /\ file' = file \o buf /\ failed' = failed
        <5>1. Len(file') = Len(file) + Len(buf) /\ Counts'
          BY <1>2, <3>6, <4>1, CountsOn DEF Counts
        <5>2. Len(file') = Total
          BY <3>6, <4>1, <5>1
        <5>3. Total >= Len(file) /\ Total <= Total
          <6>1. PICK f \in Nat, x \in Nat : f = Len(file) /\ x = Total /\ f <= x
            BY <1>2, <3>5
          <6>2. x >= f /\ x <= x
            BY <6>1, SMT
          <6> QED BY <6>1, <6>2
        <5> QED BY <1>2, <5>1, <5>2, <5>3
      <4>2. CASE failed' = TRUE /\ file' = file
        <5>1. Len(file) >= Len(file)
          BY <1>2, SMT
        <5> QED BY <1>2, <3>5, <4>2, <5>1 DEF Counts
      <4>3. CASE ~failed /\ failed' = TRUE /\ \E k \in 0 .. Len(buf) : file' = file \o SubSeq(buf, 1, k)
        <5>1. PICK k \in 0 .. Len(buf) : file' = file \o SubSeq(buf, 1, k)
          BY <4>3
        <5>2. Len(file') = Len(file) + k /\ Counts'
          <6>1. /\ \A i \in DOMAIN file : file[i] = i
                /\ \A i \in DOMAIN buf : buf[i] = Len(file) + i
            BY <3>6, <4>3
          <6> QED BY <1>2, <5>1, <6>1, PartCountsOn DEF Counts
        <5>3. PICK f \in Nat, b \in Nat, t \in Nat :
                f = Len(file) /\ b = Len(buf) /\ t = Total /\ f + b = t
          BY <1>2, <3>6, <4>3
        <5>4. f + k >= f /\ f + k <= t /\ f + k \in Nat
          BY <5>3, SMT
        <5> QED BY <4>3, <5>2, <5>3, <5>4
      <4> QED BY <3>1, <4>1, <4>2, <4>3
    <3>8. Len(file') >= flushed
      <4>1. PICK f \in Nat, g \in Nat, x \in Nat :
              f = Len(file) /\ g = Len(file') /\ x = flushed /\ f >= x /\ g >= f
        BY <1>2, <3>5, <3>7
      <4>2. g >= x
        BY <4>1, SMT
      <4> QED BY <4>1, <4>2
    <3>9. FileInv'
      BY <1>1, <1>2, <3>1, <3>5, <3>7, <3>8, Zenon DEF FileInv, Open
    <3> QED BY <3>4, <3>9
  <2>5. CASE CloseFile
    <3> SUFFICES ASSUME ~raced PROVE MutexInv' /\ FileInv'
      BY <2>5 DEF LogInv, CloseFile
    <3>1. /\ main = "flushed" /\ main' = "file closed" /\ UNCHANGED <<closed, failed, file>>
      BY <2>5 DEF CloseFile
    <3>2. MutexInv /\ FileInv
      BY DEF LogInv
    <3>3. MutexInv'
      BY <1>1, <3>1, <3>2, Zenon DEF MutexInv, Up, MuFree
    <3>4. FileInv'
      BY <1>1, <1>2, <3>1, <3>2, Zenon DEF FileInv, Counts, Open
    <3> QED BY <3>3, <3>4
  <2> QED BY <2>1, <2>2, <2>3, <2>4, <2>5
<1> QED BY <1>3, <1>4, <1>7, <1>8

\* The first k of a sequence that counts count.
LEMMA CutCounts ==
  ASSUME NEW s \in Seq(Nat), NEW k \in 0 .. Len(s), NEW t \in Nat, Len(s) <= t,
         \A i \in DOMAIN s : s[i] = i
  PROVE  /\ Len(SubSeq(s, 1, k)) <= t
         /\ \A i \in DOMAIN SubSeq(s, 1, k) : SubSeq(s, 1, k)[i] = i
<1>1. /\ SubSeq(s, 1, k) \in Seq(Nat) /\ Len(SubSeq(s, 1, k)) = k
      /\ \A i \in 1 .. k : SubSeq(s, 1, k)[i] = s[i]
  BY Cut
<1>2. DOMAIN SubSeq(s, 1, k) = 1 .. k /\ \A i \in 1 .. k : i \in DOMAIN s
  BY <1>1, SMT
<1>3. Len(s) \in Nat /\ k \in Nat /\ k <= Len(s) /\ k <= t
  BY SMT
<1> QED BY <1>1, <1>2, <1>3

\* The sequences of the writer and their lengths.
LEMMA Lengths ==
  ASSUME WriterTypes
  PROVE  /\ file \in Seq(Nat) /\ Len(file) \in Nat /\ flushed \in Nat /\ Total \in Nat
         /\ <<>> \in Seq(Nat) /\ Len(<<>>) <= BufSize
<1>1. file \in Seq(Nat) /\ flushed \in Nat /\ lines \in Seq(Nat)
  BY DEF WriterTypes
<1>2. Len(file) \in Nat /\ 2 * Len(lines) \in Nat
  BY <1>1, SMT
<1>3. <<>> \in Seq(Nat) /\ Len(<<>>) <= BufSize
  BY Parameters, SMT
<1> QED BY <1>1, <1>2, <1>3 DEF Total

\* The process ends: what it leaves is the file, whole or a part of it.
LEMMA GoneKeepsIInv ==
  ASSUME IInv, Exit \/ Crash
  PROVE  IInv'
<1> USE Parameters DEF IInv, LogTypeOK
<1>1. PICK how \in {"exited", "crashed", "power cut"} :
        /\ Gone(how)
        /\ how = "exited" => main = "file closed"
        /\ \/ file' = file
           \/ how = "power cut" /\ \E k \in 0 .. Len(file) : file' = SubSeq(file, 1, k)
  BY DEF Exit, Crash
<1>2. /\ main' = how /\ buf' = <<>> /\ start' = NoTime /\ closed' = FALSE
      /\ pc' = [p \in Producers |-> "over"] /\ stamp' = [p \in Producers |-> 0]
      /\ todo' = [p \in Producers |-> 0] /\ cur' = [p \in Producers |-> 0]
      /\ sender' = FALSE /\ cancelled' = FALSE /\ clock' = 0
      /\ UNCHANGED <<lines, failed, flushed, sent, raced>>
  BY <1>1 DEF Gone
<1>3. /\ file \in Seq(Nat) /\ Len(file) \in Nat /\ flushed \in Nat /\ Total \in Nat /\ Total' = Total
      /\ <<>> \in Seq(Nat) /\ Len(<<>>) <= BufSize /\ 0 \in Nat
  BY <1>2, Lengths DEF Total
<1>4. file' \in Seq(Nat)
  BY <1>1, <1>3, Cut
<1>5. ProducerTypes' /\ EndingTypes' /\ WriterTypes'
  <2>1. ProducerTypes'
    BY <1>2, <1>3, Zenon DEF ProducerTypes
  <2> QED BY <1>1, <1>2, <1>3, <1>4, <2>1 DEF WriterTypes, EndingTypes
<1>6. \A p \in Producers : pc'[p] = "over"
  BY <1>2
<1>7. ProducerInv'
  BY <1>6, Zenon DEF ProducerInv
<1>8. ASSUME ~raced PROVE MutexInv' /\ FileInv'
  <2>1. MutexInv /\ FileInv
    BY <1>8 DEF LogInv
  <2>2. MutexInv'
    BY <1>1, <1>2, <1>6 DEF MutexInv, InWriter, Up
  <2>3. Counts' /\ Len(file') <= Total
    <3>1. Counts /\ Len(file) <= Total
      BY <2>1 DEF FileInv
    <3>2. CASE file' = file
      BY <3>1, <3>2 DEF Counts
    <3>3. CASE file' # file
      <4>1. PICK k \in 0 .. Len(file) : file' = SubSeq(file, 1, k)
        BY <1>1, <3>3
      <4>2. \A i \in DOMAIN file : file[i] = i
        BY <3>1 DEF Counts
      <4> QED BY <1>3, <3>1, <4>1, <4>2, CutCounts DEF Counts
    <3> QED BY <3>2, <3>3
  <2>4. main' # "power cut" => file' = file /\ main # "power cut"
    BY <1>1, <1>2 DEF Exit, Crash, Up
  <2>5. main' = "exited" => main = "file closed" /\ file' = file
    BY <1>1, <1>2
  <2>6. FileInv'
    BY <1>1, <1>2, <1>3, <2>1, <2>3, <2>4, <2>5 DEF FileInv, Open
  <2> QED BY <2>2, <2>6
<1> QED BY <1>1, <1>2, <1>5, <1>7, <1>8 DEF LogInv

---------------------------------------------------------------------------
(* The recording, and the player on what it leaves *)

LEMMA NextKeepsIInv == IInv /\ [Next]_allVars => IInv'
<1> SUFFICES ASSUME IInv, [Next]_allVars PROVE IInv'
  OBVIOUS
<1>1. CASE LogNext
  <2>1. CASE Pass
    BY <2>1, OutsideKeepsIInv
  <2>2. CASE \E p \in Producers : Produce(p)
    <3>1. PICK p \in Producers : Produce(p)
      BY <2>2
    <3>2. CASE WriteFrame(p)
      BY <3>2, WriteFrameKeepsIInv
    <3>3. CASE WriteFrameFails(p)
      BY <3>3, WriteFrameFailsKeepsIInv
    <3>4. CASE Wake(p) \/ Leave(p) \/ Enter(p) \/ RecordRefused(p) \/ Send(p)
      BY <3>4, OutsideKeepsIInv
    <3> QED BY <3>1, <3>2, <3>3, <3>4 DEF Produce
  <2>3. CASE Flush
    BY <2>3, FlushKeepsIInv
  <2>4. CASE End
    <3>1. CASE Cancel \/ CloseSender \/ CloseWriter \/ CloseFlushes \/ CloseFile
      BY <3>1, ClosingKeepsIInv
    <3>2. CASE Exit \/ Crash
      BY <3>2, GoneKeepsIInv
    <3> QED BY <2>4, <3>1, <3>2 DEF End
  <2> QED BY <1>1, <2>1, <2>2, <2>3, <2>4 DEF LogNext
<1>2. CASE ~LogNext
  <2>1. UNCHANGED vars
    BY <1>2 DEF Next, Recording, ReadAll, ReadTorn, ReadRefuses, ReadsAs, Play, PlayOne, PlayStops,
       SendFails, EndPass, StopReplay, recorder, producer, writer, ending, vars, allVars
  <2> QED BY <2>1, Zenon DEF vars, IInv, LogTypeOK, ProducerTypes, WriterTypes, EndingTypes,
       ProducerInv, LogInv, MutexInv, MuFree, Up, FileInv, Counts, Total, BufferNext, Open
<1> QED BY <1>1, <1>2

---------------------------------------------------------------------------
(* What holds although main closes the writer without its lock *)

\* The two halves of line n are next to each other in s.
Whole(s, n) == \E i \in 1 .. Len(s) - 1 : s[i] = 2 * n - 1 /\ s[i + 1] = 2 * n

\* Whoever is in the writer when main closes it stays alone there, and nothing is sent anymore.
AloneInv ==
  /\ \A p, q \in Producers : pc[p] \in InWriter /\ pc[q] \in InWriter => p = q
  /\ Up => (closed <=> main \in {"writer closed", "flushed", "file closed"})
  /\ sender => main = "waiting"

\* As long as no write fails, the lines that were sent are whole in the file and the buffer behind
\* it, and in the file alone while the buffer is in it and once main has flushed.
SentInv ==
  ~failed =>
    /\ Open /\ pc[Tick] # "flushing" => \A n \in sent : Whole(file \o buf, n)
    /\ Open /\ pc[Tick] = "flushing" => \A n \in sent : Whole(file, n)
    /\ main \in {"flushed", "file closed", "exited"} => \A n \in sent : Whole(file, n)

SentIInv == IInv /\ AloneInv /\ (raced => SentInv)

\* A line that is whole stays so when more comes behind it.
LEMMA StaysWhole ==
  ASSUME NEW s, NEW t, Len(s) \in Nat, Len(t) \in Nat, Len(s) <= Len(t),
         \A i \in 1 .. Len(s) : t[i] = s[i], NEW n, Whole(s, n)
  PROVE  Whole(t, n)
<1>1. PICK i \in 1 .. Len(s) - 1 : s[i] = 2 * n - 1 /\ s[i + 1] = 2 * n
  BY DEF Whole
<1>2. i \in 1 .. Len(t) - 1 /\ i \in 1 .. Len(s) /\ i + 1 \in 1 .. Len(s)
  BY SMT
<1>3. t[i] = s[i] /\ t[i + 1] = s[i + 1]
  BY <1>2
<1> QED BY <1>1, <1>2, <1>3, Zenon DEF Whole

\* So it does in the file with the buffer, and with a part of it.
LEMMA WholeBefore ==
  ASSUME NEW s \in Seq(Nat), NEW t \in Seq(Nat)
  PROVE  /\ s \o t \in Seq(Nat) /\ Len(s \o t) = Len(s) + Len(t)
         /\ \A i \in 1 .. Len(s) : (s \o t)[i] = s[i]
         /\ \A n : Whole(s, n) => Whole(s \o t, n)
<1>1. /\ s \o t \in Seq(Nat) /\ Len(s \o t) = Len(s) + Len(t)
      /\ \A i \in 1 .. Len(s) : (s \o t)[i] = s[i]
  BY SMT
<1>2. Len(s) \in Nat /\ Len(s \o t) \in Nat /\ Len(s) <= Len(s \o t)
  BY <1>1, SMT
<1>3. ASSUME NEW n, Whole(s, n) PROVE Whole(s \o t, n)
  BY <1>1, <1>2, <1>3, StaysWhole
<1> QED BY <1>1, <1>3

\* Halves that count from 1 hold every line whole, up to the last of them.
LEMMA CountsAreWhole ==
  ASSUME NEW s \in Seq(Nat), \A i \in DOMAIN s : s[i] = i, NEW m \in Nat, Len(s) = 2 * m,
         NEW n \in 1 .. m
  PROVE  Whole(s, n)
<1>1. 2 * n - 1 \in 1 .. Len(s) - 1 /\ 2 * n - 1 \in 1 .. Len(s) /\ 2 * n \in 1 .. Len(s)
      /\ (2 * n - 1) + 1 = 2 * n
  BY SMT
<1>2. DOMAIN s = 1 .. Len(s)
  BY SMT
<1>3. s[2 * n - 1] = 2 * n - 1 /\ s[2 * n] = 2 * n
  BY <1>1, <1>2
<1>4. s[(2 * n - 1) + 1] = 2 * n
  BY <1>1, <1>3
<1> QED BY <1>1, <1>3, <1>4, Zenon DEF Whole

\* So it is as long as nobody was in the writer when main closed it.
LEMMA SentUnlessRaced ==
  ASSUME IInv, ~raced
  PROVE  SentInv
<1> USE DEF IInv, LogTypeOK
<1>1. FileInv /\ Counts /\ sent \subseteq 1 .. Len(lines)
  BY DEF LogInv, FileInv, EndingTypes
<1>2. file \in Seq(Nat) /\ buf \in Seq(Nat) /\ Len(lines) \in Nat
  BY SMT DEF WriterTypes
<1>3. \A i \in DOMAIN file : file[i] = i
  BY <1>1 DEF Counts
<1>4. ASSUME BufferNext PROVE \A n \in sent : Whole(file \o buf, n)
  <2>1. Len(file) + Len(buf) = 2 * Len(lines) /\ \A i \in DOMAIN buf : buf[i] = Len(file) + i
    BY <1>4 DEF BufferNext, Total
  <2>2. /\ file \o buf \in Seq(Nat) /\ Len(file \o buf) = 2 * Len(lines)
        /\ \A i \in DOMAIN (file \o buf) : (file \o buf)[i] = i
    BY <1>2, <1>3, <2>1, CountsOn
  <2> QED BY <1>1, <1>2, <2>2, CountsAreWhole
<1>5. ASSUME Len(file) = Total PROVE \A n \in sent : Whole(file, n)
  <2>1. Len(file) = 2 * Len(lines)
    BY <1>5 DEF Total
  <2> QED BY <1>1, <1>2, <1>3, <2>1, CountsAreWhole
<1> QED BY <1>1, <1>4, <1>5, Zenon DEF FileInv, SentInv

\* Nobody comes in while another is there, and nobody at all once the writer is closed.
LEMMA NextKeepsAlone ==
  ASSUME IInv, AloneInv, LogNext
  PROVE  AloneInv'
<1> USE DEF IInv, LogTypeOK
<1>0. DOMAIN pc = Producers /\ Tick \in Producers
  BY Parameters DEF ProducerTypes
<1>1. CASE Pass
  BY <1>1, Zenon DEF Pass, producer, writer, ending, AloneInv, Up
<1>2. ASSUME NEW p \in Producers, Produce(p) PROVE AloneInv'
  <2>1. /\ Up /\ UNCHANGED <<closed, main, sender>>
    BY <1>2 DEF Produce, Wake, Leave, Enter, RecordRefused, WriteFrame, WriteFrameFails, Send,
       GiveUp, writer, ending
  <2>2. PICK target \in {"idle", "record", "writing", "send", "flush", "over"} :
          /\ pc' = [pc EXCEPT ![p] = target] /\ (target = "writing" => MuFree)
    <3>1. CASE Wake(p) \/ Leave(p) \/ RecordRefused(p) \/ WriteFrame(p) \/ WriteFrameFails(p)
      BY <3>1, Zenon DEF Wake, Leave, RecordRefused, WriteFrame, WriteFrameFails, GiveUp
    <3>2. CASE Enter(p)
      BY <3>2, Zenon DEF Enter
    <3>3. CASE Send(p)
      BY <3>3, Zenon DEF Send
    <3> QED BY <1>2, <3>1, <3>2, <3>3 DEF Produce
  <2>3. pc'[p] = target /\ \A q \in Producers \ {p} : pc'[q] = pc[q]
    BY <1>0, <2>2
  <2>4. \A q, r \in Producers : pc'[q] \in InWriter /\ pc'[r] \in InWriter => q = r
    BY <2>2, <2>3, Zenon DEF AloneInv, MuFree, InWriter
  <2> QED BY <2>1, <2>4, Zenon DEF AloneInv, Up
<1>3. CASE Flush
  <2>1. /\ Up /\ UNCHANGED <<closed, main, sender>>
    BY <1>3 DEF Flush, FlushNothing, FlushWrites, FlushDone, FlushFails, GiveUp, ending
  <2>2. PICK target \in {"idle", "flushing", "over"} :
          /\ pc' = [pc EXCEPT ![Tick] = target] /\ (target = "flushing" => MuFree)
    BY <1>3, Zenon DEF Flush, FlushNothing, FlushWrites, FlushDone, FlushFails, GiveUp
  <2>3. pc'[Tick] = target /\ \A q \in Producers \ {Tick} : pc'[q] = pc[q]
    BY <1>0, <2>2
  <2>4. \A q, r \in Producers : pc'[q] \in InWriter /\ pc'[r] \in InWriter => q = r
    BY <2>2, <2>3, Zenon DEF AloneInv, MuFree, InWriter
  <2> QED BY <2>1, <2>4, Zenon DEF AloneInv, Up
<1>4. CASE Cancel \/ CloseSender \/ CloseWriter \/ CloseFlushes \/ CloseFile
  <2>1. pc' = pc
    BY <1>4 DEF Cancel, CloseSender, CloseWriter, CloseFlushes, CloseFile, producer
  <2>2. /\ Up' => (closed' <=> main' \in {"writer closed", "flushed", "file closed"})
        /\ sender' => main' = "waiting"
    <3>1. CASE Cancel
      BY <3>1, Zenon DEF Cancel, writer, AloneInv, Up
    <3>2. CASE CloseSender
      BY <3>2, Zenon DEF CloseSender, writer, AloneInv, Up
    <3>3. CASE CloseWriter
      BY <3>3, Zenon DEF CloseWriter, AloneInv, Up
    <3>4. CASE CloseFlushes
      BY <3>4, Zenon DEF CloseFlushes, AloneInv, Up
    <3>5. CASE CloseFile
      BY <3>5, Zenon DEF CloseFile, AloneInv, Up
    <3> QED BY <1>4, <3>1, <3>2, <3>3, <3>4, <3>5
  <2> QED BY <2>1, <2>2, Zenon DEF AloneInv
<1>5. CASE Exit \/ Crash
  <2>1. /\ \A p \in Producers : pc'[p] = "over"
        /\ main' \in {"exited", "crashed", "power cut"} /\ sender' = FALSE
    BY <1>5 DEF Exit, Crash, Gone
  <2> QED BY <2>1, Zenon DEF AloneInv, InWriter, Up
<1> QED BY <1>1, <1>2, <1>3, <1>4, <1>5 DEF LogNext, End

\* What file and buffer held before a line more, they hold after it.
LEMMA LineBehind ==
  ASSUME WriterTypes, NEW n \in Nat \ {0}
  PROVE  LET new == (file \o WithLine(n).out) \o WithLine(n).buf
         IN /\ Len(file \o buf) \in Nat /\ Len(new) \in Nat /\ Len(file \o buf) <= Len(new)
            /\ \A i \in 1 .. Len(file \o buf) : new[i] = (file \o buf)[i]
<1> DEFINE all == buf \o <<2 * n - 1, 2 * n>>
           out == WithLine(n).out
           rest == WithLine(n).buf
           new == (file \o out) \o rest
<1>1. /\ file \in Seq(Nat) /\ buf \in Seq(Nat) /\ Len(file) \in Nat /\ Len(buf) \in Nat
  BY SMT DEF WriterTypes
<1>2. /\ all \in Seq(Nat) /\ Len(all) = Len(buf) + 2
      /\ \A i \in 1 .. Len(buf) : all[i] = buf[i]
  <2>1. DOMAIN buf = 1 .. Len(buf)
    BY <1>1, SMT
  <2> QED BY <2>1, LineParts
<1>3. out \in Seq(Nat) /\ rest \in Seq(Nat)
  BY LineTypes
<1>4. \/ out = <<>> /\ rest = all
      \/ /\ BufSize \in 0 .. Len(all) /\ out = SubSeq(all, 1, BufSize)
         /\ rest = SubSeq(all, BufSize + 1, Len(all))
  BY LineParts
<1> HIDE DEF all, out, rest
<1>5. /\ Len(out) \in Nat /\ Len(rest) \in Nat /\ Len(out) + Len(rest) = Len(all)
      /\ \A i \in 1 .. Len(out) : out[i] = all[i]
      /\ \A i \in 1 .. Len(rest) : rest[i] = all[Len(out) + i]
  <2>1. CASE out = <<>> /\ rest = all
    BY <1>2, <2>1, SMT
  <2>2. CASE /\ BufSize \in 0 .. Len(all) /\ out = SubSeq(all, 1, BufSize)
             /\ rest = SubSeq(all, BufSize + 1, Len(all))
    <3>1. /\ Len(out) = BufSize /\ \A i \in 1 .. BufSize : out[i] = all[i]
          /\ Len(rest) = Len(all) - BufSize
          /\ \A i \in 1 .. Len(all) - BufSize : rest[i] = all[BufSize + i]
      BY <1>2, <2>2, Cut
    <3>2. PICK a \in Nat, b \in Nat : a = Len(all) /\ b = BufSize
      BY <1>1, <1>2, Parameters
    <3>3. a - b \in Nat /\ b + (a - b) = a
      BY <2>2, <3>2, SMT
    <3> QED BY <2>2, <3>1, <3>2, <3>3
  <2> QED BY <1>4, <2>1, <2>2
<1>6. /\ Len(new) = Len(file) + Len(out) + Len(rest) /\ Len(new) \in Nat
      /\ \A i \in 1 .. Len(file) : new[i] = file[i]
      /\ \A i \in 1 .. Len(out) : new[Len(file) + i] = out[i]
      /\ \A i \in 1 .. Len(rest) : new[Len(file) + Len(out) + i] = rest[i]
  <2>1. /\ file \o out \in Seq(Nat) /\ Len(file \o out) = Len(file) + Len(out)
        /\ \A i \in 1 .. Len(file) : (file \o out)[i] = file[i]
        /\ \A i \in 1 .. Len(out) : (file \o out)[Len(file) + i] = out[i]
    BY <1>1, <1>3, SMT
  <2> DEFINE head == file \o out
  <2> HIDE DEF head
  <2>2. /\ Len(head \o rest) = Len(head) + Len(rest)
        /\ \A i \in 1 .. Len(head) : (head \o rest)[i] = head[i]
        /\ \A i \in 1 .. Len(rest) : (head \o rest)[Len(head) + i] = rest[i]
    BY <1>3, <2>1, SMT DEF head
  <2>3. \A i \in 1 .. Len(file) : i \in 1 .. Len(file) + Len(out)
    BY <1>1, <1>5, SMT
  <2>4. \A i \in 1 .. Len(out) : Len(file) + i \in 1 .. Len(file) + Len(out)
    BY <1>1, <1>5, SMT
  <2>5. Len(file) + Len(out) + Len(rest) \in Nat
    BY <1>1, <1>5, SMT
  <2> QED BY <2>1, <2>2, <2>3, <2>4, <2>5 DEF head
<1>7. /\ Len(file \o buf) = Len(file) + Len(buf)
      /\ \A i \in 1 .. Len(file) : (file \o buf)[i] = file[i]
      /\ \A i \in 1 .. Len(buf) : (file \o buf)[Len(file) + i] = buf[i]
  BY <1>1, SMT
<1> HIDE DEF new
<1>8. ASSUME NEW i \in 1 .. Len(file \o buf) PROVE new[i] = (file \o buf)[i]
  <2>1. CASE i <= Len(file)
    <3>1. i \in 1 .. Len(file)
      BY <1>1, <1>7, <2>1, SMT
    <3> QED BY <1>6, <1>7, <3>1
  <2>2. CASE ~(i <= Len(file))
    <3> DEFINE k == i - Len(file)
    <3>1. k \in 1 .. Len(buf) /\ Len(file) + k = i
      BY <1>1, <1>7, <2>2, SMT
    <3> HIDE DEF k
    <3>2. (file \o buf)[i] = all[k]
      BY <1>2, <1>7, <3>1
    <3>3. CASE k <= Len(out)
      <4>1. k \in 1 .. Len(out)
        BY <1>5, <3>1, <3>3, SMT
      <4> QED BY <1>5, <1>6, <3>1, <3>2, <4>1
    <3>4. CASE ~(k <= Len(out))
      <4> DEFINE m == k - Len(out)
      <4>1. m \in 1 .. Len(rest) /\ Len(out) + m = k /\ Len(file) + Len(out) + m = i
        <5>1. /\ Len(file) \in Nat /\ Len(buf) \in Nat /\ Len(out) \in Nat /\ Len(rest) \in Nat
              /\ Len(out) + Len(rest) = Len(buf) + 2
          BY <1>1, <1>2, <1>5
        <5>2. k \in Nat /\ k <= Len(buf) /\ Len(file) + k = i /\ ~(k <= Len(out))
          <6>1. \A b \in Nat : \A j \in 1 .. b : j \in Nat /\ j <= b
            BY SMT
          <6> QED BY <3>1, <3>4, <5>1, <6>1
        <5>3. \A f, b, o, r, j \in Nat :
                o + r = b + 2 /\ j <= b /\ ~(j <= o) =>
                  j - o \in 1 .. r /\ o + (j - o) = j /\ f + o + (j - o) = f + j
          BY SMT
        <5> QED BY <5>1, <5>2, <5>3
      <4> HIDE DEF m
      <4> QED BY <1>5, <1>6, <3>2, <4>1
    <3> QED BY <3>3, <3>4
  <2> QED BY <2>1, <2>2
<1>9. Len(file \o buf) \in Nat /\ Len(file \o buf) <= Len(new)
  BY <1>1, <1>2, <1>5, <1>6, <1>7, SMT
<1> QED BY <1>6, <1>8, <1>9 DEF new, out, rest

\* No step of somebody who is still in the closed writer loses a line that was sent.
LEMMA NextKeepsSent ==
  ASSUME SentIInv, LogNext, raced'
  PROVE  SentInv'
<1> USE Parameters DEF SentIInv, IInv, LogTypeOK
<1>1. SentInv
  BY SentUnlessRaced
<1>2. file \in Seq(Nat) /\ buf \in Seq(Nat) /\ <<>> \in Seq(Nat)
  BY SMT DEF WriterTypes
<1>3. CASE CloseWriter
  <2>1. /\ main = "sender closed" /\ main' = "writer closed"
        /\ UNCHANGED <<pc, failed, buf, file, sent>>
    BY <1>3 DEF CloseWriter, producer
  <2> QED BY <1>1, <2>1, Zenon DEF SentInv, Open
<1>4. ASSUME ~CloseWriter PROVE raced /\ ~sender /\ (Up => closed) /\ UNCHANGED sent
  <2>1. raced
    BY <1>4 DEF LogNext, Pass, Produce, Wake, Leave, Enter, RecordRefused, WriteFrame, WriteFrameFails,
       Send, GiveUp, Flush, FlushNothing, FlushWrites, FlushDone, FlushFails, End, Cancel, CloseSender,
       CloseFlushes, CloseFile, Exit, Crash, Gone, ending
  <2>2. main \notin {"waiting", "sender closed"}
    BY <2>1 DEF LogInv
  <2>3. ~sender /\ (Up => closed)
    BY <2>2, Zenon DEF AloneInv, EndingTypes, Up
  <2>4. UNCHANGED sent
    BY <1>4, <2>3 DEF LogNext, Pass, Produce, Wake, Leave, Enter, RecordRefused, WriteFrame, WriteFrameFails,
       Send, GiveUp, Flush, FlushNothing, FlushWrites, FlushDone, FlushFails, End, Cancel, CloseSender,
       CloseFlushes, CloseFile, Exit, Crash, Gone
  <2> QED BY <2>1, <2>3, <2>4
<1>5. CASE Pass
  BY <1>1, <1>5 DEF Pass, producer, writer, ending, SentInv, Open
<1>6. ASSUME NEW p \in Producers, Produce(p), ~CloseWriter PROVE SentInv'
  <2>1. Up /\ closed /\ UNCHANGED main /\ UNCHANGED sent
    BY <1>4, <1>6 DEF Produce, Wake, Leave, Enter, RecordRefused, WriteFrame, WriteFrameFails, Send,
       GiveUp, ending
  <2>2. CASE WriteFrame(p)
    <3> DEFINE n == Len(lines) + 1
    <3>1. /\ pc[p] = "writing" /\ buf' = WithLine(n).buf /\ file' = file \o WithLine(n).out
          /\ failed' = failed
      BY <2>2 DEF WriteFrame
    <3>2. pc[Tick] # "flushing" /\ pc'[Tick] # "flushing"
      <4>1. pc[Tick] # "flushing"
        BY <3>1, Zenon DEF AloneInv, InWriter
      <4>2. pc' = [pc EXCEPT ![p] = "send"]
        BY <2>2 DEF WriteFrame
      <4> QED BY <4>1, <4>2 DEF ProducerTypes
    <3>3. WriterTypes /\ n \in Nat \ {0}
      BY SMT DEF WriterTypes
    <3>4. WithLine(n).out \in Seq(Nat) /\ WithLine(n).buf \in Seq(Nat)
      BY <3>3, LineTypes
    <3>5. \A m \in sent : Whole(file, m) => Whole(file', m) /\ Whole(file' \o buf', m)
      <4>1. file' \in Seq(Nat) /\ buf' \in Seq(Nat)
        BY <1>2, <3>1, <3>4, WholeBefore
      <4> QED BY <1>2, <3>1, <3>4, <4>1, WholeBefore
    <3>6. \A m \in sent : Whole(file \o buf, m) => Whole(file' \o buf', m)
      <4> DEFINE old == file \o buf
                 new == file' \o buf'
      <4>1. /\ Len(old) \in Nat /\ Len(new) \in Nat /\ Len(old) <= Len(new)
            /\ \A i \in 1 .. Len(old) : new[i] = old[i]
        BY <3>1, <3>3, LineBehind
      <4> HIDE DEF old, new
      <4>2. \A m \in sent : Whole(old, m) => Whole(new, m)
        BY <4>1, StaysWhole
      <4> QED BY <4>2 DEF old, new
    <3> QED BY <1>1, <2>1, <3>1, <3>2, <3>5, <3>6, Zenon DEF SentInv, Open
  <2>3. CASE WriteFrameFails(p)
    BY <2>3 DEF WriteFrameFails, SentInv
  <2>4. CASE Wake(p) \/ Leave(p) \/ Enter(p) \/ RecordRefused(p) \/ Send(p)
    <3>1. UNCHANGED <<failed, buf, file>>
      BY <2>4 DEF Wake, Leave, Enter, RecordRefused, Send, GiveUp, writer
    <3>2. PICK target \in {"idle", "record", "writing", "flush", "over"} :
            pc' = [pc EXCEPT ![p] = target] /\ pc[p] # "flushing"
      <4>1. CASE Wake(p) \/ Leave(p) \/ Enter(p) \/ RecordRefused(p)
        BY <4>1, Zenon DEF Wake, Leave, Enter, RecordRefused, GiveUp
      <4>2. CASE Send(p)
        BY <4>2, Zenon DEF Send
      <4> QED BY <2>4, <4>1, <4>2
    <3>3. pc'[Tick] = "flushing" <=> pc[Tick] = "flushing"
      BY <3>2 DEF ProducerTypes
    <3> QED BY <1>1, <2>1, <3>1, <3>3, Zenon DEF SentInv, Open
  <2> QED BY <1>6, <2>2, <2>3, <2>4 DEF Produce
<1>7. ASSUME Flush, ~CloseWriter PROVE SentInv'
  <2>1. Up /\ closed /\ UNCHANGED main /\ UNCHANGED sent
    BY <1>4, <1>7 DEF Flush, FlushNothing, FlushWrites, FlushDone, FlushFails, GiveUp, ending
  <2>2. CASE FlushNothing
    <3>1. /\ pc[Tick] = "flush" /\ pc'[Tick] = "idle" /\ UNCHANGED <<failed, buf, file>>
      BY <2>2 DEF FlushNothing, ProducerTypes
    <3> QED BY <1>1, <2>1, <3>1, Zenon DEF SentInv, Open
  <2>3. CASE FlushDone
    <3>1. /\ pc[Tick] = "flushing" /\ pc'[Tick] = "idle" /\ UNCHANGED <<failed, file>> /\ buf' = <<>>
      BY <2>3 DEF FlushDone, ProducerTypes
    <3>2. \A n \in sent : Whole(file, n) => Whole(file' \o buf', n)
      BY <1>2, <3>1, WholeBefore
    <3> QED BY <1>1, <2>1, <3>1, <3>2, Zenon DEF SentInv, Open
  <2> QED BY <1>7, <2>1, <2>2, <2>3 DEF Flush, FlushWrites, FlushFails
<1>8. ASSUME End, ~CloseWriter PROVE SentInv'
  <2>1. CASE Cancel \/ CloseSender
    BY <1>1, <1>4, <1>8, <2>1, Zenon DEF Cancel, CloseSender, producer, writer, SentInv, Open
  <2>2. CASE CloseFlushes
    <3>1. /\ main = "writer closed" /\ main' = "flushed" /\ pc' = pc
          /\ ~failed' => ~failed /\ file' = file \o buf
      BY <2>2 DEF CloseFlushes, producer
    <3>2. \A n \in sent : Whole(file, n) => Whole(file \o buf, n)
      BY <1>2, WholeBefore
    <3> QED BY <1>1, <1>4, <1>8, <3>1, <3>2, Zenon DEF SentInv, Open
  <2>3. CASE CloseFile
    <3>1. main = "flushed" /\ main' = "file closed" /\ UNCHANGED <<failed, file>>
      BY <2>3 DEF CloseFile
    <3> QED BY <1>1, <1>4, <1>8, <3>1, Zenon DEF SentInv, Open
  <2>4. CASE Exit
    <3>1. main = "file closed" /\ main' = "exited" /\ UNCHANGED <<failed, file>>
      BY <2>4 DEF Exit, Gone
    <3> QED BY <1>1, <1>4, <1>8, <3>1, Zenon DEF SentInv, Open
  <2>5. CASE Crash
    <3>1. main' \in {"crashed", "power cut"}
      BY <2>5 DEF Crash, Gone
    <3> QED BY <3>1, Zenon DEF SentInv, Open
  <2> QED BY <1>8, <2>1, <2>2, <2>3, <2>4, <2>5 DEF End
<1> QED BY <1>3, <1>5, <1>6, <1>7, <1>8 DEF LogNext

\* A step of the player is none of the recorder.
LEMMA PlayerLeavesRecorder ==
  ASSUME [Next]_allVars, ~LogNext
  PROVE  UNCHANGED vars
BY DEF Next, Recording, ReadAll, ReadTorn, ReadRefuses, ReadsAs, Play, PlayOne, PlayStops,
   SendFails, EndPass, StopReplay, recorder, producer, writer, ending, vars, allVars

---------------------------------------------------------------------------
(* The replay *)

\* Every half in s is one of the t that were recorded.
Recorded(s, t) == \A i \in DOMAIN s : s[i] \in 1 .. t
HalvesInv == Recorded(file, Total) /\ Recorded(buf, Total)

FrameRecord == [line : Nat, at : Nat, torn : BOOLEAN]

\* The player starts when the recorder has ended; it has played the records before the next one.
PlayerInv ==
  /\ records \in Seq(FrameRecord) /\ next \in Nat /\ elapsed \in Nat
  /\ replay # "off" => ~Up
  /\ replay = "off" => records = <<>>
  /\ played \in Seq([rec : Nat, when : Nat])
  /\ next = Len(played) + 1 /\ Len(played) <= Len(records)
  /\ played # <<>> => elapsed = played[Len(played)].when

ReplayIInv == IInv /\ HalvesInv /\ PlayerInv /\ ReplayIsFaithful

\* Sequences of recorded halves, put together and cut.
LEMMA RecordedParts ==
  ASSUME NEW s \in Seq(Nat), NEW u \in Seq(Nat), NEW t \in Nat, Recorded(s, t), Recorded(u, t)
  PROVE  /\ s \o u \in Seq(Nat) /\ Recorded(s \o u, t)
         /\ \A k \in 0 .. Len(s) : SubSeq(s, 1, k) \in Seq(Nat) /\ Recorded(SubSeq(s, 1, k), t)
         /\ \A k \in 0 .. Len(s) : /\ SubSeq(s, k + 1, Len(s)) \in Seq(Nat)
                                   /\ Recorded(SubSeq(s, k + 1, Len(s)), t)
<1>1. /\ Len(s) \in Nat /\ DOMAIN s = 1 .. Len(s) /\ Len(u) \in Nat /\ DOMAIN u = 1 .. Len(u)
  BY SMT
<1>2. s \o u \in Seq(Nat) /\ Recorded(s \o u, t)
  <2>1. /\ s \o u \in Seq(Nat) /\ Len(s \o u) = Len(s) + Len(u)
        /\ \A i \in 1 .. Len(s) : (s \o u)[i] = s[i]
        /\ \A i \in 1 .. Len(u) : (s \o u)[Len(s) + i] = u[i]
    BY SMT
  <2>2. ASSUME NEW i \in DOMAIN (s \o u) PROVE (s \o u)[i] \in 1 .. t
    <3>1. i \in 1 .. Len(s) \/ (i - Len(s) \in 1 .. Len(u) /\ Len(s) + (i - Len(s)) = i)
      BY <1>1, <2>1, SMT
    <3> QED BY <1>1, <2>1, <3>1 DEF Recorded
  <2> QED BY <2>1, <2>2 DEF Recorded
<1>3. ASSUME NEW k \in 0 .. Len(s)
      PROVE  /\ SubSeq(s, 1, k) \in Seq(Nat) /\ Recorded(SubSeq(s, 1, k), t)
             /\ SubSeq(s, k + 1, Len(s)) \in Seq(Nat) /\ Recorded(SubSeq(s, k + 1, Len(s)), t)
  <2> DEFINE a == SubSeq(s, 1, k)
             b == SubSeq(s, k + 1, Len(s))
  <2>1. /\ a \in Seq(Nat) /\ Len(a) = k /\ \A i \in 1 .. k : a[i] = s[i]
        /\ b \in Seq(Nat) /\ Len(b) = Len(s) - k /\ \A i \in 1 .. Len(s) - k : b[i] = s[k + i]
    BY Cut
  <2> HIDE DEF a, b
  <2>2. DOMAIN a = 1 .. k /\ DOMAIN b = 1 .. Len(s) - k
    BY <2>1, SMT
  <2>3. /\ \A i \in 1 .. k : i \in DOMAIN s
        /\ \A i \in 1 .. Len(s) - k : k + i \in DOMAIN s
    BY <1>1, SMT
  <2> QED BY <2>1, <2>2, <2>3 DEF Recorded, a, b
<1> QED BY <1>2, <1>3

\* A part of the buffer or of a line behind the file.
LEMMA RecordedWrite ==
  ASSUME NEW s \in Seq(Nat), NEW u \in Seq(Nat), NEW t \in Nat, Recorded(s, t), Recorded(u, t),
         NEW k \in 0 .. Len(u)
  PROVE  Recorded(s \o SubSeq(u, 1, k), t)
<1>1. SubSeq(u, 1, k) \in Seq(Nat) /\ Recorded(SubSeq(u, 1, k), t)
  BY RecordedParts
<1> HIDE DEF Recorded
<1> QED BY <1>1, RecordedParts

\* What is recorded stays so when a line is added, and the halves of the line are.
LEMMA RecordedLine ==
  ASSUME WriterTypes, HalvesInv, NEW n \in Nat \ {0}, n = Len(lines) + 1
  PROVE  /\ Recorded(file, 2 * n) /\ Recorded(buf, 2 * n)
         /\ Recorded(WithLine(n).out, 2 * n) /\ Recorded(WithLine(n).buf, 2 * n)
<1> DEFINE all == buf \o <<2 * n - 1, 2 * n>>
           out == WithLine(n).out
           rest == WithLine(n).buf
<1>1. /\ file \in Seq(Nat) /\ buf \in Seq(Nat) /\ 2 * n \in Nat
      /\ \A h \in 1 .. Total : h \in 1 .. 2 * n
      /\ 2 * n - 1 \in 1 .. 2 * n /\ 2 * n \in 1 .. 2 * n
  BY SMT DEF WriterTypes, Total
<1>2. Recorded(file, 2 * n) /\ Recorded(buf, 2 * n)
  BY <1>1 DEF HalvesInv, Recorded
<1>3. all \in Seq(Nat) /\ Recorded(all, 2 * n)
  <2>1. /\ all \in Seq(Nat)
        /\ \A i \in DOMAIN buf : all[i] = buf[i]
        /\ all[Len(buf) + 1] = 2 * n - 1 /\ all[Len(buf) + 2] = 2 * n
        /\ \A i \in DOMAIN all : i \in DOMAIN buf \/ i = Len(buf) + 1 \/ i = Len(buf) + 2
    BY LineParts
  <2> HIDE DEF all
  <2> QED BY <1>1, <1>2, <2>1 DEF Recorded
<1>4. \/ out = <<>> /\ rest = all
      \/ /\ BufSize \in 0 .. Len(all) /\ out = SubSeq(all, 1, BufSize)
         /\ rest = SubSeq(all, BufSize + 1, Len(all))
  BY LineParts
<1> HIDE DEF all, out, rest
<1>5. CASE out = <<>> /\ rest = all
  <2>1. Recorded(<<>>, 2 * n)
    BY SMT DEF Recorded
  <2> QED BY <1>2, <1>3, <1>5, <2>1 DEF out, rest
<1>6. CASE /\ BufSize \in 0 .. Len(all) /\ out = SubSeq(all, 1, BufSize)
           /\ rest = SubSeq(all, BufSize + 1, Len(all))
  <2>1. Recorded(SubSeq(all, 1, BufSize), 2 * n) /\ Recorded(SubSeq(all, BufSize + 1, Len(all)), 2 * n)
    <3> HIDE DEF Recorded
    <3> QED BY <1>1, <1>3, <1>6, RecordedParts
  <2> QED BY <1>2, <1>6, <2>1, Zenon DEF out, rest
<1> QED BY <1>4, <1>5, <1>6

\* The file and the buffer hold halves of lines that the writer got, and nothing else.
LEMMA NextKeepsHalves ==
  ASSUME LogTypeOK, HalvesInv, LogNext
  PROVE  HalvesInv'
<1> USE DEF LogTypeOK
<1>1. /\ file \in Seq(Nat) /\ buf \in Seq(Nat) /\ <<>> \in Seq(Nat) /\ Total \in Nat
      /\ Recorded(file, Total) /\ Recorded(buf, Total) /\ Recorded(<<>>, Total)
  <2>1. file \in Seq(Nat) /\ buf \in Seq(Nat) /\ <<>> \in Seq(Nat) /\ Total \in Nat
    BY SMT DEF WriterTypes, Total
  <2>2. Recorded(<<>>, Total)
    BY SMT DEF Recorded
  <2> QED BY <2>1, <2>2 DEF HalvesInv
<1>2. ASSUME NEW p \in Producers, WriteFrame(p) \/ WriteFrameFails(p) PROVE HalvesInv'
  <2> DEFINE n == Len(lines) + 1
  <2>1. n \in Nat \ {0} /\ n = Len(lines) + 1 /\ 2 * n \in Nat
    BY SMT DEF WriterTypes
  <2>2. /\ Recorded(file, 2 * n) /\ Recorded(buf, 2 * n)
        /\ Recorded(WithLine(n).out, 2 * n) /\ Recorded(WithLine(n).buf, 2 * n)
    BY <2>1, RecordedLine
  <2>3. WithLine(n).out \in Seq(Nat) /\ WithLine(n).buf \in Seq(Nat)
    BY <2>1, LineTypes
  <2>4. lines' = lines \/ Total' = 2 * n
    <3>1. Len(Append(lines, At(p))) = n
      BY LineTime
    <3> QED BY <1>2, <3>1 DEF WriteFrame, WriteFrameFails, Total
  <2>5. CASE WriteFrame(p)
    <3>1. /\ buf' = WithLine(n).buf /\ file' = file \o WithLine(n).out /\ Total' = 2 * n
      <4>1. Len(Append(lines, At(p))) = n
        BY LineTime
      <4> QED BY <2>5, <4>1 DEF WriteFrame, Total
    <3> HIDE DEF n
    <3>2. Recorded(file \o WithLine(n).out, 2 * n)
      BY <1>1, <2>1, <2>2, <2>3, RecordedParts
    <3> QED BY <2>2, <3>1, <3>2, Zenon DEF HalvesInv
  <2>6. CASE WriteFrameFails(p) /\ failed
    BY <1>1, <2>6, Zenon DEF WriteFrameFails, HalvesInv, Total
  <2>7. CASE WriteFrameFails(p) /\ ~failed
    <3>1. /\ buf' = buf /\ Total' = 2 * n
          /\ file' = file \/ \E k \in 0 .. Len(WithLine(n).out) : file' = file \o SubSeq(WithLine(n).out, 1, k)
      <4>1. Len(Append(lines, At(p))) = n
        BY LineTime
      <4> QED BY <2>7, <4>1 DEF WriteFrameFails, PartWritten, Total
    <3> HIDE DEF n
    <3>2. Recorded(file', 2 * n)
      BY <1>1, <2>1, <2>2, <2>3, <3>1, RecordedWrite
    <3> QED BY <2>2, <3>1, <3>2, Zenon DEF HalvesInv
  <2> QED BY <1>2, <2>5, <2>6, <2>7
<1>3. ASSUME ~ \E p \in Producers : WriteFrame(p) \/ WriteFrameFails(p) PROVE HalvesInv'
  <2>1. lines' = lines /\ buf' \in {buf, <<>>}
    BY <1>3 DEF LogNext, Pass, Produce, Wake, Leave, Enter, RecordRefused, Send, GiveUp, Flush,
       FlushNothing, FlushWrites, FlushDone, FlushFails, End, Cancel, CloseSender, CloseWriter,
       CloseFlushes, CloseFile, Exit, Crash, Gone, writer
  <2>2. \/ file' = file \/ file' = file \o buf
        \/ \E k \in 0 .. Len(buf) : file' = file \o SubSeq(buf, 1, k)
        \/ \E k \in 0 .. Len(file) : file' = SubSeq(file, 1, k)
    BY <1>3 DEF LogNext, Pass, Produce, Wake, Leave, Enter, RecordRefused, Send, GiveUp, Flush,
       FlushNothing, FlushWrites, FlushDone, FlushFails, End, Cancel, CloseSender, CloseWriter,
       CloseFlushes, CloseFile, Exit, Crash, Gone, writer, PartWritten
  <2>3. Recorded(file', Total)
    <3>1. Recorded(file \o buf, Total)
      BY <1>1, RecordedParts
    <3>2. \A k \in 0 .. Len(buf) : Recorded(file \o SubSeq(buf, 1, k), Total)
      BY <1>1, RecordedWrite
    <3>3. \A k \in 0 .. Len(file) : Recorded(SubSeq(file, 1, k), Total)
      BY <1>1, RecordedParts
    <3> QED BY <1>1, <2>2, <3>1, <3>2, <3>3
  <2> QED BY <1>1, <2>1, <2>3, Zenon DEF HalvesInv, Total
<1> QED BY <1>2, <1>3

\* A set of natural numbers has a least one.
LEMMA Least ==
  ASSUME NEW T, T \subseteq Nat, T # {}
  PROVE  \E x \in T : \A y \in T : x <= y
<1> DEFINE R == {ss \in Nat \X Nat : ss[1] < ss[2]}
<1>1. IsWellFoundedOn(R, Nat)
  BY NatLessThanWellFounded DEF OpToRel
<1>2. \E x \in T : \A y \in T : ~(<<y, x>> \in R)
  <2> HIDE DEF R
  <2>1. T \subseteq Nat /\ T # {}
    OBVIOUS
  <2> QED BY <1>1, <2>1, WFMin, Zenon
<1>3. PICK x \in T : \A y \in T : ~(<<y, x>> \in R)
  BY <1>2
<1>4. ASSUME NEW y \in T, y < x PROVE FALSE
  <2>1. <<y, x>> \in Nat \X Nat /\ <<y, x>>[1] = y /\ <<y, x>>[2] = x
    OBVIOUS
  <2>2. <<y, x>> \in R
    BY <1>4, <2>1
  <2> QED BY <1>3, <2>2
<1>5. \A y \in T : x <= y
  BY <1>4
<1> QED BY <1>5

LEMMA Parity ==
  ASSUME NEW a \in Nat
  PROVE  a % 2 \in {0, 1} /\ (a + 1) % 2 # a % 2
<1>1. a % 2 \in {0, 1}
  BY SMT
<1>2. (a + 1) % 2 # a % 2
  BY SMT
<1> QED BY <1>1, <1>2

\* In a file that parses first and second halves take turns, from the first one on.
LEMMA Alternates ==
  ASSUME file \in Seq(Nat), Parses
  PROVE  \A i \in 1 .. Len(file) : file[i] % 2 = i % 2
<1> DEFINE T == {i \in 1 .. Len(file) : file[i] % 2 # i % 2}
<1>1. SUFFICES ASSUME T # {} PROVE FALSE
  OBVIOUS
<1>2. Len(file) \in Nat /\ DOMAIN file = 1 .. Len(file) /\ \A i \in 1 .. Len(file) : file[i] \in Nat
  BY SMT
<1>3. PICK x \in T : \A y \in T : x <= y
  <2>1. T \subseteq Nat
    BY <1>2, SMT
  <2> HIDE DEF T
  <2> QED BY <1>1, <2>1, Least
<1>4. x \in 1 .. Len(file) /\ file[x] \in Nat /\ file[x] % 2 # x % 2
  BY <1>2, <1>3
<1>5. /\ file[x] % 2 = 0 => x > 1 /\ file[x - 1] = file[x] - 1
      /\ x > 1 /\ file[x - 1] % 2 # 0 => file[x] = file[x - 1] + 1
  <2>1. file[x] % 2 = 0 => x > 1 /\ file[x - 1] = file[x] - 1
    BY <1>2, <1>4 DEF Parses
  <2>2. ASSUME x > 1, file[x - 1] % 2 # 0 PROVE file[x] = file[x - 1] + 1
    <3>1. x - 1 \in 1 .. Len(file) /\ x - 1 < Len(file) /\ (x - 1) + 1 = x
      BY <1>2, <1>4, <2>2, SMT
    <3> QED BY <1>2, <2>2, <3>1 DEF Parses
  <2> QED BY <2>1, <2>2
<1>6. x # 1
  BY <1>4, <1>5, SMT
<1>7. x - 1 \in 1 .. Len(file) /\ file[x - 1] \in Nat /\ file[x - 1] % 2 = (x - 1) % 2
  <2>1. x - 1 \in 1 .. Len(file) /\ ~(x <= x - 1)
    BY <1>2, <1>4, <1>6, SMT
  <2>2. x - 1 \notin T
    BY <1>3, <2>1
  <2> QED BY <1>2, <2>1, <2>2
<1>8. x - 1 \in Nat /\ (x - 1) + 1 = x /\ x > 1 /\ x \in Nat
  BY <1>4, <1>6, SMT
<1>9. (x - 1) % 2 # x % 2 /\ x % 2 \in {0, 1} /\ (x - 1) % 2 \in {0, 1}
  BY <1>8, Parity
<1>10. file[x] % 2 = file[x - 1] % 2 /\ file[x] % 2 \in {0, 1}
  BY <1>4, <1>7, <1>9, Parity
<1>11. file[x - 1] + 1 = file[x]
  <2>1. CASE file[x] % 2 = 0
    <3>1. PICK a \in Nat, b \in Nat : a = file[x] /\ b = file[x - 1] /\ b = a - 1
      BY <1>4, <1>5, <1>7, <2>1
    <3>2. b + 1 = a
      BY <3>1, SMT
    <3> QED BY <3>1, <3>2
  <2>2. CASE file[x] % 2 # 0
    BY <1>5, <1>8, <1>10, <2>2
  <2> QED BY <2>1, <2>2
<1> QED BY <1>7, <1>10, <1>11, Parity

\* The line a half belongs to is one of the lines that the writer got.
LEMMA LineOfHalf ==
  ASSUME lines \in Seq(Nat), NEW h \in 1 .. Total
  PROVE  /\ h % 2 = 0 => h \div 2 \in Nat /\ lines[h \div 2] \in Nat
         /\ h % 2 = 1 => (h + 1) \div 2 \in Nat /\ lines[(h + 1) \div 2] \in Nat
<1>1. PICK m \in Nat : m = Len(lines) /\ h \in 1 .. 2 * m /\ \A i \in 1 .. m : lines[i] \in Nat /\ i \in Nat
  <2>1. Len(lines) \in Nat /\ \A i \in 1 .. Len(lines) : lines[i] \in Nat /\ i \in Nat
    BY SMT
  <2> QED BY <2>1 DEF Total
<1>2. h % 2 = 0 => h \div 2 \in 1 .. m
  BY <1>1, SMT
<1>3. h % 2 = 1 => (h + 1) \div 2 \in 1 .. m
  BY <1>1, SMT
<1> QED BY <1>1, <1>2, <1>3

\* What the reader gets out of a file that parses: a record for every two halves.
LEMMA ReadTypes ==
  ASSUME LogTypeOK, HalvesInv, Parses
  PROVE  /\ WholeLines \in Seq(FrameRecord) /\ Len(WholeLines) = Len(file) \div 2
         /\ Len(file) \in Nat /\ Len(file) \div 2 \in Nat
         /\ \A i \in 1 .. Len(file) \div 2 :
              2 * i \in DOMAIN file /\ WholeLines[i] = Rec(file[2 * i] \div 2, FALSE)
         /\ TornEnd => /\ Len(file) \in DOMAIN file /\ Len(file) % 2 = 1
                       /\ \A torn \in BOOLEAN : Rec((file[Len(file)] + 1) \div 2, torn) \in FrameRecord
<1>1. /\ file \in Seq(Nat) /\ lines \in Seq(Nat) /\ Len(file) \in Nat /\ DOMAIN file = 1 .. Len(file)
  BY SMT DEF LogTypeOK, WriterTypes
<1>2. \A i \in 1 .. Len(file) : file[i] \in 1 .. Total /\ file[i] % 2 = i % 2
  BY <1>1, Alternates DEF HalvesInv, Recorded
<1>3. ASSUME NEW i \in 1 .. Len(file) \div 2
      PROVE  2 * i \in 1 .. Len(file) /\ Rec(file[2 * i] \div 2, FALSE) \in FrameRecord
  <2>1. PICK l \in Nat : l = Len(file)
    BY <1>1
  <2>2. i \in 1 .. l \div 2
    BY <2>1
  <2>3. 2 * i \in 1 .. l /\ (2 * i) % 2 = 0
    BY <2>2, SMT
  <2>4. file[2 * i] \in 1 .. Total /\ file[2 * i] % 2 = 0
    BY <1>2, <2>1, <2>3
  <2>5. file[2 * i] \div 2 \in Nat /\ lines[file[2 * i] \div 2] \in Nat
    BY <1>1, <2>4, LineOfHalf
  <2> QED BY <2>1, <2>3, <2>5 DEF Rec, FrameRecord
<1>4. Len(file) \div 2 \in Nat
  BY <1>1, SMT
<1>5. /\ WholeLines \in Seq(FrameRecord) /\ Len(WholeLines) = Len(file) \div 2
      /\ \A i \in 1 .. Len(file) \div 2 : WholeLines[i] = Rec(file[2 * i] \div 2, FALSE)
  <2> DEFINE k == Len(file) \div 2
             f(i) == Rec(file[2 * i] \div 2, FALSE)
  <2>1. k \in Nat /\ \A i \in 1 .. k : f(i) \in FrameRecord
    BY <1>3, <1>4
  <2>2. WholeLines = [i \in 1 .. k |-> f(i)]
    BY DEF WholeLines
  <2> HIDE DEF k, f
  <2>3. [i \in 1 .. k |-> f(i)] \in Seq(FrameRecord) /\ Len([i \in 1 .. k |-> f(i)]) = k
    BY <2>1, SMT
  <2>4. \A i \in 1 .. k : WholeLines[i] = f(i)
    BY <2>2
  <2> QED BY <2>2, <2>3, <2>4 DEF k, f
<1>6. ASSUME TornEnd, NEW torn \in BOOLEAN
      PROVE  /\ Len(file) \in DOMAIN file /\ Len(file) % 2 = 1
             /\ Rec((file[Len(file)] + 1) \div 2, torn) \in FrameRecord
  <2>1. Len(file) \in 1 .. Len(file)
    BY <1>1, <1>6, SMT DEF TornEnd
  <2>2. file[Len(file)] \in 1 .. Total /\ file[Len(file)] % 2 = 1 /\ Len(file) % 2 = 1
    BY <1>2, <1>6, <2>1 DEF TornEnd
  <2>3. (file[Len(file)] + 1) \div 2 \in Nat /\ lines[(file[Len(file)] + 1) \div 2] \in Nat
    BY <1>1, <2>2, LineOfHalf
  <2> QED BY <1>1, <1>6, <2>1, <2>2, <2>3, Zenon DEF Rec, FrameRecord
<1> QED BY <1>1, <1>3, <1>4, <1>5, <1>6

\* Both ways to read a log give records of frames; unless somebody was in the writer when main
\* closed it, they are the lines from the first one on, and the last one may have lost its end.
LEMMA ReadIsFaithful ==
  ASSUME IInv, HalvesInv, PlayerInv, ReadAll \/ ReadTorn
  PROVE  records' \in Seq(FrameRecord) /\ PlaysTheRecording'
<1> USE DEF IInv
<1>1. /\ Parses /\ UNCHANGED <<main, failed, raced>>
      /\ \/ records' = WholeLines
         \/ TornEnd /\ \E torn \in BOOLEAN :
              records' = Append(WholeLines, Rec((file[Len(file)] + 1) \div 2, torn))
  BY DEF ReadAll, ReadTorn, ReadsAs, recorder, writer, ending
<1>2. /\ WholeLines \in Seq(FrameRecord) /\ Len(WholeLines) = Len(file) \div 2
      /\ Len(file) \in Nat /\ Len(file) \div 2 \in Nat
      /\ \A i \in 1 .. Len(file) \div 2 :
           2 * i \in DOMAIN file /\ WholeLines[i] = Rec(file[2 * i] \div 2, FALSE)
      /\ TornEnd => /\ Len(file) \in DOMAIN file /\ Len(file) % 2 = 1
                    /\ \A torn \in BOOLEAN : Rec((file[Len(file)] + 1) \div 2, torn) \in FrameRecord
  BY <1>1, ReadTypes
<1> DEFINE k == Len(file) \div 2
<1>3. ~raced => \A i \in 1 .. k : WholeLines[i].line = i /\ WholeLines[i].torn = FALSE
  <2> SUFFICES ASSUME ~raced, NEW i \in 1 .. k
               PROVE  WholeLines[i].line = i /\ WholeLines[i].torn = FALSE
    OBVIOUS
  <2>1. file[2 * i] = 2 * i
    BY <1>2 DEF LogInv, FileInv, Counts
  <2>2. (2 * i) \div 2 = i
    <3>1. i \in Nat
      BY <1>2, SMT
    <3> QED BY <3>1, SMT
  <2>3. WholeLines[i] = Rec(i, FALSE)
    BY <1>2, <2>1, <2>2
  <2> QED BY <2>3 DEF Rec
<1> HIDE DEF k
<1>4. k \in Nat /\ Len(WholeLines) = k
  BY <1>2 DEF k
<1>5. CASE records' = WholeLines
  <2>1. DOMAIN records' = 1 .. k
    BY <1>2, <1>4, <1>5, SMT
  <2>2. PlaysTheRecording'
    BY <1>1, <1>3, <1>5, <2>1, Zenon DEF PlaysTheRecording
  <2> QED BY <1>2, <1>5, <2>2
<1>6. CASE TornEnd /\ records' # WholeLines
  <2>1. PICK torn \in BOOLEAN : records' = Append(WholeLines, Rec((file[Len(file)] + 1) \div 2, torn))
    BY <1>1, <1>6
  <2> DEFINE r == Rec((file[Len(file)] + 1) \div 2, torn)
  <2>2. r \in FrameRecord
    BY <1>2, <1>6
  <2>3. /\ records' \in Seq(FrameRecord) /\ Len(records') = k + 1 /\ DOMAIN records' = 1 .. k + 1
        /\ \A i \in 1 .. k : records'[i] = WholeLines[i]
        /\ records'[k + 1] = r
    <3> HIDE DEF r
    <3> QED BY <1>2, <1>4, <2>1, <2>2, SMT DEF r
  <2>4. ASSUME ~raced PROVE r.line = k + 1 /\ (failed \/ main # "exited")
    <3>1. file[Len(file)] = Len(file) /\ (main = "exited" /\ ~failed => Len(file) = Total)
      BY <1>2, <1>6, <2>4 DEF LogInv, FileInv, Counts
    <3>2. (Len(file) + 1) \div 2 = k + 1
      <4>1. PICK l \in Nat : l = Len(file) /\ l % 2 = 1
        BY <1>2, <1>6
      <4>2. (l + 1) \div 2 = l \div 2 + 1
        BY <4>1, SMT
      <4> QED BY <4>1, <4>2 DEF k
    <3>3. Len(file) # Total
      <4>1. PICK m \in Nat : m = Len(lines)
        BY SMT DEF LogTypeOK, WriterTypes
      <4>2. (2 * m) % 2 = 0
        BY SMT
      <4> QED BY <1>2, <1>6, <4>1, <4>2 DEF Total
    <3> QED BY <3>1, <3>2, <3>3 DEF Rec
  <2>5. \A i \in 1 .. k + 1 : i \in 1 .. k \/ i = k + 1
    BY <1>4, SMT
  <2> HIDE DEF r
  <2>6. PlaysTheRecording'
    <3> SUFFICES ASSUME ~raced, NEW i \in 1 .. k + 1
                 PROVE  records'[i].line = i /\ (records'[i].torn => i = k + 1 /\ (failed \/ main # "exited"))
      BY <1>1, <2>3, Zenon DEF PlaysTheRecording
    <3>1. CASE i \in 1 .. k
      <4>1. records'[i].line = i /\ records'[i].torn = FALSE
        BY <1>3, <2>3, <3>1
      <4> QED BY <4>1
    <3>2. CASE i = k + 1
      BY <2>3, <2>4, <3>2
    <3> QED BY <2>5, <3>1, <3>2
  <2> QED BY <2>3, <2>6
<1> QED BY <1>1, <1>5, <1>6

\* What the player has at a record.
LEMMA RecordTypes ==
  ASSUME PlayerInv
  PROVE  /\ Len(records) \in Nat /\ DOMAIN records = 1 .. Len(records)
         /\ \A i \in 1 .. Len(records) : records[i].at \in Nat
         /\ Len(played) \in Nat /\ DOMAIN played = 1 .. Len(played)
         /\ \A i \in 1 .. Len(played) : played[i].when \in Nat
<1>1. /\ Len(records) \in Nat /\ DOMAIN records = 1 .. Len(records)
      /\ \A i \in 1 .. Len(records) : records[i] \in FrameRecord
  BY SMT DEF PlayerInv
<1> DEFINE S == [rec : Nat, when : Nat]
<1>2. /\ Len(played) \in Nat /\ DOMAIN played = 1 .. Len(played)
      /\ \A i \in 1 .. Len(played) : played[i] \in S
  <2>1. played \in Seq(S)
    BY DEF PlayerInv
  <2> HIDE DEF S
  <2> QED BY <2>1, SMT
<1> QED BY <1>1, <1>2 DEF FrameRecord

\* The wait is the distance to the record before, or nothing where the times go back.
LEMMA WaitCovers ==
  ASSUME PlayerInv, NEW k \in 2 .. Len(records)
  PROVE  /\ WaitBefore(k) \in Nat
         /\ records[k].at - records[k - 1].at <= WaitBefore(k)
         /\ records[k - 1].at <= records[k].at => records[k].at - records[k - 1].at = WaitBefore(k)
<1>1. k - 1 \in 1 .. Len(records) /\ k \in 1 .. Len(records) /\ k # 1
  BY RecordTypes, SMT
<1>2. PICK a \in Nat, b \in Nat : a = records[k - 1].at /\ b = records[k].at
  BY <1>1, RecordTypes
<1>3. WaitBefore(k) = IF b < a THEN 0 ELSE b - a
  BY <1>1, <1>2 DEF WaitBefore
<1>4. LET w == IF b < a THEN 0 ELSE b - a
      IN w \in Nat /\ b - a <= w /\ (a <= b => b - a = w)
  BY SMT
<1> QED BY <1>2, <1>3, <1>4

\* A frame more keeps its distance from each one before.
LEMMA PlayOneKeeps ==
  ASSUME PlayerInv, ReplayKeepsDistances, PlayOne
  PROVE  PlayerInv' /\ ReplayKeepsDistances'
<1>1. /\ replay = "playing" /\ next <= Len(records)
      /\ elapsed' = elapsed + WaitBefore(next)
      /\ played' = Append(played, [rec |-> next, when |-> elapsed'])
      /\ next' = next + 1 /\ UNCHANGED <<replay, records, main>>
  BY DEF PlayOne, recorder, ending
<1> DEFINE k == next
           m == Len(played)
<1>2. /\ m \in Nat /\ k \in Nat /\ k = m + 1 /\ k \in 1 .. Len(records) /\ DOMAIN played = 1 .. m
      /\ elapsed \in Nat
  <2>1. m \in Nat /\ k = m + 1 /\ Len(records) \in Nat /\ k <= Len(records) /\ DOMAIN played = 1 .. m
        /\ elapsed \in Nat
    BY <1>1, RecordTypes DEF PlayerInv
  <2> HIDE DEF m
  <2> QED BY <2>1, SMT
<1>3. WaitBefore(k) \in Nat
  <2>1. CASE k = 1
    BY <2>1 DEF WaitBefore
  <2>2. CASE k # 1
    <3>1. k \in 2 .. Len(records)
      <4> HIDE DEF k
      <4> QED BY <1>2, <2>2, RecordTypes, SMT
    <3> QED BY <3>1, WaitCovers
  <2> QED BY <2>1, <2>2
<1>4. elapsed' \in Nat
  BY <1>1, <1>2, <1>3, SMT
<1> DEFINE new == [rec |-> k, when |-> elapsed']
<1>5. new \in [rec : Nat, when : Nat] /\ new.rec = k /\ new.when = elapsed'
  BY <1>2, <1>4
<1> HIDE DEF m, k, new
<1>6. /\ played' \in Seq([rec : Nat, when : Nat]) /\ Len(played') = k /\ DOMAIN played' = 1 .. k
      /\ \A i \in 1 .. m : played'[i] = played[i]
      /\ played'[k] = new
  <2>1. played' = Append(played, new) /\ played \in Seq([rec : Nat, when : Nat])
    BY <1>1 DEF new, k, PlayerInv
  <2>2. /\ played' \in Seq([rec : Nat, when : Nat]) /\ Len(played') = m + 1
        /\ DOMAIN played' = 1 .. m + 1
        /\ \A i \in 1 .. m : played'[i] = played[i] /\ played'[m + 1] = new
    BY <1>5, <2>1, SMT DEF m
  <2>3. played'[m + 1] = new
    BY <1>5, <2>1, SMT DEF m
  <2> QED BY <1>2, <2>2, <2>3
<1>7. PlayerInv'
  <2>1. next' \in Nat /\ next' = Len(played') + 1 /\ Len(played') <= Len(records')
    BY <1>1, <1>2, <1>6, SMT DEF k
  <2>2. Up' <=> Up
    BY <1>1 DEF Up
  <2> QED BY <1>1, <1>2, <1>4, <1>5, <1>6, <2>1, <2>2 DEF PlayerInv, k
<1>8. \A i \in 1 .. k : i \in 1 .. m \/ i = k
  BY <1>2, SMT
<1>9. \A i \in 1 .. k : played'[i].rec = i
  BY <1>2, <1>5, <1>6, <1>8 DEF ReplayKeepsDistances
<1>10. ASSUME NEW i \in 1 .. m
       PROVE  LET live == records[k].at - records[i].at
                  replayed == new.when - played[i].when
              IN live <= replayed /\ (Sorted(i, k) => live = replayed)
  <2>1. k \in 2 .. Len(records) /\ k - 1 = m /\ m \in 1 .. m /\ m \in 1 .. Len(records)
        /\ i \in 1 .. Len(records) /\ k \in 1 .. Len(records) /\ (i < m \/ i = m)
    BY <1>2, RecordTypes, SMT
  <2>2. elapsed = played[m].when
    <3>1. played # <<>>
      <4>1. played = <<>> => DOMAIN played = {}
        BY SMT
      <4> QED BY <1>2, <4>1
    <3> QED BY <3>1 DEF PlayerInv, m
  <2>3. PICK w \in Nat, ai \in Nat, am \in Nat, ak \in Nat, pi \in Nat, pm \in Nat :
          /\ w = WaitBefore(k) /\ ai = records[i].at /\ am = records[m].at /\ ak = records[k].at
          /\ pi = played[i].when /\ pm = played[m].when
    BY <1>3, <2>1, RecordTypes DEF m
  <2>4. ak - am <= w /\ (am <= ak => ak - am = w)
    BY <2>1, <2>3, WaitCovers
  <2>5. new.when = pm + w
    BY <1>1, <1>5, <2>2, <2>3 DEF k
  <2>6. am - ai <= pm - pi /\ (Sorted(i, m) => am - ai = pm - pi)
    <3>1. CASE i < m
      BY <1>2, <2>1, <2>3, <3>1, Zenon DEF ReplayKeepsDistances
    <3>2. CASE i = m
      BY <2>3, <3>2, SMT
    <3> QED BY <2>1, <3>1, <3>2
  <2>7. Sorted(i, k) => Sorted(i, m) /\ am <= ak
    <3> SUFFICES ASSUME \A j \in i .. k - 1 : records[j].at <= records[j + 1].at
                 PROVE  Sorted(i, m) /\ am <= ak
      BY DEF Sorted
    <3>1. m \in i .. k - 1 /\ m + 1 = k /\ \A j \in i .. m - 1 : j \in i .. k - 1
      BY <1>2, <2>1, SMT
    <3> QED BY <2>3, <3>1 DEF Sorted
  <2>8. ak - ai <= (pm + w) - pi /\ (Sorted(i, k) => ak - ai = (pm + w) - pi)
    <3>1. ak - ai <= (pm + w) - pi
      BY <2>4, <2>6, SMT
    <3>2. ASSUME am <= ak, am - ai = pm - pi PROVE ak - ai = (pm + w) - pi
      BY <2>4, <3>2, SMT
    <3> QED BY <2>6, <2>7, <3>1, <3>2
  <2> QED BY <2>3, <2>5, <2>8
<1>11. \A i, j : Sorted(i, j)' <=> Sorted(i, j)
  BY <1>1 DEF Sorted
<1>12. ASSUME NEW i \in 1 .. k, NEW j \in 1 .. k, i < j
       PROVE  LET live == records[j].at - records[i].at
                  replayed == played'[j].when - played'[i].when
              IN live <= replayed /\ (Sorted(i, j) => live = replayed)
  <2>1. i \in 1 .. m
    BY <1>2, <1>12, SMT
  <2>2. CASE j = k
    BY <1>6, <1>10, <2>1, <2>2
  <2>3. CASE j \in 1 .. m
    <3>1. played'[i] = played[i] /\ played'[j] = played[j]
      BY <1>6, <2>1, <2>3
    <3> QED BY <1>2, <1>12, <2>1, <2>3, <3>1, Zenon DEF ReplayKeepsDistances
  <2> QED BY <1>8, <2>2, <2>3
<1>13. ReplayKeepsDistances'
  <2>1. \A i \in DOMAIN played' : played'[i].rec = i
    BY <1>6, <1>9
  <2>2. ASSUME NEW i \in DOMAIN played', NEW j \in DOMAIN played', i < j
        PROVE  LET live == records'[j].at - records'[i].at
                   replayed == played'[j].when - played'[i].when
               IN live <= replayed /\ (Sorted(i, j)' => live = replayed)
    BY <1>1, <1>6, <1>11, <1>12, <2>2
  <2> QED BY <2>1, <2>2, Zenon DEF ReplayKeepsDistances
<1> QED BY <1>7, <1>13

\* A step of the player.
LEMMA PlayerKeeps ==
  ASSUME IInv, HalvesInv, PlayerInv, ReplayIsFaithful, [Next]_allVars, ~LogNext
  PROVE  PlayerInv' /\ ReplayIsFaithful'
<1>1. /\ UNCHANGED <<main, failed, raced, lines, file>> /\ (Up' <=> Up)
  <2>1. UNCHANGED vars
    BY PlayerLeavesRecorder
  <2> QED BY <2>1 DEF vars, Up
<1>2. CASE PlayOne
  <2>1. PlayerInv' /\ ReplayKeepsDistances'
    BY <1>2, PlayOneKeeps DEF ReplayIsFaithful
  <2>2. records' = records
    BY <1>2 DEF PlayOne
  <2> QED BY <1>1, <2>1, <2>2, Zenon DEF ReplayIsFaithful, PlaysTheRecording
<1>3. CASE ReadAll \/ ReadTorn
  <2>1. records' \in Seq(FrameRecord) /\ PlaysTheRecording'
    BY <1>3, ReadIsFaithful
  <2>2. /\ ~Up /\ replay = "off" /\ replay' = "playing" /\ UNCHANGED <<next, elapsed, played>>
    BY <1>3 DEF ReadAll, ReadTorn, ReadsAs
  <2>3. played = <<>> /\ Len(played) = 0
    <3>1. records = <<>> /\ Len(played) <= Len(records) /\ played \in Seq([rec : Nat, when : Nat])
      BY <2>2 DEF PlayerInv
    <3> QED BY <3>1, SMT
  <2>4. ReplayKeepsDistances'
    <3>1. DOMAIN played' = {}
      BY <2>2, <2>3, SMT
    <3> QED BY <3>1 DEF ReplayKeepsDistances
  <2>5. Len(played) <= Len(records')
    <3>1. Len(records') \in Nat
      BY <2>1, SMT
    <3> QED BY <2>3, <3>1, SMT
  <2>6. PlayerInv'
    BY <1>1, <2>1, <2>2, <2>3, <2>5 DEF PlayerInv
  <2> QED BY <2>1, <2>4, <2>6 DEF ReplayIsFaithful
<1>4. CASE EndPass /\ loop
  <2>1. next' = 1 /\ elapsed' = 0 /\ played' = <<>> /\ UNCHANGED <<records, replay>>
    BY <1>4 DEF EndPass
  <2>2. ReplayKeepsDistances'
    <3>1. DOMAIN played' = {}
      BY <2>1, SMT
    <3> QED BY <3>1 DEF ReplayKeepsDistances
  <2>3. PlayerInv'
    <3>1. /\ <<>> \in Seq([rec : Nat, when : Nat]) /\ Len(<<>>) = 0 /\ 0 + 1 = 1 /\ 0 \in Nat /\ 1 \in Nat
      BY SMT
    <3>2. Len(records) \in Nat /\ 0 <= Len(records)
      BY RecordTypes, SMT
    <3> QED BY <1>1, <2>1, <3>1, <3>2 DEF PlayerInv
  <2> QED BY <1>1, <2>1, <2>2, <2>3, Zenon DEF ReplayIsFaithful, PlaysTheRecording
<1>5. ASSUME ~PlayOne, ~(ReadAll \/ ReadTorn), ~(EndPass /\ loop)
      PROVE  PlayerInv' /\ ReplayIsFaithful'
  <2>1. /\ UNCHANGED <<records, next, elapsed, played>>
        /\ replay' = replay \/ replay = "playing" \/ (replay = "off" /\ ~Up /\ replay' # "off")
        /\ replay' = "off" => replay = "off"
    BY <1>5 DEF Next, Recording, ReadRefuses, Play, PlayStops, SendFails, EndPass, StopReplay,
       player, allVars
  <2>2. PlayerInv'
    BY <1>1, <2>1, Zenon DEF PlayerInv
  <2>3. ReplayKeepsDistances'
    BY <2>1, Zenon DEF ReplayIsFaithful, ReplayKeepsDistances, Sorted
  <2> QED BY <1>1, <2>1, <2>2, <2>3, Zenon DEF ReplayIsFaithful, PlaysTheRecording
<1> QED BY <1>2, <1>3, <1>4, <1>5

\* The recorder has ended for good when the player starts.
LEMMA RecorderKeeps ==
  ASSUME IInv, PlayerInv, ReplayIsFaithful, LogNext, [Next]_allVars
  PROVE  PlayerInv' /\ ReplayIsFaithful'
<1>1. Up
  BY DEF LogNext, Pass, Produce, Wake, Leave, Enter, RecordRefused, WriteFrame, WriteFrameFails, Send,
     Flush, FlushNothing, FlushWrites, FlushDone, FlushFails, End, Cancel, CloseSender, CloseWriter,
     CloseFlushes, CloseFile, Exit, Crash, Up
<1>2. replay = "off" /\ records = <<>> /\ played = <<>>
  <2>1. replay = "off" /\ records = <<>> /\ Len(played) <= Len(records)
        /\ played \in Seq([rec : Nat, when : Nat])
    BY <1>1 DEF PlayerInv
  <2> QED BY <2>1, SMT
<1>3. UNCHANGED <<replay, records, next, elapsed, played>>
  <2>1. UNCHANGED player \/ \E recs : ReadsAs(recs) \/ ReadRefuses \/ Play \/ StopReplay \/ UNCHANGED allVars
    BY Zenon DEF Next, Recording, ReadAll, ReadTorn
  <2> QED BY <1>1, <1>2, <2>1 DEF ReadsAs, ReadRefuses, Play, PlayOne, PlayStops, SendFails, EndPass,
       StopReplay, player, allVars
<1>4. PlayerInv'
  BY <1>2, <1>3, Zenon DEF PlayerInv
<1>5. ReplayIsFaithful'
  <2>1. DOMAIN played' = {} /\ DOMAIN records' = {}
    BY <1>2, <1>3, SMT
  <2> QED BY <2>1 DEF ReplayIsFaithful, ReplayKeepsDistances, PlaysTheRecording
<1> QED BY <1>4, <1>5

---------------------------------------------------------------------------
(* The theorems *)

\* The inductive invariant: who is in the writer, and that file and buffer together count.
THEOREM Invariant == Spec => []IInv
<1>1. ReplayInit => IInv
  BY InitIInv DEF ReplayInit
<1> QED BY <1>1, NextKeepsIInv, PTL DEF Spec

\* The types of the recorder.
THEOREM TypeCorrect == Spec => []LogTypeOK
<1>1. IInv => LogTypeOK
  BY DEF IInv
<1> QED BY <1>1, Invariant, PTL

\* The file is the start of what was recorded, and has what was flushed: for any number of
\* producers, frames in a batch and any buffer, whenever and however the process ends.
THEOREM FileIsPrefix == Spec => []LogIsPrefix
<1>1. IInv => LogIsPrefix
  BY DEF IInv, LogInv, FileInv, Counts, Total, LogIsPrefix
<1> QED BY <1>1, Invariant, PTL

\* What receivers got, the log has after an orderly end without a failed write, even if a
\* producer was in the writer when main closed it.
THEOREM SentIsLogged == Spec => []SentIsInLog
<1>1. ReplayInit => SentIInv
  <2> SUFFICES ASSUME ReplayInit PROVE SentIInv
    OBVIOUS
  <2>1. IInv
    BY InitIInv DEF ReplayInit
  <2>2. main = "waiting" /\ closed = FALSE /\ raced = FALSE /\ \A p \in Producers : pc[p] = "idle"
    BY DEF ReplayInit, Init
  <2> QED BY <2>1, <2>2, Zenon DEF SentIInv, AloneInv, InWriter
<1>2. SentIInv /\ [Next]_allVars => SentIInv'
  <2> SUFFICES ASSUME SentIInv, [Next]_allVars PROVE SentIInv'
    OBVIOUS
  <2>1. IInv'
    BY NextKeepsIInv DEF SentIInv
  <2>2. CASE LogNext
    BY <2>1, <2>2, NextKeepsAlone, NextKeepsSent DEF SentIInv
  <2>3. CASE ~LogNext
    <3>1. UNCHANGED vars
      BY <2>3, PlayerLeavesRecorder
    <3> QED BY <2>1, <3>1, Zenon DEF vars, SentIInv, AloneInv, SentInv, Up, Open
  <2> QED BY <2>2, <2>3
<1>3. SentIInv => SentIsInLog
  <2> SUFFICES ASSUME SentIInv, main = "exited", ~failed, NEW n \in sent PROVE InFile(n)
    BY DEF SentIsInLog
  <2>1. SentInv
    BY SentUnlessRaced DEF SentIInv
  <2> QED BY <2>1, Zenon DEF SentInv, Whole, InFile
<1> QED BY <1>1, <1>2, <1>3, PTL DEF Spec

\* A replay is the recording again: the lines of the log in order, unless somebody was in the
\* writer when main closed it, at the distances at which they were recorded, whatever the log.
THEOREM ReplayIsTheRecording == Spec => []ReplayIsFaithful
<1>1. ReplayInit => ReplayIInv
  <2> SUFFICES ASSUME ReplayInit PROVE ReplayIInv
    OBVIOUS
  <2>1. IInv
    BY InitIInv DEF ReplayInit
  <2>2. /\ file = <<>> /\ buf = <<>> /\ records = <<>> /\ played = <<>> /\ replay = "off"
        /\ next = 1 /\ elapsed = 0
    BY DEF ReplayInit, Init
  <2>3. DOMAIN file = {} /\ DOMAIN buf = {} /\ DOMAIN records = {} /\ DOMAIN played = {}
        /\ records \in Seq(FrameRecord) /\ played \in Seq([rec : Nat, when : Nat])
        /\ Len(records) = 0 /\ Len(played) = 0 /\ 0 + 1 = 1 /\ 0 <= 0 /\ 0 \in Nat /\ 1 \in Nat
    BY <2>2, SMT
  <2>4. HalvesInv
    BY <2>3 DEF HalvesInv, Recorded
  <2>5. PlayerInv
    BY <2>2, <2>3 DEF PlayerInv
  <2>6. ReplayIsFaithful
    BY <2>3 DEF ReplayIsFaithful, ReplayKeepsDistances, PlaysTheRecording
  <2> QED BY <2>1, <2>4, <2>5, <2>6 DEF ReplayIInv
<1>2. ReplayIInv /\ [Next]_allVars => ReplayIInv'
  <2> SUFFICES ASSUME ReplayIInv, [Next]_allVars PROVE ReplayIInv'
    OBVIOUS
  <2>1. IInv'
    BY NextKeepsIInv DEF ReplayIInv
  <2>2. CASE LogNext
    <3>1. HalvesInv'
      BY <2>2, NextKeepsHalves DEF ReplayIInv, IInv
    <3> QED BY <2>1, <2>2, <3>1, RecorderKeeps DEF ReplayIInv
  <2>3. CASE ~LogNext
    <3>1. HalvesInv'
      <4>1. UNCHANGED vars
        BY <2>3, PlayerLeavesRecorder
      <4> QED BY <4>1, Zenon DEF vars, ReplayIInv, HalvesInv, Recorded, Total
    <3> QED BY <2>1, <2>3, <3>1, PlayerKeeps DEF ReplayIInv
  <2> QED BY <2>2, <2>3
<1>3. ReplayIInv => ReplayIsFaithful
  BY DEF ReplayIInv
<1> QED BY <1>1, <1>2, <1>3, PTL DEF Spec
=============================================================================
