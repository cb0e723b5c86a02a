--------------------------- MODULE DecoderProofs ---------------------------
(***************************************************************************)
(* The decoders: DecoderLink, for any clients in any order, and SDRAssign, *)
(* for any dongles with any serials.                                       *)
(***************************************************************************)
EXTENDS DecoderLink, SDRAssign, WellFoundedInduction, TLAPS


\* Close waits in its order: what it has passed is over. A supervised program
\* exists only while the supervisor waits for it. It runs without an error, and
\* the pause after it shows how it ended.
CloseInv ==
  /\ \A i \in 1..Len(Order) : closing > i => pc[Order[i]] = "done"
  /\ closing = Returned => sup \in {"off", "done"}
  /\ supervised => sup # "off"
  /\ supervised /\ sup # "wait" => child = "none"

RunInv ==
  /\ sup = "wait" => supShown.state = "running" /\ supShown.err = "none"
  /\ sup = "pause" => supShown.state = "exited"
  /\ ExitExplained

IInv == TypeOK /\ NoSocketLeft /\ StatusExplained /\ RunInv /\ CloseInv

\* The length of the list of clients is a number, and its entries are clients.
LEMMA OrderFacts ==
  /\ Len(Order) \in Nat
  /\ \A i \in 1..Len(Order) : Order[i] \in Clients
BY LinkAssumption, SMT DEF Clients

\* What is left of a queue of lines is one, and so is a queue with a line more.
LEMMA Lines ==
  ASSUME NEW q \in Seq(Kinds), NEW k \in Kinds
  PROVE  /\ Append(q, k) \in Seq(Kinds)
         /\ q # <<>> => Tail(q) \in Seq(Kinds) /\ Head(q) \in Kinds
BY SMT

\* A client rejects a line for one of two reasons.
LEMMA RejectedKinds ==
  ASSUME NEW c, NEW k, Rejects(c, k)
  PROVE  k \in {"long", "garbled"}
BY DEF Rejects

\* The invariant holds when the clients are started.
LEMMA InitIInv == Init => IInv
<1> SUFFICES ASSUME Init PROVE IInv
  OBVIOUS
<1> USE OrderFacts DEF Init
<1>1. SupervisorTypes
  BY SMT DEF SupervisorTypes
<1>5. ProcessTypes
  <2>1. closing \in 0..Returned
    BY SMT DEF Returned
  <2> QED BY <2>1, Zenon DEF ProcessTypes
<1>2. ClientTypes /\ LinkTypes
  BY SMT DEF ClientTypes, LinkTypes, Alive, Dead
<1>3. NoSocketLeft /\ StatusExplained
  BY SMT DEF NoSocketLeft, StatusExplained, Reading
<1>4. RunInv /\ CloseInv
  BY SMT DEF RunInv, ExitExplained, CloseInv, Returned
<1> QED BY <1>1, <1>2, <1>3, <1>4, <1>5 DEF IInv, TypeOK

\* A step of the supervisor keeps it.
LEMMA SupervisorKeepsIInv ==
  ASSUME IInv, SupStep PROVE IInv'
<1> USE DEF IInv, streams, links, process
<1>1. TypeOK'
  <2> USE DEF TypeOK
  <2>1. SupervisorTypes'
    <3>1. CASE SupTop
      BY <3>1, SMT DEF SupTop, Show, SupervisorTypes
    <3>2. CASE StartSucceeds
      BY <3>2, SMT DEF StartSucceeds, Show, SupervisorTypes
    <3>3. CASE StartFails
      BY <3>3, SMT DEF StartFails, AfterRun, Show, SupervisorTypes
    <3>4. CASE Reap
      BY <3>4, SMT DEF Reap, AfterRun, Show, SupervisorTypes
    <3>5. CASE SupPause
      BY <3>5, SMT DEF SupPause, Show, SupervisorTypes
    <3> QED BY <3>1, <3>2, <3>3, <3>4, <3>5 DEF SupStep
  <2>2. /\ UNCHANGED <<supervised, streams, links, process>>
        /\ child' \in {child, "up", "none"}
    BY SMT DEF SupStep, SupTop, StartSucceeds, StartFails, Reap, SupPause
  <2>3. ClientTypes' /\ LinkTypes' /\ ProcessTypes'
    BY <2>2, SMT DEF ClientTypes, LinkTypes, ProcessTypes, Alive
  <2> QED BY <2>1, <2>3
<1>2. NoSocketLeft' /\ StatusExplained'
  BY SMT DEF SupStep, SupTop, StartSucceeds, StartFails, Reap, SupPause,
     NoSocketLeft, StatusExplained
<1>3. RunInv'
  <2>1. CASE SupTop
    BY <2>1, SMT DEF SupTop, Show, RunInv, ExitExplained, TypeOK, SupervisorTypes
  <2>2. CASE StartSucceeds
    BY <2>2, SMT DEF StartSucceeds, Show, RunInv, ExitExplained, TypeOK, SupervisorTypes
  <2>3. CASE StartFails
    BY <2>3, SMT DEF StartFails, AfterRun, Show, RunInv, ExitExplained, TypeOK, SupervisorTypes
  <2>4. CASE Reap
    BY <2>4, SMT DEF Reap, AfterRun, Show, RunInv, ExitExplained, TypeOK, SupervisorTypes, Dead
  <2>5. CASE SupPause
    <3>1. /\ supShown'.err = supShown.err /\ supShown'.pid = "none"
          /\ \/ supShown'.state = "restarting" /\ sup' = "top"
             \/ supShown'.state = "stopped" /\ sup' = "done"
      <4>1. CASE sup' = "top" /\ Show("restarting", "none", "none")
        BY <4>1, SMT DEF Show
      <4>2. CASE sup' = "done" /\ Show("stopped", "none", "none")
        BY <4>2, SMT DEF Show
      <4> QED BY <2>5, <4>1, <4>2, Zenon DEF SupPause
    <3> QED
      BY <2>5, <3>1, SMT DEF SupPause, RunInv, ExitExplained, TypeOK, SupervisorTypes
  <2> QED BY <2>1, <2>2, <2>3, <2>4, <2>5 DEF SupStep
<1>4. CloseInv'
  <2>1. CASE SupTop
    BY <2>1, SMT DEF SupTop, CloseInv, TypeOK
  <2>2. CASE StartSucceeds
    BY <2>2, SMT DEF StartSucceeds, CloseInv, TypeOK
  <2>3. CASE StartFails
    BY <2>3, SMT DEF StartFails, AfterRun, CloseInv, TypeOK
  <2>4. CASE Reap
    BY <2>4, SMT DEF Reap, AfterRun, CloseInv, TypeOK
  <2>5. CASE SupPause
    BY <2>5, SMT DEF SupPause, CloseInv, TypeOK
  <2> QED BY <2>1, <2>2, <2>3, <2>4, <2>5 DEF SupStep
<1> QED BY <1>1, <1>2, <1>3, <1>4

\* So does what the decoder program does, and its end by the supervisor's hand.
LEMMA DecoderKeepsIInv ==
  ASSUME IInv, Kill \/ Decoder PROVE IInv'
<1> USE DEF IInv, supervisor, streams, links, process
<1>1. CASE Kill \/ Listen \/ End \/ ExternalStarts
  <2>1. TypeOK'
    <3>1. SupervisorTypes' /\ ClientTypes' /\ ProcessTypes'
      BY <1>1, SMT DEF Kill, Listen, End, ExternalStarts, TypeOK, SupervisorTypes,
         ClientTypes, ProcessTypes
    <3>2. LinkTypes'
      BY <1>1, SMT DEF Kill, Listen, End, ExternalStarts, HangUp, TypeOK, LinkTypes,
         Alive, Dead
    <3> QED BY <3>1, <3>2 DEF TypeOK
  <2>2. NoSocketLeft' /\ StatusExplained'
    BY <1>1, SMT DEF Kill, Listen, End, ExternalStarts, HangUp, NoSocketLeft,
       StatusExplained, TypeOK, LinkTypes
  <2>3. RunInv' /\ CloseInv'
    BY <1>1, SMT DEF Kill, Listen, End, ExternalStarts, RunInv, ExitExplained, CloseInv,
       Alive
  <2> QED BY <2>1, <2>2, <2>3
<1>2. ASSUME NEW c \in Clients, Send(c) \/ Drop(c) PROVE IInv'
  <2>1. TypeOK'
    <3>1. SupervisorTypes' /\ ClientTypes' /\ ProcessTypes'
      BY <1>2, SMT DEF Send, Drop, TypeOK, SupervisorTypes, ClientTypes, ProcessTypes
    <3>2. LinkTypes'
      <4>1. CASE Drop(c)
        BY <4>1, SMT DEF Drop, TypeOK, LinkTypes
      <4>2. CASE Send(c)
        BY <4>2, Lines, SMT DEF Send, TypeOK, LinkTypes
      <4> QED BY <1>2, <4>1, <4>2
    <3> QED BY <3>1, <3>2 DEF TypeOK
  <2>2. NoSocketLeft' /\ StatusExplained'
    BY <1>2, SMT DEF Send, Drop, NoSocketLeft, StatusExplained, TypeOK, LinkTypes
  <2>3. RunInv' /\ CloseInv'
    BY <1>2, SMT DEF Send, Drop, RunInv, ExitExplained, CloseInv
  <2> QED BY <2>1, <2>2, <2>3
<1> QED BY <1>1, <1>2 DEF Decoder

\* A step of a client keeps it: what a client shows, its connection and its
\* place in the loop change together.
LEMMA ClientKeepsIInv ==
  ASSUME IInv, NEW c \in Clients, ClientStep(c) PROVE IInv'
<1> USE DEF IInv, supervisor, links, process
<1>1. TypeOK'
  <2> USE DEF TypeOK
  <2>1. ClientTypes'
    <3> USE DEF ClientTypes
    <3>1. CASE Top(c)
      BY <3>1, SMT DEF Top, Finish, SetState
    <3>2. CASE DialSucceeds(c)
      BY <3>2, SMT DEF DialSucceeds, SetState
    <3>3. CASE DialFails(c)
      BY <3>3, SMT DEF DialFails, SetState
    <3>4. CASE Check(c)
      BY <3>4, SMT DEF Check, Finish, SetState
    <3>5. CASE ReadLine(c)
      <4> DEFINE k == Head(wire[c])
      <4>1. pc' = [pc EXCEPT ![c] = "check"]
        BY <3>5 DEF ReadLine
      <4>2. CASE Rejects(c, k)
        <5>1. k \in {"long", "garbled"}
          BY <4>2, RejectedKinds
        <5>2. SetState(c, "error", k) /\ rejected' = [rejected EXCEPT ![c] = TRUE]
          BY <3>5, <4>2 DEF ReadLine
        <5> HIDE DEF k
        <5> QED BY <4>1, <5>1, <5>2, SMT DEF SetState
      <4>3. CASE ~Rejects(c, k)
        BY <3>5, <4>1, <4>3, SMT DEF ReadLine
      <4> QED BY <4>2, <4>3
    <3>6. CASE ReadFails(c)
      BY <3>6, SMT DEF ReadFails, SetState
    <3>7. CASE Pause(c)
      BY <3>7, SMT DEF Pause, Finish, SetState
    <3> QED BY <3>1, <3>2, <3>3, <3>4, <3>5, <3>6, <3>7 DEF ClientStep
  <2>2. LinkTypes'
    <3>1. CASE DialSucceeds(c) \/ Check(c) \/ ReadFails(c)
      <4>1. CASE DialSucceeds(c)
        BY <4>1, SMT DEF DialSucceeds, LinkTypes
      <4>2. CASE CloseConn(c) /\ child' = child
        <5>1. <<>> \in Seq(Kinds)
          BY SMT
        <5> QED BY <4>2, <5>1, SMT DEF CloseConn, LinkTypes
      <4>3. CASE UNCHANGED links /\ child' = child
        BY <4>3, SMT DEF LinkTypes
      <4> QED BY <3>1, <4>1, <4>2, <4>3, Zenon DEF Check, ReadFails
    <3>2. CASE ReadLine(c)
      BY <3>2, Lines, SMT DEF ReadLine, LinkTypes
    <3>3. CASE Top(c) \/ DialFails(c) \/ Pause(c)
      BY <3>3, SMT DEF Top, DialFails, Pause, LinkTypes
    <3> QED BY <3>1, <3>2, <3>3 DEF ClientStep
  <2>3. SupervisorTypes' /\ ProcessTypes'
    BY SMT DEF ClientStep, Top, DialSucceeds, DialFails, Check, ReadLine, ReadFails, Pause,
       SupervisorTypes, ProcessTypes
  <2> QED BY <2>1, <2>2, <2>3
<1>2. NoSocketLeft' /\ StatusExplained'
  <2> USE DEF NoSocketLeft, StatusExplained, Reading, TypeOK, ClientTypes, LinkTypes
  <2>1. CASE Top(c)
    <3>1. pc[c] = "top" /\ conn' = conn /\ rejected' = rejected
      BY <2>1, Zenon DEF Top
    <3>2. CASE Finish(c)
      <4>1. /\ pc' = [pc EXCEPT ![c] = "done"]
            /\ shown' = [shown EXCEPT ![c] = [state |-> "stopped", err |-> "none"]]
        BY <3>2, SMT DEF Finish, SetState
      <4>2. NoSocketLeft'
        BY <3>1, <4>1, SMT
      <4>3. StatusExplained'
        BY <3>1, <4>1, SMT
      <4> QED BY <4>2, <4>3
    <3>3. CASE pc' = [pc EXCEPT ![c] = "dial"] /\ SetState(c, "connecting", "none")
      <4>1. shown' = [shown EXCEPT ![c] = [state |-> "connecting", err |-> "none"]]
        BY <3>3, SMT DEF SetState
      <4>2. NoSocketLeft'
        BY <3>1, <3>3, SMT
      <4>3. StatusExplained'
        BY <3>1, <3>3, <4>1, SMT
      <4> QED BY <4>2, <4>3
    <3> QED BY <2>1, <3>2, <3>3, Zenon DEF Top
  <2>2. CASE DialSucceeds(c)
    BY <2>2, SMT DEF DialSucceeds, SetState
  <2>3. CASE DialFails(c)
    BY <2>3, SMT DEF DialFails, SetState
  <2>4. CASE Check(c)
    <3>1. CASE stopping
      <4>1. /\ pc[c] = "check" /\ rejected' = rejected
            /\ pc' = [pc EXCEPT ![c] = "done"]
            /\ conn' = [conn EXCEPT ![c] = "none"]
            /\ shown' = [shown EXCEPT ![c] = [state |-> "stopped", err |-> "none"]]
        BY <2>4, <3>1, SMT DEF Check, Finish, SetState, CloseConn
      <4>2. NoSocketLeft'
        BY <4>1, SMT
      <4>3. StatusExplained'
        BY <4>1, SMT
      <4> QED BY <4>2, <4>3
    <3>2. CASE ~stopping
      BY <2>4, <3>2, SMT DEF Check
    <3> QED BY <3>1, <3>2
  <2>5. CASE ReadLine(c)
    <3> DEFINE k == Head(wire[c])
    <3>1. pc' = [pc EXCEPT ![c] = "check"] /\ conn' = conn /\ pc[c] = "read"
      BY <2>5 DEF ReadLine
    <3>2. CASE Rejects(c, k)
      <4>1. k \in {"long", "garbled"}
        BY <3>2, RejectedKinds
      <4>2. SetState(c, "error", k) /\ rejected' = [rejected EXCEPT ![c] = TRUE]
        BY <2>5, <3>2 DEF ReadLine
      <4> HIDE DEF k
      <4> QED BY <3>1, <4>1, <4>2, SMT DEF SetState
    <3>3. CASE ~Rejects(c, k)
      BY <2>5, <3>1, <3>3, SMT DEF ReadLine
    <3> QED BY <3>2, <3>3
  <2>6. CASE ReadFails(c)
    BY <2>6, SMT DEF ReadFails, SetState, CloseConn
  <2>7. CASE Pause(c)
    <3>1. CASE pc' = [pc EXCEPT ![c] = "top"] /\ UNCHANGED shown
      BY <2>7, <3>1, SMT DEF Pause
    <3>2. CASE Finish(c)
      BY <2>7, <3>2, SMT DEF Pause, Finish, SetState
    <3> QED BY <2>7, <3>1, <3>2 DEF Pause
  <2> QED BY <2>1, <2>2, <2>3, <2>4, <2>5, <2>6, <2>7 DEF ClientStep
<1>3. RunInv'
  BY SMT DEF ClientStep, Top, DialSucceeds, DialFails, Check, ReadLine, ReadFails, Pause,
     RunInv, ExitExplained
<1>4. CloseInv'
  <2>1. /\ \A d \in Clients : pc[d] = "done" => pc'[d] = "done"
        /\ UNCHANGED <<supervised, child, sup, closing>>
    BY SMT DEF ClientStep, Top, DialSucceeds, DialFails, Check, ReadLine, ReadFails, Pause,
       Finish, TypeOK, ClientTypes
  <2> QED BY <2>1, OrderFacts, SMT DEF CloseInv
<1> QED BY <1>1, <1>2, <1>3, <1>4

\* So do the signal, each step of Close, and the return of main.
LEMMA ProcessKeepsIInv ==
  ASSUME IInv, Cancel \/ BeginClose \/ CloseNext \/ Exit PROVE IInv'
<1> USE DEF IInv, supervisor, streams, links
<1>1. TypeOK'
  <2>1. SupervisorTypes' /\ ClientTypes' /\ LinkTypes'
    BY SMT DEF Cancel, BeginClose, CloseNext, Exit, TypeOK, SupervisorTypes, ClientTypes,
       LinkTypes
  <2>2. ProcessTypes'
    <3>1. closing' \in 0..Returned
      BY OrderFacts, SMT DEF Cancel, BeginClose, CloseNext, Exit, TypeOK, ProcessTypes,
         Returned
    <3>2. supervised' \in BOOLEAN /\ stopping' \in BOOLEAN /\ exited' \in BOOLEAN
      BY Zenon DEF Cancel, BeginClose, CloseNext, Exit, TypeOK, ProcessTypes
    <3>3. Returned' = Returned
      BY DEF Returned
    <3> QED BY <3>1, <3>2, <3>3, Zenon DEF ProcessTypes
  <2> QED BY <2>1, <2>2 DEF TypeOK
<1>2. NoSocketLeft' /\ StatusExplained' /\ RunInv'
  BY SMT DEF Cancel, BeginClose, CloseNext, Exit, NoSocketLeft, StatusExplained, RunInv,
     ExitExplained
<1>3. CloseInv'
  <2>1. CASE Cancel \/ Exit
    BY <2>1, SMT DEF Cancel, Exit, CloseInv
  <2>2. CASE BeginClose
    BY <2>2, OrderFacts, SMT DEF BeginClose, CloseInv, Returned
  <2>3. CASE CloseNext
    BY <2>3, OrderFacts, SMT DEF CloseNext, Awaited, CloseInv, Returned, TypeOK, ProcessTypes
  <2> QED BY <2>1, <2>2, <2>3
<1> QED BY <1>1, <1>2, <1>3

\* Every step keeps the invariant.
LEMMA NextIInv == IInv /\ [Next]_vars => IInv'
<1> SUFFICES ASSUME IInv, [Next]_vars PROVE IInv'
  OBVIOUS
<1>1. CASE SupStep
  BY <1>1, SupervisorKeepsIInv
<1>2. CASE Kill \/ Decoder
  BY <1>2, DecoderKeepsIInv
<1>3. ASSUME NEW c \in Clients, ClientStep(c) PROVE IInv'
  BY <1>3, ClientKeepsIInv
<1>4. CASE Cancel \/ BeginClose \/ CloseNext \/ Exit
  BY <1>4, ProcessKeepsIInv
<1>5. CASE UNCHANGED vars
  BY <1>5, SMT DEF vars, supervisor, streams, links, process, IInv, TypeOK,
     SupervisorTypes, ClientTypes, LinkTypes, ProcessTypes, NoSocketLeft, StatusExplained, RunInv, ExitExplained, CloseInv
<1> QED BY <1>1, <1>2, <1>3, <1>4, <1>5 DEF Next

\* The inductive invariant of the link.
THEOREM Invariant == Spec => []IInv
<1> QED BY InitIInv, NextIInv, PTL DEF Spec

\* Every variable keeps its type.
THEOREM TypeCorrect == Spec => []TypeOK
<1>1. IInv => TypeOK
  BY DEF IInv
<1> QED BY <1>1, Invariant, PTL

\* No path through a client's loop leaves a socket behind, for any number of
\* clients and any behaviour of the decoder.
THEOREM NoSocketIsLeft == Spec => []NoSocketLeft
<1>1. IInv => NoSocketLeft
  BY DEF IInv
<1> QED BY <1>1, Invariant, PTL

\* What the page shows of a client is where its loop is.
THEOREM StatusIsExplained == Spec => []StatusExplained
<1>1. IInv => StatusExplained
  BY DEF IInv
<1> QED BY <1>1, Invariant, PTL

\* What the page shows of the supervisor is how the last run ended.
THEOREM ExitIsExplained == Spec => []ExitExplained
<1>1. IInv => ExitExplained
  BY DEF IInv, RunInv
<1> QED BY <1>1, Invariant, PTL

\* When Close has returned, nothing of the decoder is left.
THEOREM ClosedIsGone == Spec => []ClosedMeansGone
<1>1. IInv => ClosedMeansGone
  <2> SUFFICES ASSUME IInv, closing = Returned PROVE
        /\ \A c \in Clients : pc[c] = "done" /\ conn[c] = "none"
        /\ supervised => child = "none"
    BY DEF ClosedMeansGone
  <2>1. ASSUME NEW c \in Clients PROVE pc[c] = "done"
    <3>1. PICK i \in 1..Len(Order) : c = Order[i]
      BY DEF Clients
    <3> QED BY <3>1, OrderFacts, SMT DEF IInv, CloseInv, Returned
  <2>2. ASSUME NEW c \in Clients PROVE conn[c] = "none"
    BY <2>1, SMT DEF IInv, NoSocketLeft, Reading
  <2>3. supervised => child = "none"
    BY SMT DEF IInv, CloseInv
  <2> QED BY <2>1, <2>2, <2>3
<1> QED BY <1>1, Invariant, PTL

---------------------------------------------------------------------------
(* SDRAssign: the first of some dongles *)

LEMMA MinIsIn ==
  ASSUME NEW T, T \subseteq Nat, T # {}
  PROVE  Min(T) \in T /\ \A y \in T : Min(T) <= y
<1> DEFINE R == {ss \in Nat \X Nat : ss[1] < ss[2]}
<1>1. IsWellFoundedOn(R, Nat)
  BY NatLessThanWellFounded DEF OpToRel
<1>2. \E x \in T : \A y \in T : ~(<<y, x>> \in R)
  <2> HIDE DEF R
  <2>1. T \subseteq Nat /\ T # {}
    OBVIOUS
  <2> QED BY <1>1, <2>1, WFMin, Zenon
<1>3. PICK x \in T : \A y \in T : ~(<<y, x>> \in R)
  BY <1>2
<1>4. ASSUME NEW y \in T, y < x PROVE FALSE
  <2>1. <<y, x>> \in Nat \X Nat /\ <<y, x>>[1] = y /\ <<y, x>>[2] = x
    OBVIOUS
  <2>2. <<y, x>> \in R
    BY <1>4, <2>1
  <2> QED BY <1>3, <2>2
<1>5. \A y \in T : x <= y
  BY <1>4
<1> QED BY <1>5 DEF Min

\* FirstOf gives one of them, or 0 if there is none.
LEMMA FirstIsIn ==
  ASSUME NEW T, NEW n \in Nat, T \subseteq 1..n
  PROVE  /\ T = {} => FirstOf(T) = 0
         /\ T # {} => FirstOf(T) \in T /\ FirstOf(T) # 0
         /\ FirstOf(T) \in 0..n
<1>1. T \subseteq Nat
  OBVIOUS
<1>2. ASSUME T # {} PROVE Min(T) \in T
  BY <1>1, <1>2, MinIsIn
<1>3. ASSUME T # {} PROVE Min(T) \in 1..n /\ Min(T) # 0
  <2> DEFINE m == Min(T)
  <2>1. m \in T
    BY <1>2, <1>3
  <2> HIDE DEF m
  <2>2. m \in 1..n
    BY <2>1
  <2>3. m # 0
    BY <2>2
  <2> QED BY <2>2, <2>3 DEF m
<1>4. CASE T = {}
  BY <1>4 DEF FirstOf
<1>5. CASE T # {}
  <2>1. FirstOf(T) = Min(T)
    BY <1>5 DEF FirstOf
  <2> QED BY <1>2, <1>3, <1>5, <2>1
<1> QED BY <1>4, <1>5

\* A single dongle is the first one.
LEMMA FirstOfOne ==
  ASSUME NEW n \in Nat, NEW i \in 1..n
  PROVE  FirstOf({i}) = i
BY FirstIsIn

LEMMA FirstOfAll ==
  ASSUME NEW n \in Nat \ {0}
  PROVE  FirstOf(1..n) = 1
<1>1. 1 \in 1..n /\ 1..n \subseteq Nat
  OBVIOUS
<1>2. Min(1..n) \in 1..n /\ Min(1..n) <= 1
  BY <1>1, MinIsIn
<1> QED BY <1>1, <1>2 DEF FirstOf

\* Two dongles are two, and each of the bands that has a name gets a dongle of its name,
\* as long as no dongle has both.
LEMMA AssignedDongles ==
  ASSUME NEW n \in Nat \ {0}, NEW devs, DOMAIN devs = 1..n
  PROVE  LET a == AutoAssign1090And978(devs)["1090"]
             u == AutoAssign1090And978(devs)["978"]
         IN /\ a \in 0..n /\ u \in 0..n
            /\ n >= 2 => a # 0 /\ u # 0 /\ a # u
            /\ (\A i \in 1..n : devs[i] \notin Says1090 \intersect Says978) =>
                 /\ (\E i \in 1..n : devs[i] \in Says1090) => a # 0 /\ devs[a] \in Says1090
                 /\ (\E i \in 1..n : devs[i] \in Says978) => u # 0 /\ devs[u] \in Says978
<1> DEFINE T1090 == {i \in 1..n : devs[i] \in Says1090}
           T978 == {i \in 1..n : devs[i] \in Says978}
           adsb == FirstOf(T1090)
           uat == FirstOf(T978)
           rest(i) == FirstOf(1..n \ {i})
           a == AutoAssign1090And978(devs)["1090"]
           u == AutoAssign1090And978(devs)["978"]
<1>1. /\ T1090 = {} => adsb = 0
      /\ T1090 # {} => adsb \in T1090 /\ adsb # 0
      /\ adsb \in 0..n
  <2>1. T1090 \subseteq 1..n
    OBVIOUS
  <2> HIDE DEF T1090
  <2> QED BY <2>1, FirstIsIn
<1>2. /\ T978 = {} => uat = 0
      /\ T978 # {} => uat \in T978 /\ uat # 0
      /\ uat \in 0..n
  <2>1. T978 \subseteq 1..n
    OBVIOUS
  <2> HIDE DEF T978
  <2> QED BY <2>1, FirstIsIn
<1>3. FirstOf(1..n) \in 1..n
  BY FirstIsIn
<1>4. ASSUME NEW i \in 0..n
      PROVE  rest(i) \in 0..n /\ (n >= 2 => rest(i) # 0 /\ rest(i) # i)
  <2> DEFINE T == 1..n \ {i}
  <2>1. T \subseteq 1..n
    OBVIOUS
  <2>2. n >= 2 => T # {}
    <3>1. n >= 2 => 1 \in 1..n /\ 2 \in 1..n
      OBVIOUS
    <3> QED BY <3>1
  <2>3. i \notin T
    OBVIOUS
  <2>4. FirstOf(T) \in 0..n /\ (T # {} => FirstOf(T) \in T /\ FirstOf(T) # 0)
    <3> HIDE DEF T
    <3> QED BY <2>1, FirstIsIn
  <2>5. rest(i) = FirstOf(T)
    OBVIOUS
  <2> HIDE DEF T, rest
  <2> QED BY <2>2, <2>3, <2>4, <2>5
<1>5. \/ adsb # 0 /\ uat # 0 /\ adsb # uat /\ a = adsb /\ u = uat
      \/ adsb # 0 /\ uat \in {0, adsb} /\ a = adsb /\ u = rest(adsb)
      \/ adsb = 0 /\ uat # 0 /\ a = rest(uat) /\ u = uat
      \/ adsb = 0 /\ uat = 0 /\ a = FirstOf(1..n) /\ u = rest(1)
  <2> DEFINE pair(x, y) == [b \in Bands |-> IF b = "1090" THEN x ELSE y]
  <2>1. \A x, y : pair(x, y)["1090"] = x /\ pair(x, y)["978"] = y
    BY DEF Bands
  <2>2. AutoAssign1090And978(devs) =
          CASE adsb # 0 /\ uat # 0 /\ adsb # uat -> pair(adsb, uat)
            [] adsb # 0 /\ uat \in {0, adsb} -> pair(adsb, rest(adsb))
            [] adsb = 0 /\ uat # 0 -> pair(rest(uat), uat)
            [] OTHER -> pair(FirstOf(1..n), rest(1))
    BY Zenon DEF AutoAssign1090And978
  <2> HIDE DEF adsb, uat, rest, pair
  <2> QED BY <2>1, <2>2
<1>6. ASSUME \A i \in 1..n : devs[i] \notin Says1090 \intersect Says978
      PROVE  adsb # 0 => adsb # uat
  BY <1>1, <1>2, <1>6
<1>7. 1 \in 0..n
  OBVIOUS
<1>8. T1090 # {} <=> \E i \in 1..n : devs[i] \in Says1090
  OBVIOUS
<1>9. T978 # {} <=> \E i \in 1..n : devs[i] \in Says978
  OBVIOUS
<1>10. /\ adsb \in T1090 => devs[adsb] \in Says1090
       /\ uat \in T978 => devs[uat] \in Says978
  OBVIOUS
<1>11. a \in 0..n /\ u \in 0..n /\ (n >= 2 => a # 0 /\ u # 0 /\ a # u)
  <2>1. adsb \in 0..n /\ uat \in 0..n /\ FirstOf(1..n) \in 1..n
    BY <1>1, <1>2, <1>3
  <2>2. n >= 2 => FirstOf(1..n) # rest(1)
    <3>1. FirstOf(1..n) = 1
      BY FirstOfAll
    <3> QED BY <1>4, <1>7, <3>1
  <2>3. /\ rest(adsb) \in 0..n /\ (n >= 2 => rest(adsb) # 0 /\ rest(adsb) # adsb)
        /\ rest(uat) \in 0..n /\ (n >= 2 => rest(uat) # 0 /\ rest(uat) # uat)
        /\ rest(1) \in 0..n /\ (n >= 2 => rest(1) # 0)
    BY <1>4, <1>7, <2>1
  <2>4. FirstOf(1..n) \in 0..n /\ FirstOf(1..n) # 0
    BY <2>1
  <2> HIDE DEF adsb, uat, rest, a, u
  <2> QED BY <1>5, <2>1, <2>2, <2>3, <2>4, Zenon
<1>12. ASSUME \A i \in 1..n : devs[i] \notin Says1090 \intersect Says978
       PROVE  /\ T1090 # {} => a # 0 /\ devs[a] \in Says1090
              /\ T978 # {} => u # 0 /\ devs[u] \in Says978
  <2>1. adsb # 0 => adsb # uat
    BY <1>6, <1>12
  <2> HIDE DEF adsb, uat, rest, a, u, T1090, T978
  <2> QED BY <1>1, <1>2, <1>5, <1>10, <2>1
<1> QED BY <1>8, <1>9, <1>11, <1>12

---------------------------------------------------------------------------
(* SDRAssign: the arguments *)

\* What a band is configured with: its tag, which detection may have replaced, and for
\* 1090 the index.
Chosen(b) == IsAutoTag(written.tag[b]) /\ assigned[b] # 0

TagOf(b) == IF Chosen(b) THEN BySerial(found[assigned[b]]) ELSE written.tag[b]

IndexOf1090 == IF Chosen("1090") THEN ByIndex(assigned["1090"] - 1) ELSE index

Selector1090 ==
  IF "1090" \in known \ written.other
    THEN DeviceArg(written.selector["1090"], TagOf("1090"), IndexOf1090)
    ELSE written.selector["1090"]

Selector978 ==
  IF "978" \in known \ other THEN SdrArg(TagOf("978")) ELSE written.selector["978"]

\* A detection that worked has given every dongle, and what it picked of them.
FoundInv ==
  /\ \E n \in 0..MaxDongles : plugged \in [1..n -> Serials]
  /\ \/ found = <<>> /\ assigned = Nobody
     \/ found = plugged /\ plugged # <<>> /\ assigned = AutoAssign1090And978(plugged)

\* Each band has what was written until it is configured, and then what was chosen; 1090
\* does not touch what 978 has.
ArgumentsInv ==
  /\ DOMAIN tag = Bands /\ DOMAIN selector = Bands
  /\ written.other \subseteq other
  /\ "1090" \in other => "1090" \in written.other
  /\ step # "done" => other = written.other
  /\ step \in {"detect", "1090"} =>
       tag["1090"] = written.tag["1090"] /\ selector["1090"] = written.selector["1090"]
  /\ step # "done" =>
       tag["978"] = written.tag["978"] /\ selector["978"] = written.selector["978"]
  /\ step \in {"978", "done"} => selector["1090"] = Selector1090
  /\ step = "done" => selector["978"] = Selector978

AssignInv == FoundInv /\ ArgumentsInv /\ step \in {"detect", "1090", "978", "done"}

LEMMA InitAssignInv == AssignInit => AssignInv
<1> SUFFICES ASSUME AssignInit PROVE AssignInv
  OBVIOUS
<1>1. /\ written = [tag |-> tag, selector |-> selector, other |-> other]
      /\ found = <<>> /\ assigned = Nobody /\ step = "detect"
  BY Zenon DEF AssignInit
<1>2. written.tag = tag /\ written.selector = selector /\ written.other = other
  BY <1>1
<1>3. DOMAIN tag = Bands /\ DOMAIN selector = Bands
  BY Zenon DEF AssignInit
<1>4. FoundInv
  <2>1. plugged \in UNION {[1 .. n -> Serials] : n \in 0 .. MaxDongles}
    BY Zenon DEF AssignInit
  <2>2. PICK n \in 0..MaxDongles : plugged \in [1..n -> Serials]
    BY <2>1
  <2>3. \E k \in 0..MaxDongles : plugged \in [1..k -> Serials]
    BY <2>2
  <2>4. found = <<>> /\ assigned = Nobody
    BY <1>1
  <2> QED BY <2>3, <2>4 DEF FoundInv
<1> QED BY <1>1, <1>2, <1>3, <1>4 DEF AssignInv, ArgumentsInv

LEMMA StepKeepsAssignInv == AssignInv /\ [AssignNext]_assignVars => AssignInv'
<1> SUFFICES ASSUME AssignInv, [AssignNext]_assignVars PROVE AssignInv'
  OBVIOUS
<1> USE DEF AssignInv
<1>1. CASE DetectSucceeds
  <2>1. /\ found' = plugged /\ assigned' = AutoAssign1090And978(plugged) /\ plugged # <<>>
        /\ step = "detect" /\ step' = "1090"
        /\ UNCHANGED <<plugged, written, tag, selector, other>>
    BY <1>1 DEF DetectSucceeds, machine
  <2>2. FoundInv'
    BY <2>1, Zenon DEF FoundInv
  <2> QED BY <2>1, <2>2 DEF ArgumentsInv
<1>2. CASE NoDetection
  <2>1. /\ step = "detect" /\ step' = "1090"
        /\ UNCHANGED <<plugged, written, tag, selector, other, found, assigned>>
    BY <1>2 DEF NoDetection, machine
  <2>2. FoundInv'
    BY <2>1, Zenon DEF FoundInv
  <2> QED BY <2>1, <2>2 DEF ArgumentsInv
<1>3. CASE Configure1090
  <2>1. /\ step = "1090" /\ step' = "978"
        /\ UNCHANGED <<plugged, known, index, written, other, found, assigned>>
    BY <1>3 DEF Configure1090, machine
  <2>2. FoundInv'
    BY <2>1, Zenon DEF FoundInv
  <2>3. tag["1090"] = written.tag["1090"] /\ selector["1090"] = written.selector["1090"]
    BY <2>1 DEF ArgumentsInv
  <2>4. UNCHANGED <<Selector1090, Selector978>>
    BY <2>1 DEF Selector1090, Selector978, TagOf, IndexOf1090, Chosen
  <2>5. /\ DOMAIN tag' = Bands /\ DOMAIN selector' = Bands
        /\ tag'["978"] = tag["978"] /\ selector'["978"] = selector["978"]
    BY <1>3 DEF Configure1090, ArgumentsInv, Bands
  <2>6. selector'["1090"] = Selector1090
    <3>1. CASE "1090" \in known \ other
      <4>1. selector' = [selector EXCEPT ! ["1090"] = DeviceArg(@, TagOf("1090"), IndexOf1090)]
        BY <1>3, <2>3, <3>1, Zenon DEF Configure1090, TagOf, IndexOf1090, Chosen
      <4>2. "1090" \in DOMAIN selector
        BY DEF ArgumentsInv, Bands
      <4>3. "1090" \in known \ written.other
        BY <2>1, <3>1 DEF ArgumentsInv
      <4> QED BY <2>3, <4>1, <4>2, <4>3 DEF Selector1090
    <3>2. CASE "1090" \notin known \ other
      <4>1. selector' = selector
        BY <1>3, <3>2 DEF Configure1090
      <4>2. "1090" \notin known \ written.other
        BY <2>1, <3>2 DEF ArgumentsInv
      <4> QED BY <2>3, <4>1, <4>2 DEF Selector1090
    <3> QED BY <3>1, <3>2
  <2> QED BY <2>1, <2>2, <2>4, <2>5, <2>6 DEF ArgumentsInv
<1>4. CASE Configure978
  <2>1. /\ step = "978" /\ step' = "done"
        /\ UNCHANGED <<plugged, known, index, written, found, assigned>>
    BY <1>4 DEF Configure978, machine
  <2>2. FoundInv'
    BY <2>1, Zenon DEF FoundInv
  <2>3. /\ tag["978"] = written.tag["978"] /\ selector["978"] = written.selector["978"]
        /\ other = written.other
    BY <2>1 DEF ArgumentsInv
  <2>4. other' = other \/ other' = other \union {"978"}
    BY <1>4 DEF Configure978
  <2>5. UNCHANGED Selector1090
    BY <2>1 DEF Selector1090, TagOf, IndexOf1090, Chosen
  <2>6. /\ DOMAIN tag' = Bands /\ DOMAIN selector' = Bands
        /\ selector'["1090"] = selector["1090"]
    BY <1>4 DEF Configure978, ArgumentsInv, Bands
  <2>7. selector'["978"] = Selector978'
    <3>1. CASE "978" \in known \ other'
      <4>1. selector' = [selector EXCEPT ! ["978"] = SdrArg(TagOf("978"))]
        BY <1>4, <2>3, <3>1 DEF Configure978, TagOf, Chosen
      <4>2. "978" \in DOMAIN selector
        BY DEF ArgumentsInv, Bands
      <4>3. selector'["978"] = SdrArg(TagOf("978"))
        BY <4>1, <4>2
      <4> QED BY <2>1, <3>1, <4>3 DEF Selector978, TagOf, Chosen
    <3>2. CASE "978" \notin known \ other'
      <4>1. selector' = selector
        BY <1>4, <3>2 DEF Configure978
      <4> QED BY <2>1, <2>3, <3>2, <4>1 DEF Selector978
    <3> QED BY <3>1, <3>2
  <2> QED BY <2>1, <2>2, <2>3, <2>4, <2>5, <2>6, <2>7 DEF ArgumentsInv
<1>5. CASE UNCHANGED assignVars
  <2>1. UNCHANGED <<plugged, known, index, written, tag, selector, other, found, assigned, step>>
    BY <1>5 DEF assignVars
  <2>2. UNCHANGED <<Selector1090, Selector978>>
    BY <2>1 DEF Selector1090, Selector978, TagOf, IndexOf1090, Chosen
  <2>3. FoundInv'
    BY <2>1, Zenon DEF FoundInv
  <2> QED BY <2>1, <2>2, <2>3 DEF ArgumentsInv
<1> QED BY <1>1, <1>2, <1>3, <1>4, <1>5 DEF AssignNext

---------------------------------------------------------------------------
(* SDRAssign: what the decoders open *)

\* The selectors are told apart by their kind.
LEMMA Selectors ==
  /\ \A s : BySerial(s).kind = "serial" /\ BySerial(s).serial = s
  /\ \A s : ~IsAutoTag(BySerial(s)) /\ BySerial(s) # Unset
  /\ IsAutoTag(Unset)
<1>1. /\ \A s : BySerial(s).kind = "serial" /\ BySerial(s).serial = s
      /\ Unset.kind = "unset" /\ AutoTag.kind = "auto"
  BY DEF BySerial, Unset, AutoTag
<1>2. \A s : BySerial(s) # Unset /\ BySerial(s) # AutoTag
  BY <1>1
<1> QED BY <1>1, <1>2 DEF IsAutoTag

\* A band that detection chose a dongle for is told its serial.
LEMMA ChosenSelector ==
  ASSUME AssignInv, step = "done", NEW b \in Bands, UsesDongle(b), Chosen(b)
  PROVE  selector[b] = BySerial(found[assigned[b]])
<1>1. TagOf(b) = BySerial(found[assigned[b]])
  BY DEF TagOf
<1>2. CASE b = "1090"
  <2>1. "1090" \in known \ written.other
    BY <1>2 DEF UsesDongle, AssignInv, ArgumentsInv
  <2>2. selector["1090"] = DeviceArg(written.selector["1090"], TagOf("1090"), IndexOf1090)
    BY <2>1 DEF AssignInv, ArgumentsInv, Selector1090
  <2> QED BY <1>1, <1>2, <2>2, Selectors DEF DeviceArg
<1>3. CASE b = "978"
  <2>1. selector["978"] = SdrArg(TagOf("978"))
    BY <1>3 DEF UsesDongle, AssignInv, ArgumentsInv, Selector978
  <2> QED BY <1>1, <1>3, <2>1, Selectors DEF SdrArg
<1> QED BY <1>2, <1>3 DEF Bands

\* One that keeps a tag of its own is told that.
LEMMA WrittenSelector ==
  ASSUME AssignInv, step = "done"
  PROVE  TagsStay
<1> SUFFICES ASSUME NEW b \in Bands
             PROVE  /\ UsesDongle(b) /\ ~IsAutoTag(written.tag[b]) => selector[b] = written.tag[b]
                    /\ b \notin known \/ b \in written.other => selector[b] = written.selector[b]
  BY DEF TagsStay
<1>1. ~IsAutoTag(written.tag[b]) => TagOf(b) = written.tag[b] /\ written.tag[b] # Unset
  BY DEF TagOf, Chosen, IsAutoTag
<1>2. CASE b = "1090"
  <2>1. selector["1090"] = Selector1090
    BY DEF AssignInv, ArgumentsInv
  <2>2. UsesDongle(b) => "1090" \in known \ written.other
    BY <1>2 DEF UsesDongle, AssignInv, ArgumentsInv
  <2> QED BY <1>1, <1>2, <2>1, <2>2 DEF Selector1090, DeviceArg
<1>3. CASE b = "978"
  <2>1. selector["978"] = Selector978 /\ written.other \subseteq other
    BY DEF AssignInv, ArgumentsInv
  <2> QED BY <1>1, <1>3, <2>1 DEF Selector978, SdrArg, UsesDongle
<1> QED BY <1>2, <1>3 DEF Bands

\* A detection that worked has assigned dongles that are plugged in.
LEMMA DetectedDongles ==
  ASSUME AssignInv, found # <<>>
  PROVE  \E n \in Nat \ {0} :
           /\ found = plugged /\ DOMAIN plugged = 1..n /\ Len(found) = n
           /\ assigned = AutoAssign1090And978(plugged)
<1>1. /\ found = plugged /\ plugged # <<>> /\ assigned = AutoAssign1090And978(plugged)
  BY DEF AssignInv, FoundInv
<1>2. PICK n \in 0..MaxDongles : plugged \in [1..n -> Serials]
  BY DEF AssignInv, FoundInv
<1>3. n \in Nat /\ plugged \in Seq(Serials) /\ Len(plugged) = n /\ DOMAIN plugged = 1..n
  BY <1>2, BoundAssumption
<1>4. n # 0
  BY <1>1, <1>3
<1> QED BY <1>1, <1>3, <1>4

LEMMA StateSaysDistinct == AssignInv => DistinctDongles
<1> SUFFICES ASSUME AssignInv, step = "done", Len(found) >= 2, AllDiffer,
                    \A b \in Bands : UsesDongle(b) /\ IsAutoTag(written.tag[b])
             PROVE  /\ Opens(selector["1090"]) # 0 /\ Opens(selector["978"]) # 0
                    /\ Opens(selector["1090"]) # Opens(selector["978"])
  BY DEF DistinctDongles, LeftToDetection
<1>1. found # <<>>
  BY SMT
<1>2. PICK n \in Nat \ {0} :
        /\ found = plugged /\ DOMAIN plugged = 1..n /\ Len(found) = n
        /\ assigned = AutoAssign1090And978(plugged)
  BY <1>1, DetectedDongles
<1>3. /\ assigned["1090"] \in 1..n /\ assigned["978"] \in 1..n
      /\ assigned["1090"] # assigned["978"]
  <2>1. n >= 2
    BY <1>2
  <2> QED BY <1>2, <2>1, AssignedDongles
<1>4. ASSUME NEW b \in Bands PROVE Opens(selector[b]) = assigned[b]
  <2>1. assigned[b] \in 1..n
    BY <1>3, <1>4 DEF Bands
  <2>2. selector[b] = BySerial(plugged[assigned[b]])
    <3>1. UsesDongle(b) /\ IsAutoTag(written.tag[b]) /\ assigned[b] # 0
      BY <2>1
    <3>2. UsesDongle(b) /\ Chosen(b)
      BY <3>1 DEF Chosen
    <3> QED BY <1>2, <3>2, ChosenSelector
  <2>3. Opens(selector[b]) = FirstOf({i \in DOMAIN plugged : plugged[i] = plugged[assigned[b]]})
    <3>1. selector[b].kind = "serial" /\ selector[b].serial = plugged[assigned[b]]
      BY <2>2, Selectors
    <3>2. Opens(selector[b]) = FirstOf({i \in DOMAIN plugged : plugged[i] = selector[b].serial})
      BY <3>1 DEF Opens
    <3> QED BY <3>1, <3>2
  <2>4. {i \in DOMAIN plugged : plugged[i] = plugged[assigned[b]]} = {assigned[b]}
    BY <1>2, <2>1 DEF AllDiffer
  <2> QED BY <1>2, <2>1, <2>3, <2>4, FirstOfOne
<1>5. Opens(selector["1090"]) = assigned["1090"] /\ Opens(selector["978"]) = assigned["978"]
  BY <1>4 DEF Bands
<1> QED BY <1>3, <1>5

LEMMA StateSaysNamed == AssignInv => NamedGoesToItsBand
<1> SUFFICES ASSUME AssignInv, step = "done", found # <<>>,
                    Says1090 \intersect Says978 \intersect {found[i] : i \in DOMAIN found} = {},
                    NEW b \in Bands, NEW named,
                    named = IF b = "1090" THEN Says1090 ELSE Says978,
                    UsesDongle(b), IsAutoTag(written.tag[b]),
                    \E i \in DOMAIN found : found[i] \in named
             PROVE  selector[b].kind = "serial" /\ selector[b].serial \in named
  BY DEF NamedGoesToItsBand, LeftToDetection
<1>1. PICK n \in Nat \ {0} :
        /\ found = plugged /\ DOMAIN plugged = 1..n /\ Len(found) = n
        /\ assigned = AutoAssign1090And978(plugged)
  BY DetectedDongles
<1>2. \A i \in 1..n : plugged[i] \notin Says1090 \intersect Says978
  BY <1>1
<1>3. assigned[b] # 0 /\ plugged[assigned[b]] \in named
  <2>1. CASE b = "1090"
    BY <1>1, <1>2, <2>1, AssignedDongles
  <2>2. CASE b = "978"
    BY <1>1, <1>2, <2>2, AssignedDongles
  <2> QED BY <2>1, <2>2 DEF Bands
<1>4. selector[b] = BySerial(plugged[assigned[b]])
  BY <1>1, <1>3, ChosenSelector DEF Chosen
<1> QED BY <1>3, <1>4, Selectors

\* The inductive invariant of the start of the decoders, for any dongles and serials.
THEOREM AssignInvariant == AssignSpec => []AssignInv
BY InitAssignInv, StepKeepsAssignInv, PTL DEF AssignSpec

\* Two bands left to detection open two dongles, however many are plugged in and
\* whatever their serials say, as long as these differ (rtlsdr.go 88-147).
THEOREM DonglesAreDistinct == AssignSpec => []DistinctDongles
BY AssignInvariant, StateSaysDistinct, PTL

\* A band that was left to detection gets the dongle whose serial names it, and one with a
\* tag of its own is told that tag (live_runtime.go 242-375, rtlsdr.go 88-147).
THEOREM SerialsAreRespected == AssignSpec => []SerialsRespected
<1>1. AssignInv => SerialsRespected
  <2> SUFFICES ASSUME AssignInv PROVE SerialsRespected
    OBVIOUS
  <2>1. step # "done" => TagsStay
    BY DEF TagsStay
  <2> QED BY <2>1, WrittenSelector, StateSaysNamed DEF SerialsRespected
<1> QED BY <1>1, AssignInvariant, PTL
=============================================================================
