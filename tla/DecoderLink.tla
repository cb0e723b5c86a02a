---------------------------- MODULE DecoderLink ----------------------------
(***************************************************************************)
(* One radio decoder and what the appliance keeps around it: the           *)
(* supervisor that starts the decoder program and starts it again          *)
(* (decoder.Supervisor), the clients that read its TCP streams             *)
(* (NDJSONClient, LineClient), and liveRuntime.Close, which closes the     *)
(* clients and then the supervisor. Without a command the decoder is a     *)
(* service of its own, which nobody supervises.                            *)
(*                                                                         *)
(* A line is one of the kinds that a client tells apart. Pauses, backoff   *)
(* included, have no length. Counters and output tails are left out, and   *)
(* so are errors of a line's handler: no handler of the program returns    *)
(* one. The context of main is cancelled before Close in every run of the  *)
(* program, so the cancel calls of Close add nothing.                      *)
(***************************************************************************)
EXTENDS Naturals, Sequences

CONSTANTS
  Order,    \* the clients, in the order in which Close closes them
  Json,     \* the clients that parse each line: the NDJSON ones
  WireMax   \* bound: lines on the way to one client

Clients == {Order[i] : i \in 1..Len(Order)}

ASSUME LinkAssumption ==
  /\ Order \in Seq(Clients) /\ Json \subseteq Clients
  /\ WireMax \in Nat \ {0}

VARIABLES
  supervised,  \* a command is configured
  child,       \* the decoder program
  sup,         \* where the supervisor's loop is
  supShown,    \* the supervisor's state, pid (or none) and error (or none)
  lastRun,     \* history: how the last run of the program ended
  pc,          \* where each client's loop is
  conn,        \* each client's connection
  wire,        \* the lines on it that the client has not read
  shown,       \* each client's state and error
  rejected,    \* history: a client rejected a line on this connection
  stopping,    \* main's context is cancelled
  closing,     \* 0, or the place of liveRuntime.Close in its list
  exited       \* main has returned

supervisor == <<sup, supShown, lastRun>>
streams == <<pc, shown, rejected>>
links == <<conn, wire>>
process == <<stopping, closing, exited>>
vars == <<supervised, child, supervisor, streams, links, process>>

Kinds == {"good", "blank", "long", "garbled"}
Alive == {"up", "serving"}     \* it runs; it listens too
Dead == {"quit", "crashed"}    \* its exit status is zero; it is not
Returned == Len(Order) + 2     \* liveRuntime.Close has returned
Reading == {"check", "read"}   \* the inner loop of a client

Running == ~exited

---------------------------------------------------------------------------
(* The supervisor *)

\* setState and runOnce: an empty error leaves the last one, except at a start.
Show(state, pid, err) ==
  supShown' = [state |-> state, pid |-> pid,
               err |-> IF err # "none" THEN err
                       ELSE IF state = "running" THEN "none" ELSE supShown.err]

\* The select at the top of runLoop.
SupTop ==
  /\ Running /\ sup = "top"
  /\ IF stopping THEN sup' = "done" /\ Show("stopped", "none", "none")
                 ELSE sup' = "start" /\ UNCHANGED supShown
  /\ UNCHANGED <<supervised, child, lastRun, streams, links, process>>

\* exec.CommandContext does not start a program once the context is cancelled.
StartSucceeds ==
  /\ Running /\ sup = "start" /\ ~stopping
  /\ sup' = "wait" /\ child' = "up"
  /\ Show("running", "some", "none")
  /\ UNCHANGED <<supervised, lastRun, streams, links, process>>

\* Variant: a program that ended is not started again.
AfterRunOnce(how) ==
  IF stopping THEN sup' = "done" /\ Show("stopped", "none", "none")
  ELSE sup' = "done" /\ Show("exited", "none", how)

\* runLoop when runOnce has returned. Clearing the pid and showing the exit are
\* two critical sections with nothing between them but the check of the context.
AfterRun(how) ==
  IF stopping THEN sup' = "done" /\ Show("stopped", "none", "none")
  ELSE sup' = "pause" /\ Show("exited", "none", how)

StartFails ==
  /\ Running /\ sup = "start"
  /\ lastRun' = "failed" /\ AfterRun("failed")
  /\ UNCHANGED <<supervised, child, streams, links, process>>

\* cmd.Wait returns.
Reap ==
  /\ Running /\ sup = "wait" /\ child \in Dead
  /\ child' = "none"
  /\ lastRun' = IF child = "quit" THEN "ended" ELSE "failed"
  /\ AfterRun(IF child = "quit" THEN "none" ELSE "failed")
  /\ UNCHANGED <<supervised, streams, links, process>>

\* The timer of the backoff, or the context.
SupPause ==
  /\ Running /\ sup = "pause"
  /\ \/ sup' = "top" /\ Show("restarting", "none", "none")
     \/ stopping /\ sup' = "done" /\ Show("stopped", "none", "none")
  /\ UNCHANGED <<supervised, child, lastRun, streams, links, process>>

SupStep == SupTop \/ StartSucceeds \/ StartFails \/ Reap \/ SupPause

---------------------------------------------------------------------------
(* The decoder program *)

\* A program that ends takes its connections with it; what it sent may still be read.
HangUp == conn' = [c \in Clients |-> IF conn[c] = "open" THEN "eof" ELSE conn[c]]

Listen ==
  /\ child = "up" /\ child' = "serving"
  /\ UNCHANGED <<supervised, supervisor, streams, links, process>>

\* Nobody reaps the external decoder here: it is gone at once.
End ==
  /\ child \in Alive
  /\ child' \in (IF supervised THEN Dead ELSE {"none"})
  /\ HangUp
  /\ UNCHANGED <<supervised, supervisor, streams, wire, process>>

ExternalStarts ==
  /\ ~supervised /\ child = "none" /\ child' = "up"
  /\ UNCHANGED <<supervised, supervisor, streams, links, process>>

\* Variant: a program that was started without the context.
NeverKilled ==
  /\ FALSE
  /\ UNCHANGED vars

\* exec kills the program when the context is cancelled.
Kill ==
  /\ Running /\ stopping /\ sup = "wait" /\ child \in Alive
  /\ child' = "crashed" /\ HangUp
  /\ UNCHANGED <<supervised, supervisor, streams, wire, process>>

Send(c) ==
  /\ child = "serving" /\ conn[c] = "open" /\ Len(wire[c]) < WireMax
  /\ \E k \in Kinds : wire' = [wire EXCEPT ![c] = Append(@, k)]
  /\ UNCHANGED <<supervised, child, supervisor, streams, conn, process>>

\* The decoder closes a connection, for example of a client that reads slowly.
Drop(c) ==
  /\ child = "serving" /\ conn[c] = "open"
  /\ conn' = [conn EXCEPT ![c] = "eof"]
  /\ UNCHANGED <<supervised, child, supervisor, streams, wire, process>>

---------------------------------------------------------------------------
(* A client *)

\* Variant: only the next error replaces an error.
SetStateKeepingError(c, state, err) ==
  shown' = [shown EXCEPT ![c] = [state |-> state,
              err |-> IF err # "none" THEN err ELSE @.err]]

\* setState: an empty error clears the last one in a healthy or neutral state.
SetState(c, state, err) ==
  shown' = [shown EXCEPT ![c] = [state |-> state,
              err |-> IF err # "none" THEN err
                      ELSE IF state \in {"connected", "connecting", "stopped"} THEN "none"
                      ELSE @.err]]

Finish(c) == pc' = [pc EXCEPT ![c] = "done"] /\ SetState(c, "stopped", "none")

CloseConn(c) ==
  conn' = [conn EXCEPT ![c] = "none"] /\ wire' = [wire EXCEPT ![c] = <<>>]

\* The select at the top of runLoop.
Top(c) ==
  /\ Running /\ pc[c] = "top"
  /\ IF stopping THEN Finish(c)
     ELSE pc' = [pc EXCEPT ![c] = "dial"] /\ SetState(c, "connecting", "none")
  /\ UNCHANGED <<supervised, child, supervisor, rejected, links, process>>

\* The dial may succeed while the context is being cancelled.
DialSucceeds(c) ==
  /\ Running /\ pc[c] = "dial" /\ child = "serving"
  /\ pc' = [pc EXCEPT ![c] = "check"]
  /\ conn' = [conn EXCEPT ![c] = "open"]
  /\ rejected' = [rejected EXCEPT ![c] = FALSE]
  /\ SetState(c, "connected", "none")
  /\ UNCHANGED <<supervised, child, supervisor, wire, process>>

\* Variant: a client gives up when the decoder does not listen yet.
DialGivesUp(c) ==
  /\ Running /\ pc[c] = "dial"
  /\ pc' = [pc EXCEPT ![c] = "done"]
  /\ SetState(c, "error", "dial")
  /\ UNCHANGED <<supervised, child, supervisor, rejected, links, process>>

\* Refused, timed out or cancelled.
DialFails(c) ==
  /\ Running /\ pc[c] = "dial"
  /\ pc' = [pc EXCEPT ![c] = "pause"]
  /\ SetState(c, "error", "dial")
  /\ UNCHANGED <<supervised, child, supervisor, rejected, links, process>>

\* The select before each read.
Check(c) ==
  /\ Running /\ pc[c] = "check"
  /\ IF stopping THEN Finish(c) /\ CloseConn(c)
     ELSE pc' = [pc EXCEPT ![c] = "read"] /\ UNCHANGED <<shown, links>>
  /\ UNCHANGED <<supervised, child, supervisor, rejected, process>>

\* What a client rejects with an error: lines that are too long, and, for an
\* NDJSON client, what does not parse. Blank lines are skipped.
Rejects(c, k) == k = "long" \/ (c \in Json /\ k = "garbled")

\* ReadBytes returns a line. One that is accepted changes neither state nor error.
ReadLine(c) ==
  /\ Running /\ pc[c] = "read" /\ wire[c] # <<>>
  /\ wire' = [wire EXCEPT ![c] = Tail(@)]
  /\ pc' = [pc EXCEPT ![c] = "check"]
  /\ IF Rejects(c, Head(wire[c]))
     THEN /\ SetState(c, "error", Head(wire[c]))
          /\ rejected' = [rejected EXCEPT ![c] = TRUE]
     ELSE UNCHANGED <<shown, rejected>>
  /\ UNCHANGED <<supervised, child, supervisor, conn, process>>

\* ReadBytes fails: at the end of the stream, or at once if it was reset.
ReadFails(c) ==
  /\ Running /\ pc[c] = "read" /\ conn[c] = "eof"
  /\ pc' = [pc EXCEPT ![c] = "pause"]
  /\ CloseConn(c) /\ SetState(c, "disconnected", "read")
  /\ UNCHANGED <<supervised, child, supervisor, rejected, process>>

\* sleepCtx: the reconnect delay, or the context.
Pause(c) ==
  /\ Running /\ pc[c] = "pause"
  /\ \/ pc' = [pc EXCEPT ![c] = "top"] /\ UNCHANGED shown
     \/ stopping /\ Finish(c)
  /\ UNCHANGED <<supervised, child, supervisor, rejected, links, process>>

ClientStep(c) ==
  \/ Top(c) \/ DialSucceeds(c) \/ DialFails(c) \/ Check(c)
  \/ ReadLine(c) \/ ReadFails(c) \/ Pause(c)

---------------------------------------------------------------------------
(* The process *)

\* A signal, or a frame that cannot be recorded.
Cancel ==
  /\ Running /\ ~stopping /\ stopping' = TRUE
  /\ UNCHANGED <<supervised, child, supervisor, streams, links, closing, exited>>

\* The main loop returns, and Close calls the Close of the first client.
BeginClose ==
  /\ Running /\ stopping /\ closing = 0 /\ closing' = 1
  /\ UNCHANGED <<supervised, child, supervisor, streams, links, stopping, exited>>

\* Variant: Close cancels and does not wait.
NoWait(s) == TRUE

\* Client.Close and Supervisor.Close return when the loop is over.
Awaited(s) ==
  IF s \in 1..Len(Order) THEN pc[Order[s]] = "done" ELSE sup \in {"off", "done"}

CloseNext ==
  /\ Running /\ closing \in 1..(Len(Order) + 1) /\ Awaited(closing)
  /\ closing' = closing + 1
  /\ UNCHANGED <<supervised, child, supervisor, streams, links, stopping, exited>>

\* main does not wait for the goroutine that runs Close.
Exit ==
  /\ Running /\ stopping /\ exited' = TRUE
  /\ UNCHANGED <<supervised, child, supervisor, streams, links, stopping, closing>>

---------------------------------------------------------------------------

\* initDecoders starts the supervisor and then the clients.
Init ==
  /\ supervised \in BOOLEAN
  /\ child \in (IF supervised THEN {"none"} ELSE {"none", "serving"})
  /\ sup = IF supervised THEN "top" ELSE "off"
  /\ supShown = [state |-> IF supervised THEN "starting" ELSE "stopped",
                 pid |-> "none", err |-> "none"]
  /\ lastRun = "none"
  /\ pc = [c \in Clients |-> "top"]
  /\ conn = [c \in Clients |-> "none"]
  /\ wire = [c \in Clients |-> <<>>]
  /\ shown = [c \in Clients |-> [state |-> "connecting", err |-> "none"]]
  /\ rejected = [c \in Clients |-> FALSE]
  /\ stopping = FALSE /\ closing = 0 /\ exited = FALSE

Decoder == Listen \/ End \/ ExternalStarts \/ \E c \in Clients : Send(c) \/ Drop(c)

Next ==
  \/ SupStep \/ Kill \/ Decoder
  \/ \E c \in Clients : ClientStep(c)
  \/ Cancel \/ BeginClose \/ CloseNext \/ Exit

\* The goroutines of the process run. A decoder that listens accepts a client
\* that keeps dialing. Nothing makes the decoder end, listen or send.
Fairness ==
  /\ WF_vars(SupStep) /\ WF_vars(Kill) /\ WF_vars(BeginClose) /\ WF_vars(CloseNext)
  /\ \A c \in Clients : WF_vars(ClientStep(c)) /\ SF_vars(DialSucceeds(c))

Spec == Init /\ [][Next]_vars /\ Fairness

---------------------------------------------------------------------------
(* Properties *)

SupervisorTypes ==
  /\ sup \in {"off", "top", "start", "wait", "pause", "done"}
  /\ supShown \in [state : {"starting", "running", "exited", "restarting", "stopped"},
                   pid : {"none", "some"}, err : {"none", "failed"}]
  /\ lastRun \in {"none", "ended", "failed"}

ClientTypes ==
  /\ pc \in [Clients -> {"top", "dial", "check", "read", "pause", "done"}]
  /\ shown \in [Clients ->
       [state : {"connecting", "connected", "error", "disconnected", "stopped"},
        err : {"none", "dial", "read", "long", "garbled"}]]
  /\ rejected \in [Clients -> BOOLEAN]

LinkTypes ==
  /\ child \in Alive \cup Dead \cup {"none"}
  /\ conn \in [Clients -> {"none", "open", "eof"}]
  /\ wire \in [Clients -> Seq(Kinds)]

ProcessTypes ==
  /\ supervised \in BOOLEAN
  /\ stopping \in BOOLEAN /\ closing \in 0..Returned /\ exited \in BOOLEAN

TypeOK == SupervisorTypes /\ ClientTypes /\ LinkTypes /\ ProcessTypes

\* When liveRuntime.Close returns, no client reads, so no line is handled any
\* more, no connection is left, and the program that it supervised is gone.
ClosedMeansGone ==
  closing = Returned =>
    /\ \A c \in Clients : pc[c] = "done" /\ conn[c] = "none"
    /\ supervised => child = "none"

\* A client has a connection exactly while it reads from it: no path through
\* the loop, at a reconnect, an error or the end, leaves a socket behind.
NoSocketLeft == \A c \in Clients : conn[c] # "none" <=> pc[c] \in Reading

\* The state on the page is the one the loop is in. While a client reads, it is
\* "connected" until the first line it rejects and "error" for the rest of the
\* connection, however many good lines follow; and an error is shown only
\* with a state that has one.
StatusExplained ==
  \A c \in Clients :
    /\ pc[c] \in Reading =>
         shown[c].state = IF rejected[c] THEN "error" ELSE "connected"
    /\ pc[c] = "pause" => shown[c].state \in {"error", "disconnected"}
    /\ shown[c].err # "none" <=> shown[c].state \in {"error", "disconnected"}

\* The supervisor's page tells why the last run ended: an error if and only if
\* that run failed, whatever earlier runs did; and a pid only for a program it
\* has to wait for.
ExitExplained ==
  /\ supShown.state \in {"exited", "restarting"} =>
       (supShown.err # "none" <=> lastRun = "failed")
  /\ supShown.pid # "none" <=> sup = "wait"

\* Close returns, although no read of a client is interrupted by its context:
\* the supervised program is killed, and its end closes the connections. (With an
\* external decoder that is silent it does not return; main returns without it.)
CloseReturns == (stopping /\ supervised) ~> (closing = Returned \/ exited)

\* The streams come back: if the decoder stops ending at some time, can be
\* started, and listens when it runs, then each client is connected, again and
\* again. No failed start, exit, failed dial, rejected line or lost connection
\* before that has ended the loop of the supervisor or of the client.
StreamComesBack ==
  \A c \in Clients :
    /\ <>[]~stopping /\ <>[][~End]_vars
    /\ SF_vars(StartSucceeds) /\ WF_vars(ExternalStarts) /\ WF_vars(Listen)
    => []<>(conn[c] = "open")
=============================================================================
