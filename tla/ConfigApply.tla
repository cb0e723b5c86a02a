---------------------------- MODULE ConfigApply ----------------------------
(***************************************************************************)
(* How a configuration edit reaches the YAML file and the running          *)
(* appliance: the HTTP handlers of internal/web (POST /api/settings, POST  *)
(* /api/aircraft and the endpoints that only persist), which share no      *)
(* lock, the main loop that runs liveRuntime.Apply for them one at a time, *)
(* and the process around both (cancellation, crash, start).               *)
(*                                                                         *)
(* Data abstraction: dest stands for every field applied live (gdl90.dest  *)
(* and gdl90.interval), boot for the fields Apply refuses to change, args  *)
(* for the value of the device flag in a decoder's args. Fields that are   *)
(* persisted and never applied (wifi.*, ahrs.orientation) are left out;    *)
(* the requests that write them still load and save the whole file.        *)
(***************************************************************************)
EXTENDS Naturals, FiniteSets

CONSTANTS
  Handlers,     \* HTTP requests that can be in flight together
  Dests,        \* values of the fields applied live
  BadDests,     \* the ones udp.NewBroadcaster refuses
  Idents,       \* ownship identities (ICAO address and callsign)
  Names,        \* aircraft profile names
  DefaultName,  \* the name of the profile made from a legacy ownship block
  NoProfile,    \* marks a name that has no profile
  Flags,        \* values a user may give the decoder's device flag
  NoFlag,       \* the flag is absent from the decoder's args
  Resolved,     \* the value that SDR detection writes into the flag
  Boots,        \* values of the restart-only fields
  Overrides,    \* the ones a command line may give
  ProfileLists, \* the lists of profiles a client may post
  Files,        \* configuration files the appliance may be given at first
  MaxRequests,  \* bound: requests per behaviour
  MaxStarts     \* bound: process starts per behaviour

ASSUME NamesAssumption ==
  /\ BadDests \subseteq Dests /\ Dests \ BadDests # {}
  /\ DefaultName \in Names
  /\ NoProfile \notin Idents
  /\ NoFlag \notin Flags /\ Resolved \notin Flags /\ Resolved # NoFlag

ASSUME InputsAssumption ==
  Overrides \subseteq Boots /\ ProfileLists \subseteq [Names -> Idents \cup {NoProfile}]

ASSUME BoundsAssumption ==
  MaxRequests \in Nat /\ MaxStarts \in Nat

VARIABLES
  disk,     \* the configuration in the YAML file
  rt,       \* liveRuntime.cfg, the configuration the appliance runs
  sender,   \* the destination of the current UDP broadcaster
  logical,  \* the device flag in liveRuntime.logicalADSB1090 / logicalUAT978
  cli,      \* the restart-only fields the command line gives: a set of <= 1
  proc,     \* "up", "stopping" (context cancelled) or "down"
  pc,       \* where each handler is
  req,      \* the configurations each handler works on
  cause,    \* history: why the file and the runtime may differ
  alone,    \* history: handlers no other request has overlapped
  budget    \* requests and process starts left

vars == <<disk, rt, sender, logical, cli, proc, pc, req, cause, alone, budget>>

ProfileMap == [Names -> Idents \cup {NoProfile}]

Config == [dest: Dests, own: Idents, active: Names, prof: ProfileMap,
           args: Flags \cup {NoFlag, Resolved}, boot: Boots]

\* A file the program could have been given: a legacy ownship block or
\* profiles whose active name exists, and a destination that can be used.
FirstFile(c) ==
  /\ c \in Config
  /\ (\E n \in Names : c.prof[n] # NoProfile) => c.prof[c.active] # NoProfile
  /\ c.dest \notin BadDests
  /\ c.args # Resolved

ASSUME FilesAssumption == \A c \in Files : FirstFile(c)

Kinds == {"settings", "aircraft", "persist"}

\* What a handler has in its local variables: the identity asked for, the
\* configuration kept for the rollback and the edited one.
Request == [kind: Kinds, asked: Idents, old: Config, new: Config]

\* The memory of a handler that is not in a request.
NoRequest == [kind |-> "none"]

\* A handler that has answered is idle; the others are inside a request.
States == {"idle", "apply", "applied", "refused", "save", "rollback",
           "rolledback", "persist"}

Waiting(h) == pc[h] \in {"apply", "applied", "refused", "rollback", "rolledback"}
Busy(h) == pc[h] # "idle"
Quiet == \A h \in Handlers : ~Busy(h)

---------------------------------------------------------------------------
(* config.DefaultAndValidate and the edits the handlers make *)

\* The file of a freshly migrated appliance has no profile at all.
HasProfiles(c) == \E n \in Names : c.prof[n] # NoProfile

\* DefaultAndValidate refuses an active name that matches no profile.
Valid(c) == HasProfiles(c) => c.prof[c.active] # NoProfile

\* A profile is made from the ownship block when there is none, and the
\* active profile is mirrored into the ownship block.
DefaultAndValidate(c) ==
  IF HasProfiles(c)
    THEN [c EXCEPT !.own = c.prof[c.active]]
    ELSE [c EXCEPT !.active = DefaultName, !.prof[DefaultName] = c.own]

Load == DefaultAndValidate(disk)

\* Variant: the identity is written into the ownship block alone.
WithoutProfileSync(c, d, id) == [c EXCEPT !.dest = d, !.own = id]

\* applySettingsPayload also writes the identity into the active profile.
WithSettings(c, d, id) ==
  [c EXCEPT !.dest = d, !.own = id, !.prof[c.active] = id]

WithAircraft(c, ps, a) == [c EXCEPT !.prof = ps, !.active = a]

\* cfg := oldCfg copies the struct and shares the slice of profiles, so the
\* configuration kept for the rollback has the edited profile too.
KeptForRollback(c, id) == [c EXCEPT !.prof[c.active] = id]

---------------------------------------------------------------------------
(* liveRuntime.Apply *)

NeedsRestart(c) == c.boot # rt.boot \/ c.args # logical

\* Variant: the restart-only fields are applied like the others.
ApplyAcceptsAll(c) ==
  /\ Valid(c)
  /\ c.dest # rt.dest => c.dest \notin BadDests

ApplyAccepts(c) ==
  /\ Valid(c)
  /\ ~NeedsRestart(c)
  /\ c.dest # rt.dest => c.dest \notin BadDests

\* Variant: Apply trusts the handler to have validated.
CommitAsGiven(c) ==
  /\ rt' = [c EXCEPT !.args = rt.args]
  /\ logical' = c.args
  /\ sender' = IF c.dest # rt.dest THEN c.dest ELSE sender

\* The runtime keeps the args that SDR detection resolved at start.
Commit(c) ==
  LET n == DefaultAndValidate(c) IN
  /\ rt' = [n EXCEPT !.args = rt.args]
  /\ logical' = n.args
  /\ sender' = IF n.dest # rt.dest THEN n.dest ELSE sender

---------------------------------------------------------------------------
(* The handlers *)

\* The response is written and the handler's locals are gone.
Answer(h) ==
  /\ pc' = [pc EXCEPT ![h] = "idle"]
  /\ req' = [req EXCEPT ![h] = NoRequest]

Start(h) ==
  /\ proc = "up" /\ pc[h] = "idle" /\ budget.requests > 0
  /\ budget' = [budget EXCEPT !.requests = @ - 1]
  /\ IF Quiet
       THEN /\ alone' = {h}
            /\ UNCHANGED cause
       ELSE /\ alone' = {}
            /\ cause' = cause \cup {"overlap"}
  /\ UNCHANGED <<disk, rt, sender, logical, cli, proc>>

\* POST /api/settings: load, edit, validate; then hand over to the main loop.
PostSettings(h, d, id) ==
  LET old == Load
      new == DefaultAndValidate(WithSettings(old, d, id))
  IN
  /\ Start(h)
  /\ pc' = [pc EXCEPT ![h] = "apply"]
  /\ req' = [req EXCEPT ![h] = [kind |-> "settings", asked |-> id,
                                old |-> KeptForRollback(old, id), new |-> new]]

\* POST /api/aircraft replaces the whole slice of profiles.
PostAircraft(h, ps, a) ==
  LET old == Load
      new == WithAircraft(old, ps, a)
  IN
  /\ ps[a] # NoProfile
  /\ Start(h)
  /\ pc' = [pc EXCEPT ![h] = "apply"]
  /\ req' = [req EXCEPT ![h] = [kind |-> "aircraft", asked |-> ps[a], old |-> old,
                                new |-> DefaultAndValidate(new)]]

\* POST /api/settings/wifi/ap (d is the new broadcast address), wifi/client
\* and ahrs/orient/done (d is what the file has): load and save, no Apply.
PostPersist(h, d) ==
  LET old == Load
  IN
  /\ Start(h)
  /\ pc' = [pc EXCEPT ![h] = "persist"]
  /\ req' = [req EXCEPT ![h] = [kind |-> "persist", asked |-> old.own, old |-> old,
                                new |-> [old EXCEPT !.dest = d]]]

\* The main loop takes a request from applyCh, applies it and answers.
MainLoopApply(h) ==
  /\ proc \in {"up", "stopping"}
  /\ \/ /\ pc[h] = "apply"
        /\ IF ApplyAccepts(req[h].new)
             THEN Commit(req[h].new) /\ pc' = [pc EXCEPT ![h] = "applied"]
             ELSE pc' = [pc EXCEPT ![h] = "refused"] /\ UNCHANGED <<rt, logical, sender>>
     \/ /\ pc[h] = "rollback"
        /\ IF ApplyAccepts(req[h].old)
             THEN Commit(req[h].old)
             ELSE UNCHANGED <<rt, logical, sender>>
        /\ pc' = [pc EXCEPT ![h] = "rolledback"]
  /\ UNCHANGED <<disk, cli, proc, req, cause, alone, budget>>

\* Variant: the answer of Apply is not looked at.
TakeAnswerIgnoringErrors(h) ==
  /\ proc # "down"
  /\ \/ pc[h] \in {"applied", "refused"} /\ pc' = [pc EXCEPT ![h] = "save"]
        /\ UNCHANGED req
     \/ pc[h] = "rolledback" /\ Answer(h)
  /\ UNCHANGED <<disk, rt, sender, logical, cli, proc, cause, alone, budget>>

\* The handler takes the answer: an error ends the request.
TakeAnswer(h) ==
  /\ proc # "down"
  /\ \/ pc[h] = "applied" /\ pc' = [pc EXCEPT ![h] = "save"]
        /\ UNCHANGED req
     \/ pc[h] \in {"refused", "rolledback"} /\ Answer(h)
  /\ UNCHANGED <<disk, rt, sender, logical, cli, proc, cause, alone, budget>>

\* Variant: applyFunc does not watch the context.
AbandonNever(h) == proc = "down" /\ Waiting(h) /\ UNCHANGED vars

\* While it waits for the main loop the handler may see the context cancelled:
\* applyFunc returns an error, although the main loop may have applied the edit.
Abandon(h) ==
  /\ proc = "stopping" /\ Waiting(h)
  /\ Answer(h)
  /\ cause' = cause \cup {"shutdown"}
  /\ UNCHANGED <<disk, rt, sender, logical, cli, proc, alone, budget>>

\* SettingsStore.save writes a temporary file and renames it over the YAML
\* file. A POST that ran alone has made the file and the runtime agree.
SaveSucceeds(h) ==
  /\ proc # "down"
  /\ pc[h] \in {"save", "persist"}
  /\ disk' = DefaultAndValidate(req[h].new)
  /\ Answer(h)
  /\ cause' = IF pc[h] = "persist"
                THEN IF req[h].new.dest # Load.dest THEN cause \cup {"ap"} ELSE cause
                ELSE IF h \in alone THEN {} ELSE cause
  /\ UNCHANGED <<rt, sender, logical, cli, proc, alone, budget>>

\* Variant: a failed save is reported and not rolled back.
SaveFailsNoRollback(h) ==
  /\ proc # "down" /\ pc[h] \in {"save", "persist"}
  /\ Answer(h)
  /\ cause' = IF req[h].kind = "settings" THEN cause \cup {"rollback"} ELSE cause
  /\ UNCHANGED <<disk, rt, sender, logical, cli, proc, alone, budget>>

\* Any step of save may fail before the rename; a POST then rolls back.
SaveFails(h) ==
  /\ proc # "down"
  /\ \/ /\ pc[h] = "save"
        /\ pc' = [pc EXCEPT ![h] = "rollback"]
        /\ cause' = IF req[h].kind = "settings" THEN cause \cup {"rollback"} ELSE cause
        /\ UNCHANGED req
     \/ /\ pc[h] = "persist"
        /\ Answer(h)
        /\ UNCHANGED cause
  /\ UNCHANGED <<disk, rt, sender, logical, cli, proc, alone, budget>>

---------------------------------------------------------------------------
(* The process *)

\* newLiveRuntime keeps the band's args in logicalADSB1090 and initDecoders
\* then upserts the detected device into the same slice: a flag that is
\* there is overwritten in place, a flag that is not is appended to a copy.
LogicalArgs(c) == IF c.args = NoFlag THEN NoFlag ELSE Resolved
LogicalArgsCopied(c) == c.args

\* main loads the file, adds the command line's overrides and starts.
StartProcess ==
  LET c == IF cli = {} THEN Load ELSE [Load EXCEPT !.boot = CHOOSE b \in cli : TRUE]
  IN
  /\ proc = "down" /\ budget.starts > 0
  /\ Load.dest \notin BadDests
  /\ proc' = "up"
  /\ rt' = [c EXCEPT !.args = Resolved]
  /\ logical' = LogicalArgs(c)
  /\ sender' = c.dest
  /\ cause' = {}
  /\ alone' = {}
  /\ budget' = [budget EXCEPT !.starts = @ - 1]
  /\ UNCHANGED <<disk, cli, pc, req>>

Cancel ==
  /\ proc = "up" /\ proc' = "stopping"
  /\ UNCHANGED <<disk, rt, sender, logical, cli, pc, req, cause, alone, budget>>

\* The process ends, by itself after a cancellation or by a crash or power
\* cut at any point: every request in flight is lost with it.
Exit ==
  /\ proc # "down" /\ proc' = "down"
  /\ pc' = [h \in Handlers |-> "idle"]
  /\ cause' = {} /\ alone' = {}
  /\ rt' = Load /\ sender' = disk.dest /\ logical' = NoFlag
  /\ req' = [h \in Handlers |-> NoRequest]
  /\ UNCHANGED <<disk, cli, budget>>

---------------------------------------------------------------------------

Init ==
  /\ disk \in Files
  /\ cli \in {{}} \cup {{b} : b \in Overrides}
  /\ rt = DefaultAndValidate(disk) /\ sender = disk.dest /\ logical = NoFlag
  /\ proc = "down"
  /\ pc = [h \in Handlers |-> "idle"]
  /\ req = [h \in Handlers |-> NoRequest]
  /\ cause = {} /\ alone = {}
  /\ budget = [requests |-> MaxRequests, starts |-> MaxStarts]

HandlerStep(h) == TakeAnswer(h) \/ Abandon(h) \/ SaveSucceeds(h) \/ SaveFails(h)

Post(h) ==
  \/ \E d \in Dests, id \in Idents : PostSettings(h, d, id)
  \/ \E ps \in ProfileLists, a \in Names : PostAircraft(h, ps, a)
  \/ \E d \in Dests \ BadDests : PostPersist(h, d)

Next ==
  \/ \E h \in Handlers : Post(h) \/ MainLoopApply(h) \/ HandlerStep(h)
  \/ StartProcess \/ Cancel \/ Exit

\* Handlers and the main loop keep running while the process does; clients
\* need not send anything, and a crash need not happen. A handler blocked on
\* applyCh is served because select picks among ready channels at random.
Fairness ==
  \A h \in Handlers : /\ WF_vars(proc = "up" /\ MainLoopApply(h))
                      /\ WF_vars(HandlerStep(h))

Spec == Init /\ [][Next]_vars /\ Fairness

---------------------------------------------------------------------------
(* What is checked *)

TypeOK ==
  /\ disk \in Config /\ rt \in Config
  /\ sender \in Dests
  /\ logical \in Flags \cup {NoFlag, Resolved}
  /\ cli \in SUBSET Overrides
  /\ proc \in {"up", "stopping", "down"}
  /\ pc \in [Handlers -> States]
  /\ req \in [Handlers -> Request \cup {NoRequest}]
  /\ cause \in SUBSET {"overlap", "rollback", "ap", "shutdown"}
  /\ alone \in SUBSET Handlers
  /\ budget \in [requests: 0..MaxRequests, starts: 0..MaxStarts]

\* What goes on the air is what the runtime's configuration says: frames
\* leave for gdl90.dest and carry the identity of the active profile, however
\* edits, rollbacks and starts interleave (config.go 477-486, main.go 282).
RuntimeCoherent ==
  proc # "down" => /\ sender = rt.dest
                   /\ rt.prof[rt.active] = rt.own

\* The next start never dies on the file: main ends in log.Fatalf when the
\* destination cannot be used, so no request may leave such a file behind,
\* nor one whose active profile does not exist (live_runtime.go 746-754).
FileBootable == disk.dest \notin BadDests /\ Valid(disk)

\* When Apply has accepted an edit that no other request overlapped, the
\* appliance reports the identity the client asked for: mirroring the active
\* profile does not bring a stale identity back (settings.go 180-189).
EditTakesEffect ==
  \A h \in alone : pc[h] \in {"applied", "save"} => rt.own = req[h].asked

\* When nothing is in flight the runtime and the file agree on everything
\* applied live, unless something that happened since they last agreed
\* explains the difference: an access-point change leaves only the old
\* destination live, a failed save leaves only the new identity live, and
\* requests that overlapped or a shutdown may leave anything.
Agree(a, b) == /\ a.dest = b.dest
               /\ <<a.own, a.active, a.prof>> = <<b.own, b.active, b.prof>>

DivergenceExplained ==
  proc # "down" /\ Quiet /\ cause \cap {"overlap", "shutdown"} = {} =>
    /\ rt.dest # Load.dest => "ap" \in cause
    /\ <<rt.own, rt.active, rt.prof>> # <<Load.own, Load.active, Load.prof>>
         => "rollback" \in cause

\* Every request is answered, also when the appliance is told to stop while
\* the handler waits for the main loop (main.go 450-463).
RequestsAnswered == \A h \in Handlers : Busy(h) ~> ~Busy(h)

\* settings.go 315 says of the Apply after a failed save: "Best-effort
\* rollback to keep runtime consistent with disk." When both Applies worked
\* and nothing else happened, the runtime should be back on the file.
RollbackRestoresRuntime ==
  proc # "down" /\ Quiet /\ cause \subseteq {"rollback"} => Agree(rt, Load)

\* What goroutines other than the main loop read without its lock (Replay, AHRS
\* and GPS, main.go 555, 993), and the args that the decoders were started with,
\* never change while the process runs, whatever is posted (live_runtime.go
\* 716-744).
RestartFieldsFixed ==
  [][proc # "down" /\ proc' # "down" => rt'.boot = rt.boot /\ rt'.args = rt.args]_vars

\* live_runtime.go 735-738 says why Apply compares with a copy: "comparing
\* against the mutated copy would falsely require a restart on every apply." No
\* handler edits such a field, so where no command line overrides the file an
\* edit is refused only for a destination that cannot be used.
NoFalseRestart ==
  [][\A h \in Handlers : cli = {} /\ pc[h] = "apply" /\ pc'[h] = "refused" =>
       req[h].new.dest \in BadDests]_vars
=============================================================================
