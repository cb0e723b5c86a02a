-------------------------- MODULE ConfigApplyProofs --------------------------
(***************************************************************************)
(* Theorems about ConfigApply, for any number of handlers, profiles and    *)
(* destinations. They rest on one inductive invariant, IInv, whose core is *)
(* that a configuration is well formed (its active profile exists) wherever *)
(* it is kept: in the file, in the runtime and in a handler's memory. What *)
(* an edit leaves behind needs EditInv besides: it follows one request that *)
(* no other overlaps from the load to the answer.                          *)
(***************************************************************************)
EXTENDS ConfigApply, TLAPS

\* A configuration that DefaultAndValidate accepts.
Sound(c) == c \in Config /\ Valid(c)

\* The ownship block mirrors the active profile.
Mirrored(c) == c.prof[c.active] = c.own

\* What a handler carries through its request: the edit, always sound, and
\* what it kept for the rollback; an edit on its way to the file has a
\* destination that can be used.
RequestOK(h) ==
  /\ req[h] \in Request
  /\ Sound(req[h].new)
  /\ pc[h] \in {"applied", "save", "persist"} => req[h].new.dest \notin BadDests

RuntimeOK ==
  /\ Sound(rt) /\ Mirrored(rt)
  /\ rt.dest \notin BadDests
  /\ sender = rt.dest

IInv ==
  /\ TypeOK
  /\ Sound(disk) /\ disk.dest \notin BadDests
  /\ RuntimeOK
  /\ \A h \in Handlers : Busy(h) => RequestOK(h)

---------------------------------------------------------------------------
(* config.DefaultAndValidate *)

\* What DefaultAndValidate returns is sound and mirrored, and only the
\* ownship block, the active name and the profiles may have changed.
LEMMA DefaultAndValidateSound ==
  ASSUME NEW c \in Config, Valid(c)
  PROVE  LET n == DefaultAndValidate(c) IN
           /\ Sound(n) /\ Mirrored(n)
           /\ n.dest = c.dest /\ n.args = c.args /\ n.boot = c.boot
<1>1. CASE HasProfiles(c)
  <2>1. c.prof[c.active] \in Idents
    BY <1>1 DEF Valid, Config, ProfileMap
  <2>2. DefaultAndValidate(c) = [c EXCEPT !.own = c.prof[c.active]]
    BY <1>1 DEF DefaultAndValidate
  <2>. QED BY <1>1, <2>1, <2>2 DEF Sound, Mirrored, Valid, HasProfiles, Config
<1>2. CASE ~HasProfiles(c)
  <2>1. DefaultAndValidate(c) = [c EXCEPT !.active = DefaultName, !.prof[DefaultName] = c.own]
    BY <1>2 DEF DefaultAndValidate
  <2>2. DefaultName \in Names /\ NoProfile \notin Idents
    BY NamesAssumption
  <2>3. c.own \in Idents /\ c.prof \in ProfileMap
    BY DEF Config
  <2> DEFINE q == [c.prof EXCEPT ![DefaultName] = c.own]
  <2>4. q \in ProfileMap /\ q[DefaultName] = c.own
    BY <2>2, <2>3 DEF ProfileMap
  <2>5. DefaultAndValidate(c) = [c EXCEPT !.active = DefaultName, !.prof = q]
    BY <2>1 DEF Config
  <2> HIDE DEF q
  <2>. QED BY <2>2, <2>3, <2>4, <2>5 DEF Sound, Mirrored, Valid, Config
<1>. QED BY <1>1, <1>2

\* Changing the destination leaves a configuration sound.
LEMMA DestSound ==
  ASSUME NEW c, Sound(c), NEW d \in Dests
  PROVE  Sound([c EXCEPT !.dest = d])
BY DEF Sound, Valid, HasProfiles, Config

\* The edit of POST /api/settings and what is kept for its rollback.
LEMMA SettingsSound ==
  ASSUME NEW c, Sound(c), NEW d \in Dests, NEW id \in Idents
  PROVE  /\ Sound(WithSettings(c, d, id))
         /\ KeptForRollback(c, id) \in Config
BY NamesAssumption DEF Sound, Valid, HasProfiles, Config, ProfileMap, WithSettings,
                       KeptForRollback

\* The edit of POST /api/aircraft.
LEMMA AircraftSound ==
  ASSUME NEW c, Sound(c), NEW ps \in ProfileLists, NEW a \in Names, ps[a] # NoProfile
  PROVE  Sound(WithAircraft(c, ps, a)) /\ ps[a] \in Idents
BY InputsAssumption DEF Sound, Valid, HasProfiles, Config, ProfileMap, WithAircraft

---------------------------------------------------------------------------
(* The invariant holds initially *)

LEMMA InitIInv == Init => IInv
<1>. SUFFICES ASSUME Init PROVE IInv
  OBVIOUS
<1>1. Sound(disk) /\ disk.dest \notin BadDests
  BY FilesAssumption DEF Init, FirstFile, Sound, Valid, HasProfiles
<1>2. RuntimeOK
  BY <1>1, DefaultAndValidateSound DEF Init, RuntimeOK, Sound
<1>3. \A h \in Handlers : ~Busy(h)
  BY DEF Init, Busy
<1>4. TypeOK
  BY <1>1, <1>2, BoundsAssumption
  DEF Init, TypeOK, RuntimeOK, Sound, Config, States
<1>. QED BY <1>1, <1>2, <1>3, <1>4 DEF IInv

---------------------------------------------------------------------------
(* Every step keeps the invariant *)

\* The file, loaded, is sound and has the file's destination.
LEMMA LoadSound ==
  ASSUME IInv
  PROVE  Sound(Load) /\ Mirrored(Load) /\ Load.dest = disk.dest
BY DefaultAndValidateSound DEF IInv, Load, Sound

\* A request starts: the handler's memory is a sound request in its first
\* state, and nothing else that the invariant speaks of has changed.
LEMMA StartKeepsIInv ==
  ASSUME IInv, NEW h \in Handlers, Start(h),
         NEW r \in Request, Sound(r.new),
         NEW s \in {"apply", "persist"},
         s = "persist" => r.new.dest \notin BadDests,
         pc' = [pc EXCEPT ![h] = s], req' = [req EXCEPT ![h] = r]
  PROVE  IInv'
<1>1. TypeOK'
  <2>1. budget.requests > 0 /\ budget \in [requests: 0..MaxRequests, starts: 0..MaxStarts]
    BY DEF IInv, TypeOK, Start
  <2>2. budget' \in [requests: 0..MaxRequests, starts: 0..MaxStarts]
    BY <2>1, BoundsAssumption DEF Start
  <2>3. alone' \in SUBSET Handlers /\ cause' \in SUBSET {"overlap", "rollback", "ap", "shutdown"}
    BY DEF IInv, TypeOK, Start
  <2>. QED BY <2>2, <2>3 DEF IInv, TypeOK, Start, States
<1>2. (Sound(disk) /\ disk.dest \notin BadDests /\ RuntimeOK)'
  BY DEF IInv, Start, RuntimeOK, Sound, Config, Valid, HasProfiles, Mirrored
<1>3. ASSUME NEW k \in Handlers, Busy(k)' PROVE RequestOK(k)'
  <2>1. CASE k = h
    BY <2>1 DEF IInv, TypeOK, RequestOK, Sound, Valid, HasProfiles
  <2>2. CASE k # h
    <3>1. pc'[k] = pc[k] /\ req'[k] = req[k]
      BY <2>2 DEF IInv, TypeOK
    <3>. QED BY <1>3, <3>1 DEF IInv, Busy, RequestOK, Sound, Valid, HasProfiles
  <2>. QED BY <2>1, <2>2
<1>. QED BY <1>1, <1>2, <1>3 DEF IInv

LEMMA PostSettingsIInv ==
  ASSUME IInv, NEW h \in Handlers, NEW d \in Dests, NEW id \in Idents, PostSettings(h, d, id)
  PROVE  IInv'
<1> DEFINE new == DefaultAndValidate(WithSettings(Load, d, id))
           r == [kind |-> "settings", asked |-> id,
                 old |-> KeptForRollback(Load, id), new |-> new]
<1>1. Sound(new) /\ KeptForRollback(Load, id) \in Config
  BY LoadSound, SettingsSound, DefaultAndValidateSound DEF Sound
<1>2. r \in Request /\ r.new = new
  BY <1>1 DEF Request, Kinds, Sound
<1>3. Start(h) /\ pc' = [pc EXCEPT ![h] = "apply"] /\ req' = [req EXCEPT ![h] = r]
  BY DEF PostSettings
<1> HIDE DEF new, r
<1>. QED BY <1>1, <1>2, <1>3, StartKeepsIInv

LEMMA PostAircraftIInv ==
  ASSUME IInv, NEW h \in Handlers, NEW ps \in ProfileLists, NEW a \in Names,
         PostAircraft(h, ps, a)
  PROVE  IInv'
<1> DEFINE new == DefaultAndValidate(WithAircraft(Load, ps, a))
           r == [kind |-> "aircraft", asked |-> ps[a], old |-> Load, new |-> new]
<1>1. Sound(new) /\ Load \in Config /\ ps[a] \in Idents
  BY LoadSound, AircraftSound, DefaultAndValidateSound DEF Sound, PostAircraft
<1>2. r \in Request /\ r.new = new
  BY <1>1 DEF Request, Kinds, Sound
<1>3. Start(h) /\ pc' = [pc EXCEPT ![h] = "apply"] /\ req' = [req EXCEPT ![h] = r]
  BY DEF PostAircraft
<1> HIDE DEF new, r
<1>. QED BY <1>1, <1>2, <1>3, StartKeepsIInv

LEMMA PostPersistIInv ==
  ASSUME IInv, NEW h \in Handlers, NEW d \in Dests \ BadDests, PostPersist(h, d)
  PROVE  IInv'
<1> DEFINE new == [Load EXCEPT !.dest = d]
           r == [kind |-> "persist", asked |-> Load.own, old |-> Load, new |-> new]
<1>1. Load \in Config /\ Sound(new) /\ new.dest = d
  BY LoadSound, DestSound DEF Sound, Config
<1>2. r \in Request /\ r.new = new
  BY <1>1 DEF Request, Kinds, Sound, Config
<1>3. Start(h) /\ pc' = [pc EXCEPT ![h] = "persist"] /\ req' = [req EXCEPT ![h] = r]
  BY DEF PostPersist
<1> HIDE DEF new, r
<1>. QED BY <1>1, <1>2, <1>3, StartKeepsIInv

\* A handler moves on with the request it has.
LEMMA MoveKeepsRequests ==
  ASSUME IInv, NEW h \in Handlers, NEW s \in States,
         pc' = [pc EXCEPT ![h] = s], UNCHANGED req,
         Busy(h),
         s \in {"applied", "save", "persist"} => req[h].new.dest \notin BadDests
  PROVE  (\A k \in Handlers : Busy(k) => RequestOK(k))' /\ pc' \in [Handlers -> States]
<1>1. pc' \in [Handlers -> States]
  BY DEF IInv, TypeOK
<1>2. ASSUME NEW k \in Handlers, Busy(k)' PROVE RequestOK(k)'
  <2>1. Busy(k) /\ (k # h => pc'[k] = pc[k]) /\ (k = h => pc'[k] = s)
    BY <1>2 DEF IInv, TypeOK, Busy
  <2>. QED BY <2>1 DEF IInv, RequestOK, Sound, Valid, HasProfiles
<1>. QED BY <1>1, <1>2

\* A handler answers.
LEMMA AnswerKeepsRequests ==
  ASSUME IInv, NEW h \in Handlers, Answer(h)
  PROVE  /\ (\A k \in Handlers : Busy(k) => RequestOK(k))'
         /\ pc' \in [Handlers -> States]
         /\ req' \in [Handlers -> Request \cup {NoRequest}]
<1>1. pc' \in [Handlers -> States] /\ req' \in [Handlers -> Request \cup {NoRequest}]
  BY DEF IInv, TypeOK, Answer, States
<1>2. ASSUME NEW k \in Handlers, Busy(k)' PROVE RequestOK(k)'
  <2>1. k # h /\ pc'[k] = pc[k] /\ req'[k] = req[k]
    BY <1>2 DEF IInv, TypeOK, Busy, Answer
  <2>. QED BY <1>2, <2>1 DEF IInv, Busy, RequestOK, Sound, Valid, HasProfiles
<1>. QED BY <1>1, <1>2

\* Apply commits a sound configuration it has accepted.
LEMMA CommitKeepsRuntime ==
  ASSUME IInv, NEW c, Sound(c), ApplyAccepts(c), Commit(c)
  PROVE  RuntimeOK' /\ logical' \in Flags \cup {NoFlag, Resolved} /\ c.dest \notin BadDests
<1> DEFINE n == DefaultAndValidate(c)
<1>1. Sound(n) /\ Mirrored(n) /\ n.dest = c.dest
  BY DefaultAndValidateSound DEF Sound
<1>2. c.dest \notin BadDests
  BY DEF IInv, RuntimeOK, ApplyAccepts
<1>3. rt' = [n EXCEPT !.args = rt.args] /\ logical' = n.args
      /\ sender' = IF n.dest # rt.dest THEN n.dest ELSE sender
  BY DEF Commit
<1> HIDE DEF n
<1>4. Sound(rt') /\ Mirrored(rt') /\ rt'.dest = n.dest
  BY <1>1, <1>3 DEF IInv, RuntimeOK, Sound, Mirrored, Valid, HasProfiles, Config
<1>5. sender' = rt'.dest
  BY <1>3, <1>4 DEF IInv, RuntimeOK
<1>6. RuntimeOK'
  BY <1>1, <1>2, <1>4, <1>5 DEF RuntimeOK, Sound, Mirrored, Valid, HasProfiles
<1>7. logical' \in Flags \cup {NoFlag, Resolved}
  BY <1>1, <1>3 DEF Sound, Config
<1>. QED BY <1>2, <1>6, <1>7

\* While the file stays as it is, the rest of the invariant follows from what
\* a step does to the runtime and to the requests.
LEMMA KeepsIInv ==
  ASSUME IInv, UNCHANGED <<disk, cli>>,
         RuntimeOK', logical' \in Flags \cup {NoFlag, Resolved},
         (\A k \in Handlers : Busy(k) => RequestOK(k))',
         proc' \in {"up", "stopping", "down"},
         pc' \in [Handlers -> States],
         req' \in [Handlers -> Request \cup {NoRequest}],
         cause' \in SUBSET {"overlap", "rollback", "ap", "shutdown"},
         alone' \in SUBSET Handlers,
         budget' \in [requests: 0..MaxRequests, starts: 0..MaxStarts]
  PROVE  IInv'
<1>1. Sound(disk)' /\ (disk.dest \notin BadDests)'
  BY DEF IInv, Sound, Valid, HasProfiles
<1>2. rt' \in Config /\ sender' \in Dests
  BY DEF RuntimeOK, Sound, Config
<1>3. TypeOK'
  BY <1>1, <1>2 DEF IInv, TypeOK
<1>. QED BY <1>1, <1>3 DEF IInv

\* What the invariant says of the runtime survives a step that leaves it alone.
LEMMA RuntimeKept ==
  ASSUME IInv, UNCHANGED <<rt, sender, logical>>
  PROVE  RuntimeOK' /\ logical' \in Flags \cup {NoFlag, Resolved}
BY DEF IInv, TypeOK, RuntimeOK, Sound, Mirrored, Valid, HasProfiles

LEMMA MainLoopApplyIInv ==
  ASSUME IInv, NEW h \in Handlers, MainLoopApply(h)
  PROVE  IInv'
<1>. USE DEF States
<1>1. UNCHANGED <<disk, cli, proc, req, cause, alone, budget>>
  BY DEF MainLoopApply
<1>2. CASE pc[h] = "apply"
  <2>1. Busy(h) /\ req[h] \in Request /\ Sound(req[h].new)
    BY <1>2 DEF IInv, Busy, RequestOK
  <2>2. CASE ApplyAccepts(req[h].new)
    <3>1. Commit(req[h].new) /\ pc' = [pc EXCEPT ![h] = "applied"]
      BY <1>2, <2>2 DEF MainLoopApply
    <3>. HIDE DEF States
    <3>2. RuntimeOK' /\ logical' \in Flags \cup {NoFlag, Resolved}
          /\ req[h].new.dest \notin BadDests
      BY <2>1, <2>2, <3>1, CommitKeepsRuntime
    <3>3. (\A k \in Handlers : Busy(k) => RequestOK(k))' /\ pc' \in [Handlers -> States]
      BY <1>1, <2>1, <3>1, <3>2, MoveKeepsRequests DEF States
    <3>. QED BY <1>1, <3>2, <3>3, KeepsIInv DEF IInv, TypeOK
  <2>3. CASE ~ApplyAccepts(req[h].new)
    <3>1. UNCHANGED <<rt, logical, sender>> /\ pc' = [pc EXCEPT ![h] = "refused"]
      BY <1>2, <2>3 DEF MainLoopApply
    <3>. HIDE DEF States
    <3>2. RuntimeOK' /\ logical' \in Flags \cup {NoFlag, Resolved}
      BY <3>1, RuntimeKept
    <3>3. (\A k \in Handlers : Busy(k) => RequestOK(k))' /\ pc' \in [Handlers -> States]
      BY <1>1, <2>1, <3>1, MoveKeepsRequests DEF States
    <3>. QED BY <1>1, <3>2, <3>3, KeepsIInv DEF IInv, TypeOK
  <2>. QED BY <2>2, <2>3
<1>3. CASE pc[h] = "rollback"
  <2>1. Busy(h) /\ req[h] \in Request
    BY <1>3 DEF IInv, Busy, RequestOK
  <2>2. pc' = [pc EXCEPT ![h] = "rolledback"]
    BY <1>3 DEF MainLoopApply
  <2>3. (\A k \in Handlers : Busy(k) => RequestOK(k))' /\ pc' \in [Handlers -> States]
    BY <1>1, <2>1, <2>2, MoveKeepsRequests
  <2>4. CASE ApplyAccepts(req[h].old)
    <3>1. Sound(req[h].old) /\ Commit(req[h].old)
      BY <1>3, <2>1, <2>4 DEF MainLoopApply, Sound, ApplyAccepts, Request
    <3>2. RuntimeOK' /\ logical' \in Flags \cup {NoFlag, Resolved}
      BY <2>4, <3>1, CommitKeepsRuntime
    <3>. QED BY <1>1, <2>3, <3>2, KeepsIInv DEF IInv, TypeOK
  <2>5. CASE ~ApplyAccepts(req[h].old)
    <3>1. UNCHANGED <<rt, logical, sender>>
      BY <1>3, <2>5 DEF MainLoopApply
    <3>2. RuntimeOK' /\ logical' \in Flags \cup {NoFlag, Resolved}
      BY <3>1, RuntimeKept
    <3>. QED BY <1>1, <2>3, <3>2, KeepsIInv DEF IInv, TypeOK
  <2>. QED BY <2>4, <2>5
<1>. QED BY <1>2, <1>3 DEF MainLoopApply

LEMMA TakeAnswerIInv ==
  ASSUME IInv, NEW h \in Handlers, TakeAnswer(h)
  PROVE  IInv'
<1>1. UNCHANGED <<disk, rt, sender, logical, cli, proc, cause, alone, budget>>
  BY DEF TakeAnswer
<1>2. RuntimeOK' /\ logical' \in Flags \cup {NoFlag, Resolved}
  BY <1>1, RuntimeKept
<1>3. CASE pc[h] = "applied" /\ pc' = [pc EXCEPT ![h] = "save"] /\ UNCHANGED req
  <2>1. Busy(h) /\ req[h].new.dest \notin BadDests
    BY <1>3 DEF IInv, Busy, RequestOK
  <2>2. (\A k \in Handlers : Busy(k) => RequestOK(k))' /\ pc' \in [Handlers -> States]
    BY <1>3, <2>1, MoveKeepsRequests DEF States
  <2>. QED BY <1>1, <1>2, <1>3, <2>2, KeepsIInv DEF IInv, TypeOK
<1>4. CASE Answer(h)
  BY <1>1, <1>2, <1>4, AnswerKeepsRequests, KeepsIInv DEF IInv, TypeOK
<1>. QED BY <1>3, <1>4 DEF TakeAnswer

LEMMA AbandonIInv ==
  ASSUME IInv, NEW h \in Handlers, Abandon(h)
  PROVE  IInv'
<1>1. UNCHANGED <<disk, rt, sender, logical, cli, proc, alone, budget>> /\ Answer(h)
      /\ cause' \in SUBSET {"overlap", "rollback", "ap", "shutdown"}
  BY DEF Abandon, IInv, TypeOK
<1>2. RuntimeOK' /\ logical' \in Flags \cup {NoFlag, Resolved}
  BY <1>1, RuntimeKept
<1>. QED BY <1>1, <1>2, AnswerKeepsRequests, KeepsIInv DEF IInv, TypeOK

\* The only step of the running process that changes the file: the edit it
\* writes is sound and, having been applied or checked, can be used.
LEMMA SaveSucceedsIInv ==
  ASSUME IInv, NEW h \in Handlers, SaveSucceeds(h)
  PROVE  IInv'
<1>1. UNCHANGED <<rt, sender, logical, cli, proc, alone, budget>> /\ Answer(h)
      /\ disk' = DefaultAndValidate(req[h].new)
      /\ cause' \in SUBSET {"overlap", "rollback", "ap", "shutdown"}
  BY DEF SaveSucceeds, IInv, TypeOK
<1>2. Sound(req[h].new) /\ req[h].new.dest \notin BadDests
  BY DEF SaveSucceeds, IInv, Busy, RequestOK
<1>3. Sound(disk') /\ disk'.dest \notin BadDests
  BY <1>1, <1>2, DefaultAndValidateSound DEF Sound
<1>4. RuntimeOK' /\ logical' \in Flags \cup {NoFlag, Resolved}
  BY <1>1, RuntimeKept
<1>5. (\A k \in Handlers : Busy(k) => RequestOK(k))'
  BY <1>1, AnswerKeepsRequests
<1>6. TypeOK'
  <2>1. pc' \in [Handlers -> States] /\ req' \in [Handlers -> Request \cup {NoRequest}]
    BY <1>1, AnswerKeepsRequests
  <2>2. rt' \in Config /\ disk' \in Config /\ sender' \in Dests
    BY <1>1, <1>3 DEF IInv, TypeOK, Sound
  <2>. QED BY <1>1, <1>4, <2>1, <2>2 DEF IInv, TypeOK
<1>7. Sound(disk)' /\ (disk.dest \notin BadDests)'
  BY <1>3 DEF Sound, Valid, HasProfiles
<1>. QED BY <1>4, <1>5, <1>6, <1>7 DEF IInv

LEMMA SaveFailsIInv ==
  ASSUME IInv, NEW h \in Handlers, SaveFails(h)
  PROVE  IInv'
<1>1. UNCHANGED <<disk, rt, sender, logical, cli, proc, alone, budget>>
      /\ cause' \in SUBSET {"overlap", "rollback", "ap", "shutdown"}
  BY DEF SaveFails, IInv, TypeOK
<1>2. RuntimeOK' /\ logical' \in Flags \cup {NoFlag, Resolved}
  BY <1>1, RuntimeKept
<1>3. CASE pc[h] = "save" /\ pc' = [pc EXCEPT ![h] = "rollback"] /\ UNCHANGED req
  <2>1. Busy(h)
    BY <1>3 DEF Busy
  <2>2. (\A k \in Handlers : Busy(k) => RequestOK(k))' /\ pc' \in [Handlers -> States]
    BY <1>3, <2>1, MoveKeepsRequests DEF States
  <2>. QED BY <1>1, <1>2, <1>3, <2>2, KeepsIInv DEF IInv, TypeOK
<1>4. CASE Answer(h)
  BY <1>1, <1>2, <1>4, AnswerKeepsRequests, KeepsIInv DEF IInv, TypeOK
<1>. QED BY <1>3, <1>4 DEF SaveFails

\* The process starts with what the file says, and the command line may
\* replace the restart-only fields.
LEMMA StartProcessIInv ==
  ASSUME IInv, StartProcess
  PROVE  IInv'
<1> DEFINE c == IF cli = {} THEN Load ELSE [Load EXCEPT !.boot = CHOOSE b \in cli : TRUE]
<1>1. Sound(Load) /\ Mirrored(Load) /\ Load.dest \notin BadDests
  BY LoadSound DEF IInv
<1>2. cli # {} => (CHOOSE b \in cli : TRUE) \in Boots
  BY InputsAssumption DEF IInv, TypeOK
<1>3. Sound(c) /\ Mirrored(c) /\ c.dest \notin BadDests
  BY <1>1, <1>2 DEF Sound, Mirrored, Valid, HasProfiles, Config
<1>4. rt' = [c EXCEPT !.args = Resolved] /\ sender' = c.dest /\ logical' = LogicalArgs(c)
      /\ UNCHANGED <<disk, cli, pc, req>> /\ cause' = {} /\ alone' = {} /\ proc' = "up"
  BY DEF StartProcess
<1> HIDE DEF c
<1>5. Sound(rt') /\ Mirrored(rt') /\ rt'.dest = c.dest
  BY <1>3, <1>4 DEF Sound, Mirrored, Valid, HasProfiles, Config
<1>6. RuntimeOK' /\ logical' \in Flags \cup {NoFlag, Resolved}
  BY <1>3, <1>4, <1>5 DEF RuntimeOK, Sound, Mirrored, Valid, HasProfiles, LogicalArgs
<1>7. (\A k \in Handlers : Busy(k) => RequestOK(k))'
  BY <1>4 DEF IInv, Busy, RequestOK, Sound, Valid, HasProfiles
<1>8. budget' \in [requests: 0..MaxRequests, starts: 0..MaxStarts]
  BY BoundsAssumption DEF StartProcess, IInv, TypeOK
<1>. QED BY <1>4, <1>6, <1>7, <1>8, KeepsIInv DEF IInv, TypeOK

LEMMA CancelIInv ==
  ASSUME IInv, Cancel
  PROVE  IInv'
<1>1. RuntimeOK' /\ logical' \in Flags \cup {NoFlag, Resolved}
  BY RuntimeKept DEF Cancel
<1>2. (\A k \in Handlers : Busy(k) => RequestOK(k))'
  BY DEF Cancel, IInv, Busy, RequestOK, Sound, Valid, HasProfiles
<1>. QED BY <1>1, <1>2, KeepsIInv DEF Cancel, IInv, TypeOK

LEMMA ExitIInv ==
  ASSUME IInv, Exit
  PROVE  IInv'
<1>1. Sound(Load) /\ Mirrored(Load) /\ Load.dest = disk.dest
  BY LoadSound
<1>2. RuntimeOK'
  BY <1>1 DEF Exit, IInv, RuntimeOK, Sound, Mirrored, Valid, HasProfiles
<1>3. (\A k \in Handlers : Busy(k) => RequestOK(k))'
  BY DEF Exit, Busy
<1>. QED BY <1>2, <1>3, KeepsIInv DEF Exit, IInv, TypeOK, States

LEMMA NextIInv == IInv /\ [Next]_vars => IInv'
<1>. SUFFICES ASSUME IInv, [Next]_vars PROVE IInv'
  OBVIOUS
<1>1. CASE \E h \in Handlers : Post(h)
  BY <1>1, PostSettingsIInv, PostAircraftIInv, PostPersistIInv DEF Post
<1>2. CASE \E h \in Handlers : MainLoopApply(h)
  BY <1>2, MainLoopApplyIInv
<1>3. CASE \E h \in Handlers : HandlerStep(h)
  BY <1>3, TakeAnswerIInv, AbandonIInv, SaveSucceedsIInv, SaveFailsIInv DEF HandlerStep
<1>4. CASE StartProcess \/ Cancel \/ Exit
  BY <1>4, StartProcessIInv, CancelIInv, ExitIInv
<1>5. CASE UNCHANGED vars
  BY <1>5 DEF vars, IInv, TypeOK, RuntimeOK, RequestOK, Busy, Sound, Mirrored, Valid, HasProfiles
<1>. QED BY <1>1, <1>2, <1>3, <1>4, <1>5 DEF Next

---------------------------------------------------------------------------
(* The strengthening for what an accepted edit leaves behind *)

\* Validating it once more changes nothing.
Settled(c) == Sound(c) /\ Mirrored(c) /\ HasProfiles(c)

SameIdentity(a, b) == a.own = b.own /\ a.active = b.active /\ a.prof = b.prof

\* What every request in flight keeps to: it asks for no restart, and it has the identity
\* that the client asked for.
RequestKept(h) ==
  /\ Settled(req[h].new)
  /\ req[h].new.boot = disk.boot /\ req[h].new.args = disk.args
  /\ req[h].kind = "persist" \/ req[h].new.own = req[h].asked
  /\ pc[h] = "persist" <=> req[h].kind = "persist"

\* What the rollback of h would apply can be applied, and is the file unless the slice of
\* profiles was shared.
OldKept(h) ==
  /\ req[h].old.dest = disk.dest /\ req[h].old.boot = disk.boot /\ req[h].old.args = disk.args
  /\ Valid(req[h].old)
  /\ req[h].kind = "settings" \/ req[h].old = Load
  /\ req[h].kind = "persist" => SameIdentity(req[h].new, Load)

\* The edit of h is in the runtime, and not in the file.
Committed == {"applied", "save", "rollback"}

InForce(h) ==
  /\ rt.dest = req[h].new.dest /\ SameIdentity(rt, req[h].new)
  /\ rt.boot = req[h].new.boot /\ logical = req[h].new.args

\* A request that no other one has overlapped.
AloneKept(h) ==
  /\ \A k \in Handlers : k # h => ~Busy(k)
  /\ Busy(h) => OldKept(h)
  /\ pc[h] \in Committed => InForce(h)
  /\ pc[h] \in {"rollback", "rolledback"} /\ req[h].kind = "settings" => "rollback" \in cause

OverlapInv == "overlap" \notin cause => \A h \in Handlers : Busy(h) => h \in alone
DownInv == proc = "down" => \A h \in Handlers : ~Busy(h)

RestartInv ==
  proc # "down" =>
    /\ cli = {} => rt.boot = disk.boot
    /\ disk.args = NoFlag => logical = NoFlag

\* DivergenceExplained, also while a request is in flight that has not been applied.
Explained ==
  /\ rt.dest # Load.dest => "ap" \in cause
  /\ ~SameIdentity(rt, Load) => "rollback" \in cause

DivergeInv ==
  /\ proc # "down" /\ cause \cap {"overlap", "shutdown"} = {}
  /\ \A h \in Handlers : pc[h] \notin Committed
  => Explained

EditInv ==
  /\ \A h \in Handlers : Busy(h) => RequestKept(h)
  /\ \A h \in alone : AloneKept(h)
  /\ OverlapInv /\ DownInv /\ RestartInv /\ DivergeInv

\* Validating a settled configuration changes nothing, and validating settles.
LEMMA SettledIsFixed ==
  ASSUME NEW c, Settled(c)
  PROVE  DefaultAndValidate(c) = c
<1>1. DefaultAndValidate(c) = [c EXCEPT !.own = c.prof[c.active]]
  BY DEF Settled, DefaultAndValidate
<1>. QED BY <1>1 DEF Settled, Sound, Mirrored, Config

LEMMA DefaultAndValidateSettles ==
  ASSUME NEW c \in Config, Valid(c)
  PROVE  Settled(DefaultAndValidate(c))
<1> DEFINE n == DefaultAndValidate(c)
<1>1. Sound(n) /\ Mirrored(n)
  BY DefaultAndValidateSound
<1>2. HasProfiles(n)
  <2>1. CASE HasProfiles(c)
    <3>1. n.prof = c.prof
      BY <2>1 DEF DefaultAndValidate, Config
    <3>. QED BY <2>1, <3>1 DEF HasProfiles
  <2>2. CASE ~HasProfiles(c)
    <3>1. n.prof[n.active] = n.own /\ n.own \in Idents /\ n.active \in Names
      BY <1>1 DEF Mirrored, Sound, Config
    <3>. QED BY <3>1, NamesAssumption DEF HasProfiles
  <2>. QED BY <2>1, <2>2
<1>. QED BY <1>1, <1>2 DEF Settled

\* The file, loaded, is settled.
LEMMA LoadSettled ==
  ASSUME IInv
  PROVE  Settled(Load) /\ Load.dest = disk.dest /\ Load.args = disk.args /\ Load.boot = disk.boot
BY DefaultAndValidateSettles, DefaultAndValidateSound DEF IInv, Load, Sound

LEMMA InitEditInv == Init => EditInv
<1>. SUFFICES ASSUME Init PROVE EditInv
  OBVIOUS
<1>1. \A h \in Handlers : ~Busy(h)
  BY DEF Init, Busy
<1>. QED BY <1>1 DEF Init, EditInv, OverlapInv, DownInv, RestartInv, DivergeInv

\* A step of the handler h, or of the main loop for it: what is left to show is what h
\* itself keeps, and for a request that ran alone.
LEMMA ActorKeepsEditInv ==
  ASSUME IInv, EditInv, NEW h \in Handlers, Busy(h), NEW s \in States,
         pc' = [pc EXCEPT ![h] = s], \A k \in Handlers : k # h => req'[k] = req[k],
         UNCHANGED <<cli, proc, alone, logical>>, rt'.boot = rt.boot,
         disk'.boot = disk.boot, disk'.args = disk.args,
         "overlap" \in cause => "overlap" \in cause' \/ h \in alone,
         s # "idle" => RequestKept(h)',
         h \in alone =>
           /\ s # "idle" => OldKept(h)'
           /\ s \in Committed => InForce(h)'
           /\ s \in {"rollback", "rolledback"} /\ req'[h].kind = "settings" => "rollback" \in cause'
           /\ cause' \cap {"overlap", "shutdown"} = {} /\ s \notin Committed => Explained'
  PROVE  EditInv'
<1>1. pc'[h] = s /\ \A k \in Handlers : k # h => pc'[k] = pc[k]
  BY DEF IInv, TypeOK
<1>2. proc # "down"
  BY DEF EditInv, DownInv
<1>3. ASSUME NEW k \in Handlers, Busy(k)' PROVE RequestKept(k)'
  <2>1. CASE k = h
    BY <1>1, <1>3, <2>1 DEF Busy
  <2>2. CASE k # h
    <3>1. Busy(k) /\ RequestKept(k) /\ pc'[k] = pc[k] /\ req'[k] = req[k]
      BY <1>1, <1>3, <2>2 DEF Busy, EditInv
    <3>. QED BY <3>1 DEF RequestKept, Settled, Sound, Mirrored, Valid, HasProfiles
  <2>. QED BY <2>1, <2>2
<1>4. ASSUME NEW a \in alone' PROVE AloneKept(a)'
  <2>1. a \in alone /\ a \in Handlers /\ a = h
    BY <1>4 DEF EditInv, AloneKept, IInv, TypeOK
  <2>2. \A k \in Handlers : k # h => ~Busy(k)'
    BY <1>1, <2>1 DEF EditInv, AloneKept, Busy
  <2>3. (Busy(h) => OldKept(h))'
    BY <1>1, <2>1 DEF Busy
  <2>4. (pc[h] \in Committed => InForce(h))'
    BY <1>1, <2>1 DEF Committed
  <2>5. pc'[h] \in {"rollback", "rolledback"} /\ req'[h].kind = "settings" => "rollback" \in cause'
    BY <1>1, <2>1
  <2>. QED BY <2>1, <2>2, <2>3, <2>4, <2>5 DEF AloneKept
<1>5. OverlapInv'
  <2>. SUFFICES ASSUME "overlap" \notin cause', NEW k \in Handlers, Busy(k)' PROVE k \in alone'
    BY DEF OverlapInv
  <2>1. CASE k = h
    BY <2>1 DEF EditInv, OverlapInv
  <2>2. CASE k # h
    <3>1. Busy(k)
      BY <1>1, <2>2 DEF Busy
    <3>. QED BY <2>2, <3>1 DEF EditInv, OverlapInv, AloneKept
  <2>. QED BY <2>1, <2>2
<1>6. DownInv' /\ RestartInv'
  BY <1>2 DEF EditInv, DownInv, RestartInv
<1>7. DivergeInv'
  <2>. SUFFICES ASSUME cause' \cap {"overlap", "shutdown"} = {},
                       \A k \in Handlers : pc'[k] \notin Committed
                PROVE Explained'
    BY DEF DivergeInv, Committed
  <2>1. h \in alone
    BY DEF EditInv, OverlapInv
  <2>. QED BY <1>1, <2>1
<1>. QED BY <1>3, <1>4, <1>5, <1>6, <1>7 DEF EditInv

\* A request starts.
LEMMA StartKeepsEditInv ==
  ASSUME IInv, EditInv, NEW h \in Handlers, Start(h),
         NEW r \in Request, NEW s \in {"apply", "persist"},
         pc' = [pc EXCEPT ![h] = s], req' = [req EXCEPT ![h] = r],
         s = "persist" <=> r.kind = "persist",
         Settled(r.new), r.new.boot = disk.boot, r.new.args = disk.args,
         r.kind = "persist" \/ r.new.own = r.asked,
         r.old.dest = disk.dest, r.old.boot = disk.boot, r.old.args = disk.args, Valid(r.old),
         r.kind = "settings" \/ r.old = Load,
         r.kind = "persist" => SameIdentity(r.new, Load)
  PROVE  EditInv'
<1>1. /\ pc'[h] = s /\ req'[h] = r
      /\ \A k \in Handlers : k # h => pc'[k] = pc[k] /\ req'[k] = req[k]
  BY DEF IInv, TypeOK
<1>2. UNCHANGED <<disk, rt, sender, logical, cli, proc>> /\ proc = "up"
  BY DEF Start
<1>3. Load' = Load
  BY <1>2 DEF Load, DefaultAndValidate, HasProfiles
<1>4. ASSUME NEW k \in Handlers, Busy(k)' PROVE RequestKept(k)'
  <2>1. CASE k = h
    BY <1>1, <1>2, <2>1 DEF RequestKept, Settled, Sound, Mirrored, Valid, HasProfiles
  <2>2. CASE k # h
    <3>1. Busy(k) /\ RequestKept(k) /\ pc'[k] = pc[k] /\ req'[k] = req[k]
      BY <1>1, <1>4, <2>2 DEF Busy, EditInv
    <3>. QED BY <1>2, <3>1 DEF RequestKept, Settled, Sound, Mirrored, Valid, HasProfiles
  <2>. QED BY <2>1, <2>2
<1>5. ASSUME NEW a \in alone' PROVE AloneKept(a)'
  <2>1. Quiet /\ a = h
    BY <1>5 DEF Start
  <2>2. \A k \in Handlers : k # h => ~Busy(k)'
    BY <1>1, <2>1 DEF Quiet, Busy
  <2>3. OldKept(h)'
    BY <1>1, <1>2, <1>3 DEF OldKept, SameIdentity, Valid, HasProfiles
  <2>4. pc'[h] \notin Committed /\ pc'[h] \notin {"rollback", "rolledback"}
    BY <1>1 DEF Committed
  <2>. QED BY <2>1, <2>2, <2>3, <2>4 DEF AloneKept, Committed
<1>6. OverlapInv'
  <2>. SUFFICES ASSUME "overlap" \notin cause', NEW k \in Handlers, Busy(k)' PROVE k \in alone'
    BY DEF OverlapInv
  <2>1. Quiet /\ alone' = {h}
    BY DEF Start
  <2>. QED BY <1>1, <2>1 DEF Quiet, Busy
<1>7. DownInv' /\ RestartInv'
  BY <1>2 DEF EditInv, DownInv, RestartInv
<1>8. DivergeInv'
  <2>. SUFFICES ASSUME cause' \cap {"overlap", "shutdown"} = {} PROVE Explained'
    BY DEF DivergeInv
  <2>1. Quiet /\ cause' = cause
    BY DEF Start
  <2>2. Explained
    BY <1>2, <2>1 DEF EditInv, DivergeInv, Quiet, Busy, Committed
  <2>. QED BY <1>2, <1>3, <2>1, <2>2 DEF Explained, SameIdentity
<1>. QED BY <1>4, <1>5, <1>6, <1>7, <1>8 DEF EditInv

LEMMA PostSettingsEditInv ==
  ASSUME IInv, EditInv, NEW h \in Handlers, NEW d \in Dests, NEW id \in Idents,
         PostSettings(h, d, id)
  PROVE  EditInv'
<1> DEFINE w == WithSettings(Load, d, id)
           new == DefaultAndValidate(w)
           old == KeptForRollback(Load, id)
           r == [kind |-> "settings", asked |-> id, old |-> old, new |-> new]
<1>1. Settled(Load) /\ Load \in Config /\ Load.dest = disk.dest
      /\ Load.args = disk.args /\ Load.boot = disk.boot
  BY LoadSettled DEF Settled, Sound
<1>2. Sound(w) /\ old \in Config
  BY <1>1, SettingsSound DEF Settled
<1>3. w.prof[w.active] = id /\ w.active \in Names /\ w.args = Load.args /\ w.boot = Load.boot
  BY <1>1 DEF WithSettings, Config, ProfileMap
<1>4. HasProfiles(w)
  BY <1>3, NamesAssumption DEF HasProfiles
<1>5. Settled(new) /\ new.args = w.args /\ new.boot = w.boot
  BY <1>2, DefaultAndValidateSettles, DefaultAndValidateSound DEF Sound
<1>6. new.own = id
  BY <1>2, <1>3, <1>4 DEF DefaultAndValidate, Sound, Config
<1>7. old.dest = Load.dest /\ old.args = Load.args /\ old.boot = Load.boot /\ Valid(old)
  BY <1>1, NamesAssumption DEF KeptForRollback, Config, ProfileMap, Valid
<1>8. r \in Request /\ r.new = new /\ r.old = old /\ r.kind = "settings" /\ r.asked = id
  BY <1>2, <1>5 DEF Request, Kinds, Settled, Sound
<1>9. Start(h) /\ pc' = [pc EXCEPT ![h] = "apply"] /\ req' = [req EXCEPT ![h] = r]
  BY DEF PostSettings
<1> HIDE DEF w, new, old, r
<1>. QED BY <1>1, <1>3, <1>5, <1>6, <1>7, <1>8, <1>9, StartKeepsEditInv

LEMMA PostAircraftEditInv ==
  ASSUME IInv, EditInv, NEW h \in Handlers, NEW ps \in ProfileLists, NEW a \in Names,
         PostAircraft(h, ps, a)
  PROVE  EditInv'
<1> DEFINE w == WithAircraft(Load, ps, a)
           new == DefaultAndValidate(w)
           r == [kind |-> "aircraft", asked |-> ps[a], old |-> Load, new |-> new]
<1>1. Settled(Load) /\ Load \in Config /\ Valid(Load) /\ Load.dest = disk.dest
      /\ Load.args = disk.args /\ Load.boot = disk.boot
  BY LoadSettled DEF Settled, Sound
<1>2. Sound(w) /\ ps[a] \in Idents /\ ps[a] # NoProfile
  BY <1>1, AircraftSound DEF Settled, PostAircraft
<1>3. w.prof = ps /\ w.active = a /\ w.args = Load.args /\ w.boot = Load.boot
  BY <1>1 DEF WithAircraft, Config
<1>4. HasProfiles(w)
  BY <1>2, <1>3 DEF HasProfiles
<1>5. Settled(new) /\ new.args = w.args /\ new.boot = w.boot
  BY <1>2, DefaultAndValidateSettles, DefaultAndValidateSound DEF Sound
<1>6. new.own = ps[a]
  BY <1>2, <1>3, <1>4 DEF DefaultAndValidate, Sound, Config
<1>7. r \in Request /\ r.new = new /\ r.old = Load /\ r.kind = "aircraft" /\ r.asked = ps[a]
  BY <1>1, <1>2, <1>5 DEF Request, Kinds, Settled, Sound
<1>8. Start(h) /\ pc' = [pc EXCEPT ![h] = "apply"] /\ req' = [req EXCEPT ![h] = r]
  BY DEF PostAircraft
<1> HIDE DEF w, new, r
<1>. QED BY <1>1, <1>3, <1>5, <1>6, <1>7, <1>8, StartKeepsEditInv

LEMMA PostPersistEditInv ==
  ASSUME IInv, EditInv, NEW h \in Handlers, NEW d \in Dests \ BadDests, PostPersist(h, d)
  PROVE  EditInv'
<1> DEFINE new == [Load EXCEPT !.dest = d]
           r == [kind |-> "persist", asked |-> Load.own, old |-> Load, new |-> new]
<1>1. Settled(Load) /\ Load \in Config /\ Valid(Load) /\ Load.dest = disk.dest
      /\ Load.args = disk.args /\ Load.boot = disk.boot
  BY LoadSettled DEF Settled, Sound
<1>2. /\ new \in Config /\ new.args = Load.args /\ new.boot = Load.boot
      /\ new.own = Load.own /\ new.active = Load.active /\ new.prof = Load.prof
  BY <1>1 DEF Config
<1>3. Settled(new) /\ SameIdentity(new, Load)
  BY <1>1, <1>2 DEF Settled, Sound, Mirrored, Valid, HasProfiles, SameIdentity
<1>4. r \in Request /\ r.new = new /\ r.old = Load /\ r.kind = "persist" /\ r.asked = Load.own
  BY <1>1, <1>2 DEF Request, Kinds, Config
<1>5. Start(h) /\ pc' = [pc EXCEPT ![h] = "persist"] /\ req' = [req EXCEPT ![h] = r]
  BY DEF PostPersist
<1> HIDE DEF new, r
<1>. QED BY <1>1, <1>2, <1>3, <1>4, <1>5, StartKeepsEditInv

\* What a handler keeps of its request, as long as it has it and the file keeps what needs
\* a restart.
LEMMA RequestGoesOn ==
  ASSUME NEW h \in Handlers, RequestKept(h), UNCHANGED req,
         disk'.boot = disk.boot, disk'.args = disk.args,
         pc'[h] = "persist" <=> pc[h] = "persist"
  PROVE  RequestKept(h)'
BY DEF RequestKept, Settled, Sound, Mirrored, Valid, HasProfiles

LEMMA OldGoesOn ==
  ASSUME NEW h \in Handlers, OldKept(h), UNCHANGED <<req, disk>>
  PROVE  OldKept(h)' /\ Load' = Load
<1>1. Load' = Load
  BY DEF Load, DefaultAndValidate, HasProfiles
<1>. QED BY <1>1 DEF OldKept, SameIdentity, Valid, HasProfiles

\* File and runtime are as they were; with nobody else in flight they agree as before.
LEMMA ExplainedGoesOn ==
  ASSUME EditInv, NEW h \in Handlers, h \in alone, Busy(h), pc[h] \notin Committed,
         UNCHANGED <<disk, rt, cause>>, cause \cap {"overlap", "shutdown"} = {}
  PROVE  Explained'
<1>1. \A k \in Handlers : pc[k] \notin Committed
  BY DEF EditInv, AloneKept, Busy, Committed
<1>2. Explained
  BY <1>1 DEF EditInv, DivergeInv, DownInv
<1>3. Load' = Load
  BY DEF Load, DefaultAndValidate, HasProfiles
<1>. QED BY <1>2, <1>3 DEF Explained, SameIdentity

\* Apply in the main loop: an edit comes into force as it is, and a rollback brings the
\* file back or, for settings, the identity that the slice of profiles has.
LEMMA MainLoopApplyEditInv ==
  ASSUME IInv, EditInv, NEW h \in Handlers, MainLoopApply(h)
  PROVE  EditInv'
<1>1. UNCHANGED <<disk, cli, proc, req, cause, alone, budget>>
  BY DEF MainLoopApply
<1>2. Busy(h) /\ RequestKept(h)
  BY DEF MainLoopApply, Busy, EditInv
<1>3. h \in alone => OldKept(h)' /\ Load' = Load
  BY <1>1, <1>2, OldGoesOn DEF EditInv, AloneKept
<1>4. rt \in Config
  BY DEF IInv, TypeOK
<1>5. CASE pc[h] = "apply"
  <2> DEFINE new == req[h].new
  <2>1. CASE ApplyAccepts(new)
    <3>1. pc' = [pc EXCEPT ![h] = "applied"] /\ Commit(new)
      BY <1>5, <2>1 DEF MainLoopApply
    <3>2. DefaultAndValidate(new) = new /\ new \in Config
      BY <1>2, SettledIsFixed DEF RequestKept, Settled, Sound
    <3>3. new.boot = rt.boot /\ new.args = logical
      BY <2>1 DEF ApplyAccepts, NeedsRestart
    <3>4. rt' = [new EXCEPT !.args = rt.args] /\ logical' = logical
      BY <3>1, <3>2, <3>3 DEF Commit
    <3>5. /\ rt'.dest = new.dest /\ rt'.boot = rt.boot
          /\ rt'.own = new.own /\ rt'.active = new.active /\ rt'.prof = new.prof
      BY <3>2, <3>3, <3>4 DEF Config
    <3>6. InForce(h)'
      BY <1>1, <3>3, <3>4, <3>5 DEF InForce, SameIdentity
    <3>7. RequestKept(h)'
      BY <1>1, <1>2, <1>5, <3>1, RequestGoesOn DEF IInv, TypeOK
    <3>8. "applied" \in States /\ "applied" \in Committed
      BY DEF States, Committed
    <3> HIDE DEF new
    <3>. QED BY <1>1, <1>2, <1>3, <3>1, <3>4, <3>5, <3>6, <3>7, <3>8, ActorKeepsEditInv
  <2>2. CASE ~ApplyAccepts(new)
    <3>1. pc' = [pc EXCEPT ![h] = "refused"] /\ UNCHANGED <<rt, logical, sender>>
      BY <1>5, <2>2 DEF MainLoopApply
    <3>2. RequestKept(h)'
      BY <1>1, <1>2, <1>5, <3>1, RequestGoesOn DEF IInv, TypeOK
    <3>3. h \in alone /\ cause' \cap {"overlap", "shutdown"} = {} => Explained'
      BY <1>1, <1>2, <1>5, <3>1, ExplainedGoesOn DEF Committed
    <3>4. "refused" \in States /\ "refused" \notin Committed
      BY DEF States, Committed
    <3>. QED BY <1>1, <1>2, <1>3, <3>1, <3>2, <3>3, <3>4, ActorKeepsEditInv
  <2>. QED BY <2>1, <2>2
<1>6. CASE pc[h] = "rollback"
  <2> DEFINE old == req[h].old
             n == DefaultAndValidate(old)
  <2>1. pc' = [pc EXCEPT ![h] = "rolledback"]
    BY <1>6 DEF MainLoopApply
  <2>2. old \in Config
    BY <1>2 DEF IInv, RequestOK, Request
  <2>3. RequestKept(h)'
    BY <1>1, <1>2, <1>6, <2>1, RequestGoesOn DEF IInv, TypeOK
  <2>4. "rolledback" \in States /\ "rolledback" \notin Committed
    BY DEF States, Committed
  <2>5. h \in alone =>
          OldKept(h) /\ InForce(h) /\ (req[h].kind = "settings" => "rollback" \in cause)
    BY <1>2, <1>6 DEF EditInv, AloneKept, Committed
  <2>6. CASE ApplyAccepts(old)
    <3>1. Commit(old) /\ Valid(old) /\ old.boot = rt.boot /\ old.args = logical
      BY <1>6, <2>6 DEF MainLoopApply, ApplyAccepts, NeedsRestart
    <3>2. n \in Config /\ n.dest = old.dest /\ n.args = old.args /\ n.boot = old.boot
      BY <2>2, <3>1, DefaultAndValidateSound DEF Sound
    <3>3. rt' = [n EXCEPT !.args = rt.args] /\ logical' = logical
      BY <3>1, <3>2 DEF Commit
    <3>4. /\ rt'.dest = old.dest /\ rt'.boot = rt.boot
          /\ rt'.own = n.own /\ rt'.active = n.active /\ rt'.prof = n.prof
      BY <3>1, <3>2, <3>3 DEF Config
    <3>5. h \in alone => Explained'
      <4>. SUFFICES ASSUME h \in alone PROVE Explained'
        OBVIOUS
      <4>1. rt'.dest = Load'.dest
        BY <1>3, <2>5, <3>4, LoadSettled DEF OldKept
      <4>2. req[h].kind # "settings" => SameIdentity(rt', Load')
        <5>1. req[h].kind # "settings" => n = Load
          BY <2>5, LoadSettled, SettledIsFixed DEF OldKept
        <5>. QED BY <1>3, <3>4, <5>1 DEF SameIdentity
      <4>3. req[h].kind = "settings" => "rollback" \in cause'
        BY <1>1, <2>5
      <4>. QED BY <4>1, <4>2, <4>3 DEF Explained, SameIdentity
    <3> HIDE DEF old, n
    <3>. QED BY <1>1, <1>2, <1>3, <2>1, <2>3, <2>4, <2>5, <3>3, <3>4, <3>5, ActorKeepsEditInv
  <2>7. CASE ~ApplyAccepts(old)
    <3>1. UNCHANGED <<rt, logical, sender>>
      BY <1>6, <2>7 DEF MainLoopApply
    <3>2. h \notin alone
      <4>. SUFFICES ASSUME h \in alone PROVE FALSE
        OBVIOUS
      <4>1. Valid(old) /\ old.boot = rt.boot /\ old.args = logical
        BY <1>2, <2>5 DEF OldKept, InForce, RequestKept
      <4>2. old.dest \notin BadDests
        BY <2>5 DEF OldKept, IInv
      <4>. QED BY <2>7, <4>1, <4>2 DEF ApplyAccepts, NeedsRestart
    <3> HIDE DEF old, n
    <3>. QED BY <1>1, <1>2, <2>1, <2>3, <2>4, <3>1, <3>2, ActorKeepsEditInv
  <2>. QED BY <2>6, <2>7
<1>. QED BY <1>5, <1>6 DEF MainLoopApply

LEMMA TakeAnswerEditInv ==
  ASSUME IInv, EditInv, NEW h \in Handlers, TakeAnswer(h)
  PROVE  EditInv'
<1>1. UNCHANGED <<disk, rt, sender, logical, cli, proc, cause, alone, budget>> /\ Busy(h)
  BY DEF TakeAnswer, Busy
<1>2. RequestKept(h) /\ (h \in alone => AloneKept(h))
  BY <1>1 DEF EditInv
<1>3. CASE pc[h] = "applied" /\ pc' = [pc EXCEPT ![h] = "save"] /\ UNCHANGED req
  <2>1. RequestKept(h)'
    BY <1>1, <1>2, <1>3, RequestGoesOn DEF IInv, TypeOK
  <2>2. h \in alone => OldKept(h)' /\ InForce(h)'
    BY <1>1, <1>2, <1>3, OldGoesOn DEF AloneKept, Committed, InForce, SameIdentity
  <2>3. "save" \in States /\ "save" \in Committed
    BY DEF States, Committed
  <2>. QED BY <1>1, <1>3, <2>1, <2>2, <2>3, ActorKeepsEditInv
<1>4. CASE pc[h] \in {"refused", "rolledback"} /\ Answer(h)
  <2>1. pc' = [pc EXCEPT ![h] = "idle"] /\ \A k \in Handlers : k # h => req'[k] = req[k]
    BY <1>4 DEF Answer, IInv, TypeOK
  <2>2. h \in alone /\ cause' \cap {"overlap", "shutdown"} = {} => Explained'
    BY <1>1, <1>4, ExplainedGoesOn DEF Committed
  <2>3. "idle" \in States /\ "idle" \notin Committed
    BY DEF States, Committed
  <2>. QED BY <1>1, <2>1, <2>2, <2>3, ActorKeepsEditInv
<1>. QED BY <1>3, <1>4 DEF TakeAnswer

LEMMA AbandonEditInv ==
  ASSUME IInv, EditInv, NEW h \in Handlers, Abandon(h)
  PROVE  EditInv'
<1>1. UNCHANGED <<disk, rt, sender, logical, cli, proc, alone, budget>> /\ Busy(h)
      /\ cause' = cause \cup {"shutdown"}
  BY DEF Abandon, Waiting, Busy
<1>2. pc' = [pc EXCEPT ![h] = "idle"] /\ \A k \in Handlers : k # h => req'[k] = req[k]
  BY DEF Abandon, Answer, IInv, TypeOK
<1>3. "idle" \in States /\ "idle" \notin Committed
  BY DEF States, Committed
<1>. QED BY <1>1, <1>2, <1>3, ActorKeepsEditInv

\* What a request that ran alone writes is what is in force; one that was only to be saved
\* may change the destination in the file.
LEMMA SaveSucceedsEditInv ==
  ASSUME IInv, EditInv, NEW h \in Handlers, SaveSucceeds(h)
  PROVE  EditInv'
<1> DEFINE new == req[h].new
<1>1. UNCHANGED <<rt, sender, logical, cli, proc, alone, budget>> /\ Busy(h)
      /\ pc[h] \in {"save", "persist"}
  BY DEF SaveSucceeds, Busy
<1>2. RequestKept(h) /\ (h \in alone => AloneKept(h))
  BY <1>1 DEF EditInv
<1>3. pc' = [pc EXCEPT ![h] = "idle"] /\ \A k \in Handlers : k # h => req'[k] = req[k]
  BY DEF SaveSucceeds, Answer, IInv, TypeOK
<1>4. disk' = new /\ Load' = new
  BY <1>2, SettledIsFixed DEF SaveSucceeds, RequestKept, Load
<1>5. disk'.boot = disk.boot /\ disk'.args = disk.args
  BY <1>2, <1>4 DEF RequestKept
<1>6. "overlap" \in cause => "overlap" \in cause' \/ h \in alone
  BY DEF SaveSucceeds
<1>7. h \in alone /\ cause' \cap {"overlap", "shutdown"} = {} => Explained'
  <2>. SUFFICES ASSUME h \in alone, cause' \cap {"overlap", "shutdown"} = {} PROVE Explained'
    OBVIOUS
  <2>1. CASE pc[h] = "save"
    <3>1. InForce(h)
      BY <1>2, <2>1 DEF AloneKept, Committed
    <3>. QED BY <1>1, <1>4, <3>1 DEF InForce, Explained, SameIdentity
  <2>2. CASE pc[h] = "persist"
    <3>1. /\ new.dest # Load.dest => cause' = cause \cup {"ap"}
          /\ new.dest = Load.dest => cause' = cause
      BY <2>2 DEF SaveSucceeds
    <3>2. SameIdentity(new, Load)
      BY <1>1, <1>2, <2>2 DEF AloneKept, OldKept, RequestKept
    <3>3. \A k \in Handlers : pc[k] \notin Committed
      BY <1>2, <2>2 DEF AloneKept, Busy, Committed
    <3>4. cause \cap {"overlap", "shutdown"} = {}
      BY <3>1
    <3>5. Explained
      BY <1>1, <3>3, <3>4 DEF EditInv, DivergeInv, DownInv
    <3> HIDE DEF new
    <3>. QED BY <1>1, <1>4, <3>1, <3>2, <3>5 DEF Explained, SameIdentity
  <2>. QED BY <1>1, <2>1, <2>2
<1>8. "idle" \in States /\ "idle" \notin Committed
  BY DEF States, Committed
<1> HIDE DEF new
<1>. QED BY <1>1, <1>3, <1>5, <1>6, <1>7, <1>8, ActorKeepsEditInv

LEMMA SaveFailsEditInv ==
  ASSUME IInv, EditInv, NEW h \in Handlers, SaveFails(h)
  PROVE  EditInv'
<1>1. UNCHANGED <<disk, rt, sender, logical, cli, proc, alone, budget>> /\ Busy(h)
  BY DEF SaveFails, Busy
<1>2. RequestKept(h) /\ (h \in alone => AloneKept(h))
  BY <1>1 DEF EditInv
<1>3. CASE /\ pc[h] = "save" /\ pc' = [pc EXCEPT ![h] = "rollback"] /\ UNCHANGED req
           /\ cause' = IF req[h].kind = "settings" THEN cause \cup {"rollback"} ELSE cause
  <2>1. RequestKept(h)'
    BY <1>1, <1>2, <1>3, RequestGoesOn DEF IInv, TypeOK
  <2>2. h \in alone => OldKept(h)' /\ InForce(h)'
    BY <1>1, <1>2, <1>3, OldGoesOn DEF AloneKept, Committed, InForce, SameIdentity
  <2>3. "rollback" \in States /\ "rollback" \in Committed
    BY DEF States, Committed
  <2>. QED BY <1>1, <1>3, <2>1, <2>2, <2>3, ActorKeepsEditInv
<1>4. CASE pc[h] = "persist" /\ Answer(h) /\ UNCHANGED cause
  <2>1. pc' = [pc EXCEPT ![h] = "idle"] /\ \A k \in Handlers : k # h => req'[k] = req[k]
    BY <1>4 DEF Answer, IInv, TypeOK
  <2>2. h \in alone /\ cause' \cap {"overlap", "shutdown"} = {} => Explained'
    BY <1>1, <1>4, ExplainedGoesOn DEF Committed
  <2>3. "idle" \in States /\ "idle" \notin Committed
    BY DEF States, Committed
  <2>. QED BY <1>1, <1>4, <2>1, <2>2, <2>3, ActorKeepsEditInv
<1>. QED BY <1>3, <1>4 DEF SaveFails

LEMMA StartProcessEditInv ==
  ASSUME IInv, EditInv, StartProcess
  PROVE  EditInv'
<1> DEFINE c == IF cli = {} THEN Load ELSE [Load EXCEPT !.boot = CHOOSE b \in cli : TRUE]
<1>1. Settled(Load) /\ Load \in Config /\ Load.args = disk.args /\ Load.boot = disk.boot
  BY LoadSettled DEF Settled, Sound
<1>2. /\ c.dest = Load.dest /\ SameIdentity(c, Load) /\ c.args = disk.args
      /\ cli = {} => c.boot = disk.boot
  BY <1>1 DEF SameIdentity, Config
<1>3. \A h \in Handlers : ~Busy(h)
  BY DEF EditInv, DownInv, StartProcess
<1>4. rt' = [c EXCEPT !.args = Resolved] /\ logical' = LogicalArgs(c)
      /\ UNCHANGED <<disk, cli, pc, req>> /\ cause' = {} /\ alone' = {} /\ proc' = "up"
  BY DEF StartProcess
<1>5. c \in [dest: Dests, own: Idents, active: Names, prof: ProfileMap,
             args: Flags \cup {NoFlag, Resolved}, boot: {c.boot}]
  BY <1>1 DEF Config
<1> HIDE DEF c
<1>6. rt'.dest = c.dest /\ SameIdentity(rt', c) /\ rt'.boot = c.boot
  BY <1>4, <1>5 DEF SameIdentity
<1>7. Load' = Load
  BY <1>4 DEF Load, DefaultAndValidate, HasProfiles
<1>8. \A h \in Handlers : ~Busy(h)'
  BY <1>3, <1>4 DEF Busy
<1>9. RestartInv'
  BY <1>2, <1>4, <1>6 DEF RestartInv, LogicalArgs
<1>10. DivergeInv'
  BY <1>2, <1>6, <1>7 DEF DivergeInv, Explained, SameIdentity
<1>. QED BY <1>4, <1>8, <1>9, <1>10 DEF EditInv, OverlapInv, DownInv

LEMMA ExitEditInv ==
  ASSUME IInv, EditInv, Exit
  PROVE  EditInv'
<1>1. proc' = "down" /\ alone' = {} /\ \A h \in Handlers : pc'[h] = "idle"
  BY DEF Exit
<1>. QED BY <1>1 DEF EditInv, OverlapInv, DownInv, RestartInv, DivergeInv, Busy

\* A step that leaves the requests, the file and the runtime alone.
LEMMA StillEditInv ==
  ASSUME IInv, EditInv, UNCHANGED <<disk, rt, logical, cli, pc, req, cause, alone>>,
         proc' = proc \/ (proc = "up" /\ proc' = "stopping")
  PROVE  EditInv'
<1>1. Load' = Load
  BY DEF Load, DefaultAndValidate, HasProfiles
<1>2. ASSUME NEW h \in Handlers, Busy(h)' PROVE RequestKept(h)'
  BY <1>2, RequestGoesOn DEF EditInv, Busy
<1>3. ASSUME NEW h \in alone' PROVE AloneKept(h)'
  <2>1. h \in Handlers /\ AloneKept(h)
    BY <1>3 DEF EditInv, IInv, TypeOK
  <2>2. (Busy(h) => OldKept(h))'
    BY <2>1, OldGoesOn DEF AloneKept, Busy
  <2>3. (\A k \in Handlers : k # h => ~Busy(k))' /\ (pc[h] \in Committed => InForce(h))'
    BY <2>1 DEF AloneKept, Busy, Committed, InForce, SameIdentity
  <2>. QED BY <2>1, <2>2, <2>3 DEF AloneKept
<1>4. OverlapInv' /\ DownInv' /\ RestartInv'
  BY DEF EditInv, OverlapInv, DownInv, RestartInv, Busy
<1>5. DivergeInv'
  BY <1>1 DEF EditInv, DivergeInv, Explained, SameIdentity, Committed
<1>. QED BY <1>2, <1>3, <1>4, <1>5 DEF EditInv

LEMMA NextEditInv == IInv /\ EditInv /\ [Next]_vars => EditInv'
<1>. SUFFICES ASSUME IInv, EditInv, [Next]_vars PROVE EditInv'
  OBVIOUS
<1>1. CASE \E h \in Handlers : Post(h)
  BY <1>1, PostSettingsEditInv, PostAircraftEditInv, PostPersistEditInv DEF Post
<1>2. CASE \E h \in Handlers : MainLoopApply(h)
  BY <1>2, MainLoopApplyEditInv
<1>3. CASE \E h \in Handlers : HandlerStep(h)
  BY <1>3, TakeAnswerEditInv, AbandonEditInv, SaveSucceedsEditInv, SaveFailsEditInv
  DEF HandlerStep
<1>4. CASE StartProcess \/ Exit
  BY <1>4, StartProcessEditInv, ExitEditInv
<1>5. CASE Cancel \/ UNCHANGED vars
  BY <1>5, StillEditInv DEF Cancel, vars
<1>. QED BY <1>1, <1>2, <1>3, <1>4, <1>5 DEF Next

\* Neither the command line nor the file has said what a restart could be asked for about.
NothingToRestart == cli = {} /\ disk.args = NoFlag

\* A step keeps what needs a restart, and refuses an edit only for its destination, unless
\* the command line or the device flag of the file has its say.
LEMMA StepKeepsRestartFields ==
  ASSUME IInv, EditInv, [Next]_vars, proc # "down", proc' # "down"
  PROVE  /\ rt'.boot = rt.boot /\ rt'.args = rt.args
         /\ \A h \in Handlers : NothingToRestart /\ pc[h] = "apply" /\ pc'[h] = "refused" =>
              req[h].new.dest \in BadDests
<1>. DEFINE Kept == rt'.boot = rt.boot /\ rt'.args = rt.args
            Told(h) == NothingToRestart /\ pc[h] = "apply" /\ pc'[h] = "refused" =>
                         req[h].new.dest \in BadDests
<1>1. CASE \E h \in Handlers : MainLoopApply(h)
  <2>1. PICK h \in Handlers : MainLoopApply(h)
    BY <1>1
  <2>2. \A k \in Handlers : k # h => pc'[k] = pc[k]
    BY <2>1 DEF MainLoopApply, IInv, TypeOK
  <2>3. Busy(h) /\ RequestKept(h) /\ RequestOK(h) /\ rt \in Config
    BY <2>1 DEF MainLoopApply, Busy, EditInv, IInv, TypeOK
  <2>4. ASSUME NEW c \in Config, ApplyAccepts(c), Commit(c) PROVE Kept
    <3>1. DefaultAndValidate(c) \in Config /\ DefaultAndValidate(c).boot = c.boot
      BY <2>4, DefaultAndValidateSound DEF ApplyAccepts, Sound
    <3>. QED BY <2>3, <2>4, <3>1 DEF Commit, ApplyAccepts, NeedsRestart, Config
  <2>5. req[h].new \in Config /\ req[h].old \in Config
    BY <2>3 DEF RequestOK, Request
  <2>6. Kept
    BY <2>1, <2>4, <2>5 DEF MainLoopApply
  <2>7. Told(h)
    <3>. SUFFICES ASSUME pc[h] = "apply", pc'[h] = "refused", NothingToRestart
                  PROVE req[h].new.dest \in BadDests
      OBVIOUS
    <3>1. ~ApplyAccepts(req[h].new)
      BY <2>1 DEF MainLoopApply, IInv, TypeOK
    <3>2. Valid(req[h].new)
      BY <2>3 DEF RequestOK, Sound
    <3>3. ~NeedsRestart(req[h].new)
      BY <2>3 DEF NeedsRestart, RequestKept, NothingToRestart, EditInv, RestartInv
    <3>. QED BY <3>1, <3>2, <3>3 DEF ApplyAccepts
  <2>8. \A k \in Handlers : k # h => Told(k)
    BY <2>2
  <2> HIDE DEF Told, Kept
  <2>9. \A k \in Handlers : Told(k)
    BY <2>7, <2>8
  <2>. QED BY <2>6, <2>9 DEF Told, Kept
<1>2. CASE UNCHANGED rt /\ \A h \in Handlers : pc[h] = "apply" => pc'[h] # "refused"
  BY <1>2
<1>3. CASE \E h \in Handlers : Post(h) \/ HandlerStep(h)
  <2>1. PICK h \in Handlers : Post(h) \/ HandlerStep(h)
    BY <1>3
  <2>2. UNCHANGED rt /\ \E s \in {"apply", "persist", "save", "rollback", "idle"} :
                          pc' = [pc EXCEPT ![h] = s]
    BY <2>1 DEF Post, PostSettings, PostAircraft, PostPersist, Start, HandlerStep, TakeAnswer,
                Abandon, SaveSucceeds, SaveFails, Answer
  <2>3. \A k \in Handlers : pc[k] = "apply" => pc'[k] # "refused"
    BY <2>2 DEF IInv, TypeOK
  <2>. QED BY <1>2, <2>2, <2>3
<1>4. CASE StartProcess \/ Exit
  BY <1>4 DEF StartProcess, Exit
<1>5. CASE Cancel \/ UNCHANGED vars
  BY <1>2, <1>5 DEF Cancel, vars
<1>. QED BY <1>1, <1>3, <1>4, <1>5 DEF Next

---------------------------------------------------------------------------
(* The theorems *)

\* The inductive invariant holds throughout every behaviour.
THEOREM Invariant == Spec => []IInv
BY InitIInv, NextIInv, PTL DEF Spec

\* Every configuration anywhere in the process stays well typed: DefaultAndValidate
\* never mirrors a profile that is not there.
THEOREM TypeCorrect == Spec => []TypeOK
<1>1. IInv => TypeOK
  BY DEF IInv
<1>. QED BY <1>1, Invariant, PTL

\* However edits, rollbacks, cancellations and starts interleave, frames leave
\* for the configured destination and carry the active profile's identity.
THEOREM RuntimeStaysCoherent == Spec => []RuntimeCoherent
<1>1. IInv => RuntimeCoherent
  BY DEF IInv, RuntimeOK, Mirrored, RuntimeCoherent
<1>. QED BY <1>1, Invariant, PTL

\* No sequence of requests, failed saves and power cuts leaves a file behind
\* that keeps the appliance from starting.
THEOREM FileStaysBootable == Spec => []FileBootable
<1>1. IInv => FileBootable
  BY DEF IInv, Sound, FileBootable
<1>. QED BY <1>1, Invariant, PTL

\* The inductive invariant and its strengthening for edits hold throughout.
THEOREM EditsKept == Spec => [](IInv /\ EditInv)
<1>1. Init => IInv /\ EditInv
  BY InitIInv, InitEditInv
<1>2. (IInv /\ EditInv) /\ [Next]_vars => (IInv /\ EditInv)'
  BY NextIInv, NextEditInv
<1>. QED BY <1>1, <1>2, PTL DEF Spec

\* When Apply has accepted an edit that no other request overlapped, the appliance reports
\* the identity that the client asked for (settings.go 180-189).
THEOREM EditsTakeEffect == Spec => []EditTakesEffect
<1>1. IInv /\ EditInv => EditTakesEffect
  <2>. SUFFICES ASSUME IInv, EditInv, NEW h \in alone, pc[h] \in {"applied", "save"}
                PROVE rt.own = req[h].asked
    BY DEF EditTakesEffect
  <2>1. h \in Handlers /\ Busy(h) /\ pc[h] # "persist" /\ pc[h] \in Committed
    BY DEF IInv, TypeOK, Busy, Committed
  <2>2. RequestKept(h) /\ InForce(h)
    BY <2>1 DEF EditInv, AloneKept
  <2>. QED BY <2>1, <2>2 DEF RequestKept, InForce, SameIdentity
<1>. QED BY <1>1, EditsKept, PTL

\* With nothing in flight, file and runtime differ only by an access-point change, by a
\* settings edit whose save failed, or after requests that overlapped or a shutdown.
THEOREM DivergenceIsExplained == Spec => []DivergenceExplained
<1>1. IInv /\ EditInv => DivergenceExplained
  <2>. SUFFICES ASSUME IInv, EditInv, proc # "down", Quiet, cause \cap {"overlap", "shutdown"} = {}
                PROVE Explained
    BY DEF DivergenceExplained, Explained, SameIdentity
  <2>1. \A h \in Handlers : pc[h] \notin Committed
    BY DEF Quiet, Busy, Committed
  <2>. QED BY <2>1 DEF EditInv, DivergeInv
<1>. QED BY <1>1, EditsKept, PTL

\* What needs a restart stays as it was at the start, so that goroutines which read it
\* without the main loop's lock see one value (main.go 555 and 993, live_runtime.go 716-744).
THEOREM RestartFieldsStay == Spec => RestartFieldsFixed
<1> DEFINE A == proc # "down" /\ proc' # "down" => rt'.boot = rt.boot /\ rt'.args = rt.args
<1>1. IInv /\ EditInv /\ [Next]_vars => [A]_vars
  BY StepKeepsRestartFields
<1>. QED BY <1>1, EditsKept, PTL DEF Spec, RestartFieldsFixed

\* The false restart that NoFalseRestart refutes needs a device flag in the file: where the
\* file has none and no command line overrides it, an edit is refused only for a destination
\* that cannot be used.
THEOREM FalseRestartNeedsFlag ==
  Spec => [][\A h \in Handlers : proc # "down" /\ proc' # "down" /\ NothingToRestart
                                 /\ pc[h] = "apply" /\ pc'[h] = "refused" =>
               req[h].new.dest \in BadDests]_vars
<1> DEFINE A == \A h \in Handlers : proc # "down" /\ proc' # "down" /\ NothingToRestart
                                    /\ pc[h] = "apply" /\ pc'[h] = "refused" =>
                  req[h].new.dest \in BadDests
<1>1. IInv /\ EditInv /\ [Next]_vars => [A]_vars
  BY StepKeepsRestartFields
<1>. QED BY <1>1, EditsKept, PTL DEF Spec
=============================================================================
