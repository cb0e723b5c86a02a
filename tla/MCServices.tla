----------------------------- MODULE MCServices -----------------------------
(* Two services that main starts and liveRuntime changes: the configuration that is   *)
(* applied live, and the fan. They share no state, so a behaviour follows one of them,  *)
(* and the other rests: no process yet, or a fan that is not started. Nothing fair is   *)
(* enabled there.                                                                       *)
EXTENDS MCConfigApply, FanControl

VARIABLE part   \* the component that moves: "config" or "fan"

ConfigRests == cli = {} /\ disk.args = NoFlag /\ disk.own = i1
FanRests == config = [backend |-> "auto", min |-> "low", pi5 |-> FALSE]

MCInit ==
  /\ part \in {"config", "fan"}
  /\ Init /\ (part # "config" => ConfigRests)
  /\ FanInit /\ (part # "fan" => FanRests)

MCNext ==
  /\ UNCHANGED part
  /\ \/ part = "config" /\ Next /\ UNCHANGED fanVars
     \/ part = "fan" /\ FanNext /\ UNCHANGED vars

MCSpec ==
  /\ MCInit /\ [][MCNext]_<<part, vars, fanVars>>
  /\ Fairness /\ FanFairness
=============================================================================
