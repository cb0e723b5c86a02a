---------------------------- MODULE MCReceivers ----------------------------
(* The receivers: which dongle each decoder gets, the traffic store, and the uplink     *)
(* frames of 978 MHz. They share no state, so a behaviour follows one of them, and the   *)
(* others rest as they start. Nor do the tallies of frames and their relay share any, so *)
(* the clock moves in some behaviours and the main loop ticks in others. There are three *)
(* towers and room for two. One sends frames with the product twice, two lines of text  *)
(* and a signal level, one frames with each once and no level, and one frames that hold *)
(* nothing.                                                                             *)
EXTENDS MCTrafficStore, UATRelay, MCSDRAssign

CONSTANTS t1, t2, t3, metar, none

VARIABLE part   \* what moves: "sdr", "traffic", "tally" or "relay"

MCTowers == {t1, t2, t3}
MCProducts == {metar}
MCFrame(t, n, signal) ==
  [tower |-> t, products |-> [p \in MCProducts |-> n], lines |-> n, signal |-> signal]
MCKinds == {MCFrame(t1, 2, TRUE), MCFrame(t2, 1, FALSE), MCFrame(t3, 0, FALSE)}

SDRRests ==
  /\ plugged = <<>> /\ radio = FALSE /\ known = {} /\ index = Unset
  /\ tag = [b \in Bands |-> Unset] /\ selector = [b \in Bands |-> Unset]

MCInit ==
  /\ part \in {"sdr", "traffic", "tally", "relay"}
  /\ StoreInit /\ Init
  /\ part # "sdr" => SDRRests
  /\ AssignInit

MCNext ==
  /\ UNCHANGED part
  /\ \/ part = "sdr" /\ AssignNext /\ UNCHANGED <<vars, storeVars>>
     \/ part = "traffic" /\ StoreNext /\ UNCHANGED <<vars, assignVars>>
     \/ part = "tally" /\ Next /\ UNCHANGED <<left, storeVars, assignVars>>
     \/ part = "relay" /\ Next /\ UNCHANGED <<clock, storeVars, assignVars>>

MCSpec == MCInit /\ [][MCNext]_<<part, vars, storeVars, assignVars>>
=============================================================================
