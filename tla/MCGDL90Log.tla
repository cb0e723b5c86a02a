---------------------------- MODULE MCGDL90Log ----------------------------
(* The tick has two frames at a time, the streamer one; the buffer holds a line and a half. *)
EXTENDS GDL90Replay

CONSTANTS tick, streamer, none

MCProducers == {tick, streamer}
MCBatch == [p \in MCProducers |-> IF p = tick THEN 2 ELSE 1]
===========================================================================
