--------------------------- MODULE MCAttitudeHub ---------------------------
(* Two browsers on channels of two attitudes. *)
EXTENDS AttitudeHub

CONSTANTS h1, h2

MCHandlers == {h1, h2}
=============================================================================
