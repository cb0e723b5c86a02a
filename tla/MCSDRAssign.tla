---------------------------- MODULE MCSDRAssign ----------------------------
(* Dongles whose serial names no band, one, the other, or both. *)
EXTENDS SDRAssign

CONSTANTS plain, s1090, s978, both

MCSerials == {plain, s1090, s978, both}
MCSays1090 == {s1090, both}
MCSays978 == {s978, both}
MCManual == {s1090}
=============================================================================
