--------------------------- MODULE MCDecoderLink ---------------------------
(* A 978 MHz decoder: a stream of JSON lines and one of raw lines. *)
EXTENDS DecoderLink

CONSTANTS json, raw

MCOrder == <<json, raw>>
MCJson == {json}
=============================================================================
