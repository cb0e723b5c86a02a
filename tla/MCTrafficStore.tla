--------------------------- MODULE MCTrafficStore ---------------------------
(* Two aircraft, room for one, and the two bands of the receiver. *)
EXTENDS TrafficStore, TLC

CONSTANTS a1, a2, adsb1090, uat978, zero, value, field

MCAircraft == {a1, a2}
MCFeeds == {adsb1090, uat978}
MCMetaFeeds == {adsb1090}
MCFields == {field}
MCValues == {zero, value}
\* The 978 MHz parser takes a missing speed for an aircraft on the ground.
MCGuess == (adsb1090 :> zero) @@ (uat978 :> value)
\* Nothing in the store prefers one address to another.
MCSymmetry == Permutations(MCAircraft)
=============================================================================
