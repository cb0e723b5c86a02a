--------------------------- MODULE MCConfigApply ---------------------------
(* Two requests at a time on a small appliance. *)
EXTENDS ConfigApply

CONSTANTS h1, h2, d1, d2, d3, i1, i2, n1, n2, f1, b1, b2

MCHandlers == {h1, h2}
MCDests == {d1, d2, d3}
MCBadDests == {d3}
MCIdents == {i1, i2}
MCNames == {n1, n2}
MCFlags == {f1}
MCBoots == {b1, b2}
MCOverrides == {b2}

\* A legacy file with no profile, and one with two profiles whose ownship
\* block is stale, as the shipped config.yaml has it; the decoder's args
\* without and with a device flag.
MCFile(own, prof, args) ==
  [dest |-> d1, own |-> own, active |-> n1, prof |-> prof,
   args |-> args, boot |-> b1]

MCFiles ==
  {MCFile(i1, [n \in MCNames |-> NoProfile], NoFlag),
   MCFile(i2, [n \in MCNames |-> IF n = n1 THEN i1 ELSE i2], NoFlag),
   MCFile(i2, [n \in MCNames |-> IF n = n1 THEN i1 ELSE i2], f1)}

\* A list that takes the first profile away and makes the second the only one.
MCProfileLists == {[n \in MCNames |-> IF n = n2 THEN i2 ELSE NoProfile]}
=============================================================================
