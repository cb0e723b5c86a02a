----------------------------- MODULE SDRAssign -----------------------------
(***************************************************************************)
(* Which dongle each decoder is told to use. At the start of the process   *)
(* initDecoders lists the RTL-SDR dongles if a band leaves the choice to   *)
(* it, assigns one to each band, and rewrites the arguments of dump1090    *)
(* and dump978, which then open what their arguments name.                 *)
(*                                                                         *)
(* Arguments are what they say of the device: a selector, and whether the  *)
(* decoder has another source, so that it uses no dongle at all.           *)
(***************************************************************************)
EXTENDS Naturals, Sequences, FiniteSetsExt

CONSTANTS
  Serials,    \* serial numbers of dongles
  Says1090,   \* the serials with "1090" in them
  Says978,    \* the serials with "978" in them
  Manual,     \* serials that somebody may have written into the configuration
  MaxDongles  \* bound: dongles plugged in

ASSUME SerialsAssumption == Says1090 \union Says978 \union Manual \subseteq Serials
ASSUME BoundAssumption == MaxDongles \in Nat

Bands == {"1090", "978"}

\* A tag of the configuration, and a selector in the arguments: a serial, an index, nothing,
\* or the words "auto" and "driver=rtlsdr".
BySerial(s) == [kind |-> "serial", serial |-> s]
ByIndex(i) == [kind |-> "index", index |-> i]
Unset == [kind |-> "unset"]
AutoTag == [kind |-> "auto"]
First == [kind |-> "first"]

IsAutoTag(t) == t \in {Unset, AutoTag}

Written == {BySerial(s) : s \in Manual}

VARIABLES
  plugged,   \* the serials of the dongles, in the order of their index
  radio,     \* the serial port of a Stratux UATRadio is there
  known,     \* the bands that are enabled and whose command is dump1090 or dump978
  index,     \* sdr.index of 1090
  written,   \* what the configuration has: tag, selector, other source, of each band
  tag,       \* the tag of each band
  selector,  \* the selector in its arguments
  other,     \* the bands whose arguments name another source
  found,     \* the dongles that detection gave
  assigned,  \* what AutoAssign1090And978 picked of them: a position, or 0
  step

assignVars == <<plugged, radio, known, index, written, tag, selector, other, found, assigned, step>>
machine == <<plugged, radio, known, index, written>>

Nobody == [b \in Bands |-> 0]

AssignInit ==
  /\ plugged \in UNION {[1 .. n -> Serials] : n \in 0 .. MaxDongles}
  /\ radio \in BOOLEAN /\ known \in SUBSET Bands /\ index \in {Unset, ByIndex(0)}
  /\ tag \in [Bands -> {Unset, AutoTag} \union Written]
  /\ selector \in [Bands -> {Unset} \union Written]
  /\ other \in SUBSET known
  /\ written = [tag |-> tag, selector |-> selector, other |-> other]
  /\ found = <<>> /\ assigned = Nobody /\ step = "detect"

---------------------------------------------------------------------------
(* Detection and assignment *)

NeedDetect == \E b \in known : IsAutoTag(tag[b])

FirstOf(devs) == IF devs = {} THEN 0 ELSE Min(devs)

\* Variant: a band without a dongle that names it takes the first one.
AssignEach(devs) ==
  [b \in Bands |->
    LET named == FirstOf({i \in DOMAIN devs : devs[i] \in IF b = "1090" THEN Says1090 ELSE Says978})
    IN IF named # 0 THEN named ELSE FirstOf(DOMAIN devs)]

\* Variant: the serials are not looked at.
AssignInOrder(devs) ==
  [b \in Bands |-> IF b = "1090" THEN FirstOf(DOMAIN devs) ELSE FirstOf(DOMAIN devs \ {1})]

\* The first dongle that names the band; for a band without one, or if both have the same,
\* the first that is left, 1090 before 978.
AutoAssign1090And978(devs) ==
  LET adsb == FirstOf({i \in DOMAIN devs : devs[i] \in Says1090})
      uat == FirstOf({i \in DOMAIN devs : devs[i] \in Says978})
      rest(i) == FirstOf(DOMAIN devs \ {i})
      pair(a, u) == [b \in Bands |-> IF b = "1090" THEN a ELSE u]
  IN CASE adsb # 0 /\ uat # 0 /\ adsb # uat -> pair(adsb, uat)
       [] adsb # 0 /\ uat \in {0, adsb} -> pair(adsb, rest(adsb))
       [] adsb = 0 /\ uat # 0 -> pair(rest(uat), uat)
       [] OTHER -> pair(FirstOf(DOMAIN devs), rest(1))

DetectSucceeds ==
  /\ step = "detect" /\ NeedDetect /\ plugged # <<>>
  /\ found' = plugged /\ assigned' = AutoAssign1090And978(plugged)
  /\ step' = "1090" /\ UNCHANGED <<machine, tag, selector, other>>

\* Nobody needs it; or rtl_test is missing, takes too long, or sees no dongle.
NoDetection ==
  /\ step = "detect" /\ step' = "1090"
  /\ UNCHANGED <<machine, tag, selector, other, found, assigned>>

---------------------------------------------------------------------------
(* The arguments *)

\* upsertDump1090DeviceArgs.
DeviceArg(old, t, i) ==
  IF t # Unset THEN t ELSE IF i # Unset THEN i ELSE old

Configure1090 ==
  LET auto == IsAutoTag(tag["1090"]) /\ assigned["1090"] # 0
      t == IF auto THEN BySerial(found[assigned["1090"]]) ELSE tag["1090"]
      i == IF auto THEN ByIndex(assigned["1090"] - 1) ELSE index
  IN /\ step = "1090" /\ step' = "978"
     /\ IF "1090" \in known
        THEN /\ tag' = [tag EXCEPT !["1090"] = t]
             /\ selector' = IF "1090" \in other THEN selector
                            ELSE [selector EXCEPT !["1090"] = DeviceArg(@, t, i)]
        ELSE UNCHANGED <<tag, selector>>
     /\ UNCHANGED <<machine, other, found, assigned>>

\* upsertDump978DeviceArgs: there is always a selector, be it for any dongle.
SdrArg(t) == IF IsAutoTag(t) THEN First ELSE t

\* A radio that is there takes the place of a dongle unless the arguments name a device.
TakesRadio == radio /\ "978" \notin other /\ selector["978"] = Unset

Configure978 ==
  LET t == IF IsAutoTag(tag["978"]) /\ assigned["978"] # 0
           THEN BySerial(found[assigned["978"]]) ELSE tag["978"]
  IN /\ step = "978" /\ step' = "done"
     /\ IF "978" \in known
        THEN /\ tag' = [tag EXCEPT !["978"] = t]
             /\ other' = IF TakesRadio THEN other \union {"978"} ELSE other
             /\ selector' = IF "978" \in other' THEN selector
                            ELSE [selector EXCEPT !["978"] = SdrArg(t)]
        ELSE UNCHANGED <<tag, selector, other>>
     /\ UNCHANGED <<machine, found, assigned>>

AssignNext == DetectSucceeds \/ NoDetection \/ Configure1090 \/ Configure978

AssignSpec == AssignInit /\ [][AssignNext]_assignVars

---------------------------------------------------------------------------
(* What the decoders do with their arguments *)

\* The dongle a decoder opens with selector s, by position; 0 if there is none, as for a
\* serial that no dongle has.
Opens(s) ==
  CASE s.kind = "serial" -> FirstOf({i \in DOMAIN plugged : plugged[i] = s.serial})
    [] s.kind = "index" -> IF s.index + 1 \in DOMAIN plugged THEN s.index + 1 ELSE 0
    [] s.kind = "auto" -> 0
    [] OTHER -> FirstOf(DOMAIN plugged)

UsesDongle(b) == b \in known /\ b \notin other

---------------------------------------------------------------------------
(* Properties *)

AllDiffer == \A i, j \in DOMAIN plugged : i # j => plugged[i] # plugged[j]

\* Neither a tag nor a selector in the arguments says which dongle it is to be.
LeftToDetection(b) ==
  UsesDongle(b) /\ IsAutoTag(written.tag[b]) /\ written.selector[b] = Unset

\* With both bands left to it, a detection that worked, and two dongles that can be told
\* apart by their serial, the decoders get two different dongles. One of the two bands set
\* by hand is outside of this: the other one may be given the same dongle.
DistinctDongles ==
  /\ step = "done" /\ Len(found) >= 2 /\ AllDiffer
  /\ \A b \in Bands : LeftToDetection(b)
  => /\ Opens(selector["1090"]) # 0 /\ Opens(selector["978"]) # 0
     /\ Opens(selector["1090"]) # Opens(selector["978"])

\* A dongle whose serial names a band is given to that band, if it was left to detection and
\* no dongle names both.
NamedGoesToItsBand ==
  /\ step = "done" /\ found # <<>>
  /\ Says1090 \intersect Says978 \intersect {found[i] : i \in DOMAIN found} = {}
  => \A b \in Bands :
       LET named == IF b = "1090" THEN Says1090 ELSE Says978
       IN LeftToDetection(b) /\ (\E i \in DOMAIN found : found[i] \in named)
          => selector[b].kind = "serial" /\ selector[b].serial \in named

\* A serial that somebody wrote as the tag is used as it is, and a decoder that has another
\* source or that is not one of the two known ones keeps its arguments.
TagsStay ==
  step = "done" => \A b \in Bands :
    /\ UsesDongle(b) /\ ~IsAutoTag(written.tag[b]) => selector[b] = written.tag[b]
    /\ b \notin known \/ b \in written.other => selector[b] = written.selector[b]

\* Both: serials decide, those of the dongles that are found and those of the tags.
SerialsRespected == NamedGoesToItsBand /\ TagsStay

\* A dongle can also be pinned by "explicit decoder flags" in the arguments (dev.md 164-167):
\* then the decoder of that band is started with them. (An index of 1090 that was written as
\* well would contradict them.)
SelectionKept ==
  step = "done" => \A b \in Bands :
    /\ UsesDongle(b) /\ written.selector[b] # Unset
    /\ IsAutoTag(written.tag[b]) /\ (b = "1090" => index = Unset)
    => selector[b] = written.selector[b]
=============================================================================
