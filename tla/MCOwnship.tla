----------------------------- MODULE MCOwnship -----------------------------
(* What the appliance knows of its own aircraft: the AHRS service, the hub that shows *)
(* the attitude to browsers, and the GPS service. They share no state, so a behaviour  *)
(* follows one of them, and the others rest in a state in which they start; the GPS    *)
(* service, with a serial receiver that could not be opened. Two clients calibrate at  *)
(* once, on a board whose side points down where it is mounted.                        *)
EXTENDS AHRS, MCAttitudeHub, GPS

CONSTANTS c1, c2

VARIABLE part   \* the component that moves: "ahrs", "hub" or "gps"

MCClients == {c1, c2}

\* The barometer does not touch the calibrations, nor Set Level, zero drift and
\* startup the orientation, so not everything need happen at once.
MCScenes ==
  {{"imu", "baro", "level", "startup"}, {"imu", "drift", "startup"}, {"imu", "orient"}}

\* A clock that is right, one step behind, and ahead by more than the limit.
MCSkews == {-2, 0, 1}

AHRSRests == baro /\ saved = NotSaved /\ scene = {"imu", "orient"}
GPSRests == source = "nmea" /\ readerAt = "done" /\ skew = 0 /\ ~gpsd

MCInit ==
  /\ part \in {"ahrs", "hub", "gps"}
  /\ Init /\ (part # "ahrs" => AHRSRests)
  /\ HubInit
  /\ GPSInit /\ (part # "gps" => GPSRests)

MCNext ==
  /\ UNCHANGED part
  /\ \/ part = "ahrs" /\ Next /\ UNCHANGED <<hubVars, gpsVars>>
     \/ part = "hub" /\ HubNext /\ UNCHANGED <<vars, gpsVars>>
     \/ part = "gps" /\ GPSNext /\ UNCHANGED <<vars, hubVars>>

MCFairness ==
  \/ part = "ahrs" /\ Fairness
  \/ part = "hub" /\ HubFairness
  \/ part = "gps" /\ GPSFairness

MCSpec == MCInit /\ [][MCNext]_<<part, vars, hubVars, gpsVars>> /\ MCFairness
=============================================================================
