--------------------------- MODULE ChargeSession ----------------------------
(***************************************************************************)
(* What EMSECC promises about one charging session, without its link, its  *)
(* handlers and its OCPP client: a session is prepared only after it has   *)
(* been authorized, is settled only if it was metered (the central system  *)
(* has a transaction for it), and after a charge the only way back to      *)
(* service is a restart.  Metering may start late, even after the session  *)
(* was interrupted, but never without authorization.                       *)
(***************************************************************************)
VARIABLES phase, authorized, metered

sessionVars == <<phase, authorized, metered>>

Phases == {"starting", "available", "preparing", "charging", "settling", "out"}

Start == phase = "starting" /\ ~authorized /\ ~metered

Open ==
  /\ phase = "starting" /\ phase' = "available"
  /\ UNCHANGED <<authorized, metered>>

(* The answer of the central system may find the session interrupted.       *)
Grant ==
  /\ phase \in {"available", "out"}
  /\ ~authorized /\ authorized' = TRUE
  /\ UNCHANGED <<phase, metered>>

Prepare ==
  /\ phase = "available" /\ authorized /\ phase' = "preparing"
  /\ UNCHANGED <<authorized, metered>>

Charge ==
  /\ phase = "preparing" /\ phase' = "charging"
  /\ UNCHANGED <<authorized, metered>>

Meter ==
  /\ phase \in {"charging", "settling", "out"}
  /\ authorized /\ ~metered /\ metered' = TRUE
  /\ UNCHANGED <<phase, authorized>>

Settle ==
  /\ phase = "charging" /\ phase' = "settling"
  /\ authorized /\ metered' = TRUE
  /\ UNCHANGED authorized

StopMeter ==
  /\ phase = "settling" /\ metered /\ metered' = FALSE
  /\ UNCHANGED <<phase, authorized>>

(* A fault or a firmware download; a charge may be found metered on the way. *)
Interrupt ==
  /\ phase # "out" /\ phase' = "out"
  /\ \/ UNCHANGED metered
     \/ phase = "charging" /\ authorized /\ metered' = TRUE
  /\ UNCHANGED authorized

Restart == phase' = "starting" /\ ~authorized' /\ ~metered'

Step ==
  \/ Open \/ Grant \/ Prepare \/ Charge \/ Meter \/ Settle \/ StopMeter
  \/ Interrupt \/ Restart

Behaviour == Start /\ [][Step]_sessionVars

=============================================================================
