---------------------------- MODULE SingleFlight ----------------------------
(***************************************************************************)
(* The promise of the sleep coordinator to the machine: sleep attempts fly *)
(* one at a time, each asks the system to sleep at most once, only while   *)
(* it is the open attempt, and no attempt ever comes back: not after a     *)
(* late message, not after a reload of the service.                        *)
(***************************************************************************)
EXTENDS Naturals

VARIABLES flight,   \* number of the attempt in flight, 0 when there is none
          phase,    \* what has been done for it
          last      \* the highest attempt number handed out so far

flightVars == <<flight, phase, last>>

FlightTypeOK ==
  /\ flight \in Nat
  /\ phase \in {"idle", "open", "requested"}
  /\ last \in Nat

FlightInit == flight = 0 /\ phase = "idle" /\ last = 0

\* A new attempt takes off; its number has never been used.
Begin ==
  /\ flight = 0
  /\ last' = last + 1
  /\ flight' = last'
  /\ phase' = "open"

\* A number is handed out for an attempt that is then not accepted.
Burn ==
  /\ flight = 0
  /\ last' = last + 1
  /\ UNCHANGED <<flight, phase>>

\* The system is asked to sleep, once.
Request ==
  /\ phase = "open"
  /\ phase' = "requested"
  /\ UNCHANGED <<flight, last>>

\* The attempt is over: an outcome is recorded, or the service is gone.
Land ==
  /\ flight # 0
  /\ flight' = 0
  /\ phase' = "idle"
  /\ UNCHANGED last

FlightNext == Begin \/ Burn \/ Request \/ Land

FlightSpec == FlightInit /\ [][FlightNext]_flightVars
=============================================================================
