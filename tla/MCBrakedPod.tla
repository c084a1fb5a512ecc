---------------------------- MODULE MCBrakedPod -----------------------------
(***************************************************************************)
(* The state machine and the brakes on a small instance, with a bound on   *)
(* how the rest of the pod interleaves; the brakes thread reports when it  *)
(* does.                                                                   *)
(***************************************************************************)
EXTENDS BrakedPod, MCSamples, Sequences

(* Independent modules reach each status in one order, the operator gives  *)
(* the commands of a run in theirs, and the pod does not move backwards.   *)
(* The brakes are ordered off before the calibration, the high power is    *)
(* switched off once, and nothing stops the system.                        *)
ReportOrder  == <<"telemetry", "batteries", "navigation", "motors">>
CommandOrder == <<"calibrate", "launch", "shutdown">>

Orderly ==
  /\ \A i \in DOMAIN ReportOrder :
       LET m == ReportOrder[i] IN
         status'[m] > status[m] =>
           \A j \in 1..(i - 1) :
             LET n == ReportOrder[j] IN
               status[n] = kCriticalFailure \/ status[n] >= status'[m]
  /\ \A i \in 2..Len(CommandOrder) :
       command'[CommandOrder[i]] /\ ~command[CommandOrder[i]] => command[CommandOrder[i - 1]]
  /\ nav'.displacement >= nav.displacement
  /\ nominalBraking' => nominalBraking
  /\ command'["calibrate"] => ~nominalBraking'
  /\ highPowerOff => highPowerOff'
  /\ running'

MCFairSpec == PInit /\ [][PNext /\ Orderly]_pvars /\ ThreadsFair
=============================================================================
