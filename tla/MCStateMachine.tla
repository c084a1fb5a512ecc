--------------------------- MODULE MCStateMachine ---------------------------
(***************************************************************************)
(* The state machine on a small instance, with a bound on how the rest of  *)
(* the pod interleaves.                                                    *)
(***************************************************************************)
EXTENDS StateMachine, MCSamples, Sequences

(* Independent modules reach each status in one order, the operator gives  *)
(* the commands of a run in theirs, and the pod does not move backwards.   *)
(* The high power is switched off once, nothing but the state machine      *)
(* stops the system, and there is one cause of emergency at a time.        *)
ReportOrder  == <<"telemetry", "batteries", "brakes", "navigation", "motors">>
CommandOrder == <<"calibrate", "launch", "shutdown">>

Orderly ==
  /\ \A i \in DOMAIN ReportOrder :
       LET m == ReportOrder[i] IN
         status'[m] > status[m] =>
           \A j \in 1..(i - 1) :
             LET n == ReportOrder[j] IN
               status[n] = kCriticalFailure \/ status[n] >= status'[m]
  /\ \A i \in 2..Len(CommandOrder) :
       command'[CommandOrder[i]] /\ ~command[CommandOrder[i]] => command[CommandOrder[i - 1]]
  /\ nav'.displacement >= nav.displacement
  /\ highPowerOff => highPowerOff'
  /\ command'["emergency_stop"] => faults' = 0
  /\ running' \/ current' = "Off"

MCFairSpec == Init /\ [][Next /\ Orderly]_vars /\ Fairness
=============================================================================
