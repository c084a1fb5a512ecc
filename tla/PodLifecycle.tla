---------------------------- MODULE PodLifecycle ----------------------------
(***************************************************************************)
(* What the state machine promises, without the threads: a run goes        *)
(* through five phases in order, a failure before the launch ends it on    *)
(* the spot, one after the launch sends it through braking, nothing that   *)
(* failed becomes nominal again, and the pod is shut down only when it     *)
(* stands.                                                                 *)
(***************************************************************************)
VARIABLES
  phase,   \* how far the run is
  outcome  \* whether it was given up

Phase == {"preparing", "moving", "braking", "stopped", "off"}

Outcome == {"nominal", "failure"}

TypeOK == phase \in Phase /\ outcome \in Outcome

Init == phase = "preparing" /\ outcome = "nominal"

(* The pod is launched, and only a run that has not failed is. *)
Launch == phase = "preparing" /\ outcome = "nominal" /\ phase' = "moving" /\ UNCHANGED outcome

(* A failure before the launch: the pod stands already. *)
Abort == phase = "preparing" /\ phase' = "stopped" /\ outcome' = "failure"

(* The pod brakes, because it must or because something failed. *)
Brake == phase = "moving" /\ phase' = "braking" /\ outcome' \in Outcome

(* A failure while braking nominally. *)
FailBraking == phase = "braking" /\ outcome' = "failure" /\ UNCHANGED phase

Stop == phase = "braking" /\ phase' = "stopped" /\ UNCHANGED outcome

ShutDown == phase = "stopped" /\ phase' = "off" /\ UNCHANGED outcome

Next == Launch \/ Abort \/ Brake \/ FailBraking \/ Stop \/ ShutDown

Spec == Init /\ [][Next]_<<phase, outcome>>

=============================================================================
