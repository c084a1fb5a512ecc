----------------------------- MODULE PodCourse -----------------------------
(***************************************************************************)
(* The course of a run as a thread sees it that only looks at the state    *)
(* which the state machine publishes (src/src/state_machine/state.cpp).    *)
(* Module StateMachine says when the state machine goes on.                *)
(***************************************************************************)
EXTENDS PodData, Sequences

Course == <<"kIdle", "kPreCalibrating", "kCalibrating", "kPreReady", "kReady",
            "kAccelerating", "kCruising", "kPreBraking", "kNominalBraking", "kFinished">>

Preparing == {"kIdle", "kPreCalibrating", "kCalibrating", "kPreReady", "kReady"}
Moving    == {"kAccelerating", "kCruising"}
Braking   == {"kCruising", "kPreBraking", "kNominalBraking", "kFailurePreBraking", "kFailureBraking"}
Stopped   == {"kFinished", "kFailureStopped"}

(* The run goes on; acceleration may end without cruising. *)
GoesOn(s, t) ==
  \/ \E i \in 1..(Len(Course) - 1) : Course[i] = s /\ Course[i + 1] = t
  \/ s = "kAccelerating" /\ t = "kPreBraking"

(* The run is given up, or a pod that failed comes to a stand.             *)
GivesUp(s, t) ==
  \/ s \in Preparing /\ t = "kFailureStopped"
  \/ s \in Moving \union {"kPreBraking"} /\ t = "kFailurePreBraking"
  \/ s \in {"kFailurePreBraking", "kNominalBraking"} /\ t = "kFailureBraking"
  \/ s = "kFailureBraking" /\ t = "kFailureStopped"
=============================================================================
