----------------------------- MODULE BrakedPod -----------------------------
(***************************************************************************)
(* The state-machine thread and the brakes thread over one blackboard: the *)
(* brakes act on the state that is published, and the state machine waits  *)
(* for the status of the brakes.  The other four modules stay open.        *)
(***************************************************************************)
EXTENDS StateMachine

CONSTANT Sticky

VARIABLES brakesRetracted, nominalBraking, bpc, task, engaged, commanded

Brk == INSTANCE Brakes

ASSUME StickyAssumption == Sticky \subseteq Brk!Brake

brakesOwn == <<brakesRetracted, bpc, task, engaged, commanded>>

pvars == <<vars, brakesOwn, nominalBraking>>

TheStateMachine == StateMachineStep /\ UNCHANGED <<brakesOwn, nominalBraking>>

TheBrakes == Brk!BrakesStep /\ UNCHANGED <<command, nav, highPowerOff, thread, faults, nominalBraking>>

TheHardware == Brk!Hardware /\ UNCHANGED <<vars, nominalBraking>>

(* NOMINAL_BRAKING and NOMINAL_RETRACT of the operator. *)
CommandNominalBraking ==
  /\ nominalBraking' = ~nominalBraking
  /\ UNCHANGED <<vars, brakesOwn>>

TheOthers ==
  \/ /\ \/ \E m \in Module \ {"brakes"} : Report(m) \/ Fail(m)
        \/ \E c \in Commands : Receive(c)
        \/ \E k \in NavSamples : Navigate(k)
        \/ SwitchHighPower
        \/ StopSystem
     /\ UNCHANGED <<brakesOwn, nominalBraking>>
  \/ CommandNominalBraking

PInit == Init /\ Brk!BrakesInit /\ nominalBraking = TRUE

PNext == TheStateMachine \/ TheBrakes \/ TheHardware \/ TheOthers

PSpec == PInit /\ [][PNext]_pvars

(***************************************************************************)
(* Both threads are scheduled; a brake that works reaches the position its *)
(* pin asks for.                                                           *)
(***************************************************************************)
ThreadsFair ==
  /\ WF_pvars(TheStateMachine)
  /\ WF_pvars(TheBrakes)
  /\ \A b \in Brk!Brake \ Sticky : WF_pvars(Brk!Follow(b) /\ UNCHANGED <<vars, nominalBraking>>)

PFairSpec == PSpec /\ ThreadsFair

-----------------------------------------------------------------------------
(* The type invariant of the two threads together. *)
PTypeOK == TypeOK /\ Brk!BrakesTypeOK

Sound == Brk!Brake \ Sticky

(* The states from the end of the calibration to the moment of braking.    *)
BrakesOff == {"kPreReady", "kReady", "kAccelerating", "kCruising", "kPreBraking",
              "kFailurePreBraking"}

(* Between calibration and braking no brake is engaged, although the       *)
(* brakes thread may still be working on a state that has passed: an       *)
(* engagement that the operator asked for before the calibration is over   *)
(* when the pod becomes ready, and none begins while it is driven.         *)
DrivesWithBrakesOff ==
  podState \in BrakesOff => \A b \in Sound : ~commanded[b] /\ ~engaged[b]

(* A pod that goes on braking has its brakes engaged in the end.           *)
Braking == {"kNominalBraking", "kFailureBraking"}

BrakesEngage ==
  (podState \in Braking)
    ~> ((\A b \in Sound : engaged[b]) \/ podState \notin Braking \/ ~running)

(* A brake that stays engaged while the pod is driven is noticed: the      *)
(* state machine gives up the run.                                         *)
DraggingBrakeIsNoticed ==
  (podState \in Moves /\ engaged["magnetic"])
    ~> (podState \notin Moves \/ ~engaged["magnetic"] \/ ~running)

(* What data.hpp says of brakes_retracted: "true if brakes retract".       *)
FlagMeansRetracted ==
  \A b \in Brk!Brake : brakesRetracted[b] => ~engaged[b]

(* What data.hpp says of kCriticalFailure, of the brakes: "state machine   *)
(* transitions to EmergencyBraking/FailureStopped".                        *)
CriticalBrakesEndTheRun ==
  (status["brakes"] = kCriticalFailure /\ current \in Watches)
    ~> (current \in Failures \/ ~running)

=============================================================================
