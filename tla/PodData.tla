------------------------------ MODULE PodData ------------------------------
(***************************************************************************)
(* The vocabulary of the blackboard data::Data (src/src/data/data.hpp):    *)
(* the enumerations and numbers that every thread of the pod shares.  The  *)
(* blackboard is a singleton with one lock per struct; a getter copies a   *)
(* whole struct and a setter overwrites a whole struct, so one step of a   *)
(* thread reads or writes exactly one struct.                              *)
(***************************************************************************)
EXTENDS Integers

(***************************************************************************)
(* enum class ModuleStatus, in its order: the comparison "< kInit" of the  *)
(* state machine relies on kCriticalFailure and kStart coming first.       *)
(***************************************************************************)
kCriticalFailure == 0
kStart           == 1
kInit            == 2
kReady           == 3

ModuleStatus == {kCriticalFailure, kStart, kInit, kReady}

(* The six structs of Data that derive from data::Module. *)
Module == {"brakes", "navigation", "batteries", "telemetry", "sensors", "motors"}

(* The flags of struct Telemetry that the state machine looks at. *)
Command == {"calibrate", "launch", "shutdown", "emergency_stop"}

(***************************************************************************)
(* enum class State.  kInvalid is never published, and "Off" is a state of *)
(* the state machine that has no enumerator: entering it publishes nothing.*)
(***************************************************************************)
State == {"kIdle", "kPreCalibrating", "kCalibrating", "kPreReady", "kReady",
          "kAccelerating", "kCruising", "kPreBraking", "kNominalBraking",
          "kFinished", "kFailurePreBraking", "kFailureBraking", "kFailureStopped"}

(***************************************************************************)
(* struct Navigation: metres and metres per second, as integers.           *)
(***************************************************************************)
kMaximumVelocity == 100
kRunLength       == 1250
kBrakingBuffer   == 20

Kinematics == [velocity : Int, displacement : Int, braking_distance : Int]

(* What the constructor of Navigation publishes before any thread starts. *)
AtRest == [velocity |-> 0, displacement |-> 0, braking_distance |-> 0]
=============================================================================
