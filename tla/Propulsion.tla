----------------------------- MODULE Propulsion -----------------------------
(***************************************************************************)
(* The propulsion thread (src/src/propulsion/main.cpp) with its            *)
(* StateProcessor, over the controllers of module Controllers: what it     *)
(* asks of the motors in each state of the pod, and what becomes of the    *)
(* status of the motors on the blackboard, which Main, StateProcessor and  *)
(* every Controller write.                                                 *)
(***************************************************************************)
EXTENDS Controllers, PodCourse

VARIABLES
  podState,        \* Data: the state that the state machine published
  running,         \* System::running_
  ppc,             \* the thread: at which step of run() it is
  copy,            \* the thread: its copy of struct Motors
  transitionSeen   \* previous_state_ is no longer kInvalid

mainVars == <<ppc, copy, transitionSeen>>
pvars    == <<ctlrsVars, podState, running, mainVars>>

-----------------------------------------------------------------------------
(* Main::run() *)

Start ==
  /\ ppc = "start"
  /\ motors' = kInit
  /\ ppc' = "copy"
  /\ UNCHANGED <<ctl, initialised, registered, callVars, busVars, copy, transitionSeen>>

CopyMotors ==
  /\ ppc = "copy"
  /\ IF running
     THEN copy' = motors /\ ppc' = "switch"
     ELSE ppc' = "exited" /\ UNCHANGED copy
  /\ UNCHANGED <<ctlrsVars, transitionSeen>>

(* Fault: a pod that brakes after a failure also accelerates. *)
ThrustsInFailure == {"kAccelerating", "kFailureBraking"}

Thrusts == {"kAccelerating"}

(* Fault: nothing is done about a pod that brakes because of a failure. *)
StopsNominally == {"kCruising", "kPreBraking", "kNominalBraking"}

Stops == {"kCruising", "kPreBraking", "kNominalBraking", "kFailurePreBraking", "kFailureBraking"}

Ends == {"kFailureStopped", "kFinished"}

Waits == State \ ({"kCalibrating", "kReady"} \union Thrusts \union Stops \union Ends)

Calls(c, pc) == Invoke(c) /\ ppc' = pc

Goes(pc) == ppc' = pc /\ UNCHANGED ctlrsVars

(* Fault: the thread does not wait until the motors are initialised. *)
SwitchHastily ==
  /\ ppc = "switch"
  /\ \/ podState \in Waits /\ Goes("copy")
     \/ podState = "kCalibrating" /\ ~initialised /\ Calls("initialiseMotors", "copy")
     \/ podState \in Stops /\ Calls("quickStopAll", "commanding")
  /\ transitionSeen' = TRUE
  /\ UNCHANGED copy

(* The switch over the state.  A transition is seen by the first iteration *)
(* only: handleTransition() compares members that the loop does not set.   *)
Switch ==
  /\ ppc = "switch"
  /\ \/ podState \in Waits /\ Goes("copy")
     \/ podState = "kCalibrating" /\ initialised /\ Goes(IF copy = kReady THEN "copy" ELSE "publish")
     \/ podState = "kCalibrating" /\ ~initialised /\ Calls("initialiseMotors", "initialising")
     \/ podState = "kReady" /\ IF transitionSeen THEN Goes("copy")
                                                 ELSE Calls("prepareMotors", "commanding")
     \/ podState \in Thrusts /\ Calls("pollTemperatures", "measuring")
     \/ podState \in Stops /\ Calls("quickStopAll", "commanding")
     \/ podState \in Ends /\ Goes("fail")
  /\ transitionSeen' = TRUE
  /\ UNCHANGED copy

(* Fault: only the current counts. *)
OverLimitsCold(overCurrent) == overCurrent

(* isOverLimits(), whatever the batteries' current is. *)
OverLimits(overCurrent) == overCurrent \/ \E n \in Node : ctl[n].hot

(* Main goes on when a call of StateProcessor is through. *)
Resume(overCurrent) ==
  /\ ppc \notin {"start", "copy", "switch", "exited"}
  /\ Return
  /\ ppc' = CASE ppc = "initialising" -> IF initialised' THEN "copy" ELSE "fail"
              [] ppc = "measuring"    -> IF OverLimits(overCurrent) THEN "fail" ELSE "accelerate"
              [] ppc = "polling"      -> "writeBack"
              [] ppc = "averaging"    -> "command"
              [] ppc = "commanding"   -> "copy"
  /\ UNCHANGED <<copy, transitionSeen>>

(* accelerate(): the struct is copied, and written back after the poll. *)
Accelerate ==
  /\ ppc = "accelerate"
  /\ IF initialised
     THEN Calls("pollVelocities", "polling") /\ copy' = motors
     ELSE Goes("copy") /\ UNCHANGED copy
  /\ UNCHANGED transitionSeen

(* Every 5 ms the velocities are regulated. *)
WriteBack ==
  /\ ppc = "writeBack"
  /\ motors' = copy
  /\ ppc' \in {"copy", "regulate"}
  /\ UNCHANGED <<ctl, initialised, registered, callVars, busVars, copy, transitionSeen>>

Regulate ==
  /\ \/ ppc = "regulate" /\ Calls("pollVelocities", "averaging")
     \/ ppc = "command" /\ Calls("setVelocities", "commanding")
  /\ UNCHANGED <<copy, transitionSeen>>

PublishReady ==
  /\ ppc = "publish"
  /\ motors' = kReady
  /\ ppc' = "copy"
  /\ UNCHANGED <<ctl, initialised, registered, callVars, busVars, copy, transitionSeen>>

handleCriticalFailure ==
  /\ ppc = "fail"
  /\ motors' = kCriticalFailure
  /\ ppc' = "exited"
  /\ UNCHANGED <<ctl, initialised, registered, callVars, busVars, copy, transitionSeen>>

MainStep ==
  \/ Start \/ CopyMotors \/ Switch \/ Accelerate \/ WriteBack \/ Regulate
  \/ PublishReady \/ handleCriticalFailure
  \/ \E overCurrent \in BOOLEAN : Resume(overCurrent)

PropulsionThread == (MainStep \/ (CallerStep /\ UNCHANGED mainVars)) /\ UNCHANGED <<podState, running>>

CanThread == CanStep /\ UNCHANGED <<podState, running, mainVars>>

Drives == DriveStep /\ UNCHANGED <<podState, running, mainVars>>

-----------------------------------------------------------------------------
(* The rest of the pod: the state machine goes on when the motors let it,  *)
(* or gives up because of them or of another module.                       *)

MotorsAllow(s) ==
  /\ motors # kCriticalFailure
  /\ s = "kIdle" => motors >= kInit
  /\ s = "kCalibrating" => motors = kReady

Transition ==
  /\ \E t \in State : /\ \/ GoesOn(podState, t) /\ MotorsAllow(podState)
                         \/ GivesUp(podState, t)
                      /\ podState' = t
  /\ UNCHANGED <<ctlrsVars, running, mainVars>>

(* The system is stopped, which counts as a fault for MaxFaults.           *)
StopSystem ==
  /\ running
  /\ faults < MaxFaults
  /\ faults' = faults + 1
  /\ running' = FALSE
  /\ UNCHANGED <<motors, ctl, initialised, registered, callVars, frame, requests, replies, drive>>
  /\ UNCHANGED <<podState, mainVars>>

-----------------------------------------------------------------------------
Init ==
  /\ CtlInit
  /\ podState = "kIdle" /\ running = TRUE
  /\ ppc = "start" /\ copy = motors /\ transitionSeen = FALSE

Next == PropulsionThread \/ CanThread \/ Drives \/ Transition \/ StopSystem

Spec == Init /\ [][Next]_pvars

(* The two threads are scheduled, and drives that work answer.             *)
FairSpec == /\ Spec
            /\ WF_pvars(PropulsionThread)
            /\ WF_pvars(CanThread)
            /\ WF_pvars(Answer /\ UNCHANGED <<podState, running, mainVars>>)

-----------------------------------------------------------------------------
(* What is claimed. *)

(* The type invariant of the thread, and of what it shares with its        *)
(* controllers; a call is under way only while run() waits for it.         *)
TypeOK ==
  /\ CtlTypeOK
  /\ podState \in State
  /\ running \in BOOLEAN
  /\ ppc \in {"start", "copy", "switch", "initialising", "measuring", "polling", "averaging",
              "commanding", "accelerate", "writeBack", "regulate", "command", "publish",
              "fail", "exited"}
  /\ copy \in ModuleStatus
  /\ transitionSeen \in BOOLEAN
  /\ call # "none" => ppc \in {"initialising", "measuring", "polling", "averaging", "commanding"}

(* A pod that accelerates has motors that are configured completely, or    *)
(* known to have failed, although kReady is published over whatever status *)
(* the controllers gave (main.cpp:54-64).                                  *)
AcceleratesConfigured ==
  podState = "kAccelerating" /\ BusQuiet =>
    \A n \in Node : ctl[n].failed \/ drive[n].booted \/ drive[n].configured = 1..Configuration

(* Once a drive has been stopped it is never driven again: no velocity     *)
(* that was decided on while the pod accelerated overtakes the stop.       *)
StopIsFinal ==
  [][ \A n \in Node : drive[n].stopped /\ ~drive[n].booted => drive'[n].stopped \/ drive'[n].booted ]_pvars

(* A pod that brakes has all its drives stopped, also if one of them is    *)
(* silent or a message is lost; unless the thread has ended already.       *)
DrivesAreStopped ==
  (podState \in Braking) ~>
    ((\A n \in Node : drive[n].stopped \/ drive[n].silent)
     \/ podState \notin Braking \/ ~running \/ ppc = "exited")

(* A drive that is silent or too hot while the pod accelerates ends up in  *)
(* the status of the motors, although accelerate() writes older copies     *)
(* over it (state_processor.cpp:82-87).                                    *)
UnfitDriveIsPublished ==
  \A n \in Node :
    (podState = "kAccelerating" /\ (drive[n].silent \/ drive[n].hot)) ~>
      (motors = kCriticalFailure \/ podState # "kAccelerating" \/ ~running)

-----------------------------------------------------------------------------
(* What a comment of the code claims, and it does not do. *)

(* "Stops all motors" (state_processor.hpp, of quickStopAll(), which the   *)
(* thread calls in every state that brakes): a pod that brakes has its     *)
(* drives stopped.                                                         *)
BrakingStopsDrives ==
  (podState \in Braking) ~>
    ((\A n \in Node : drive[n].stopped \/ drive[n].silent) \/ podState \notin Braking \/ ~running)

(* "set critical failure flag to true and write failure to data structure" *)
(* (controller.hpp:163): a controller that failed is on the blackboard.    *)
FailedIsPublished == (\E n \in Node : ctl[n].failed) => motors = kCriticalFailure

(* "Returns true if the pod state has changed since the last check"        *)
(* (main.hpp:31, of handleTransition()): a pod that becomes ready, and     *)
(* stays so, has its motors prepared.                                      *)
ReadyPrepares ==
  (podState = "kReady") ~>
    (call = "prepareMotors" \/ podState # "kReady" \/ ~running \/ ppc = "exited")

=============================================================================
