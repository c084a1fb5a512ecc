---------------------------- MODULE StateMachine ----------------------------
(***************************************************************************)
(* The state-machine thread (src/src/state_machine): it polls the          *)
(* blackboard, one struct at a time and without a common lock, decides on  *)
(* the copies it made, and publishes the state the pod is in.              *)
(*                                                                         *)
(* The other threads are an open environment here: what each of them may   *)
(* publish is read off its code, when it does so is left free.             *)
(***************************************************************************)
EXTENDS PodData

CONSTANTS
  NavSamples,   \* the kinematics that the navigation thread may publish
  Commands,     \* the commands that the operator may send
  MaxFaults,    \* bound on how often modules report a critical failure
  GpioRuns      \* whether a GpioManager thread switches the high power;
                \* the program as it is never starts one

ASSUME NavSamplesAssumption == NavSamples \subseteq Kinematics
ASSUME CommandsAssumption   == Commands \subseteq Command
ASSUME MaxFaultsAssumption  == MaxFaults \in Nat
ASSUME GpioRunsAssumption   == GpioRuns \in BOOLEAN

VARIABLES
  status,        \* Data: the module_status of each struct
  command,       \* Data: the command flags of struct Telemetry
  nav,           \* Data: the kinematics of struct Navigation
  highPowerOff,  \* Data: the flag high_power_off of struct Sensors
  podState,      \* Data: StateMachine.current_state
  running,       \* System::running_
  pc,            \* the thread: at which step of run() it is
  current,       \* the thread: current_state_, the object it is in
  seen,          \* the thread: the copies that updateModuleData() made
  faults         \* how many failures were reported so far, for MaxFaults

data   == <<status, command, nav, highPowerOff>>
thread == <<pc, current, seen, podState, running>>
vars   == <<data, thread, faults>>

-----------------------------------------------------------------------------
(* What a thread that looks at the blackboard can see of it. *)

View == [status         : [Module -> ModuleStatus],
         command        : [Command -> BOOLEAN],
         nav            : Kinematics,
         high_power_off : BOOLEAN]

Blackboard == [status |-> status, command |-> command,
               nav |-> nav, high_power_off |-> highPowerOff]

(* Copies are overwritten before they are used again: between two passes   *)
(* their content does not matter, and is forgotten.                        *)
NothingSeen == [status         |-> [m \in Module |-> kStart],
                command        |-> [c \in Command |-> FALSE],
                nav            |-> AtRest,
                high_power_off |-> FALSE]

-----------------------------------------------------------------------------
(* transitions.cpp: predicates on the copies *)

(* Faults: a struct is left out; a module that is not initialised yet is   *)
(* taken for one that failed.                                              *)
checkEmergencyWithoutBatteries(v) ==
  \/ v.command["emergency_stop"]
  \/ \E m \in Module \ {"batteries"} : v.status[m] = kCriticalFailure

checkEmergencyBeforeInit(v) ==
  \/ v.command["emergency_stop"]
  \/ \E m \in Module : v.status[m] < kInit

checkEmergency(v) ==
  \/ v.command["emergency_stop"]
  \/ \E m \in Module : v.status[m] = kCriticalFailure

checkModulesInitialised(v) == \A m \in Module : v.status[m] >= kInit

checkModulesReady(v) == \A m \in Module : v.status[m] = kReady

(* Fault: the edge of the braking zone is not part of it.                  *)
checkEnteredBrakingZoneLate(v) ==
  kRunLength - v.nav.displacement < v.nav.braking_distance + kBrakingBuffer

checkEnteredBrakingZone(v) ==
  kRunLength - v.nav.displacement <= v.nav.braking_distance + kBrakingBuffer

checkReachedMaxVelocity(v) == v.nav.velocity >= kMaximumVelocity

checkPodStopped(v) == v.nav.velocity <= 0

-----------------------------------------------------------------------------
(* The order of updateModuleData(); some states copy only one struct. *)

NextRead == [brakes    |-> "navigation", navigation |-> "batteries",
             batteries |-> "telemetry",  telemetry  |-> "sensors",
             sensors   |-> "motors",     motors     |-> "decide"]

StoppedStates == {"kFinished", "kFailureStopped"}

ReadsOneStruct == StoppedStates \union {"kFailureBraking"}

FirstRead(st) == IF st \in StoppedStates THEN "telemetry"
                 ELSE IF st = "kFailureBraking" THEN "navigation"
                 ELSE "brakes"

(* Main::run() enters Idle before its loop. *)
Start ==
  /\ pc = "start"
  /\ podState' = current
  /\ pc' = "loop"
  /\ UNCHANGED <<data, running, current, seen, faults>>

(* The loop condition holds: checkTransition() of the current state begins. *)
BeginPass ==
  /\ pc = "loop"
  /\ running
  /\ pc' = FirstRead(current)
  /\ UNCHANGED <<data, running, podState, current, seen, faults>>

(* One getter of updateModuleData(): it copies the struct of module m. *)
Read(m) ==
  /\ pc = m
  /\ seen' = [seen EXCEPT
       !.status[m]      = status[m],
       !.command        = IF m = "telemetry"  THEN command ELSE @,
       !.nav            = IF m = "navigation" THEN nav ELSE @,
       !.high_power_off = IF m = "sensors"    THEN highPowerOff ELSE @]
  /\ pc' = IF current \in ReadsOneStruct THEN "decide" ELSE NextRead[m]
  /\ UNCHANGED <<data, running, podState, current, faults>>

(* The system is no longer running: the thread leaves its loop. *)
Exit ==
  /\ pc = "loop"
  /\ ~running
  /\ pc' = "exited"
  /\ UNCHANGED <<data, running, podState, current, seen, faults>>

-----------------------------------------------------------------------------
(***************************************************************************)
(* The decisions.  exit() only logs; enter() publishes the new state,      *)
(* except for Off, which stops the system and publishes nothing.  Between  *)
(* the last getter and enter() the thread touches nothing shared, so the   *)
(* decision and its publication are one step.                              *)
(***************************************************************************)
(* Faults: Off is published like the other states; a failure state is not  *)
(* published; Off does not stop the system.                                *)
EnterPublishingOff(st) ==
  /\ current' = st
  /\ podState' = st
  /\ running' = IF st = "Off" THEN FALSE ELSE running

EnterFailureUnpublished(st) ==
  /\ current' = st
  /\ podState' = IF st \in {"Off", "kFailurePreBraking"} THEN podState ELSE st
  /\ running' = IF st = "Off" THEN FALSE ELSE running

EnterWithoutStopping(st) ==
  /\ current' = st
  /\ podState' = IF st = "Off" THEN podState ELSE st
  /\ UNCHANGED running

Enter(st) ==
  /\ current' = st
  /\ podState' = IF st = "Off" THEN podState ELSE st
  /\ running' = IF st = "Off" THEN FALSE ELSE running

EndPass == pc' = "loop" /\ seen' = NothingSeen /\ UNCHANGED <<data, faults>>

Stay == UNCHANGED <<current, podState, running>>

(* In state st: leave for failed on an emergency, else for next if go.     *)
Decide(st, emergency, failed, go, next) ==
  /\ pc = "decide"
  /\ current = st
  /\ EndPass
  /\ \/ emergency /\ Enter(failed)
     \/ ~emergency /\ go /\ Enter(next)
     \/ ~emergency /\ ~go /\ Stay

CheckIdle ==
  Decide("kIdle", checkEmergency(seen), "kFailureStopped",
         checkModulesInitialised(seen), "kPreCalibrating")

CheckPreCalibrating ==
  Decide("kPreCalibrating", checkEmergency(seen), "kFailureStopped",
         seen.command["calibrate"], "kCalibrating")

CheckCalibrating ==
  Decide("kCalibrating", checkEmergency(seen), "kFailureStopped",
         checkModulesReady(seen), "kPreReady")

CheckPreReady ==
  Decide("kPreReady", checkEmergency(seen), "kFailureStopped",
         ~seen.high_power_off, "kReady")

CheckReady ==
  Decide("kReady", checkEmergency(seen), "kFailureStopped",
         seen.command["launch"], "kAccelerating")

CheckAccelerating ==
  Decide("kAccelerating", checkEmergency(seen), "kFailurePreBraking",
         checkEnteredBrakingZone(seen) \/ checkReachedMaxVelocity(seen),
         IF checkEnteredBrakingZone(seen) THEN "kPreBraking" ELSE "kCruising")

CheckCruising ==
  Decide("kCruising", checkEmergency(seen), "kFailurePreBraking",
         checkEnteredBrakingZone(seen), "kPreBraking")

(* Fault: no emergency is looked for before braking.                       *)
CheckPreBrakingBlindly ==
  Decide("kPreBraking", FALSE, "kFailurePreBraking",
         seen.high_power_off, "kNominalBraking")

CheckPreBraking ==
  Decide("kPreBraking", checkEmergency(seen), "kFailurePreBraking",
         seen.high_power_off, "kNominalBraking")

CheckNominalBraking ==
  Decide("kNominalBraking", checkEmergency(seen), "kFailureBraking",
         checkPodStopped(seen), "kFinished")

CheckFinished ==
  Decide("kFinished", FALSE, "kFinished", seen.command["shutdown"], "Off")

(* Fault: the run becomes nominal again when the high power is off.        *)
CheckFailurePreBrakingAsNominal ==
  Decide("kFailurePreBraking", FALSE, "kFailurePreBraking",
         seen.high_power_off, "kNominalBraking")

CheckFailurePreBraking ==
  Decide("kFailurePreBraking", FALSE, "kFailurePreBraking",
         seen.high_power_off, "kFailureBraking")

CheckFailureBraking ==
  Decide("kFailureBraking", FALSE, "kFailureBraking",
         checkPodStopped(seen), "kFailureStopped")

CheckFailureStopped ==
  Decide("kFailureStopped", FALSE, "kFailureStopped",
         seen.command["shutdown"], "Off")

checkTransition ==
  \/ CheckIdle \/ CheckPreCalibrating \/ CheckCalibrating \/ CheckPreReady
  \/ CheckReady \/ CheckAccelerating \/ CheckCruising \/ CheckPreBraking
  \/ CheckNominalBraking \/ CheckFinished \/ CheckFailurePreBraking
  \/ CheckFailureBraking \/ CheckFailureStopped

StateMachineStep ==
  \/ Start
  \/ BeginPass
  \/ \E m \in Module : Read(m)
  \/ checkTransition
  \/ Exit

-----------------------------------------------------------------------------
(* The environment: what the other threads write on the blackboard. *)

(***************************************************************************)
(* The statuses a module's code publishes after its construction: the      *)
(* constructor of Sensors has published kReady before any thread starts,   *)
(* those of Navigation and of BmsManager kInit.                            *)
(***************************************************************************)
PublishedBy ==
  [brakes    |-> {kInit, kReady}, navigation |-> {kInit, kReady},
   batteries |-> {kReady},        telemetry  |-> {kReady},
   sensors   |-> {kReady},        motors     |-> {kInit, kReady}]

(* These become ready only by acting on a published kCalibrating. *)
ReadyByCalibration == {"brakes", "navigation", "motors"}

Report(m) ==
  /\ \E s \in PublishedBy[m] :
       /\ s > status[m]
       /\ s = kReady /\ m \in ReadyByCalibration
            => podState \notin {"kIdle", "kPreCalibrating"}
       /\ status' = [status EXCEPT ![m] = s]
  /\ UNCHANGED <<command, nav, highPowerOff, thread, faults>>

(* The sender of the telemetry module reports its failure in a copy of the *)
(* struct that it made before it tried to send: flags that the receiver    *)
(* set in the meantime are lost.                                           *)
OlderCommands ==
  {older \in [Command -> BOOLEAN] : \A c \in Command : older[c] => command[c]}

Fail(m) ==
  /\ faults < MaxFaults
  /\ status[m] # kCriticalFailure
  /\ status' = [status EXCEPT ![m] = kCriticalFailure]
  /\ IF m = "telemetry" THEN command' \in OlderCommands ELSE UNCHANGED command
  /\ faults' = faults + 1
  /\ UNCHANGED <<nav, highPowerOff, thread>>

(* The receiver of the telemetry module sets a flag and never clears one.  *)
Receive(c) ==
  /\ ~command[c]
  /\ command' = [command EXCEPT ![c] = TRUE]
  /\ UNCHANGED <<status, nav, highPowerOff, thread, faults>>

(* The navigation thread publishes an estimate; it navigates from the      *)
(* first kAccelerating it sees on, and before that reports AtRest.         *)
Navigate(k) ==
  /\ podState \in {"kAccelerating", "kCruising", "kPreBraking", "kNominalBraking",
                   "kFailurePreBraking", "kFailureBraking"}
  /\ nav' = k
  /\ UNCHANGED <<status, command, highPowerOff, thread, faults>>

(* clearHighPower() and setHighPower() of GpioManager. *)
SwitchHighPower ==
  /\ GpioRuns
  /\ highPowerOff' = ~highPowerOff
  /\ UNCHANGED <<status, command, nav, thread, faults>>

(* A constructor that failed, the CAN driver or a signal stops the system. *)
StopSystem ==
  /\ running
  /\ running' = FALSE
  /\ UNCHANGED <<data, pc, current, seen, podState, faults>>

Environment ==
  \/ \E m \in Module : Report(m) \/ Fail(m)
  \/ \E c \in Commands : Receive(c)
  \/ \E k \in NavSamples : Navigate(k)
  \/ SwitchHighPower
  \/ StopSystem

-----------------------------------------------------------------------------
Init ==
  /\ status = [brakes    |-> kStart, navigation |-> kInit,
               batteries |-> kInit,  telemetry  |-> kStart,
               sensors   |-> kReady, motors     |-> kStart]
  /\ command = [c \in Command |-> FALSE]
  /\ nav = AtRest
  /\ highPowerOff = FALSE
  /\ podState = "kIdle"
  /\ running = TRUE
  /\ pc = "start"
  /\ current = "kIdle"
  /\ seen = NothingSeen
  /\ faults = 0

Next == StateMachineStep \/ Environment

Spec == Init /\ [][Next]_vars

(***************************************************************************)
(* The loop of run() never blocks: the thread only takes uncontended locks *)
(* and yields, so the scheduler lets it take its next step eventually.     *)
(***************************************************************************)
Fairness == WF_vars(StateMachineStep)

FairSpec == Spec /\ Fairness

-----------------------------------------------------------------------------
(* What is claimed of the thread. *)

(* The type invariant: every variable holds a value the code can store.    *)
TypeOK ==
  /\ Blackboard \in View
  /\ seen \in View
  /\ podState \in State
  /\ current \in State \union {"Off"}
  /\ running \in BOOLEAN
  /\ pc \in Module \union {"start", "loop", "decide", "exited"}
  /\ faults \in 0..MaxFaults

(* The reasons for an emergency: a module by its status, or the operator. *)
Cause == Module \union {"operator"}

Causes(v) == {c \in Cause : IF c = "operator" THEN v.command["emergency_stop"]
                                              ELSE v.status[c] = kCriticalFailure}

(***************************************************************************)
(* The states whose checkTransition() asks for an emergency, and those     *)
(* that a failure leads to.                                                *)
(***************************************************************************)
Prepares == {"kIdle", "kPreCalibrating", "kCalibrating", "kPreReady", "kReady"}
Moves    == {"kAccelerating", "kCruising"}
Watches  == Prepares \union Moves \union {"kPreBraking", "kNominalBraking"}
Failures == {"kFailurePreBraking", "kFailureBraking", "kFailureStopped"}

(* What the other threads are told is the state the machine is in, except  *)
(* that Off is not published: they keep seeing the stopped state it was    *)
(* entered from, and the system is then stopped (enter() of each state).   *)
PublishedState ==
  \/ current = podState
  \/ current = "Off" /\ podState \in StoppedStates /\ ~running

(* The phases of PodLifecycle as the states of the code. *)
PhaseOf(st) ==
  CASE st \in Prepares                    -> "preparing"
    [] st \in Moves                       -> "moving"
    [] st \in {"kPreBraking", "kNominalBraking", "kFailurePreBraking",
               "kFailureBraking"}         -> "braking"
    [] st \in StoppedStates               -> "stopped"
    [] OTHER                              -> "off"

OutcomeOf(st) == IF st \in Failures THEN "failure" ELSE "nominal"

Lifecycle == INSTANCE PodLifecycle WITH
               phase   <- PhaseOf(current),
               outcome <- OutcomeOf(podState)

(* The thread implements the life cycle that PodLifecycle states.          *)
ImplementsLifecycle == Lifecycle!Spec

-----------------------------------------------------------------------------
(* Liveness, under the fairness of the thread. *)

(* A cause of emergency that stays on the blackboard makes the machine     *)
(* leave every state in which it watches for one, if it keeps running.     *)
EmergencyIsHandled ==
  \A c \in Cause :
    (c \in Causes(Blackboard) /\ current \in Watches)
      ~> (c \notin Causes(Blackboard) \/ current \notin Watches \/ ~running)

(* What is left of the track is what it takes to stop, and the buffer. *)
MustBrake == nav.displacement + nav.braking_distance + kBrakingBuffer >= kRunLength

(* A pod that is reported to need the rest of the track for braking, and   *)
(* goes on to be, does not keep accelerating or cruising (checkTransition  *)
(* of Accelerating and of Cruising).                                       *)
BrakesInTime ==
  (current \in Moves /\ MustBrake) ~> (current \notin Moves \/ ~MustBrake \/ ~running)

(* A shut down that was commanded is carried out once the pod stands, and  *)
(* the thread then ends, so that main() can join it; unless the command is *)
(* lost in a failure of the telemetry.                                     *)
ShutsDown ==
  (current \in StoppedStates /\ command["shutdown"])
    ~> (pc = "exited" \/ ~command["shutdown"])

-----------------------------------------------------------------------------
(* What the comments of the code claim of the thread, and it does not do. *)

(* "Returns true iff the command has been received and all modules are     *)
(* initialised" (transitions.hpp, of checkModulesInitialised): Idle is     *)
(* left for PreCalibrating only when the command to calibrate was seen.    *)
LeavesIdle == current = "kIdle" /\ current' = "kPreCalibrating"

InitialisedMeansCommanded == [][LeavesIdle => seen.command["calibrate"]]_vars

(* "Sub-state between Accelerating/Cruising and Nominal Braking"           *)
(* (state.hpp, of PreBraking): the machine gets through it.                *)
PreBrakingIsPassed ==
  (current = "kPreBraking") ~> (current # "kPreBraking" \/ ~running)

=============================================================================
