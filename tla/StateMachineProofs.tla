------------------------- MODULE StateMachineProofs -------------------------
(***************************************************************************)
(* Proofs about the state machine, for every set of kinematics, every set  *)
(* of commands and every number of failures.                               *)
(***************************************************************************)
EXTENDS StateMachine, TLAPS

USE DEF kCriticalFailure, kStart, kInit, kReady, ModuleStatus

(***************************************************************************)
(* Start publishes the object the thread holds: it is still Idle.  What    *)
(* the type invariant needs to be inductive.                               *)
(***************************************************************************)
StartsIdle == pc = "start" => current = "kIdle"

(* Outside a pass nothing is kept of the copies.                           *)
CopiesForgotten == pc \in {"start", "loop", "exited"} => seen = NothingSeen

IInv == TypeOK /\ StartsIdle /\ PublishedState /\ CopiesForgotten

-----------------------------------------------------------------------------
(* What the parts of a step do, stated once. *)

(* The copies start out as a view of a blackboard on which nothing is wrong. *)
LEMMA NothingSeenIsView ==
  NothingSeen \in View /\ Causes(NothingSeen) = {}
  BY DEF NothingSeen, View, Kinematics, AtRest, Causes, Module, Command, Cause

(* The struct that a pass reads next exists, or the pass is at its end.    *)
LEMMA NextReadType ==
  ASSUME NEW m \in Module
  PROVE  NextRead[m] \in Module \union {"decide"}
  BY DEF NextRead, Module

LEMMA FirstReadType ==
  ASSUME NEW st
  PROVE  FirstRead(st) \in Module
  BY DEF FirstRead, Module

(* One getter copies one struct: what was a view stays a view.             *)
LEMMA ReadType ==
  ASSUME TypeOK, NEW m \in Module, Read(m)
  PROVE  TypeOK'
<1>1. seen' \in View
  BY DEF Read, TypeOK, View, Blackboard
<1>2. pc' \in Module \union {"decide"}
  BY NextReadType DEF Read
<1>3. QED
  BY <1>1, <1>2 DEF Read, TypeOK, Blackboard, data

(* A decision keeps IInv if it enters enumerated states, and Off only from *)
(* a stopped one.                                                          *)
LEMMA DecideInv ==
  ASSUME IInv,
         NEW st \in State, NEW failed \in State, NEW next \in State \union {"Off"},
         NEW emergency, NEW go,
         next = "Off" => st \in StoppedStates,
         Decide(st, emergency, failed, go, next)
  PROVE  IInv'
<1> USE DEF Decide, EndPass
<1>1. "Off" \notin State
  BY DEF State
<1>2. current = st /\ podState = st /\ pc' = "loop" /\ seen' = NothingSeen
  BY <1>1 DEF IInv, PublishedState
<1>3. UNCHANGED <<data, faults>> /\ Blackboard' = Blackboard
  BY DEF data, Blackboard
<1>4. \/ Enter(failed)
      \/ Enter(next)
      \/ Stay
  OBVIOUS
<1>5. /\ podState' \in State
      /\ current' \in State \union {"Off"}
      /\ running' \in BOOLEAN
      /\ PublishedState'
  BY <1>1, <1>2, <1>4 DEF Enter, Stay, IInv, TypeOK, PublishedState
<1>6. QED
  BY <1>2, <1>3, <1>5, NothingSeenIsView DEF IInv, TypeOK, StartsIdle, CopiesForgotten

(* The thirteen decisions are decisions in that sense.                     *)
LEMMA CheckTransitionInv ==
  ASSUME IInv, checkTransition
  PROVE  IInv'
<1> USE DEF State, StoppedStates
<1>1. CASE CheckIdle
  BY <1>1, DecideInv DEF CheckIdle
<1>2. CASE CheckPreCalibrating
  BY <1>2, DecideInv DEF CheckPreCalibrating
<1>3. CASE CheckCalibrating
  BY <1>3, DecideInv DEF CheckCalibrating
<1>4. CASE CheckPreReady
  BY <1>4, DecideInv DEF CheckPreReady
<1>5. CASE CheckReady
  BY <1>5, DecideInv DEF CheckReady
<1>6. CASE CheckAccelerating
  <2> DEFINE next == IF checkEnteredBrakingZone(seen) THEN "kPreBraking" ELSE "kCruising"
  <2>1. next \in State /\ next # "Off"
    OBVIOUS
  <2> HIDE DEF next
  <2>2. Decide("kAccelerating", checkEmergency(seen), "kFailurePreBraking",
               checkEnteredBrakingZone(seen) \/ checkReachedMaxVelocity(seen), next)
    BY <1>6 DEF CheckAccelerating, next
  <2>3. QED
    BY <2>1, <2>2, DecideInv
<1>7. CASE CheckCruising
  BY <1>7, DecideInv DEF CheckCruising
<1>8. CASE CheckPreBraking
  BY <1>8, DecideInv DEF CheckPreBraking
<1>9. CASE CheckNominalBraking
  BY <1>9, DecideInv DEF CheckNominalBraking
<1>10. CASE CheckFinished
  BY <1>10, DecideInv DEF CheckFinished
<1>11. CASE CheckFailurePreBraking
  BY <1>11, DecideInv DEF CheckFailurePreBraking
<1>12. CASE CheckFailureBraking
  BY <1>12, DecideInv DEF CheckFailureBraking
<1>13. CASE CheckFailureStopped
  BY <1>13, DecideInv DEF CheckFailureStopped
<1>14. QED
  BY <1>1, <1>2, <1>3, <1>4, <1>5, <1>6, <1>7, <1>8, <1>9, <1>10, <1>11, <1>12, <1>13
     DEF checkTransition

(* The environment writes values of the right kind, and nothing of the     *)
(* thread's but the flag that the system runs.                             *)
LEMMA EnvironmentInv ==
  ASSUME IInv, Environment
  PROVE  IInv'
<1> USE DEF IInv, TypeOK, View, Blackboard, StartsIdle, PublishedState,
            CopiesForgotten, data, thread
<1>1. CASE \E m \in Module : Report(m)
  BY <1>1 DEF Report, PublishedBy, Module
<1>2. CASE \E m \in Module : Fail(m)
  <2>1. OlderCommands \subseteq [Command -> BOOLEAN]
    BY DEF OlderCommands
  <2>2. command' \in [Command -> BOOLEAN] /\ faults' \in 0..MaxFaults
    BY <1>2, <2>1, MaxFaultsAssumption DEF Fail
  <2>3. QED
    BY <1>2, <2>2 DEF Fail
<1>3. CASE \E c \in Commands : Receive(c)
  BY <1>3, CommandsAssumption DEF Receive
<1>4. CASE \E k \in NavSamples : Navigate(k)
  BY <1>4, NavSamplesAssumption DEF Navigate
<1>5. CASE SwitchHighPower
  BY <1>5 DEF SwitchHighPower
<1>6. CASE StopSystem
  BY <1>6 DEF StopSystem
<1>7. QED
  BY <1>1, <1>2, <1>3, <1>4, <1>5, <1>6 DEF Environment

-----------------------------------------------------------------------------
(* The invariant and what follows from it. *)

LEMMA InitIInv == Init => IInv
<1> SUFFICES ASSUME Init PROVE IInv
  OBVIOUS
<1> USE DEF Init
<1>1. status \in [Module -> ModuleStatus]
  BY DEF Module
<1>2. command \in [Command -> BOOLEAN] /\ nav \in Kinematics
  BY DEF AtRest, Kinematics
<1>3. Blackboard \in View
  BY <1>1, <1>2 DEF Blackboard, View
<1>4. QED
  BY <1>3, NothingSeenIsView, MaxFaultsAssumption
     DEF IInv, TypeOK, StartsIdle, PublishedState, CopiesForgotten, State

LEMMA StepIInv == IInv /\ [Next]_vars => IInv'
<1> SUFFICES ASSUME IInv, [Next]_vars PROVE IInv'
  OBVIOUS
<1> USE DEF IInv
<1>1. CASE Start
  BY <1>1 DEF Start, TypeOK, StartsIdle, PublishedState, CopiesForgotten, Blackboard, data, State
<1>2. CASE BeginPass
  BY <1>2, FirstReadType
     DEF BeginPass, TypeOK, StartsIdle, PublishedState, CopiesForgotten, Blackboard, data, Module
<1>3. CASE \E m \in Module : Read(m)
  <2> PICK m \in Module : Read(m)
    BY <1>3
  <2>1. TypeOK'
    BY ReadType
  <2>2. pc' \in Module \union {"decide"}
    BY NextReadType DEF Read
  <2>3. StartsIdle' /\ CopiesForgotten'
    BY <2>2 DEF StartsIdle, CopiesForgotten, Module
  <2>4. PublishedState'
    BY DEF Read, PublishedState
  <2>5. QED
    BY <2>1, <2>3, <2>4
<1>4. CASE checkTransition
  BY <1>4, CheckTransitionInv
<1>5. CASE Exit
  BY <1>5 DEF Exit, TypeOK, StartsIdle, PublishedState, CopiesForgotten, Blackboard, data
<1>6. CASE Environment
  BY <1>6, EnvironmentInv
<1>7. CASE UNCHANGED vars
  BY <1>7 DEF vars, data, thread, TypeOK, StartsIdle, PublishedState, CopiesForgotten, Blackboard
<1>8. QED
  BY <1>1, <1>2, <1>3, <1>4, <1>5, <1>6, <1>7 DEF Next, StateMachineStep

LEMMA InvariantHolds == Spec => []IInv
  BY InitIInv, StepIInv, PTL DEF Spec

(* Every variable of the state machine holds a value that the code can     *)
(* store in it.                                                            *)
THEOREM TypeCorrect == Spec => []TypeOK
<1>1. IInv => TypeOK
  BY DEF IInv
<1>2. QED
  BY <1>1, InvariantHolds, PTL

(* The other threads see the state the machine is in, or, once it is off,  *)
(* the stopped state that it was switched off in.                          *)
THEOREM PublishedStateCorrect == Spec => []PublishedState
<1>1. IInv => PublishedState
  BY DEF IInv
<1>2. QED
  BY <1>1, InvariantHolds, PTL

-----------------------------------------------------------------------------
(* The life cycle. *)

(* How a decision moves the machine: it stays, or it goes to one of two.   *)
LEMMA DecideMoves ==
  ASSUME IInv, NEW st \in State, NEW failed, NEW next, NEW emergency, NEW go,
         Decide(st, emergency, failed, go, next)
  PROVE  /\ current = st
         /\ podState = st
         /\ \/ UNCHANGED <<current, podState>>
            \/ Enter(failed)
            \/ Enter(next)
<1>1. "Off" \notin State
  BY DEF State
<1>2. QED
  BY <1>1 DEF Decide, Stay, IInv, PublishedState

(* The phase and the failure that two consecutive states stand for. *)
LEMMA Phases ==
  /\ PhaseOf("kIdle") = "preparing"            /\ OutcomeOf("kIdle") = "nominal"
  /\ PhaseOf("kPreCalibrating") = "preparing"  /\ OutcomeOf("kPreCalibrating") = "nominal"
  /\ PhaseOf("kCalibrating") = "preparing"     /\ OutcomeOf("kCalibrating") = "nominal"
  /\ PhaseOf("kPreReady") = "preparing"        /\ OutcomeOf("kPreReady") = "nominal"
  /\ PhaseOf("kReady") = "preparing"           /\ OutcomeOf("kReady") = "nominal"
  /\ PhaseOf("kAccelerating") = "moving"       /\ OutcomeOf("kAccelerating") = "nominal"
  /\ PhaseOf("kCruising") = "moving"           /\ OutcomeOf("kCruising") = "nominal"
  /\ PhaseOf("kPreBraking") = "braking"        /\ OutcomeOf("kPreBraking") = "nominal"
  /\ PhaseOf("kNominalBraking") = "braking"    /\ OutcomeOf("kNominalBraking") = "nominal"
  /\ PhaseOf("kFinished") = "stopped"          /\ OutcomeOf("kFinished") = "nominal"
  /\ PhaseOf("kFailurePreBraking") = "braking" /\ OutcomeOf("kFailurePreBraking") = "failure"
  /\ PhaseOf("kFailureBraking") = "braking"    /\ OutcomeOf("kFailureBraking") = "failure"
  /\ PhaseOf("kFailureStopped") = "stopped"    /\ OutcomeOf("kFailureStopped") = "failure"
  /\ PhaseOf("Off") = "off"
  BY DEF PhaseOf, OutcomeOf, Failures, Prepares, Moves, StoppedStates

(* Every decision is a step of the life cycle, or changes nothing of it.   *)
LEMMA CheckTransitionLifecycle ==
  ASSUME IInv, checkTransition
  PROVE  [Lifecycle!Next]_<<PhaseOf(current), OutcomeOf(podState)>>
<1> DEFINE Goes(st, failed, next) ==
             /\ current = st
             /\ podState = st
             /\ UNCHANGED <<current, podState>> \/ Enter(failed) \/ Enter(next)
<1> USE Phases DEF Enter, Lifecycle!Next, Lifecycle!Launch, Lifecycle!Abort,
        Lifecycle!Brake, Lifecycle!FailBraking, Lifecycle!Stop, Lifecycle!ShutDown,
        Lifecycle!Outcome
<1>1. CASE CheckIdle
  <2>1. Goes("kIdle", "kFailureStopped", "kPreCalibrating")
    BY <1>1, DecideMoves DEF CheckIdle, State
  <2>2. QED
    BY <2>1
<1>2. CASE CheckPreCalibrating
  <2>1. Goes("kPreCalibrating", "kFailureStopped", "kCalibrating")
    BY <1>2, DecideMoves DEF CheckPreCalibrating, State
  <2>2. QED
    BY <2>1
<1>3. CASE CheckCalibrating
  <2>1. Goes("kCalibrating", "kFailureStopped", "kPreReady")
    BY <1>3, DecideMoves DEF CheckCalibrating, State
  <2>2. QED
    BY <2>1
<1>4. CASE CheckPreReady
  <2>1. Goes("kPreReady", "kFailureStopped", "kReady")
    BY <1>4, DecideMoves DEF CheckPreReady, State
  <2>2. QED
    BY <2>1
<1>5. CASE CheckReady
  <2>1. Goes("kReady", "kFailureStopped", "kAccelerating")
    BY <1>5, DecideMoves DEF CheckReady, State
  <2>2. QED
    BY <2>1
<1>6. CASE CheckAccelerating
  <2> DEFINE next == IF checkEnteredBrakingZone(seen) THEN "kPreBraking" ELSE "kCruising"
  <2>1. next \in {"kPreBraking", "kCruising"}
    OBVIOUS
  <2> HIDE DEF next
  <2>2. Decide("kAccelerating", checkEmergency(seen), "kFailurePreBraking",
               checkEnteredBrakingZone(seen) \/ checkReachedMaxVelocity(seen), next)
    BY <1>6 DEF CheckAccelerating, next
  <2>3. Goes("kAccelerating", "kFailurePreBraking", next)
    BY <2>2, DecideMoves DEF State
  <2>4. QED
    BY <2>1, <2>3
<1>7. CASE CheckCruising
  <2>1. Goes("kCruising", "kFailurePreBraking", "kPreBraking")
    BY <1>7, DecideMoves DEF CheckCruising, State
  <2>2. QED
    BY <2>1
<1>8. CASE CheckPreBraking
  <2>1. Goes("kPreBraking", "kFailurePreBraking", "kNominalBraking")
    BY <1>8, DecideMoves DEF CheckPreBraking, State
  <2>2. QED
    BY <2>1
<1>9. CASE CheckNominalBraking
  <2>1. Goes("kNominalBraking", "kFailureBraking", "kFinished")
    BY <1>9, DecideMoves DEF CheckNominalBraking, State
  <2>2. QED
    BY <2>1
<1>10. CASE CheckFinished
  <2>1. Goes("kFinished", "kFinished", "Off")
    BY <1>10, DecideMoves DEF CheckFinished, State
  <2>2. QED
    BY <2>1
<1>11. CASE CheckFailurePreBraking
  <2>1. Goes("kFailurePreBraking", "kFailurePreBraking", "kFailureBraking")
    BY <1>11, DecideMoves DEF CheckFailurePreBraking, State
  <2>2. QED
    BY <2>1
<1>12. CASE CheckFailureBraking
  <2>1. Goes("kFailureBraking", "kFailureBraking", "kFailureStopped")
    BY <1>12, DecideMoves DEF CheckFailureBraking, State
  <2>2. QED
    BY <2>1
<1>13. CASE CheckFailureStopped
  <2>1. Goes("kFailureStopped", "kFailureStopped", "Off")
    BY <1>13, DecideMoves DEF CheckFailureStopped, State
  <2>2. QED
    BY <2>1
<1>14. QED
  BY <1>1, <1>2, <1>3, <1>4, <1>5, <1>6, <1>7, <1>8, <1>9, <1>10, <1>11, <1>12, <1>13
     DEF checkTransition

LEMMA StepLifecycle ==
  IInv /\ [Next]_vars => [Lifecycle!Next]_<<PhaseOf(current), OutcomeOf(podState)>>
<1> SUFFICES ASSUME IInv, [Next]_vars
             PROVE  [Lifecycle!Next]_<<PhaseOf(current), OutcomeOf(podState)>>
  OBVIOUS
<1>1. CASE checkTransition
  BY <1>1, CheckTransitionLifecycle
<1>2. CASE Start
  BY <1>2 DEF Start, IInv, PublishedState, StartsIdle
<1>3. CASE UNCHANGED <<current, podState>>
  BY <1>3
<1>4. CASE Next /\ ~Start /\ ~checkTransition
  <2>1. UNCHANGED <<current, podState>>
    BY <1>4 DEF Next, StateMachineStep, BeginPass, Read, Exit, Environment, Report, Fail,
                Receive, Navigate, SwitchHighPower, StopSystem, thread
  <2>2. QED
    BY <2>1
<1>5. QED
  BY <1>1, <1>2, <1>3, <1>4 DEF vars, thread

(* The thread implements the life cycle: phases in order, no launch after  *)
(* a failure, nothing nominal after a failure, off only after stopped.     *)
THEOREM LifecycleRefined == Spec => ImplementsLifecycle
<1>1. Init => Lifecycle!Init
  BY Phases DEF Init, Lifecycle!Init
<1>2. QED
  BY <1>1, InvariantHolds, StepLifecycle, PTL DEF Spec, ImplementsLifecycle, Lifecycle!Spec

=============================================================================
