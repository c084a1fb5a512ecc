---------------------- MODULE StateMachineHistoryProofs ----------------------
(***************************************************************************)
(* Decisions and the blackboard.  A pass reads the structs one by one      *)
(* while they change; what makes its decision sound is that a cause that   *)
(* stays on the blackboard is in the copies from the moment its struct has *)
(* been read, and that nothing else is.                                    *)
(***************************************************************************)
EXTENDS StateMachineHistory, StateMachineProofs

(* The struct a cause is found in, and those that a full pass has behind it. *)
StructOf(c) == IF c = "operator" THEN "telemetry" ELSE c

ReadBefore ==
  [brakes     |-> {},
   navigation |-> {"brakes"},
   batteries  |-> {"brakes", "navigation"},
   telemetry  |-> {"brakes", "navigation", "batteries"},
   sensors    |-> {"brakes", "navigation", "batteries", "telemetry"},
   motors     |-> {"brakes", "navigation", "batteries", "telemetry", "sensors"},
   decide     |-> Module]

InPass == Module \union {"decide"}

LingeringSeen ==
  current \in Watches /\ pc \in InPass =>
    \A c \in lingering : StructOf(c) \in ReadBefore[pc] => c \in Causes(seen)

HInv ==
  /\ lingering \subseteq Causes(Blackboard)
  /\ Causes(Blackboard) \subseteq raised
  /\ Causes(seen) \subseteq raised
  /\ LingeringSeen

(* A view has a cause of emergency exactly if it is an emergency.          *)
LEMMA EmergencyIffCause ==
  ASSUME NEW v
  PROVE  checkEmergency(v) <=> Causes(v) # {}
  BY DEF checkEmergency, Causes, Cause, Module

(* One getter brings what the struct it copies says, and keeps the rest.   *)
LEMMA ReadCauses ==
  ASSUME TypeOK, NEW m \in Module, Read(m)
  PROVE  \A c \in Cause :
           c \in Causes(seen)' <=> IF StructOf(c) = m THEN c \in Causes(Blackboard)
                                                     ELSE c \in Causes(seen)
<1>1. seen' = [seen EXCEPT
       !.status[m]      = status[m],
       !.command        = IF m = "telemetry"  THEN command ELSE @,
       !.nav            = IF m = "navigation" THEN nav ELSE @,
       !.high_power_off = IF m = "sensors"    THEN highPowerOff ELSE @]
  BY DEF Read
<1>2. \A c \in Module : seen'.status[c] = IF c = m THEN status[m] ELSE seen.status[c]
  BY <1>1 DEF TypeOK, View
<1>3. seen'.command = IF m = "telemetry" THEN command ELSE seen.command
  BY <1>1 DEF TypeOK, View
<1>4. QED
  BY <1>2, <1>3 DEF Causes, Cause, StructOf, Blackboard, Module

(* What a pass has behind it after one more getter.                        *)
LEMMA ReadAdvances ==
  ASSUME TypeOK, NEW m \in Module, Read(m), current \in Watches
  PROVE  /\ pc = m
         /\ pc' \in InPass
         /\ ReadBefore[pc'] = ReadBefore[m] \union {m}
<1>1. current \notin ReadsOneStruct
  BY DEF Watches, Prepares, Moves, ReadsOneStruct, StoppedStates
<1>2. pc = m /\ pc' = NextRead[m]
  BY <1>1 DEF Read
<1>3. QED
  BY <1>2 DEF InPass, ReadBefore, NextRead, Module

(* A watched decision takes a failure exactly if the copies show a cause.  *)
LEMMA WatchedDecision ==
  ASSUME checkTransition, current \in Watches, current' # current
  PROVE  /\ pc = "decide"
         /\ checkEmergency(seen) <=> current' \in Failures
<1> USE DEF Decide, Enter, Stay, Failures, Watches, Prepares, Moves
<1>1. CASE CheckIdle
  BY <1>1 DEF CheckIdle
<1>2. CASE CheckPreCalibrating
  BY <1>2 DEF CheckPreCalibrating
<1>3. CASE CheckCalibrating
  BY <1>3 DEF CheckCalibrating
<1>4. CASE CheckPreReady
  BY <1>4 DEF CheckPreReady
<1>5. CASE CheckReady
  BY <1>5 DEF CheckReady
<1>6. CASE CheckAccelerating
  BY <1>6 DEF CheckAccelerating
<1>7. CASE CheckCruising
  BY <1>7 DEF CheckCruising
<1>8. CASE CheckPreBraking
  BY <1>8 DEF CheckPreBraking
<1>9. CASE CheckNominalBraking
  BY <1>9 DEF CheckNominalBraking
<1>10. CASE CheckFinished \/ CheckFailurePreBraking \/ CheckFailureBraking \/ CheckFailureStopped
  BY <1>10 DEF CheckFinished, CheckFailurePreBraking, CheckFailureBraking, CheckFailureStopped
<1>11. QED
  BY <1>1, <1>2, <1>3, <1>4, <1>5, <1>6, <1>7, <1>8, <1>9, <1>10 DEF checkTransition

(* A step outside checkTransition leaves the machine in its state.         *)
LEMMA OnlyDecisionsMove ==
  ASSUME IInv, [Next]_vars, ~checkTransition
  PROVE  UNCHANGED current
  BY DEF vars, thread, Next, StateMachineStep, Start, BeginPass, Read, Exit, Environment,
         Report, Fail, Receive, Navigate, SwitchHighPower, StopSystem

(* A pass that begins forgot the copies of the last one, and looks afresh. *)
LEMMA BeginPassHInv ==
  ASSUME IInv, HInv, HNext, BeginPass
  PROVE  HInv'
<1>1. Causes(seen)' = {} /\ seen' = seen
  BY NothingSeenIsView DEF BeginPass, IInv, CopiesForgotten
<1>2. lingering' = Causes(Blackboard)' /\ raised' = Causes(Blackboard)'
  BY DEF HNext
<1>3. ASSUME current' \in Watches PROVE pc' = "brakes"
  BY <1>3 DEF BeginPass, FirstRead, Watches, Prepares, Moves, StoppedStates
<1>4. ReadBefore["brakes"] = {}
  BY DEF ReadBefore
<1>5. LingeringSeen'
  BY <1>3, <1>4 DEF LingeringSeen
<1>6. QED
  BY <1>1, <1>2, <1>5 DEF HInv

(* The other steps only add to the history what the blackboard shows.      *)
LEMMA OtherStepHInv ==
  ASSUME IInv, HInv, HNext, ~BeginPass
  PROVE  HInv'
<1>1. /\ lingering' = lingering \intersect Causes(Blackboard)'
      /\ raised' = raised \union Causes(Blackboard)'
  BY DEF HNext
<1>2. /\ lingering' \subseteq Causes(Blackboard)'
      /\ Causes(Blackboard)' \subseteq raised'
      /\ lingering' \subseteq lingering
      /\ raised \subseteq raised'
  BY <1>1
<1>3. CASE \E m \in Module : Read(m)
  <2> PICK m \in Module : Read(m)
    BY <1>3
  <2>1. UNCHANGED <<data, current>> /\ Causes(Blackboard)' = Causes(Blackboard)
    BY DEF Read, data, Blackboard
  <2>2. Causes(seen) \subseteq Cause /\ Causes(seen)' \subseteq Cause
        /\ Causes(Blackboard) \subseteq Cause
    BY DEF Causes
  <2>3. \A c \in Cause :
          c \in Causes(seen)' <=> IF StructOf(c) = m THEN c \in Causes(Blackboard)
                                                    ELSE c \in Causes(seen)
    BY ReadCauses DEF IInv
  <2>4. Causes(seen)' \subseteq raised'
    BY <1>2, <2>1, <2>2, <2>3 DEF HInv
  <2>5. LingeringSeen'
    <3> SUFFICES ASSUME current \in Watches,
                        NEW c \in lingering', StructOf(c) \in ReadBefore[pc']
                 PROVE  c \in Causes(seen)'
      BY <2>1 DEF LingeringSeen
    <3>1. pc = m /\ m \in InPass /\ ReadBefore[pc'] = ReadBefore[m] \union {m}
      BY ReadAdvances DEF IInv, InPass
    <3>2. c \in lingering /\ c \in Causes(Blackboard) /\ c \in Cause
      BY <1>2, <2>1, <2>2
    <3>3. CASE StructOf(c) = m
      BY <2>3, <3>2, <3>3
    <3>4. CASE StructOf(c) # m
      BY <2>3, <3>1, <3>2, <3>4 DEF HInv, LingeringSeen
    <3>5. QED
      BY <3>3, <3>4
  <2>6. QED
    BY <1>2, <2>4, <2>5 DEF HInv
<1>4. CASE checkTransition
  <2>1. pc' = "loop" /\ seen' = NothingSeen
    BY <1>4 DEF checkTransition, CheckIdle, CheckPreCalibrating, CheckCalibrating,
                CheckPreReady, CheckReady, CheckAccelerating, CheckCruising,
                CheckPreBraking, CheckNominalBraking, CheckFinished,
                CheckFailurePreBraking, CheckFailureBraking, CheckFailureStopped,
                Decide, EndPass
  <2>2. Causes(seen)' = {}
    BY <2>1, NothingSeenIsView
  <2>3. LingeringSeen'
    BY <2>1 DEF LingeringSeen, InPass, Module
  <2>4. QED
    BY <1>2, <2>2, <2>3 DEF HInv
<1>5. CASE Start \/ Exit
  <2>1. seen' = seen /\ pc' \notin InPass
    BY <1>5 DEF Start, Exit, InPass, Module
  <2>2. QED
    BY <1>2, <2>1 DEF HInv, LingeringSeen
<1>6. CASE Environment
  <2>1. UNCHANGED <<seen, pc, current>>
    BY <1>6 DEF Environment, Report, Fail, Receive, Navigate, SwitchHighPower, StopSystem, thread
  <2>2. QED
    BY <1>2, <2>1 DEF HInv, LingeringSeen
<1>7. QED
  BY <1>3, <1>4, <1>5, <1>6 DEF HNext, Next, StateMachineStep

LEMMA HistoryInvariant == HSpec => [](IInv /\ HInv)
<1>1. HInit => IInv /\ HInv
  <2> SUFFICES ASSUME HInit PROVE IInv /\ HInv
    OBVIOUS
  <2>1. IInv
    BY InitIInv DEF HInit
  <2>2. Causes(seen) = {}
    BY NothingSeenIsView DEF HInit, Init
  <2>3. LingeringSeen
    BY DEF LingeringSeen, HInit, Init, InPass, Module
  <2>4. QED
    BY <2>1, <2>2, <2>3 DEF HInv, HInit
<1>2. IInv /\ HInv /\ [HNext]_hvars => IInv' /\ HInv'
  <2> SUFFICES ASSUME IInv, HInv, [HNext]_hvars PROVE IInv' /\ HInv'
    OBVIOUS
  <2>1. IInv'
    BY StepIInv DEF HNext, hvars
  <2>2. CASE HNext
    BY <2>1, <2>2, BeginPassHInv, OtherStepHInv
  <2>3. CASE UNCHANGED hvars
    BY <2>1, <2>3 DEF hvars, vars, data, thread, HInv, LingeringSeen, Blackboard
  <2>4. QED
    BY <2>2, <2>3
<1>3. QED
  BY <1>1, <1>2, PTL DEF HSpec

(* At a watched decision the copies show every cause that lingers, and no  *)
(* cause that was not raised during the pass.                              *)
LEMMA DecisionIsSound ==
  ASSUME IInv, HInv, [HNext]_hvars, WatchedStep
  PROVE  /\ current' \notin Failures => lingering = {}
         /\ current' \in Failures => raised # {}
<1>1. current \in Watches /\ current' # current
  BY DEF WatchedStep
<1>2. [Next]_vars
  BY DEF HNext, hvars
<1>3. checkTransition
  BY <1>1, <1>2, OnlyDecisionsMove
<1>4. pc = "decide" /\ (checkEmergency(seen) <=> current' \in Failures)
  BY <1>1, <1>3, WatchedDecision
<1>5. checkEmergency(seen) <=> Causes(seen) # {}
  BY EmergencyIffCause
<1>6. \A c \in lingering : c \in Causes(seen)
  <2>1. \A c \in lingering : StructOf(c) \in ReadBefore["decide"]
    BY DEF HInv, Causes, Cause, StructOf, ReadBefore, Module
  <2>2. QED
    BY <1>1, <1>4, <2>1 DEF HInv, LingeringSeen, InPass
<1>7. QED
  BY <1>4, <1>5, <1>6 DEF HInv

(* No emergency that outlasts a pass is overlooked by it, although the     *)
(* structs are read one by one and without a common lock.                  *)
THEOREM NominalStepsAreHealthy == HSpec => NominalOnlyWhenHealthy
<1>1. IInv /\ HInv /\ [HNext]_hvars
        => [WatchedStep /\ current' \notin Failures => lingering = {}]_hvars
  BY DecisionIsSound
<1>2. QED
  BY <1>1, HistoryInvariant, PTL DEF HSpec, NominalOnlyWhenHealthy

(* No emergency is invented: a failure state has a cause that was raised.  *)
THEOREM FailuresHaveCauses == HSpec => FailureHasCause
<1>1. IInv /\ HInv /\ [HNext]_hvars
        => [WatchedStep /\ current' \in Failures => raised # {}]_hvars
  BY DecisionIsSound
<1>2. QED
  BY <1>1, HistoryInvariant, PTL DEF HSpec, FailureHasCause

=============================================================================
