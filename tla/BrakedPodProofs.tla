--------------------------- MODULE BrakedPodProofs ---------------------------
(***************************************************************************)
(* Proofs about the state machine and the brakes, for every set of sticky  *)
(* brakes.  The brakes thread lags behind the published state; that it     *)
(* never engages a brake of a driven pod rests on the handshake of the     *)
(* calibration: the machine goes on only when it has seen kReady, kReady   *)
(* is published only at the end of an iteration that released the brakes,  *)
(* and no state after it asks for an engagement before the pod brakes.     *)
(***************************************************************************)
EXTENDS BrakedPod, StateMachineProofs

USE DEF kCriticalFailure, kStart, kInit, kReady, ModuleStatus,
        Brk!kCriticalFailure, Brk!kInit, Brk!kReady

Early == {"kIdle", "kPreCalibrating"}

ReadyBrakes == kReady \in {status["brakes"], seen.status["brakes"]}

(* Outside the sleep a sound brake is where its pin asks it to be.         *)
Settled == bpc # "sleep" => \A b \in Sound : engaged[b] = commanded[b]

(* A calibration releases the brakes before it checks and publishes.       *)
CalibrationReleases ==
  task = "calibrate" /\ bpc \in Brk!Brake \union {"sleep", "publish"}
    => \A b \in Sound : ~commanded[b]

OnlyCalibrationPublishes == bpc = "publish" => task = "calibrate"

CalibratesLate == task = "calibrate" \/ ReadyBrakes => podState \notin Early

(* Once the brakes are ready, nothing is under way that would engage them. *)
Calibrated ==
  podState \in BrakesOff \/ (podState = "kCalibrating" /\ ReadyBrakes)
    => /\ bpc \notin {"start", "ask"}
       /\ task \in {"calibrate", "verify"}
       /\ \A b \in Sound : ~commanded[b] /\ ~engaged[b]

Handshake ==
  /\ Settled
  /\ CalibrationReleases
  /\ OnlyCalibrationPublishes
  /\ CalibratesLate
  /\ Calibrated

PInv == IInv /\ Brk!BrakesTypeOK /\ Handshake

-----------------------------------------------------------------------------
(* The state machine's part. *)

(* How a decision moves the published state: never back to before the      *)
(* calibration, and past it only on a kReady of the brakes.                *)
LEMMA DecisionsProgress ==
  ASSUME IInv, checkTransition
  PROVE  /\ podState' \in Early => podState \in Early
         /\ podState' = "kCalibrating" => podState \in Early \union {"kCalibrating"}
         /\ podState' \in BrakesOff =>
              \/ podState \in BrakesOff
              \/ podState = "kCalibrating" /\ seen.status["brakes"] = kReady
<1> DEFINE Goes(st, failed, next) ==
             /\ podState = st
             /\ UNCHANGED <<current, podState>> \/ Enter(failed) \/ Enter(next)
<1> USE DEF Enter, Early, BrakesOff
<1>1. CASE CheckIdle
  <2>1. Goes("kIdle", "kFailureStopped", "kPreCalibrating")
    BY <1>1, DecideMoves DEF CheckIdle, State
  <2>2. QED
    BY <2>1
<1>2. CASE CheckPreCalibrating
  <2>1. Goes("kPreCalibrating", "kFailureStopped", "kCalibrating")
    BY <1>2, DecideMoves DEF CheckPreCalibrating, State
  <2>2. QED
    BY <2>1
<1>3. CASE CheckCalibrating
  <2>1. Goes("kCalibrating", "kFailureStopped", "kPreReady")
    BY <1>3, DecideMoves DEF CheckCalibrating, State
  <2>2. CASE checkModulesReady(seen)
    BY <2>1, <2>2 DEF checkModulesReady, Module
  <2>3. CASE ~checkModulesReady(seen)
    BY <1>3, <2>1, <2>3 DEF CheckCalibrating, Decide, Stay
  <2>4. QED
    BY <2>1, <2>2, <2>3
<1>4. CASE CheckPreReady
  <2>1. Goes("kPreReady", "kFailureStopped", "kReady")
    BY <1>4, DecideMoves DEF CheckPreReady, State
  <2>2. QED
    BY <2>1
<1>5. CASE CheckReady
  <2>1. Goes("kReady", "kFailureStopped", "kAccelerating")
    BY <1>5, DecideMoves DEF CheckReady, State
  <2>2. QED
    BY <2>1
<1>6. CASE CheckAccelerating
  <2> DEFINE next == IF checkEnteredBrakingZone(seen) THEN "kPreBraking" ELSE "kCruising"
  <2>1. next \in {"kPreBraking", "kCruising"}
    OBVIOUS
  <2> HIDE DEF next
  <2>2. Decide("kAccelerating", checkEmergency(seen), "kFailurePreBraking",
               checkEnteredBrakingZone(seen) \/ checkReachedMaxVelocity(seen), next)
    BY <1>6 DEF CheckAccelerating, next
  <2>3. Goes("kAccelerating", "kFailurePreBraking", next)
    BY <2>2, DecideMoves DEF State
  <2>4. QED
    BY <2>1, <2>3
<1>7. CASE CheckCruising
  <2>1. Goes("kCruising", "kFailurePreBraking", "kPreBraking")
    BY <1>7, DecideMoves DEF CheckCruising, State
  <2>2. QED
    BY <2>1
<1>8. CASE CheckPreBraking
  <2>1. Goes("kPreBraking", "kFailurePreBraking", "kNominalBraking")
    BY <1>8, DecideMoves DEF CheckPreBraking, State
  <2>2. QED
    BY <2>1
<1>9. CASE CheckNominalBraking
  <2>1. Goes("kNominalBraking", "kFailureBraking", "kFinished")
    BY <1>9, DecideMoves DEF CheckNominalBraking, State
  <2>2. QED
    BY <2>1
<1>10. CASE CheckFinished
  <2>1. Goes("kFinished", "kFinished", "Off")
    BY <1>10, DecideMoves DEF CheckFinished, State
  <2>2. QED
    BY <2>1
<1>11. CASE CheckFailurePreBraking
  <2>1. Goes("kFailurePreBraking", "kFailurePreBraking", "kFailureBraking")
    BY <1>11, DecideMoves DEF CheckFailurePreBraking, State
  <2>2. QED
    BY <2>1
<1>12. CASE CheckFailureBraking
  <2>1. Goes("kFailureBraking", "kFailureBraking", "kFailureStopped")
    BY <1>12, DecideMoves DEF CheckFailureBraking, State
  <2>2. QED
    BY <2>1
<1>13. CASE CheckFailureStopped
  <2>1. Goes("kFailureStopped", "kFailureStopped", "Off")
    BY <1>13, DecideMoves DEF CheckFailureStopped, State
  <2>2. QED
    BY <2>1
<1>14. QED
  BY <1>1, <1>2, <1>3, <1>4, <1>5, <1>6, <1>7, <1>8, <1>9, <1>10, <1>11, <1>12, <1>13
     DEF checkTransition

(* The copies of a pass say of the brakes what the blackboard says, or     *)
(* what they said before, or nothing.                                      *)
LEMMA CopiesOfBrakes ==
  ASSUME IInv, StateMachineStep
  PROVE  /\ UNCHANGED status
         /\ seen'.status["brakes"] \in {seen.status["brakes"], status["brakes"], kStart}
<1>1. CASE Start \/ BeginPass \/ Exit
  BY <1>1 DEF Start, BeginPass, Exit, data
<1>2. CASE \E m \in Module : Read(m)
  <2> PICK m \in Module : Read(m)
    BY <1>2
  <2>1. seen \in View /\ "brakes" \in Module
    BY DEF IInv, TypeOK, Module
  <2>2. UNCHANGED status
    BY DEF Read, data
  <2>3. seen'.status = [seen.status EXCEPT ![m] = status[m]]
    BY <2>1 DEF Read, View
  <2>4. seen.status \in [Module -> ModuleStatus]
    BY <2>1 DEF View
  <2>5. seen'.status["brakes"] = IF m = "brakes" THEN status["brakes"] ELSE seen.status["brakes"]
    BY <2>1, <2>3, <2>4
  <2>6. QED
    BY <2>2, <2>5
<1>3. CASE checkTransition
  <2>1. UNCHANGED data /\ seen' = NothingSeen
    BY <1>3 DEF checkTransition, CheckIdle, CheckPreCalibrating, CheckCalibrating,
                CheckPreReady, CheckReady, CheckAccelerating, CheckCruising,
                CheckPreBraking, CheckNominalBraking, CheckFinished,
                CheckFailurePreBraking, CheckFailureBraking, CheckFailureStopped,
                Decide, EndPass
  <2>2. QED
    BY <2>1 DEF data, NothingSeen, Module
<1>4. QED
  BY <1>1, <1>2, <1>3 DEF StateMachineStep

(* A step of the state machine keeps the handshake.                        *)
LEMMA StateMachineHandshake ==
  ASSUME PInv, TheStateMachine
  PROVE  Handshake'
<1> USE DEF PInv, Handshake
<1>1. UNCHANGED <<status, brakesOwn>>
      /\ seen'.status["brakes"] \in {seen.status["brakes"], status["brakes"], kStart}
  BY CopiesOfBrakes DEF TheStateMachine
<1>2. ReadyBrakes' => ReadyBrakes
  BY <1>1 DEF ReadyBrakes
<1>3. Settled' /\ CalibrationReleases' /\ OnlyCalibrationPublishes'
  BY <1>1 DEF brakesOwn, Settled, CalibrationReleases, OnlyCalibrationPublishes
<1>4. CASE checkTransition
  <2>1. CalibratesLate'
    BY <1>1, <1>2, <1>4, DecisionsProgress DEF CalibratesLate, brakesOwn
  <2>2. podState' = "kCalibrating" /\ ReadyBrakes => podState = "kCalibrating"
    BY <1>4, DecisionsProgress DEF CalibratesLate
  <2>3. podState' \in BrakesOff
          => podState \in BrakesOff \/ (podState = "kCalibrating" /\ ReadyBrakes)
    BY <1>4, DecisionsProgress DEF ReadyBrakes
  <2>4. Calibrated'
    BY <1>1, <1>2, <2>2, <2>3 DEF Calibrated, brakesOwn
  <2>5. QED
    BY <1>3, <2>1, <2>4
<1>5. CASE ~checkTransition
  <2>1. podState' = podState
    BY <1>5 DEF TheStateMachine, StateMachineStep, Start, BeginPass, Read, Exit,
                IInv, StartsIdle, PublishedState
  <2>2. QED
    BY <1>1, <1>2, <1>3, <2>1 DEF CalibratesLate, Calibrated, brakesOwn
<1>6. QED
  BY <1>4, <1>5

-----------------------------------------------------------------------------
(* The part of the brakes. *)

(* Once the thread commanded what it has to, nothing it does afterwards    *)
(* moves the pin of a brake, and in the sleep it waits for the sound ones. *)
LEMMA BrakesHandshake ==
  ASSUME PInv, TheBrakes
  PROVE  Handshake'
<1> USE DEF PInv, Handshake
<1>1. UNCHANGED <<podState, seen>> /\ status \in [Module -> ModuleStatus] /\ "brakes" \in Module
  BY DEF TheBrakes, thread, IInv, TypeOK, Blackboard, View, Module
<1>2. Sound \subseteq Brk!Brake /\ "magnetic" \in Brk!Brake
  BY DEF Sound, Brk!Brake
<1>3. engaged \in [Brk!Brake -> BOOLEAN] /\ commanded \in [Brk!Brake -> BOOLEAN]
  BY DEF Brk!BrakesTypeOK
<1> USE DEF Settled, CalibrationReleases, OnlyCalibrationPublishes, CalibratesLate,
            Calibrated, ReadyBrakes, Brk!Brake
<1>4. CASE Brk!Start
  BY <1>1, <1>4 DEF Brk!Start, Brk!Report
<1>5. CASE Brk!ReadState
  BY <1>1, <1>5 DEF Brk!ReadState, Brk!Rests, Brk!Obeys, Brk!Rolls, Brk!Engages, Early, BrakesOff
<1>6. CASE Brk!AskOperator
  BY <1>1, <1>6 DEF Brk!AskOperator
<1>7. CASE Brk!CommandBrakes
  BY <1>1, <1>2, <1>3, <1>7 DEF Brk!CommandBrakes
<1>8. CASE Brk!Wake
  BY <1>1, <1>8 DEF Brk!Wake, Sound
<1>9. CASE \E b \in Brk!Brake : Brk!Check(b)
  BY <1>1, <1>9 DEF Brk!Check, Brk!AfterCheck, Brk!Report
<1>10. CASE Brk!PublishReady
  BY <1>1, <1>2, <1>3, <1>10 DEF Brk!PublishReady, Brk!Report, BrakesOff
<1>11. CASE Brk!Exit
  BY <1>1, <1>11 DEF Brk!Exit
<1>12. QED
  BY <1>4, <1>5, <1>6, <1>7, <1>8, <1>9, <1>10, <1>11 DEF TheBrakes, Brk!BrakesStep

(* A sound brake only moves to where its pin is.                           *)
LEMMA HardwareHandshake ==
  ASSUME PInv, TheHardware
  PROVE  Handshake'
<1> USE DEF PInv, Handshake
<1>1. UNCHANGED <<podState, seen, status, bpc, task, commanded>>
  BY DEF TheHardware, Brk!Hardware, Brk!Follow, Brk!Slip, vars, data, thread
<1>2. \A b \in Sound : engaged'[b] \in {engaged[b], commanded[b]}
                     /\ (engaged[b] = commanded[b] => engaged'[b] = engaged[b])
  BY DEF TheHardware, Brk!Hardware, Brk!Follow, Brk!Slip, Sound, Brk!BrakesTypeOK
<1>3. QED
  BY <1>1, <1>2 DEF Settled, CalibrationReleases, OnlyCalibrationPublishes, CalibratesLate,
                    Calibrated, ReadyBrakes

(* The other threads leave the brakes and the published state alone.       *)
LEMMA OthersHandshake ==
  ASSUME PInv, TheOthers
  PROVE  Handshake'
<1> USE DEF PInv, Handshake
<1>1. UNCHANGED <<podState, seen, brakesOwn>> /\ status'["brakes"] = status["brakes"]
  <2>1. status \in [Module -> ModuleStatus] /\ "brakes" \in Module
    BY DEF IInv, TypeOK, Blackboard, View, Module
  <2>2. QED
    BY <2>1 DEF TheOthers, Report, Fail, Receive, Navigate, SwitchHighPower, StopSystem,
                CommandNominalBraking, vars, data, thread
<1>2. QED
  BY <1>1 DEF brakesOwn, Settled, CalibrationReleases, OnlyCalibrationPublishes,
              CalibratesLate, Calibrated, ReadyBrakes

-----------------------------------------------------------------------------
(* The types. *)

LEMMA BrakesType ==
  ASSUME IInv, Brk!BrakesTypeOK, TheBrakes
  PROVE  IInv' /\ Brk!BrakesTypeOK'
<1>1. UNCHANGED <<command, nav, highPowerOff, thread, faults>>
  BY DEF TheBrakes
<1> USE DEF Brk!BrakesTypeOK, Brk!Brake, Brk!Task
<1>2. status' \in [Module -> ModuleStatus] /\ Brk!BrakesTypeOK'
  <2>1. status \in [Module -> ModuleStatus]
    BY DEF IInv, TypeOK, Blackboard, View
  <2>2. CASE Brk!Start
    BY <2>1, <2>2 DEF Brk!Start, Brk!Report
  <2>3. CASE Brk!ReadState
    BY <2>1, <2>3 DEF Brk!ReadState
  <2>4. CASE Brk!AskOperator
    BY <2>1, <2>4 DEF Brk!AskOperator
  <2>5. CASE Brk!CommandBrakes
    BY <2>1, <2>5 DEF Brk!CommandBrakes
  <2>6. CASE Brk!Wake \/ Brk!Exit
    BY <2>1, <2>6 DEF Brk!Wake, Brk!Exit
  <2>7. CASE \E b \in Brk!Brake : Brk!Check(b)
    BY <2>1, <2>7 DEF Brk!Check, Brk!AfterCheck, Brk!Report
  <2>8. CASE Brk!PublishReady
    BY <2>1, <2>8 DEF Brk!PublishReady, Brk!Report
  <2>9. QED
    BY <2>2, <2>3, <2>4, <2>5, <2>6, <2>7, <2>8 DEF TheBrakes, Brk!BrakesStep
<1>3. QED
  BY <1>1, <1>2 DEF IInv, TypeOK, View, Blackboard, StartsIdle, PublishedState,
                    CopiesForgotten, thread

LEMMA PodType ==
  ASSUME IInv, Brk!BrakesTypeOK, [PNext]_pvars
  PROVE  IInv' /\ Brk!BrakesTypeOK'
<1>1. CASE TheStateMachine
  <2>1. [Next]_vars /\ UNCHANGED brakesOwn
    BY <1>1 DEF TheStateMachine, Next
  <2>2. QED
    BY <2>1, StepIInv DEF brakesOwn, Brk!BrakesTypeOK
<1>2. CASE TheBrakes
  BY <1>2, BrakesType
<1>3. CASE TheHardware
  <2>1. IInv'
    BY <1>3, StepIInv DEF TheHardware
  <2>2. Brk!BrakesTypeOK'
    BY <1>3 DEF TheHardware, Brk!Hardware, Brk!Follow, Brk!Slip, Brk!BrakesTypeOK
  <2>3. QED
    BY <2>1, <2>2
<1>4. CASE TheOthers
  <2>1. [Next]_vars /\ UNCHANGED brakesOwn
    BY <1>4 DEF TheOthers, CommandNominalBraking, Next, Environment
  <2>2. QED
    BY <2>1, StepIInv DEF brakesOwn, Brk!BrakesTypeOK
<1>5. CASE UNCHANGED pvars
  BY <1>5, StepIInv DEF pvars, brakesOwn, Brk!BrakesTypeOK
<1>6. QED
  BY <1>1, <1>2, <1>3, <1>4, <1>5 DEF PNext

-----------------------------------------------------------------------------
(* The invariant and what follows from it. *)

LEMMA InitPInv == PInit => PInv
<1> SUFFICES ASSUME PInit PROVE PInv
  OBVIOUS
<1>1. IInv
  BY InitIInv DEF PInit
<1>2. Brk!BrakesTypeOK
  BY DEF PInit, Brk!BrakesInit, Brk!BrakesTypeOK, Brk!Task
<1>3. Handshake
  BY DEF PInit, Init, NothingSeen, Brk!BrakesInit, Handshake, Settled, CalibrationReleases,
         OnlyCalibrationPublishes, CalibratesLate, Calibrated, ReadyBrakes, Early, BrakesOff,
         Sound, Module
<1>4. QED
  BY <1>1, <1>2, <1>3 DEF PInv

LEMMA StepPInv == PInv /\ [PNext]_pvars => PInv'
<1> SUFFICES ASSUME PInv, [PNext]_pvars PROVE PInv'
  OBVIOUS
<1>1. IInv' /\ Brk!BrakesTypeOK'
  BY PodType DEF PInv
<1>2. CASE UNCHANGED pvars
  <2>1. Handshake'
    BY <1>2 DEF pvars, brakesOwn, vars, data, thread, PInv, Handshake, Settled,
                CalibrationReleases, OnlyCalibrationPublishes, CalibratesLate, Calibrated,
                ReadyBrakes
  <2>2. QED
    BY <1>1, <2>1 DEF PInv
<1>3. CASE PNext
  <2>1. Handshake'
    BY <1>3, StateMachineHandshake, BrakesHandshake, HardwareHandshake, OthersHandshake DEF PNext
  <2>2. QED
    BY <1>1, <2>1 DEF PInv
<1>4. QED
  BY <1>2, <1>3

LEMMA PodInvariant == PSpec => []PInv
  BY InitPInv, StepPInv, PTL DEF PSpec

(* The two threads and the brakes keep to the values they can store.       *)
THEOREM PodTypeCorrect == PSpec => []PTypeOK
<1>1. PInv => PTypeOK
  BY DEF PInv, IInv, PTypeOK
<1>2. QED
  BY <1>1, PodInvariant, PTL

(* No sound brake is engaged from the end of the calibration to the moment *)
(* of braking, whichever brakes fail and however the threads interleave.   *)
THEOREM BrakesStayOff == PSpec => []DrivesWithBrakesOff
<1>1. PInv => DrivesWithBrakesOff
  BY DEF PInv, Handshake, Calibrated, DrivesWithBrakesOff
<1>2. QED
  BY <1>1, PodInvariant, PTL

=============================================================================
