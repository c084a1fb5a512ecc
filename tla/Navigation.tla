----------------------------- MODULE Navigation -----------------------------
(***************************************************************************)
(* The navigation thread (src/src/navigation/main.cpp, navigation.cpp): it *)
(* calibrates the IMUs, and once the pod moves it rejects outliers among   *)
(* the readings of IMUs and wheel encoders, gives up sensors that produce  *)
(* too many of them in a row, and publishes its status for the state       *)
(* machine.  Readings are whole units, and the numbers of the outlier       *)
(* detection are twice those of the code, so that the halves of its        *)
(* quartiles are integers.                                                 *)
(***************************************************************************)
EXTENDS PodCourse, FiniteSets

CONSTANTS
  NumSensors,    \* kNumImus and kNumEncoders, which are 4
  OutlierLimit,  \* 1000: outliers in a row that are tolerated
  Noise,         \* what sensors that work read
  Wild,          \* what else broken ones may read
  Fragile,       \* the sensors that may break: the code tells none from another
  MaxBroken      \* bound on how many of both kinds do

Sensor == 1..NumSensors
Kind   == {"imu", "encoder"}

kInterQuartileScaler    == 1
kMaxInterQuartileRange  == 3
kMaxCalibrationAttempts == 3

(* A quartile that the code does not assign.                               *)
Unset == 10^6

ASSUME NumSensorsAssumption == NumSensors \in Nat \ (0..2)
ASSUME OutlierLimitAssumption == OutlierLimit \in Nat
ASSUME ReadingsAssumption == Noise \union Wild \subseteq Int /\ Noise # {}
ASSUME FragileAssumption == Fragile \subseteq Sensor
ASSUME MaxBrokenAssumption == MaxBroken \in Nat

VARIABLES
  podState,   \* Data: the state that the state machine published
  running,    \* System::running_
  navStatus,  \* Data: struct Navigation, module_status
  npc,        \* the thread: its next step
  status,     \* Navigation::status_
  attempts,   \* calibrateGravity(): attempts so far
  reliable,   \* is_imu_reliable_ and is_encoder_reliable_, as sets
  counter,    \* imu_outlier_counter_ and encoder_outlier_counter_
  measured,   \* the readings that queryImus() has just given to its filters
  broken      \* the sensors that are broken

sensorVars == <<reliable, counter, measured>>
threadVars == <<npc, status, attempts>>
vars == <<podState, running, navStatus, threadVars, sensorVars, broken>>

-----------------------------------------------------------------------------
(* Quartiles and outliers *)

Unreliable(k) == Cardinality(Sensor \ reliable[k])   \* num_outlier_imus_, ..._encoders_

Reading == Noise \union Wild

(* The i-th smallest reading of a set of sensors.                          *)
Nth(S, r, i) ==
  CHOOSE x \in {r[s] : s \in S} : /\ Cardinality({s \in S : r[s] < x}) < i
                                  /\ Cardinality({s \in S : r[s] <= x}) >= i

LowQuartile(S, r)  == Nth(S, r, 1) + Nth(S, r, 2)
HighQuartile(S, r) == Nth(S, r, Cardinality(S) - 1) + Nth(S, r, Cardinality(S))

(* Assigned only while at most one sensor is unreliable.                   *)
MedianQuartile(S, r) ==
  CASE Cardinality(Sensor \ S) = 0 -> Nth(S, r, 2) + Nth(S, r, 3)
    [] Cardinality(Sensor \ S) = 1 -> 2 * Nth(S, r, 2)
    [] OTHER                       -> Unset

(* Fault: the range between the quartiles is not bounded.                  *)
ToleranceUnbounded(range) == kInterQuartileScaler * range

(* Fault: the quartiles themselves are the limits.                         *)
ToleranceNone(range) == 0

Tolerance(range) ==
  kInterQuartileScaler * (IF range < 2 * kMaxInterQuartileRange THEN range
                          ELSE 2 * kMaxInterQuartileRange)

(* What the detection makes of some readings: which are outliers, and what *)
(* is used in the place of each of them.                                   *)
Judge(S, r) ==
  LET low  == LowQuartile(S, r)
      high == HighQuartile(S, r)
      tol  == Tolerance(high - low)
      out  == {s \in S : 2 * r[s] < low - tol \/ 2 * r[s] > high + tol}
  IN  [outliers |-> out,
       used     |-> [s \in S |-> IF s \in out THEN MedianQuartile(S, r) ELSE 2 * r[s]]]

(* What sensors may read when some of them are broken.                     *)
Readings(B) == {r \in [Sensor -> Reading] : \A s \in Sensor \ B : r[s] \in Noise}

Enough == {S \in SUBSET Sensor : Cardinality(S) >= 2}

(* What the detection may make of readings, as a table ...                 *)
Table == {[sensors |-> S, broken |-> B, verdicts |-> {Judge(S, r) : r \in Readings(B)}] :
            S \in Enough, B \in SUBSET Fragile}

(* ... and of those of the reliable sensors of a kind.                     *)
Verdicts(k) ==
  (CHOOSE t \in Table : t.sensors = reliable[k] /\ t.broken = broken[k]).verdicts

(* at() throws when the quartiles are taken of less than two readings, and *)
(* nothing in the thread catches it.                                       *)
Countable(k) == Cardinality(reliable[k]) >= 2

(* The sensors that are given up.                                          *)
Given(k, out) == {s \in out : counter[k][s] + 1 > OutlierLimit}

(* Fault: the sensors are counted before the new ones are given up.        *)
FailsLate(k, out) == out # {} /\ Unreliable(k) > 1

(* Two unreliable sensors of a kind fail the module; this is looked at     *)
(* whenever one is an outlier, after it has been given up.                 *)
Fails(k, out) ==
  out # {} /\ Cardinality(Sensor \ (reliable[k] \ Given(k, out))) > 1

(* imuOutlierDetection(), wheelEncoderOutlierDetection()                   *)
Detect(k, out) ==
  /\ reliable' = [reliable EXCEPT ![k] = @ \ Given(k, out)]
  /\ counter' = [counter EXCEPT ![k] = [s \in Sensor |-> IF s \in out THEN @[s] + 1 ELSE 0]]
  /\ status' = IF Fails(k, out) THEN kCriticalFailure ELSE status

(* The quartiles fail the module on the blackboard.                        *)
Quartiles(k) ==
  navStatus' = IF Unreliable(k) > 1 THEN kCriticalFailure ELSE navStatus

-----------------------------------------------------------------------------
(* Main::run() and Navigation::navigate() *)

Start ==
  /\ npc = "start"
  /\ navStatus' = kInit
  /\ npc' = "loop"
  /\ UNCHANGED <<status, attempts, sensorVars>>

Rests == {"kIdle", "kPreReady", "kReady", "kPreCalibrating"}

Navigates == {"kAccelerating", "kPreBraking", "kNominalBraking", "kCruising",
              "kFailurePreBraking", "kFailureBraking"}

Completes == {"kFailureStopped", "kFinished"}

LeadsTo(s) ==
  CASE s \in Rests        -> "loop"
    [] s = "kCalibrating" -> IF status = kInit THEN "calibrate" ELSE "loop"
    [] s \in Navigates    -> "imus"
    [] s \in Completes    -> "completed"

Loop ==
  /\ npc = "loop"
  /\ npc' = IF running THEN LeadsTo(podState) ELSE "completed"
  /\ attempts' = 0
  /\ UNCHANGED <<navStatus, status, sensorVars>>

(* Fault: one attempt too many.                                            *)
CalibrateOnceMore(unsteady) ==
  /\ npc = "calibrate"
  /\ attempts' = attempts + 1
  /\ IF unsteady # {} /\ attempts' <= kMaxCalibrationAttempts
     THEN UNCHANGED <<npc, status, navStatus>>
     ELSE /\ npc' = "loop"
          /\ status' = IF unsteady = {} THEN kReady ELSE kCriticalFailure
          /\ navStatus' = status'
  /\ UNCHANGED sensorVars

(* Fault: attempts that all fail leave the status alone.                   *)
CalibrateQuietly(unsteady) ==
  /\ npc = "calibrate"
  /\ attempts' = attempts + 1
  /\ IF unsteady # {} /\ attempts' < kMaxCalibrationAttempts
     THEN UNCHANGED <<npc, status, navStatus>>
     ELSE /\ npc' = "loop"
          /\ status' = IF unsteady = {} THEN kReady ELSE status
          /\ navStatus' = status'
  /\ UNCHANGED sensorVars

(* One attempt of calibrateGravity(): 10000 readings, during which the     *)
(* thread looks at nothing else.  IMUs whose readings vary too much make   *)
(* it fail.                                                                *)
Calibrate(unsteady) ==
  /\ npc = "calibrate"
  /\ attempts' = attempts + 1
  /\ IF unsteady # {} /\ attempts' < kMaxCalibrationAttempts
     THEN UNCHANGED <<npc, status, navStatus>>
     ELSE /\ npc' = "loop"
          /\ status' = IF unsteady = {} THEN kReady ELSE kCriticalFailure
          /\ navStatus' = status'
  /\ UNCHANGED sensorVars

Terminate ==
  /\ npc' = "terminated"
  /\ UNCHANGED <<navStatus, status, sensorVars>>

(* An outlier is replaced by the median before the reliable readings go to *)
(* the filters.                                                            *)
queryImus ==
  /\ npc = "imus"
  /\ IF ~Countable("imu")
     THEN Terminate
     ELSE \E v \in Verdicts("imu") :
            /\ Quartiles("imu")
            /\ Detect("imu", v.outliers)
            /\ measured' = {v.used[s] : s \in reliable["imu"] \ Given("imu", v.outliers)}
            /\ npc' = "encoders"
  /\ UNCHANGED attempts

queryWheelEncoders ==
  /\ npc = "encoders"
  /\ IF ~Countable("encoder")
     THEN Terminate
     ELSE \E v \in Verdicts("encoder") :
            /\ Quartiles("encoder")
            /\ Detect("encoder", v.outliers)
            /\ measured' = {}
            /\ npc' = "compare"
  /\ UNCHANGED attempts

(* The failure is written to the blackboard, and not to status_.           *)
compareEncoderImu(apart) ==
  /\ npc = "compare"
  /\ navStatus' = IF apart THEN kCriticalFailure ELSE navStatus
  /\ npc' = "update"
  /\ UNCHANGED <<status, attempts, sensorVars>>

updateData ==
  /\ npc = "update"
  /\ navStatus' = status
  /\ npc' = "loop"
  /\ UNCHANGED <<status, attempts, sensorVars>>

NavigationThread ==
  /\ UNCHANGED <<podState, running, broken>>
  /\ \/ Start \/ Loop \/ queryImus \/ queryWheelEncoders \/ updateData
     \/ \E unsteady \in SUBSET Sensor : Calibrate(unsteady)
     \/ \E apart \in BOOLEAN : compareEncoderImu(apart)

-----------------------------------------------------------------------------
(* The rest of the process, which runs until the exception ends it.        *)

Alive == npc # "terminated"

NavigationAllows(s) ==
  /\ navStatus # kCriticalFailure
  /\ s = "kIdle" => navStatus >= kInit
  /\ s = "kCalibrating" => navStatus = kReady

Transition ==
  /\ Alive
  /\ \E t \in State : /\ \/ GoesOn(podState, t) /\ NavigationAllows(podState)
                         \/ GivesUp(podState, t)
                      /\ podState' = t
  /\ UNCHANGED <<running, navStatus, threadVars, sensorVars, broken>>

StopSystem ==
  /\ Alive /\ running
  /\ running' = FALSE
  /\ UNCHANGED <<podState, navStatus, threadVars, sensorVars, broken>>

Break(k, s) ==
  /\ Alive
  /\ Cardinality(broken["imu"]) + Cardinality(broken["encoder"]) < MaxBroken
  /\ s \notin broken[k]
  /\ broken' = [broken EXCEPT ![k] = @ \union {s}]
  /\ UNCHANGED <<podState, running, navStatus, threadVars, sensorVars>>

-----------------------------------------------------------------------------
Init ==
  /\ podState = "kIdle" /\ running = TRUE
  /\ navStatus = kInit /\ status = kInit
  /\ npc = "start" /\ attempts = 0
  /\ reliable = [k \in Kind |-> Sensor]
  /\ counter = [k \in Kind |-> [s \in Sensor |-> 0]]
  /\ measured = {}
  /\ broken = [k \in Kind |-> {}]

Next ==
  \/ NavigationThread
  \/ Transition
  \/ StopSystem
  \/ \E k \in Kind, s \in Fragile : Break(k, s)

Spec == Init /\ [][Next]_vars

(* The navigation thread is scheduled; nothing is assumed of the others.   *)
FairSpec == Spec /\ WF_vars(NavigationThread)

-----------------------------------------------------------------------------
(* What is claimed. *)

(* The type invariant; only a moving pod's readings are judged.            *)
TypeOK ==
  /\ podState \in State
  /\ running \in BOOLEAN
  /\ navStatus \in ModuleStatus /\ status \in ModuleStatus
  /\ npc \in {"start", "loop", "calibrate", "imus", "encoders", "compare", "update",
              "completed", "terminated"}
  /\ attempts \in 0..kMaxCalibrationAttempts
  /\ reliable \in [Kind -> SUBSET Sensor]
  /\ counter \in [Kind -> [Sensor -> Nat]]
  /\ broken \in [Kind -> SUBSET Sensor]

(* As long as one sensor of a kind is broken at most, no other is given    *)
(* up: readings that only differ by noise are not outliers of one another, *)
(* whatever the broken one reads.                                          *)
GoodSensorsAreTrusted ==
  \A k \in Kind : Cardinality(broken[k]) <= 1 => Sensor \ broken[k] \subseteq reliable[k]

(* As long as one IMU is broken at most, what goes to the filters is off   *)
(* by no more than twice the range and the noise, although the broken one  *)
(* takes part in the quartiles.                                            *)
Plausible == LET bound == 2 * (2 * kMaxInterQuartileRange)
             IN  UNION {{2 * n + d : d \in (-bound)..bound} : n \in Noise}

BrokenImuIsBounded ==
  Cardinality(broken["imu"]) <= 1 => measured \subseteq Plausible

(* A module that lost two sensors of a kind has failed, and says so        *)
(* whenever its thread is about to look at the state again.                *)
LossIsPublished ==
  npc = "loop" /\ (\E k \in Kind : Unreliable(k) > 1) => navStatus = kCriticalFailure

(* What the thread itself found critical is never withdrawn: neither a     *)
(* later calibration nor an iteration that finds no outlier makes the      *)
(* module ready again.                                                     *)
FailureIsFinal ==
  [][ status = kCriticalFailure /\ (npc = "loop" => navStatus = kCriticalFailure)
        => status' = kCriticalFailure /\ (npc' = "loop" => navStatus' = kCriticalFailure) ]_vars

(* A pod that calibrates learns whether navigation is ready, however the   *)
(* attempts go.                                                            *)
CalibrationEnds ==
  (podState = "kCalibrating" /\ running) ~>
    (navStatus \in {kReady, kCriticalFailure} \/ podState # "kCalibrating" \/ ~running)

-----------------------------------------------------------------------------
(* What a comment of the code claims, and it does not do. *)

(* "@return quartiles of reliable IMU readings of form (q1, q2(median),    *)
(* q3)" (navigation.hpp:97): a call returns them.                          *)
QuartilesAreReturned == npc # "terminated"

=============================================================================
