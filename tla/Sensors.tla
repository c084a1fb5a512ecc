------------------------------ MODULE Sensors ------------------------------
(***************************************************************************)
(* The struct data::Sensors and the threads that share it: sensors::Main   *)
(* (src/src/sensors/main.cpp), which samples the slow sensors and reports  *)
(* a failure; ImuManager, which publishes accelerations; GpioManager,      *)
(* which switches the high power and is constructed by nobody; and the     *)
(* integrator of the navigation thread, which makes velocities from the    *)
(* accelerations.  Main and GpioManager read the whole struct, change one  *)
(* field and write the whole struct back.                                  *)
(***************************************************************************)
EXTENDS PodCourse, Configuration, FiniteSets, SequencesExt

CONSTANTS
  MaxOdd,               \* bound on the devices that are set up otherwise than "fake"
  GpioDevices,          \* bound: only these are not "fake" where there may be a GpioManager
  FailsIn,              \* failure_in_state of the fake IMUs, as a set of states
  MaximumAcceleration, CruisingDeceleration, BrakingDeceleration,
  MaxTime,              \* bound on the clock that stamps the accelerations
  TimestampRange        \* 2^32, for a clock that shows at most MaxTime

ASSUME MaxOddAssumption == MaxOdd \in Nat
ASSUME FailsInAssumption == FailsIn \subseteq State
ASSUME AccelerationAssumption ==
  {MaximumAcceleration, CruisingDeceleration, BrakingDeceleration} \subseteq Nat \ {0}
ASSUME TimeAssumption == MaxTime \in Nat /\ TimestampRange \in Nat /\ TimestampRange > MaxTime

Sampled == <<"temperature", "ambient", "brake">>
Device  == {"bms", "imu"} \union Range(Sampled)

ASSUME GpioDevicesAssumption == GpioDevices \subseteq Device

(* What the constructor of Main can make of the devices: a "fake" that     *)
(* works or "fails", a "real" one, or one that the file says too little or *)
(* too much of.                                                            *)
Setup == {f \in [Device -> {"fake", "fails", "real", "missing", "short", "long"}] :
            /\ Cardinality({d \in Device : f[d] # "fake"}) <= MaxOdd
            /\ \E config \in Config : \A d \in Device : f[d] \in SensorKinds(d, config)}

VARIABLES
  podState,  \* Data: the state that the state machine published
  running,   \* System::running_
  sensors,   \* Data: struct Sensors; an acceleration stands for those of all IMUs
  setup,     \* the configuration, a member of Setup
  main,      \* Main: its next step, the device it is at, its copy of the struct
  fake,      \* the fakes: "fresh", "started" to accelerate, "due" to fail, "failed"
  imu,       \* ImuManager: whether it runs, and whether its IMUs work
  now,       \* Timer::getTimeMicros()
  gpio,      \* GpioManager: its next step, previous_state_, its copy of the struct
  powered,   \* the hardware: whether the high power is switched on
  integrator \* navigation: Integrator, whether it is initialised, and its previous point

dataVars == <<podState, running, setup>>
vars == <<dataVars, sensors, main, fake, imu, now, gpio, powered, integrator>>

Sensors == [status : ModuleStatus, time : 0..MaxTime, acceleration : Int, highPowerOff : BOOLEAN]

(* The struct before any thread runs; a copy that is done with.            *)
Blank == [status |-> kStart, time |-> 0, acceleration |-> 0, highPowerOff |-> FALSE]

-----------------------------------------------------------------------------
(* What the slow sensors read, and what Main makes of it. *)

(* Toward zero, as a conversion from double to an integer truncates.       *)
Truncated(n, d) == IF n < 0 THEN -((-n) \div d) ELSE n \div d

AsByte(n) == n % 256

(* The raw values lose all but their low byte before they are scaled; the  *)
(* pressure in millibar does so afterwards, and no value stands as zero.   *)
RealReadings(d) ==
  CASE d = "temperature" -> {AsByte(Truncated(175 * raw - 50 * 4095, 4095)) : raw \in {0, 127, 255}}
    [] d = "ambient"     -> {0} \union {AsByte(p) : p \in {10, 255, 256, 1000, 1200}}
    [] d = "brake"       -> {raw \div 4095 : raw \in {0, 127, 255}}

Success(d) == CASE d = "temperature" -> 30 [] d = "ambient" -> 1000 [] d = "brake" -> 7000
Failure(d) == CASE d = "temperature" -> AsByte(300) [] d = "ambient" -> 10000 [] d = "brake" -> 9500

Readings(d, stage) ==
  IF setup[d] \in {"real", "long"} THEN RealReadings(d)
                                   ELSE {IF stage = "failed" THEN Failure(d) ELSE Success(d)}

Critical(d, v) ==
  CASE d = "temperature" -> v > 75 \/ v < 1
    [] d = "ambient"     -> v > 1200
    [] d = "brake"       -> v > 9000 \/ v < 5600

Defective(d) == \A v \in Readings(d, fake[d]) : Critical(d, v)

(* A fake that is to fail draws a time when it first sees the pod          *)
(* accelerate, and does nothing before; only the brake pressure does not   *)
(* look whether a time has been drawn.                                     *)
DrawsTime(d)   == fake[d] = "fresh" /\ podState = "kAccelerating"
FailsAtOnce(d) == d = "brake"

RunFake(d) ==
  CASE setup[d] = "fails" /\ (fake[d] = "due" \/ FailsAtOnce(d)) -> "failed"
    [] setup[d] = "fails" /\ DrawsTime(d) -> "started"
    [] OTHER -> fake[d]

(* One to twenty seconds pass.                                             *)
Elapse(d) ==
  /\ fake[d] = "started" /\ running
  /\ fake' = [fake EXCEPT ![d] = "due"]
  /\ UNCHANGED <<dataVars, sensors, main, imu, now, gpio, powered, integrator>>

-----------------------------------------------------------------------------
(* sensors::Main *)

UnusableFile(d) ==
  setup[d] = "missing" \/ (d = "temperature" /\ setup[d] \in {"short", "long"})

(* Fault: the constructor reports the missing file, and goes on.           *)
ConstructAnyway ==
  /\ main.pc = "construct"
  /\ running' = (\A d \in Device : ~UnusableFile(d))
  /\ sensors' = [sensors EXCEPT !.status = kReady]
  /\ main' = [main EXCEPT !.pc = "constructed"]
  /\ UNCHANGED <<fake, imu>>

(* Nothing else runs yet.  With too few pins for the brake pressures the   *)
(* constructor throws; with too many for the IMUs it writes past an array. *)
Construct ==
  /\ main.pc = "construct"
  /\ IF \E d \in Device : UnusableFile(d)
     THEN running' = FALSE /\ main' = [main EXCEPT !.pc = "constructed"] /\ UNCHANGED sensors
     ELSE \/ /\ setup["brake"] = "short" \/ setup["imu"] = "long"
             /\ main' = [main EXCEPT !.pc = "terminated"]
             /\ running' = FALSE /\ UNCHANGED sensors
          \/ /\ setup["brake"] # "short"
             /\ sensors' = [sensors EXCEPT !.status = kReady]
             /\ main' = [main EXCEPT !.pc = "constructed"]
             /\ UNCHANGED running
  /\ UNCHANGED <<fake, imu>>

(* main() starts the thread even when the constructor stopped the system;  *)
(* run() needs both managers.                                              *)
Start ==
  /\ main.pc = "constructed"
  /\ IF setup["bms"] = "missing" \/ setup["imu"] = "missing"
     THEN main' = [main EXCEPT !.pc = "terminated"] /\ running' = FALSE /\ UNCHANGED imu
     ELSE /\ main' = [main EXCEPT !.pc = "wait"] /\ UNCHANGED running
          /\ imu' = [imu EXCEPT !.pc = "run"]
  /\ UNCHANGED <<sensors, fake>>

Loop ==
  /\ main.pc = "wait"
  /\ main' = IF running THEN [main EXCEPT !.pc = "sample", !.at = 1] ELSE [main EXCEPT !.pc = "join"]
  /\ UNCHANGED <<running, sensors, fake, imu>>

(* Fault: off by one.                                                      *)
NextDeviceBeyond == IF main.at <= Len(Sampled) THEN [main EXCEPT !.pc = "sample", !.at = @ + 1]
                                               ELSE [main EXCEPT !.pc = "wait"]

NextDevice == IF main.at < Len(Sampled) THEN [main EXCEPT !.pc = "sample", !.at = @ + 1]
                                        ELSE [main EXCEPT !.pc = "wait"]

(* checkAmbientTemperature, checkAmbientPressure, checkBrakePressure       *)
Sample ==
  /\ main.pc = "sample"
  /\ LET d == Sampled[main.at]
     IN  /\ fake' = [fake EXCEPT ![d] = RunFake(d)]
         /\ \E v \in Readings(d, RunFake(d)) : main' = IF Critical(d, v) THEN [main EXCEPT !.pc = "look"]
                                                              ELSE NextDevice
  /\ UNCHANGED <<running, sensors, imu>>

(* getSensorsData() of the failure, in a copy ...                          *)
Look ==
  /\ main.pc = "look"
  /\ main' = [main EXCEPT !.pc = "fail", !.copy = [sensors EXCEPT !.status = kCriticalFailure]]
  /\ UNCHANGED <<running, sensors, fake, imu>>

(* ... and its setSensorsData().                                           *)
Fail ==
  /\ main.pc = "fail"
  /\ sensors' = main.copy
  /\ main' = [NextDevice EXCEPT !.copy = Blank]
  /\ UNCHANGED <<running, fake, imu>>

Join ==
  /\ main.pc = "join" /\ imu.pc = "ended"
  /\ main' = [main EXCEPT !.pc = "ended"]
  /\ UNCHANGED <<running, sensors, fake, imu>>

MainThread ==
  /\ UNCHANGED <<podState, setup, now, gpio, powered, integrator>>
  /\ Construct \/ Start \/ Loop \/ Sample \/ Look \/ Fail \/ Join

-----------------------------------------------------------------------------
(* ImuManager, its IMUs and the trajectory of the fakes *)

(* The acceleration of the pod in a state: FakeTrajectory::getTrajectory() *)
Acceleration(s) ==
  CASE s = "kAccelerating" -> MaximumAcceleration
    [] s \in {"kCruising", "kPreBraking", "kFailurePreBraking"} -> -CruisingDeceleration
    [] s \in {"kNominalBraking", "kFailureBraking"} -> -BrakingDeceleration
    [] OTHER -> 0

(* What is written is the set of its bits; readByte() of a register comes  *)
(* before a write of what was read or a bit more.                          *)
Select(b)       == [op |-> "select", reg |-> "RegBankSel", val |-> b]
Write(r, bits)  == [op |-> "write", reg |-> r, val |-> bits]
ReadOr(r, bits) == [op |-> "or", reg |-> r, val |-> bits]

(* What Imu::init() writes into the registers of an IMU, with what         *)
(* setAcclScale() and enableFifo() do.                                     *)
ImuInit ==
  <<Select(0), Write("PwrMgmt1", {128}), Write("PwrMgmt1", {1}), Write("PwrMgmt2", {1, 2, 4}),
    Select(2), Write("AccelConfig", {1}), Write("AccelConfig", {8}),
    ReadOr("AccelConfig", {2}), Write("AccelSmplrtDiv1", {}), Write("AccelSmplrtDiv2", {}),
    Select(0), Write("FifoReset", {1, 2, 4, 8, 16}), Write("FifoReset", {}),
    ReadOr("UserCtrl", {64}), Write("FifoMode", {}), Write("FifoEnable2", {16}),
    Write("DataRdyStatus", {1, 2, 4, 8})>>

(* A write reaches the register of the scale while its bank is selected.   *)
Reaches(i) ==
  /\ ImuInit[i].reg = "AccelConfig"
  /\ \E j \in 1..(i - 1) : /\ ImuInit[j] = Select(2)
                          /\ \A k \in (j + 1)..(i - 1) : ImuInit[k].op # "select"

(* The bits of the register then: those written last, and those added.     *)
AccelConfig ==
  {bit \in {1, 2, 4, 8} :
     \E i \in DOMAIN ImuInit :
        /\ Reaches(i) /\ bit \in ImuInit[i].val
        /\ \A j \in DOMAIN ImuInit : j > i /\ Reaches(j) => ImuInit[j].op = "or"}

(* Counts per g at a full scale of 2, 4, 8 and 16 g; bits 1 and 2 of the   *)
(* register select it, and the code divides by that of 4 g.                *)
CountsPerG(bits) ==
  16384 \div ((IF 2 \in bits THEN 2 ELSE 1) * (IF 4 \in bits THEN 4 ELSE 1))
AccDivider == CountsPerG({2})

FromChip(a) == (a * CountsPerG(AccelConfig)) \div AccDivider

ChipOnBoard == setup["imu"] \in {"real", "short", "long"}

(* whoAmI(): whether one of nine answers of the chip is the right one.     *)
Online == IF ChipOnBoard THEN BOOLEAN ELSE {TRUE}

(* A fake that failed makes up values between 0 and 1; a chip that was not *)
(* online leaves whatever the acceleration was.                            *)
Garbage == {0, 1}

Measured == IF ChipOnBoard THEN FromChip(Acceleration(podState)) ELSE Acceleration(podState)

Tick == IF now < MaxTime /\ podState \notin Preparing THEN now + 1 ELSE now

(* Fault: the manager writes the whole struct, as it was at the start.     *)
PublishAll ==
  /\ imu.pc = "run" /\ running
  /\ now' = Tick
  /\ sensors' = [sensors EXCEPT !.time = now', !.acceleration = Measured, !.status = kReady]
  /\ UNCHANGED <<dataVars, main, fake, imu, gpio, powered, integrator>>

(* An iteration: getData() of the IMUs, where a fake latches the state it  *)
(* is to fail in, the timestamp, and setSensorsImuData(), which writes     *)
(* this field only.  Bound: the clock stands until the pod moves, and at   *)
(* MaxTime.                                                                *)
Publish ==
  /\ imu.pc = "run" /\ running
  /\ now' = Tick
  /\ LET works == imu.works /\ ~(setup["imu"] = "fails" /\ podState \in FailsIn)
     IN  \E a \in (IF works THEN {Measured} ELSE Garbage) :
           /\ imu' = [imu EXCEPT !.works = works]
           /\ sensors' = [sensors EXCEPT !.time = now', !.acceleration = a]
  /\ UNCHANGED <<dataVars, main, fake, gpio, powered, integrator>>

StopMeasuring ==
  /\ imu.pc = "run" /\ ~running
  /\ imu' = [imu EXCEPT !.pc = "ended"]
  /\ UNCHANGED <<dataVars, sensors, main, fake, now, gpio, powered, integrator>>

ImuThread == Publish \/ StopMeasuring

-----------------------------------------------------------------------------
(* Integrator::update() in the navigation thread of a moving pod *)

(* Fault: the timestamps are subtracted the other way round.               *)
ElapsedBackward(from, to) == (from - to) % TimestampRange

(* A difference of unsigned timestamps.                                    *)
Elapsed(from, to) == (to - from) % TimestampRange

Point == [time |-> sensors.time, value |-> sensors.acceleration]

(* Twice what an update adds to the velocity; the first adds nothing.      *)
Gain ==
  LET from == IF integrator.initialised THEN integrator.previous ELSE Point
  IN  (Point.value + from.value) * Elapsed(from.time, Point.time)

Integrate ==
  /\ podState \in Moving \union Braking /\ running
  /\ integrator' = [initialised |-> TRUE, previous |-> Point]
  /\ UNCHANGED <<dataVars, sensors, main, fake, imu, now, gpio, powered>>

-----------------------------------------------------------------------------
(* GpioManager *)

Clears == State \ {"kReady", "kNominalBraking", "kPreReady"}

(* previous_state_ is not initialised: the first state may be taken for a  *)
(* state that was seen before.                                             *)
SeeState ==
  /\ gpio.pc = "loop" /\ running /\ podState # gpio.previous
  /\ \E pc \in (IF podState \in Clears THEN {"clear"} ELSE
                IF podState = "kPreReady" THEN {"set"} ELSE {"loop"})
               \union (IF gpio.previous = "unset" THEN {"loop"} ELSE {}) :
       gpio' = [gpio EXCEPT !.pc = pc, !.previous = podState]
  /\ UNCHANGED <<sensors, powered>>

(* Fault: the flag is published before the switches are off.               *)
ReadToClearEarly ==
  /\ gpio.pc = "clear"
  /\ gpio' = [gpio EXCEPT !.pc = "switch_off",
                           !.copy = [sensors EXCEPT !.highPowerOff = TRUE]]
  /\ sensors' = [sensors EXCEPT !.highPowerOff = TRUE]
  /\ UNCHANGED powered

(* clearHighPower(): the copy, the switches, the struct.                   *)
ReadToClear ==
  /\ gpio.pc = "clear"
  /\ gpio' = [gpio EXCEPT !.pc = "switch_off",
                           !.copy = [sensors EXCEPT !.highPowerOff = TRUE]]
  /\ UNCHANGED <<sensors, powered>>

SwitchOff ==
  /\ gpio.pc = "switch_off"
  /\ powered' = FALSE
  /\ gpio' = [gpio EXCEPT !.pc = "write"]
  /\ UNCHANGED sensors

(* setHighPower(): the switches, the copy, the struct.                     *)
SwitchOn ==
  /\ gpio.pc = "set"
  /\ powered' = TRUE
  /\ gpio' = [gpio EXCEPT !.pc = "read"]
  /\ UNCHANGED sensors

ReadToSet ==
  /\ gpio.pc = "read"
  /\ gpio' = [gpio EXCEPT !.pc = "write", !.copy = [sensors EXCEPT !.highPowerOff = FALSE]]
  /\ UNCHANGED <<sensors, powered>>

WriteBack ==
  /\ gpio.pc = "write"
  /\ sensors' = gpio.copy
  /\ gpio' = [gpio EXCEPT !.pc = "loop", !.copy = Blank]
  /\ UNCHANGED powered

EndGpio ==
  /\ gpio.pc = "loop" /\ ~running
  /\ gpio' = [gpio EXCEPT !.pc = "ended"]
  /\ UNCHANGED <<sensors, powered>>

GpioThread ==
  /\ UNCHANGED <<dataVars, main, fake, imu, now, integrator>>
  /\ SeeState \/ ReadToClear \/ SwitchOff \/ SwitchOn \/ ReadToSet \/ WriteBack \/ EndGpio

-----------------------------------------------------------------------------
(* The state machine, as far as it looks at the sensors; the other modules *)
(* may fail or hold it back at any time.  No state is entered twice, so    *)
(* what GpioManager saw before is as good as any other state.              *)

SensorsAllow(s) ==
  /\ sensors.status # kCriticalFailure
  /\ s = "kIdle" => sensors.status >= kInit
  /\ s = "kCalibrating" => sensors.status = kReady
  /\ s = "kPreReady" => ~sensors.highPowerOff
  /\ s = "kPreBraking" => sensors.highPowerOff

Transition ==
  /\ main.pc \notin {"construct", "constructed", "terminated"}
  /\ \E t \in State : /\ \/ GoesOn(podState, t) /\ SensorsAllow(podState)
                         \/ /\ GivesUp(podState, t)
                            /\ podState = "kFailurePreBraking" => sensors.highPowerOff
                      /\ podState' = t
  /\ gpio' = IF gpio.previous = "unset" THEN gpio ELSE [gpio EXCEPT !.previous = "other"]
  /\ UNCHANGED <<running, setup, sensors, main, fake, imu, now, powered, integrator>>

StopSystem ==
  /\ running
  /\ running' = FALSE
  /\ UNCHANGED <<podState, setup, sensors, main, fake, imu, now, gpio, powered, integrator>>

-----------------------------------------------------------------------------
Init ==
  /\ podState = "kIdle" /\ running = TRUE
  /\ sensors = Blank
  /\ setup \in Setup
  /\ main = [pc |-> "construct", at |-> 1, copy |-> Blank]
  /\ fake = [d \in Range(Sampled) |-> "fresh"]
  /\ \E online \in Online : imu = [pc |-> "new", works |-> online]
  /\ now = 0
  /\ \E pc \in {"ended"} \union IF \A d \in Device \ GpioDevices : setup[d] = "fake" THEN {"loop"} ELSE {} :
       gpio = [pc |-> pc, previous |-> "unset", copy |-> Blank]
  /\ powered = FALSE
  /\ integrator = [initialised |-> FALSE, previous |-> [time |-> 0, value |-> 0]]

Next ==
  \/ MainThread
  \/ ImuThread
  \/ GpioThread
  \/ Integrate
  \/ Transition
  \/ StopSystem
  \/ \E d \in Range(Sampled) : Elapse(d)

Spec == Init /\ [][Next]_vars

(* The thread of Main is scheduled; nothing is assumed of the others.      *)
FairSpec == Spec /\ WF_vars(MainThread)

-----------------------------------------------------------------------------
(* What is claimed. *)

(* The type invariant.                                                     *)
TypeOK ==
  /\ podState \in State /\ running \in BOOLEAN /\ powered \in BOOLEAN
  /\ sensors \in Sensors /\ main.copy \in Sensors /\ gpio.copy \in Sensors
  /\ now \in 0..MaxTime /\ sensors.time <= now
  /\ main.pc \in {"construct", "constructed", "wait", "sample", "look", "fail", "join",
                  "ended", "terminated"}
  /\ main.at \in 1..Len(Sampled)
  /\ \A d \in Range(Sampled) : fake[d] \in {"fresh", "started", "due", "failed"}
  /\ imu.pc \in {"new", "run", "ended"}
  /\ gpio.pc \in {"loop", "clear", "switch_off", "set", "read", "write", "ended"}

(* The sensors take part in a run only if every file that they needed gave *)
(* them their pins: the pod does not leave its first state on its own, and *)
(* no device is used, when one is missing.                                 *)
InitialisedIsGenuine ==
  podState = "kPreCalibrating" \/ main.pc = "sample" =>
    \A d \in Device : ~UnusableFile(d)

(* As long as no struct has been written back, what an acceleration adds   *)
(* to the velocity that the pod navigates by is what it can have gained in *)
(* the time since it began to move, whatever the readings are worth.       *)
Untouched == sensors.status # kCriticalFailure /\ gpio.previous = "unset"

Possible(gain) ==
  LET top == Max({MaximumAcceleration, CruisingDeceleration, BrakingDeceleration} \union Garbage)
  IN  gain \in (-2 * top * now)..(2 * top * now)

BelievableGain == Integrate /\ Untouched => Possible(Gain)

SpeedIsBelievable == [][BelievableGain]_vars

(* The pod brakes under its own power only if a sensor failed: the flag    *)
(* that the state machine waits for is written when the switches are off,  *)
(* though the state moves on while GpioManager is at it.                   *)
BrakesWithoutPower ==
  podState \in {"kNominalBraking", "kFailureBraking"} /\ sensors.status # kCriticalFailure
    => ~powered

(* The failure of a device that Main keeps finding out of range is         *)
(* published for good, although all threads write the struct.              *)
Alarm == main.pc = "sample" /\ \E d \in Range(Sampled) : Defective(d)

FailureIsPublished == []<>Alarm => <>[](sensors.status = kCriticalFailure \/ ~running)

-----------------------------------------------------------------------------
(* What a comment of the code claims, and it does not do. *)

(* The integrator is given "the point for time T_(N-2)" and "the point for *)
(* time T_(N-1)" (integrator.hpp:30): a point is later than the last one.  *)
PossibleGain == Integrate => Possible(Gain)

PointsAreInOrder == [][PossibleGain]_vars

=============================================================================
