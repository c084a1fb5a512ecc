--------------------------- MODULE SensorsProofs ---------------------------
(***************************************************************************)
(* Proofs about the struct of the sensors and the threads that share it,   *)
(* for all devices that may be set up wrongly, with or without a           *)
(* GpioManager, with any clock and with any accelerations.                 *)
(***************************************************************************)
EXTENDS Sensors, TLAPS

MainPc == {"construct", "constructed", "wait", "sample", "look", "fail", "join",
           "ended", "terminated"}
GpioPc == {"loop", "clear", "switch_off", "set", "read", "write", "ended"}
Stage  == {"fresh", "started", "due", "failed"}

(* The sets from which the structs, the threads and the point are; no      *)
(* acceleration in the struct or in a copy of it is of the future.         *)
Types ==
  /\ podState \in State /\ running \in BOOLEAN /\ powered \in BOOLEAN
  /\ sensors \in Sensors
  /\ main \in [pc : MainPc, at : 1..3, copy : Sensors]
  /\ gpio \in [pc : GpioPc, previous : State \union {"unset", "other"}, copy : Sensors]
  /\ imu \in [pc : {"new", "run", "ended"}, works : BOOLEAN]
  /\ fake \in [Range(Sampled) -> Stage]
  /\ now \in 0..MaxTime
  /\ integrator \in [initialised : BOOLEAN, previous : [time : 0..MaxTime, value : Int]]
  /\ sensors.time <= now /\ main.copy.time <= now /\ gpio.copy.time <= now

-----------------------------------------------------------------------------
(* The operators *)

LEMMA SampledDevices ==
  /\ Len(Sampled) = 3
  /\ Range(Sampled) = {"temperature", "ambient", "brake"}
  /\ \A i \in 1..3 : Sampled[i] \in Range(Sampled)
BY DEF Sampled, Range

LEMMA BlankStruct == Blank \in Sensors
BY TimeAssumption DEF Blank, Sensors, ModuleStatus, kStart

(* The scale of a chip is a number, whatever its register holds.           *)
LEMMA CountsAreNatural == ASSUME NEW bits PROVE CountsPerG(bits) \in Nat \ {0}
<1>1. \A n \in {1, 2, 4, 8} : 16384 \div n \in Nat \ {0}
  <2>. QED OBVIOUS
<1>2. (IF 2 \in bits THEN 2 ELSE 1) * (IF 4 \in bits THEN 4 ELSE 1) \in {1, 2, 4, 8}
  <2>1. CASE 2 \in bits /\ 4 \in bits
    BY <2>1
  <2>2. CASE 2 \in bits /\ 4 \notin bits
    BY <2>2
  <2>3. CASE 2 \notin bits /\ 4 \in bits
    BY <2>3
  <2>4. CASE 2 \notin bits /\ 4 \notin bits
    BY <2>4
  <2>. QED BY <2>1, <2>2, <2>3, <2>4
<1>. QED BY <1>1, <1>2 DEF CountsPerG

LEMMA AccelerationsAreNumbers == \A s : Acceleration(s) \in Int
BY AccelerationAssumption DEF Acceleration

LEMMA MeasuredIsNumber == Measured \in Int
<1>1. AccDivider \in Nat \ {0} /\ CountsPerG(AccelConfig) \in Nat \ {0}
  BY CountsAreNatural DEF AccDivider
<1>2. \A a, c, d : a \in Int /\ c \in Nat /\ d \in Nat \ {0} => (a * c) \div d \in Int
  OBVIOUS
<1>3. FromChip(Acceleration(podState)) \in Int
  BY <1>1, <1>2, AccelerationsAreNumbers DEF FromChip
<1>. QED BY <1>3, AccelerationsAreNumbers DEF Measured

(* What an iteration of ImuManager changes.                                *)
LEMMA Publication ==
  ASSUME Types, Publish
  PROVE  /\ \E t \in 0..MaxTime, a \in Int :
              sensors' = [sensors EXCEPT !.time = t, !.acceleration = a] /\ t = now'
         /\ now' \in 0..MaxTime /\ now <= now'
         /\ imu' \in [pc : {"new", "run", "ended"}, works : BOOLEAN]
         /\ UNCHANGED <<dataVars, main, fake, gpio, powered, integrator>>
<1>1. now' \in 0..MaxTime /\ now <= now'
  BY TimeAssumption DEF Types, Publish, Tick
<1>2. \E w \in BOOLEAN, a \in Int : /\ imu' = [imu EXCEPT !.works = w]
                                    /\ sensors' = [sensors EXCEPT !.time = now', !.acceleration = a]
  <2>1. PICK w, a : /\ w = (imu.works /\ ~(setup["imu"] = "fails" /\ podState \in FailsIn))
                    /\ a \in {Measured} \union Garbage
                    /\ imu' = [imu EXCEPT !.works = w]
                    /\ sensors' = [sensors EXCEPT !.time = now', !.acceleration = a]
    BY DEF Publish
  <2>2. w \in BOOLEAN
    BY <2>1 DEF Types
  <2>3. a \in Int
    BY <2>1, MeasuredIsNumber DEF Garbage
  <2>. QED BY <2>1, <2>2, <2>3
<1>3. imu' \in [pc : {"new", "run", "ended"}, works : BOOLEAN]
  BY <1>2 DEF Types
<1>. QED BY <1>1, <1>2, <1>3 DEF Publish

-----------------------------------------------------------------------------
(* Types *)

LEMMA InitTypes == ASSUME Init PROVE Types
<1>1. imu \in [pc : {"new", "run", "ended"}, works : BOOLEAN]
  <2>1. Online \subseteq BOOLEAN
    BY DEF Online
  <2>2. PICK online \in Online : imu = [pc |-> "new", works |-> online]
    BY DEF Init
  <2>. QED BY <2>1, <2>2
<1>2. gpio \in [pc : GpioPc, previous : State \union {"unset", "other"}, copy : Sensors] /\ gpio.copy = Blank
  BY BlankStruct DEF Init, GpioPc
<1>3. main \in [pc : MainPc, at : 1..3, copy : Sensors] /\ main.copy = Blank
  BY BlankStruct DEF Init, MainPc
<1>4. fake \in [Range(Sampled) -> Stage]
  BY DEF Init, Stage
<1>5. integrator \in [initialised : BOOLEAN, previous : [time : 0..MaxTime, value : Int]]
  <2>1. [time |-> 0, value |-> 0] \in [time : 0..MaxTime, value : Int]
    BY TimeAssumption
  <2>. QED BY <2>1 DEF Init
<1>6. podState \in State /\ running \in BOOLEAN /\ powered \in BOOLEAN
  BY DEF Init, State
<1>7. sensors = Blank /\ now = 0 /\ Blank.time = 0 /\ 0 \in 0..MaxTime
  BY TimeAssumption DEF Init, Blank
<1>. QED BY <1>1, <1>2, <1>3, <1>4, <1>5, <1>6, <1>7, BlankStruct DEF Types

LEMMA NextDeviceTypes ==
  ASSUME Types PROVE NextDevice \in [pc : MainPc, at : 1..3, copy : Sensors] /\ NextDevice.copy = main.copy
                     /\ NextDevice.pc \in {"sample", "wait"}
<1>0. main \in [pc : MainPc, at : 1..3, copy : Sensors] /\ main.at \in 1..3
  BY DEF Types
<1>1. CASE main.at < 3
  <2>2. main.at + 1 \in 1..3
    BY <1>0, <1>1
  <2>1. NextDevice = [main EXCEPT !.pc = "sample", !.at = main.at + 1]
    BY <1>1, SampledDevices DEF NextDevice
  <2>. QED BY <1>0, <2>1, <2>2 DEF MainPc
<1>2. CASE ~(main.at < 3)
  <2>1. NextDevice = [main EXCEPT !.pc = "wait"]
    BY <1>2, SampledDevices DEF NextDevice
  <2>. QED BY <1>0, <2>1 DEF MainPc
<1>. QED BY <1>1, <1>2

LEMMA FirstDevice ==
  ASSUME NEW m \in [pc : MainPc, at : 1..3, copy : Sensors]
  PROVE  LET n == [m EXCEPT !.pc = "sample", !.at = 1]
         IN  n \in [pc : MainPc, at : 1..3, copy : Sensors] /\ n.copy = m.copy
<1>1. 1 \in 1..3 /\ "sample" \in MainPc
  BY DEF MainPc
<1>. QED BY <1>1

LEMMA MainTypes == ASSUME Types, MainThread PROVE Types'
<1>. USE DEF Types
<1>0. UNCHANGED <<podState, setup, now, gpio, powered, integrator>>
  BY DEF MainThread
<1>1. CASE Construct
  <2>1. running' \in BOOLEAN /\ imu' = imu /\ fake' = fake
    BY <1>1 DEF Construct
  <2>2. main' \in [pc : MainPc, at : 1..3, copy : Sensors] /\ main'.copy = main.copy
    BY <1>1 DEF Construct, MainPc
  <2>3. sensors' \in Sensors /\ sensors'.time = sensors.time
    BY <1>1 DEF Construct, Sensors, ModuleStatus
  <2>. QED BY <1>0, <2>1, <2>2, <2>3
<1>2. CASE Start
  <2>1. main' \in [pc : MainPc, at : 1..3, copy : Sensors] /\ main'.copy = main.copy
    BY <1>2 DEF Start, MainPc
  <2>2. imu' \in [pc : {"new", "run", "ended"}, works : BOOLEAN] /\ running' \in BOOLEAN
    BY <1>2 DEF Start
  <2>. QED BY <1>0, <1>2, <2>1, <2>2 DEF Start
<1>3. CASE Loop \/ Join
  <2>1. main' \in [pc : MainPc, at : 1..3, copy : Sensors] /\ main'.copy = main.copy
    <3>1. CASE main' = [main EXCEPT !.pc = "sample", !.at = 1]
      BY <3>1, FirstDevice
    <3>2. CASE main' = [main EXCEPT !.pc = "join"] \/ main' = [main EXCEPT !.pc = "ended"]
      BY <3>2 DEF MainPc
    <3>. QED BY <1>3, <3>1, <3>2 DEF Loop, Join
  <2>. QED BY <1>0, <1>3, <2>1 DEF Loop, Join
<1>4. CASE Sample
  <2>1. fake' \in [Range(Sampled) -> Stage]
    <3>1. \A d \in Range(Sampled) : RunFake(d) \in Stage
      BY DEF RunFake, Stage
    <3>2. PICK d \in Range(Sampled) : fake' = [fake EXCEPT ![d] = RunFake(d)]
      BY <1>4, SampledDevices DEF Sample
    <3>. QED BY <3>1, <3>2
  <2>2. main' \in [pc : MainPc, at : 1..3, copy : Sensors] /\ main'.copy = main.copy
    <3>1. main' = [main EXCEPT !.pc = "look"] \/ main' = NextDevice
      BY <1>4 DEF Sample
    <3>. QED BY <3>1, NextDeviceTypes DEF MainPc
  <2>. QED BY <1>0, <1>4, <2>1, <2>2 DEF Sample
<1>5. CASE Look
  <2>1. [sensors EXCEPT !.status = kCriticalFailure] \in Sensors
    BY DEF Sensors, ModuleStatus
  <2>2. main' \in [pc : MainPc, at : 1..3, copy : Sensors] /\ main'.copy.time = sensors.time
    BY <1>5, <2>1 DEF Look, MainPc, Sensors
  <2>. QED BY <1>0, <1>5, <2>2 DEF Look
<1>6. CASE Fail
  <2>1. main' \in [pc : MainPc, at : 1..3, copy : Sensors] /\ main'.copy = Blank
    BY <1>6, NextDeviceTypes, BlankStruct DEF Fail
  <2>2. Blank.time = 0 /\ sensors' = main.copy
    BY <1>6 DEF Blank, Fail
  <2>. QED BY <1>0, <1>6, <2>1, <2>2 DEF Fail
<1>. QED BY <1>1, <1>2, <1>3, <1>4, <1>5, <1>6 DEF MainThread

LEMMA GpioTypes == ASSUME Types, GpioThread PROVE Types'
<1>. USE DEF Types
<1>0. UNCHANGED <<dataVars, main, fake, imu, now, integrator>>
  BY DEF GpioThread
<1>. DEFINE Gpio == [pc : GpioPc, previous : State \union {"unset", "other"}, copy : Sensors]
<1>1. CASE SeeState \/ SwitchOff \/ SwitchOn \/ EndGpio
  <2>1. gpio' \in Gpio /\ gpio'.copy = gpio.copy
    <3>1. CASE SeeState
      <4>1. PICK pc \in {"clear", "set", "loop"} : gpio' = [gpio EXCEPT !.pc = pc, !.previous = podState]
        BY <3>1 DEF SeeState
      <4>. QED BY <4>1 DEF GpioPc
    <3>2. CASE SwitchOff \/ SwitchOn \/ EndGpio
      <4>1. PICK pc \in GpioPc : gpio' = [gpio EXCEPT !.pc = pc]
        BY <3>2 DEF SwitchOff, SwitchOn, EndGpio, GpioPc
      <4>. QED BY <4>1
    <3>. QED BY <1>1, <3>1, <3>2
  <2>2. sensors' = sensors /\ powered' \in BOOLEAN
    BY <1>1 DEF SeeState, SwitchOff, SwitchOn, EndGpio
  <2>. QED BY <1>0, <2>1, <2>2 DEF dataVars
<1>2. CASE ReadToClear \/ ReadToSet
  <2>1. PICK off \in BOOLEAN : gpio'.copy = [sensors EXCEPT !.highPowerOff = off] /\ gpio' \in Gpio
    <3>1. \A off \in BOOLEAN : [sensors EXCEPT !.highPowerOff = off] \in Sensors
      BY DEF Sensors
    <3>2. CASE ReadToClear
      BY <3>1, <3>2 DEF ReadToClear, GpioPc
    <3>3. CASE ReadToSet
      BY <3>1, <3>3 DEF ReadToSet, GpioPc
    <3>. QED BY <1>2, <3>2, <3>3
  <2>2. gpio'.copy.time = sensors.time
    BY <2>1 DEF Sensors
  <2>3. sensors' = sensors /\ powered' = powered
    BY <1>2 DEF ReadToClear, ReadToSet
  <2>. QED BY <1>0, <2>1, <2>2, <2>3 DEF dataVars
<1>3. CASE WriteBack
  <2>1. gpio' \in Gpio /\ gpio'.copy = Blank /\ Blank.time = 0
    BY <1>3, BlankStruct DEF WriteBack, GpioPc, Blank
  <2>. QED BY <1>0, <1>3, <2>1 DEF WriteBack, dataVars
<1>. QED BY <1>1, <1>2, <1>3 DEF GpioThread

LEMMA NextTypes == ASSUME Types, [Next]_vars PROVE Types'
<1>. USE DEF Types
<1>1. CASE Publish
  <2>1. PICK t \in 0..MaxTime, a \in Int :
          sensors' = [sensors EXCEPT !.time = t, !.acceleration = a] /\ t = now'
    BY <1>1, Publication
  <2>2. sensors' \in Sensors /\ sensors'.time = now'
    BY <2>1 DEF Sensors
  <2>3. /\ now' \in 0..MaxTime /\ now <= now'
        /\ imu' \in [pc : {"new", "run", "ended"}, works : BOOLEAN]
        /\ UNCHANGED <<podState, running, setup, main, fake, gpio, powered, integrator>>
    BY <1>1, Publication DEF dataVars
  <2>4. {main.copy.time, gpio.copy.time, now, now'} \subseteq Int
    BY <2>3 DEF Sensors
  <2>5. now' <= now' /\ main'.copy.time <= now' /\ gpio'.copy.time <= now'
    BY <2>3, <2>4
  <2>. QED BY <2>2, <2>3, <2>5
<1>2. CASE StopMeasuring
  BY <1>2 DEF StopMeasuring, dataVars
<1>3. CASE Integrate
  BY <1>3 DEF Integrate, dataVars, Point, Sensors
<1>4. CASE Transition
  <2>1. gpio' \in [pc : GpioPc, previous : State \union {"unset", "other"}, copy : Sensors] /\ gpio'.copy = gpio.copy
    BY <1>4 DEF Transition
  <2>. QED BY <1>4, <2>1 DEF Transition
<1>5. CASE StopSystem
  BY <1>5 DEF StopSystem
<1>6. CASE \E d \in Range(Sampled) : Elapse(d)
  <2>1. fake' \in [Range(Sampled) -> Stage]
    BY <1>6 DEF Elapse, Stage
  <2>. QED BY <1>6, <2>1 DEF Elapse, dataVars
<1>7. CASE UNCHANGED vars
  BY <1>7 DEF vars, dataVars
<1>. QED BY <1>1, <1>2, <1>3, <1>4, <1>5, <1>6, <1>7, MainTypes, GpioTypes DEF Next, ImuThread

LEMMA TypesHold == Spec => []Types
BY InitTypes, NextTypes, PTL DEF Spec

(* The structs and the threads' copies of them are what their fields are   *)
(* declared to hold, for every clock and every acceleration; no            *)
(* acceleration of the future is published (data.hpp:74-94).               *)
THEOREM TypeCorrect == Spec => []TypeOK
<1>1. Types => TypeOK
  BY SampledDevices DEF Types, TypeOK, MainPc, GpioPc, Stage
<1>. QED BY <1>1, TypesHold, PTL

-----------------------------------------------------------------------------
(* A device that lacks its pins *)

Unusable == \E d \in Device : UnusableFile(d)

(* Where everything stays if a device is unusable: nobody writes a status  *)
(* that the state machine would wait for.                                  *)
StaysIdle ==
  /\ sensors.status = kStart /\ gpio.copy.status = kStart
  /\ main.pc \notin {"sample", "look", "fail"}
  /\ main.pc # "construct" => ~running
  /\ podState \in {"kIdle", "kFailureStopped"}

IInv == Unusable => StaysIdle

LEMMA InitIInv == ASSUME Init PROVE IInv
<1>1. main.pc = "construct" /\ podState = "kIdle" /\ sensors = Blank /\ gpio.copy = Blank
  BY DEF Init
<1>2. Blank.status = kStart
  BY DEF Blank
<1>. QED BY <1>1, <1>2 DEF IInv, StaysIdle

(* The configuration is never read again.                                  *)
LEMMA SetupStays == ASSUME [Next]_vars PROVE setup' = setup /\ (Unusable' <=> Unusable)
BY DEF Next, vars, dataVars, MainThread, ImuThread, Publish, StopMeasuring, GpioThread, Integrate,
       Transition, StopSystem, Elapse, Unusable, UnusableFile

(* A constructor that misses something stops the system, and the thread    *)
(* finds it stopped before it samples.                                     *)
LEMMA MainStaysIdle == ASSUME Types, Unusable, StaysIdle, MainThread PROVE StaysIdle'
<1>. USE DEF Types, StaysIdle
<1>0. UNCHANGED <<podState, setup, gpio>>
  BY DEF MainThread
<1>1. CASE Construct
  BY <1>0, <1>1 DEF Construct, Unusable
<1>2. CASE Start
  BY <1>0, <1>2 DEF Start
<1>3. CASE Loop
  BY <1>0, <1>3 DEF Loop
<1>4. CASE Join
  BY <1>0, <1>4 DEF Join
<1>. QED BY <1>1, <1>2, <1>3, <1>4 DEF MainThread, Sample, Look, Fail

(* GpioManager writes the status that it read.                             *)
LEMMA GpioStaysIdle == ASSUME Types, StaysIdle, GpioThread PROVE StaysIdle'
<1>. USE DEF Types, StaysIdle
<1>0. UNCHANGED <<podState, running, main>>
  BY DEF GpioThread, dataVars
<1>1. CASE SeeState \/ SwitchOff \/ SwitchOn \/ EndGpio
  BY <1>0, <1>1 DEF SeeState, SwitchOff, SwitchOn, EndGpio
<1>2. CASE ReadToClear \/ ReadToSet
  <2>1. PICK off \in BOOLEAN : gpio'.copy = [sensors EXCEPT !.highPowerOff = off]
    BY <1>2 DEF ReadToClear, ReadToSet
  <2>2. gpio'.copy.status = sensors.status /\ sensors' = sensors
    BY <1>2, <2>1 DEF ReadToClear, ReadToSet, Sensors
  <2>. QED BY <1>0, <2>2
<1>3. CASE WriteBack
  BY <1>0, <1>3 DEF WriteBack, Blank
<1>. QED BY <1>1, <1>2, <1>3 DEF GpioThread

LEMMA NextIInv == ASSUME Types, IInv, [Next]_vars PROVE IInv'
<1>. SUFFICES ASSUME Unusable' PROVE StaysIdle'
  BY DEF IInv
<1>0. Unusable /\ StaysIdle
  BY SetupStays DEF IInv
<1>1. CASE Publish
  <2>1. PICK t \in 0..MaxTime, a \in Int : sensors' = [sensors EXCEPT !.time = t, !.acceleration = a]
    BY <1>1, Publication
  <2>2. sensors'.status = sensors.status
    BY <2>1 DEF Types, Sensors
  <2>. QED BY <1>0, <1>1, <2>2 DEF Publish, dataVars, StaysIdle
<1>2. CASE StopMeasuring \/ Integrate \/ StopSystem \/ (\E d \in Range(Sampled) : Elapse(d)) \/ UNCHANGED vars
  BY <1>0, <1>2 DEF StopMeasuring, Integrate, StopSystem, Elapse, vars, dataVars, StaysIdle
<1>3. CASE Transition
  <2>1. UNCHANGED <<running, main, sensors>> /\ gpio'.copy = gpio.copy
    BY <1>3 DEF Transition, Types
  <2>2. ASSUME NEW t, GoesOn("kFailureStopped", t) \/ GivesUp("kFailureStopped", t) PROVE FALSE
    BY <2>2 DEF GoesOn, GivesUp, Course, Preparing, Moving
  <2>3. ASSUME NEW t, GivesUp("kIdle", t) PROVE t = "kFailureStopped"
    BY <2>3 DEF GivesUp, Preparing, Moving
  <2>4. ~SensorsAllow("kIdle")
    BY <1>0 DEF StaysIdle, SensorsAllow, kStart, kInit
  <2>5. podState' \in {"kIdle", "kFailureStopped"}
    BY <1>0, <1>3, <2>2, <2>3, <2>4 DEF StaysIdle, Transition
  <2>. QED BY <1>0, <2>1, <2>5 DEF StaysIdle
<1>. QED BY <1>0, <1>1, <1>2, <1>3, MainStaysIdle, GpioStaysIdle DEF Next, ImuThread

(* The pod does not leave its first state on its own, and no device is     *)
(* sampled, while a device lacks its pins: no thread that writes the       *)
(* struct makes the status rise (sensors/main.cpp:17-134, 405-419).        *)
THEOREM InitialisedGenuinely == Spec => []InitialisedIsGenuine
<1>1. IInv => InitialisedIsGenuine
  BY DEF IInv, StaysIdle, Unusable, InitialisedIsGenuine
<1>. QED BY <1>1, InitIInv, NextIInv, TypesHold, PTL DEF Spec

-----------------------------------------------------------------------------
(* The high power *)

(* GpioManager is between seeing the state and publishing the switches.    *)
SwitchingOn == gpio.pc \in {"set", "read"} \/ (gpio.pc = "write" /\ ~gpio.copy.highPowerOff)

Early  == {"kIdle", "kPreCalibrating", "kCalibrating"}
Ending == {"kNominalBraking", "kFailureBraking"}
Run    == {"kReady", "kAccelerating", "kCruising", "kPreBraking", "kFailurePreBraking"} \union Ending

Works == sensors.status # kCriticalFailure

(* No thread runs before Main is constructed; Main writes failures only,   *)
(* and the power is off when GpioManager is about to write that it is.     *)
Threads ==
  /\ main.pc = "construct" => podState = "kIdle"
  /\ main.pc = "fail" => main.copy.status = kCriticalFailure
  /\ gpio.pc = "switch_off" => gpio.copy.highPowerOff
  /\ gpio.pc = "write" /\ gpio.copy.highPowerOff => ~powered

(* The power is switched on once, for PreReady.                            *)
SwitchesOnOnce ==
  SwitchingOn => podState \notin Early /\ (podState = "kPreReady" => gpio.previous = "kPreReady")

(* As long as it may yet be switched on, what Main is to write does not    *)
(* say that it is off unless the struct does.                              *)
MainIsCurrent ==
  podState \in Early \/ (podState = "kPreReady" /\ gpio.previous # "kPreReady") \/ SwitchingOn
    => (main.pc = "fail" /\ main.copy.highPowerOff => sensors.highPowerOff)

(* In a run the flag is to be trusted, unless a sensor failed; a copy from *)
(* before the failure would make it trusted again.                         *)
FlagIsTrue ==
  podState \in Run =>
    /\ Works /\ sensors.highPowerOff => ~powered /\ ~SwitchingOn
    /\ gpio.pc = "write" /\ ~gpio.copy.highPowerOff /\ gpio.copy.status # kCriticalFailure
         => ~sensors.highPowerOff

PowerIsOff ==
  podState \in Ending =>
    /\ Works => ~powered /\ ~SwitchingOn
    /\ gpio.pc = "write" /\ ~gpio.copy.highPowerOff => gpio.copy.status = kCriticalFailure

Interlock == Threads /\ SwitchesOnOnce /\ MainIsCurrent /\ FlagIsTrue /\ PowerIsOff

LEMMA InitInterlock == ASSUME Init PROVE Interlock
<1>1. podState = "kIdle" /\ main.pc = "construct" /\ gpio.pc \in {"ended", "loop"}
  BY DEF Init
<1>. QED BY <1>1 DEF Interlock, Threads, SwitchesOnOnce, MainIsCurrent, FlagIsTrue, PowerIsOff,
                     SwitchingOn, Early, Run, Ending

(* Main writes what it read, with a failure in it.                         *)
LEMMA MainInterlock == ASSUME Types, Interlock, MainThread PROVE Interlock'
<1>. USE DEF Types, Interlock, Threads, SwitchesOnOnce, MainIsCurrent, FlagIsTrue, PowerIsOff,
             SwitchingOn, Works
<1>0. UNCHANGED <<podState, gpio, powered>>
  BY DEF MainThread
<1>1. CASE Construct
  <2>1. sensors'.highPowerOff = sensors.highPowerOff /\ main'.pc \notin {"construct", "fail"}
    BY <1>1 DEF Construct, Sensors
  <2>. QED BY <1>0, <1>1, <2>1 DEF Construct, Run, Ending
<1>2. CASE Start \/ Loop \/ Join
  <2>1. sensors' = sensors /\ main'.pc \notin {"construct", "fail"}
    BY <1>2 DEF Start, Loop, Join
  <2>. QED BY <1>0, <2>1
<1>3. CASE Sample
  <2>1. sensors' = sensors /\ main'.pc \notin {"construct", "fail"}
    BY <1>3, NextDeviceTypes DEF Sample
  <2>. QED BY <1>0, <2>1
<1>4. CASE Look
  <2>1. /\ sensors' = sensors /\ main'.pc = "fail"
        /\ main'.copy.highPowerOff = sensors.highPowerOff
        /\ main'.copy.status = kCriticalFailure
    BY <1>4 DEF Look, Sensors
  <2>. QED BY <1>0, <2>1
<1>5. CASE Fail
  <2>1. sensors' = main.copy /\ main.pc = "fail" /\ main'.pc \in {"sample", "wait"}
    BY <1>5, NextDeviceTypes DEF Fail
  <2>2. sensors'.status = kCriticalFailure
    BY <2>1
  <2>3. podState \in Run /\ gpio.pc = "write" /\ ~gpio.copy.highPowerOff /\ gpio.copy.status # kCriticalFailure
          => ~sensors'.highPowerOff
    BY <2>1
  <2>. QED BY <1>0, <2>1, <2>2, <2>3
<1>. QED BY <1>1, <1>2, <1>3, <1>4, <1>5 DEF MainThread

LEMMA GpioInterlock == ASSUME Types, Interlock, GpioThread PROVE Interlock'
<1>. USE DEF Types, Interlock, Threads, SwitchesOnOnce, MainIsCurrent, FlagIsTrue, PowerIsOff,
             SwitchingOn, Works
<1>0. UNCHANGED <<podState, main>>
  BY DEF GpioThread, dataVars
<1>1. CASE SeeState
  <2>1. /\ UNCHANGED <<sensors, powered>>
        /\ gpio.pc = "loop" /\ podState # gpio.previous
        /\ gpio'.copy = gpio.copy /\ gpio'.previous = podState
        /\ gpio'.pc \in {"loop", "clear", "set"}
        /\ gpio'.pc = "set" => podState = "kPreReady"
    BY <1>1 DEF SeeState
  <2>. QED BY <1>0, <2>1 DEF Early, Run, Ending
<1>2. CASE ReadToClear
  <2>1. /\ UNCHANGED <<sensors, powered>>
        /\ gpio.pc = "clear" /\ gpio'.pc = "switch_off"
        /\ gpio'.copy.highPowerOff /\ gpio'.previous = gpio.previous
    BY <1>2 DEF ReadToClear, Sensors
  <2>. QED BY <1>0, <2>1
<1>3. CASE SwitchOff
  <2>1. /\ sensors' = sensors /\ ~powered'
        /\ gpio.pc = "switch_off" /\ gpio'.pc = "write"
        /\ gpio'.copy = gpio.copy /\ gpio'.previous = gpio.previous
    BY <1>3 DEF SwitchOff
  <2>. QED BY <1>0, <2>1
<1>4. CASE SwitchOn
  <2>1. /\ sensors' = sensors
        /\ gpio.pc = "set" /\ gpio'.pc = "read"
        /\ gpio'.copy = gpio.copy /\ gpio'.previous = gpio.previous
    BY <1>4 DEF SwitchOn
  <2>. QED BY <1>0, <2>1
<1>5. CASE ReadToSet
  <2>1. /\ UNCHANGED <<sensors, powered>>
        /\ gpio.pc = "read" /\ gpio'.pc = "write"
        /\ ~gpio'.copy.highPowerOff /\ gpio'.copy.status = sensors.status
        /\ gpio'.previous = gpio.previous
    BY <1>5 DEF ReadToSet, Sensors
  <2>. QED BY <1>0, <2>1
<1>6. CASE WriteBack
  <2>1. /\ sensors' = gpio.copy /\ powered' = powered
        /\ gpio.pc = "write" /\ gpio'.pc = "loop" /\ gpio'.previous = gpio.previous
    BY <1>6 DEF WriteBack
  <2>. QED BY <1>0, <2>1
<1>7. CASE EndGpio
  <2>1. /\ UNCHANGED <<sensors, powered>>
        /\ gpio.pc = "loop" /\ gpio'.pc = "ended" /\ gpio'.previous = gpio.previous
    BY <1>7 DEF EndGpio
  <2>. QED BY <1>0, <2>1
<1>. QED BY <1>1, <1>2, <1>3, <1>4, <1>5, <1>6, <1>7 DEF GpioThread

LEMMA TransitionInterlock == ASSUME Types, Interlock, Transition PROVE Interlock'
<1>. USE DEF Types, Interlock, Threads, SwitchesOnOnce, MainIsCurrent, FlagIsTrue, PowerIsOff,
             SwitchingOn, Works
<1>1. /\ UNCHANGED <<sensors, main, powered>> /\ main.pc # "construct"
      /\ gpio'.pc = gpio.pc /\ gpio'.copy = gpio.copy
      /\ gpio'.previous \in {gpio.previous, "other"}
  BY DEF Transition
<1>2. /\ podState' # "kIdle"
      /\ podState' \in Early => podState \in Early
      /\ podState' = "kPreReady" => podState \in Early
      /\ podState' \in Run /\ podState \notin Run => podState = "kPreReady" /\ ~sensors.highPowerOff
      /\ podState' \in Ending /\ podState \notin Ending => podState \in Run /\ sensors.highPowerOff
  BY DEF Transition, GoesOn, GivesUp, Course, Preparing, Moving, Early, Run, Ending, SensorsAllow
<1>. QED BY <1>1, <1>2 DEF Early, Run, Ending

LEMMA NextInterlock == ASSUME Types, Interlock, [Next]_vars PROVE Interlock'
<1>1. CASE Publish
  <2>1. PICK t \in 0..MaxTime, a \in Int : sensors' = [sensors EXCEPT !.time = t, !.acceleration = a]
    BY <1>1, Publication
  <2>2. sensors'.status = sensors.status /\ sensors'.highPowerOff = sensors.highPowerOff
    BY <2>1 DEF Types, Sensors
  <2>3. UNCHANGED <<podState, main, gpio, powered>>
    BY <1>1 DEF Publish, dataVars
  <2>. QED BY <2>2, <2>3 DEF Interlock, Threads, SwitchesOnOnce, MainIsCurrent, FlagIsTrue,
                            PowerIsOff, SwitchingOn, Works
<1>2. CASE StopMeasuring \/ Integrate \/ StopSystem \/ (\E d \in Range(Sampled) : Elapse(d)) \/ UNCHANGED vars
  <2>1. UNCHANGED <<podState, main, gpio, powered, sensors>>
    BY <1>2 DEF StopMeasuring, Integrate, StopSystem, Elapse, vars, dataVars
  <2>. QED BY <2>1 DEF Interlock, Threads, SwitchesOnOnce, MainIsCurrent, FlagIsTrue,
                       PowerIsOff, SwitchingOn, Works
<1>. QED BY <1>1, <1>2, MainInterlock, GpioInterlock, TransitionInterlock DEF Next, ImuThread

(* Unless a sensor failed the pod does not brake under power, however      *)
(* GpioManager is overtaken by the state machine while it switches, and by *)
(* Main while it holds a copy (gpio_manager.cpp:29-51).                    *)
THEOREM PowerIsOffWhileBraking == Spec => []BrakesWithoutPower
<1>1. Interlock => BrakesWithoutPower
  BY DEF Interlock, PowerIsOff, BrakesWithoutPower, Works, Ending
<1>. QED BY <1>1, InitInterlock, NextInterlock, TypesHold, PTL DEF Spec

-----------------------------------------------------------------------------
(* The speed that the pod navigates by *)

(* What an acceleration can be worth at most.                              *)
Top == Max({MaximumAcceleration, CruisingDeceleration, BrakingDeceleration} \union Garbage)

LEMMA TopIsHighest ==
  /\ Top \in Nat
  /\ \A n \in {MaximumAcceleration, CruisingDeceleration, BrakingDeceleration} \union Garbage : n <= Top
<1>. DEFINE S == {MaximumAcceleration, CruisingDeceleration, BrakingDeceleration} \union Garbage
<1>1. S \subseteq Nat
  BY AccelerationAssumption DEF Garbage
<1>2. \E m \in S : \A n \in S : n <= m
  <2>1. \A a, b, c, d, e \in Nat :
          \E m \in {a, b, c, d, e} : a <= m /\ b <= m /\ c <= m /\ d <= m /\ e <= m
    OBVIOUS
  <2>2. S = {MaximumAcceleration, CruisingDeceleration, BrakingDeceleration, 0, 1}
    BY DEF Garbage
  <2>. QED BY <2>1, <2>2, AccelerationAssumption
<1>3. Top = CHOOSE m \in S : \A n \in S : m >= n
  BY DEF Top, Max
<1>. HIDE DEF S
<1>4. Top \in S /\ \A n \in S : n <= Top
  <2>1. \E m \in S : \A n \in S : m >= n
    BY <1>1, <1>2
  <2>2. Top \in S /\ \A n \in S : Top >= n
    BY <1>3, <2>1
  <2>. QED BY <1>1, <2>2
<1>. QED BY <1>1, <1>4 DEF S

(* init() leaves the chip at the scale that the code divides by: the write *)
(* of the filter is in the bank of the register, and so is that of the     *)
(* scale, which adds bit 1 and leaves bit 2 cleared.                       *)
LEMMA ScaleOfInit == 2 \in AccelConfig /\ 4 \notin AccelConfig
<1>1. /\ Len(ImuInit) = 17 /\ DOMAIN ImuInit = 1..17
      /\ ImuInit[5] = Select(2) /\ ImuInit[6] = Write("AccelConfig", {1})
      /\ ImuInit[7] = Write("AccelConfig", {8}) /\ ImuInit[8] = ReadOr("AccelConfig", {2})
      /\ \A i \in 1..17 \ {6, 7, 8} : ImuInit[i].reg # "AccelConfig"
  BY DEF ImuInit, Select, Write, ReadOr
<1>2. \A i \in DOMAIN ImuInit : Reaches(i) => i \in {6, 7, 8}
  BY <1>1 DEF Reaches
<1>3. Reaches(8)
  <2>1. ImuInit[8].reg = "AccelConfig" /\ ImuInit[6].op # "select" /\ ImuInit[7].op # "select"
    BY <1>1 DEF ReadOr, Write
  <2>2. \A k \in (5 + 1)..(8 - 1) : k = 6 \/ k = 7
    OBVIOUS
  <2>. QED BY <1>1, <2>1, <2>2 DEF Reaches
<1>4. 2 \in AccelConfig
  <2>1. 2 \in ImuInit[8].val
    BY <1>1 DEF ReadOr
  <2>2. \A j \in DOMAIN ImuInit : j > 8 /\ Reaches(j) => ImuInit[j].op = "or"
    BY <1>2
  <2>. QED BY <1>1, <1>3, <2>1, <2>2 DEF AccelConfig
<1>5. \A i \in {6, 7, 8} : 4 \notin ImuInit[i].val
  BY <1>1 DEF ReadOr, Write
<1>. QED BY <1>2, <1>4, <1>5 DEF AccelConfig

LEMMA ChipMeasures == ASSUME NEW a \in Int PROVE FromChip(a) = a
<1>1. CountsPerG(AccelConfig) = 8192
  BY ScaleOfInit DEF CountsPerG
<1>2. AccDivider = 8192
  BY DEF AccDivider, CountsPerG
<1>3. (a * 8192) \div 8192 = a
  OBVIOUS
<1>. QED BY <1>1, <1>2, <1>3 DEF FromChip

Modest(a) == a \in Int /\ -Top <= a /\ a <= Top

LEMMA ReadingsAreModest == Modest(Measured) /\ \A a \in Garbage : Modest(a)
<1>1. \A s : Modest(Acceleration(s))
  BY TopIsHighest, AccelerationAssumption DEF Acceleration, Modest
<1>2. Measured = Acceleration(podState)
  BY ChipMeasures, AccelerationsAreNumbers DEF Measured
<1>3. \A a \in Garbage : Modest(a)
  BY TopIsHighest DEF Garbage, Modest
<1>. QED BY <1>1, <1>2, <1>3

(* Until a failure or GpioManager writes the struct back, the point that   *)
(* the integrator has seen is no later than the one in the struct, and     *)
(* neither is faster than the pod can be.                                  *)
PointsInOrder ==
  /\ main.pc = "construct" => sensors.status # kCriticalFailure /\ gpio.copy.status # kCriticalFailure
  /\ main.pc = "fail" => main.copy.status = kCriticalFailure
  /\ gpio.previous = "unset" => gpio.pc \in {"loop", "ended"}
  /\ Untouched => /\ Modest(sensors.acceleration)
                  /\ Modest(integrator.previous.value)
                  /\ integrator.previous.time <= sensors.time

LEMMA InitPoints == ASSUME Init PROVE PointsInOrder
<1>1. sensors = Blank /\ gpio.copy = Blank /\ main.pc = "construct" /\ gpio.pc \in {"loop", "ended"}
  BY DEF Init
<1>2. Blank.acceleration = 0 /\ Blank.time = 0 /\ Blank.status = kStart
  BY DEF Blank
<1>3. integrator.previous.value = 0 /\ integrator.previous.time = 0
  BY DEF Init
<1>4. Modest(0)
  BY TopIsHighest DEF Modest
<1>. QED BY <1>1, <1>2, <1>3, <1>4 DEF PointsInOrder, kStart, kCriticalFailure

LEMMA NextPoints == ASSUME Types, PointsInOrder, [Next]_vars PROVE PointsInOrder'
<1>. USE DEF PointsInOrder, Untouched
<1>1. CASE Publish
  <2>1. PICK a : /\ a \in {Measured} \union Garbage
                 /\ sensors' = [sensors EXCEPT !.time = now', !.acceleration = a]
    BY <1>1 DEF Publish
  <2>2. Modest(a) /\ now <= now' /\ now' \in Int
    <3>1. now <= now' /\ now' \in 0..MaxTime
      BY <1>1, Publication
    <3>2. Modest(a)
      BY <2>1, ReadingsAreModest
    <3>. QED BY <3>1, <3>2
  <2>3. sensors'.status = sensors.status /\ sensors'.time = now' /\ sensors'.acceleration = a
    BY <2>1 DEF Types, Sensors
  <2>4. UNCHANGED <<main, gpio, integrator>>
    BY <1>1 DEF Publish
  <2>5. Untouched => integrator.previous.time <= now'
    BY <2>2 DEF Types, Sensors
  <2>6. Modest(sensors'.acceleration) /\ Modest(integrator.previous.value)' = Modest(integrator.previous.value)
    BY <2>2, <2>3, <2>4
  <2>. QED BY <2>3, <2>4, <2>5, <2>6
<1>2. CASE Integrate
  <2>1. UNCHANGED <<main, gpio, sensors>>
    BY <1>2 DEF Integrate
  <2>2. integrator'.previous.time = sensors.time /\ integrator'.previous.value = sensors.acceleration
    BY <1>2 DEF Integrate, Point
  <2>3. sensors.time <= sensors.time
    BY DEF Types, Sensors
  <2>. QED BY <2>1, <2>2, <2>3
<1>3. CASE StopMeasuring \/ StopSystem \/ (\E d \in Range(Sampled) : Elapse(d)) \/ UNCHANGED vars
  <2>1. UNCHANGED <<main, gpio, sensors, integrator>>
    BY <1>3 DEF StopMeasuring, StopSystem, Elapse, vars, dataVars
  <2>. QED BY <2>1
<1>4. CASE Transition
  <2>1. UNCHANGED <<main, sensors, integrator>> /\ main.pc # "construct"
    BY <1>4 DEF Transition
  <2>2. gpio'.pc = gpio.pc /\ (gpio'.previous = "unset" <=> gpio.previous = "unset")
    BY <1>4 DEF Transition, Types
  <2>. QED BY <2>1, <2>2
<1>5. CASE MainThread
  <2>0. UNCHANGED <<gpio, integrator>>
    BY <1>5 DEF MainThread
  <2>1. CASE Construct
    <3>1. sensors'.time = sensors.time /\ sensors'.acceleration = sensors.acceleration
      BY <2>1 DEF Construct, Types, Sensors
    <3>2. main.pc = "construct" /\ main'.pc \notin {"construct", "fail"}
      BY <2>1 DEF Construct, Types
    <3>3. Untouched' => Untouched
      BY <2>0, <3>2
    <3>. QED BY <2>0, <3>1, <3>2, <3>3 DEF Modest
  <2>2. CASE Start \/ Loop \/ Join \/ Sample
    <3>1. sensors' = sensors /\ main'.pc \notin {"construct", "fail"}
      BY <2>2, NextDeviceTypes DEF Start, Loop, Join, Sample, Types
    <3>. QED BY <2>0, <3>1
  <2>3. CASE Look
    <3>1. sensors' = sensors /\ main'.pc = "fail" /\ main'.copy.status = kCriticalFailure
      BY <2>3 DEF Look, Types, Sensors
    <3>. QED BY <2>0, <3>1
  <2>4. CASE Fail
    <3>1. sensors'.status = kCriticalFailure /\ main'.pc \notin {"construct", "fail"}
      BY <2>4, NextDeviceTypes DEF Fail, Types
    <3>. QED BY <2>0, <3>1
  <2>. QED BY <1>5, <2>1, <2>2, <2>3, <2>4 DEF MainThread
<1>6. CASE GpioThread
  <2>0. UNCHANGED <<main, integrator>>
    BY <1>6 DEF GpioThread
  <2>1. CASE SeeState
    <3>1. /\ sensors' = sensors /\ gpio'.copy = gpio.copy
          /\ gpio'.previous = podState /\ podState # "unset"
      BY <2>1 DEF SeeState, Types, State
    <3>. QED BY <2>0, <3>1
  <2>2. CASE EndGpio
    <3>1. /\ sensors' = sensors /\ gpio'.copy = gpio.copy
          /\ gpio'.previous = gpio.previous /\ gpio'.pc = "ended"
      BY <2>2 DEF EndGpio, Types
    <3>. QED BY <2>0, <3>1
  <2>3. CASE ReadToClear \/ SwitchOff \/ SwitchOn \/ ReadToSet \/ WriteBack
    <3>1. gpio'.previous = gpio.previous /\ gpio.previous # "unset"
      BY <2>3 DEF ReadToClear, SwitchOff, SwitchOn, ReadToSet, WriteBack, Types
    <3>2. main.pc = "construct" => /\ sensors'.status # kCriticalFailure
                                   /\ gpio'.copy.status # kCriticalFailure
      <4>1. gpio'.copy.status \in {gpio.copy.status, sensors.status, kStart}
        <5>1. \/ \E off \in BOOLEAN : gpio'.copy = [sensors EXCEPT !.highPowerOff = off]
              \/ gpio'.copy = gpio.copy \/ gpio'.copy = Blank
          BY <2>3 DEF ReadToClear, SwitchOff, SwitchOn, ReadToSet, WriteBack, Types
        <5>2. \A off : [sensors EXCEPT !.highPowerOff = off].status = sensors.status
          BY DEF Types, Sensors
        <5>3. Blank.status = kStart
          BY DEF Blank
        <5>. QED BY <5>1, <5>2, <5>3
      <4>2. sensors'.status \in {gpio.copy.status, sensors.status}
        BY <2>3 DEF ReadToClear, SwitchOff, SwitchOn, ReadToSet, WriteBack
      <4>. QED BY <4>1, <4>2 DEF kStart, kCriticalFailure
    <3>. QED BY <2>0, <3>1, <3>2
  <2>. QED BY <1>6, <2>1, <2>2, <2>3 DEF GpioThread
<1>. QED BY <1>1, <1>2, <1>3, <1>4, <1>5, <1>6 DEF Next, ImuThread

(* A difference of timestamps that are in order is what it looks like.     *)
LEMMA NoWrap ==
  ASSUME NEW from \in 0..MaxTime, NEW to \in 0..MaxTime, from <= to
  PROVE  Elapsed(from, to) = to - from
<1>1. to - from \in 0..(TimestampRange - 1)
  BY TimeAssumption
<1>2. \A n \in Nat : \A i \in 0..(n - 1) : i % n = i
  OBVIOUS
<1>. QED BY <1>1, <1>2, TimeAssumption DEF Elapsed

LEMMA ProductBound ==
  ASSUME NEW t \in Nat, NEW n \in Nat, NEW s \in Int, NEW e \in 0..n, -(2 * t) <= s, s <= 2 * t
  PROVE  s * e \in (-2 * t * n)..(2 * t * n)
<1>1. s * e \in Int /\ (2 * t) * e <= (2 * t) * n
  OBVIOUS
<1>2. s * e <= (2 * t) * e /\ -((2 * t) * e) <= s * e
  OBVIOUS
<1>. QED BY <1>1, <1>2

LEMMA GainIsPossible == ASSUME Types, PointsInOrder, Untouched PROVE Possible(Gain)
<1>. DEFINE from == IF integrator.initialised THEN integrator.previous ELSE Point
<1>1. /\ Point.time = sensors.time /\ Point.value = sensors.acceleration
      /\ sensors.time \in 0..MaxTime /\ now \in 0..MaxTime /\ sensors.time <= now
  BY DEF Point, Types, Sensors
<1>2. from.time \in 0..MaxTime /\ from.time <= sensors.time
  BY <1>1 DEF PointsInOrder, Types
<1>3. Modest(from.value) /\ Modest(Point.value)
  BY <1>1 DEF PointsInOrder
<1>4. Gain = (Point.value + from.value) * Elapsed(from.time, Point.time)
  BY DEF Gain
<1>. HIDE DEF from
<1>5. Elapsed(from.time, Point.time) \in 0..now
  BY <1>1, <1>2, NoWrap
<1>6. /\ Point.value + from.value \in Int
      /\ -(2 * Top) <= Point.value + from.value /\ Point.value + from.value <= 2 * Top
  BY <1>3, TopIsHighest DEF Modest
<1>7. Gain \in (-2 * Top * now)..(2 * Top * now)
  BY <1>1, <1>4, <1>5, <1>6, TopIsHighest, ProductBound
<1>. QED BY <1>7 DEF Possible, Top

(* As long as only ImuManager writes accelerations, no update adds more to *)
(* the velocity than the pod can have gained since it began to move: the   *)
(* points are in order, the unsigned difference of their times does not    *)
(* wrap, and a chip is read at the scale that it was set to                *)
(* (integrator.hpp:49-67, imu.cpp:202-226, imu_manager.cpp:51-65).         *)
THEOREM SpeedBelievable == Spec => SpeedIsBelievable
<1>1. Types /\ PointsInOrder => [BelievableGain]_vars
  BY GainIsPossible DEF BelievableGain
<1>. QED BY <1>1, InitPoints, NextPoints, TypesHold, PTL DEF Spec, SpeedIsBelievable
=============================================================================
