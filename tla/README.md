# Verification of the pod software

TLA+ models of the control software of the Hyp-ed pod (C++, `src/src` and
`src/run`), TLC configurations that check them on small instances, and theorems
about them that TLAPS proves for every value of the constants.

All paths below are relative to the root of the project; `src/src/` is the
source directory of the repository.

Contents: [the system](#1-the-system) - [the models](#2-the-models) -
[the runs](#3-the-runs) - [fairness](#4-fairness) - [the proofs](#5-the-proofs) -
[disagreements](#6-where-code-and-comments-disagree) -
[what is left out](#7-what-is-not-modelled) - [the plan](#8-the-plan)

## 1. The system

One process runs six modules, each a thread (`src/run/main.cpp`): brakes,
navigation, propulsion, sensors, state machine, telemetry; several of them start
more threads. They have no channels. All they share is the *blackboard*
`data::Data`: a singleton with one struct per module, one lock per struct, and
getters and setters that copy a whole struct. There is no lock over two structs,
and none between the getter that copies a struct and the setter that writes the
changed copy back. Each struct carries a `module_status` (kCriticalFailure,
kStart, kInit, kReady); the state machine publishes `current_state` and the
others follow it, and report back through their status.

So the hard behaviour is nearly all of two kinds: **a decision made from copies
that are no snapshot and may be old**, and **a read-modify-write of a struct that
loses what another thread wrote meanwhile**. Around them: emergencies that must
end a run in time, work that takes a second while the state moves on, a network
that breaks, and threads that must end so that `main()` can join them.

### Inventory

| component | sources (`src/src/`) | state it keeps | operations | talks to |
|---|---|---|---|---|
| blackboard | `data` | one struct per module, `current_state`, `high_power_off`, commands | locked getters and setters of whole structs | everybody |
| state machine | `state_machine` | current state object, copies of six structs | `updateModuleData` (six getters), `checkTransition` of 14 states, `exit`/`enter` | reads all structs, publishes `current_state`, stops the system |
| brakes | `brakes` | two brakes with pin and button, `brakes_retracted` | iteration by published state: engage, retract, sleep a second, check | acts on `current_state`, writes its status |
| navigation | `navigation` | `status_`, which sensors are reliable, outliers in a row, estimates | calibrate in three attempts, query sensors, reject outliers, compare encoders with IMUs, `updateData` | reads sensors, publishes kinematics and status |
| propulsion | `propulsion` | members of four motor controllers, CAN reply flag, copy of struct Motors | initialise, send over CAN and wait for the reply, accelerate, quick stop | CAN thread, status of motors, which `Main`, `StateProcessor` and each `Controller` write |
| sensors | `sensors` | drivers, BMS data per unit, high-power relays | `Main` polls, `ImuManager`, `BmsManager` and `GpioManager` threads | write structs Sensors and Batteries |
| sensor drivers, simulated sensors | `sensors/{imu,temperature,ambient_pressure,brake_pressure,bms}.*`, `sensors/fake_*` | registers, raw values, the time of a failure to come | initialise, convert a reading, simulate one and its failure | I2C, SPI, ADC, CAN; the configuration chooses which |
| telemetry | `telemetry` | connection, two copies of struct Telemetry | connect, Sender loop, Receiver loop | operator's server, struct Telemetry |
| system | `utils/system.*` | `running_`, configuration | `stop`, `isRunning`, signal handlers | polled by every thread |
| concurrency | `utils/concurrent` | - | lock, scoped lock, thread, barrier, condition variable | - |
| device I/O | `utils/io` | pins, CAN socket, processors | GPIO, I2C, SPI, ADC, CAN thread | drivers, propulsion, BMS |
| mathematics | `utils/math` | - | vectors, statistics, Kalman filter, integrator | navigation |
| main | `src/run/main.cpp` | - | construct, start, join in order | all threads |
| debugging | `debugging` | - | bench console, in an executable of its own | - |

### What makes each of them correct

* **State machine.** The run goes through its phases in order and nothing that
  failed becomes nominal again; what is published is the state it is in; an
  emergency that lasts a pass is not overlooked by six separate getters, none is
  invented, and one that stays is acted on; the braking zone is not crossed; a
  shut down ends the thread.
* **Brakes.** No brake is engaged from the end of the calibration until the pod
  brakes, although the thread sleeps over states that pass; a pod that brakes
  gets its brakes; a brake that drags ends the run; a failure is not masked.
* **Telemetry.** An emergency stop that arrived stays an emergency whichever of
  the two writers writes last; no command is lost while the Sender works; a lost
  link is reported for good; the threads end.
* **Navigation.** A sensor that works is not given up because another one is
  broken, and a broken one cannot shift what goes to the filters; the loss of two
  sensors of a kind is on the blackboard for good; a calibration ends.
* **Propulsion.** Drives that accelerate are configured or known to have failed; a
  state that was asked for and not reached is noticed, although statuses come late
  and a lost command is not sent again; a drive that is silent or hot ends up in the status, past the
  copies that are written over it; a pod that brakes stops its drives, for good.
* **Sensors.** A limit that was exceeded stays reported although several threads
  write one struct; no device is used that the file gives no pins; the pod does
  not brake with the high power on; the velocity gains only what an acceleration
  can give.
* **Batteries.** Ready means that the values in the same struct are in range; a pack
  that nothing is heard of reads zero; simulated failures come when they should.
* **System and main.** After `stop()` every thread ends and the joins return.

`PROJECT.json` lists 37 hazards at the lines where they bite, each with the
properties that would catch it going wrong, or a note why none does.

## 2. The models

### Conventions

One step of a model is one access to a struct of the blackboard, or the private
computation between two accesses: getters and setters hold the struct's lock, so
nothing can come between within one, and anything can between two. A program
counter (`pc`, `bpc`, `mpc`, `spc`, `rpc`, `npc`, `ppc`) says where a thread is. Names follow the source.
Definitions marked "Fault:" are plausible slips in the code and are used by
no specification; replacing the definition that follows them by them breaks a property,
which shows that the property can fail.

Status values keep the order of the enumeration as numbers, since the code
compares with `<`. Distances and velocities are integers: the code only adds
and compares them here, and the theorems do not bound them.

### Modules

| module | models | how state and actions correspond to the code |
|---|---|---|
| `PodData` | `data/data.hpp` | enumerations, constants of the track, the kinematics of struct Navigation |
| `PodLifecycle` | *abstract* | five phases (preparing, moving, braking, stopped, off) and whether the run was given up |
| `StateMachine` | `state_machine/*` | `seen` is the set of copies in `State`; `Read(m)` one getter of `updateModuleData`; one action `Check...` per state's `checkTransition` together with `exit()`/`enter()`, which touch nothing else shared before they publish; `Start`, `BeginPass`, `Exit` the loop of `Main::run`. An open environment (`Report`, `Fail`, `Receive`, `Navigate`, `SwitchHighPower`, `StopSystem`) does whatever the code of the other modules may do to the blackboard |
| `StateMachineHistory` | - | history of the current pass: which causes of an emergency lasted, which occurred |
| `Brakes` | `brakes/main.cpp`, `brake.cpp` | `ReadState` is the switch of `run()`; the state is read once and `task` carries it through `CommandBrakes`, `Wake`, `Check(b)`, `PublishReady`; `Follow` and `Slip` are the hardware (external) |
| `BrakedPod` | both threads over one blackboard | the state machine's environment without the brakes' part, and the brakes thread in its place; `nominalBraking` is the operator's flag |
| `Telemetry` | `telemetry/main.cpp`, `sender.cpp`, `receiver.cpp`, what `client.cpp` returns | `sent` and `received` are the copies the two loops make; `Send` may fail, `ReceiveNothing` is a closed connection, on which `recv()` returns an error or an empty string, that is, a message nobody understands |
| `PodCourse` | the course of a run, `state_machine/state.cpp` | which state may follow which (`GoesOn`, `GivesUp`), for modules whose thread only looks at the published state |
| `Configuration` | `utils/system.cpp`, `parseArgs`; the `fromFile`/`readConfig` functions of the sensors | `Config`, every configuration the options of a file can produce, with the bytes that nobody initialises free; `SensorKinds` and `BatteryKind`, what the constructors make of it: a fake, one that fails, a real device, or pins that are missing, too few or too many |
| `Controllers` | `propulsion/controller.cpp`, `can/can_sender.cpp`, `state_processor.cpp`, `utils/io/can.cpp` | a call of `StateProcessor` is the list of messages and looks at `state_` that it makes (`Script`), worked off by `Send`, `Arm` (`is_sending_` set after the frame went out), `Answered`, `Timeout`, `LookAtState`; `at` is the controller and the item of its list that the call has come to; the command of a transition is sent once, and its tries repeat the request for the status (`statusAgain`); `Deliver` and `Process` are the CAN thread; the bus and the drives are external, with loss, delay, silence, emergency, heat and restart |
| `Propulsion` | `propulsion/main.cpp`, `state_processor.cpp` over `Controllers` | `ppc` is where `run()` is; `Switch` is the switch over the state, `Accelerate`/`WriteBack` the copy of struct Motors that `accelerate()` holds while it waits for the controllers, `Resume` what comes after a call |
| `Navigation` | `navigation/main.cpp`, `navigation.cpp` | `queryImus` and `queryWheelEncoders` are one detection each: quartiles (`Judge`), counters, sensors given up, status; `compareEncoderImu` writes to the blackboard only, `updateData` overwrites it with `status_`; `Terminate` is the exception of `at()` |
| `Sensors` | `sensors/main.cpp`, `imu_manager.cpp`, `gpio_manager.cpp`, the drivers' conversions, the fakes, `utils/math/integrator.hpp` | `main`, `imu`, `gpio` are the three threads on one struct; `Look`/`Fail` and `ReadTo...`/`WriteBack` are the two halves of a read-modify-write of the whole struct, `Publish` writes one field; `Integrate` is the reader |
| `Batteries` | `sensors/bms_manager.cpp`, `bms.cpp`, `fake_batteries.cpp` | `bpc` is the manager's pass: read the struct, each battery (`ReadData`; `ReadClock` and `Compare` for a real one, as `isOnline()` reads clock and update time one after the other), publish the verdict; the CAN thread stores frames in between |
| `MCSamples`, `MC*` | - | values of constants for TLC |
| `*Proofs` | - | theorems and their proofs, one module per component |

Details that matter, and are easily got wrong:

* `PublishedBy`, `ReadyByCalibration`: the environment publishes only the
  statuses that some line publishes, and brakes, navigation and motors become
  ready only after a published kCalibrating. All else about timing is free.
* `OlderCommands`: when the Sender fails it writes back a struct copied before
  it sent, so a failure of the telemetry may take away commands that were
  already there (`telemetry/sender.cpp:39`). `CommandsAreKept` of `Telemetry` is
  why only a failure can.
* The guard of `Wake`: the thread sleeps `kBrakeCommandWaitTime` (a second),
  which is taken to be enough for a brake that works to reach the position its
  pin asks for. A brake in `Sticky` may ignore its pin, or move by itself.
* Any frame of a controller's node ends its wait, and it does so before the
  controller has processed the frame (`Deliver`, `Process`); a frame that is
  delivered between `Send` and `Arm` is forgotten.
* The numbers of the outlier detection are twice those of the code, so that the halves
  of its quartiles are integers. What the detection may make of all readings is
  tabulated once (`Table`, `Verdicts`); a reading is chosen by choosing a verdict.
* The conversions of the drivers are modelled by what they do to the bits: a raw value
  loses all but its low byte before it is scaled, a pressure after it.
* `AccelConfig` is what the register of an IMU's scale holds after `init()`: of the writes in
  `ImuInit` only those count that are made while the register's bank is selected (`Reaches`),
  and of these the last one and what was added to it since. `FromChip` divides by what the code
  takes the scale to be.
* `Sensors` takes its struct, and both copies of it, as whole values: a write-back
  restores every field, the accelerations with their time stamp included.

### How they fit together

`StateMachine` has an environment that over-approximates every other module.
`BrakedPod` closes it on the side of the brakes, with the real thread in place of
`Report("brakes")` and `Fail("brakes")`. `Telemetry`, `Propulsion`, `Navigation`,
`Sensors` and `Batteries` stand beside it, each with the state machine reduced to `PodCourse`
(or to the part of it they see): the pod may go on as soon as *this* module allows it, and
may give up at any time because of another. That is more than the state machine does,
so what holds here holds there. What `Telemetry` shows of struct Telemetry (flags only rise while the Sender works, a status
that only falls once connected) is what `Receive` and `Fail` of the environment assume.
`Propulsion` extends `Controllers`, whose variables it shares; the
run `controllers` checks the calls of `StateProcessor` in any order, the run `propulsion`
in the one that `run()` makes them. `Sensors` and `Batteries` start from every
configuration that `Configuration` yields.
`PodLifecycle` is what `StateMachine` implements under the mapping
`PhaseOf(current)`, `OutcomeOf(podState)`. The outcome is taken from the
*published* state, so the refinement also says that no thread can see a nominal
state after a failure.

## 3. The runs

| run | specification | checks | shows |
|---|---|---|---|
| `state_machine` | `HSpec` | `TypeOK`, `PublishedState`, `ImplementsLifecycle`, `NominalOnlyWhenHealthy`, `FailureHasCause` | polling struct by struct implements the abstract life cycle, what is published is the state the machine is in; no emergency that lasts a pass is overlooked, none is invented |
| `state_machine_liveness` | `MCFairSpec` | `EmergencyIsHandled`, `BrakesInTime`, `ShutsDown` | a cause that stays makes the machine leave each of the nine states that watch; exactly at the edge of the braking zone the pod does not go on accelerating or cruising; a commanded shut down ends the thread, unless a failure of the Sender loses the command |
| `braked_pod` | `MCFairSpec` | `PTypeOK`, `DrivesWithBrakesOff`, `BrakesEngage`, `DraggingBrakeIsNoticed` | no sound brake is engaged between calibration and braking, with the other brake slipping; a pod that stays in a braking state gets its brakes, after a nominal run and after a brake failed; a brake that drags ends the run, by way of brakes thread, status, getter and decision |
| `telemetry` | `FairSpec` | `TypeOK`, `StopHolds`, `CommandsAreKept`, `StopArrives`, `LinkLossIsReported` | what survives of commands and of a stop when two threads write back copies of one struct; a stop becomes an emergency also if the link breaks first; a lost link is reported for good |
| `controllers` | `CtlFairSpec` | `PreparedOrFailed`, `SilenceIsNoticed`, `CallsEnd` | calls of `StateProcessor` in any order, under every fault of bus and drive: each ends, a silent drive is noticed, a drive that was prepared operates or is known to have failed |
| `propulsion` | `FairSpec` | `TypeOK`, `AcceleratesConfigured`, `StopIsFinal`, `DrivesAreStopped`, `UnfitDriveIsPublished` | a run of the pod over two drives, one of them silent, hot, or with a message lost: configured before they accelerate, stopped in every kind of braking and not driven again, and unfit ones get to the blackboard past the copies that are written over it |
| `navigation` | `FairSpec` | `TypeOK`, `GoodSensorsAreTrusted`, `BrokenImuIsBounded`, `LossIsPublished`, `CalibrationEnds` | the outlier detection of both kinds of sensors while up to three of them break, in all states of a run |
| `sensors` | `FairSpec` | `TypeOK`, `InitialisedIsGenuine`, `SpeedIsBelievable`, `BrakesWithoutPower`, `FailureIsPublished` | start-up from every configuration with at most one odd device, then four threads on one struct |
| `batteries` | `FairSpec` | `TypeOK`, `ReadyIsInRange`, `FakesFailUnderWay`, `SilentPackReadsZero`, `FailedFakeIsPublished` | what ready means, when simulated failures come, and what becomes of a pack that falls silent |
| `state_machine_pre_braking`, `navigation_quartiles`, `propulsion_ready` | | `PreBrakingIsPassed`; `QuartilesAreReturned`; `ReadyPrepares` | a comment of the code is refuted, see [section 6](#6-where-code-and-comments-disagree) |

### Bounds, and why they are enough

* **Kinematics**: `MCNavSamples` holds the maximum velocity far from the zone
  (v = 100, d = 300, b = 250), speed exactly at its edge (v = 90,
  1250 - 1030 = 200 + 20) and standing in it; with the rest at which a run begins
  they fall on both sides of the three thresholds `checkTransition` compares
  against, and onto the edge where `<=` and `<` differ. A pod that is at the edge
  and never slower stays in NominalBraking, which is what the liveness
  properties are about. The run `state_machine` uses two samples (`MCFewNavSamples`), the second one
  standing exactly at the edge, which reach every state too.
* **Commands**: flags only ever rise, so sending one twice adds nothing. The
  run `state_machine` leaves `emergency_stop` to `state_machine_liveness`, and to the
  theorems, which prove its properties with it.
* **MaxFaults** = 1 where modules may fail. A decision tests whether *some*
  module failed; a second failure adds no cause that the first does not show, and
  the proofs cover any number. In the run of `BrakedPod` it is 0: the failures
  there come from the brakes thread itself, which does not count.
* **Orderly** (`MCStateMachine`, `MCBrakedPod`) bounds how the open environment
  interleaves in the runs `state_machine_liveness` and `braked_pod`: modules that report independently do it
  in one order, commands come in the order of a run, the pod does not move
  backwards, the high power is switched off once. In `MCStateMachine` only the
  machine itself stops the system, and there is one cause of emergency at a time;
  in `MCBrakedPod` nothing stops it, and the operator orders the brakes off before
  the calibration. It restricts the environment only: the threads interleave
  freely with it and with each other, and their fairness is untouched, so a
  counterexample under it is one without it. What it leaves out are mostly
  commuting reports. The run `state_machine` does without it, and the safety properties of
  `braked_pod` are theorems of `PSpec`, which does not have it either.
* **GpioRuns** = TRUE where the run is to get through PreBraking. The program as
  `main()` starts it corresponds to FALSE (see the findings); TRUE keeps the
  later states reachable.
* **Sticky**: one brake, the magnetic one (the two are alike); if both slip there is no sound brake left to
  claim anything of.
* **MaxMessages** = 3: a stop, something before and something after it, while
  the Sender holds an older copy. The messages are ones that raise a flag, that
  lower one, and one not understood.
* **N**, **Configuration**: in `Controllers.cfg` one controller, as they share nothing but
  the caller, which asks them one after the other, and two messages that configure it, so
  that one can be lost while the other is answered; `StatusBits` {0, 16} are a status word
  that the code decodes and one that it does not. In `Propulsion.cfg` two controllers, so that
  one fails while the other has to be served. `MaxFaults` = 1: a second fault finds a
  controller that already failed, or one on its own. `Propulsion.cfg` leaves out the
  faults that `Controllers.cfg` has looked at and that the thread does not tell from others.
* **NumSensors** = 4 as in the code; `OutlierLimit` = 2 instead of 1000: the counter is only
  compared with the limit. `Noise` {20, 21} differs by less than the range of the quartiles may
  be, `Wild` {0, 26, 27} lies below, just within and just beyond what is tolerated. Two sensors
  of a kind may break (`Fragile`), three in all, so that one kind can be lost while the other
  has one broken.
* **MaxOdd** = 1: one device that is not a working fake; the devices have no state in
  common but the struct. With a `GpioManager` only the devices of `GpioDevices` may be odd, in
  the run the ambient pressure, which is the one whose failure Main reports and has nothing
  else to do with; the theorems hold for every `GpioDevices`, all devices included.
  `MaxTime` = 1 lets two points have different times; `TimestampRange` stands for 2^32 and has
  to be larger than the times that occur.
* **LowPower**, **HighPower**: one battery of each kind; the manager's loops over them are
  alike, and the current that low power batteries share has a frame of its own. `Second` = 2 ticks
  and `Delay` = 1 let an update come within a second, after one, and between the two reads of
  `isOnline()`. `StartUp` = 0: the batteries start up in the first tick. In this instance
  `ReadyIsInRange` is mainly about the fakes: a real low power battery whose voltage is in range
  (30 to 37, in tenths of a volt) has a charge of zero by the code's table, which is out of
  range, so real low power batteries are critical after the start. All that the frames of a high
  power battery hold is in range in this run. `BatteriesFrames.cfg`, kept beside the runs, has one high power battery whose frames are
  in range or not: it becomes ready and leaves the range later, and the safety properties hold
  (`tlc -config BatteriesFrames.cfg Batteries`, 287 thousand states). The theorem covers all
  frames.
* What some properties do not say: `UnfitDriveIsPublished` asks for one moment in which the
  status is critical, since a later copy may be written over it; `SpeedIsBelievable` ends with
  the first write-back of the whole struct; `InitialisedIsGenuine` claims nothing of a file with
  too many pins for the IMUs, after which the code's behaviour is undefined; `PreparedOrFailed` is
  about the calls of `StateProcessor`, one of which `run()` never makes (`NeverInOperation`).
* Numbers of threads, structs and brakes are the real ones. No symmetry is used.

Deadlock checking is off in all runs: the threads are meant to end when the
system stops, and a server or a drive that is silent leaves nothing to do.

## 4. Fairness

Weak fairness of each thread as a whole (`StateMachineStep`, `TheBrakes`,
`MainStep`, `SenderStep`, `ReceiverStep`). A thread is an OS thread; its steps
take a lock that others hold only for the length of a copy, compute, sleep or
yield; none waits for a condition another thread would have to establish, with
one exception, `recv()`, whose action is enabled only when there is something to
read or the connection is gone. `BrakedPod` also assumes that a brake that is not
sticky follows its pin.

`Controllers` and `Propulsion` assume weak fairness of the propulsion thread (whose
wait ends by an answer or by the time-out of `CanSender`), of the CAN thread, and of the
drives' `Answer`, which a silent drive takes by swallowing the message. `Navigation` assumes it of
the navigation thread, `Sensors` of Main alone, `Batteries` of the manager, of time, and of each
battery that has not fallen silent.

Nothing is assumed of the environment: modules need not
report, the operator need not command, navigation need not publish. So the
liveness properties have the form "while the cause stays", and end with
"or the system is stopped".

## 5. The proofs

Proved by TLAPS for all values of the constants that satisfy their assumptions
(`NavSamplesAssumption`: kinematics are triples of integers;
`CommandsAssumption`, `StickyAssumption`, `ServerMessagesAssumption`: subsets of
the declared sets; `FramesAssumption`: what a frame holds fits into its bytes;
`BatteriesAssumption`: a battery is of one kind; `NumSensorsAssumption`: more than two sensors
of a kind; `NAssumption`, `ConfigurationAssumption`: there is a controller, and something to
configure; `StatusBitsAssumption`: the bits of a status word that `processSdoMessage` does not
look at; `TimeAssumption`: the clock does not wrap within a run; `AccelerationAssumption`: the
accelerations of a run are positive; `FaultsAssumption`, `GpioDevicesAssumption`: subsets of the
declared sets; the others give constants their type). Numbers of controllers, sensors,
messages and faults are not bounded in any theorem.

| theorem | module | statement |
|---|---|---|
| `TypeCorrect` | `StateMachineProofs` | `Spec => []TypeOK` |
| `PublishedStateCorrect` | `StateMachineProofs` | `Spec => []PublishedState` |
| `LifecycleRefined` | `StateMachineProofs` | `Spec => ImplementsLifecycle` |
| `NominalStepsAreHealthy` | `StateMachineHistoryProofs` | `HSpec => NominalOnlyWhenHealthy` |
| `FailuresHaveCauses` | `StateMachineHistoryProofs` | `HSpec => FailureHasCause` |
| `PodTypeCorrect` | `BrakedPodProofs` | `PSpec => []PTypeOK` |
| `BrakesStayOff` | `BrakedPodProofs` | `PSpec => []DrivesWithBrakesOff` |
| `TypeCorrect` | `TelemetryProofs` | `Spec => []TypeOK` |
| `StopIsHeld` | `TelemetryProofs` | `Spec => []StopHolds` |
| `CommandsKept` | `TelemetryProofs` | `Spec => []CommandsAreKept` |
| `TypeCorrect` | `NavigationProofs` | `Spec => []TypeOK` |
| `LossPublished` | `NavigationProofs` | `Spec => []LossIsPublished` |
| `FailuresAreFinal` | `NavigationProofs` | `Spec => FailureIsFinal` |
| `GoodSensorsTrusted` | `NavigationProofs` | `Spec => []GoodSensorsAreTrusted`, if `NumSensors >= 4` and `NarrowNoise` |
| `BrokenImusBounded` | `NavigationProofs` | `Spec => []BrokenImuIsBounded`, under the same |
| `TypeCorrect` | `PropulsionProofs` | `Spec => []TypeOK` |
| `StoppedForGood` | `PropulsionProofs` | `Spec => StopIsFinal` |
| `ConfiguredBeforeThrust` | `PropulsionProofs` | `Spec => []AcceleratesConfigured` |
| `PreparedInOperation` | `PropulsionProofs` | `CtlSpec => PreparedOrFailed` |
| `NeverInOperation` | `PropulsionProofs` | `Spec => [](call # "prepareMotors" /\ \A n \in Node : drive[n].state # "kOperationEnabled")` |
| `TypeCorrect` | `SensorsProofs` | `Spec => []TypeOK` |
| `InitialisedGenuinely` | `SensorsProofs` | `Spec => []InitialisedIsGenuine` |
| `PowerIsOffWhileBraking` | `SensorsProofs` | `Spec => []BrakesWithoutPower` |
| `SpeedBelievable` | `SensorsProofs` | `Spec => SpeedIsBelievable` |
| `TypeCorrect` | `BatteriesProofs` | `Spec => []TypeOK` |
| `ReadyInRange` | `BatteriesProofs` | `Spec => []ReadyIsInRange` |
| `FakesFailUnderWayOnly` | `BatteriesProofs` | `Spec => []FakesFailUnderWay` |

**State machine.** `IInv` adds to type and publication that nothing is left in
the copies between passes, and that the thread starts in Idle. `DecideInv` treats
all decisions alike, since each is an instance of `Decide`;
`CheckTransitionInv` applies it thirteen times. For the refinement `DecideMoves`
says where a decision can go, `Phases` computes the mapping on every state, and
`CheckTransitionLifecycle` finds for each state the abstract step or stutter.

**History.** The question is how six separate getters can say anything of an
instant. `LingeringSeen`: a cause that has been on the blackboard since the pass
began, in a struct the pass has already read, is in the copies. At the decision all
structs are read, so whatever lingered is seen: the decision is not nominal.
Conversely the copies hold only causes that occurred in the pass.

**Brakes.** `DrivesWithBrakesOff` is not inductive: in kReady the brakes thread could
still hold the task of engaging. `Handshake` says why it cannot: a pod past
calibration has seen kReady of the brakes (`CopiesOfBrakes`), only a calibration
publishes that (`OnlyCalibrationPublishes`), a calibration releases the brakes
first (`CalibrationReleases`), after the sleep a sound brake is where its pin asks
for (`Settled`), and from that moment no task but calibrating and verifying can
be taken up before braking begins (`CalibratesLate`, `Calibrated`). Each is proved for
the state machine's steps, the brakes', the hardware's and the others' separately.

**Telemetry.** The Receiver's copy is the one that will be written, so the
invariants speak of it: `CopyHoldsStop` (a copy in flight is an emergency once a stop was
stored, since only the Receiver stores and it copies after it stores) and
`CopyKeepsCommands` (while the Sender works, the copy has the commands that the
struct has). `NotBegun` covers the time before Main has connected.

**Navigation.** That a loss is published is not inductive: between two detections the
blackboard may hold less than the thread knows. The invariant says that the thread
knows (`LossIsKnown`: two sensors of a kind lost, then `status_` is critical, which
`DetectInv` shows of any verdict on any readings), that it has published
what it knows when it looks at the state (`KnownIsPublished`), and that a calibration
only runs while it knows nothing (`NothingFound`). `FailuresAreFinal` follows from the
same: only a calibration sets a status other than critical. Nothing is assumed
of what the detection takes for an outlier.

The other two theorems are about just that. They suppose what the code relies on: at least
four sensors of a kind (`kNumImus` and `kNumEncoders` are 4), and readings of working ones that
differ by no more than `kMaxInterQuartileRange` (`NarrowNoise`). `NthHasRank` characterises the
sort by the ranks of what it picks, found by the least subset on which a count is reached and not by
induction over the list. With `Place` it follows that whichever sensor is farthest out has a
neighbour that works beside it, so no quartile, and no tolerance around them, can be moved past
a working sensor by one broken one (`OnlySuspectIsOutlier`), and that what the
broken one reads without being rejected, and the median that replaces it otherwise,
lie between readings of working ones but for twice the range (`UsedIsPlausible`). `TrustInv`
carries this through the run: which sensors have been given up, and what was measured. With
`NumSensors` = 3 TLC refutes the first: after the broken one is given up, the two that are left
reject each other.

**Propulsion.** The sequences of frames are the difficulty: what a controller knows is old.

* `Final` says that while anything of a stop exists (the call, a request, a stopped drive,
  `Stopping`) the pod is past the states that drive and the thread can no longer take up a call
  that does (`Committed`), and that no velocity is queued behind a stop, per
  drive (`StopsAreLast`).
* `ConfiguredBeforeThrust` needs an account of the handshake. `Clean(n)`: no failure of the
  controller is known, none is announced by a frame that is under way, and the drive has not
  restarted. For a clean controller one thing only is under way at a time: `InTurn` says, for each
  point of `Send`, `Arm` and the wait, which message or answer that is, and that
  an answer means that the drive took the message; `ByTurns` says that those before it are
  configured completely and those after it have not been asked anything. So a frame that ends a
  wait too early cannot come from a clean controller: a time-out would have made it critical,
  and an emergency or a boot message makes it no longer clean. `Configured` keeps the result,
  and `NotBefore` relates it to the pod: with `kReady` published over other states by older
  copies, still no copy and no state is beyond the calibration before `is_initialised_` is set.
  TLC checked this invariant on 6.5 million states of two controllers with all faults, two at a
  time, before it was proved.
* For `PreparedOrFailed` the state of a drive is followed through the places where it is known or
  will be: `state_` of the controller, the frame that the CAN thread handles, the frames on the
  way, the drive, the messages that will change it, in this order, which is that of time (`At`;
  `In` says operation, `Out` another state). Deliveries, answers and what the drives do only move
  this along or lose some of it (`Moves`, shown by a monotone map between the positions), so what
  has an order keeps it (`MovedOn`), and answers that come late, or to a status asked for in
  place of the command, need no account of their own. `Prepared(n)` says that nothing before the 14th item of the node's script brings
  the drive into operation after it was known to be out of it (`StaysOut`), and nothing after it
  takes it out again (`StaysIn`). The one is turned into the other at the look that finds
  kReadyToSwitchOn: the state known first is then not operation, so nothing behind it is. At the
  look that finds kOperationEnabled there is, likewise, nothing that says otherwise, the drive
  included (`OnlyIn`). TLC checked this on 5 million states before it was proved.
* `NeverInOperation` says that the thread makes no use of that: the member that
  `handleTransition()` compares is set before the loop only, so one iteration at most
  sees a transition. `TooLate`: it has been seen before a call begins and before
  `is_initialised_` is set, without which no kReady is seen (`NotBefore`). `NoneEnabled`:
  nothing but `prepareMotors()` sends "enable", so no drive has got it.

**Sensors.** If a device is unusable, no thread writes a status that the state machine
waits for (`StaysIdle`): Main finds the system stopped before it samples, and
a `GpioManager` writes back the status that it has read.

For the high power, `Interlock` says that it is switched on once, for PreReady
(`SwitchesOnOnce`); that until then Main's copy does not say that it is off unless the struct does
(`MainIsCurrent`), since a copy from before would be written back over the flag; that the
flag is true in a run unless a sensor failed (`FlagIsTrue`); and that a pod that brakes has seen
it (`PowerIsOff`). What Main writes back contains its failure, so a lost flag comes with a
failure that is not.

`SpeedBelievable` multiplies a mean of two accelerations by a difference of unsigned
times. `PointsInOrder`: until a whole struct is written back, the point the integrator has seen
is no later than the one in the struct. So the difference does not wrap (`NoWrap`). `ScaleOfInit`
reads off the register writes that the chip ends up at the scale the code divides by, in
spite of the write of the filter's setting to the same register, so what comes from a chip is
the acceleration itself (`ChipMeasures`).

**Batteries.** `VerdictWaits` (no verdict before the start-up) and `PassOverFakes` (within a
pass what has been read of a fake is in range, or the fake has failed) carry a
status from the pass that decided on it to the next; frames may be stored between any two
steps (`CanInv`).

**Only model-checked:** everything under fairness (`EmergencyIsHandled`,
`BrakesInTime`, `ShutsDown`, `BrakesEngage`, `DraggingBrakeIsNoticed`,
`StopArrives`, `LinkLossIsReported`, `SilenceIsNoticed`, `CallsEnd`, `DrivesAreStopped`,
`UnfitDriveIsPublished`, `CalibrationEnds`, `FailureIsPublished`, `SilentPackReadsZero`,
`FailedFakeIsPublished`) and the refuted claims, as the prover does not reason about
fairness and ENABLED. Every safety property that a passing run checks has its theorem.

## 6. Where code and comments disagree

Three are runs that TLC must refute, with an entry under "findings" that quotes the comment:

1. **PreBraking is never left** (`state_machine_pre_braking`, `PreBrakingIsPassed`). It waits
   for `high_power_off`, which only `GpioManager` sets, and no one constructs one.
   The same wait is in FailurePreBraking, where not even an emergency ends it; the
   brakes are engaged only after.
2. **The quartiles throw** (`navigation_quartiles`, `QuartilesAreReturned`). With fewer than two
   reliable sensors of a kind `calculateImuQuartiles` and its twin index past their lists with
   `at()`; nobody catches the exception, and the process ends while the pod brakes.
3. **The motors are never prepared** (`propulsion_ready`, `ReadyPrepares`). `run()` keeps the
   state in a local `current_state_` that hides the member (`propulsion/main.cpp:47`), and
   `handleTransition()` compares the member, so it "returns true if the pod state has changed"
   (`main.hpp:31`) in the first iteration only. kReady calls `sendOperationalCommand()` on a
   transition, so never. `NeverInOperation` proves that no drive gets into operation.

Others have a configuration that is kept beside the runs, and refutes the property
it names (`tlc -config <cfg> <module>`):

| configuration | module | property | what the code does |
|---|---|---|---|
| `StateMachineCommanded.cfg` | `MCStateMachine` | `InitialisedMeansCommanded` | `checkModulesInitialised` looks at statuses only; its comment and its log line speak of the calibrate command, which PreCalibrating waits for |
| `BrakedPodFlag.cfg` | `MCBrakedPod` | `FlagMeansRetracted` | both checks set `brakes_retracted`, none clears it |
| `BrakedPodMasked.cfg` | `MCBrakedPod` | `CriticalBrakesEndTheRun` | kReady is published right after the check that reported kCriticalFailure |
| `TelemetrySenderFailure.cfg` | `Telemetry` | `SenderFailureStays` | the Receiver's older copy overwrites the failure of the Sender: the struct says kReady and nothing is sent any more |
| `TelemetryShutDown.cfg` | `Telemetry` | `EndsWhenStopped` | the Receiver's loop ignores `isRunning()` and blocks in `recv()`, and `main()` in its join |
| `PropulsionMasked.cfg` | `Propulsion` | `FailedIsPublished` | kReady is published from a copy made before a controller published its critical failure (`propulsion/main.cpp:55-58`) |
| `PropulsionBraking.cfg` | `Propulsion` | `BrakingStopsDrives` | after a failure of the motors the thread ends without stopping the drives, which go on while the pod brakes (`propulsion/main.cpp:22-27`) |
| `SensorsTime.cfg` | `Sensors` | `PointsAreInOrder` | the struct that Main writes back holds an older acceleration: its time runs backwards, and the difference of unsigned time stamps is huge |
| `BatteriesOnline.cfg` | `Batteries` | `OfflineIsGenuine` | an update between the two reads of `isOnline()` makes the unsigned difference wrap: a battery that was just heard of is offline for a pass |

What the models contain of the code's other oddities, and no property is claimed about:

* **Propulsion.** `is_sending_` is cleared before the controller processes the frame, and by any
  frame of the node (`can_sender.cpp:38-51`). The frame that `requestStateTransition` is to repeat is
  a reference to `sdo_message_`, into which `checkState()` copies its own request
  (`controller.cpp:27-31`, `90-94`, `178-187`): the command goes out once, the other tries ask for
  the status, and a command that is lost ends in a critical failure unless the drive is in the
  state that was asked for anyway. Network commands are not
  answered, so waiting for one always times out. The temperature is asked for with one
  sub-index and recognised by another.
* **Navigation.** The failure that `compareEncoderImu` writes is withdrawn by `updateData` in the
  same iteration, unless the state machine looks in between. No code writes encoder data.
* **Sensors.** A constructor that fails stops the system, and `run()` then uses managers that
  were not made. Real temperatures and brake pressures are out of range whatever the
  raw value is, since it is cut to a byte before it is scaled. The fake temperature that fails
  is cut from 300 to 44, which is in range. The fake brake pressure fails in the first
  iteration. The option `use_fake_brake_pressure_fail` sets that of the ambient pressure
  (`system.cpp:286`) and leaves its own uninitialised. `high_power_off` can be lost to Main's
  write-back. Of a fake that works and one that fails, the batteries take the first and
  the sensors the second, if both are asked for.
* **Batteries.** Thermistors keep a battery online that is dead; the frame of the current does not
  count as an update of those that share it.

## 7. What is not modelled

* Numerics in floating point (`utils/math` but for the integrator's times; the filters,
  distances, vibration and uncertainty of navigation, of which the last two are only
  logged; the tables of the regulator): outside TLC and of the provers.
* SPI, I2C, ADC and GPIO transfers, the FIFO of the IMU, which nothing reads, parsing of JSON
  and of files of pins, logging: I/O or text without shared state. Of the configuration only
  what chooses devices is kept.
* Registration of CAN processors while the CAN thread iterates over them (`utils/io/can.cpp:177`):
  a torn vector is undefined behaviour without a set of outcomes to choose from.
* The death of the process by SIGPIPE, when it sends on a reset connection. `Telemetry` lets
  `send()` return its error instead. Exceptions and null pointers in navigation and sensors
  are modelled, by a thread that is "terminated" and a world that stands still.
* The fake controllers, brakes and CAN sender: they send nothing and never fail, so that the
  threads above them have nothing to meet.
* `Barrier` and `ConditionVariable`, which have no user; `debugging`, which is for the bench.
* Time. Sleeps are steps; the brake's second is an assumption on `Wake`; seconds of the batteries
  are ticks. A fake's time to failure is any time.

`PROJECT.json` gives the state of each component.

## 8. The plan

Done: `PodData`, `StateMachine` with `PodLifecycle`, `Brakes` and `BrakedPod`,
`Telemetry`, `Configuration`, `Controllers` and `Propulsion`, `Navigation`, `Sensors`, `Batteries`,
and the proofs of section 5. Left:

| module | content | abstract specification | runs and bounds | theorems |
|---|---|---|---|---|
| `Shutdown` | `stop()`, loops that ask and loops that do not, joins in the order of `main()` | all threads ended | all threads, each a loop | the main thread passes join *k* only after thread *k* |
| `Pod` | `StateMachine` closed with `Telemetry`, then with one more module at a time | `StateMachine`'s environment | smallest instances of each | the closed modules implement the environment |

Theorems worth most, after these: that `Telemetry`, `Navigation` and `Batteries` implement the parts
of `StateMachine!Environment` that stand for them (so that the theorems on the state
machine hold of the composition), and that `BrakedPod` implements `StateMachine`
(its brakes do only what `Report` and `Fail` allow, where the fault bound is
replaced by history).
