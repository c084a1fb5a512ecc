----------------------------- MODULE Batteries -----------------------------
(***************************************************************************)
(* BmsManager (src/src/sensors/bms_manager.cpp) and the batteries that it  *)
(* watches: simulated ones (fake_batteries.cpp), or real ones whose frames *)
(* the CAN thread stores (bms.cpp).  Time passes in ticks, and is known by *)
(* how many of them ago something happened.                                *)
(***************************************************************************)
EXTENDS PodData, Configuration, FiniteSets, Sequences

CONSTANTS
  LowPower, HighPower,  \* the batteries, disjoint sets
  Cells,                \* what a cell of a low power battery may have, in mV
  Temperatures,         \* what a thermistor may send, as a byte
  Currents,             \* what a frame may hold of a current, as 16 bits
  Voltages, Charges,    \* what the frame of a high power battery may hold of the others
  Insulation,           \* what the insulation monitor may read, in mV
  StartUp,              \* bms_startup_time_micros, in ticks
  Second,               \* a second, in ticks
  Delay                 \* bound: ticks between the two reads of isOnline()

ASSUME BatteriesAssumption == LowPower \intersect HighPower = {} /\ LowPower \union HighPower # {}
(* uint8_t, uint16_t and int16_t.                                          *)
Byte       == {n \in Nat : n < 256}
Word       == {n \in Nat : n < 65536}
SignedWord == {n \in Int : -32768 <= n /\ n < 32768}

ASSUME FramesAssumption ==
  /\ Cells \subseteq Word /\ Currents \subseteq Word /\ Insulation \subseteq Word /\ Voltages \subseteq Word
  /\ Temperatures \subseteq Byte /\ Charges \subseteq Byte
ASSUME TicksAssumption == StartUp \in Nat /\ Second \in Nat \ {0, 1} /\ Delay \in Nat

Battery == LowPower \union HighPower

(* What may fall silent: the batteries, and the thermistors of all.        *)
Source == Battery \union {"thermistors"}

(* All that the batteries see of a run.                                    *)
Journey == <<"kReady", "kAccelerating", "kCruising">>

VARIABLES
  podState,   \* Data: the state that the state machine published
  running,    \* System::running_
  batteries,  \* Data: struct FullBatteryData
  kind,       \* the configuration: "fake" and "fails" are simulated, "real" is not
  fake,       \* FakeBatteries: "fresh", "started" to accelerate, "due" to fail, "failed"
  frames,     \* Bms: what the CAN thread has stored, of each low power battery
  pack,       \* HighPowerBms: what it has stored of the others
  current,    \* Bms::current_, which all low power batteries share, in mA
  age,        \* ticks since last_update_time_, up to Second + Delay
  alive,      \* the sources that send
  since,      \* ticks since the manager read the clock in isOnline()
  boot,       \* ticks since start_time_, up to StartUp + 1
  bpc, left,  \* the manager: its next step, the batteries that are left to read
  copy        \* the manager: battery_data_

(* struct BatteryData, in the units of the code, and the whole struct.      *)
Reading == [voltage : Int, charge : Int, current : Int, temperature : Int, fault : BOOLEAN]

BatteryData == [status : ModuleStatus \ {kStart}, data : [Battery -> Reading]]

(* What the drivers of the low power batteries keep.                       *)
Frames == [cells14 : Nat, cells57 : Nat, temperature : Int]

busVars     == <<frames, pack, current, age>>
managerVars == <<bpc, left, copy>>
vars == <<podState, running, batteries, kind, fake, busVars, alive, since, boot, managerVars>>

-----------------------------------------------------------------------------
(* Conversions *)

(* Of the low bits of a number, range values, with their sign.             *)
Signed(n, range) == IF n % range >= range \div 2 THEN (n % range) - range ELSE n % range

Truncated(n, d) == IF n < 0 THEN -((-n) \div d) ELSE n \div d

Charge(voltage) ==
  CASE voltage >= 252 -> 95
    [] voltage \in 210..251 -> (10 * voltage - 1988 + 5) \div 10
    [] voltage \in 207..209 -> 15
    [] voltage \in 200..206 -> 10
    [] voltage \in 189..199 -> 5
    [] OTHER -> 0

(* Bms::getData(); an unsigned sum of seven cells, and 0x800000 has no bit *)
(* within the width of a current.                                          *)
LowPowerData(b) ==
  LET voltage == ((4 * frames[b].cells14 + 3 * frames[b].cells57) % 65536) \div 100
  IN  [voltage |-> voltage, charge |-> Charge(voltage), current |-> Truncated(current, 100),
       temperature |-> IF frames[b].temperature = -40 THEN 0 ELSE frames[b].temperature,
       fault |-> FALSE]

FakeData(b, stage) ==
  IF stage # "failed"
  THEN [voltage |-> 35, charge |-> 35, current |-> 35, temperature |-> 35, fault |-> FALSE]
  ELSE IF b \in LowPower
  THEN [voltage |-> 100, charge |-> 0, current |-> 1000, temperature |-> 100, fault |-> FALSE]
  ELSE [voltage |-> 900, charge |-> 0, current |-> 10000, temperature |-> 70, fault |-> FALSE]

getData(b, stage) ==
  IF kind # "real" THEN FakeData(b, stage) ELSE IF b \in LowPower THEN LowPowerData(b) ELSE pack[b]

(* checkBatteriesInRange() and checkInuslationMonitoringDevice(); the one  *)
(* temperature stands for the three of a high power battery.               *)
InRange(b, d) ==
  /\ d.charge \in 20..100
  /\ IF b \in LowPower
     THEN d.voltage \in 30..37 /\ d.current \in 0..150 /\ d.temperature \in 0..70
     ELSE d.voltage \in 33..42 /\ d.current \in 0..4000 /\ d.temperature \in 0..80 /\ ~d.fault

AllInRange(data) == \A b \in Battery : InRange(b, data[b])

-----------------------------------------------------------------------------
(* The CAN thread hands a frame to the drivers: processNewData() *)

Refresh(b) == age' = [age EXCEPT ![b] = 0]

(* Cells 1 to 4, cells 5 to 7, the temperature; other offsets store        *)
(* nothing, and count as an update.                                        *)
LowPowerFrame(b) ==
  /\ b \in alive
  /\ Refresh(b)
  /\ \/ \E v \in Cells : \/ frames' = [frames EXCEPT ![b].cells14 = v]
                         \/ frames' = [frames EXCEPT ![b].cells57 = v]
     \/ \E t \in Temperatures : frames' = [frames EXCEPT ![b].temperature = Signed(t - 40, 256)]
     \/ frames' = frames
  /\ UNCHANGED <<pack, current>>

(* Fault: every frame that a driver is given counts as an update of it.    *)
CurrentFrameOfAll ==
  /\ \E mA \in Currents : current' = Signed(mA, 65536)
  /\ age' = [b \in Battery |-> IF b \in LowPower THEN 0 ELSE age[b]]
  /\ UNCHANGED <<frames, pack>>

(* The frame 0x28, of a sensor that is always there, returns before the    *)
(* update is noted.                                                        *)
CurrentFrame ==
  /\ \E mA \in Currents : current' = Signed(mA, 65536)
  /\ UNCHANGED <<frames, pack, age>>

(* What a frame holds in two bytes each, and the charge in halves.         *)
Measured(r, voltage, amperage, halves) ==
  [r EXCEPT !.voltage = voltage, !.current = Signed(amperage, 65536), !.charge = halves \div 2]

(* Voltage, current and charge; the insulation; cells and other ids.       *)
HighPowerFrame(b) ==
  /\ b \in alive
  /\ Refresh(b)
  /\ \/ \E v \in Voltages, a \in Currents, c \in Charges : pack' = [pack EXCEPT ![b] = Measured(@, v, a, c)]
     \/ \E fault \in BOOLEAN : /\ \E mV \in Insulation : fault <=> mV > 4000
                              /\ pack' = [pack EXCEPT ![b].fault = fault]
     \/ pack' = pack
  /\ UNCHANGED <<frames, current>>

(* The thermistors send for a battery, whether it sends itself or not.     *)
ThermistorFrame(b) ==
  /\ "thermistors" \in alive
  /\ Refresh(b)
  /\ \E t \in Temperatures : pack' = [pack EXCEPT ![b].temperature = Signed(t, 256)]
  /\ UNCHANGED <<frames, current>>

CanThread ==
  /\ kind = "real" /\ running
  /\ UNCHANGED <<podState, running, batteries, kind, fake, alive, since, boot, managerVars>>
  /\ \/ \E b \in LowPower : LowPowerFrame(b)
     \/ CurrentFrame
     \/ \E b \in HighPower : HighPowerFrame(b) \/ ThermistorFrame(b)

(* A frame of a battery that has not been heard of in this tick.           *)
Answer(b) == CanThread /\ age[b] > 0 /\ age'[b] = 0

-----------------------------------------------------------------------------
(* BmsManager::run() *)

(* Each pass works on a copy of the struct.                                *)
Read ==
  /\ bpc = "loop"
  /\ bpc' = IF running THEN "data" ELSE "ended"
  /\ copy' = batteries
  /\ left' = Battery
  /\ UNCHANGED <<batteries, fake, since>>

(* Low power batteries come first.                                         *)
InTurn(b) == b \in left /\ (b \in LowPower \/ left \intersect LowPower = {})

(* Fault: a fake fails that has not begun to wait, as failure_time_ is 0.  *)
FailsUnguarded(b) == fake[b] \in {"fresh", "due"}

(* A fake does not fail before it has drawn when.                          *)
Fails(b) == fake[b] = "due"

(* FakeBatteries::getData() with checkFailure(), or the driver's.          *)
ReadData(b) ==
  /\ bpc = "data" /\ InTurn(b)
  /\ LET stage == CASE kind = "fails" /\ Fails(b) -> "failed"
                    [] fake[b] = "fresh" /\ podState = "kAccelerating" -> "started"
                    [] OTHER -> fake[b]
     IN  /\ fake' = [fake EXCEPT ![b] = stage]
         /\ copy' = [copy EXCEPT !.data[b] = getData(b, stage)]
  /\ left' = left \ {b}
  /\ bpc' = IF left = {b} THEN "decide" ELSE "data"
  /\ UNCHANGED <<batteries, since>>

(* A real battery is left until isOnline() has been asked, which reads the *)
(* clock first and the time of the last update then.                       *)
ReadClock(b) ==
  /\ bpc = "data" /\ InTurn(b)
  /\ copy' = [copy EXCEPT !.data[b] = getData(b, fake[b])]
  /\ since' = 0
  /\ bpc' = "online"
  /\ UNCHANGED <<batteries, fake, left>>

(* The difference is of unsigned numbers: an update that came after the    *)
(* clock was read is a very old one.                                       *)
Online(b) == age[b] \in since..(since + Second - 1)

Compare(b) ==
  /\ bpc = "online" /\ InTurn(b)
  /\ copy' = IF Online(b) THEN copy ELSE [copy EXCEPT !.data[b].voltage = 0]
  /\ since' = 0
  /\ left' = left \ {b}
  /\ bpc' = IF left = {b} THEN "decide" ELSE "data"
  /\ UNCHANGED <<batteries, fake>>

(* Fault: the ranges are checked once, when the batteries become ready.    *)
VerdictOnce(b) ==
  IF boot <= StartUp \/ b.status # kInit THEN b.status
  ELSE IF AllInRange(b.data) THEN kReady ELSE kCriticalFailure

(* Nothing is checked before the batteries have had the time to start up.  *)
Verdict(b) ==
  IF boot <= StartUp THEN b.status
  ELSE IF ~AllInRange(b.data) THEN kCriticalFailure
  ELSE IF b.status = kInit THEN kReady ELSE b.status

Publish ==
  /\ bpc = "decide"
  /\ copy' = [copy EXCEPT !.status = Verdict(copy)]
  /\ batteries' = [copy EXCEPT !.status = Verdict(copy)]
  /\ bpc' = "loop"
  /\ UNCHANGED <<fake, since, left>>

ManagerThread ==
  /\ UNCHANGED <<podState, running, kind, busVars, alive, boot>>
  /\ \/ Read
     \/ kind # "real" /\ \E b \in Battery : ReadData(b)
     \/ kind = "real" /\ \E b \in Battery : ReadClock(b) \/ Compare(b)
     \/ Publish

-----------------------------------------------------------------------------
(* The world around it *)

(* Time passes; a battery that works is heard of within a second.          *)
Tick ==
  /\ running
  /\ kind = "real" => \A b \in alive \intersect Battery : age[b] # Second - 1
  /\ bpc = "online" => since < Delay
  /\ since' = IF bpc = "online" THEN since + 1 ELSE since
  /\ boot' = IF boot > StartUp THEN boot ELSE boot + 1
  /\ age' = [b \in Battery |-> IF age[b] = Second + Delay THEN age[b] ELSE age[b] + 1]
  /\ UNCHANGED <<podState, running, batteries, kind, fake, frames, pack, current, alive, managerVars>>

(* The time that a fake has drawn is over.                                 *)
Elapse(b) ==
  /\ fake[b] = "started"
  /\ fake' = [fake EXCEPT ![b] = "due"]
  /\ UNCHANGED <<podState, running, batteries, kind, busVars, alive, since, boot, managerVars>>

(* A real source falls silent.                                             *)
FallSilent(source) ==
  /\ kind = "real" /\ source \in alive
  /\ alive' = alive \ {source}
  /\ UNCHANGED <<podState, running, batteries, kind, fake, busVars, since, boot, managerVars>>

(* Of the modules, the state machine asks this one whether it is ready,    *)
(* and gives up a run when it fails.                                       *)
Transition ==
  /\ running
  /\ \E i \in 1..(Len(Journey) - 1) : podState = Journey[i] /\ podState' = Journey[i + 1]
  /\ batteries.status = kReady
  /\ UNCHANGED <<running, batteries, kind, fake, busVars, alive, since, boot, managerVars>>

StopSystem ==
  /\ running /\ running' = FALSE
  /\ UNCHANGED <<podState, batteries, kind, fake, busVars, alive, since, boot, managerVars>>

-----------------------------------------------------------------------------

(* Fault: the constructor leaves the struct as it is.                      *)
FirstStatusForgotten == kStart

(* The constructor of BmsManager publishes its status.                     *)
FirstStatus == kInit

(* The update of a driver that was never updated is that of 1970.          *)
NeverUpdated == Second + Delay

Empty(b) == [voltage |-> 0, charge |-> 0, current |-> 0, temperature |-> 0, fault |-> FALSE]

(* The constructors of the drivers and of the manager.                     *)
Init ==
  /\ podState = Head(Journey) /\ running = TRUE
  /\ kind \in {BatteryKind(config) : config \in Config}
  /\ batteries = [status |-> FirstStatus, data |-> [b \in Battery |-> Empty(b)]]
  /\ fake = [b \in Battery |-> "fresh"]
  /\ frames = [b \in LowPower |-> [cells14 |-> 0, cells57 |-> 0, temperature |-> 0]]
  /\ pack = [b \in HighPower |-> Empty(b)]
  /\ current = 0
  /\ age = [b \in Battery |-> NeverUpdated]
  /\ alive = Source
  /\ since = 0 /\ boot = 0
  /\ bpc = "loop" /\ left = {} /\ copy = batteries

Next ==
  \/ ManagerThread
  \/ CanThread
  \/ Tick
  \/ \E b \in Battery : Elapse(b)
  \/ \E source \in Source : FallSilent(source)
  \/ Transition
  \/ StopSystem

Spec == Init /\ [][Next]_vars

(* The manager's thread runs, time passes, and what has not fallen silent  *)
(* goes on sending.                                                        *)
FairSpec ==
  /\ Spec
  /\ WF_vars(ManagerThread) /\ WF_vars(Tick)
  /\ \A b \in Battery : WF_vars(Answer(b))

-----------------------------------------------------------------------------
(* What is claimed. *)

(* The type invariant.                                                     *)
TypeOK ==
  /\ podState \in State /\ running \in BOOLEAN
  /\ batteries \in BatteryData /\ copy \in BatteryData
  /\ kind \in {"fake", "fails", "real"}
  /\ frames \in [LowPower -> Frames] /\ pack \in [HighPower -> Reading]
  /\ fake \in [Battery -> {"fresh", "started", "due", "failed"}]
  /\ current \in SignedWord
  /\ age \in [Battery -> 0..(Second + Delay)]
  /\ alive \subseteq Source /\ left \subseteq Battery
  /\ since \in 0..Delay /\ boot \in 0..(StartUp + 1)
  /\ bpc \in {"loop", "data", "online", "decide", "ended"}
  /\ bpc \in {"data", "online"} => left # {}

(* Whoever reads that the batteries are ready reads, in the same struct,   *)
(* values that are all within their ranges.                                *)
ReadyIsInRange == batteries.status = kReady => AllInRange(batteries.data)

(* The simulated batteries get every run as far as its acceleration, those *)
(* that are to fail as well, and the others never fail.                    *)
FakesFailUnderWay ==
  batteries.status = kCriticalFailure =>
    \/ kind = "real"
    \/ kind = "fails" /\ podState # "kReady" /\ \E b \in Battery : fake[b] = "failed"

(* A battery that nothing is heard of any more reads 0 V for good: neither *)
(* the others nor the current that all share keep it online.               *)
Silent(b) == b \notin alive /\ (b \in HighPower => "thermistors" \notin alive)

SilentPackReadsZero ==
  \A b \in Battery : []<>Silent(b) => <>[](batteries.data[b].voltage = 0 \/ ~running)

(* A battery that failed in simulation stops the pod, though the pod has   *)
(* been ready for long.                                                    *)
FailedFakeIsPublished ==
  (\E b \in Battery : []<>(fake[b] = "failed")) =>
    <>[](batteries.status = kCriticalFailure \/ ~running)

-----------------------------------------------------------------------------
(* What a comment of the code says, and it does not do. *)

(* "consider online if the data has been updated in the last second"       *)
(* (bms.cpp:126).                                                          *)
OfflineIsGenuine ==
  bpc = "online" => \A b \in Battery : InTurn(b) /\ ~Online(b) => age[b] >= Second
=============================================================================
