-------------------------- MODULE BatteriesProofs --------------------------
(***************************************************************************)
(* Proofs about the batteries: types, that what is published as ready is   *)
(* in range, and that simulated batteries fail a run only where they are   *)
(* told to.  They hold for any batteries, frames, start-up times and       *)
(* delays, with any number of frames between two steps of the manager.     *)
(***************************************************************************)
EXTENDS Batteries, TLAPS

(* Until the batteries have started up the manager has no verdict.         *)
VerdictWaits == boot <= StartUp => batteries.status = kInit /\ copy.status = kInit

(* A fake leaves its first stage only once the pod accelerates, and fails  *)
(* only if it is one of those that are to fail.                            *)
FakesWait ==
  \A b \in Battery :
    /\ fake[b] # "fresh" => podState # "kReady"
    /\ fake[b] = "failed" => kind = "fails"

(* In a pass over fakes what has been read is in range, unless it failed.  *)
PassOverFakes ==
  /\ bpc = "decide" => left = {}
  /\ bpc = "online" => kind = "real"
  /\ kind # "real" /\ bpc \in {"data", "decide"} =>
       \A b \in Battery \ left : fake[b] = "failed" \/ InRange(b, copy.data[b])

(* What may be said of fakes in a run that is given up.                    *)
FakeFailed == kind = "real" \/ \E b \in Battery : fake[b] = "failed"

CriticalIsCaused ==
  batteries.status = kCriticalFailure \/ copy.status = kCriticalFailure => FakeFailed

IInv == /\ TypeOK /\ VerdictWaits /\ ReadyIsInRange
        /\ FakesWait /\ PassOverFakes /\ CriticalIsCaused

-----------------------------------------------------------------------------
(* The conversions have the types that the struct gives them. *)

LEMMA LowPowerDataType ==
  ASSUME TypeOK, NEW b \in LowPower
  PROVE  LowPowerData(b) \in Reading
<1>1. frames[b] \in Frames
  BY DEF TypeOK
<1>2. current \in Int
  BY DEF TypeOK, SignedWord
<1>3. Truncated(current, 100) \in Int
  BY <1>2 DEF Truncated
<1>4. ASSUME NEW v \in Int PROVE Charge(v) \in Int
  BY DEF Charge
<1>5. ((4 * frames[b].cells14 + 3 * frames[b].cells57) % 65536) \div 100 \in Int
  BY <1>1 DEF Frames
<1>. QED BY <1>1, <1>3, <1>4, <1>5 DEF LowPowerData, Reading, Frames

LEMMA getDataType ==
  ASSUME TypeOK, NEW b \in Battery, NEW stage
  PROVE  getData(b, stage) \in Reading
<1>1. CASE kind # "real"
  BY <1>1 DEF getData, FakeData, Reading
<1>2. CASE kind = "real" /\ b \in LowPower
  BY <1>2, LowPowerDataType DEF getData
<1>3. CASE kind = "real" /\ b \notin LowPower
  BY <1>3 DEF getData, TypeOK, Battery
<1>. QED BY <1>1, <1>2, <1>3

(* A fake that has not failed is within all ranges.                        *)
LEMMA WorkingFakeInRange ==
  ASSUME NEW b \in Battery, NEW stage, stage # "failed", kind # "real"
  PROVE  InRange(b, getData(b, stage))
BY DEF getData, FakeData, InRange

(* A current of 16 bits has its sign.                                      *)
LEMMA SignedCurrent ==
  ASSUME NEW n \in Word PROVE Signed(n, 65536) \in SignedWord
<1>1. n % 65536 = n
  BY DEF Word
<1>2. 65536 \div 2 = 32768
  OBVIOUS
<1>. QED BY <1>1, <1>2 DEF Signed, Word, SignedWord

LEMMA SignedByte ==
  ASSUME NEW n \in Int PROVE Signed(n, 256) \in Int
BY DEF Signed

-----------------------------------------------------------------------------
LEMMA InitIInv == ASSUME Init PROVE IInv
<1>1. kind \in {"fake", "fails", "real"}
  BY DEF Init, BatteryKind
<1>2. batteries \in BatteryData /\ batteries.status = kInit
  BY DEF Init, BatteryData, Reading, Empty, FirstStatus, ModuleStatus, kInit, kStart
<1>3. frames \in [LowPower -> Frames] /\ pack \in [HighPower -> Reading]
  BY DEF Init, Frames, Reading, Empty
<1>4. podState = "kReady" /\ current = 0 /\ boot = 0
  BY DEF Init, Journey
<1>5. age \in [Battery -> 0..(Second + Delay)]
  BY TicksAssumption DEF Init, NeverUpdated
<1>6. TypeOK
  BY <1>1, <1>2, <1>3, <1>4, <1>5, TicksAssumption DEF Init, TypeOK, State, SignedWord
<1>. QED BY <1>2, <1>6 DEF Init, IInv, VerdictWaits, ReadyIsInRange, FakesWait, PassOverFakes,
              CriticalIsCaused, kInit, kReady, kCriticalFailure

(* Fields of a reading can be overwritten.                                 *)
LEMMA MeasuredType ==
  ASSUME NEW r \in Reading, NEW v \in Voltages, NEW a \in Currents, NEW c \in Charges
  PROVE  Measured(r, v, a, c) \in Reading
<1>. DEFINE amperage == Signed(a, 65536)
            charge   == c \div 2
<1>1. v \in Int /\ amperage \in Int /\ charge \in Int
  BY FramesAssumption, SignedCurrent DEF Word, Byte, SignedWord
<1>2. Measured(r, v, a, c) = [[[r EXCEPT !.voltage = v] EXCEPT !.current = amperage] EXCEPT !.charge = charge]
  BY DEF Measured
<1>. HIDE DEF amperage, charge
<1>3. \A d \in Reading : /\ [d EXCEPT !.voltage = v] \in Reading
                        /\ [d EXCEPT !.current = amperage] \in Reading
                        /\ [d EXCEPT !.charge = charge] \in Reading
  BY <1>1 DEF Reading
<1>. QED BY <1>2, <1>3

LEMMA FaultUpdate ==
  ASSUME NEW r \in Reading, NEW fault \in BOOLEAN
  PROVE  [r EXCEPT !.fault = fault] \in Reading
<1>1. [r EXCEPT !.fault = fault] =
        [voltage |-> r.voltage, charge |-> r.charge, current |-> r.current,
         temperature |-> r.temperature, fault |-> fault]
  BY DEF Reading
<1>. QED BY <1>1 DEF Reading

(* The CAN thread only stores, for the driver, what a frame holds.         *)
LEMMA CanTypes ==
  ASSUME TypeOK, CanThread
  PROVE  /\ frames' \in [LowPower -> Frames] /\ pack' \in [HighPower -> Reading]
         /\ current' \in SignedWord
         /\ age' \in [Battery -> 0..(Second + Delay)]
<1>1. ASSUME NEW b \in Battery, Refresh(b) PROVE age' \in [Battery -> 0..(Second + Delay)]
  BY <1>1, TicksAssumption DEF Refresh, TypeOK
<1>2. ASSUME NEW b \in LowPower, LowPowerFrame(b)
      PROVE  frames' \in [LowPower -> Frames]
  <2>1. \A v \in Cells : v \in Nat
    BY FramesAssumption DEF Word
  <2>2. \A t \in Temperatures : Signed(t - 40, 256) \in Int
    BY FramesAssumption, SignedByte DEF Byte
  <2>. QED BY <1>2, <2>1, <2>2 DEF LowPowerFrame, TypeOK, Frames
<1>3. ASSUME NEW b \in HighPower, HighPowerFrame(b)
      PROVE  pack' \in [HighPower -> Reading]
  <2>1. PICK r \in Reading : pack' = [pack EXCEPT ![b] = r]
    <3>1. pack[b] \in Reading
      BY DEF TypeOK
    <3>2. CASE pack' = pack
      <4>1. pack = [pack EXCEPT ![b] = pack[b]]
        BY DEF TypeOK
      <4>. QED BY <3>1, <3>2, <4>1
    <3>3. ASSUME NEW v \in Voltages, NEW a \in Currents, NEW c \in Charges,
                 pack' = [pack EXCEPT ![b] = Measured(@, v, a, c)]
          PROVE  \E r \in Reading : pack' = [pack EXCEPT ![b] = r]
      BY <3>1, <3>3, MeasuredType
    <3>4. ASSUME NEW fault \in BOOLEAN, pack' = [pack EXCEPT ![b].fault = fault]
          PROVE  \E r \in Reading : pack' = [pack EXCEPT ![b] = r]
      <4>1. pack' = [pack EXCEPT ![b] = [pack[b] EXCEPT !.fault = fault]]
        BY <3>4
      <4>. QED BY <3>1, <4>1, FaultUpdate
    <3>. QED BY <1>3, <3>2, <3>3, <3>4 DEF HighPowerFrame
  <2>. QED BY <2>1 DEF TypeOK
<1>4. ASSUME NEW b \in HighPower, ThermistorFrame(b)
      PROVE  pack' \in [HighPower -> Reading]
  <2>1. \A t \in Temperatures : Signed(t, 256) \in Int
    BY FramesAssumption, SignedByte DEF Byte
  <2>. QED BY <1>4, <2>1 DEF ThermistorFrame, TypeOK, Reading
<1>5. CASE CurrentFrame
  BY <1>5, SignedCurrent, FramesAssumption DEF CurrentFrame, TypeOK
<1>6. ASSUME NEW b \in LowPower, LowPowerFrame(b) PROVE UNCHANGED <<pack, current>> /\ Refresh(b)
  BY <1>6 DEF LowPowerFrame
<1>7. ASSUME NEW b \in HighPower, HighPowerFrame(b) \/ ThermistorFrame(b)
      PROVE  UNCHANGED <<frames, current>> /\ Refresh(b)
  BY <1>7 DEF HighPowerFrame, ThermistorFrame
<1>8. LowPower \subseteq Battery /\ HighPower \subseteq Battery
  BY DEF Battery
<1>. QED BY <1>1, <1>2, <1>3, <1>4, <1>5, <1>6, <1>7, <1>8 DEF CanThread, TypeOK

LEMMA CanInv == ASSUME IInv, CanThread PROVE IInv'
<1>1. UNCHANGED <<podState, running, batteries, kind, fake, alive, since, boot, managerVars>>
  BY DEF CanThread
<1>2. TypeOK'
  BY <1>1, CanTypes DEF IInv, TypeOK, managerVars
<1>. QED BY <1>1, <1>2 DEF IInv, VerdictWaits, ReadyIsInRange, FakesWait, PassOverFakes,
           CriticalIsCaused, FakeFailed, AllInRange, managerVars

(* A pass of the manager.                                                  *)
LEMMA ReadInv ==
  ASSUME IInv, Read, UNCHANGED <<podState, running, kind, busVars, alive, boot>>
  PROVE  IInv'
<1>1. TypeOK'
  BY BatteriesAssumption DEF IInv, TypeOK, Read, busVars, Battery
<1>2. PassOverFakes'
  BY DEF IInv, Read, PassOverFakes
<1>. QED BY <1>1, <1>2 DEF IInv, Read, VerdictWaits, ReadyIsInRange, FakesWait,
           CriticalIsCaused, FakeFailed, AllInRange

(* A reading replaces one of those in the copy.                            *)
LEMMA CopyType ==
  ASSUME TypeOK, NEW b \in Battery, NEW d \in Reading
  PROVE  /\ [copy EXCEPT !.data[b] = d] \in BatteryData
         /\ [copy EXCEPT !.data[b] = d].status = copy.status
         /\ \A c \in Battery : [copy EXCEPT !.data[b] = d].data[c] = IF c = b THEN d ELSE copy.data[c]
BY DEF TypeOK, BatteryData

LEMMA ReadDataInv ==
  ASSUME IInv, kind # "real", NEW b \in Battery, ReadData(b),
         UNCHANGED <<podState, running, kind, busVars, alive, boot>>
  PROVE  IInv'
<1>. DEFINE stage == CASE kind = "fails" /\ Fails(b) -> "failed"
                       [] fake[b] = "fresh" /\ podState = "kAccelerating" -> "started"
                       [] OTHER -> fake[b]
<1>1. /\ fake' = [fake EXCEPT ![b] = stage]
      /\ copy' = [copy EXCEPT !.data[b] = getData(b, stage)]
      /\ left' = left \ {b}
      /\ bpc' = IF left = {b} THEN "decide" ELSE "data"
      /\ UNCHANGED <<batteries, since>>
      /\ bpc = "data" /\ b \in left
  BY DEF ReadData, InTurn
<1>2. stage \in {"fresh", "started", "due", "failed"}
  BY DEF IInv, TypeOK
<1>3. /\ stage # "fresh" => podState # "kReady"
      /\ stage = "failed" => kind = "fails"
      /\ fake[b] = "failed" => stage = "failed"
  BY DEF IInv, TypeOK, FakesWait, Fails
<1>. HIDE DEF stage
<1>4. /\ copy' \in BatteryData /\ copy'.status = copy.status
      /\ \A c \in Battery : copy'.data[c] = IF c = b THEN getData(b, stage) ELSE copy.data[c]
  BY <1>1, getDataType, CopyType DEF IInv
<1>5. TypeOK'
  BY <1>1, <1>2, <1>4 DEF IInv, TypeOK, busVars
<1>6. FakesWait'
  BY <1>1, <1>2, <1>3 DEF IInv, TypeOK, FakesWait
<1>7. PassOverFakes'
  <2>1. ASSUME NEW c \in Battery \ left' PROVE fake'[c] = "failed" \/ InRange(c, copy'.data[c])
    <3>1. CASE c = b
      <4>1. fake'[b] = stage /\ copy'.data[b] = getData(b, stage)
        BY <1>1, <1>4 DEF IInv, TypeOK
      <4>. QED BY <3>1, <4>1, WorkingFakeInRange
    <3>2. CASE c # b
      <4>1. fake'[c] = fake[c] /\ copy'.data[c] = copy.data[c] /\ c \in Battery \ left
        BY <1>1, <1>4, <2>1, <3>2 DEF IInv, TypeOK
      <4>. QED BY <1>1, <4>1 DEF IInv, PassOverFakes
    <3>. QED BY <3>1, <3>2
  <2>. QED BY <1>1, <2>1 DEF PassOverFakes
<1>8. FakeFailed => FakeFailed'
  BY <1>1, <1>2, <1>3 DEF IInv, TypeOK, FakeFailed
<1>. QED BY <1>1, <1>4, <1>5, <1>6, <1>7, <1>8
     DEF IInv, VerdictWaits, ReadyIsInRange, CriticalIsCaused, AllInRange

LEMMA RealDataInv ==
  ASSUME IInv, kind = "real", NEW b \in Battery, ReadClock(b) \/ Compare(b),
         UNCHANGED <<podState, running, kind, busVars, alive, boot>>
  PROVE  IInv'
<1>1. b \in left /\ UNCHANGED <<batteries, fake>>
  BY DEF ReadClock, Compare, InTurn
<1>2. PICK d \in Reading : copy' = [copy EXCEPT !.data[b] = d] \/ copy' = copy
  <2>1. CASE ReadClock(b)
    BY <2>1, getDataType DEF IInv, ReadClock
  <2>2. CASE Compare(b)
    <3>1. [copy.data[b] EXCEPT !.voltage = 0] \in Reading
      BY DEF IInv, TypeOK, BatteryData, Reading
    <3>2. [copy EXCEPT !.data[b].voltage = 0] = [copy EXCEPT !.data[b] = [copy.data[b] EXCEPT !.voltage = 0]]
      BY DEF IInv, TypeOK, BatteryData
    <3>. QED BY <2>2, <3>1, <3>2 DEF Compare
  <2>. QED BY <2>1, <2>2
<1>3. copy' \in BatteryData /\ copy'.status = copy.status
  <2>1. CASE copy' = copy
    BY <2>1 DEF IInv, TypeOK
  <2>2. CASE copy' = [copy EXCEPT !.data[b] = d]
    BY <2>2, CopyType DEF IInv
  <2>. QED BY <1>2, <2>1, <2>2
<1>4. /\ left' \subseteq left /\ since' = 0
      /\ bpc' \in {"online", "data", "decide"}
      /\ bpc' \in {"online", "data"} => left' # {}
      /\ bpc' = "decide" => left' = {}
  BY <1>1 DEF ReadClock, Compare
<1>5. TypeOK'
  BY <1>1, <1>3, <1>4, TicksAssumption DEF IInv, TypeOK, busVars
<1>. QED BY <1>1, <1>3, <1>4, <1>5
     DEF IInv, VerdictWaits, ReadyIsInRange, FakesWait, PassOverFakes, CriticalIsCaused,
         FakeFailed, AllInRange

LEMMA PublishInv ==
  ASSUME IInv, Publish, UNCHANGED <<podState, running, kind, busVars, alive, boot>>
  PROVE  IInv'
<1>1. Verdict(copy) \in ModuleStatus \ {kStart}
  BY DEF IInv, TypeOK, BatteryData, Verdict, ModuleStatus, kCriticalFailure, kStart, kInit, kReady
<1>2. /\ copy' \in BatteryData /\ copy'.status = Verdict(copy) /\ copy'.data = copy.data
      /\ batteries' = copy'
  BY <1>1 DEF IInv, TypeOK, Publish, BatteryData
<1>3. TypeOK'
  BY <1>2 DEF IInv, TypeOK, Publish, busVars
<1>4. Verdict(copy) = kReady => AllInRange(copy.data)
  BY DEF IInv, TypeOK, VerdictWaits, Verdict, kCriticalFailure, kInit, kReady
<1>5. Verdict(copy) = kCriticalFailure => FakeFailed
  <2>1. CASE copy.status = kCriticalFailure
    BY <2>1 DEF IInv, CriticalIsCaused
  <2>2. CASE ~AllInRange(copy.data)
    BY <2>2 DEF IInv, PassOverFakes, Publish, AllInRange, FakeFailed
  <2>. QED BY <2>1, <2>2 DEF Verdict, kInit, kReady, kCriticalFailure
<1>6. boot <= StartUp => Verdict(copy) = kInit
  BY DEF IInv, VerdictWaits, Verdict
<1>7. AllInRange(copy.data) => AllInRange(batteries'.data)
  BY <1>2
<1>8. UNCHANGED <<fake, kind, podState, boot>> /\ bpc' = "loop"
  BY DEF Publish
<1>. QED BY <1>2, <1>3, <1>4, <1>5, <1>6, <1>7, <1>8
     DEF IInv, VerdictWaits, ReadyIsInRange, FakesWait, PassOverFakes, CriticalIsCaused, FakeFailed,
         AllInRange, kReady, kCriticalFailure, kInit

(* The world around the manager.                                           *)
LEMMA WorldInv ==
  ASSUME IInv, \/ Tick \/ StopSystem \/ Transition \/ UNCHANGED vars
               \/ \E b \in Battery : Elapse(b)
               \/ \E source \in Source : FallSilent(source)
  PROVE  IInv'
<1>. USE DEF IInv, VerdictWaits, ReadyIsInRange, FakesWait, PassOverFakes, CriticalIsCaused,
             FakeFailed, AllInRange, managerVars, busVars
<1>1. CASE Tick
  <2>1. age' \in [Battery -> 0..(Second + Delay)]
    BY <1>1, TicksAssumption DEF Tick, TypeOK
  <2>2. since' \in 0..Delay /\ boot' \in 0..(StartUp + 1) /\ (boot' <= StartUp => boot <= StartUp)
    BY <1>1, TicksAssumption DEF Tick, TypeOK
  <2>. QED BY <1>1, <2>1, <2>2 DEF Tick, TypeOK
<1>2. CASE StopSystem
  BY <1>2 DEF StopSystem, TypeOK
<1>3. CASE Transition
  <2>1. podState' \in {"kAccelerating", "kCruising"}
    BY <1>3 DEF Transition, Journey
  <2>. QED BY <1>3, <2>1 DEF Transition, TypeOK, State
<1>4. ASSUME NEW b \in Battery, Elapse(b) PROVE IInv'
  <2>1. /\ fake' \in [Battery -> {"fresh", "started", "due", "failed"}]
        /\ \A c \in Battery : \/ fake'[c] = fake[c]
                              \/ fake[c] = "started" /\ fake'[c] = "due"
    BY <1>4 DEF Elapse, TypeOK
  <2>. QED BY <1>4, <2>1 DEF Elapse, TypeOK
<1>5. ASSUME NEW source \in Source, FallSilent(source) PROVE IInv'
  BY <1>5 DEF FallSilent, TypeOK
<1>6. CASE UNCHANGED vars
  BY <1>6 DEF vars, TypeOK
<1>. QED BY <1>1, <1>2, <1>3, <1>4, <1>5, <1>6

LEMMA NextIInv == ASSUME IInv, [Next]_vars PROVE IInv'
<1>1. CASE ManagerThread
  BY <1>1, ReadInv, ReadDataInv, RealDataInv, PublishInv DEF ManagerThread
<1>. QED BY <1>1, CanInv, WorldInv DEF Next

LEMMA Invariant == Spec => []IInv
BY InitIInv, NextIInv, PTL DEF Spec

-----------------------------------------------------------------------------
(* The types of struct, drivers, clocks and manager; a current always fits *)
(* into 16 bits.                                                           *)
THEOREM TypeCorrect == Spec => []TypeOK
BY Invariant, PTL DEF IInv

(* Whoever reads that the batteries are ready reads values in range in the *)
(* same copy, whatever frames come between the reads of the batteries      *)
(* (bms_manager.cpp:130-147).                                              *)
THEOREM ReadyInRange == Spec => []ReadyIsInRange
BY Invariant, PTL DEF IInv

(* Simulated batteries give up no run before it accelerates, and none at   *)
(* all unless they are those that are to fail (fake_batteries.cpp:46-72).  *)
THEOREM FakesFailUnderWayOnly == Spec => []FakesFailUnderWay
<1>1. IInv => FakesFailUnderWay
  BY DEF IInv, CriticalIsCaused, FakeFailed, FakesWait, FakesFailUnderWay
<1>. QED BY <1>1, Invariant, PTL
=============================================================================
