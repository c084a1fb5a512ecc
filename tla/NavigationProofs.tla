-------------------------- MODULE NavigationProofs --------------------------
(***************************************************************************)
(* Proofs about the navigation thread.  The first part does not depend on  *)
(* what the detection takes for an outlier: the type invariant, that a     *)
(* module which lost two sensors of a kind says so, and that a critical    *)
(* failure it found is final.  The second part is about the quartiles: as  *)
(* long as one sensor of a kind is broken at most, no other is given up,   *)
(* and what goes to the filters stays in bounds.                           *)
(***************************************************************************)
EXTENDS Navigation, FiniteSetTheorems, WellFoundedInduction, TLAPS

(* The status of the thread before and while it calibrates: no sensor has  *)
(* been judged yet, and there is an attempt left.                          *)
NothingFound ==
  /\ npc = "start" => status = kInit
  /\ npc = "calibrate" => status = kInit /\ attempts < kMaxCalibrationAttempts

(* The thread knows of every loss ...                                      *)
LossIsKnown == \A k \in Kind : Unreliable(k) > 1 => status = kCriticalFailure

(* ... and what it knows has been published when it looks at the state.    *)
KnownIsPublished ==
  npc = "loop" /\ status = kCriticalFailure => navStatus = kCriticalFailure

IInv == TypeOK /\ NothingFound /\ LossIsKnown /\ KnownIsPublished

-----------------------------------------------------------------------------
(* A new thread has lost no sensor.                                        *)
LEMMA InitIInv == ASSUME Init PROVE IInv
<1>1. ASSUME NEW k \in Kind PROVE Unreliable(k) = 0
  <2>1. Sensor \ reliable[k] = {}
    BY DEF Init
  <2>. QED BY <2>1, FS_EmptySet DEF Unreliable
<1>2. TypeOK
  BY DEF Init, TypeOK, State, ModuleStatus, kInit, kMaxCalibrationAttempts
<1>3. LossIsKnown
  BY <1>1 DEF LossIsKnown
<1>4. NothingFound /\ KnownIsPublished
  BY DEF Init, NothingFound, KnownIsPublished, kInit, kCriticalFailure
<1>. QED BY <1>2, <1>3, <1>4 DEF IInv

(* What a detection does to the sensors keeps their types, and the thread  *)
(* learns of every loss that it causes.                                    *)
LEMMA DetectInv ==
  ASSUME TypeOK, LossIsKnown, NEW k \in Kind, NEW out, Detect(k, out)
  PROVE  /\ reliable' \in [Kind -> SUBSET Sensor]
         /\ counter' \in [Kind -> [Sensor -> Nat]]
         /\ status' \in {status, kCriticalFailure}
         /\ LossIsKnown'
<1>1. reliable' \in [Kind -> SUBSET Sensor]
  BY DEF Detect, TypeOK
<1>2. counter' \in [Kind -> [Sensor -> Nat]]
  <2>. DEFINE row == [s \in Sensor |-> IF s \in out THEN counter[k][s] + 1 ELSE 0]
  <2>1. row \in [Sensor -> Nat]
    BY DEF TypeOK
  <2>2. counter' = [counter EXCEPT ![k] = row]
    BY DEF Detect
  <2>. HIDE DEF row
  <2>. QED BY <2>1, <2>2 DEF TypeOK
<1>3. status' \in {status, kCriticalFailure}
  BY DEF Detect
<1>4. ASSUME NEW j \in Kind, Unreliable(j)' > 1 PROVE status' = kCriticalFailure
  <2>1. CASE j # k
    <3>1. reliable'[j] = reliable[j]
      BY <2>1 DEF Detect, TypeOK
    <3>. QED BY <1>3, <1>4, <3>1 DEF LossIsKnown, Unreliable
  <2>2. CASE j = k /\ out # {}
    <3>1. reliable'[k] = reliable[k] \ Given(k, out)
      BY DEF Detect, TypeOK
    <3>. QED BY <1>4, <2>2, <3>1 DEF Detect, Fails, Unreliable
  <2>3. CASE j = k /\ out = {}
    <3>1. reliable'[k] = reliable[k]
      BY <2>3 DEF Detect, Given, TypeOK
    <3>. QED BY <1>3, <1>4, <2>3, <3>1 DEF LossIsKnown, Unreliable
  <2>. QED BY <2>1, <2>2, <2>3
<1>. QED BY <1>1, <1>2, <1>3, <1>4 DEF LossIsKnown

(* Two detections follow one another in an iteration.                      *)
LEMMA QueryInv ==
  ASSUME IInv, queryImus \/ queryWheelEncoders,
         UNCHANGED <<podState, running, broken>>
  PROVE  IInv'
<1>1. CASE Terminate /\ UNCHANGED attempts
  BY <1>1 DEF Terminate, IInv, TypeOK, NothingFound, LossIsKnown, KnownIsPublished,
              Unreliable, sensorVars
<1>2. ASSUME NEW k \in Kind, NEW out, Quartiles(k), Detect(k, out),
             npc' \in {"encoders", "compare"}, UNCHANGED attempts
      PROVE  IInv'
  <2>1. /\ reliable' \in [Kind -> SUBSET Sensor]
        /\ counter' \in [Kind -> [Sensor -> Nat]]
        /\ status' \in {status, kCriticalFailure}
        /\ LossIsKnown'
    BY <1>2, DetectInv DEF IInv
  <2>2. navStatus' \in {navStatus, kCriticalFailure}
    BY <1>2 DEF Quartiles
  <2>3. TypeOK'
    BY <1>2, <2>1, <2>2 DEF IInv, TypeOK, ModuleStatus, kCriticalFailure
  <2>. QED BY <1>2, <2>1, <2>3 DEF IInv, NothingFound, KnownIsPublished
<1>. QED BY <1>1, <1>2 DEF queryImus, queryWheelEncoders, Kind

(* Every step of the system keeps the invariant.                           *)
LEMMA NextIInv == ASSUME IInv, [Next]_vars PROVE IInv'
<1>. USE DEF IInv, NothingFound, KnownIsPublished, kInit, kReady, kCriticalFailure
<1>1. CASE NavigationThread
  <2>. SUFFICES ASSUME UNCHANGED <<podState, running, broken>> PROVE IInv'
    BY <1>1 DEF NavigationThread
  <2>1. CASE Start
    BY <2>1 DEF Start, TypeOK, ModuleStatus, LossIsKnown, Unreliable, sensorVars
  <2>2. CASE Loop
    <3>1. npc' \in {"loop", "calibrate", "imus", "completed"}
      BY <2>2 DEF Loop, LeadsTo, TypeOK, State, Rests, Navigates, Completes
    <3>2. npc' = "calibrate" => status = kInit
      BY <2>2 DEF Loop, LeadsTo, TypeOK, State, Rests, Navigates, Completes
    <3>. QED BY <2>2, <3>1, <3>2
           DEF Loop, TypeOK, kMaxCalibrationAttempts, LossIsKnown, Unreliable, sensorVars
  <2>3. ASSUME NEW unsteady \in SUBSET Sensor, Calibrate(unsteady) PROVE IInv'
    BY <2>3 DEF Calibrate, TypeOK, ModuleStatus, kMaxCalibrationAttempts, LossIsKnown,
                Unreliable, sensorVars
  <2>4. CASE queryImus \/ queryWheelEncoders
    BY <2>4, QueryInv
  <2>5. ASSUME NEW apart \in BOOLEAN, compareEncoderImu(apart) PROVE IInv'
    BY <2>5 DEF compareEncoderImu, TypeOK, ModuleStatus, LossIsKnown, Unreliable, sensorVars
  <2>6. CASE updateData
    BY <2>6 DEF updateData, TypeOK, LossIsKnown, Unreliable, sensorVars
  <2>. QED BY <1>1, <2>1, <2>2, <2>3, <2>4, <2>5, <2>6 DEF NavigationThread
<1>2. CASE Transition
  BY <1>2 DEF Transition, TypeOK, LossIsKnown, Unreliable, threadVars, sensorVars
<1>3. CASE StopSystem
  BY <1>3 DEF StopSystem, TypeOK, LossIsKnown, Unreliable, threadVars, sensorVars
<1>4. ASSUME NEW k \in Kind, NEW s \in Fragile, Break(k, s) PROVE IInv'
  <2>1. broken' \in [Kind -> SUBSET Sensor]
    BY <1>4, FragileAssumption DEF Break, TypeOK
  <2>. QED BY <1>4, <2>1 DEF Break, TypeOK, LossIsKnown, Unreliable, threadVars, sensorVars
<1>5. CASE UNCHANGED vars
  BY <1>5 DEF vars, TypeOK, LossIsKnown, Unreliable, threadVars, sensorVars
<1>. QED BY <1>1, <1>2, <1>3, <1>4, <1>5 DEF Next

LEMMA Invariant == Spec => []IInv
BY InitIInv, NextIInv, PTL DEF Spec

-----------------------------------------------------------------------------
(* The states, statuses and counters of the navigation thread keep their   *)
(* types: a sensor stays given up, and a fourth attempt is never made.     *)
THEOREM TypeCorrect == Spec => []TypeOK
BY Invariant, PTL DEF IInv

(* A module that lost two sensors of a kind is critical on the blackboard  *)
(* whenever its thread looks at the state: no loss goes unnoticed between  *)
(* two detections, and neither comparison nor update withdraws it          *)
(* (navigation.cpp:263-275, 414-487).                                      *)
THEOREM LossPublished == Spec => []LossIsPublished
<1>1. IInv => LossIsPublished
  BY DEF IInv, LossIsKnown, KnownIsPublished, LossIsPublished
<1>. QED BY <1>1, Invariant, PTL

(* A critical failure that the thread has found is never withdrawn.        *)
LEMMA FailureStays ==
  ASSUME IInv, [Next]_vars, status = kCriticalFailure
  PROVE  status' = kCriticalFailure
<1>. USE DEF IInv, NothingFound, kInit, kReady, kCriticalFailure
<1>1. CASE NavigationThread
  BY <1>1 DEF NavigationThread, Start, Loop, queryImus, queryWheelEncoders, Terminate, Detect,
              updateData, Calibrate, compareEncoderImu
<1>2. CASE Transition \/ StopSystem \/ (\E k \in Kind, s \in Fragile : Break(k, s)) \/ UNCHANGED vars
  BY <1>2 DEF Transition, StopSystem, Break, vars, threadVars
<1>. QED BY <1>1, <1>2 DEF Next

(* What the thread itself found critical, by lost sensors or by            *)
(* calibration, stays so to the end of the run, on the blackboard as well  *)
(* each time the thread looks at the state (navigation.cpp:193-194,        *)
(* 263-275, 420-487).                                                      *)
THEOREM FailuresAreFinal == Spec => FailureIsFinal
<1>1. IInv /\ IInv' /\ [Next]_vars =>
        [ status = kCriticalFailure /\ (npc = "loop" => navStatus = kCriticalFailure)
            => status' = kCriticalFailure /\ (npc' = "loop" => navStatus' = kCriticalFailure) ]_vars
  BY FailureStays DEF IInv, KnownIsPublished
<1>. QED BY <1>1, Invariant, PTL DEF Spec, FailureIsFinal

-----------------------------------------------------------------------------
(* Readings in their order *)

(* Among some subsets of a finite set one has no other below it.           *)
LEMMA MinimalSubset ==
  ASSUME NEW S, IsFiniteSet(S), NEW F \in SUBSET SUBSET S, F # {}
  PROVE  \E T \in F : \A U \in F : ~(U \subseteq T /\ U # T)
<1>1. IsWellFoundedOn(StrictSubsetOrdering(S), FiniteSubsetsOf(S))
  BY FS_StrictSubsetOrderingWellFounded
<1>2. F \subseteq FiniteSubsetsOf(S)
  BY FS_FiniteSubsetsOfFinite
<1>3. PICK T \in F : \A U \in F : <<U, T>> \notin StrictSubsetOrdering(S)
  BY <1>1, <1>2, WFMin
<1>. QED BY <1>3 DEF StrictSubsetOrdering

(* Some sensor of a finite set reads no less than all others.              *)
LEMMA Highest ==
  ASSUME NEW S, IsFiniteSet(S), S # {}, NEW r, \A s \in S : r[s] \in Int
  PROVE  \E s \in S : \A u \in S : r[u] <= r[s]
<1>. DEFINE Above(s) == {u \in S : r[u] >= r[s]}
<1>1. PICK s \in S : \A t \in S : ~(Above(t) \subseteq Above(s) /\ Above(t) # Above(s))
  <2>. DEFINE F == {Above(s) : s \in S}
  <2>1. F \in SUBSET SUBSET S /\ F # {}
    OBVIOUS
  <2>2. \A t \in S : Above(t) \in F
    OBVIOUS
  <2>3. \A T \in F : \E t \in S : T = Above(t)
    OBVIOUS
  <2>. HIDE DEF F, Above
  <2>. QED BY <2>1, <2>2, <2>3, MinimalSubset
<1>2. ASSUME NEW u \in S, r[u] > r[s] PROVE FALSE
  <2>1. Above(u) \subseteq Above(s) /\ s \in Above(s) /\ s \notin Above(u)
    BY <1>2
  <2>. QED BY <1>1, <2>1
<1>. QED BY <1>2

(* What Nth picks has its rank: at most i - 1 sensors read less, and i do  *)
(* not read more.                                                          *)
LEMMA NthHasRank ==
  ASSUME NEW S, IsFiniteSet(S), NEW r, \A s \in S : r[s] \in Int,
         NEW i \in 1..Cardinality(S), NEW x, x = Nth(S, r, i)
  PROVE  /\ x \in {r[s] : s \in S}
         /\ Cardinality({s \in S : r[s] < x}) < i
         /\ Cardinality({s \in S : r[s] <= x}) >= i
<1>. DEFINE Below(s) == {u \in S : r[u] <= r[s]}
            F        == {Below(s) : s \in {t \in S : Cardinality(Below(t)) >= i}}
<1>1. F # {}
  <2>1. S # {} /\ Cardinality(S) \in Nat
    BY FS_EmptySet, FS_CardinalityType
  <2>2. PICK s \in S : \A u \in S : r[u] <= r[s]
    BY <2>1, Highest
  <2>3. Below(s) = S
    BY <2>2
  <2>4. Cardinality(Below(s)) >= i
    BY <2>1, <2>3
  <2>. QED BY <2>4
<1>2. PICK s \in S : /\ Cardinality(Below(s)) >= i
                     /\ \A t \in S : /\ Cardinality(Below(t)) >= i
                                     /\ Below(t) \subseteq Below(s)
                                     => Below(t) = Below(s)
  <2>1. F \in SUBSET SUBSET S
    OBVIOUS
  <2>2. \A t \in S : Cardinality(Below(t)) >= i => Below(t) \in F
    OBVIOUS
  <2>3. \A T \in F : \E t \in S : Cardinality(Below(t)) >= i /\ T = Below(t)
    OBVIOUS
  <2>. HIDE DEF F, Below
  <2>. QED BY <1>1, <2>1, <2>2, <2>3, MinimalSubset
<1>. DEFINE L == {u \in S : r[u] < r[s]}
<1>3. Cardinality(L) < i
  <2>1. IsFiniteSet(L) /\ Cardinality(L) \in Nat
    BY FS_Subset, FS_CardinalityType
  <2>2. SUFFICES ASSUME Cardinality(L) >= i PROVE FALSE
    BY <2>1
  <2>3. L # {}
    BY <2>2, FS_EmptySet
  <2>4. PICK t \in L : \A u \in L : r[u] <= r[t]
    <3>. HIDE DEF L
    <3>1. \A u \in L : r[u] \in Int
      BY DEF L
    <3>. QED BY <2>1, <2>3, <3>1, Highest
  <2>5. Below(t) = L
    BY <2>4
  <2>. QED BY <1>2, <2>2, <2>5
<1>4. \E y \in {r[u] : u \in S} : /\ Cardinality({u \in S : r[u] < y}) < i
                                  /\ Cardinality({u \in S : r[u] <= y}) >= i
  <2>. WITNESS r[s] \in {r[u] : u \in S}
  <2>. QED BY <1>2, <1>3
<1>. QED BY <1>4 DEF Nth

(* Two elements outside a subset count.                                    *)
LEMMA TwoOutside ==
  ASSUME NEW S, IsFiniteSet(S), NEW T \in SUBSET S,
         NEW s \in S \ T, NEW t \in S \ T, s # t
  PROVE  Cardinality(T) <= Cardinality(S) - 2
<1>. DEFINE U == S \ {s}
<1>1. T \in SUBSET (U \ {t}) /\ t \in U
  OBVIOUS
<1>2. Cardinality(U) = Cardinality(S) - 1 /\ IsFiniteSet(U) /\ Cardinality(S) \in Nat
  BY FS_RemoveElement, FS_CardinalityType
<1>. HIDE DEF U
<1>3. Cardinality(U \ {t}) = Cardinality(U) - 1 /\ IsFiniteSet(U \ {t})
  BY <1>1, <1>2, FS_RemoveElement
<1>. QED BY <1>1, <1>2, <1>3, FS_Subset

(* A finite set of two elements or more has one besides any given one.     *)
LEMMA Another ==
  ASSUME NEW T, IsFiniteSet(T), Cardinality(T) >= 2, NEW s
  PROVE  \E t \in T : t # s
<1>1. Cardinality(T \ {s}) # 0
  BY FS_RemoveElement, FS_CardinalityType
<1>2. T \ {s} # {}
  BY <1>1, FS_EmptySet
<1>. QED BY <1>2

(* The readings of a set of sensors, sorted: nothing is beyond the first   *)
(* and the last; at most one sensor is beyond the second and the last but  *)
(* one; and between the first and the last, another sensor than any given  *)
(* one is on either side, or reads the same.                               *)
LEMMA Place ==
  ASSUME NEW S, IsFiniteSet(S), NEW r, \A s \in S : r[s] \in Int,
         NEW i \in 1..Cardinality(S), NEW x, x = Nth(S, r, i)
  PROVE  /\ x \in {r[s] : s \in S}
         /\ i = 1 => \A s \in S : x <= r[s]
         /\ i = Cardinality(S) => \A s \in S : r[s] <= x
         /\ i = 2 => \A s, u \in S : r[s] < x /\ r[u] < x => s = u
         /\ i = Cardinality(S) - 1 => \A s, u \in S : r[s] > x /\ r[u] > x => s = u
         /\ i \in 2..(Cardinality(S) - 1) =>
              \A s : /\ \E u \in S : u # s /\ r[u] <= x
                     /\ \E u \in S : u # s /\ r[u] >= x
<1>. DEFINE Less == {s \in S : r[s] < x}
            Most == {s \in S : r[s] <= x}
            More == {s \in S : r[s] >= x}
<1>1. x \in {r[s] : s \in S} /\ Cardinality(Less) < i /\ Cardinality(Most) >= i
  BY NthHasRank
<1>2. /\ IsFiniteSet(Less) /\ Cardinality(Less) \in Nat /\ Cardinality(S) \in Nat
      /\ IsFiniteSet(Most) /\ Cardinality(Most) \in Nat /\ Cardinality(Most) <= Cardinality(S)
      /\ IsFiniteSet(More) /\ Cardinality(More) \in Nat
  BY FS_Subset, FS_CardinalityType
<1>3. /\ Less \in SUBSET S /\ Most \in SUBSET S
      /\ \A s \in S : /\ s \in Less <=> r[s] < x
                      /\ s \in Most <=> r[s] <= x
                      /\ s \in More <=> r[s] >= x
      /\ x \in Int
      /\ More = S \ Less /\ S \cap Less = Less
  BY <1>1
<1>. HIDE DEF Less, Most, More
<1>4. i = 1 => \A s \in S : x <= r[s]
  <2>1. i = 1 => Less = {}
    BY <1>1, <1>2, FS_EmptySet
  <2>. QED BY <1>3, <2>1
<1>5. i = Cardinality(S) => \A s \in S : r[s] <= x
  <2>1. i = Cardinality(S) => Cardinality(S) = Cardinality(Most)
    BY <1>1, <1>2
  <2>2. i = Cardinality(S) => Most = S
    BY <1>3, <2>1, FS_Subset
  <2>. QED BY <1>3, <2>2
<1>6. ASSUME i = 2, NEW s \in S, NEW u \in S, r[s] < x, r[u] < x, s # u PROVE FALSE
  <2>1. s \in Less /\ u \in Less \ {s}
    BY <1>3, <1>6
  <2>2. Cardinality(Less \ {s}) = Cardinality(Less) - 1 /\ IsFiniteSet(Less \ {s})
    BY <1>2, <2>1, FS_RemoveElement
  <2>3. Cardinality(Less \ {s}) # 0 /\ Cardinality(Less \ {s}) \in Nat
    BY <2>1, <2>2, FS_EmptySet, FS_CardinalityType
  <2>. QED BY <1>1, <1>2, <1>6, <2>2, <2>3
<1>7. ASSUME i = Cardinality(S) - 1, NEW s \in S, NEW u \in S, r[s] > x, r[u] > x, s # u PROVE FALSE
  <2>1. s \in S \ Most /\ u \in S \ Most
    BY <1>3, <1>7
  <2>2. Cardinality(Most) <= Cardinality(S) - 2 /\ Cardinality(S) \in Nat
    BY <1>2, <1>3, <1>7, <2>1, TwoOutside
  <2>. QED BY <1>1, <1>2, <1>7, <2>2
<1>8. ASSUME i \in 2..(Cardinality(S) - 1), NEW s
      PROVE  /\ \E u \in S : u # s /\ r[u] <= x
             /\ \E u \in S : u # s /\ r[u] >= x
  <2>1. Cardinality(Most) >= 2
    BY <1>1, <1>2, <1>8
  <2>2. PICK u \in Most : u # s
    BY <1>2, <2>1, Another
  <2>3. Cardinality(More) = Cardinality(S) - Cardinality(Less)
    <3>1. Cardinality(S \ Less) = Cardinality(S) - Cardinality(S \cap Less)
      BY FS_Difference
    <3>. QED BY <1>3, <3>1
  <2>4. Cardinality(More) >= 2
    BY <1>1, <1>2, <1>8, <2>3
  <2>5. PICK v \in More : v # s
    BY <1>2, <2>4, Another
  <2>6. u \in S /\ v \in S
    BY <1>3
  <2>. QED BY <1>3, <2>2, <2>5, <2>6
<1>9. i = 2 => \A s, u \in S : r[s] < x /\ r[u] < x => s = u
  BY <1>6
<1>10. i = Cardinality(S) - 1 => \A s, u \in S : r[s] > x /\ r[u] > x => s = u
  BY <1>7
<1>11. i \in 2..(Cardinality(S) - 1) =>
         \A s : /\ \E u \in S : u # s /\ r[u] <= x
                /\ \E u \in S : u # s /\ r[u] >= x
  BY <1>8
<1>. QED BY <1>1, <1>4, <1>5, <1>9, <1>10, <1>11

(* Readings of sensors that work do not differ by more than the range that *)
(* is tolerated at most.                                                   *)
NarrowNoise == \A m, n \in Noise : m - n <= 2 * kMaxInterQuartileRange

(* At least three sensors are judged, of which only b may be broken.       *)
OneSuspect(S, r, b) ==
  /\ S \in SUBSET Sensor /\ Cardinality(S) >= 3
  /\ r \in [Sensor -> Reading]
  /\ \A s \in S \ {b} : r[s] \in Noise

LEMMA JudgedAreFinite ==
  ASSUME NEW S, NEW r, NEW b, OneSuspect(S, r, b)
  PROVE  /\ IsFiniteSet(S) /\ Cardinality(S) \in Nat
         /\ \A s \in S : r[s] \in Int
         /\ Noise \subseteq Int
         /\ \A s : \E u \in S : u # s /\ u # b
<1>1. IsFiniteSet(Sensor)
  BY FS_Interval, NumSensorsAssumption DEF Sensor
<1>2. IsFiniteSet(S) /\ Cardinality(S) \in Nat
  BY <1>1, FS_Subset, FS_CardinalityType DEF OneSuspect
<1>3. \A s \in S : r[s] \in Int
  BY ReadingsAssumption DEF OneSuspect, Reading
<1>4. ASSUME NEW s PROVE \E u \in S : u # s /\ u # b
  <2>1. Cardinality(S \ {b}) >= 2 /\ IsFiniteSet(S \ {b})
    BY <1>2, FS_RemoveElement DEF OneSuspect
  <2>. QED BY <2>1, Another
<1>. QED BY <1>2, <1>3, <1>4, ReadingsAssumption

(* The quartiles of such readings, and what the detection tolerates.       *)
LEMMA Sorted ==
  ASSUME NEW S, NEW r, NEW b, OneSuspect(S, r, b),
         NEW x1, x1 = Nth(S, r, 1), NEW x2, x2 = Nth(S, r, 2),
         NEW y2, y2 = Nth(S, r, Cardinality(S) - 1), NEW y1, y1 = Nth(S, r, Cardinality(S)),
         NEW tol, tol = Tolerance((y2 + y1) - (x1 + x2))
  PROVE  /\ {x1, x2, y2, y1, tol} \subseteq Int
         /\ x1 <= y2 /\ x2 <= y2 /\ x2 <= y1
         /\ tol \in 0..6 /\ (tol = (y2 + y1) - (x1 + x2) \/ tol = 6)
         /\ \A s \in S : x1 <= r[s] /\ r[s] <= y1
         /\ \A s \in S : r[s] > y2 => r[s] = y1 /\ \A u \in S \ {s} : r[u] <= y2
         /\ \A s \in S : r[s] < x2 => r[s] = x1 /\ \A u \in S \ {s} : r[u] >= x2
<1>. DEFINE c == Cardinality(S)
<1>1. IsFiniteSet(S) /\ c \in Nat /\ c >= 3 /\ \A s \in S : r[s] \in Int
  BY JudgedAreFinite DEF OneSuspect
<1>2. 1 \in 1..c /\ 2 \in 1..c /\ c - 1 \in 1..c /\ c \in 1..c /\ c - 1 \in 2..(c - 1)
  BY <1>1
<1>3. x1 \in {r[s] : s \in S} /\ \A s \in S : x1 <= r[s]
  BY <1>1, <1>2, Place
<1>4. y1 \in {r[s] : s \in S} /\ \A s \in S : r[s] <= y1
  BY <1>1, <1>2, Place
<1>5. x2 \in {r[s] : s \in S} /\ \A s, u \in S : r[s] < x2 /\ r[u] < x2 => s = u
  BY <1>1, <1>2, Place
<1>6. /\ y2 \in {r[s] : s \in S} /\ \A s, u \in S : r[s] > y2 /\ r[u] > y2 => s = u
      /\ \A s : \E u \in S : u # s /\ r[u] <= y2
  <2>1. PICK i \in 1..c : i = c - 1 /\ i \in 2..(c - 1) /\ y2 = Nth(S, r, i)
    BY <1>2
  <2>2. /\ y2 \in {r[s] : s \in S}
        /\ i = c - 1 => \A s, u \in S : r[s] > y2 /\ r[u] > y2 => s = u
        /\ i \in 2..(c - 1) => \A s : \E u \in S : u # s /\ r[u] <= y2
    BY <1>1, <2>1, Place
  <2>. QED BY <2>1, <2>2
<1>7. {x1, x2, y2, y1} \subseteq Int
  BY <1>1, <1>3, <1>4, <1>5, <1>6
<1>8. x1 <= y2 /\ x2 <= y1
  BY <1>3, <1>4, <1>5, <1>6
<1>9. x2 <= y2
  <2>1. PICK u \in S : r[u] <= y2
    BY <1>6
  <2>2. PICK v \in S : v # u /\ r[v] <= y2
    BY <1>6
  <2>. QED BY <1>1, <1>5, <1>7, <2>1, <2>2
<1>10. tol \in 0..6 /\ (tol = (y2 + y1) - (x1 + x2) \/ tol = 6)
  <2>1. x1 <= y1
    BY <1>3, <1>4
  <2>2. (y2 + y1) - (x1 + x2) \in Nat
    BY <1>7, <1>9, <2>1
  <2>. QED BY <2>2 DEF Tolerance, kInterQuartileScaler, kMaxInterQuartileRange
<1>11. ASSUME NEW s \in S, r[s] > y2 PROVE r[s] = y1 /\ \A u \in S \ {s} : r[u] <= y2
  <2>1. PICK t \in S : y1 = r[t]
    BY <1>4
  <2>2. r[t] > y2
    BY <1>1, <1>4, <1>7, <1>11, <2>1
  <2>. QED BY <1>1, <1>6, <1>7, <1>11, <2>1, <2>2
<1>12. ASSUME NEW s \in S, r[s] < x2 PROVE r[s] = x1 /\ \A u \in S \ {s} : r[u] >= x2
  <2>1. PICK t \in S : x1 = r[t]
    BY <1>3
  <2>2. r[t] < x2
    BY <1>1, <1>3, <1>7, <1>12, <2>1
  <2>. QED BY <1>1, <1>5, <1>7, <1>12, <2>1, <2>2
<1>13. tol \in Int
  BY <1>10
<1>. QED BY <1>3, <1>4, <1>7, <1>8, <1>9, <1>10, <1>11, <1>12, <1>13

(* No sensor but the broken one is found to be an outlier: whichever is    *)
(* farthest out has a neighbour that works.                                *)
LEMMA OnlySuspectIsOutlier ==
  ASSUME NarrowNoise, NEW S, NEW r, NEW b, OneSuspect(S, r, b)
  PROVE  Judge(S, r).outliers \subseteq {b}
<1>. DEFINE x1 == Nth(S, r, 1)                    x2 == Nth(S, r, 2)
            y2 == Nth(S, r, Cardinality(S) - 1)   y1 == Nth(S, r, Cardinality(S))
            tol == Tolerance((y2 + y1) - (x1 + x2))
<1>1. /\ {x1, x2, y2, y1, tol} \subseteq Int
      /\ x1 <= y2 /\ x2 <= y2 /\ x2 <= y1
      /\ tol \in 0..6 /\ (tol = (y2 + y1) - (x1 + x2) \/ tol = 6)
      /\ \A s \in S : x1 <= r[s] /\ r[s] <= y1
      /\ \A s \in S : r[s] > y2 => r[s] = y1 /\ \A u \in S \ {s} : r[u] <= y2
      /\ \A s \in S : r[s] < x2 => r[s] = x1 /\ \A u \in S \ {s} : r[u] >= x2
  BY Sorted
<1>2. Judge(S, r).outliers = {s \in S : 2 * r[s] < (x1 + x2) - tol \/ 2 * r[s] > (y2 + y1) + tol}
  BY DEF Judge, LowQuartile, HighQuartile
<1>. HIDE DEF x1, x2, y2, y1, tol
<1>3. ASSUME NEW s \in S, s # b PROVE 2 * r[s] <= (y2 + y1) + tol /\ 2 * r[s] >= (x1 + x2) - tol
  <2>1. PICK u \in S : u # s /\ u # b
    BY JudgedAreFinite
  <2>2. r[s] \in Int /\ r[u] \in Int
    BY JudgedAreFinite
  <2>3. r[s] - r[u] <= 6 /\ r[u] - r[s] <= 6
    BY <1>3, <2>1 DEF OneSuspect, NarrowNoise, kMaxInterQuartileRange
  <2>4. 2 * r[s] <= (y2 + y1) + tol
    <3>1. CASE r[s] <= y2
      BY <1>1, <2>2, <3>1
    <3>2. CASE r[s] > y2
      <4>1. r[s] = y1 /\ r[u] <= y2
        BY <1>1, <2>1, <3>2
      <4>. QED BY <1>1, <2>2, <2>3, <4>1
    <3>3. r[s] <= y2 \/ r[s] > y2
      BY <1>1, <2>2
    <3>. QED BY <3>1, <3>2, <3>3
  <2>5. 2 * r[s] >= (x1 + x2) - tol
    <3>1. CASE r[s] >= x2
      BY <1>1, <2>2, <3>1
    <3>2. CASE r[s] < x2
      <4>1. r[s] = x1 /\ r[u] >= x2
        BY <1>1, <2>1, <3>2
      <4>. QED BY <1>1, <2>2, <2>3, <4>1
    <3>3. r[s] >= x2 \/ r[s] < x2
      BY <1>1, <2>2
    <3>. QED BY <3>1, <3>2, <3>3
  <2>. QED BY <2>4, <2>5
<1>4. ASSUME NEW s \in Judge(S, r).outliers, s # b PROVE FALSE
  <2>1. s \in S /\ r[s] \in Int
    BY <1>2, JudgedAreFinite
  <2>2. 2 * r[s] < (x1 + x2) - tol \/ 2 * r[s] > (y2 + y1) + tol
    BY <1>2, <1>4
  <2>. QED BY <1>1, <1>3, <1>4, <2>1, <2>2
<1>. QED BY <1>4

(* What sensor b reads without being an outlier is no more than twice the  *)
(* range away from what another reads.                                     *)
LEMMA SuspectIsBounded ==
  ASSUME NEW S, NEW r, NEW b \in S, OneSuspect(S, r, b),
         b \notin Judge(S, r).outliers
  PROVE  \E m, n \in Noise : n - 6 <= r[b] /\ r[b] <= m + 6
<1>. DEFINE x1 == Nth(S, r, 1)                    x2 == Nth(S, r, 2)
            y2 == Nth(S, r, Cardinality(S) - 1)   y1 == Nth(S, r, Cardinality(S))
            tol == Tolerance((y2 + y1) - (x1 + x2))
<1>1. /\ {x1, x2, y2, y1, tol} \subseteq Int /\ tol \in 0..6
      /\ \A s \in S : r[s] > y2 => r[s] = y1
      /\ \A s \in S : r[s] < x2 => r[s] = x1
  BY Sorted
<1>2. ~(2 * r[b] < (x1 + x2) - tol \/ 2 * r[b] > (y2 + y1) + tol)
  BY DEF Judge, LowQuartile, HighQuartile
<1>3. /\ \E u \in S : u # b /\ r[u] >= y2
      /\ \E u \in S : u # b /\ r[u] <= x2
  <2>. DEFINE c == Cardinality(S)
  <2>1. IsFiniteSet(S) /\ c \in Nat /\ c >= 3 /\ \A s \in S : r[s] \in Int
    BY JudgedAreFinite DEF OneSuspect
  <2>2. PICK i \in 1..c : i \in 2..(c - 1) /\ y2 = Nth(S, r, i)
    BY <2>1
  <2>3. PICK j \in 1..c : j \in 2..(c - 1) /\ x2 = Nth(S, r, j)
    BY <2>1
  <2>. HIDE DEF x2, y2
  <2>4. \A t : \E u \in S : u # t /\ r[u] >= y2
    BY <2>1, <2>2, Place
  <2>5. \A t : \E u \in S : u # t /\ r[u] <= x2
    BY <2>1, <2>3, Place
  <2>. QED BY <2>4, <2>5
<1>. HIDE DEF x1, x2, y2, y1, tol
<1>4. PICK u \in S : u # b /\ r[u] >= y2
  BY <1>3
<1>5. PICK v \in S : v # b /\ r[v] <= x2
  BY <1>3
<1>6. /\ r[b] \in Int /\ r[u] \in Int /\ r[v] \in Int
      /\ r[u] \in Noise /\ r[v] \in Noise
  BY <1>4, <1>5, JudgedAreFinite DEF OneSuspect
<1>7. r[b] <= r[u] + 6
  BY <1>1, <1>2, <1>4, <1>6
<1>8. r[v] - 6 <= r[b]
  BY <1>1, <1>2, <1>5, <1>6
<1>. QED BY <1>6, <1>7, <1>8

(* The readings between the first and the last are between two of sensors  *)
(* that work.                                                              *)
LEMMA MiddleIsBounded ==
  ASSUME NEW S, NEW r, NEW b, OneSuspect(S, r, b),
         NEW i \in 2..(Cardinality(S) - 1), NEW x, x = Nth(S, r, i)
  PROVE  x \in Int /\ \E m, n \in Noise : n <= x /\ x <= m
<1>1. IsFiniteSet(S) /\ Cardinality(S) \in Nat /\ \A s \in S : r[s] \in Int
  BY JudgedAreFinite
<1>2. i \in 1..Cardinality(S)
  BY <1>1
<1>3. /\ x \in {r[s] : s \in S}
      /\ \E u \in S : u # b /\ r[u] <= x
      /\ \E u \in S : u # b /\ r[u] >= x
  BY <1>1, <1>2, Place
<1>4. PICK u \in S, v \in S : u # b /\ r[u] <= x /\ v # b /\ r[v] >= x
  BY <1>3
<1>5. r[u] \in Noise /\ r[v] \in Noise
  BY <1>4 DEF OneSuspect
<1>. QED BY <1>1, <1>3, <1>4, <1>5

(* Whatever is used in the place of the readings is plausible.             *)
LEMMA UsedIsPlausible ==
  ASSUME NumSensors >= 4, NarrowNoise, NEW S, NEW r, NEW b, OneSuspect(S, r, b),
         Cardinality(Sensor \ S) <= 1, NEW s \in S
  PROVE  Judge(S, r).used[s] \in Plausible
<1>1. ASSUME NEW n \in Noise, NEW d \in (-12)..12 PROVE 2 * n + d \in Plausible
  <2>1. Plausible = UNION {{2 * m + e : e \in (-12)..12} : m \in Noise}
    BY DEF Plausible, kMaxInterQuartileRange
  <2>2. 2 * n + d \in {2 * n + e : e \in (-12)..12}
    BY <1>1
  <2>. QED BY <2>1, <2>2
<1>2. /\ IsFiniteSet(S) /\ Cardinality(S) \in Nat /\ \A u \in S : r[u] \in Int
      /\ Noise \subseteq Int
  BY JudgedAreFinite
<1>3. \A m, n \in Noise : m - n <= 6
  BY DEF NarrowNoise, kMaxInterQuartileRange
<1>4. CASE s \notin Judge(S, r).outliers
  <2>1. Judge(S, r).used[s] = 2 * r[s]
    BY <1>4 DEF Judge
  <2>2. CASE s # b
    <3>1. r[s] \in Noise
      BY <2>2 DEF OneSuspect
    <3>. QED BY <1>1, <1>2, <2>1, <3>1
  <2>3. CASE s = b
    <3>1. PICK m \in Noise, n \in Noise : n - 6 <= r[s] /\ r[s] <= m + 6
      BY <1>4, <2>3, SuspectIsBounded
    <3>2. r[s] \in Int /\ m \in Int /\ n \in Int
      BY <1>2
    <3>3. CASE r[s] >= m
      <4>1. 2 * r[s] - 2 * m \in (-12)..12
        BY <3>1, <3>2, <3>3
      <4>2. 2 * m + (2 * r[s] - 2 * m) \in Plausible
        BY <1>1, <4>1
      <4>. QED BY <2>1, <3>2, <4>2
    <3>4. CASE r[s] < m
      <4>1. 2 * r[s] - 2 * n \in (-12)..12
        BY <1>3, <3>1, <3>2, <3>4
      <4>2. 2 * n + (2 * r[s] - 2 * n) \in Plausible
        BY <1>1, <4>1
      <4>. QED BY <2>1, <3>2, <4>2
    <3>. QED BY <3>2, <3>3, <3>4
  <2>. QED BY <2>2, <2>3
<1>5. CASE s \in Judge(S, r).outliers
  <2>1. Judge(S, r).used[s] = MedianQuartile(S, r)
    BY <1>5 DEF Judge
  <2>2. IsFiniteSet(Sensor) /\ Cardinality(Sensor) = NumSensors
    BY FS_Interval, NumSensorsAssumption DEF Sensor
  <2>3. IsFiniteSet(Sensor \ S) /\ Cardinality(Sensor \ S) \in {0, 1}
    <3>1. IsFiniteSet(Sensor \ S)
      BY <2>2, FS_Difference
    <3>2. Cardinality(Sensor \ S) \in Nat
      BY <3>1, FS_CardinalityType
    <3>. QED BY <3>1, <3>2
  <2>4. PICK x : x = Nth(S, r, 2)
    OBVIOUS
  <2>5. x \in Int /\ \E m, n \in Noise : n <= x /\ x <= m
    <3>1. 2 \in 2..(Cardinality(S) - 1)
      BY <1>2 DEF OneSuspect
    <3>. QED BY <2>4, <3>1, MiddleIsBounded
  <2>6. PICK m \in Noise, n \in Noise : n <= x /\ x <= m
    BY <2>5
  <2>7. CASE Cardinality(Sensor \ S) = 1
    <3>1. Judge(S, r).used[s] = 2 * x
      BY <2>1, <2>4, <2>7 DEF MedianQuartile
    <3>2. 2 * x - 2 * n \in (-12)..12
      BY <1>2, <1>3, <2>5, <2>6
    <3>3. 2 * n + (2 * x - 2 * n) \in Plausible
      BY <1>1, <3>2
    <3>. QED BY <1>2, <2>5, <3>1, <3>3
  <2>8. CASE Cardinality(Sensor \ S) = 0
    <3>1. PICK y : y = Nth(S, r, 3)
      OBVIOUS
    <3>2. Judge(S, r).used[s] = x + y
      BY <2>1, <2>4, <2>8, <3>1 DEF MedianQuartile
    <3>3. y \in Int /\ \E k, l \in Noise : l <= y /\ y <= k
      <4>1. S = Sensor
        BY <2>3, <2>8, FS_EmptySet DEF OneSuspect
      <4>2. 3 \in 2..(Cardinality(S) - 1)
        BY <2>2, <4>1, NumSensorsAssumption
      <4>. QED BY <3>1, <4>2, MiddleIsBounded
    <3>4. PICK k \in Noise, l \in Noise : l <= y /\ y <= k
      BY <3>3
    <3>5. m - n <= 6 /\ k - n <= 6 /\ n - l <= 6
      BY <1>3
    <3>6. (x + y) - 2 * n \in (-12)..12
      BY <1>2, <2>5, <2>6, <3>3, <3>4, <3>5
    <3>7. 2 * n + ((x + y) - 2 * n) \in Plausible
      BY <1>1, <3>6
    <3>. QED BY <1>2, <2>5, <3>2, <3>3, <3>7
  <2>. QED BY <2>3, <2>7, <2>8
<1>. QED BY <1>4, <1>5

-----------------------------------------------------------------------------
(* The sensors that work *)

(* Only fragile sensors break, no sensor that works has been given up, and *)
(* what was measured is plausible, as long as one sensor is broken at most.*)
TrustInv ==
  /\ broken \in [Kind -> SUBSET Fragile]
  /\ GoodSensorsAreTrusted
  /\ BrokenImuIsBounded

(* A verdict on the readings of a kind is one on readings that its sensors *)
(* can have.                                                               *)
LEMMA VerdictJudges ==
  ASSUME TypeOK, TrustInv, NEW k \in Kind, Countable(k), NEW v \in Verdicts(k)
  PROVE  \E r \in Readings(broken[k]) : v = Judge(reliable[k], r)
<1>. DEFINE entry == [sensors |-> reliable[k], broken |-> broken[k],
                      verdicts |-> {Judge(reliable[k], r) : r \in Readings(broken[k])}]
<1>1. reliable[k] \in Enough /\ broken[k] \in SUBSET Fragile
  <2>1. reliable[k] \in SUBSET Sensor /\ broken[k] \in SUBSET Fragile
    BY DEF TypeOK, TrustInv
  <2>. QED BY <2>1 DEF Countable, Enough
<1>2. entry \in Table
  <2>. DEFINE Entry(S, B) == [sensors |-> S, broken |-> B,
                              verdicts |-> {Judge(S, r) : r \in Readings(B)}]
  <2>1. Table = {Entry(S, B) : S \in Enough, B \in SUBSET Fragile}
    BY DEF Table
  <2>2. entry = Entry(reliable[k], broken[k])
    OBVIOUS
  <2>. HIDE DEF Entry, entry
  <2>. QED BY <1>1, <2>1, <2>2
<1>3. \A t \in Table : t.sensors = reliable[k] /\ t.broken = broken[k] => t.verdicts = entry.verdicts
  BY DEF Table
<1>. DEFINE t == CHOOSE u \in Table : u.sensors = reliable[k] /\ u.broken = broken[k]
<1>4. t \in Table /\ t.sensors = reliable[k] /\ t.broken = broken[k]
  BY <1>2
<1>5. Verdicts(k) = entry.verdicts
  <2>. HIDE DEF t, entry
  <2>1. t.verdicts = entry.verdicts
    BY <1>3, <1>4
  <2>. QED BY <2>1 DEF Verdicts, t
<1>. QED BY <1>5

(* As long as one sensor of a kind is broken at most, the readings judged  *)
(* are those of three sensors or more, of which only that one is suspect.  *)
LEMMA Suspect ==
  ASSUME NumSensors >= 4, TypeOK, TrustInv,
         NEW k \in Kind, Cardinality(broken[k]) <= 1, NEW r \in Readings(broken[k])
  PROVE  /\ Cardinality(Sensor \ reliable[k]) <= 1
         /\ \E b : broken[k] = Sensor \cap {b} /\ OneSuspect(reliable[k], r, b)
<1>1. IsFiniteSet(Sensor) /\ Cardinality(Sensor) = NumSensors
  BY FS_Interval, NumSensorsAssumption DEF Sensor
<1>2. broken[k] \in SUBSET Sensor /\ reliable[k] \in SUBSET Sensor
  BY DEF TypeOK
<1>3. IsFiniteSet(broken[k]) /\ Cardinality(broken[k]) \in Nat
  BY <1>1, <1>2, FS_Subset, FS_CardinalityType
<1>4. PICK b : broken[k] = Sensor \cap {b}
  <2>1. CASE Cardinality(broken[k]) = 0
    <3>1. broken[k] = {} /\ 0 \notin Sensor
      BY <1>3, <2>1, FS_EmptySet DEF Sensor
    <3>. QED BY <3>1
  <2>2. CASE Cardinality(broken[k]) = 1
    <3>1. PICK b : broken[k] = {b}
      BY <1>3, <2>2, FS_Singleton
    <3>. QED BY <1>2, <3>1
  <2>3. Cardinality(broken[k]) \in {0, 1}
    BY <1>3
  <2>. QED BY <2>1, <2>2, <2>3
<1>5. Sensor \ broken[k] \subseteq reliable[k]
  BY DEF TrustInv, GoodSensorsAreTrusted
<1>6. Cardinality(Sensor \ reliable[k]) <= 1
  <2>1. Sensor \ reliable[k] \in SUBSET broken[k]
    BY <1>5
  <2>2. Cardinality(Sensor \ reliable[k]) \in Nat /\ Cardinality(Sensor \ reliable[k]) <= Cardinality(broken[k])
    BY <1>3, <2>1, FS_Subset, FS_CardinalityType
  <2>. QED BY <1>3, <2>2
<1>7. Cardinality(reliable[k]) >= 3
  <2>. DEFINE R == reliable[k]
  <2>1. Sensor \cap R = R
    BY <1>2
  <2>2. Cardinality(Sensor \ R) = Cardinality(Sensor) - Cardinality(Sensor \cap R)
    BY <1>1, FS_Difference
  <2>3. Cardinality(R) \in Nat
    BY <1>1, <1>2, FS_Subset, FS_CardinalityType
  <2>4. Cardinality(Sensor \ R) \in Nat
    BY <1>1, FS_Difference, FS_CardinalityType
  <2>5. Cardinality(Sensor \ R) = NumSensors - Cardinality(R)
    BY <1>1, <2>1, <2>2
  <2>. HIDE DEF R
  <2>. QED BY <1>6, <2>3, <2>4, <2>5, NumSensorsAssumption DEF R
<1>8. r \in [Sensor -> Reading] /\ \A s \in Sensor \ broken[k] : r[s] \in Noise
  BY DEF Readings
<1>. QED BY <1>2, <1>4, <1>6, <1>7, <1>8 DEF OneSuspect

(* A detection gives up no sensor that works.                              *)
LEMMA DetectTrusts ==
  ASSUME NumSensors >= 4, NarrowNoise, TypeOK, TrustInv, UNCHANGED broken,
         NEW k \in Kind, Countable(k), NEW v \in Verdicts(k), Detect(k, v.outliers)
  PROVE  GoodSensorsAreTrusted'
<1>. SUFFICES ASSUME NEW j \in Kind, Cardinality(broken[j]) <= 1
              PROVE  Sensor \ broken[j] \subseteq reliable'[j]
  BY DEF GoodSensorsAreTrusted
<1>1. Sensor \ broken[j] \subseteq reliable[j]
  BY DEF TrustInv, GoodSensorsAreTrusted
<1>2. CASE j # k
  BY <1>1, <1>2 DEF Detect, TypeOK
<1>3. CASE j = k
  <2>1. PICK r \in Readings(broken[k]) : v = Judge(reliable[k], r)
    BY VerdictJudges
  <2>2. PICK b : broken[k] = Sensor \cap {b} /\ OneSuspect(reliable[k], r, b)
    BY <1>3, Suspect
  <2>3. v.outliers \subseteq {b}
    BY <2>1, <2>2, OnlySuspectIsOutlier
  <2>4. Given(k, v.outliers) \subseteq {b}
    BY <2>3 DEF Given
  <2>. QED BY <1>1, <1>3, <2>2, <2>4 DEF Detect, TypeOK
<1>. QED BY <1>2, <1>3

(* What a detection hands to the filters is plausible.                     *)
LEMMA DetectBounds ==
  ASSUME NumSensors >= 4, NarrowNoise, TypeOK, TrustInv, NEW k \in Kind, Countable(k),
         NEW v \in Verdicts(k), Cardinality(broken[k]) <= 1, NEW s \in reliable[k]
  PROVE  v.used[s] \in Plausible
<1>1. PICK r \in Readings(broken[k]) : v = Judge(reliable[k], r)
  BY VerdictJudges
<1>2. PICK b : Cardinality(Sensor \ reliable[k]) <= 1 /\ OneSuspect(reliable[k], r, b)
  BY Suspect
<1>. QED BY <1>1, <1>2, UsedIsPlausible

LEMMA InitTrust == ASSUME Init PROVE TrustInv
BY DEF Init, TrustInv, GoodSensorsAreTrusted, BrokenImuIsBounded

LEMMA NextTrust ==
  ASSUME NumSensors >= 4, NarrowNoise, TypeOK, TrustInv, [Next]_vars
  PROVE  TrustInv'
<1>1. CASE queryImus /\ UNCHANGED broken
  <2>1. CASE Terminate
    BY <1>1, <2>1 DEF Terminate, TrustInv, GoodSensorsAreTrusted, BrokenImuIsBounded, sensorVars
  <2>2. ASSUME Countable("imu"), NEW v \in Verdicts("imu"), Detect("imu", v.outliers),
               measured' = {v.used[s] : s \in reliable["imu"] \ Given("imu", v.outliers)}
        PROVE  TrustInv'
    <3>1. GoodSensorsAreTrusted'
      BY <1>1, <2>2, DetectTrusts DEF Kind
    <3>2. Cardinality(broken["imu"]) <= 1 => \A s \in reliable["imu"] : v.used[s] \in Plausible
      BY <2>2, DetectBounds DEF Kind
    <3>. QED BY <1>1, <2>2, <3>1, <3>2 DEF TrustInv, BrokenImuIsBounded
  <2>. QED BY <1>1, <2>1, <2>2 DEF queryImus
<1>2. CASE queryWheelEncoders /\ UNCHANGED broken
  <2>1. CASE Terminate
    BY <1>2, <2>1 DEF Terminate, TrustInv, GoodSensorsAreTrusted, BrokenImuIsBounded, sensorVars
  <2>2. ASSUME Countable("encoder"), NEW v \in Verdicts("encoder"), Detect("encoder", v.outliers), measured' = {}
        PROVE  TrustInv'
    <3>1. GoodSensorsAreTrusted'
      BY <1>2, <2>2, DetectTrusts DEF Kind
    <3>. QED BY <1>2, <2>2, <3>1 DEF TrustInv, BrokenImuIsBounded
  <2>. QED BY <1>2, <2>1, <2>2 DEF queryWheelEncoders
<1>3. ASSUME UNCHANGED <<sensorVars, broken>> PROVE TrustInv'
  BY <1>3 DEF TrustInv, GoodSensorsAreTrusted, BrokenImuIsBounded, sensorVars
<1>4. ASSUME NEW k \in Kind, NEW s \in Fragile, Break(k, s) PROVE TrustInv'
  <2>1. UNCHANGED sensorVars /\ broken' = [broken EXCEPT ![k] = @ \union {s}]
    BY <1>4 DEF Break
  <2>2. broken' \in [Kind -> SUBSET Fragile]
    BY <2>1 DEF TrustInv
  <2>3. ASSUME NEW j \in Kind, Cardinality(broken'[j]) <= 1
        PROVE  broken[j] \subseteq broken'[j] /\ Cardinality(broken[j]) <= 1
    <3>1. IsFiniteSet(broken'[j])
      <4>1. IsFiniteSet(Sensor)
        BY FS_Interval, NumSensorsAssumption DEF Sensor
      <4>2. broken'[j] \in SUBSET Sensor
        BY <2>2, FragileAssumption
      <4>. QED BY <4>1, <4>2, FS_Subset
    <3>2. broken[j] \in SUBSET (broken'[j])
      BY <2>1 DEF TrustInv
    <3>3. Cardinality(broken[j]) <= Cardinality(broken'[j])
          /\ Cardinality(broken[j]) \in Nat /\ Cardinality(broken'[j]) \in Nat
      BY <3>1, <3>2, FS_Subset, FS_CardinalityType
    <3>. QED BY <2>3, <3>2, <3>3
  <2>4. GoodSensorsAreTrusted'
    BY <2>1, <2>3 DEF TrustInv, GoodSensorsAreTrusted, sensorVars
  <2>5. BrokenImuIsBounded'
    BY <2>1, <2>3 DEF TrustInv, BrokenImuIsBounded, sensorVars, Kind, Plausible
  <2>. QED BY <2>2, <2>4, <2>5 DEF TrustInv
<1>5. CASE NavigationThread
  <2>1. UNCHANGED broken
    BY <1>5 DEF NavigationThread
  <2>2. \/ queryImus \/ queryWheelEncoders \/ UNCHANGED sensorVars
    BY <1>5 DEF NavigationThread, Start, Loop, updateData, Calibrate, compareEncoderImu
  <2>. QED BY <1>1, <1>2, <1>3, <2>1, <2>2
<1>6. CASE Transition \/ StopSystem \/ UNCHANGED vars
  BY <1>3, <1>6 DEF Transition, StopSystem, vars
<1>. QED BY <1>4, <1>5, <1>6 DEF Next

(* For any number of sensors from four on and any readings, if those of    *)
(* sensors that work differ by no more than the range that is tolerated at *)
(* most: a sensor that works is not given up while one other is broken at  *)
(* most, whatever that one reads and in whatever order they are judged     *)
(* (navigation.cpp:345-462).                                               *)
THEOREM GoodSensorsTrusted ==
  ASSUME NumSensors >= 4, NarrowNoise
  PROVE  Spec => []GoodSensorsAreTrusted
<1>1. TypeOK /\ TrustInv /\ [Next]_vars => TrustInv'
  BY NextTrust
<1>2. TrustInv => GoodSensorsAreTrusted
  BY DEF TrustInv
<1>. QED BY <1>1, <1>2, InitTrust, TypeCorrect, PTL DEF Spec

(* Under the same conditions what the detection hands to the filters is    *)
(* never farther than twice the range from what a sensor that works reads, *)
(* though the broken one takes part in the quartiles, and the median is    *)
(* used in its place (navigation.cpp:216-261, 345-428).                    *)
THEOREM BrokenImusBounded ==
  ASSUME NumSensors >= 4, NarrowNoise
  PROVE  Spec => []BrokenImuIsBounded
<1>1. TypeOK /\ TrustInv /\ [Next]_vars => TrustInv'
  BY NextTrust
<1>2. TrustInv => BrokenImuIsBounded
  BY DEF TrustInv
<1>. QED BY <1>1, <1>2, InitTrust, TypeCorrect, PTL DEF Spec
=============================================================================
