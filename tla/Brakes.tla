------------------------------- MODULE Brakes -------------------------------
(***************************************************************************)
(* The brakes thread (src/src/brakes/main.cpp) and the two brakes it       *)
(* drives (src/src/brakes/brake.cpp).  The thread acts on the state that   *)
(* it read when its iteration began: commanding the brakes and waiting for *)
(* them takes kBrakeCommandWaitTime, and the state may have moved on.      *)
(***************************************************************************)
EXTENDS PodData

CONSTANT
  Sticky   \* the brakes that may fail to move, or move by themselves

Brake == {"magnetic", "friction"}

VARIABLES
  status,           \* Data: this thread writes the entry of "brakes"
  brakesRetracted,  \* Data: struct Brakes, the flags brakes_retracted
  podState,         \* Data: the state that the state machine published
  nominalBraking,   \* Data: struct Telemetry, nominal_braking_command
  running,          \* System::running_
  bpc,              \* the thread: at which step of run() it is
  task,             \* the thread: what this iteration does with the brakes
  engaged,          \* the brakes: isEngaged(), the position of the button
  commanded         \* the brakes: whether the command pin is set

brakesVars == <<status, brakesRetracted, bpc, task, engaged, commanded>>

Task == {"none", "engage", "retract", "calibrate", "verify"}

(* Fault: the status is one off in the enumeration.                        *)
ReportNextStatus(s) == status' = [status EXCEPT !["brakes"] = s + 1]

Report(s) == status' = [status EXCEPT !["brakes"] = s]

-----------------------------------------------------------------------------
(* The iterations of run(). *)

Start ==
  /\ bpc = "start"
  /\ Report(kInit)
  /\ bpc' = "loop"
  /\ UNCHANGED <<brakesRetracted, task, engaged, commanded>>

Rests   == {"kIdle", "kReady", "kPreReady", "kFailureStopped"}
Obeys   == {"kPreCalibrating", "kFinished"}
Rolls   == {"kAccelerating", "kCruising", "kPreBraking", "kFailurePreBraking"}
Engages == {"kNominalBraking", "kFailureBraking"}

(* Fault: nominal braking is left to the motors.                           *)
ReadStateWithoutNominalBraking ==
  /\ bpc = "loop"
  /\ running
  /\ \/ podState \in Rests \union {"kNominalBraking"} /\ UNCHANGED <<bpc, task>>
     \/ podState \in Obeys /\ bpc' = "ask" /\ UNCHANGED task
     \/ podState = "kCalibrating" /\ bpc' = "command" /\ task' = "calibrate"
     \/ podState \in Rolls /\ bpc' = "magnetic" /\ task' = "verify"
     \/ podState = "kFailureBraking" /\ bpc' = "command" /\ task' = "engage"
  /\ UNCHANGED <<status, brakesRetracted, engaged, commanded>>

(* The switch over the state: what the iteration does is settled here. *)
ReadState ==
  /\ bpc = "loop"
  /\ running
  /\ \/ podState \in Rests /\ UNCHANGED <<bpc, task>>
     \/ podState \in Obeys /\ bpc' = "ask" /\ UNCHANGED task
     \/ podState = "kCalibrating" /\ bpc' = "command" /\ task' = "calibrate"
     \/ podState \in Rolls /\ bpc' = "magnetic" /\ task' = "verify"
     \/ podState \in Engages /\ bpc' = "command" /\ task' = "engage"
  /\ UNCHANGED <<status, brakesRetracted, engaged, commanded>>

(* Before and after the run the operator decides by telemetry. *)
AskOperator ==
  /\ bpc = "ask"
  /\ task' = IF nominalBraking THEN "engage" ELSE "retract"
  /\ bpc' = "command"
  /\ UNCHANGED <<status, brakesRetracted, engaged, commanded>>

(* engage() and retract() leave the pin of a brake alone whose button says *)
(* that it is already there.                                               *)
CommandBrakes ==
  /\ bpc = "command"
  /\ LET wanted == task = "engage" IN
       commanded' = [b \in Brake |-> IF engaged[b] = wanted THEN commanded[b] ELSE wanted]
  /\ bpc' = "sleep"
  /\ UNCHANGED <<status, brakesRetracted, task, engaged>>

(* Fault: the sleep is too short for a brake to follow.                    *)
WakeEarly ==
  /\ bpc = "sleep"
  /\ bpc' = "magnetic"
  /\ UNCHANGED <<status, brakesRetracted, task, engaged, commanded>>

(* The sleep is long enough for a brake that works to follow its pin. *)
Wake ==
  /\ bpc = "sleep"
  /\ \A b \in Brake \ Sticky : engaged[b] = commanded[b]
  /\ bpc' = "magnetic"
  /\ UNCHANGED <<status, brakesRetracted, task, engaged, commanded>>

AfterCheck(b) == IF b = "magnetic" THEN "friction"
                 ELSE IF task = "calibrate" THEN "publish"
                 ELSE "loop"

(* Fault: what is seen of the brakes while driving is not reported.        *)
CheckWithoutVerifying(b) ==
  /\ bpc = b
  /\ IF engaged[b] = (task = "engage")
     THEN /\ brakesRetracted' = [brakesRetracted EXCEPT ![b] = TRUE]
          /\ UNCHANGED status
     ELSE /\ IF task = "verify" THEN UNCHANGED status ELSE Report(kCriticalFailure)
          /\ UNCHANGED brakesRetracted
  /\ bpc' = AfterCheck(b)
  /\ UNCHANGED <<task, engaged, commanded>>

(* checkEngaged() and checkRetracted(), one brake at a time: a wrong       *)
(* position is a critical failure, a right one sets the flag in both.      *)
Check(b) ==
  /\ bpc = b
  /\ IF engaged[b] = (task = "engage")
     THEN /\ brakesRetracted' = [brakesRetracted EXCEPT ![b] = TRUE]
          /\ UNCHANGED status
     ELSE Report(kCriticalFailure) /\ UNCHANGED brakesRetracted
  /\ bpc' = AfterCheck(b)
  /\ UNCHANGED <<task, engaged, commanded>>

(* Calibrating ends with kReady, whatever the check of the brakes said. *)
PublishReady ==
  /\ bpc = "publish"
  /\ Report(kReady)
  /\ bpc' = "loop"
  /\ UNCHANGED <<brakesRetracted, task, engaged, commanded>>

Exit ==
  /\ bpc = "loop"
  /\ ~running
  /\ bpc' = "exited"
  /\ UNCHANGED <<status, brakesRetracted, task, engaged, commanded>>

BrakesStep ==
  \/ Start \/ ReadState \/ AskOperator \/ CommandBrakes \/ Wake
  \/ (\E b \in Brake : Check(b))
  \/ PublishReady \/ Exit

-----------------------------------------------------------------------------
(* The hardware: a brake follows its command pin, unless it is sticky. *)

Follow(b) ==
  /\ engaged[b] # commanded[b]
  /\ engaged' = [engaged EXCEPT ![b] = commanded[b]]
  /\ UNCHANGED <<status, brakesRetracted, bpc, task, commanded>>

Slip(b) ==
  /\ b \in Sticky
  /\ engaged[b] = commanded[b]
  /\ engaged' = [engaged EXCEPT ![b] = ~@]
  /\ UNCHANGED <<status, brakesRetracted, bpc, task, commanded>>

Hardware == \E b \in Brake : Follow(b) \/ Slip(b)

-----------------------------------------------------------------------------
(* An output pin is set when it is opened: the brakes start out engaged. *)
BrakesInit ==
  /\ brakesRetracted = [b \in Brake |-> FALSE]
  /\ bpc = "start"
  /\ task = "none"
  /\ engaged = [b \in Brake |-> TRUE]
  /\ commanded = [b \in Brake |-> TRUE]

BrakesTypeOK ==
  /\ brakesRetracted \in [Brake -> BOOLEAN]
  /\ bpc \in Brake \union {"start", "loop", "ask", "command", "sleep", "publish", "exited"}
  /\ task \in Task
  /\ engaged \in [Brake -> BOOLEAN]
  /\ commanded \in [Brake -> BOOLEAN]

=============================================================================
