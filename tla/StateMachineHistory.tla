------------------------ MODULE StateMachineHistory ------------------------
(***************************************************************************)
(* The state machine with a history of the current pass, to say what a     *)
(* decision made from copies has to do with what was on the blackboard.    *)
(***************************************************************************)
EXTENDS StateMachine

VARIABLES
  lingering,  \* the causes of emergency that have been on the blackboard
              \* without a break since the current pass began
  raised      \* those that have been on it at some time since then

hvars == <<vars, lingering, raised>>

HInit == Init /\ lingering = Causes(Blackboard) /\ raised = Causes(Blackboard)

HNext ==
  /\ Next
  /\ LET now == Causes(Blackboard)' IN
       /\ lingering' = IF BeginPass THEN now ELSE lingering \intersect now
       /\ raised'    = IF BeginPass THEN now ELSE raised \union now

HSpec == HInit /\ [][HNext]_hvars

-----------------------------------------------------------------------------
(* The machine leaves a state in which it watches for emergencies.         *)
WatchedStep == current \in Watches /\ current' # current

(* A pass overlooks no cause of emergency that was on the blackboard when  *)
(* it began and never left it, although it reads the structs one by one:   *)
(* every step of the run that is taken as nominal has nothing lingering.   *)
NominalOnlyWhenHealthy ==
  [][WatchedStep /\ current' \notin Failures => lingering = {}]_hvars

(* The converse: a failure state that is entered because of an emergency   *)
(* has a cause that was on the blackboard at some time during the pass.    *)
FailureHasCause ==
  [][WatchedStep /\ current' \in Failures => raised # {}]_hvars

=============================================================================
