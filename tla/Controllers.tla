---------------------------- MODULE Controllers ----------------------------
(***************************************************************************)
(* The motor controllers as the propulsion thread talks to them: a call of *)
(* StateProcessor becomes a list of CAN messages, each sent and waited for *)
(* by CanSender (src/src/propulsion/can/can_sender.cpp) while the CAN      *)
(* thread (src/src/utils/io/can.cpp) delivers what the drives answer.      *)
(* Controller (src/src/propulsion/controller.cpp) makes a critical failure *)
(* of a reply that does not come, and of an emergency that does.           *)
(***************************************************************************)
EXTENDS PodData, Sequences

CONSTANTS
  N,              \* how many controllers there are
  Configuration,  \* how many messages configure one of them
  Faults,         \* what may go wrong on the bus and in the drives
  MaxFaults,      \* bound on how often it does
  StatusBits      \* what a drive may add to the eight bits of its status

Node == 1..N

Fault == {"emergency", "silence", "loss", "delay", "heat", "restart"}

ASSUME NAssumption == N \in Nat \ {0}
ASSUME ConfigurationAssumption == Configuration \in Nat \ {0}
ASSUME FaultsAssumption == Faults \subseteq Fault
ASSUME MaxFaultsAssumption == MaxFaults \in Nat
ASSUME StatusBitsAssumption == StatusBits \subseteq {0, 16, 128, 144}

VARIABLES
  motors,       \* Data: struct Motors, module_status
  ctl,          \* the controllers' members, one record for each
  initialised,  \* StateProcessor::is_initialised_
  registered,   \* whether the controllers are registered with the bus
  call,         \* the call of StateProcessor that is executed
  at,           \* where it is: the node, N + 1 at the end, and the step of its script
  spc,          \* the caller: how far it is in CanSender::sendMessage()
  frame,        \* the CAN thread: the frame it handles, if there is one
  requests,     \* frames on their way to the drives
  replies,      \* frames on their way to the pod
  drive,        \* the drives
  faults        \* how many faults there were, for MaxFaults

callVars  == <<call, at, spc>>
busVars   == <<frame, requests, replies, drive, faults>>
ctlrsVars == <<motors, ctl, initialised, registered, callVars, busVars>>

-----------------------------------------------------------------------------
(* The states of a drive and the status words that tell them. *)

ControllerState == {"kNotReadyToSwitchOn", "kSwitchOnDisabled", "kReadyToSwitchOn", "kSwitchedOn",
                    "kOperationEnabled", "kQuickStopActive", "kFaultReactionActive", "kFault"}

Statusword == [kNotReadyToSwitchOn |-> 0,  kSwitchOnDisabled |-> 64,
               kReadyToSwitchOn    |-> 33, kSwitchedOn       |-> 35,
               kOperationEnabled   |-> 39, kQuickStopActive  |-> 7,
               kFaultReactionActive |-> 15, kFault           |-> 8]

(* What the controller makes of the byte: it has to match exactly, and is  *)
(* ignored otherwise.                                                      *)
DecodedState(byte, old) ==
  IF \E s \in ControllerState : Statusword[s] = byte
  THEN CHOOSE s \in ControllerState : Statusword[s] = byte
  ELSE old

-----------------------------------------------------------------------------
(* A call as an item after the other, for every controller in turn: a      *)
(* message to send, or a look at state_.                                   *)

Item(n, m)        == [node |-> n, message |-> m, arg |-> "none", skip |-> 0]
Numbered(n, m, i) == [Item(n, m) EXCEPT !.skip = i]

(* After a look that finds the state, the next so many items are skipped.  *)
Look(n, s, skip)    == [Item(n, "look") EXCEPT !.arg = s, !.skip = skip]
LastLook(n, s)      == [Item(n, "lastLook") EXCEPT !.arg = s]

(* sendControllerMessage() after which the caller returns if it failed.    *)
Aborting == {"configure", "mode", "brake", "warnings", "errors"}

(* sendMessage() whose result is ignored. The last is what a transition    *)
(* that is tried again sends: by then sdo_message_ holds the request of    *)
(* checkState().                                                           *)
Unheeded == {"operational", "velocity", "shutdown", "enable", "statusAgain"}

Message == Aborting \union Unheeded
             \union {"status", "rpm", "temperature", "quickStop", "halt"}

configure(n) == [i \in 1..Configuration |-> Numbered(n, "configure", i)]

(* The command m goes out with the first try only.                         *)
requestStateTransition(n, m, s) ==
  << Item(n, m), Item(n, "status"), Look(n, s, 6),
     Item(n, "statusAgain"), Item(n, "status"), Look(n, s, 3),
     Item(n, "statusAgain"), Item(n, "status"), LastLook(n, s) >>

enterOperational(n) ==
  << Item(n, "operational"), Item(n, "mode"), Item(n, "velocity"), Item(n, "brake") >>
    \o requestStateTransition(n, "shutdown", "kReadyToSwitchOn")
    \o requestStateTransition(n, "enable", "kOperationEnabled")

enterPreOperational(n) ==
  << Item(n, "status"), Look(n, "kReadyToSwitchOn", 1), Item(n, "halt") >>

(* The calls of StateProcessor. *)
Script(c, n) ==
  CASE c = "initialiseMotors"    -> configure(n)
    [] c = "prepareMotors"       -> enterOperational(n)
    [] c = "enterPreOperational" -> enterPreOperational(n)
    [] c = "pollVelocities"      -> << Item(n, "rpm") >>
    [] c = "pollTemperatures"    -> << Item(n, "temperature") >>
    [] c = "setVelocities"       -> << Item(n, "velocity") >>
    [] c = "quickStopAll"        -> << Item(n, "quickStop") >>
    [] c = "healthCheck"         -> << Item(n, "warnings"), Item(n, "errors") >>

Call == {"initialiseMotors", "prepareMotors", "enterPreOperational", "pollVelocities",
         "pollTemperatures", "setVelocities", "quickStopAll", "healthCheck"}

(* Where a call goes on that leaves its node, or takes that many steps.    *)
NextNode == [node |-> at.node + 1, step |-> 1]
After(steps) == IF at.step + steps <= Len(Script(call, at.node))
                THEN [at EXCEPT !.step = @ + steps] ELSE NextNode

Left  == at.node <= N
Current == Script(call, at.node)[at.step]

(* A call begins; initialiseMotors() registers the controllers first. *)
Invoke(c) ==
  /\ call = "none"
  /\ call' = c
  /\ at' = [node |-> 1, step |-> 1]
  /\ registered' = (registered \/ c = "initialiseMotors")
  /\ UNCHANGED <<motors, ctl, initialised, spc, busVars>>

Done == ~Left /\ spc = "idle"

(* initialiseMotors() asks every controller whether it failed. *)
Return ==
  /\ call # "none"
  /\ Done
  /\ call' = "none"
  /\ initialised' =
       (initialised \/ (call = "initialiseMotors" /\ \A n \in Node : ~ctl[n].failed))
  /\ UNCHANGED <<motors, ctl, registered, at, spc, busVars>>

-----------------------------------------------------------------------------
(* The caller in sendMessage(). *)

Sends(i) == i.message \in Message

Send ==
  /\ Left /\ spc = "idle"
  /\ Sends(Current)
  /\ \/ requests' = Append(requests, Current) /\ UNCHANGED faults
     \/ /\ "loss" \in Faults /\ faults < MaxFaults
        /\ faults' = faults + 1
        /\ UNCHANGED requests
  /\ spc' = "sent"
  /\ UNCHANGED <<motors, ctl, initialised, registered, call, at, frame, replies, drive>>

(* is_sending_ is set only after the frame has gone out. *)
Arm ==
  /\ spc = "sent"
  /\ ctl' = [ctl EXCEPT ![at.node].sending = TRUE]
  /\ spc' = "waiting"
  /\ UNCHANGED <<motors, initialised, registered, call, at, busVars>>

(* Where the call goes on when the current message is dealt with. *)
Rest(failed) == IF failed /\ Current.message \in Aborting THEN NextNode ELSE After(1)

Answered ==
  /\ spc = "waiting"
  /\ ~ctl[at.node].sending
  /\ at' = Rest(ctl[at.node].failed)
  /\ spc' = "idle"
  /\ UNCHANGED <<motors, ctl, initialised, registered, call, busVars>>

(* Nothing of the node is under way that could still answer in time. *)
NothingComes(n) ==
  /\ \A i \in DOMAIN requests : requests[i].node # n \/ requests[i].message = "operational"
  /\ \A i \in DOMAIN replies : replies[i].node # n

(* Fault: a reply that does not come is only logged. *)
TimeoutUnheeded ==
  /\ spc = "waiting"
  /\ ctl[at.node].sending
  /\ \/ NothingComes(at.node) /\ UNCHANGED faults
     \/ "delay" \in Faults /\ faults < MaxFaults /\ faults' = faults + 1
  /\ at' = Rest(ctl[at.node].failed)
  /\ spc' = "idle"
  /\ UNCHANGED <<motors, ctl, initialised, registered, call, frame, requests, replies, drive>>

(* Fault: there is no timeout, as in FakeCanSender. *)
TimeoutNever == FALSE /\ UNCHANGED ctlrsVars

Timeout ==
  /\ spc = "waiting"
  /\ ctl[at.node].sending
  /\ \/ NothingComes(at.node) /\ UNCHANGED faults
     \/ "delay" \in Faults /\ faults < MaxFaults /\ faults' = faults + 1
  /\ LET critical == Current.message \notin Unheeded
     IN  /\ ctl' = [ctl EXCEPT ![at.node].failed = @ \/ critical]
         /\ motors' = IF critical THEN kCriticalFailure ELSE motors
         /\ at' = Rest(ctl[at.node].failed \/ critical)
  /\ spc' = "idle"
  /\ UNCHANGED <<initialised, registered, call, frame, requests, replies, drive>>

Reached == ctl[at.node].state = Current.arg

(* Fault: the last look is like the others. *)
LookAtStateOnly ==
  /\ Left /\ spc = "idle"
  /\ ~Sends(Current)
  /\ at' = After(IF Reached THEN 1 + Current.skip ELSE 1)
  /\ UNCHANGED <<motors, ctl, initialised, registered, call, spc, busVars>>

(* A look at state_, while a status that is late may still be under way. *)
LookAtState ==
  /\ Left /\ spc = "idle"
  /\ ~Sends(Current)
  /\ at' = After(IF Reached THEN 1 + Current.skip ELSE 1)
  /\ LET fails == Current.message = "lastLook" /\ ~Reached
     IN  /\ ctl' = [ctl EXCEPT ![at.node].failed = @ \/ fails]
         /\ motors' = IF fails THEN kCriticalFailure ELSE motors
  /\ UNCHANGED <<initialised, registered, call, spc, busVars>>

CallerStep == Send \/ Arm \/ Answered \/ Timeout \/ LookAtState

-----------------------------------------------------------------------------
(* The CAN thread. *)

Frame(n, about, value) == [node |-> n, about |-> about, value |-> value]

NoFrame == Frame(0, "none", "none")

(* Any frame of the node ends the wait, before the controller has seen it. *)
Deliver ==
  /\ frame = NoFrame
  /\ replies # <<>>
  /\ replies' = Tail(replies)
  /\ IF registered
     THEN /\ frame' = Head(replies)
          /\ ctl' = [ctl EXCEPT ![Head(replies).node].sending = FALSE]
     ELSE UNCHANGED <<frame, ctl>>
  /\ UNCHANGED <<motors, initialised, registered, callVars, requests, drive, faults>>

(* processEmergencyMessage(), and a warning or error of processSdoMessage() *)
(* both of whose bytes are set.                                             *)
IsFailure(f) ==
  \/ f.about = "emergency"
  \/ f.about \in {"warnings", "errors"} /\ f.value = "bothBytes"

Stored(c, f) ==
  [c EXCEPT !.failed = @ \/ IsFailure(f),
            !.state  = IF f.about = "status" THEN DecodedState(f.value, @) ELSE @,
            !.hot    = IF f.about = "temperature" THEN f.value ELSE @]

Process ==
  /\ frame # NoFrame
  /\ ctl' = [ctl EXCEPT ![frame.node] = Stored(@, frame)]
  /\ motors' = IF IsFailure(frame) THEN kCriticalFailure ELSE motors
  /\ frame' = NoFrame
  /\ UNCHANGED <<initialised, registered, callVars, requests, replies, drive, faults>>

CanStep == Deliver \/ Process

-----------------------------------------------------------------------------
(* The drives. *)

DriveAfter(d, i) ==
  [d EXCEPT !.state =
     CASE i.message = "operational" /\ @ = "kNotReadyToSwitchOn" -> "kSwitchOnDisabled"
       [] i.message \in {"shutdown", "halt"} /\ @ \in {"kSwitchOnDisabled", "kOperationEnabled"}
            -> "kReadyToSwitchOn"
       [] i.message = "enable" /\ @ = "kReadyToSwitchOn" -> "kOperationEnabled"
       [] i.message = "quickStop" /\ @ = "kOperationEnabled" -> "kQuickStopActive"
       [] OTHER -> @,
   !.configured = IF i.message = "configure" THEN @ \union {i.skip} ELSE @,
   !.stopped = (@ /\ i.message # "velocity") \/ i.message = "quickStop"]

(* What a drive may answer to a message; a network command is not answered. *)
Answers(n, m) ==
  CASE m \in {"status", "statusAgain"} ->
         {Frame(n, "status", Statusword[drive[n].state] + b) : b \in StatusBits}
    [] m = "temperature" -> {Frame(n, "temperature", drive[n].hot)}
    [] m \in {"warnings", "errors"} ->
         {Frame(n, m, v) : v \in IF drive[n].state = "kFault" THEN {"oneByte", "bothBytes"}
                                                               ELSE {"none"}}
    [] OTHER             -> {Frame(n, "ack", "none")}

Answer ==
  /\ requests # <<>>
  /\ LET i == Head(requests) IN
       IF drive[i.node].silent
       THEN UNCHANGED <<drive, replies>>
       ELSE /\ drive' = [drive EXCEPT ![i.node] = DriveAfter(@, i)]
            /\ IF i.message = "operational" THEN UNCHANGED replies
               ELSE \E a \in Answers(i.node, i.message) : replies' = Append(replies, a)
  /\ requests' = Tail(requests)
  /\ UNCHANGED <<motors, ctl, initialised, registered, callVars, frame, faults>>

Breaks(n, kind) ==
  /\ kind \in Faults /\ faults < MaxFaults
  /\ ~drive[n].silent
  /\ faults' = faults + 1
  /\ UNCHANGED <<motors, ctl, initialised, registered, callVars, frame, requests>>

Emergency(n) ==
  /\ Breaks(n, "emergency")
  /\ drive' = [drive EXCEPT ![n].state = "kFault"]
  /\ replies' = Append(replies, Frame(n, "emergency", "none"))

FallSilent(n) ==
  /\ Breaks(n, "silence")
  /\ drive' = [drive EXCEPT ![n].silent = TRUE]
  /\ UNCHANGED replies

Heat(n) ==
  /\ Breaks(n, "heat")
  /\ drive' = [drive EXCEPT ![n].hot = TRUE]
  /\ UNCHANGED replies

NewDrive == [state |-> "kNotReadyToSwitchOn", configured |-> {}, stopped |-> FALSE,
             silent |-> FALSE, hot |-> FALSE, booted |-> FALSE]

(* A drive that restarts says so, and has forgotten its configuration. *)
Restart(n) ==
  /\ Breaks(n, "restart")
  /\ drive' = [drive EXCEPT ![n] = [NewDrive EXCEPT !.booted = TRUE]]
  /\ replies' = Append(replies, Frame(n, "bootUp", "none"))

DriveStep ==
  Answer \/ \E n \in Node : Emergency(n) \/ FallSilent(n) \/ Heat(n) \/ Restart(n)

-----------------------------------------------------------------------------
CtlInit ==
  /\ motors = kStart
  /\ ctl = [n \in Node |-> [failed |-> FALSE, state |-> "kNotReadyToSwitchOn",
                            hot |-> FALSE, sending |-> FALSE]]
  /\ initialised = FALSE /\ registered = FALSE
  /\ call = "none" /\ at = [node |-> N + 1, step |-> 1] /\ spc = "idle"
  /\ frame = NoFrame
  /\ requests = <<>> /\ replies = <<>>
  /\ drive = [n \in Node |-> NewDrive]
  /\ faults = 0

(* The controllers on their own: any call may follow any other, but the    *)
(* motors are initialised first, and again only if that failed.            *)
CtlCall ==
  \E c \in Call : /\ initialised <=> c # "initialiseMotors"
                  /\ Invoke(c)

CtlThreads == CallerStep \/ Return \/ CanStep

CtlNext == CtlCall \/ CtlThreads \/ DriveStep

CtlSpec == CtlInit /\ [][CtlNext]_ctlrsVars

(* Both threads are scheduled, and a drive that works answers.             *)
CtlFair == /\ WF_ctlrsVars(CallerStep \/ Return)
           /\ WF_ctlrsVars(CanStep)
           /\ WF_ctlrsVars(Answer)

CtlFairSpec == CtlSpec /\ CtlFair

-----------------------------------------------------------------------------
(* What is claimed. *)

(* The type invariant of the caller, the CAN thread and the drives.        *)
CtlTypeOK ==
  /\ motors \in ModuleStatus
  /\ ctl \in [Node -> [failed : BOOLEAN, state : ControllerState,
                      hot : BOOLEAN, sending : BOOLEAN]]
  /\ initialised \in BOOLEAN /\ registered \in BOOLEAN
  /\ call \in Call \union {"none"}
  /\ at \in [node : 1..(N + 1), step : Nat \ {0}]
  /\ Left => call # "none" /\ at.step <= Len(Script(call, at.node))
  /\ spc \in {"idle", "sent", "waiting"} /\ (spc # "idle" => Left)
  /\ frame = NoFrame \/ frame.node \in Node
  /\ faults \in 0..MaxFaults

(* Nothing is under way between the program and the drives.               *)
BusQuiet == requests = <<>> /\ replies = <<>> /\ frame = NoFrame

(* When prepareMotors() is through, a controller that has not failed has a *)
(* drive in operation, or one whose emergency is still under way, although *)
(* a command goes out only once and any frame that is late ends a wait: no *)
(* answer from before the command is taken for the state that it asks for  *)
(* (controller.cpp:178-193).                                               *)
PreparedOrFailed ==
  [][ call = "prepareMotors" /\ call' = "none" =>
        \A n \in Node : \/ ctl[n].failed \/ drive[n].booted
                        \/ drive[n].state \in {"kOperationEnabled", "kFault"} ]_ctlrsVars

Heeded(n) == at.node = n /\ Current.message \notin Unheeded

(* A drive that no longer answers is noticed if its controller goes on     *)
(* asking for something that it heeds, although any frame that is late     *)
(* counts as an answer (can_sender.cpp:38-51).                             *)
SilenceIsNoticed ==
  \A n \in Node : <>drive[n].silent /\ []<>Heeded(n) => <>ctl[n].failed

(* Every call ends, whatever the drives and the bus do: no controller keeps *)
(* the thread from the others.                                              *)
CallsEnd == (call # "none") ~> (call = "none")

=============================================================================
