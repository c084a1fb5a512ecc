----------------------------- MODULE Telemetry -----------------------------
(***************************************************************************)
(* The telemetry module (src/src/telemetry): Main connects to the server   *)
(* and starts a Sender and a Receiver, which share the connection and      *)
(* struct Telemetry.  Each of the two copies the struct, talks to the      *)
(* server, and writes its copy back: neither holds a lock in between.      *)
(***************************************************************************)
EXTENDS PodData, Sequences

CONSTANTS
  ServerMessages,  \* what the server may send
  MaxMessages,     \* bound on how many messages it sends
  SendMayFail      \* whether send() may fail although the connection lives

VARIABLES
  telemetry,  \* Data: struct Telemetry
  running,    \* System::running_
  mpc,        \* Main: at which step of run() it is
  spc,        \* Sender: likewise
  sent,       \* Sender: its copy of the struct
  rpc,        \* Receiver: likewise
  received,   \* Receiver: its copy of the struct
  message,    \* Receiver: the message it handles
  link,       \* the connection
  inbox,      \* what the server sent and the Receiver did not read yet
  messages,   \* how many messages the server sent, for MaxMessages
  handled     \* history: the messages that the Receiver has stored

threads == <<mpc, spc, sent, rpc, received, message>>
server  == <<link, inbox, messages>>
vars    == <<telemetry, running, threads, server, handled>>

-----------------------------------------------------------------------------
(* Messages and the flags that they raise and lower. *)

Flag == Command \union {"service_propulsion_go", "nominal_braking"}

Message == {"ACK", "STOP", "CALIBRATE", "LAUNCH", "SHUTDOWN",
            "SERVER_PROPULSION_GO", "SERVER_PROPULSION_STOP",
            "NOMINAL_BRAKING", "NOMINAL_RETRACT", "unrecognised"}

(* Fault: the emergency stop is only logged.                               *)
RaisesNoStop(msg) ==
  CASE msg = "CALIBRATE"            -> {"calibrate"}
    [] msg = "LAUNCH"               -> {"launch"}
    [] msg = "SHUTDOWN"             -> {"shutdown"}
    [] msg = "SERVER_PROPULSION_GO" -> {"service_propulsion_go"}
    [] msg = "NOMINAL_BRAKING"      -> {"nominal_braking"}
    [] OTHER                        -> {}

Raises(msg) ==
  CASE msg = "STOP"                 -> {"emergency_stop"}
    [] msg = "CALIBRATE"            -> {"calibrate"}
    [] msg = "LAUNCH"               -> {"launch"}
    [] msg = "SHUTDOWN"             -> {"shutdown"}
    [] msg = "SERVER_PROPULSION_GO" -> {"service_propulsion_go"}
    [] msg = "NOMINAL_BRAKING"      -> {"nominal_braking"}
    [] OTHER                        -> {}

Lowers(msg) ==
  CASE msg = "SERVER_PROPULSION_STOP" -> {"service_propulsion_go"}
    [] msg = "NOMINAL_RETRACT"        -> {"nominal_braking"}
    [] OTHER                          -> {}

ASSUME ServerMessagesAssumption == ServerMessages \subseteq Message
ASSUME MaxMessagesAssumption    == MaxMessages \in Nat
ASSUME SendMayFailAssumption    == SendMayFail \in BOOLEAN

Struct == [status : ModuleStatus, flags : [Flag -> BOOLEAN]]

Failed(t) == [t EXCEPT !.status = kCriticalFailure]

(* Fault: the status of a message that is not understood is one off.       *)
HandleOffByOne(t, msg) ==
  [status |-> IF msg = "unrecognised" THEN kCriticalFailure - 1 ELSE t.status,
   flags  |-> [f \in Flag |-> f \in Raises(msg) \/ (t.flags[f] /\ f \notin Lowers(msg))]]

(* What the Receiver makes of its copy. *)
Handle(t, msg) ==
  [status |-> IF msg = "unrecognised" THEN kCriticalFailure ELSE t.status,
   flags  |-> [f \in Flag |-> f \in Raises(msg) \/ (t.flags[f] /\ f \notin Lowers(msg))]]

-----------------------------------------------------------------------------
(* Main::run(), while no other thread writes the struct. *)

Connect ==
  /\ mpc = "start"
  /\ telemetry' = [telemetry EXCEPT !.status = kReady]
  /\ link' = "up"
  /\ mpc' = "joinSender" /\ spc' = "loop" /\ rpc' = "loop"
  /\ UNCHANGED <<running, sent, received, message, inbox, messages, handled>>

FailToConnect ==
  /\ mpc = "start"
  /\ telemetry' = Failed(telemetry)
  /\ mpc' = "exited"
  /\ UNCHANGED <<running, spc, sent, rpc, received, message, server, handled>>

JoinSender ==
  /\ mpc = "joinSender"
  /\ spc \in {"failed", "exited"}
  /\ mpc' = "joinReceiver"
  /\ UNCHANGED <<telemetry, running, spc, sent, rpc, received, message, server, handled>>

JoinReceiver ==
  /\ mpc = "joinReceiver"
  /\ rpc = "exited"
  /\ mpc' = "exited"
  /\ UNCHANGED <<telemetry, running, spc, sent, rpc, received, message, server, handled>>

MainStep == Connect \/ FailToConnect \/ JoinSender \/ JoinReceiver

-----------------------------------------------------------------------------
(* Sender::run() *)

CopyToSend ==
  /\ spc = "loop"
  /\ running
  /\ sent' = telemetry
  /\ spc' = "send"
  /\ UNCHANGED <<telemetry, running, mpc, rpc, received, message, server, handled>>

(* Fault: the copy is written back also when it was sent. *)
SendAndWriteBack ==
  /\ spc = "send"
  /\ \/ link = "up" /\ spc' = "loop" /\ telemetry' = sent
     \/ (link = "down" \/ SendMayFail) /\ spc' = "report" /\ UNCHANGED telemetry
  /\ UNCHANGED <<running, mpc, sent, rpc, received, message, server, handled>>

Send ==
  /\ spc = "send"
  /\ \/ link = "up" /\ spc' = "loop"
     \/ (link = "down" \/ SendMayFail) /\ spc' = "report"
  /\ UNCHANGED <<telemetry, running, mpc, sent, rpc, received, message, server, handled>>

(* Fault: the copy is written back without the failure. *)
ReportNothing ==
  /\ spc = "report"
  /\ telemetry' = sent
  /\ spc' = "failed"
  /\ UNCHANGED <<running, mpc, sent, rpc, received, message, server, handled>>

ReportFailure ==
  /\ spc = "report"
  /\ telemetry' = Failed(sent)
  /\ spc' = "failed"
  /\ UNCHANGED <<running, mpc, sent, rpc, received, message, server, handled>>

SenderExits ==
  /\ spc = "loop"
  /\ ~running
  /\ spc' = "exited"
  /\ UNCHANGED <<telemetry, running, mpc, sent, rpc, received, message, server, handled>>

SenderStep == CopyToSend \/ Send \/ ReportFailure \/ SenderExits

-----------------------------------------------------------------------------
(* Receiver::run(), which does not ask whether the system runs. *)

CopyToReceive ==
  /\ rpc = "loop"
  /\ received' = telemetry
  /\ rpc' = "receive"
  /\ UNCHANGED <<telemetry, running, mpc, spc, sent, message, server, handled>>

Receive ==
  /\ rpc = "receive"
  /\ inbox # <<>>
  /\ message' = Head(inbox)
  /\ inbox' = Tail(inbox)
  /\ rpc' = "store"
  /\ UNCHANGED <<telemetry, running, mpc, spc, sent, received, link, messages, handled>>

(* The connection is gone: recv() returns an error, or nothing at all, and *)
(* then the message is empty.                                              *)
ReceiveNothing ==
  /\ rpc = "receive"
  /\ inbox = <<>>
  /\ link = "down"
  /\ \/ rpc' = "fail" /\ UNCHANGED message
     \/ rpc' = "store" /\ message' = "unrecognised"
  /\ UNCHANGED <<telemetry, running, mpc, spc, sent, received, server, handled>>

Store ==
  /\ rpc = "store"
  /\ telemetry' = Handle(received, message)
  /\ handled' = handled \union {message}
  /\ rpc' = "loop"
  /\ UNCHANGED <<running, mpc, spc, sent, received, message, server>>

(* Fault: the Receiver ends without a word. *)
StoreNoFailure ==
  /\ rpc = "fail"
  /\ rpc' = "exited"
  /\ UNCHANGED <<telemetry, running, mpc, spc, sent, received, message, server, handled>>

StoreFailure ==
  /\ rpc = "fail"
  /\ telemetry' = Failed(received)
  /\ rpc' = "exited"
  /\ UNCHANGED <<running, mpc, spc, sent, received, message, server, handled>>

ReceiverStep == CopyToReceive \/ Receive \/ ReceiveNothing \/ Store \/ StoreFailure

-----------------------------------------------------------------------------
(* The server, the network, and the rest of the pod. *)

ServerSends(msg) ==
  /\ link = "up"
  /\ messages < MaxMessages
  /\ inbox' = Append(inbox, msg)
  /\ messages' = messages + 1
  /\ UNCHANGED <<telemetry, running, threads, link, handled>>

(* The connection is closed or reset, and what was under way may be lost. *)
Disconnect ==
  /\ link = "up"
  /\ link' = "down"
  /\ inbox' \in {inbox, <<>>}
  /\ UNCHANGED <<telemetry, running, threads, messages, handled>>

StopSystem ==
  /\ running
  /\ running' = FALSE
  /\ UNCHANGED <<telemetry, threads, server, handled>>

Environment == (\E msg \in ServerMessages : ServerSends(msg)) \/ Disconnect \/ StopSystem

-----------------------------------------------------------------------------
Init ==
  /\ telemetry = [status |-> kStart, flags |-> [f \in Flag |-> f = "nominal_braking"]]
  /\ running = TRUE
  /\ mpc = "start" /\ spc = "unborn" /\ rpc = "unborn"
  /\ sent = telemetry /\ received = telemetry /\ message = "ACK"
  /\ link = "none" /\ inbox = <<>> /\ messages = 0
  /\ handled = {}

Next == MainStep \/ SenderStep \/ ReceiverStep \/ Environment

Spec == Init /\ [][Next]_vars

(* The threads are scheduled; only recv() can block one of them, and it    *)
(* does not once there is something to read or the connection is gone.     *)
FairSpec == Spec /\ WF_vars(MainStep) /\ WF_vars(SenderStep) /\ WF_vars(ReceiverStep)

-----------------------------------------------------------------------------
(* What is claimed. *)

(* The type invariant. *)
TypeOK ==
  /\ telemetry \in Struct /\ sent \in Struct /\ received \in Struct
  /\ message \in Message
  /\ running \in BOOLEAN
  /\ mpc \in {"start", "joinSender", "joinReceiver", "exited"}
  /\ spc \in {"unborn", "loop", "send", "report", "failed", "exited"}
  /\ rpc \in {"unborn", "loop", "receive", "store", "fail", "exited"}
  /\ link \in {"none", "up", "down"}
  /\ inbox \in Seq(Message) /\ messages \in 0..MaxMessages
  /\ handled \subseteq Message

(* What the state machine takes for an emergency. *)
Emergency(t) == t.flags["emergency_stop"] \/ t.status = kCriticalFailure

(* An emergency stop that was stored is an emergency for ever: the Sender, *)
(* whose copy may be older than the stop, only writes it back as a         *)
(* failure, and no copy the Receiver makes later can have lost both        *)
(* (receiver.cpp:22-62, sender.cpp:39-42).                                 *)
StopHolds == "STOP" \in handled => Emergency(telemetry)

(* As long as the Sender has not failed, the commands in the struct are    *)
(* those that were stored: two threads copy it, and one writes it.         *)
CommandsAreKept ==
  spc # "failed" =>
    \A c \in Command : telemetry.flags[c] <=> \E msg \in handled : c \in Raises(msg)

(* A stop that reached the pod becomes an emergency, also if the           *)
(* connection breaks before it is read.                                    *)
StopArrives ==
  (\E i \in DOMAIN inbox : inbox[i] = "STOP") ~> Emergency(telemetry)

(* The loss of the connection ends up on the blackboard and stays there,   *)
(* also if the Receiver was about to write an older copy.                  *)
LinkLossIsReported ==
  (link = "down") ~> [](telemetry.status = kCriticalFailure)

-----------------------------------------------------------------------------
(* What comments of the code claim, and it does not do. *)

(* "state machine transitions to EmergencyBraking/FailureStopped"          *)
(* (data.hpp, of kCriticalFailure): a failure of the Sender is there to be *)
(* seen by the state machine.                                              *)
SenderFailureStays == spc = "failed" => telemetry.status = kCriticalFailure

(* "Join the threads here" (run/main.cpp): when the system is stopped, the *)
(* thread ends.                                                            *)
EndsWhenStopped == (~running) ~> (mpc = "exited")

=============================================================================
