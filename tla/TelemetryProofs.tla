-------------------------- MODULE TelemetryProofs ---------------------------
(***************************************************************************)
(* Proofs about the telemetry, for every set of messages, any number of    *)
(* them, and a connection that fails when it likes.  What is true of the   *)
(* struct is only kept because it is true of the Receiver's copy as well,  *)
(* from the moment it is made to the moment it is written back.            *)
(***************************************************************************)
EXTENDS Telemetry, TLAPS

Copied == {"receive", "store", "fail"}

Commanded(t) == {c \in Command : t.flags[c]}

Stored == {c \in Command : \E msg \in handled : c \in Raises(msg)}

(* Before Main has connected the other threads do not exist.               *)
NotBegun == mpc = "start" => handled = {} /\ spc = "unborn" /\ rpc = "unborn"

CopyHoldsStop == "STOP" \in handled /\ rpc \in Copied => Emergency(received)

CopyKeepsCommands == spc # "failed" /\ rpc \in Copied => Commanded(received) = Stored

StopInv == NotBegun /\ StopHolds /\ CopyHoldsStop

CommandInv == NotBegun /\ CommandsAreKept /\ CopyKeepsCommands

-----------------------------------------------------------------------------
(* What handling a message does to a copy. *)

LEMMA RaisesType ==
  ASSUME NEW msg
  PROVE  Raises(msg) \subseteq Flag /\ Lowers(msg) \subseteq Flag
  BY DEF Raises, Lowers, Flag, Command

(* The status can only become a critical failure; flags stay flags.        *)
LEMMA HandleType ==
  ASSUME NEW t \in Struct, NEW msg
  PROVE  Handle(t, msg) \in Struct /\ Failed(t) \in Struct
  BY DEF Handle, Failed, Struct, ModuleStatus

(* No message takes an emergency back.                                     *)
LEMMA HandleKeepsEmergency ==
  ASSUME NEW t \in Struct, NEW msg
  PROVE  /\ Emergency(t) \/ msg = "STOP" => Emergency(Handle(t, msg))
         /\ Emergency(Failed(t))
<1>1. "emergency_stop" \in Flag /\ "emergency_stop" \notin Lowers(msg)
  BY DEF Flag, Command, Lowers
<1>2. msg = "STOP" => "emergency_stop" \in Raises(msg)
  BY DEF Raises
<1>3. QED
  BY <1>1, <1>2 DEF Emergency, Handle, Failed, Struct

(* A message adds the commands that it raises, and takes none back.        *)
LEMMA HandleCommands ==
  ASSUME NEW t, NEW msg
  PROVE  Commanded(Handle(t, msg)) = Commanded(t) \union (Raises(msg) \intersect Command)
<1>1. Lowers(msg) \intersect Command = {}
  BY DEF Lowers, Command
<1>2. \A c \in Command : Handle(t, msg).flags[c] <=> c \in Raises(msg) \/ t.flags[c]
  BY <1>1 DEF Handle, Flag
<1>3. QED
  BY <1>2 DEF Commanded

-----------------------------------------------------------------------------
(* The types. *)

LEMMA TypeStep == TypeOK /\ [Next]_vars => TypeOK'
<1> SUFFICES ASSUME TypeOK, [Next]_vars PROVE TypeOK'
  OBVIOUS
<1> USE DEF TypeOK
<1>1. CASE MainStep
  BY <1>1, HandleType DEF MainStep, Connect, FailToConnect, JoinSender, JoinReceiver, server,
                          Struct, ModuleStatus, kReady
<1>2. CASE SenderStep
  BY <1>2, HandleType DEF SenderStep, CopyToSend, Send, ReportFailure, SenderExits, server
<1>3. CASE CopyToReceive \/ Receive
  BY <1>3 DEF CopyToReceive, Receive, server
<1>4. CASE ReceiveNothing \/ Store \/ StoreFailure
  <2>1. CASE ReceiveNothing
    BY <2>1 DEF ReceiveNothing, server, Message
  <2>2. CASE Store
    <3>1. telemetry' \in Struct /\ handled' \subseteq Message
      BY <2>2, HandleType DEF Store
    <3>2. QED
      BY <2>2, <3>1 DEF Store, server
  <2>3. CASE StoreFailure
    BY <2>3, HandleType DEF StoreFailure, server
  <2>4. QED
    BY <1>4, <2>1, <2>2, <2>3
<1>5. CASE Environment
  <2>1. CASE \E msg \in ServerMessages : ServerSends(msg)
    <3> PICK msg \in ServerMessages : ServerSends(msg)
      BY <2>1
    <3>1. inbox' \in Seq(Message)
      BY ServerMessagesAssumption DEF ServerSends
    <3>2. messages' \in 0..MaxMessages
      BY MaxMessagesAssumption DEF ServerSends
    <3>3. QED
      BY <3>1, <3>2 DEF ServerSends, threads
  <2>2. CASE Disconnect
    <3>1. <<>> \in Seq(Message)
      OBVIOUS
    <3>2. inbox' \in Seq(Message)
      BY <2>2, <3>1 DEF Disconnect
    <3>3. QED
      BY <2>2, <3>2 DEF Disconnect, threads
  <2>3. CASE StopSystem
    BY <2>3 DEF StopSystem, threads, server
  <2>4. QED
    BY <1>5, <2>1, <2>2, <2>3 DEF Environment
<1>6. CASE UNCHANGED vars
  BY <1>6 DEF vars, threads, server
<1>7. QED
  BY <1>1, <1>2, <1>3, <1>4, <1>5, <1>6 DEF Next, ReceiverStep

(* Struct Telemetry and the copies of it hold what the code can store.     *)
THEOREM TypeCorrect == Spec => []TypeOK
<1>1. Init => TypeOK
  BY MaxMessagesAssumption
     DEF Init, TypeOK, Struct, Message, ModuleStatus, kStart
<1>2. QED
  BY <1>1, TypeStep, PTL DEF Spec

-----------------------------------------------------------------------------
(* The emergency stop. *)

LEMMA StopStep == TypeOK /\ StopInv /\ [Next]_vars => StopInv'
<1> SUFFICES ASSUME TypeOK, StopInv, [Next]_vars PROVE StopInv'
  OBVIOUS
<1> USE DEF StopInv, NotBegun, StopHolds, CopyHoldsStop, Copied
<1>1. CASE MainStep
  BY <1>1 DEF MainStep, Connect, FailToConnect, JoinSender, JoinReceiver
<1>2. CASE CopyToSend \/ Send \/ SenderExits
  BY <1>2 DEF CopyToSend, Send, SenderExits
<1>3. CASE ReportFailure
  BY <1>3, HandleKeepsEmergency DEF ReportFailure, TypeOK
<1>4. CASE CopyToReceive \/ Receive \/ ReceiveNothing
  BY <1>4 DEF CopyToReceive, Receive, ReceiveNothing
<1>5. CASE Store
  BY <1>5, HandleKeepsEmergency DEF Store, TypeOK
<1>6. CASE StoreFailure
  BY <1>6, HandleKeepsEmergency DEF StoreFailure, TypeOK
<1>7. CASE Environment
  BY <1>7 DEF Environment, ServerSends, Disconnect, StopSystem, threads
<1>8. CASE UNCHANGED vars
  BY <1>8 DEF vars, threads
<1>9. QED
  BY <1>1, <1>2, <1>3, <1>4, <1>5, <1>6, <1>7, <1>8 DEF Next, SenderStep, ReceiverStep

(* An emergency stop that was stored is never forgotten without a critical *)
(* failure in its place.                                                   *)
THEOREM StopIsHeld == Spec => []StopHolds
<1>1. Init => StopInv
  BY DEF Init, StopInv, NotBegun, StopHolds, CopyHoldsStop
<1>2. StopInv => StopHolds
  BY DEF StopInv
<1>3. QED
  BY <1>1, <1>2, StopStep, TypeCorrect, PTL DEF Spec

-----------------------------------------------------------------------------
(* The commands. *)

LEMMA CommandStep == TypeOK /\ CommandInv /\ [Next]_vars => CommandInv'
<1> SUFFICES ASSUME TypeOK, CommandInv, [Next]_vars PROVE CommandInv'
  OBVIOUS
<1>1. CommandsAreKept <=> (spc # "failed" => Commanded(telemetry) = Stored)
  BY DEF CommandsAreKept, Commanded, Stored
<1>2. CommandsAreKept' <=> (spc' # "failed" => Commanded(telemetry)' = Stored')
  BY DEF CommandsAreKept, Commanded, Stored
<1> USE <1>1, <1>2 DEF CommandInv, NotBegun, CopyKeepsCommands, Copied
<1>3. handled' = handled => Stored' = Stored
  BY DEF Stored
<1>4. CASE MainStep
  <2>1. Commanded(telemetry)' = Commanded(telemetry) /\ handled' = handled
    BY <1>4 DEF MainStep, Connect, FailToConnect, JoinSender, JoinReceiver, Failed,
                Commanded, TypeOK, Struct
  <2>2. QED
    BY <1>3, <1>4, <2>1 DEF MainStep, Connect, FailToConnect, JoinSender, JoinReceiver
<1>5. CASE SenderStep
  BY <1>3, <1>5 DEF SenderStep, CopyToSend, Send, ReportFailure, SenderExits, Commanded
<1>6. CASE CopyToReceive \/ Receive \/ ReceiveNothing
  BY <1>3, <1>6 DEF CopyToReceive, Receive, ReceiveNothing, Commanded
<1>7. CASE Store
  <2>1. Stored' = Stored \union (Raises(message) \intersect Command)
    BY <1>7 DEF Store, Stored
  <2>2. Commanded(telemetry)' = Commanded(received) \union (Raises(message) \intersect Command)
    BY <1>7, HandleCommands DEF Store, Commanded
  <2>3. QED
    BY <1>7, <2>1, <2>2 DEF Store
<1>8. CASE StoreFailure
  <2>1. Commanded(telemetry)' = Commanded(received) /\ handled' = handled
    BY <1>8 DEF StoreFailure, Failed, Commanded, TypeOK, Struct
  <2>2. QED
    BY <1>3, <1>8, <2>1 DEF StoreFailure
<1>9. CASE Environment
  BY <1>3, <1>9 DEF Environment, ServerSends, Disconnect, StopSystem, threads, Commanded
<1>10. CASE UNCHANGED vars
  BY <1>3, <1>10 DEF vars, threads, Commanded
<1>11. QED
  BY <1>4, <1>5, <1>6, <1>7, <1>8, <1>9, <1>10 DEF Next, ReceiverStep

(* While the Sender works, no command that was stored is lost, and none    *)
(* appears that was not sent.                                              *)
THEOREM CommandsKept == Spec => []CommandsAreKept
<1>1. Init => CommandInv
  <2> SUFFICES ASSUME Init PROVE CommandInv
    OBVIOUS
  <2>1. \A c \in Command : ~telemetry.flags[c]
    BY DEF Init, Flag, Command
  <2>2. CommandsAreKept
    BY <2>1 DEF Init, CommandsAreKept
  <2>3. QED
    BY <2>2 DEF Init, CommandInv, NotBegun, CopyKeepsCommands, Copied
<1>2. CommandInv => CommandsAreKept
  BY DEF CommandInv
<1>3. QED
  BY <1>1, <1>2, CommandStep, TypeCorrect, PTL DEF Spec

=============================================================================
