-------------------------- MODULE PropulsionProofs --------------------------
(***************************************************************************)
(* Proofs about the propulsion thread and the motor controllers, for any   *)
(* number of controllers and of messages that configure one, and with any  *)
(* faults on the bus and in the drives.                                    *)
(***************************************************************************)
EXTENDS Propulsion, SequenceTheorems, TLAPS

(* The items that a call may consist of at a node: velocities and stops    *)
(* belong to certain calls only.                                           *)
Step == [node : Node, message : Message \union {"look", "lastLook"},
          arg : ControllerState \union {"none"}, skip : Nat]

Thrusting(c) == c \in {"prepareMotors", "setVelocities"}

ItemsOf(c, n) ==
  {i \in Step : /\ i.node = n
                /\ i.message = "quickStop" => c = "quickStopAll"
                /\ i.message = "velocity" => Thrusting(c)
                /\ i.message = "enable" => c = "prepareMotors"
                /\ i.message = "configure" => c = "initialiseMotors" /\ i.skip \in 1..Configuration}

-----------------------------------------------------------------------------
(* The scripts *)

LEMMA Items ==
  ASSUME NEW n \in Node, NEW c
  PROVE  /\ \A m \in Message \ {"configure"} :
              (/\ m = "quickStop" => c = "quickStopAll"
               /\ m = "velocity" => Thrusting(c)
               /\ m = "enable" => c = "prepareMotors")
                => Item(n, m) \in ItemsOf(c, n)
         /\ \A s \in ControllerState, k \in Nat : Look(n, s, k) \in ItemsOf(c, n)
         /\ \A s \in ControllerState : LastLook(n, s) \in ItemsOf(c, n)
<1>1. \A m \in Message \union {"look", "lastLook"}, a \in ControllerState \union {"none"}, k \in Nat :
        [[Item(n, m) EXCEPT !.arg = a] EXCEPT !.skip = k] \in Step
  BY DEF Item, Step
<1>2. \A m \in Message : Item(n, m) \in Step
  BY DEF Item, Step
<1>3. \A s \in ControllerState, k \in Nat :
         /\ Look(n, s, k) \in Step /\ Look(n, s, k).node = n /\ Look(n, s, k).message = "look"
  BY DEF Look, Item, Step
<1>4. \A s \in ControllerState :
         /\ LastLook(n, s) \in Step /\ LastLook(n, s).node = n /\ LastLook(n, s).message = "lastLook"
  BY DEF LastLook, Item, Step
<1>5. \A m : Item(n, m).node = n /\ Item(n, m).message = m
  BY DEF Item
<1>. QED BY <1>2, <1>3, <1>4, <1>5 DEF ItemsOf

LEMMA TransitionScript ==
  ASSUME NEW n \in Node, NEW m \in {"shutdown", "enable"}, NEW s \in ControllerState
  PROVE  requestStateTransition(n, m, s) \in Seq(ItemsOf("prepareMotors", n))
<1>1. {Item(n, m), Item(n, "status"), Item(n, "statusAgain"), Look(n, s, 6), Look(n, s, 3), LastLook(n, s)}
        \subseteq ItemsOf("prepareMotors", n)
  BY Items DEF Message, Unheeded, Aborting
<1>. QED BY <1>1 DEF requestStateTransition

LEMMA ScriptItems ==
  ASSUME NEW c \in Call, NEW n \in Node
  PROVE  /\ Script(c, n) \in Seq(ItemsOf(c, n))
         /\ 1 <= Len(Script(c, n))
<1>1. \A m \in {"operational", "mode", "brake", "status", "halt", "rpm", "temperature", "warnings", "errors"} :
         Item(n, m) \in ItemsOf(c, n)
  BY Items DEF Message, Unheeded, Aborting
<1>2. CASE c = "initialiseMotors"
  <2>1. \A i \in 1..Configuration : Numbered(n, "configure", i) \in ItemsOf(c, n)
    BY <1>2 DEF Numbered, Item, ItemsOf, Step, Message, Aborting
  <2>2. configure(n) \in Seq(ItemsOf(c, n)) /\ Len(configure(n)) = Configuration
    BY <2>1, ConfigurationAssumption DEF configure
  <2>. QED BY <1>2, <2>2, ConfigurationAssumption DEF Script
<1>3. CASE c = "prepareMotors"
  <2>. DEFINE first == << Item(n, "operational"), Item(n, "mode"), Item(n, "velocity"), Item(n, "brake") >>
              up    == requestStateTransition(n, "shutdown", "kReadyToSwitchOn")
              on    == requestStateTransition(n, "enable", "kOperationEnabled")
  <2>1. Item(n, "velocity") \in ItemsOf(c, n)
    BY <1>3, Items DEF Message, Unheeded, Thrusting
  <2>2. first \in Seq(ItemsOf(c, n)) /\ Len(first) = 4
    BY <1>1, <2>1
  <2>3. up \in Seq(ItemsOf(c, n)) /\ on \in Seq(ItemsOf(c, n))
    BY <1>3, TransitionScript DEF ControllerState
  <2>4. Script(c, n) = first \o up \o on
    BY <1>3 DEF Script, enterOperational
  <2>. HIDE DEF first, up, on
  <2>5. first \o up \in Seq(ItemsOf(c, n)) /\ Len(first \o up) = Len(first) + Len(up)
    BY <2>2, <2>3, ConcatProperties, Zenon
  <2>6. /\ first \o up \o on \in Seq(ItemsOf(c, n))
        /\ Len(first \o up \o on) = Len(first \o up) + Len(on)
    BY <2>3, <2>5, ConcatProperties, Zenon
  <2>7. Len(up) \in Nat /\ Len(on) \in Nat
    BY <2>3, LenProperties
  <2>. DEFINE length == Len(first \o up \o on)
  <2>8. length = (4 + Len(up)) + Len(on)
    BY <2>2, <2>5, <2>6, Zenon
  <2>. HIDE DEF length
  <2>9. 1 <= length
    BY <2>7, <2>8
  <2>. QED BY <2>4, <2>6, <2>9, Zenon DEF length
<1>4. CASE c = "enterPreOperational"
  <2>1. Look(n, "kReadyToSwitchOn", 1) \in ItemsOf(c, n)
    BY Items DEF ControllerState
  <2>2. enterPreOperational(n) \in Seq(ItemsOf(c, n)) /\ Len(enterPreOperational(n)) = 3
    BY <1>1, <2>1 DEF enterPreOperational
  <2>. QED BY <1>4, <2>2 DEF Script
<1>5. CASE c \in {"pollVelocities", "pollTemperatures"}
  BY <1>1, <1>5 DEF Script
<1>6. CASE c = "setVelocities"
  <2>1. Item(n, "velocity") \in ItemsOf(c, n)
    BY <1>6, Items DEF Message, Unheeded, Thrusting
  <2>. QED BY <1>6, <2>1 DEF Script
<1>7. CASE c = "quickStopAll"
  <2>1. Item(n, "quickStop") \in ItemsOf(c, n)
    BY <1>7, Items DEF Message
  <2>. QED BY <1>7, <2>1 DEF Script
<1>8. CASE c = "healthCheck"
  <2>1. << Item(n, "warnings"), Item(n, "errors") >> \in Seq(ItemsOf(c, n))
    BY <1>1
  <2>. QED BY <1>8, <2>1 DEF Script
<1>. QED BY <1>2, <1>3, <1>4, <1>5, <1>6, <1>7, <1>8 DEF Call

(* What initialiseMotors() does at a node.                                 *)
LEMMA ConfigureScript ==
  ASSUME NEW n \in Node
  PROVE  /\ Len(Script("initialiseMotors", n)) = Configuration
         /\ \A i \in 1..Configuration :
              LET item == Script("initialiseMotors", n)[i]
              IN  item.node = n /\ item.message = "configure" /\ item.skip = i
BY ConfigurationAssumption DEF Script, configure, Numbered, Item

-----------------------------------------------------------------------------
(* Types *)

Request == {i \in Step : /\ i.message \in Message
                         /\ i.message = "configure" => i.skip \in 1..Configuration}

Reply == {f \in [node : Node,
                 about : {"ack", "status", "temperature", "warnings", "errors", "emergency", "bootUp"},
                 value : Nat \union BOOLEAN \union {"none", "oneByte", "bothBytes"}] :
            f.about = "temperature" => f.value \in BOOLEAN}

Controller == [failed : BOOLEAN, state : ControllerState, hot : BOOLEAN, sending : BOOLEAN]

Drive == [state : ControllerState, configured : SUBSET (1..Configuration), stopped : BOOLEAN,
          silent : BOOLEAN, hot : BOOLEAN, booted : BOOLEAN]

Calling == {"initialising", "measuring", "polling", "averaging", "commanding"}

Ppc == Calling \union {"start", "copy", "switch", "accelerate", "writeBack", "regulate", "command",
                       "publish", "fail", "exited"}

(* The sets from which the caller, the bus and the drives are; a message   *)
(* is waited for only at an item that sends one.                           *)
CallTypes ==
  /\ call \in Call \union {"none"}
  /\ at \in [node : 1..(N + 1), step : Nat \ {0}]
  /\ Left => call # "none" /\ at.step <= Len(Script(call, at.node))
  /\ spc \in {"idle", "sent", "waiting"} /\ (spc # "idle" => Left /\ Current.message \in Message)

MotorTypes ==
  /\ motors \in ModuleStatus
  /\ ctl \in [Node -> Controller]
  /\ initialised \in BOOLEAN /\ registered \in BOOLEAN

BusTypes ==
  /\ frame = NoFrame \/ frame \in Reply
  /\ requests \in Seq(Request) /\ replies \in Seq(Reply)
  /\ drive \in [Node -> Drive]
  /\ faults \in 0..MaxFaults

CtlTypes == CallTypes /\ MotorTypes /\ BusTypes

Types ==
  /\ CtlTypes
  /\ podState \in State /\ running \in BOOLEAN /\ transitionSeen \in BOOLEAN
  /\ ppc \in Ppc /\ copy \in ModuleStatus
  /\ call # "none" => ppc \in Calling

(* The item at which a call is.                                            *)
LEMMA CurrentItem ==
  ASSUME CtlTypes, Left
  PROVE  /\ at.node \in Node /\ call \in Call /\ at.step \in 1..Len(Script(call, at.node))
         /\ Current \in ItemsOf(call, at.node)
<1>1. at.node \in Node /\ call \in Call
  BY NAssumption DEF CtlTypes, CallTypes, Left, Node
<1>2. Len(Script(call, at.node)) \in Nat
  BY <1>1, ScriptItems, LenProperties
<1>3. at.step \in 1..Len(Script(call, at.node))
  BY <1>2 DEF CtlTypes, CallTypes
<1>. QED BY <1>1, <1>3, ScriptItems, ElementOfSeq DEF Current

(* Where it goes on.                                                       *)
LEMMA GoesOnInScript ==
  ASSUME CtlTypes, Left, NEW k \in Nat \ {0}, NEW next \in {NextNode, After(k)}
  PROVE  /\ next \in [node : 1..(N + 1), step : Nat \ {0}]
         /\ next.node <= N => next.step <= Len(Script(call, next.node))
<1>1. at.node \in Node /\ call \in Call /\ at.step \in Nat \ {0} /\ at \in [node : 1..(N + 1), step : Nat \ {0}]
  BY CurrentItem DEF CtlTypes, CallTypes
<1>2. at.node + 1 \in 1..(N + 1)
  BY <1>1, NAssumption DEF Node
<1>3. CASE next = NextNode
  <2>1. next.node = at.node + 1 /\ next.step = 1 /\ next \in [node : 1..(N + 1), step : Nat \ {0}]
    BY <1>2, <1>3 DEF NextNode
  <2>2. next.node <= N => next.node \in Node
    BY <1>2, <2>1, NAssumption DEF Node
  <2>. QED BY <1>1, <2>1, <2>2, ScriptItems
<1>4. CASE next # NextNode
  <2>1. next = [at EXCEPT !.step = at.step + k] /\ at.step + k <= Len(Script(call, at.node))
    BY <1>4 DEF After
  <2>2. at.step + k \in Nat \ {0}
    BY <1>1
  <2>3. next.node = at.node /\ next.step = at.step + k /\ next \in [node : 1..(N + 1), step : Nat \ {0}]
    BY <1>1, <2>1, <2>2
  <2>. QED BY <2>1, <2>3
<1>. QED BY <1>3, <1>4

LEMMA CallStays ==
  ASSUME CallTypes, UNCHANGED <<call, at, spc>>
  PROVE  CallTypes' /\ (Left' <=> Left) /\ Current' = Current
BY DEF CallTypes, Left, Current

LEMMA NoFrameIsNoReply == NoFrame \notin Reply
BY NAssumption DEF NoFrame, Frame, Reply, Node

LEMMA Decoded == ASSUME NEW b, NEW s \in ControllerState PROVE DecodedState(b, s) \in ControllerState
BY DEF DecodedState

-----------------------------------------------------------------------------
LEMMA InvokeTypes == ASSUME CtlTypes, NEW c \in Call, Invoke(c) PROVE CtlTypes'
<1>1. at' \in [node : 1..(N + 1), step : Nat \ {0}] /\ at'.node = 1 /\ at'.step = 1
  BY NAssumption DEF Invoke
<1>2. at'.step <= Len(Script(call', at'.node)) /\ call' = c
  BY <1>1, ScriptItems, NAssumption DEF Invoke, Node
<1>3. spc = "idle"
  BY DEF Invoke, CtlTypes, CallTypes
<1>. QED BY <1>1, <1>2, <1>3 DEF Invoke, CtlTypes, CallTypes, MotorTypes, BusTypes, busVars, Call

LEMMA ReturnTypes == ASSUME CtlTypes, Return PROVE CtlTypes'
<1>1. ~Left /\ ~Left' /\ spc = "idle" /\ spc' = "idle"
  BY DEF Return, Done, Left
<1>2. initialised' \in BOOLEAN /\ call' = "none"
  BY DEF Return, CtlTypes, MotorTypes
<1>. QED BY <1>1, <1>2 DEF Return, CtlTypes, CallTypes, MotorTypes, BusTypes, busVars

LEMMA CallerTypes == ASSUME CtlTypes, CallerStep PROVE CtlTypes'
<1>. DEFINE Places == [node : 1..(N + 1), step : Nat \ {0}]
<1>1. CASE Send
  <2>1. Current \in Request
    <3>1. Current \in ItemsOf(call, at.node)
      BY <1>1, CurrentItem DEF Send
    <3>2. Current.message \in Message
      BY <1>1 DEF Send, Sends
    <3>3. \A i \in ItemsOf(call, at.node) : i.message \in Message => i \in Request
      BY DEF Request, ItemsOf
    <3>. QED BY <3>1, <3>2, <3>3
  <2>2. requests' \in Seq(Request)
    BY <1>1, <2>1 DEF Send, CtlTypes, BusTypes
  <2>3. faults' \in 0..MaxFaults
    BY <1>1, MaxFaultsAssumption DEF Send, CtlTypes, BusTypes
  <2>4. spc' = "sent" /\ Left' /\ Current'.message \in Message
    BY <1>1 DEF Send, Sends, Left, Current
  <2>. QED BY <1>1, <2>2, <2>3, <2>4 DEF Send, CtlTypes, CallTypes, MotorTypes, BusTypes, Left
<1>2. CASE Arm
  <2>1. ctl' \in [Node -> Controller]
    BY <1>2 DEF Arm, CtlTypes, MotorTypes, Controller
  <2>2. spc' = "waiting" /\ Left' /\ Current'.message \in Message
    BY <1>2 DEF Arm, CtlTypes, CallTypes, Left, Current
  <2>. QED BY <1>2, <2>1, <2>2 DEF Arm, CtlTypes, CallTypes, MotorTypes, BusTypes, Left, busVars
<1>3. CASE Answered
  <2>1. at' \in {NextNode, After(1)} /\ Left
    BY <1>3 DEF Answered, Rest, CtlTypes, CallTypes
  <2>2. at' \in Places /\ (at'.node <= N => at'.step <= Len(Script(call, at'.node)))
    BY <2>1, GoesOnInScript
  <2>3. Left' => call' # "none" /\ at'.step <= Len(Script(call', at'.node))
    BY <1>3, <2>1, <2>2 DEF Answered, Left, CtlTypes, CallTypes
  <2>. QED BY <1>3, <2>2, <2>3 DEF Answered, CtlTypes, CallTypes, MotorTypes, BusTypes, busVars
<1>4. CASE Timeout
  <2>1. at' \in {NextNode, After(1)} /\ Left
    BY <1>4 DEF Timeout, Rest, CtlTypes, CallTypes
  <2>2. at' \in Places /\ (at'.node <= N => at'.step <= Len(Script(call, at'.node)))
    BY <2>1, GoesOnInScript
  <2>3. Left' => call' # "none" /\ at'.step <= Len(Script(call', at'.node))
    BY <1>4, <2>1, <2>2 DEF Timeout, Left, CtlTypes, CallTypes
  <2>4. faults' \in 0..MaxFaults
    BY <1>4, MaxFaultsAssumption DEF Timeout, CtlTypes, BusTypes
  <2>5. ctl' \in [Node -> Controller]
    <3>1. PICK failed : ctl' = [ctl EXCEPT ![at.node].failed = ctl[at.node].failed \/ failed] /\ failed \in BOOLEAN
      BY <1>4 DEF Timeout
    <3>2. at.node \in Node
      BY <2>1, CurrentItem
    <3>. QED BY <3>1, <3>2 DEF CtlTypes, MotorTypes, Controller
  <2>6. motors' \in ModuleStatus
    BY <1>4 DEF Timeout, CtlTypes, MotorTypes, ModuleStatus
  <2>. QED BY <1>4, <2>2, <2>3, <2>4, <2>5, <2>6 DEF Timeout, CtlTypes, CallTypes, MotorTypes, BusTypes
<1>5. CASE LookAtState
  <2>0. Current.skip \in Nat /\ Left
    BY <1>5, CurrentItem DEF LookAtState, ItemsOf, Step
  <2>1. PICK k \in Nat \ {0} : at' = After(k)
    BY <1>5, <2>0 DEF LookAtState
  <2>2. at' \in Places /\ (at'.node <= N => at'.step <= Len(Script(call, at'.node)))
    BY <2>0, <2>1, GoesOnInScript
  <2>3. Left' => call' # "none" /\ at'.step <= Len(Script(call', at'.node))
    BY <1>5, <2>0, <2>2 DEF LookAtState, Left, CtlTypes, CallTypes
  <2>5. ctl' \in [Node -> Controller]
    <3>1. PICK failed : ctl' = [ctl EXCEPT ![at.node].failed = ctl[at.node].failed \/ failed] /\ failed \in BOOLEAN
      BY <1>5 DEF LookAtState
    <3>2. at.node \in Node
      BY <2>0, CurrentItem
    <3>. QED BY <3>1, <3>2 DEF CtlTypes, MotorTypes, Controller
  <2>6. motors' \in ModuleStatus
    BY <1>5 DEF LookAtState, CtlTypes, MotorTypes, ModuleStatus
  <2>. QED BY <1>5, <2>2, <2>3, <2>5, <2>6 DEF LookAtState, CtlTypes, CallTypes, MotorTypes, BusTypes, busVars
<1>. QED BY <1>1, <1>2, <1>3, <1>4, <1>5 DEF CallerStep

LEMMA CanTypes == ASSUME CtlTypes, CanStep PROVE CtlTypes'
<1>0. UNCHANGED <<initialised, registered, call, at, spc, requests, drive, faults>>
  BY DEF CanStep, Deliver, Process, callVars
<1>1. CallTypes'
  BY <1>0, CallStays DEF CtlTypes
<1>2. CASE Deliver
  <2>1. Head(replies) \in Reply /\ Tail(replies) \in Seq(Reply)
    BY <1>2, HeadTailProperties DEF Deliver, CtlTypes, BusTypes
  <2>2. Head(replies).node \in Node
    BY <2>1 DEF Reply
  <2>3. MotorTypes'
    <3>1. ctl' = [ctl EXCEPT ![Head(replies).node].sending = FALSE] \/ ctl' = ctl
      BY <1>2 DEF Deliver
    <3>2. ctl' \in [Node -> Controller]
      BY <2>2, <3>1 DEF CtlTypes, MotorTypes, Controller
    <3>. QED BY <1>0, <1>2, <3>2 DEF Deliver, CtlTypes, MotorTypes
  <2>4. BusTypes'
    BY <1>0, <1>2, <2>1 DEF Deliver, CtlTypes, BusTypes
  <2>. QED BY <1>1, <2>3, <2>4 DEF CtlTypes
<1>3. CASE Process
  <2>1. frame \in Reply /\ frame.node \in Node
    BY <1>3 DEF Process, CtlTypes, BusTypes, Reply
  <2>2. Stored(ctl[frame.node], frame) \in Controller
    <3>1. ctl[frame.node] \in Controller
      BY <2>1 DEF CtlTypes, MotorTypes
    <3>2. DecodedState(frame.value, ctl[frame.node].state) \in ControllerState
      BY <3>1, Decoded DEF Controller
    <3>3. frame.about = "temperature" => frame.value \in BOOLEAN
      BY <2>1 DEF Reply
    <3>4. IsFailure(frame) \in BOOLEAN
      BY DEF IsFailure
    <3>. QED BY <3>1, <3>2, <3>3, <3>4 DEF Stored, Controller
  <2>3. ctl' \in [Node -> Controller]
    BY <1>3, <2>1, <2>2 DEF Process, CtlTypes, MotorTypes
  <2>4. motors' \in ModuleStatus
    BY <1>3 DEF Process, CtlTypes, MotorTypes, ModuleStatus
  <2>5. MotorTypes' /\ BusTypes'
    BY <1>0, <1>3, <2>3, <2>4 DEF Process, CtlTypes, MotorTypes, BusTypes
  <2>. QED BY <1>1, <2>5 DEF CtlTypes
<1>. QED BY <1>2, <1>3 DEF CanStep

(* What a drive makes of a message, and what it answers.                   *)
LEMMA DriveIsDrive ==
  ASSUME NEW d \in Drive, NEW i \in Request PROVE DriveAfter(d, i) \in Drive
<1>1. d.configured \union {i.skip} \subseteq 1..Configuration \/ i.message # "configure"
  BY DEF Drive, Request
<1>2. (IF i.message = "configure" THEN d.configured \union {i.skip} ELSE d.configured) \in SUBSET (1..Configuration)
  BY <1>1 DEF Drive
<1>3. ((d.stopped /\ i.message # "velocity") \/ i.message = "quickStop") \in BOOLEAN
  OBVIOUS
<1>. QED BY <1>2, <1>3 DEF DriveAfter, Drive, ControllerState

LEMMA AnswerIsReply ==
  ASSUME CtlTypes, NEW n \in Node, NEW m, NEW a \in Answers(n, m)
  PROVE  a \in Reply /\ a.node = n /\ a.about \notin {"emergency", "bootUp"}
<1>1. drive[n].hot \in BOOLEAN /\ drive[n].state \in ControllerState
  BY DEF CtlTypes, BusTypes, Drive
<1>2. CASE m \in {"status", "statusAgain"}
  <2>1. PICK b \in StatusBits : a = Frame(n, "status", Statusword[drive[n].state] + b)
    BY <1>2 DEF Answers
  <2>2. Statusword[drive[n].state] \in Nat /\ b \in Nat
    BY <1>1, StatusBitsAssumption DEF Statusword, ControllerState
  <2>. QED BY <2>1, <2>2 DEF Frame, Reply
<1>3. CASE m = "temperature"
  BY <1>1, <1>3 DEF Answers, Frame, Reply
<1>4. CASE m \in {"warnings", "errors"}
  <2>1. PICK v \in {"none", "oneByte", "bothBytes"} : a = Frame(n, m, v)
    BY <1>4 DEF Answers
  <2>. QED BY <1>4, <2>1 DEF Frame, Reply
<1>5. CASE m \notin {"status", "statusAgain", "temperature", "warnings", "errors"}
  BY <1>5 DEF Answers, Frame, Reply
<1>. QED BY <1>2, <1>3, <1>4, <1>5

LEMMA DriveTypes == ASSUME CtlTypes, DriveStep PROVE CtlTypes'
<1>0. UNCHANGED <<motors, ctl, initialised, registered, call, at, spc, frame>>
  BY DEF DriveStep, Answer, Emergency, FallSilent, Heat, Restart, Breaks, callVars
<1>1. CallTypes' /\ MotorTypes'
  BY <1>0, CallStays DEF CtlTypes, MotorTypes
<1>2. CASE Answer
  <2>1. Head(requests) \in Request /\ Tail(requests) \in Seq(Request)
    BY <1>2, HeadTailProperties DEF Answer, CtlTypes, BusTypes
  <2>2. Head(requests).node \in Node
    BY <2>1 DEF Request, Step
  <2>3. drive' \in [Node -> Drive]
    <3>1. drive[Head(requests).node] \in Drive
      BY <2>2 DEF CtlTypes, BusTypes
    <3>2. DriveAfter(drive[Head(requests).node], Head(requests)) \in Drive
      BY <2>1, <3>1, DriveIsDrive
    <3>. QED BY <1>2, <3>2, <2>1 DEF Answer, CtlTypes, BusTypes
  <2>4. replies' \in Seq(Reply)
    <3>1. replies' = replies \/ \E a \in Answers(Head(requests).node, Head(requests).message) : replies' = Append(replies, a)
      BY <1>2 DEF Answer
    <3>. QED BY <2>2, <3>1, AnswerIsReply DEF CtlTypes, BusTypes
  <2>5. BusTypes'
    BY <1>0, <1>2, <2>1, <2>3, <2>4 DEF Answer, CtlTypes, BusTypes
  <2>. QED BY <1>1, <2>5 DEF CtlTypes
<1>3. ASSUME NEW n \in Node, Emergency(n) \/ FallSilent(n) \/ Heat(n) \/ Restart(n) PROVE CtlTypes'
  <2>1. faults' \in 0..MaxFaults /\ requests' = requests
    BY <1>3, MaxFaultsAssumption DEF Emergency, FallSilent, Heat, Restart, Breaks, CtlTypes, BusTypes
  <2>2. NewDrive \in Drive /\ [NewDrive EXCEPT !.booted = TRUE] \in Drive
    BY DEF NewDrive, Drive, ControllerState
  <2>3. drive' \in [Node -> Drive]
    <3>0. drive \in [Node -> Drive]
      BY DEF CtlTypes, BusTypes
    <3>1. CASE Emergency(n)
      BY <3>0, <3>1 DEF Emergency, Drive, ControllerState
    <3>2. CASE FallSilent(n)
      BY <3>0, <3>2 DEF FallSilent, Drive
    <3>3. CASE Heat(n)
      BY <3>0, <3>3 DEF Heat, Drive
    <3>4. CASE Restart(n)
      BY <3>0, <2>2, <3>4 DEF Restart
    <3>. QED BY <1>3, <3>1, <3>2, <3>3, <3>4
  <2>4. replies' \in Seq(Reply)
    <3>1. Frame(n, "emergency", "none") \in Reply /\ Frame(n, "bootUp", "none") \in Reply
      BY DEF Frame, Reply
    <3>0. replies \in Seq(Reply)
      BY DEF CtlTypes, BusTypes
    <3>2. \/ replies' = replies \/ replies' = Append(replies, Frame(n, "emergency", "none"))
          \/ replies' = Append(replies, Frame(n, "bootUp", "none"))
      BY <1>3 DEF Emergency, FallSilent, Heat, Restart
    <3>. QED BY <3>0, <3>1, <3>2
  <2>5. BusTypes'
    BY <1>0, <2>1, <2>3, <2>4 DEF CtlTypes, BusTypes
  <2>. QED BY <1>1, <2>5 DEF CtlTypes
<1>. QED BY <1>2, <1>3 DEF DriveStep

LEMMA CtlStays == ASSUME CtlTypes, UNCHANGED ctlrsVars PROVE CtlTypes'
<1>1. UNCHANGED <<motors, ctl, initialised, registered, call, at, spc, frame, requests, replies, drive, faults>>
  BY DEF ctlrsVars, callVars, busVars
<1>. QED BY <1>1, CallStays DEF CtlTypes, MotorTypes, BusTypes

LEMMA StatusWritten ==
  ASSUME CtlTypes, UNCHANGED <<ctl, initialised, registered, callVars, busVars>>,
         motors' \in ModuleStatus
  PROVE  CtlTypes'
<1>1. UNCHANGED <<ctl, initialised, registered, call, at, spc, frame, requests, replies, drive, faults>>
  BY DEF callVars, busVars
<1>. QED BY <1>1, CallStays DEF CtlTypes, MotorTypes, BusTypes

(* What the steps of run() do: they leave the controllers alone, write the *)
(* status, begin a call or end one.                                        *)
LEMMA MainActs ==
  ASSUME Types, MainStep
  PROVE  \/ UNCHANGED ctlrsVars /\ ppc \notin Calling
         \/ /\ UNCHANGED <<ctl, initialised, registered, callVars, busVars>>
            /\ motors' \in ModuleStatus /\ ppc \notin Calling
         \/ \E c \in Call : Invoke(c) /\ ppc' \in Calling
         \/ Return /\ ppc' \notin Calling
<1>1. CASE Start \/ WriteBack \/ PublishReady \/ handleCriticalFailure
  BY <1>1 DEF Start, WriteBack, PublishReady, handleCriticalFailure, Types, ModuleStatus, Calling
<1>2. CASE CopyMotors
  BY <1>2 DEF CopyMotors, Calling
<1>3. CASE Switch
  BY <1>3 DEF Switch, Goes, Calls, Call, Calling
<1>4. CASE Accelerate \/ Regulate
  BY <1>4 DEF Accelerate, Regulate, Goes, Calls, Call, Calling
<1>5. CASE \E overCurrent \in BOOLEAN : Resume(overCurrent)
  BY <1>5 DEF Resume, Return, Types, Calling
<1>. QED BY <1>1, <1>2, <1>3, <1>4, <1>5 DEF MainStep

LEMMA ThreadTypes == ASSUME Types, MainStep PROVE ppc' \in Ppc /\ copy' \in ModuleStatus /\ transitionSeen' \in BOOLEAN
<1>. USE DEF Types
<1>1. CASE Start \/ WriteBack \/ PublishReady \/ handleCriticalFailure
  BY <1>1 DEF Start, WriteBack, PublishReady, handleCriticalFailure, Ppc
<1>2. CASE CopyMotors
  BY <1>2 DEF CopyMotors, Ppc, CtlTypes, MotorTypes
<1>3. CASE Switch
  BY <1>3 DEF Switch, Goes, Calls, Ppc, Calling
<1>4. CASE Accelerate \/ Regulate
  BY <1>4 DEF Accelerate, Regulate, Goes, Calls, Ppc, Calling, CtlTypes, MotorTypes
<1>5. CASE \E overCurrent \in BOOLEAN : Resume(overCurrent)
  <2>1. ppc \in Calling
    BY <1>5 DEF Resume, Return
  <2>. QED BY <1>5, <2>1 DEF Resume, Ppc, Calling
<1>. QED BY <1>1, <1>2, <1>3, <1>4, <1>5 DEF MainStep

LEMMA CtlInitTypes == ASSUME CtlInit PROVE CtlTypes
<1>1. MotorTypes
  BY DEF CtlInit, MotorTypes, Controller, ModuleStatus, ControllerState
<1>2. NewDrive \in Drive
  BY DEF NewDrive, Drive, ControllerState
<1>3. BusTypes
  BY <1>2, MaxFaultsAssumption DEF CtlInit, BusTypes
<1>4. CallTypes
  <2>1. N + 1 \in 1..(N + 1) /\ ~(N + 1 <= N)
    BY NAssumption
  <2>. QED BY <2>1 DEF CtlInit, CallTypes, Left
<1>. QED BY <1>1, <1>3, <1>4 DEF CtlTypes

LEMMA InitTypes == ASSUME Init PROVE Types
BY CtlInitTypes DEF Init, CtlInit, Types, ModuleStatus, Ppc, Calling, State

LEMMA NextTypes == ASSUME Types, [Next]_pvars PROVE Types'
<1>. USE DEF Types
<1>1. CASE MainStep /\ UNCHANGED <<podState, running>>
  <2>1. CtlTypes' /\ (call' # "none" => ppc' \in Calling)
    <3>1. CASE UNCHANGED ctlrsVars /\ ppc \notin Calling
      BY <3>1, CtlStays DEF ctlrsVars, callVars
    <3>2. CASE /\ UNCHANGED <<ctl, initialised, registered, callVars, busVars>>
               /\ motors' \in ModuleStatus /\ ppc \notin Calling
      BY <3>2, StatusWritten DEF callVars
    <3>3. CASE \E c \in Call : Invoke(c) /\ ppc' \in Calling
      BY <3>3, InvokeTypes
    <3>4. CASE Return /\ ppc' \notin Calling
      BY <3>4, ReturnTypes DEF Return
    <3>. QED BY <1>1, <3>1, <3>2, <3>3, <3>4, MainActs
  <2>. QED BY <1>1, <2>1, ThreadTypes
<1>2. CASE CallerStep /\ UNCHANGED mainVars /\ UNCHANGED <<podState, running>>
  <2>1. call' = call
    BY <1>2 DEF CallerStep, Send, Arm, Answered, Timeout, LookAtState
  <2>. QED BY <1>2, <2>1, CallerTypes DEF mainVars
<1>3. CASE CanThread
  <2>1. call' = call
    BY <1>3 DEF CanThread, CanStep, Deliver, Process, callVars
  <2>. QED BY <1>3, <2>1, CanTypes DEF CanThread, mainVars
<1>4. CASE Drives
  <2>1. call' = call
    BY <1>4 DEF Drives, DriveStep, Answer, Emergency, FallSilent, Heat, Restart, Breaks, callVars
  <2>. QED BY <1>4, <2>1, DriveTypes DEF Drives, mainVars
<1>5. CASE Transition \/ UNCHANGED pvars
  <2>1. podState' \in State /\ UNCHANGED <<ctlrsVars, running, mainVars>>
    BY <1>5 DEF Transition, pvars
  <2>. QED BY <2>1, CtlStays DEF ctlrsVars, callVars, mainVars
<1>6. CASE StopSystem
  <2>1. UNCHANGED <<motors, ctl, initialised, registered, call, at, spc, frame, requests, replies, drive, podState, mainVars>>
    BY <1>6 DEF StopSystem, callVars
  <2>2. faults' \in 0..MaxFaults
    <3>1. faults \in 0..MaxFaults
      BY DEF CtlTypes, BusTypes
    <3>2. faults' = faults + 1 /\ faults < MaxFaults
      BY <1>6 DEF StopSystem
    <3>. QED BY <3>1, <3>2, MaxFaultsAssumption
  <2>3. CtlTypes'
    BY <2>1, <2>2, CallStays DEF CtlTypes, MotorTypes, BusTypes
  <2>4. running' \in BOOLEAN
    BY <1>6 DEF StopSystem
  <2>. QED BY <2>1, <2>3, <2>4 DEF mainVars
<1>. QED BY <1>1, <1>2, <1>3, <1>4, <1>5, <1>6 DEF Next, PropulsionThread

LEMMA TypesHold == Spec => []Types
BY InitTypes, NextTypes, PTL DEF Spec

(* The thread, its controllers and the drives are what they are declared   *)
(* to be, for every number of controllers; a call is always at an item of  *)
(* its script, and under way only while run() waits for it                 *)
(* (state_processor.cpp:26-163, can_sender.cpp:17-59).                     *)
THEOREM TypeCorrect == Spec => []TypeOK
<1>1. Types => TypeOK
  <2>1. frame \in Reply => frame.node \in Node
    BY DEF Reply
  <2>. QED BY <2>1 DEF Types, CtlTypes, CallTypes, MotorTypes, BusTypes, Controller, TypeOK, CtlTypeOK, Ppc, Calling
<1>. QED BY <1>1, TypesHold, PTL
-----------------------------------------------------------------------------
(* A stop is final *)

(* The sequences in which frames are under way.                            *)
LEMMA Appended ==
  ASSUME NEW S, NEW s \in Seq(S), NEW e \in S
  PROVE  \A i \in DOMAIN Append(s, e) :
            IF i = Len(s) + 1 THEN Append(s, e)[i] = e ELSE i \in DOMAIN s /\ Append(s, e)[i] = s[i]
OBVIOUS

LEMMA Removed ==
  ASSUME NEW S, NEW s \in Seq(S), s # <<>>
  PROVE  /\ 1 \in DOMAIN s /\ Head(s) = s[1]
         /\ \A i \in DOMAIN Tail(s) : i + 1 \in DOMAIN s /\ Tail(s)[i] = s[i + 1]
         /\ \A i \in DOMAIN s \ {1} : i - 1 \in DOMAIN Tail(s) /\ Tail(s)[i - 1] = s[i]
<1>1. Len(s) \in Nat \ {0} /\ DOMAIN s = 1..Len(s)
  BY EmptySeq, LenProperties
<1>2. Tail(s) \in Seq(S) /\ Len(Tail(s)) = Len(s) - 1 /\ \A i \in 1..Len(Tail(s)) : Tail(s)[i] = s[i + 1]
  BY HeadTailProperties
<1>3. DOMAIN Tail(s) = 1..(Len(s) - 1)
  BY <1>2, LenProperties
<1>. QED BY <1>1, <1>2, <1>3

(* A stop is under way from when it is decided on until a drive has it.    *)
Stopping ==
  \/ call = "quickStopAll"
  \/ \E i \in DOMAIN requests : requests[i].message = "quickStop"
  \/ \E n \in Node : drive[n].stopped

(* The pod then brakes or has ended its run, for good, and the thread will *)
(* not call anything that drives the motors.                               *)
Committed ==
  /\ podState \in Stops \union Ends
  /\ ppc \in {"copy", "switch", "commanding", "fail", "exited"}
  /\ call \in {"none", "quickStopAll"}

(* No velocity follows a stop, on the bus and in the drives.               *)
StopsAreLast ==
  /\ \A i, j \in DOMAIN requests : i < j /\ requests[i].message = "quickStop" => requests[j].message # "velocity"
  /\ (\E n \in Node : drive[n].stopped) => \A i \in DOMAIN requests : requests[i].message # "velocity"

Final == (Stopping => Committed) /\ StopsAreLast

(* Only the states that brake lead to the ends of the run.                 *)
LEMMA BrakesOnward ==
  ASSUME NEW s \in Stops \union Ends, NEW t \in State, GoesOn(s, t) \/ GivesUp(s, t)
  PROVE  t \in Stops \union Ends
BY DEF GoesOn, GivesUp, Course, Stops, Ends, State, Preparing, Moving

(* Nothing new is on the bus, and no drive is stopped that was not.        *)
LEMMA FinalStays ==
  ASSUME Types, Final, UNCHANGED <<requests, drive>>,
         Committed => Committed' , call' = "quickStopAll" => call = "quickStopAll" \/ Committed'
  PROVE  Final'
BY DEF Final, Stopping, StopsAreLast

LEMMA CommittedStays ==
  ASSUME Types, MainStep, podState' = podState
  PROVE  /\ Committed => Committed'
         /\ call' = "quickStopAll" => call = "quickStopAll" \/ Committed'
<1>. USE DEF Committed
<1>1. CASE Start \/ WriteBack \/ PublishReady \/ handleCriticalFailure
  BY <1>1 DEF Start, WriteBack, PublishReady, handleCriticalFailure, callVars
<1>2. CASE CopyMotors
  BY <1>2 DEF CopyMotors, ctlrsVars, callVars
<1>3. CASE Switch
  BY <1>3 DEF Switch, Goes, Calls, Invoke, ctlrsVars, callVars, Stops, Ends, Waits, Thrusts
<1>4. CASE Accelerate \/ Regulate
  BY <1>4 DEF Accelerate, Regulate, Goes, Calls, Invoke, ctlrsVars, callVars
<1>5. CASE \E overCurrent \in BOOLEAN : Resume(overCurrent)
  <2>1. ppc \in Calling /\ call' = "none"
    BY <1>5 DEF Resume, Return, Types
  <2>. QED BY <1>5, <2>1 DEF Resume, Calling
<1>. QED BY <1>1, <1>2, <1>3, <1>4, <1>5 DEF MainStep

(* The thread writes no frames but those of the call it is in.             *)
LEMMA SendFinal == ASSUME Types, Final, CallerStep, UNCHANGED <<ppc, podState>> PROVE Final'
<1>1. call' = call /\ drive' = drive /\ (Committed => Committed')
  BY DEF CallerStep, Send, Arm, Answered, Timeout, LookAtState, Committed, busVars
<1>2. CASE requests' = requests
  BY <1>1, <1>2, FinalStays
<1>3. CASE requests' # requests
  <2>1. Send /\ requests' = Append(requests, Current) /\ Left
    BY <1>3 DEF CallerStep, Send, Arm, Answered, Timeout, LookAtState, busVars
  <2>2. Current \in Request /\ requests \in Seq(Request)
    <3>1. Current \in ItemsOf(call, at.node) /\ Current.message \in Message
      BY <2>1, CurrentItem DEF Types, Send, Sends
    <3>2. \A i \in ItemsOf(call, at.node) : i.message \in Message => i \in Request
      BY DEF Request, ItemsOf
    <3>. QED BY <3>1, <3>2 DEF Types, CtlTypes, BusTypes
  <2>3. /\ Current.message = "quickStop" => call = "quickStopAll"
        /\ Current.message = "velocity" => Thrusting(call)
    BY <2>1, CurrentItem DEF Types, ItemsOf
  <2>4. \A i \in DOMAIN requests' : IF i = Len(requests) + 1 THEN requests'[i] = Current
                                    ELSE i \in DOMAIN requests /\ requests'[i] = requests[i]
    <3>1. \A i \in DOMAIN Append(requests, Current) :
             IF i = Len(requests) + 1 THEN Append(requests, Current)[i] = Current
             ELSE i \in DOMAIN requests /\ Append(requests, Current)[i] = requests[i]
      BY <2>2, Appended
    <3>. QED BY <2>1, <3>1
  <2>5. Stopping' => Committed'
    BY <1>1, <2>3, <2>4 DEF Final, Stopping
  <2>6. Current.message = "velocity" => ~Stopping
    BY <2>3 DEF Final, Committed, Thrusting
  <2>7. \A i \in DOMAIN requests' : i \in 1..(Len(requests) + 1) /\ Len(requests) \in Nat
    BY <2>1, <2>2
  <2>8. DOMAIN requests = 1..Len(requests)
    BY <2>2, LenProperties
  <2>9. ASSUME NEW i \in DOMAIN requests', NEW j \in DOMAIN requests', i < j, requests'[i].message = "quickStop"
        PROVE  requests'[j].message # "velocity"
    <3>1. i # Len(requests) + 1
      BY <2>7, <2>9
    <3>2. i \in DOMAIN requests /\ requests[i].message = "quickStop"
      BY <2>4, <2>9, <3>1
    <3>. QED BY <2>4, <2>6, <2>9, <3>2 DEF Stopping, Final, StopsAreLast
  <2>10. (\E n \in Node : drive'[n].stopped) => \A i \in DOMAIN requests' : requests'[i].message # "velocity"
    BY <1>1, <2>4, <2>6 DEF Stopping, Final, StopsAreLast
  <2>. QED BY <2>5, <2>9, <2>10 DEF Final, StopsAreLast
<1>. QED BY <1>2, <1>3

(* A drive is stopped by a stop alone, and driven again by a velocity.     *)
LEMMA StopOfDrive ==
  ASSUME NEW d \in Drive, NEW i \in Request
  PROVE  /\ DriveAfter(d, i).stopped = ((d.stopped /\ i.message # "velocity") \/ i.message = "quickStop")
         /\ DriveAfter(d, i).booted = d.booted
BY DEF DriveAfter, Drive

LEMMA AnswerStops ==
  ASSUME Types, Answer
  PROVE  LET i == Head(requests)
         IN  /\ i = requests[1] /\ 1 \in DOMAIN requests /\ i.node \in Node
             /\ \A n \in Node :
                  \/ drive'[n] = drive[n]
                  \/ /\ drive'[n].stopped = ((drive[n].stopped /\ i.message # "velocity") \/ i.message = "quickStop")
                     /\ drive'[n].booted = drive[n].booted
<1>1. requests \in Seq(Request) /\ requests # <<>> /\ drive \in [Node -> Drive]
  BY DEF Types, CtlTypes, BusTypes, Answer
<1>2. Head(requests) = requests[1] /\ 1 \in DOMAIN requests
  BY <1>1, Removed
<1>3. Head(requests) \in Request /\ Head(requests).node \in Node
  BY <1>1, HeadTailProperties DEF Request, Step
<1>4. drive' = drive \/ drive' = [drive EXCEPT ![Head(requests).node] = DriveAfter(drive[Head(requests).node], Head(requests))]
  BY DEF Answer
<1>. QED BY <1>1, <1>2, <1>3, <1>4, StopOfDrive

LEMMA DriveFinal == ASSUME Types, Final, DriveStep, UNCHANGED <<ppc, podState>> PROVE Final'
<1>1. call' = call /\ (Committed => Committed')
  BY DEF DriveStep, Answer, Emergency, FallSilent, Heat, Restart, Breaks, Committed, callVars
<1>2. CASE Answer
  <2>1. requests \in Seq(Request) /\ requests # <<>> /\ requests' = Tail(requests)
    BY <1>2 DEF Answer, Types, CtlTypes, BusTypes
  <2>2. \A i \in DOMAIN requests' : i + 1 \in DOMAIN requests /\ requests'[i] = requests[i + 1]
    BY <2>1, Removed
  <2>3. /\ 1 \in DOMAIN requests
        /\ \A n \in Node : drive'[n].stopped => drive[n].stopped \/ requests[1].message = "quickStop"
    BY <1>2, AnswerStops
  <2>4. Stopping' => Stopping
    BY <1>1, <2>2, <2>3 DEF Stopping
  <2>5. DOMAIN requests \subseteq Nat /\ DOMAIN requests' \subseteq Nat \ {0}
    <3>1. Tail(requests) \in Seq(Request)
      BY <2>1, HeadTailProperties
    <3>. QED BY <2>1, <3>1, LenProperties
  <2>6. \A i, j \in DOMAIN requests' : i < j /\ requests'[i].message = "quickStop" => requests'[j].message # "velocity"
    BY <2>2, <2>5 DEF Final, StopsAreLast
  <2>7. ASSUME NEW n \in Node, drive'[n].stopped, NEW i \in DOMAIN requests' PROVE requests'[i].message # "velocity"
    <3>1. 1 < i + 1
      BY <2>5
    <3>. QED BY <2>2, <2>3, <2>7, <3>1 DEF Final, StopsAreLast
  <2>. QED BY <1>1, <2>4, <2>6, <2>7 DEF Final, StopsAreLast
<1>3. ASSUME NEW n \in Node, Emergency(n) \/ FallSilent(n) \/ Heat(n) \/ Restart(n) PROVE Final'
  <2>1. requests' = requests
    BY <1>3 DEF Emergency, FallSilent, Heat, Restart, Breaks
  <2>2. \A m \in Node : drive'[m].stopped => drive[m].stopped
    <3>1. drive \in [Node -> Drive]
      BY DEF Types, CtlTypes, BusTypes
    <3>. QED BY <1>3, <3>1 DEF Emergency, FallSilent, Heat, Restart, NewDrive, Drive
  <2>. QED BY <1>1, <2>1, <2>2 DEF Final, Stopping, StopsAreLast
<1>. QED BY <1>2, <1>3 DEF DriveStep

LEMMA FinalHolds == Spec => []Final
<1>1. Init => Final
  BY DEF Init, CtlInit, NewDrive, Final, Stopping, StopsAreLast
<1>2. Types /\ Final /\ [Next]_pvars => Final'
  <2>. SUFFICES ASSUME Types, Final, [Next]_pvars PROVE Final'
    OBVIOUS
  <2>1. CASE MainStep /\ UNCHANGED <<podState, running>>
    <3>1. UNCHANGED <<requests, drive>>
      BY <2>1, MainActs DEF ctlrsVars, busVars, Invoke, Return
    <3>. QED BY <2>1, <3>1, CommittedStays, FinalStays
  <2>2. CASE CallerStep /\ UNCHANGED mainVars /\ UNCHANGED <<podState, running>>
    BY <2>2, SendFinal DEF mainVars
  <2>3. CASE CanThread
    <3>1. UNCHANGED <<requests, drive, call, podState, ppc>>
      BY <2>3 DEF CanThread, CanStep, Deliver, Process, callVars, mainVars
    <3>. QED BY <3>1, FinalStays DEF Committed
  <2>4. CASE Drives
    BY <2>4, DriveFinal DEF Drives, mainVars
  <2>5. CASE Transition
    <3>1. UNCHANGED <<requests, drive, call, ppc>>
      BY <2>5 DEF Transition, ctlrsVars, busVars, callVars, mainVars
    <3>2. podState \in Stops \union Ends => podState' \in Stops \union Ends
      BY <2>5, BrakesOnward DEF Transition
    <3>. QED BY <3>1, <3>2, FinalStays DEF Committed
  <2>6. CASE StopSystem \/ UNCHANGED pvars
    <3>1. UNCHANGED <<requests, drive, call, podState, ppc>>
      BY <2>6 DEF StopSystem, pvars, ctlrsVars, busVars, callVars, mainVars
    <3>. QED BY <3>1, FinalStays DEF Committed
  <2>. QED BY <2>1, <2>2, <2>3, <2>4, <2>5, <2>6 DEF Next, PropulsionThread
<1>. QED BY <1>1, <1>2, TypesHold, PTL DEF Spec

(* A drive that was stopped is never driven again, as long as it does not  *)
(* restart: the thread calls quickStopAll() only in states from which the  *)
(* pod does not come back, velocities are sent in others only, and the bus *)
(* keeps the order of what is sent (main.cpp:77-83).                      *)
THEOREM StoppedForGood == Spec => StopIsFinal
<1>1. ASSUME Types, Final, [Next]_pvars, NEW n \in Node, drive[n].stopped, ~drive[n].booted
      PROVE  drive'[n].stopped \/ drive'[n].booted
  <2>1. CASE drive' = drive
    BY <1>1, <2>1
  <2>2. CASE Answer
    <3>1. requests[1].message # "velocity"
      BY <1>1, <2>2, AnswerStops DEF Final, StopsAreLast
    <3>. QED BY <1>1, <2>2, <3>1, AnswerStops
  <2>3. ASSUME NEW m \in Node, Emergency(m) \/ FallSilent(m) \/ Heat(m) \/ Restart(m)
        PROVE  drive'[n].stopped \/ drive'[n].booted
    <3>1. drive \in [Node -> Drive]
      BY <1>1 DEF Types, CtlTypes, BusTypes
    <3>. QED BY <1>1, <2>3, <3>1 DEF Emergency, FallSilent, Heat, Restart, NewDrive, Drive
  <2>4. drive' = drive \/ DriveStep
    <3>1. CASE MainStep
      BY <1>1, <3>1, MainActs DEF ctlrsVars, busVars, Invoke, Return
    <3>2. CASE CallerStep
      BY <3>2 DEF CallerStep, Send, Arm, Answered, Timeout, LookAtState, busVars
    <3>3. CASE CanThread \/ Transition \/ StopSystem \/ UNCHANGED pvars
      BY <3>3 DEF CanThread, CanStep, Deliver, Process, Transition, StopSystem, pvars, ctlrsVars, busVars
    <3>. QED BY <1>1, <3>1, <3>2, <3>3 DEF Next, PropulsionThread, Drives
  <2>. QED BY <2>1, <2>2, <2>3, <2>4 DEF DriveStep
<1>2. Types /\ Final /\ [Next]_pvars =>
        \A n \in Node : drive[n].stopped /\ ~drive[n].booted => drive'[n].stopped \/ drive'[n].booted
  BY <1>1
<1>. QED BY <1>2, TypesHold, FinalHolds, PTL DEF Spec, StopIsFinal
-----------------------------------------------------------------------------
(* A pod that accelerates has configured motors *)

(* A controller of which no failure is known, nor will be from a frame     *)
(* that is under way, and whose drive has not restarted.                   *)
Clean(n) ==
  /\ ~ctl[n].failed /\ ~drive[n].booted
  /\ ~(frame.node = n /\ frame.about = "emergency")
  /\ \A i \in DOMAIN replies : ~(replies[i].node = n /\ replies[i].about = "emergency")

Asked(n) == \E i \in DOMAIN requests : requests[i].node = n
Comes(n) == \E i \in DOMAIN replies : replies[i].node = n
Quiet(n) == ~Asked(n) /\ ~Comes(n)

(* The controller that initialiseMotors() is at: one message or the answer *)
(* to it is under way, and an answer comes from a drive that has taken it. *)
InTurn(n) ==
  /\ 1..(at.step - 1) \subseteq drive[n].configured
  /\ \A i, j \in DOMAIN requests : requests[i].node = n /\ requests[j].node = n =>
        i = j /\ requests[i].message = "configure" /\ requests[i].skip = at.step
  /\ \A i, j \in DOMAIN replies : replies[i].node = n /\ replies[j].node = n => i = j
  /\ Asked(n) => ~Comes(n)
  /\ Comes(n) => at.step \in drive[n].configured
  /\ spc = "idle" => Quiet(n)
  /\ spc = "waiting" /\ ~ctl[n].sending => Quiet(n) /\ at.step \in drive[n].configured

ByTurns(n) ==
  /\ n < at.node => drive[n].configured = 1..Configuration
  /\ n = at.node => InTurn(n)
  /\ n > at.node => Quiet(n)

Initialising ==
  call = "initialiseMotors" /\ ~initialised => \A n \in Node : Clean(n) => ByTurns(n)

Configured == initialised => \A n \in Node : Clean(n) => drive[n].configured = 1..Configuration

(* Before the controllers are registered a drive is not asked anything.    *)
Unregistered ==
  ~registered =>
    /\ requests = <<>> /\ frame = NoFrame /\ call = "none" /\ ~initialised
    /\ \A i \in DOMAIN replies : \/ replies[i].about = "emergency"
                                 \/ replies[i].about = "bootUp" /\ drive[replies[i].node].booted

(* What the thread and the pod do only with initialised motors, kReady     *)
(* being written over other states with copies that are older.             *)
Beyond == {"kPreReady", "kReady", "kAccelerating", "kFinished"} \union Stops

NotBefore ==
  /\ podState \in Beyond => initialised
  /\ motors = kReady \/ copy = kReady => initialised
  /\ ppc \in (Calling \ {"initialising"}) \union {"publish", "accelerate", "writeBack", "regulate", "command"}
       => initialised
  /\ registered /\ ~initialised => \/ call = "initialiseMotors" /\ ppc = "initialising"
                                   \/ call = "none" /\ ppc \in {"fail", "exited"}
  /\ call # "none" /\ ~initialised => call = "initialiseMotors"
  /\ ppc = "initialising" => call = "initialiseMotors"

SetUp == Initialising /\ Configured /\ Unregistered

(* The calls that run() makes and ends.                                    *)
LEMMA MainCalls ==
  ASSUME Types, NotBefore, Unregistered, MainStep
  PROVE  \/ UNCHANGED <<ctl, initialised, registered, call, at, spc, busVars>>
         \/ ~initialised /\ ~registered /\ Invoke("initialiseMotors")
         \/ initialised /\ \E c \in Call \ {"initialiseMotors"} : Invoke(c)
         \/ Return
<1>1. CASE Start \/ WriteBack \/ PublishReady \/ handleCriticalFailure
  BY <1>1 DEF Start, WriteBack, PublishReady, handleCriticalFailure, callVars
<1>2. CASE CopyMotors
  BY <1>2 DEF CopyMotors, ctlrsVars, callVars
<1>3. CASE Switch
  <2>1. CASE UNCHANGED ctlrsVars
    BY <2>1 DEF ctlrsVars, callVars
  <2>2. CASE podState = "kCalibrating" /\ ~initialised /\ Invoke("initialiseMotors")
    <3>1. ~registered
      BY <1>3, <2>2 DEF Switch, Invoke, NotBefore
    <3>. QED BY <2>2, <3>1
  <2>3. CASE podState \in Beyond /\ \E c \in Call \ {"initialiseMotors"} : Invoke(c)
    BY <2>3 DEF NotBefore
  <2>. QED BY <1>3, <2>1, <2>2, <2>3 DEF Switch, Goes, Calls, Call, Beyond, Stops, Thrusts
<1>4. CASE Accelerate \/ Regulate
  BY <1>4 DEF Accelerate, Regulate, Goes, Calls, Call, NotBefore, ctlrsVars, callVars
<1>5. CASE \E overCurrent \in BOOLEAN : Resume(overCurrent)
  BY <1>5 DEF Resume
<1>. QED BY <1>1, <1>2, <1>3, <1>4, <1>5 DEF MainStep

LEMMA NotBeforeInit == Init => NotBefore
BY DEF Init, CtlInit, NotBefore, Beyond, Stops, Calling, kStart, kReady

LEMMA NotBeforeMain ==
  ASSUME Types, NotBefore, MainStep, podState' = podState
  PROVE  NotBefore'
<1>1. CASE Start \/ WriteBack \/ PublishReady \/ handleCriticalFailure
  BY <1>1 DEF Start, WriteBack, PublishReady, handleCriticalFailure, callVars, NotBefore, Types, Calling,
              kInit, kReady, kCriticalFailure
<1>2. CASE CopyMotors
  BY <1>2 DEF CopyMotors, ctlrsVars, callVars, NotBefore, Types, Calling
<1>3. CASE Switch
  BY <1>3 DEF Switch, Goes, Calls, Invoke, ctlrsVars, callVars, NotBefore, Types, Calling, Beyond, Stops, Thrusts
<1>4. CASE Accelerate \/ Regulate
  BY <1>4 DEF Accelerate, Regulate, Goes, Calls, Invoke, ctlrsVars, callVars, NotBefore, Types, Calling
<1>5. CASE \E overCurrent \in BOOLEAN : Resume(overCurrent)
  <2>1. ppc \in Calling /\ call' = "none" /\ UNCHANGED <<motors, registered, copy, podState>>
    BY <1>5 DEF Resume, Return, Types
  <2>2. initialised => initialised'
    BY <1>5 DEF Resume, Return
  <2>3. ppc = "initialising" => ppc' = IF initialised' THEN "copy" ELSE "fail"
    BY <1>5 DEF Resume
  <2>4. ppc # "initialising" => initialised
    BY <2>1 DEF NotBefore
  <2>5. ppc' # "initialising"
    BY <1>5, <2>1 DEF Resume, Calling
  <2>. QED BY <2>1, <2>2, <2>3, <2>4, <2>5 DEF NotBefore, Calling
<1>. QED BY <1>1, <1>2, <1>3, <1>4, <1>5 DEF MainStep

LEMMA NotBeforeHolds == ASSUME Types, NotBefore, [Next]_pvars PROVE NotBefore'
<1>1. CASE MainStep /\ UNCHANGED <<podState, running>>
  BY <1>1, NotBeforeMain
<1>2. CASE (CallerStep \/ CanStep \/ DriveStep) /\ UNCHANGED mainVars /\ podState' = podState
  <2>1. UNCHANGED <<initialised, registered, call>> /\ motors' \in {motors, kCriticalFailure}
    BY <1>2 DEF CallerStep, Send, Arm, Answered, Timeout, LookAtState, CanStep, Deliver, Process,
                DriveStep, Answer, Emergency, FallSilent, Heat, Restart, Breaks, callVars
  <2>. QED BY <1>2, <2>1 DEF NotBefore, mainVars, kReady, kCriticalFailure
<1>3. CASE Transition
  <2>1. UNCHANGED <<initialised, registered, call, motors, ppc, copy>>
    BY <1>3 DEF Transition, ctlrsVars, callVars, mainVars
  <2>2. podState' \in Beyond => podState \in Beyond \/ motors = kReady
    BY <1>3 DEF Transition, GoesOn, GivesUp, MotorsAllow, Course, Beyond, Stops, Preparing, Moving, Types, State
  <2>. QED BY <2>1, <2>2 DEF NotBefore
<1>4. CASE StopSystem \/ UNCHANGED pvars
  <2>1. UNCHANGED <<initialised, registered, call, motors, ppc, copy, podState>>
    BY <1>4 DEF StopSystem, pvars, ctlrsVars, callVars, mainVars
  <2>. QED BY <2>1 DEF NotBefore
<1>. QED BY <1>1, <1>2, <1>3, <1>4 DEF Next, PropulsionThread, CanThread, Drives

-----------------------------------------------------------------------------
(* The frames of t that are about n are among those of s, or of its rest.  *)
From(s, t, n, k) == \A i \in DOMAIN t : t[i].node = n => i + k \in DOMAIN s /\ t[i] = s[i + k]

(* Nothing new of the node is under way, and its drive forgets nothing.    *)
LEMMA TurnKept ==
  ASSUME Types, Types', NEW n \in Node, ByTurns(n), NEW k \in {0, 1}, NEW l \in {0, 1},
         From(requests, requests', n, k), From(replies, replies', n, l),
         drive[n].configured \subseteq drive'[n].configured,
         ctl'[n].sending = ctl[n].sending, UNCHANGED <<at, spc>>
  PROVE  ByTurns(n)'
<1>1. DOMAIN requests' \subseteq Nat /\ DOMAIN replies' \subseteq Nat
  <2>1. requests' \in Seq(Request) /\ replies' \in Seq(Reply)
    BY DEF Types, CtlTypes, BusTypes
  <2>. QED BY <2>1, LenProperties
<1>2. drive'[n].configured \subseteq 1..Configuration
  BY DEF Types, CtlTypes, BusTypes, Drive
<1>3. (Asked(n)' => Asked(n)) /\ (Comes(n)' => Comes(n))
  BY DEF From, Asked, Comes
<1>4. InTurn(n) => InTurn(n)'
  BY <1>1, <1>3 DEF From, InTurn, Quiet
<1>. QED BY <1>2, <1>3, <1>4 DEF ByTurns, Quiet

LEMMA AllFrom == ASSUME NEW s, NEW S, s \in Seq(S), NEW n PROVE From(s, s, n, 0)
<1>1. DOMAIN s \subseteq Nat
  BY LenProperties
<1>. QED BY <1>1 DEF From

(* Nothing is under way that was not, and nothing is forgotten, of any     *)
(* controller that is clean.                                               *)
LEMMA SetUpKept ==
  ASSUME Types, Types', SetUp, registered, UNCHANGED <<initialised, registered, call, at, spc>>,
         \A n \in Node : Clean(n)' =>
            /\ Clean(n)
            /\ drive[n].configured \subseteq drive'[n].configured
            /\ ctl'[n].sending = ctl[n].sending
            /\ From(requests, requests', n, 0) /\ From(replies, replies', n, 0)
  PROVE  SetUp'
<1>1. \A n \in Node : drive'[n].configured \subseteq 1..Configuration
  BY DEF Types, CtlTypes, BusTypes, Drive
<1>2. Configured'
  BY <1>1 DEF SetUp, Configured
<1>3. Initialising'
  BY TurnKept DEF SetUp, Initialising
<1>. QED BY <1>2, <1>3 DEF SetUp, Unregistered

LEMMA InvokeSetUp ==
  ASSUME Types, SetUp,
         \/ ~initialised /\ ~registered /\ Invoke("initialiseMotors")
         \/ initialised /\ \E c \in Call \ {"initialiseMotors"} : Invoke(c)
  PROVE  SetUp'
<1>1. UNCHANGED <<ctl, initialised, spc, frame, requests, replies, drive>>
  BY DEF Invoke, busVars
<1>2. \A n : Clean(n)' <=> Clean(n)
  BY <1>1 DEF Clean
<1>3. CASE initialised /\ \E c \in Call \ {"initialiseMotors"} : Invoke(c)
  BY <1>1, <1>2, <1>3 DEF Invoke, SetUp, Initialising, Configured, Unregistered
<1>4. CASE ~initialised /\ ~registered /\ Invoke("initialiseMotors")
  <2>1. at' = [node |-> 1, step |-> 1] /\ registered' /\ requests = <<>> /\ spc = "idle"
    BY <1>4 DEF Invoke, SetUp, Unregistered, Types, CtlTypes, CallTypes
  <2>2. ASSUME NEW n \in Node, Clean(n) PROVE Quiet(n)'
    BY <1>1, <1>4, <2>1, <2>2 DEF SetUp, Unregistered, Clean, Quiet, Asked, Comes
  <2>3. ASSUME NEW n \in Node, Quiet(n)', n >= 1 PROVE ByTurns(n)'
    <3>1. at'.node = 1 /\ 1..(at'.step - 1) = {} /\ spc' = "idle"
      BY <1>1, <2>1
    <3>2. InTurn(n)'
      BY <2>3, <3>1 DEF InTurn, Quiet, Asked, Comes
    <3>. QED BY <2>3, <3>1, <3>2 DEF ByTurns, Node
  <2>4. Initialising'
    BY <1>2, <2>2, <2>3 DEF Initialising, Node
  <2>. QED BY <1>1, <1>4, <2>1, <2>4 DEF SetUp, Configured, Unregistered
<1>. QED BY <1>3, <1>4

LEMMA ReturnSetUp == ASSUME Types, SetUp, NotBefore, Return PROVE SetUp'
<1>1. UNCHANGED <<ctl, registered, spc, frame, requests, replies, drive>> /\ call # "none" /\ call' = "none" /\ ~Left
  BY DEF Return, Done, busVars
<1>2. \A n : Clean(n)' <=> Clean(n)
  BY <1>1 DEF Clean
<1>3. ASSUME initialised', NEW n \in Node, Clean(n) PROVE drive[n].configured = 1..Configuration
  <2>1. CASE initialised
    BY <1>3, <2>1 DEF SetUp, Configured
  <2>2. CASE ~initialised
    <3>1. call = "initialiseMotors" /\ ByTurns(n)
      BY <1>1, <1>3, <2>2 DEF NotBefore, SetUp, Initialising
    <3>2. n < at.node
      BY <1>1, NAssumption DEF Left, Node, Types, CtlTypes, CallTypes
    <3>. QED BY <3>1, <3>2 DEF ByTurns
  <2>. QED BY <2>1, <2>2
<1>4. registered
  BY <1>1 DEF SetUp, Unregistered
<1>. QED BY <1>1, <1>2, <1>3, <1>4 DEF SetUp, Initialising, Configured, Unregistered
-----------------------------------------------------------------------------
(* The caller *)

LEMMA Configuring ==
  ASSUME Types, Left, call = "initialiseMotors"
  PROVE  /\ at.node \in Node /\ at.step \in 1..Configuration
         /\ Current.node = at.node /\ Current.message = "configure" /\ Current.skip = at.step
         /\ Len(Script(call, at.node)) = Configuration
<1>1. at.node \in Node /\ at.step \in 1..Len(Script(call, at.node))
  BY CurrentItem DEF Types
<1>. QED BY <1>1, ConfigureScript DEF Current

LEMMA TurnBegins ==
  ASSUME NEW n, Quiet(n)', spc' = "idle", 1..(at'.step - 1) \subseteq drive'[n].configured
  PROVE  InTurn(n)'
BY DEF InTurn, Quiet, Asked, Comes

(* A message goes out when nothing of its controller is under way.         *)
LEMMA SendTurn ==
  ASSUME Types, Types', NEW n \in Node, ByTurns(n), Send, call = "initialiseMotors"
  PROVE  ByTurns(n)'
<1>1. UNCHANGED <<ctl, at, replies, drive>> /\ Left /\ spc = "idle" /\ spc' = "sent"
  BY DEF Send
<1>2. at.node \in Node /\ Current.node = at.node /\ Current.message = "configure" /\ Current.skip = at.step
  BY <1>1, Configuring
<1>3. CASE requests' = requests
  BY <1>1, <1>3 DEF ByTurns, InTurn, Quiet, Asked, Comes
<1>4. CASE requests' = Append(requests, Current)
  <2>1. requests \in Seq(Request) /\ Current \in Request
    <3>1. Current \in ItemsOf(call, at.node) /\ Current.message \in Message
      BY <1>1, CurrentItem DEF Types, Send, Sends
    <3>2. \A i \in ItemsOf(call, at.node) : i.message \in Message => i \in Request
      BY DEF Request, ItemsOf
    <3>. QED BY <3>1, <3>2 DEF Types, CtlTypes, BusTypes
  <2>2. \A i \in DOMAIN requests' : IF i = Len(requests) + 1 THEN requests'[i] = Current
                                    ELSE i \in DOMAIN requests /\ requests'[i] = requests[i]
    <3>1. \A i \in DOMAIN Append(requests, Current) :
             IF i = Len(requests) + 1 THEN Append(requests, Current)[i] = Current
             ELSE i \in DOMAIN requests /\ Append(requests, Current)[i] = requests[i]
      BY <2>1, Appended
    <3>. QED BY <1>4, <3>1
  <2>3. CASE n # at.node
    <3>1. Asked(n)' => Asked(n)
      BY <1>2, <2>2, <2>3 DEF Asked
    <3>. QED BY <1>1, <2>3, <3>1 DEF ByTurns, Quiet, Comes
  <2>4. CASE n = at.node
    <3>1. InTurn(n) /\ Quiet(n)
      BY <1>1, <2>4 DEF ByTurns, InTurn
    <3>2. \A i \in DOMAIN requests' : requests'[i].node = n => i = Len(requests) + 1 /\ requests'[i] = Current
      BY <2>2, <3>1 DEF Quiet, Asked
    <3>3. \A i, j \in DOMAIN requests' : requests'[i].node = n /\ requests'[j].node = n =>
             i = j /\ requests'[i].message = "configure" /\ requests'[i].skip = at.step
      BY <1>2, <3>2
    <3>4. ~Comes(n)'
      BY <1>1, <3>1 DEF Quiet, Comes
    <3>5. 1..(at.step - 1) \subseteq drive[n].configured
      BY <3>1 DEF InTurn
    <3>6. \A i, j \in DOMAIN replies' : replies'[i].node = n /\ replies'[j].node = n => i = j
      BY <3>4 DEF Comes
    <3>7. InTurn(n)'
      BY <1>1, <3>3, <3>4, <3>5, <3>6 DEF InTurn
    <3>8. ~(n < at.node) /\ ~(n > at.node)
      BY <2>4 DEF Node
    <3>. QED BY <1>1, <2>4, <3>7, <3>8 DEF ByTurns
  <2>. QED BY <2>3, <2>4
<1>. QED BY <1>3, <1>4 DEF Send

(* The wait ends: with the answer of a drive that took the message, or as  *)
(* a failure.                                                              *)
LEMMA WaitTurn ==
  ASSUME Types, Types', NEW n \in Node, ByTurns(n), Answered \/ Timeout, Clean(n)', call = "initialiseMotors"
  PROVE  ByTurns(n)'
<1>1. UNCHANGED <<requests, replies, drive>> /\ Left /\ spc = "waiting" /\ spc' = "idle"
  BY DEF Answered, Timeout, busVars, Types, CtlTypes, CallTypes
<1>2. /\ at.node \in Node /\ at.step \in 1..Configuration /\ Current.message = "configure"
      /\ Len(Script(call, at.node)) = Configuration
  BY <1>1, Configuring
<1>3. at' \in {NextNode, After(1)}
  BY DEF Answered, Timeout, Rest
<1>4. \/ at'.node = at.node + 1 /\ at'.step = 1
      \/ at'.node = at.node /\ at'.step = at.step + 1
  <2>1. at \in [node : 1..(N + 1), step : Nat \ {0}]
    BY DEF Types, CtlTypes, CallTypes
  <2>. QED BY <1>2, <1>3, <2>1 DEF NextNode, After
<1>5. Quiet(n)' <=> Quiet(n)
  BY <1>1 DEF Quiet, Asked, Comes
<1>6. CASE n < at.node
  BY <1>1, <1>2, <1>4, <1>6 DEF ByTurns, Node
<1>7. CASE n > at.node
  <2>1. Quiet(n)'
    BY <1>5, <1>7 DEF ByTurns
  <2>2. n = at'.node => at'.step = 1
    BY <1>2, <1>4, <1>7 DEF Node
  <2>3. n = at'.node => InTurn(n)'
    <3>1. 1..(1 - 1) = {}
      OBVIOUS
    <3>. QED BY <1>1, <2>1, <2>2, <3>1, TurnBegins
  <2>4. ~(n < at'.node)
    BY <1>2, <1>4, <1>7 DEF Node
  <2>. QED BY <2>1, <2>3, <2>4 DEF ByTurns
<1>8. CASE n = at.node
  <2>1. ~ctl'[n].failed /\ ctl \in [Node -> Controller]
    BY DEF Clean, Types, CtlTypes, MotorTypes
  <2>2. Answered /\ at' = After(1)
    <3>1. ~Timeout
      <4>1. ASSUME Timeout PROVE ctl'[n].failed
        <5>1. ctl' = [ctl EXCEPT ![at.node].failed = ctl[at.node].failed \/ TRUE]
          BY <1>2, <4>1 DEF Timeout, Unheeded
        <5>. QED BY <1>8, <2>1, <5>1 DEF Controller
      <4>. QED BY <2>1, <4>1
    <3>2. Answered /\ ctl' = ctl
      BY <3>1 DEF Answered
    <3>. QED BY <1>8, <2>1, <3>2 DEF Answered, Rest
  <2>3. Quiet(n) /\ at.step \in drive[n].configured /\ 1..(at.step - 1) \subseteq drive[n].configured
    BY <1>1, <1>8, <2>2 DEF Answered, ByTurns, InTurn
  <2>4. 1..at.step \subseteq drive[n].configured
    BY <1>2, <2>3
  <2>5. CASE at.step + 1 <= Configuration
    <3>1. at'.node = n /\ at'.step = at.step + 1
      <4>1. at' = [at EXCEPT !.step = at.step + 1]
        BY <1>2, <2>2, <2>5 DEF After
      <4>. QED BY <1>8, <4>1 DEF Types, CtlTypes, CallTypes
    <3>2. 1..(at'.step - 1) \subseteq drive'[n].configured
      BY <1>1, <1>2, <2>4, <3>1
    <3>3. InTurn(n)'
      BY <1>1, <1>5, <2>3, <3>2, TurnBegins
    <3>. QED BY <3>1, <3>3 DEF ByTurns, Node
  <2>6. CASE ~(at.step + 1 <= Configuration)
    <3>1. at'.node = n + 1
      BY <1>2, <1>8, <2>2, <2>6 DEF After, NextNode
    <3>2. at.step = Configuration
      BY <1>2, <2>6, ConfigurationAssumption
    <3>3. drive[n].configured = 1..Configuration
      BY <2>4, <3>2 DEF Types, CtlTypes, BusTypes, Drive
    <3>. QED BY <1>1, <3>1, <3>3 DEF ByTurns, Node
  <2>. QED BY <2>5, <2>6
<1>. QED BY <1>2, <1>6, <1>7, <1>8 DEF Node

LEMMA CallerSetUp == ASSUME Types, Types', SetUp, CallerStep PROVE SetUp'
<1>1. UNCHANGED <<initialised, registered, call, frame, replies, drive>> /\ Left
  BY DEF CallerStep, Send, Arm, Answered, Timeout, LookAtState, busVars, Types, CtlTypes, CallTypes
<1>2. registered
  BY <1>1 DEF SetUp, Unregistered, Types, CtlTypes, CallTypes
<1>3. \A n \in Node : Clean(n)' => Clean(n)
  <2>1. ctl \in [Node -> Controller] /\ at.node \in Node
    BY <1>1, CurrentItem DEF Types, CtlTypes, MotorTypes
  <2>2. \A n \in Node : ctl[n].failed => ctl'[n].failed
    BY <2>1 DEF CallerStep, Send, Arm, Answered, Timeout, LookAtState, Controller
  <2>. QED BY <1>1, <2>2 DEF Clean
<1>4. Configured' /\ Unregistered'
  BY <1>1, <1>2, <1>3 DEF SetUp, Configured, Unregistered
<1>5. ASSUME call = "initialiseMotors", ~initialised, NEW n \in Node, Clean(n)' PROVE ByTurns(n)'
  <2>1. ByTurns(n)
    BY <1>3, <1>5 DEF SetUp, Initialising
  <2>2. CASE Send
    BY <1>5, <2>1, <2>2, SendTurn
  <2>3. CASE Arm
    <3>1. UNCHANGED <<at, requests>> /\ spc = "sent" /\ spc' = "waiting"
      BY <2>3 DEF Arm, busVars
    <3>2. n = at.node => ctl'[n].sending
      BY <2>3, <1>5 DEF Arm, Types, CtlTypes, MotorTypes, Controller
    <3>. QED BY <1>1, <2>1, <3>1, <3>2 DEF ByTurns, InTurn, Quiet, Asked, Comes
  <2>4. CASE Answered \/ Timeout
    BY <1>5, <2>1, <2>4, WaitTurn
  <2>5. ~LookAtState
    BY <1>1, <1>5, Configuring DEF LookAtState, Sends, Message, Aborting
  <2>. QED BY <2>2, <2>3, <2>4, <2>5 DEF CallerStep
<1>. QED BY <1>1, <1>4, <1>5 DEF SetUp, Initialising
-----------------------------------------------------------------------------
(* The CAN thread *)

(* A frame of a controller that is clean is the answer it waits for.       *)
LEMMA DeliverSetUp == ASSUME Types, Types', SetUp, Deliver PROVE SetUp'
<1>1. /\ UNCHANGED <<initialised, registered, call, at, spc, requests, drive>>
      /\ frame = NoFrame /\ replies # <<>> /\ replies' = Tail(replies)
  BY DEF Deliver, callVars
<1>2. replies \in Seq(Reply) /\ replies' \in Seq(Reply) /\ requests \in Seq(Request)
  BY DEF Types, CtlTypes, BusTypes
<1>3. /\ 1 \in DOMAIN replies /\ Head(replies) = replies[1]
      /\ \A i \in DOMAIN replies' : i + 1 \in DOMAIN replies /\ replies'[i] = replies[i + 1]
      /\ \A i \in DOMAIN replies \ {1} : i - 1 \in DOMAIN replies' /\ replies'[i - 1] = replies[i]
  BY <1>1, <1>2, Removed
<1>4. DOMAIN replies' \subseteq Nat \ {0} /\ DOMAIN replies \subseteq Nat
  BY <1>2, LenProperties
<1>5. CASE ~registered
  <2>1. Unregistered'
    BY <1>1, <1>3, <1>5 DEF Deliver, SetUp, Unregistered
  <2>. QED BY <1>1, <1>5, <2>1 DEF SetUp, Unregistered, Initialising, Configured
<1>6. CASE registered
  <2>1. frame' = replies[1] /\ ctl' = [ctl EXCEPT ![replies[1].node].sending = FALSE]
    BY <1>3, <1>6 DEF Deliver
  <2>2. ctl \in [Node -> Controller] /\ replies[1].node \in Node
    BY <1>2, <1>3, ElementOfSeq, LenProperties DEF Types, CtlTypes, MotorTypes, Reply
  <2>3. \A n \in Node : /\ ctl'[n].failed = ctl[n].failed
                        /\ n # replies[1].node => ctl'[n].sending = ctl[n].sending
                        /\ n = replies[1].node => ~ctl'[n].sending
    BY <2>1, <2>2 DEF Controller
  <2>4. ASSUME NEW n \in Node, Clean(n)' PROVE Clean(n)
    <3>1. ~(frame.node = n /\ frame.about = "emergency")
      BY <1>1, NAssumption DEF NoFrame, Frame
    <3>2. \A i \in DOMAIN replies : ~(replies[i].node = n /\ replies[i].about = "emergency")
      BY <1>3, <2>1, <2>4 DEF Clean
    <3>. QED BY <1>1, <2>3, <2>4, <3>1, <3>2 DEF Clean
  <2>5. ASSUME call = "initialiseMotors", ~initialised, NEW n \in Node, Clean(n)' PROVE ByTurns(n)'
    <3>1. ByTurns(n)
      BY <2>4, <2>5 DEF SetUp, Initialising
    <3>2. CASE n # replies[1].node
      <4>1. From(replies, replies', n, 1) /\ From(requests, requests', n, 0)
        BY <1>1, <1>2, <1>3, AllFrom DEF From
      <4>. QED BY <1>1, <2>3, <3>1, <3>2, <4>1, TurnKept
    <3>3. CASE n = replies[1].node
      <4>1. Comes(n)
        BY <1>3, <3>3 DEF Comes
      <4>2. ~(n > at.node)
        BY <3>1, <4>1 DEF ByTurns, Quiet
      <4>3. CASE n = at.node
        <5>1. /\ InTurn(n) /\ ~Asked(n) /\ at.step \in drive[n].configured /\ spc # "idle"
          BY <3>1, <4>1, <4>3 DEF ByTurns, InTurn, Quiet
        <5>2. ~Comes(n)'
          <6>1. ASSUME NEW i \in DOMAIN replies', replies'[i].node = n PROVE FALSE
            <7>1. i + 1 \in DOMAIN replies /\ replies[i + 1].node = n
              BY <1>3, <6>1
            <7>2. i + 1 = 1
              BY <1>3, <3>3, <5>1, <7>1 DEF InTurn
            <7>. QED BY <1>4, <7>2
          <6>. QED BY <6>1 DEF Comes
        <5>3. ~Asked(n)'
          BY <1>1, <5>1 DEF Asked
        <5>4. InTurn(n)'
          BY <1>1, <5>1, <5>2, <5>3 DEF InTurn, Quiet, Asked, Comes
        <5>. QED BY <1>1, <4>3, <5>4 DEF ByTurns, Node
      <4>4. CASE n < at.node
        BY <1>1, <3>1, <4>4 DEF ByTurns, Node, Types, CtlTypes, CallTypes
      <4>. QED BY <4>2, <4>3, <4>4 DEF Node, Types, CtlTypes, CallTypes
    <3>. QED BY <3>2, <3>3
  <2>. QED BY <1>1, <1>6, <2>4, <2>5 DEF SetUp, Unregistered, Initialising, Configured
<1>. QED BY <1>5, <1>6

LEMMA CanSetUp == ASSUME Types, Types', SetUp, CanStep PROVE SetUp'
<1>1. CASE Process
  <2>1. /\ UNCHANGED <<initialised, registered, call, at, spc, requests, replies, drive>>
        /\ frame # NoFrame /\ frame' = NoFrame
    BY <1>1 DEF Process, callVars
  <2>2. registered /\ frame \in Reply /\ frame.node \in Node
    BY <2>1 DEF SetUp, Unregistered, Types, CtlTypes, BusTypes, Reply
  <2>3. ctl' = [ctl EXCEPT ![frame.node] = Stored(ctl[frame.node], frame)] /\ ctl \in [Node -> Controller]
    BY <1>1 DEF Process, Types, CtlTypes, MotorTypes
  <2>4. \A c \in Controller : Stored(c, frame).failed = (c.failed \/ IsFailure(frame)) /\ Stored(c, frame).sending = c.sending
    BY DEF Stored, Controller
  <2>5. ASSUME NEW n \in Node
        PROVE  /\ ctl'[n].sending = ctl[n].sending
               /\ ctl[n].failed \/ (n = frame.node /\ IsFailure(frame)) => ctl'[n].failed
    <3>1. CASE n = frame.node
      <4>1. ctl'[n] = Stored(ctl[n], frame) /\ ctl[n] \in Controller
        BY <2>3, <3>1
      <4>. QED BY <2>4, <4>1
    <3>2. CASE n # frame.node
      BY <2>3, <3>2
    <3>. QED BY <3>1, <3>2
  <2>6. \A n \in Node : Clean(n)' => Clean(n)
    BY <2>1, <2>5 DEF Clean, IsFailure
  <2>7. \A n \in Node : From(requests, requests', n, 0) /\ From(replies, replies', n, 0)
    <3>1. requests \in Seq(Request) /\ replies \in Seq(Reply)
      BY DEF Types, CtlTypes, BusTypes
    <3>. QED BY <2>1, <3>1, AllFrom
  <2>. QED BY <2>1, <2>2, <2>5, <2>6, <2>7, SetUpKept
<1>. QED BY <1>1, DeliverSetUp DEF CanStep
-----------------------------------------------------------------------------
(* The drives *)

LEMMA ConfiguredDrive ==
  ASSUME NEW d \in Drive, NEW i \in Request
  PROVE  /\ DriveAfter(d, i).booted = d.booted
         /\ d.configured \subseteq DriveAfter(d, i).configured
         /\ i.message = "configure" => i.skip \in DriveAfter(d, i).configured
BY DEF DriveAfter, Drive

(* A drive takes what it is asked, and then answers it.                    *)
LEMMA AnswerSetUp == ASSUME Types, Types', SetUp, Answer PROVE SetUp'
<1>. DEFINE r == requests[1]
<1>1. /\ UNCHANGED <<ctl, initialised, registered, call, at, spc, frame>>
      /\ requests # <<>> /\ requests' = Tail(requests)
  BY DEF Answer, callVars
<1>2. requests \in Seq(Request) /\ requests' \in Seq(Request) /\ replies \in Seq(Reply) /\ drive \in [Node -> Drive]
  BY DEF Types, CtlTypes, BusTypes
<1>3. /\ 1 \in DOMAIN requests /\ Head(requests) = r
      /\ \A i \in DOMAIN requests' : i + 1 \in DOMAIN requests /\ requests'[i] = requests[i + 1]
  BY <1>1, <1>2, Removed
<1>4. DOMAIN requests' \subseteq Nat \ {0} /\ DOMAIN requests \subseteq Nat
  BY <1>2, LenProperties
<1>5. r \in Request /\ r.node \in Node /\ registered
  BY <1>1, <1>2, <1>3, ElementOfSeq, LenProperties DEF Request, Step, SetUp, Unregistered
<1>. HIDE DEF r
<1>6. \A n \in Node : /\ drive'[n].booted = drive[n].booted
                      /\ drive[n].configured \subseteq drive'[n].configured
  <2>1. drive' = drive \/ drive' = [drive EXCEPT ![r.node] = DriveAfter(drive[r.node], r)]
    BY <1>3 DEF Answer
  <2>. QED BY <1>2, <1>5, <2>1, ConfiguredDrive
<1>7. \/ replies' = replies
      \/ /\ \E a \in Reply : /\ a.node = r.node /\ a.about # "emergency"
                             /\ replies' = Append(replies, a)
         /\ r.message = "configure" => r.skip \in drive'[r.node].configured
  <2>1. CASE replies' # replies
    <3>1. drive' = [drive EXCEPT ![r.node] = DriveAfter(drive[r.node], r)]
      BY <1>3, <2>1 DEF Answer
    <3>2. \E a \in Answers(r.node, r.message) : replies' = Append(replies, a)
      BY <1>3, <2>1 DEF Answer
    <3>3. drive'[r.node] = DriveAfter(drive[r.node], r) /\ drive[r.node] \in Drive
      BY <1>2, <1>5, <3>1
    <3>. QED BY <1>5, <3>2, <3>3, AnswerIsReply, ConfiguredDrive DEF Types
  <2>. QED BY <2>1
<1>8. \A i \in DOMAIN replies' : replies'[i].node # r.node => i \in DOMAIN replies /\ replies'[i] = replies[i]
  <2>1. ASSUME NEW a \in Reply, a.node = r.node, replies' = Append(replies, a),
               NEW i \in DOMAIN replies', replies'[i].node # r.node
        PROVE  i \in DOMAIN replies /\ replies'[i] = replies[i]
    BY <1>2, <2>1
  <2>. QED BY <1>7, <2>1
<1>9. DOMAIN replies \subseteq DOMAIN replies' /\ \A i \in DOMAIN replies : replies'[i] = replies[i]
  <2>1. ASSUME NEW a \in Reply, replies' = Append(replies, a)
        PROVE  DOMAIN replies \subseteq DOMAIN replies' /\ \A i \in DOMAIN replies : replies'[i] = replies[i]
    BY <1>2, <2>1
  <2>. QED BY <1>7, <2>1
<1>10. ASSUME NEW n \in Node, Clean(n)' PROVE Clean(n)
  BY <1>1, <1>6, <1>9, <1>10 DEF Clean
<1>11. ASSUME call = "initialiseMotors", ~initialised, NEW n \in Node, Clean(n)' PROVE ByTurns(n)'
  <2>1. ByTurns(n)
    BY <1>10, <1>11 DEF SetUp, Initialising
  <2>2. CASE n # r.node
    <3>1. From(requests, requests', n, 1)
      BY <1>3 DEF From
    <3>2. From(replies, replies', n, 0)
      <4>1. DOMAIN replies \subseteq Nat
        BY <1>2, LenProperties
      <4>. QED BY <1>8, <2>2, <4>1 DEF From
    <3>. QED BY <1>1, <1>6, <2>1, <3>1, <3>2, TurnKept
  <2>3. CASE n = r.node
    <3>1. Asked(n)
      BY <1>3, <2>3 DEF Asked, r
    <3>2. ~(n > at.node)
      BY <2>1, <3>1 DEF ByTurns, Quiet
    <3>3. CASE n = at.node
      <4>1. InTurn(n) /\ ~Comes(n) /\ spc # "idle" /\ (spc = "waiting" => ctl[n].sending)
        BY <2>1, <3>1, <3>3 DEF ByTurns, InTurn, Quiet
      <4>2. r.message = "configure" /\ r.skip = at.step
        BY <1>3, <2>3, <4>1 DEF InTurn, r
      <4>3. ~Asked(n)'
        <5>1. ASSUME NEW i \in DOMAIN requests', requests'[i].node = n PROVE FALSE
          <6>1. i + 1 \in DOMAIN requests /\ requests[i + 1].node = n
            BY <1>3, <5>1
          <6>2. i + 1 = 1
            BY <1>3, <2>3, <4>1, <6>1 DEF InTurn, r
          <6>. QED BY <1>4, <6>2
        <5>. QED BY <5>1 DEF Asked
      <4>4. Comes(n)' => at.step \in drive'[n].configured
        BY <1>7, <2>3, <4>1, <4>2 DEF Comes
      <4>5. \A i, j \in DOMAIN replies' : replies'[i].node = n /\ replies'[j].node = n => i = j
        <5>1. \A i \in DOMAIN replies' : replies'[i].node = n => i = Len(replies) + 1
          <6>1. CASE replies' = replies
            BY <4>1, <6>1 DEF Comes
          <6>2. CASE \E a \in Reply : replies' = Append(replies, a)
            BY <1>2, <4>1, <6>2, Appended DEF Comes
          <6>. QED BY <1>7, <6>1, <6>2
        <5>. QED BY <5>1
      <4>6. 1..(at.step - 1) \subseteq drive'[n].configured
        BY <1>6, <4>1 DEF InTurn
      <4>7. InTurn(n)'
        BY <1>1, <4>1, <4>3, <4>4, <4>5, <4>6 DEF InTurn, Quiet, Asked
      <4>. QED BY <1>1, <3>3, <4>7 DEF ByTurns, Node
    <3>4. CASE n < at.node
      <4>1. drive'[n].configured \subseteq 1..Configuration
        BY DEF Types, CtlTypes, BusTypes, Drive
      <4>2. drive'[n].configured = 1..Configuration
        BY <1>6, <2>1, <3>4, <4>1 DEF ByTurns
      <4>. QED BY <1>1, <3>4, <4>2 DEF ByTurns, Node, Types, CtlTypes, CallTypes
    <3>. QED BY <3>2, <3>3, <3>4 DEF Node, Types, CtlTypes, CallTypes
  <2>. QED BY <2>2, <2>3
<1>12. Configured'
  <2>1. \A n \in Node : drive'[n].configured \subseteq 1..Configuration
    BY DEF Types, CtlTypes, BusTypes, Drive
  <2>. QED BY <1>1, <1>6, <1>10, <2>1 DEF SetUp, Configured
<1>. QED BY <1>1, <1>5, <1>11, <1>12 DEF SetUp, Unregistered, Initialising

(* What goes wrong in a drive is no progress.                              *)
LEMMA BreakSetUp ==
  ASSUME Types, Types', SetUp, NEW m \in Node, Emergency(m) \/ FallSilent(m) \/ Heat(m) \/ Restart(m)
  PROVE  SetUp'
<1>1. UNCHANGED <<ctl, initialised, registered, call, at, spc, frame, requests>>
  BY DEF Emergency, FallSilent, Heat, Restart, Breaks, callVars
<1>2. requests \in Seq(Request) /\ replies \in Seq(Reply) /\ drive \in [Node -> Drive]
  BY DEF Types, CtlTypes, BusTypes
<1>3. \A n \in Node : /\ drive[n].booted => drive'[n].booted
                      /\ drive'[n].booted \/ drive'[n].configured = drive[n].configured
  <2>1. CASE Emergency(m) \/ FallSilent(m) \/ Heat(m)
    <3>1. \A n \in Node : drive'[n] \in { drive[n], [drive[n] EXCEPT !.state = "kFault"],
                                          [drive[n] EXCEPT !.silent = TRUE], [drive[n] EXCEPT !.hot = TRUE] }
      BY <1>2, <2>1 DEF Emergency, FallSilent, Heat
    <3>2. \A d \in Drive :
           \A e \in { d, [d EXCEPT !.state = "kFault"], [d EXCEPT !.silent = TRUE], [d EXCEPT !.hot = TRUE] } :
              e.booted = d.booted /\ e.configured = d.configured
      BY DEF Drive
    <3>3. \A n \in Node : drive[n] \in Drive
      BY <1>2
    <3>4. \A n \in Node : drive'[n].booted = drive[n].booted /\ drive'[n].configured = drive[n].configured
      <4>. TAKE n \in Node
      <4>. QED BY ONLY <3>1, <3>2, <3>3, n \in Node
    <3>. QED BY <3>4
  <2>2. CASE Restart(m)
    BY <1>2, <2>2 DEF Restart, NewDrive
  <2>. QED BY <2>1, <2>2
<1>4. \/ replies' = replies
      \/ replies' = Append(replies, Frame(m, "emergency", "none"))
      \/ replies' = Append(replies, Frame(m, "bootUp", "none")) /\ drive'[m].booted
  <2>1. CASE Emergency(m) \/ FallSilent(m) \/ Heat(m)
    BY <2>1 DEF Emergency, FallSilent, Heat
  <2>2. CASE Restart(m)
    BY <1>2, <2>2 DEF Restart, NewDrive
  <2>. QED BY <2>1, <2>2
<1>5. Frame(m, "emergency", "none") \in Reply /\ Frame(m, "bootUp", "none") \in Reply
  BY DEF Frame, Reply
<1>6. /\ DOMAIN replies \subseteq DOMAIN replies' /\ DOMAIN replies \subseteq Nat
      /\ \A i \in DOMAIN replies : replies'[i] = replies[i]
      /\ \A i \in DOMAIN replies' :
           \/ i \in DOMAIN replies
           \/ replies'[i].node = m /\ replies'[i].about = "emergency"
           \/ replies'[i].node = m /\ replies'[i].about = "bootUp" /\ drive'[m].booted
  <2>1. CASE replies' = replies
    BY <1>2, <2>1, LenProperties
  <2>2. ASSUME NEW f \in Reply, replies' = Append(replies, f)
        PROVE  /\ DOMAIN replies \subseteq DOMAIN replies' /\ DOMAIN replies \subseteq Nat
               /\ \A i \in DOMAIN replies : replies'[i] = replies[i]
               /\ \A i \in DOMAIN replies' : i \in DOMAIN replies \/ replies'[i] = f
    BY <1>2, <2>2
  <2>3. Frame(m, "emergency", "none").node = m /\ Frame(m, "emergency", "none").about = "emergency"
    BY DEF Frame
  <2>4. Frame(m, "bootUp", "none").node = m /\ Frame(m, "bootUp", "none").about = "bootUp"
    BY DEF Frame
  <2>. QED BY <1>4, <1>5, <2>1, <2>2, <2>3, <2>4
<1>7. CASE registered
  <2>1. ASSUME NEW n \in Node, Clean(n)'
        PROVE  /\ Clean(n) /\ drive[n].configured \subseteq drive'[n].configured
               /\ ctl'[n].sending = ctl[n].sending
               /\ From(requests, requests', n, 0) /\ From(replies, replies', n, 0)
    <3>1. Clean(n)
      BY <1>1, <1>3, <1>6, <2>1 DEF Clean
    <3>2. From(requests, requests', n, 0)
      BY <1>1, <1>2, AllFrom
    <3>3. From(replies, replies', n, 0)
      BY <1>6, <2>1 DEF From, Clean
    <3>. QED BY <1>1, <1>3, <2>1, <3>1, <3>2, <3>3 DEF Clean
  <2>. QED BY <1>1, <1>7, <2>1, SetUpKept
<1>8. CASE ~registered
  <2>1. \A i \in DOMAIN replies' : \/ replies'[i].about = "emergency"
                                   \/ replies'[i].about = "bootUp" /\ drive'[replies'[i].node].booted
    <3>1. \A i \in DOMAIN replies : replies[i].node \in Node
      BY <1>2, ElementOfSeq, LenProperties DEF Reply
    <3>. QED BY <1>3, <1>6, <1>8, <3>1 DEF SetUp, Unregistered
  <2>. QED BY <1>1, <1>8, <2>1 DEF SetUp, Unregistered, Initialising, Configured
<1>. QED BY <1>7, <1>8

LEMMA SetUpHolds == Spec => [](NotBefore /\ SetUp)
<1>1. Init => SetUp
  BY DEF Init, CtlInit, SetUp, Initialising, Configured, Unregistered
<1>2. Types /\ Types' /\ NotBefore /\ SetUp /\ [Next]_pvars => NotBefore' /\ SetUp'
  <2>. SUFFICES ASSUME Types, Types', NotBefore, SetUp, [Next]_pvars PROVE SetUp'
    BY NotBeforeHolds
  <2>1. ASSUME UNCHANGED <<ctl, initialised, registered, call, at, spc, frame, requests, replies, drive>> PROVE SetUp'
    <3>1. \A n : (Clean(n)' <=> Clean(n)) /\ (ByTurns(n)' <=> ByTurns(n))
      BY <2>1 DEF Clean, ByTurns, InTurn, Quiet, Asked, Comes
    <3>. QED BY <2>1, <3>1 DEF SetUp, Initialising, Configured, Unregistered
  <2>2. CASE MainStep
    BY <2>1, <2>2, MainCalls, InvokeSetUp, ReturnSetUp DEF SetUp, busVars
  <2>3. CASE CallerStep
    BY <2>3, CallerSetUp
  <2>4. CASE CanThread
    BY <2>4, CanSetUp DEF CanThread
  <2>5. CASE Drives
    BY <2>5, AnswerSetUp, BreakSetUp DEF Drives, DriveStep
  <2>6. CASE Transition \/ StopSystem \/ UNCHANGED pvars
    BY <2>1, <2>6 DEF Transition, StopSystem, pvars, ctlrsVars, busVars, callVars
  <2>. QED BY <2>2, <2>3, <2>4, <2>5, <2>6 DEF Next, PropulsionThread
<1>. QED BY <1>1, <1>2, NotBeforeInit, TypesHold, PTL DEF Spec

(* A pod that accelerates has motors that took their whole configuration,  *)
(* but for those that are known to have failed or have restarted: an       *)
(* answer to one message is never taken for that to the next, and kReady   *)
(* is published only after initialiseMotors() went through, whatever is    *)
(* lost, late or broken (main.cpp:54-64, can_sender.cpp:17-59).            *)
THEOREM ConfiguredBeforeThrust == Spec => []AcceleratesConfigured
<1>1. Types /\ NotBefore /\ SetUp => AcceleratesConfigured
  <2>. SUFFICES ASSUME Types, NotBefore, SetUp, podState = "kAccelerating", BusQuiet, NEW n \in Node,
                       ~ctl[n].failed, ~drive[n].booted
                PROVE  drive[n].configured = 1..Configuration
    BY DEF AcceleratesConfigured
  <2>1. Clean(n)
    BY NAssumption DEF BusQuiet, Clean, NoFrame, Frame
  <2>. QED BY <2>1 DEF NotBefore, Beyond, SetUp, Configured
<1>. QED BY <1>1, TypesHold, SetUpHolds, PTL
-----------------------------------------------------------------------------
(* A prepared drive is in operation *)

Operating == {"kOperationEnabled"}
Others    == ControllerState \ Operating
Leaving   == {"shutdown", "halt", "quickStop"}

(* A frame from which the controller learns one of the states.             *)
Tells(f, n, states) ==
  f.node = n /\ f.about = "status" /\ \E s \in states : f.value = Statusword[s]

(* What is known of a drive, and what will become of it, in the order in   *)
(* which it was or will be so: the state in the controller, the states in  *)
(* frames on the way, the state of the drive, the messages that change it. *)
At(n, p, states, messages) ==
  \/ p = 0 /\ ctl[n].state \in states
  \/ p = 1 /\ Tells(frame, n, states)
  \/ p - 1 \in DOMAIN replies /\ Tells(replies[p - 1], n, states)
  \/ p = Len(replies) + 2 /\ drive[n].state \in states
  \/ /\ p - Len(replies) - 2 \in DOMAIN requests
     /\ requests[p - Len(replies) - 2].node = n
     /\ requests[p - Len(replies) - 2].message \in messages

In(n, p)  == At(n, p, Operating, {"enable"})
Out(n, p) == At(n, p, Others, Leaving)

(* The drive does not leave operation, or does not enter it, any more.     *)
StaysIn(n)  == \A p, q \in Nat : p < q /\ In(n, p) => ~Out(n, q)
StaysOut(n) == \A p, q \in Nat : p < q /\ Out(n, p) => ~In(n, q)
OnlyIn(n)   == \A p \in Nat : ~Out(n, p)

LEMMA StatusTold ==
  ASSUME NEW s \in ControllerState, NEW t \in ControllerState, NEW b \in StatusBits,
         Statusword[s] + b = Statusword[t]
  PROVE  s = t
BY StatusBitsAssumption DEF ControllerState, Statusword

LEMMA DecodedIsTold ==
  /\ \A s, t \in ControllerState : Statusword[s] = Statusword[t] => s = t
  /\ \A v, old : DecodedState(v, old) # old =>
        DecodedState(v, old) \in ControllerState /\ v = Statusword[DecodedState(v, old)]
<1>1. \A s, t \in ControllerState : Statusword[s] = Statusword[t] => s = t
  BY DEF ControllerState, Statusword
<1>2. \A v, old : DecodedState(v, old) # old =>
        DecodedState(v, old) \in ControllerState /\ v = Statusword[DecodedState(v, old)]
  BY DEF DecodedState
<1>. QED BY <1>1, <1>2

LEMMA Positions ==
  ASSUME CtlTypes
  PROVE  /\ Len(replies) \in Nat /\ DOMAIN replies = 1..Len(replies)
         /\ Len(requests) \in Nat /\ DOMAIN requests = 1..Len(requests)
         /\ replies \in Seq(Reply) /\ requests \in Seq(Request)
BY LenProperties DEF CtlTypes, BusTypes

(* No place says both.                                                     *)
LEMMA OneOrTheOther == ASSUME CtlTypes, NEW n, NEW p \in Nat, In(n, p) PROVE ~Out(n, p)
<1>1. \A f : ~(Tells(f, n, Operating) /\ Tells(f, n, Others))
  BY DecodedIsTold DEF Tells, Operating, Others, ControllerState
<1>2. CASE p = 0
  BY <1>2, Positions DEF In, Out, At, Others
<1>3. CASE p - 1 \in DOMAIN replies \/ p = 1
  BY <1>1, <1>3, Positions DEF In, Out, At
<1>4. CASE p = Len(replies) + 2
  BY <1>4, Positions DEF In, Out, At, Others
<1>5. CASE p > Len(replies) + 2
  BY <1>5, Positions DEF In, Out, At, Leaving
<1>. QED BY <1>2, <1>3, <1>4, <1>5, Positions

(* Steps that only move what is known on along the way, or lose it.        *)
Moves(n, f) ==
  /\ f \in [Nat -> Nat]
  /\ \A p, q \in Nat : p < q => f[p] <= f[q]
  /\ \A p \in Nat : (In(n, p)' => In(n, f[p])) /\ (Out(n, p)' => Out(n, f[p]))

LEMMA MovedOn ==
  ASSUME CtlTypes, NEW n, NEW f, Moves(n, f)
  PROVE  /\ StaysIn(n) => StaysIn(n)'
         /\ StaysOut(n) => StaysOut(n)'
         /\ OnlyIn(n) => OnlyIn(n)'
<1>0. \A p \in Nat : f[p] \in Nat
  BY DEF Moves
<1>1. ASSUME NEW p \in Nat, NEW q \in Nat, p < q
      PROVE  f[p] < f[q] \/ f[p] = f[q]
  BY <1>0, <1>1 DEF Moves
<1>2. \A p \in Nat : ~(In(n, p) /\ Out(n, p))
  BY OneOrTheOther
<1>3. ASSUME StaysIn(n), NEW p \in Nat, NEW q \in Nat, p < q, In(n, p)', Out(n, q)' PROVE FALSE
  <2>1. In(n, f[p]) /\ Out(n, f[q])
    BY <1>3 DEF Moves
  <2>. QED BY <1>0, <1>1, <1>2, <1>3, <2>1 DEF StaysIn
<1>4. ASSUME StaysOut(n), NEW p \in Nat, NEW q \in Nat, p < q, Out(n, p)', In(n, q)' PROVE FALSE
  <2>1. Out(n, f[p]) /\ In(n, f[q])
    BY <1>4 DEF Moves
  <2>. QED BY <1>0, <1>1, <1>2, <1>4, <2>1 DEF StaysOut
<1>5. OnlyIn(n) => OnlyIn(n)'
  BY <1>0 DEF Moves, OnlyIn
<1>. QED BY <1>3, <1>4, <1>5 DEF StaysIn, StaysOut

LEMMA StandsStill ==
  ASSUME NEW n, UNCHANGED <<frame, requests, replies>>,
         ctl'[n].state = ctl[n].state, drive'[n].state = drive[n].state
  PROVE  /\ StaysIn(n)' <=> StaysIn(n)
         /\ StaysOut(n)' <=> StaysOut(n)
         /\ OnlyIn(n)' <=> OnlyIn(n)
<1>1. \A p, S, M : At(n, p, S, M)' <=> At(n, p, S, M)
  BY DEF At, Tells
<1>2. \A p : (In(n, p)' <=> In(n, p)) /\ (Out(n, p)' <=> Out(n, p))
  BY <1>1 DEF In, Out
<1>. QED BY <1>2 DEF StaysIn, StaysOut, OnlyIn

(* The places, one by one.                                                 *)
LEMMA Known ==
  ASSUME CtlTypes, NEW n, NEW S, NEW M
  PROVE  /\ ctl[n].state \in S => At(n, 0, S, M)
         /\ Tells(frame, n, S) => At(n, 1, S, M)
         /\ \A i \in DOMAIN replies : Tells(replies[i], n, S) => At(n, i + 1, S, M)
         /\ drive[n].state \in S => At(n, Len(replies) + 2, S, M)
         /\ \A i \in DOMAIN requests :
              requests[i].node = n /\ requests[i].message \in M => At(n, Len(replies) + 2 + i, S, M)
<1>1. \A i \in DOMAIN replies : i \in Nat /\ (i + 1) - 1 = i
  BY Positions
<1>2. \A i \in DOMAIN requests : (Len(replies) + 2 + i) - Len(replies) - 2 = i
  BY Positions
<1>3. \A i \in DOMAIN replies : Tells(replies[i], n, S) => At(n, i + 1, S, M)
  <2>. TAKE i \in DOMAIN replies
  <2>. HAVE Tells(replies[i], n, S)
  <2>1. (i + 1) - 1 \in DOMAIN replies /\ Tells(replies[(i + 1) - 1], n, S)
    BY <1>1
  <2>. HIDE <1>1
  <2>. QED BY <2>1 DEF At
<1>4. \A i \in DOMAIN requests :
        requests[i].node = n /\ requests[i].message \in M => At(n, Len(replies) + 2 + i, S, M)
  <2>. TAKE i \in DOMAIN requests
  <2>. HAVE requests[i].node = n /\ requests[i].message \in M
  <2>. DEFINE p == Len(replies) + 2 + i
  <2>1. p - Len(replies) - 2 = i
    BY <1>2
  <2>. HIDE DEF p
  <2>2. At(n, p, S, M)
    BY <2>1 DEF At
  <2>. QED BY <2>2 DEF p
<1>. QED BY <1>3, <1>4 DEF At

(* A step moves what is known on if it does so at each place.              *)
Polarity(S, M) == (S = Operating /\ M = {"enable"}) \/ (S = Others /\ M = Leaving)

LEMMA MovesPlaces ==
  ASSUME CtlTypes', NEW n, NEW f \in [Nat -> Nat], \A p, q \in Nat : p < q => f[p] <= f[q],
         \A S, M : Polarity(S, M) =>
           /\ ctl'[n].state \in S => At(n, f[0], S, M)
           /\ Tells(frame', n, S) => At(n, f[1], S, M)
           /\ \A i \in DOMAIN replies' : Tells(replies'[i], n, S) => At(n, f[i + 1], S, M)
           /\ drive'[n].state \in S => At(n, f[Len(replies') + 2], S, M)
           /\ \A i \in DOMAIN requests' :
                requests'[i].node = n /\ requests'[i].message \in M
                  => At(n, f[Len(replies') + 2 + i], S, M)
  PROVE  Moves(n, f)
<1>1. Len(replies') \in Nat
  <2>1. replies' \in Seq(Reply)
    BY DEF CtlTypes, BusTypes
  <2>. QED BY <2>1, LenProperties
<1>2. ASSUME NEW p \in Nat, NEW S, NEW M, Polarity(S, M), At(n, p, S, M)' PROVE At(n, f[p], S, M)
  <2>1. CASE p = 0 /\ ctl'[n].state \in S
    BY <1>2, <2>1
  <2>2. CASE p = 1 /\ Tells(frame', n, S)
    BY <1>2, <2>2
  <2>3. CASE p - 1 \in DOMAIN replies' /\ Tells(replies'[p - 1], n, S)
    <3>1. (p - 1) + 1 = p
      OBVIOUS
    <3>2. At(n, f[(p - 1) + 1], S, M)
      BY <1>2, <2>3
    <3>. QED BY <3>1, <3>2
  <2>4. CASE p = Len(replies') + 2 /\ drive'[n].state \in S
    BY <1>2, <2>4
  <2>5. CASE /\ p - Len(replies') - 2 \in DOMAIN requests'
             /\ requests'[p - Len(replies') - 2].node = n
             /\ requests'[p - Len(replies') - 2].message \in M
    <3>1. Len(replies') + 2 + (p - Len(replies') - 2) = p
      BY <1>1
    <3>2. At(n, f[Len(replies') + 2 + (p - Len(replies') - 2)], S, M)
      BY <1>2, <2>5
    <3>. QED BY <3>1, <3>2
  <2>. QED BY <1>2, <2>1, <2>2, <2>3, <2>4, <2>5 DEF At, Tells
<1>3. \A p \in Nat : (In(n, p)' => In(n, f[p])) /\ (Out(n, p)' => Out(n, f[p]))
  BY <1>2 DEF In, Out, Polarity
<1>. QED BY <1>3 DEF Moves

-----------------------------------------------------------------------------
(* The CAN thread and the drives move what is known on *)

LEMMA DeliverMoves == ASSUME CtlTypes, CtlTypes', Deliver, NEW n \in Node PROVE \E f : Moves(n, f)
<1>. DEFINE L == Len(replies)
            f == [p \in Nat |-> IF p = 0 THEN 0 ELSE p + 1]
<1>1. /\ requests' = requests /\ drive' = drive /\ replies # <<>> /\ replies' = Tail(replies)
      /\ frame' = Head(replies) \/ (frame' = frame /\ frame = NoFrame)
  BY DEF Deliver
<1>2. /\ L \in Nat \ {0} /\ Len(replies') \in Nat /\ Len(replies') + 1 = L /\ 1 \in DOMAIN replies /\ Head(replies) = replies[1]
      /\ DOMAIN requests \subseteq Nat
      /\ \A i \in DOMAIN replies' : i \in Nat /\ i + 1 \in DOMAIN replies /\ replies'[i] = replies[i + 1]
  <2>1. replies \in Seq(Reply) /\ DOMAIN requests \subseteq Nat
    BY Positions
  <2>2. L \in Nat \ {0} /\ DOMAIN replies = 1..L /\ Head(replies) = replies[1]
    BY <1>1, <2>1, Positions, EmptySeq
  <2>3. Len(replies') = L - 1 /\ replies' \in Seq(Reply) /\ \A i \in 1..(L - 1) : replies'[i] = replies[i + 1]
    BY <1>1, <2>1, HeadTailProperties
  <2>4. DOMAIN replies' = 1..(L - 1)
    BY <2>3, LenProperties
  <2>. HIDE DEF L
  <2>. QED BY <2>1, <2>2, <2>3, <2>4
<1>3. ctl'[n].state = ctl[n].state
  <2>1. ctl' = ctl \/ (\E m : ctl' = [ctl EXCEPT ![m].sending = FALSE])
    BY DEF Deliver
  <2>2. ctl[n] \in Controller /\ ctl \in [Node -> Controller]
    BY DEF CtlTypes, MotorTypes
  <2>3. ASSUME NEW m, ctl' = [ctl EXCEPT ![m].sending = FALSE] PROVE ctl'[n].state = ctl[n].state
    <3>1. CASE m = n
      BY <2>2, <2>3, <3>1 DEF Controller
    <3>2. CASE m # n
      BY <2>2, <2>3, <3>2
    <3>. QED BY <3>1, <3>2
  <2>. QED BY <2>1, <2>3
<1>4. \A S : ~Tells(NoFrame, n, S)
  BY DEF Tells, NoFrame, Frame
<1>5. /\ f \in [Nat -> Nat] /\ (\A p, q \in Nat : p < q => f[p] <= f[q])
      /\ f[0] = 0 /\ f[1] = 2 /\ \A p \in Nat \ {0} : f[p] = p + 1
  OBVIOUS
<1>. HIDE DEF f, L
<1>6. ASSUME NEW S, NEW M
      PROVE  /\ ctl'[n].state \in S => At(n, f[0], S, M)
             /\ Tells(frame', n, S) => At(n, f[1], S, M)
             /\ \A i \in DOMAIN replies' : Tells(replies'[i], n, S) => At(n, f[i + 1], S, M)
             /\ drive'[n].state \in S => At(n, f[Len(replies') + 2], S, M)
             /\ \A i \in DOMAIN requests' :
                  requests'[i].node = n /\ requests'[i].message \in M => At(n, f[Len(replies') + 2 + i], S, M)
  <2>1. ctl'[n].state \in S => At(n, f[0], S, M)
    BY <1>3, <1>5, Known
  <2>2. Tells(frame', n, S) => At(n, f[1], S, M)
    <3>1. Tells(replies[1], n, S) => At(n, 1 + 1, S, M)
      BY <1>2, Known
    <3>2. f[1] = 1 + 1
      BY <1>5
    <3>3. Tells(frame', n, S) => Tells(replies[1], n, S)
      BY <1>1, <1>2, <1>4
    <3>. QED BY <3>1, <3>2, <3>3
  <2>3. ASSUME NEW i \in DOMAIN replies', Tells(replies'[i], n, S) PROVE At(n, f[i + 1], S, M)
    <3>1. i \in Nat /\ i + 1 \in DOMAIN replies /\ replies'[i] = replies[i + 1]
      BY <1>2
    <3>2. f[i + 1] = (i + 1) + 1
      <4>1. i + 1 \in Nat \ {0}
        BY <3>1
      <4>. QED BY <1>5, <4>1
    <3>3. Tells(replies[i + 1], n, S)
      BY <2>3, <3>1
    <3>. QED BY <3>1, <3>2, <3>3, Known
  <2>4. drive'[n].state \in S => At(n, f[Len(replies') + 2], S, M)
    <3>1. Len(replies') + 2 \in Nat \ {0} /\ (Len(replies') + 2) + 1 = L + 2
      BY <1>2
    <3>2. f[Len(replies') + 2] = L + 2
      BY <1>5, <3>1
    <3>. QED BY <1>1, <3>2, Known DEF L
  <2>5. ASSUME NEW i \in DOMAIN requests', requests'[i].node = n, requests'[i].message \in M
        PROVE  At(n, f[Len(replies') + 2 + i], S, M)
    <3>1. i \in Nat
      BY <1>1, <1>2
    <3>2. Len(replies') + 2 + i \in Nat \ {0} /\ (Len(replies') + 2 + i) + 1 = L + 2 + i
      BY <1>2, <3>1
    <3>3. f[Len(replies') + 2 + i] = L + 2 + i
      BY <1>5, <3>2
    <3>. QED BY <1>1, <2>5, <3>3, Known DEF L
  <2>. QED BY <2>1, <2>2, <2>3, <2>4, <2>5
<1>. QED BY <1>5, <1>6, MovesPlaces

LEMMA ProcessMoves == ASSUME CtlTypes, CtlTypes', Process, NEW n \in Node PROVE \E f : Moves(n, f)
<1>1. /\ requests' = requests /\ replies' = replies /\ drive' = drive
      /\ frame' = NoFrame /\ frame.node \in Node
      /\ ctl' = [ctl EXCEPT ![frame.node] = Stored(ctl[frame.node], frame)]
      /\ ctl \in [Node -> Controller]
  BY DEF Process, CtlTypes, BusTypes, MotorTypes, Reply
<1>2. \A c \in Controller :
        Stored(c, frame).state = IF frame.about = "status" THEN DecodedState(frame.value, c.state) ELSE c.state
  BY DEF Stored, Controller
<1>3. \/ ctl'[n].state = ctl[n].state
      \/ \A S : ctl'[n].state \in S => Tells(frame, n, S)
  <2>1. CASE n # frame.node
    BY <1>1, <2>1
  <2>2. CASE n = frame.node /\ frame.about # "status"
    BY <1>1, <1>2, <2>2
  <2>3. CASE n = frame.node /\ frame.about = "status"
    <3>1. ctl'[n].state = DecodedState(frame.value, ctl[n].state)
      BY <1>1, <1>2, <2>3
    <3>2. ctl'[n].state # ctl[n].state => frame.value = Statusword[ctl'[n].state]
      BY <3>1, DecodedIsTold
    <3>3. CASE frame.value = Statusword[ctl'[n].state]
      BY <2>3, <3>3 DEF Tells
    <3>. QED BY <3>2, <3>3
  <2>. QED BY <2>1, <2>2, <2>3
<1>. DEFINE new == IF ctl'[n].state = ctl[n].state THEN 0 ELSE 1
            f == [p \in Nat |-> IF p = 0 THEN new ELSE p]
<1>4. \A S : ~Tells(NoFrame, n, S)
  BY DEF Tells, NoFrame, Frame
<1>5. /\ new \in {0, 1}
      /\ \A S, M : ctl'[n].state \in S => At(n, new, S, M)
  <2>1. CASE ctl'[n].state = ctl[n].state
    BY <2>1, Known
  <2>2. CASE ctl'[n].state # ctl[n].state
    <3>1. new = 1
      BY <2>2
    <3>2. \A S : ctl'[n].state \in S => Tells(frame, n, S)
      BY <1>3, <2>2
    <3>. HIDE DEF new
    <3>. QED BY <3>1, <3>2, Known
  <2>. QED BY <2>1, <2>2
<1>. HIDE DEF new
<1>6. /\ f \in [Nat -> Nat] /\ (\A p, q \in Nat : p < q => f[p] <= f[q])
      /\ f[0] = new /\ \A p \in Nat \ {0} : f[p] = p
  BY <1>5
<1>. HIDE DEF f
<1>7. /\ \A i \in DOMAIN replies : f[i + 1] = i + 1
      /\ f[Len(replies) + 2] = Len(replies) + 2
      /\ \A i \in DOMAIN requests : f[Len(replies) + 2 + i] = Len(replies) + 2 + i
  <2>1. /\ \A i \in DOMAIN replies : i + 1 \in Nat \ {0}
        /\ Len(replies) + 2 \in Nat \ {0}
        /\ \A i \in DOMAIN requests : Len(replies) + 2 + i \in Nat \ {0}
    BY Positions
  <2>. QED BY <1>6, <2>1
<1>8. ASSUME NEW S, NEW M
      PROVE  /\ ctl'[n].state \in S => At(n, f[0], S, M)
             /\ Tells(frame', n, S) => At(n, f[1], S, M)
             /\ \A i \in DOMAIN replies' : Tells(replies'[i], n, S) => At(n, f[i + 1], S, M)
             /\ drive'[n].state \in S => At(n, f[Len(replies') + 2], S, M)
             /\ \A i \in DOMAIN requests' :
                  requests'[i].node = n /\ requests'[i].message \in M => At(n, f[Len(replies') + 2 + i], S, M)
  <2>1. ctl'[n].state \in S => At(n, f[0], S, M)
    BY <1>5, <1>6
  <2>2. ~Tells(frame', n, S)
    BY <1>1, <1>4
  <2>3. \A i \in DOMAIN replies' : Tells(replies'[i], n, S) => At(n, f[i + 1], S, M)
    BY <1>1, <1>7, Known
  <2>4. drive'[n].state \in S => At(n, f[Len(replies') + 2], S, M)
    BY <1>1, <1>7, Known
  <2>5. \A i \in DOMAIN requests' :
          requests'[i].node = n /\ requests'[i].message \in M => At(n, f[Len(replies') + 2 + i], S, M)
    BY <1>1, <1>7, Known
  <2>. QED BY <2>1, <2>2, <2>3, <2>4, <2>5
<1>. QED BY <1>6, <1>8, MovesPlaces

(* A drive that goes wrong says something else than its state.             *)
LEMMA BreakMoves ==
  ASSUME CtlTypes, CtlTypes', NEW n \in Node, UNCHANGED <<ctl, frame, requests>>,
         drive'[n].state = drive[n].state,
         NEW a \in Reply, replies' = Append(replies, a), a.about # "status"
  PROVE  \E f : Moves(n, f)
<1>. DEFINE L == Len(replies)
            f == [p \in Nat |-> IF p <= L + 1 THEN p ELSE p - 1]
<1>1. L \in Nat /\ DOMAIN replies = 1..L /\ replies \in Seq(Reply) /\ DOMAIN requests \subseteq Nat
  BY Positions
<1>2. /\ Len(replies') = L + 1 /\ DOMAIN replies' = 1..(L + 1)
      /\ (\A i \in 1..L : replies'[i] = replies[i])
      /\ replies'[L + 1] = a
  <2>1. Append(replies, a) \in Seq(Reply) /\ Len(Append(replies, a)) = L + 1
    BY <1>1, AppendProperties
  <2>2. (\A i \in 1..L : Append(replies, a)[i] = replies[i]) /\ Append(replies, a)[L + 1] = a
    BY <1>1, AppendProperties
  <2>. QED BY <2>1, <2>2, LenProperties
<1>. HIDE DEF L
<1>3. /\ f \in [Nat -> Nat] /\ (\A p, q \in Nat : p < q => f[p] <= f[q])
      /\ f[0] = 0 /\ f[1] = 1 /\ (\A i \in 1..L : f[i + 1] = i + 1)
      /\ f[L + 1 + 2] = L + 2 /\ (\A i \in Nat : f[L + 1 + 2 + i] = L + 2 + i)
  BY <1>1
<1>. HIDE DEF f
<1>4. ASSUME NEW S, NEW M
      PROVE  /\ ctl'[n].state \in S => At(n, f[0], S, M)
             /\ Tells(frame', n, S) => At(n, f[1], S, M)
             /\ \A i \in DOMAIN replies' : Tells(replies'[i], n, S) => At(n, f[i + 1], S, M)
             /\ drive'[n].state \in S => At(n, f[Len(replies') + 2], S, M)
             /\ \A i \in DOMAIN requests' :
                  requests'[i].node = n /\ requests'[i].message \in M => At(n, f[Len(replies') + 2 + i], S, M)
  <2>1. ASSUME NEW i \in DOMAIN replies', Tells(replies'[i], n, S) PROVE At(n, f[i + 1], S, M)
    <3>1. i # L + 1
      BY <1>2, <2>1 DEF Tells
    <3>2. i \in 1..L
      BY <1>1, <1>2, <3>1
    <3>3. Tells(replies[i], n, S)
      BY <1>2, <2>1, <3>2
    <3>4. f[i + 1] = i + 1
      BY <1>3, <3>2
    <3>5. i \in DOMAIN replies
      BY <1>1, <3>2
    <3>. QED BY <3>3, <3>4, <3>5, Known
  <2>2. ASSUME NEW i \in DOMAIN requests', requests'[i].node = n, requests'[i].message \in M
        PROVE  At(n, f[Len(replies') + 2 + i], S, M)
    <3>1. f[Len(replies') + 2 + i] = L + 2 + i
      BY <1>1, <1>2, <1>3
    <3>. QED BY <2>2, <3>1, Known DEF L
  <2>3. drive'[n].state \in S => At(n, f[Len(replies') + 2], S, M)
    BY <1>2, <1>3, Known DEF L
  <2>4. ctl' = ctl /\ frame' = frame
    OBVIOUS
  <2>. QED BY <1>3, <2>1, <2>2, <2>3, <2>4, Known
<1>. QED BY <1>3, <1>4, MovesPlaces

(* A drive changes sides for a message that makes it do so.                *)
LEMMA DriveTurns ==
  ASSUME NEW d \in Drive, NEW i
  PROVE  /\ DriveAfter(d, i).state \in Operating /\ d.state \notin Operating => i.message = "enable"
         /\ DriveAfter(d, i).state \notin Operating /\ d.state \in Operating => i.message \in Leaving
BY DEF DriveAfter, Drive, Operating, Leaving

(* An answer tells the state in which the drive was when it was asked.     *)
LEMMA AnswerTells ==
  ASSUME CtlTypes, NEW n \in Node, NEW h \in Node, NEW m, NEW a \in Answers(h, m), NEW S, S \subseteq ControllerState,
         Tells(a, n, S)
  PROVE  drive[n].state \in S
<1>1. h = n /\ a.about = "status"
  BY AnswerIsReply DEF Tells
<1>2. m \in {"status", "statusAgain"}
  BY <1>1 DEF Answers, Frame
<1>3. PICK b \in StatusBits : a = Frame(h, "status", Statusword[drive[h].state] + b)
  BY <1>2 DEF Answers
<1>4. PICK s \in S : a.value = Statusword[s]
  BY DEF Tells
<1>5. Statusword[drive[n].state] + b = Statusword[s]
  BY <1>1, <1>3, <1>4 DEF Frame
<1>6. drive[n].state \in ControllerState /\ s \in ControllerState
  BY DEF CtlTypes, BusTypes, Drive
<1>. QED BY <1>4, <1>5, <1>6, StatusTold

LEMMA AnswerMoves == ASSUME CtlTypes, CtlTypes', Answer, NEW n \in Node PROVE \E f : Moves(n, f)
<1>. DEFINE L == Len(replies)
            h == Head(requests)
            turn == IF drive'[n].state \in Operating <=> drive[n].state \in Operating THEN L + 2 ELSE L + 3
<1>1. /\ requests # <<>> /\ requests' = Tail(requests) /\ ctl' = ctl /\ frame' = frame
      /\ \/ drive' = drive
         \/ drive' = [drive EXCEPT ![h.node] = DriveAfter(drive[h.node], h)]
      /\ replies' = replies \/ \E a \in Answers(h.node, h.message) : replies' = Append(replies, a)
  BY DEF Answer
<1>2. /\ L \in Nat /\ DOMAIN replies = 1..L /\ replies \in Seq(Reply)
      /\ h \in Request /\ h = requests[1] /\ 1 \in DOMAIN requests /\ h.node \in Node
      /\ \A i \in DOMAIN requests' : i \in Nat /\ i + 1 \in DOMAIN requests /\ requests'[i] = requests[i + 1]
  <2>1. requests \in Seq(Request) /\ L \in Nat /\ DOMAIN replies = 1..L /\ replies \in Seq(Reply)
    BY Positions
  <2>2. Len(requests) \in Nat \ {0} /\ DOMAIN requests = 1..Len(requests)
    BY <1>1, <2>1, Positions, EmptySeq
  <2>3. /\ Len(requests') = Len(requests) - 1 /\ requests' \in Seq(Request)
        /\ \A i \in 1..(Len(requests) - 1) : requests'[i] = requests[i + 1]
    BY <1>1, <2>1, HeadTailProperties
  <2>4. DOMAIN requests' = 1..(Len(requests) - 1)
    BY <2>3, LenProperties
  <2>5. h = requests[1] /\ h \in Request
    BY <1>1, <2>1, HeadTailProperties
  <2>6. h.node \in Node
    BY <2>5 DEF Request, Step
  <2>7. \A i \in DOMAIN requests' : i \in Nat /\ i + 1 \in DOMAIN requests /\ requests'[i] = requests[i + 1]
    BY <2>2, <2>3, <2>4
  <2>8. 1 \in DOMAIN requests
    BY <2>2
  <2>. QED BY <2>1, <2>5, <2>6, <2>7, <2>8
<1>3. drive[n] \in Drive /\ drive[n].state \in ControllerState /\ drive'[n].state \in ControllerState
  BY DEF CtlTypes, BusTypes, Drive
<1>. HIDE DEF h, L
<1>4. /\ turn \in {L + 2, L + 3}
      /\ \A S, M : Polarity(S, M) /\ drive'[n].state \in S => At(n, turn, S, M)
  <2>1. CASE drive'[n].state \in Operating <=> drive[n].state \in Operating
    <3>1. turn = L + 2
      BY <2>1
    <3>. HIDE DEF turn
    <3>2. \A S, M : Polarity(S, M) /\ drive'[n].state \in S => drive[n].state \in S
      BY <1>3, <2>1 DEF Polarity, Others
    <3>. QED BY <3>1, <3>2, Known DEF L
  <2>2. CASE ~(drive'[n].state \in Operating <=> drive[n].state \in Operating)
    <3>1. turn = L + 2 + 1
      BY <1>2, <2>2
    <3>2. turn = L + 3
      BY <2>2
    <3>. HIDE DEF turn
    <3>3. drive' = [drive EXCEPT ![h.node] = DriveAfter(drive[h.node], h)]
      BY <1>1, <2>2
    <3>4. h.node = n /\ drive'[n] = DriveAfter(drive[n], h)
      <4>1. drive \in [Node -> Drive]
        BY DEF CtlTypes, BusTypes
      <4>. QED BY <2>2, <3>3, <4>1
    <3>5. \A S, M : Polarity(S, M) /\ drive'[n].state \in S => h.message \in M
      BY <1>3, <2>2, <3>4, DriveTurns DEF Polarity, Others
    <3>6. \A S, M : Polarity(S, M) /\ drive'[n].state \in S => At(n, L + 2 + 1, S, M)
      BY <1>2, <3>4, <3>5, Known DEF L
    <3>. QED BY <3>1, <3>2, <3>6
  <2>. QED BY <2>1, <2>2
<1>. HIDE DEF turn
<1>5. CASE replies' = replies
  <2>. DEFINE f == [p \in Nat |-> IF p <= L + 1 THEN p ELSE IF p = L + 2 THEN turn ELSE p + 1]
  <2>1. /\ f \in [Nat -> Nat] /\ (\A p, q \in Nat : p < q => f[p] <= f[q])
        /\ f[0] = 0 /\ f[1] = 1 /\ (\A i \in 1..L : f[i + 1] = i + 1)
        /\ f[L + 2] = turn /\ (\A i \in Nat \ {0} : f[L + 2 + i] = L + 2 + (i + 1))
    BY <1>2, <1>4
  <2>. HIDE DEF f
  <2>2. ASSUME NEW S, NEW M, Polarity(S, M)
        PROVE  /\ ctl'[n].state \in S => At(n, f[0], S, M)
               /\ Tells(frame', n, S) => At(n, f[1], S, M)
               /\ \A i \in DOMAIN replies' : Tells(replies'[i], n, S) => At(n, f[i + 1], S, M)
               /\ drive'[n].state \in S => At(n, f[Len(replies') + 2], S, M)
               /\ \A i \in DOMAIN requests' :
                    requests'[i].node = n /\ requests'[i].message \in M => At(n, f[Len(replies') + 2 + i], S, M)
    <3>1. \A i \in DOMAIN replies' : Tells(replies'[i], n, S) => At(n, f[i + 1], S, M)
      BY <1>2, <1>5, <2>1, Known
    <3>2. drive'[n].state \in S => At(n, f[Len(replies') + 2], S, M)
      BY <1>4, <1>5, <2>1, <2>2 DEF L
    <3>3. ASSUME NEW i \in DOMAIN requests', requests'[i].node = n, requests'[i].message \in M
          PROVE  At(n, f[Len(replies') + 2 + i], S, M)
      <4>1. i + 1 \in DOMAIN requests /\ requests'[i] = requests[i + 1] /\ i \in Nat
        BY <1>2, <3>3
      <4>2. i # 0
        BY <3>3, LenProperties DEF CtlTypes, BusTypes
      <4>3. f[Len(replies') + 2 + i] = L + 2 + (i + 1)
        BY <1>5, <2>1, <4>1, <4>2 DEF L
      <4>. QED BY <3>3, <4>1, <4>3, Known DEF L
    <3>4. (ctl'[n].state \in S => At(n, f[0], S, M)) /\ (Tells(frame', n, S) => At(n, f[1], S, M))
      <4>1. ctl' = ctl /\ frame' = frame
        BY <1>1
      <4>2. (ctl'[n].state \in S => At(n, 0, S, M)) /\ (Tells(frame', n, S) => At(n, 1, S, M))
        BY <4>1, Known
      <4>3. f[0] = 0 /\ f[1] = 1
        BY <2>1
      <4>. QED BY <4>2, <4>3
    <3>. QED BY <3>1, <3>2, <3>3, <3>4
  <2>. QED BY <2>1, <2>2, MovesPlaces
<1>6. ASSUME NEW a \in Answers(h.node, h.message), replies' = Append(replies, a) PROVE \E f : Moves(n, f)
  <2>. DEFINE f == [p \in Nat |-> IF p = L + 3 THEN turn ELSE p]
  <2>1. /\ f \in [Nat -> Nat] /\ (\A p, q \in Nat : p < q => f[p] <= f[q])
        /\ f[0] = 0 /\ f[1] = 1 /\ (\A i \in 1..(L + 1) : f[i + 1] = i + 1)
        /\ f[L + 1 + 2] = turn /\ (\A i \in Nat \ {0} : f[L + 1 + 2 + i] = L + 2 + (i + 1))
    BY <1>2, <1>4
  <2>. HIDE DEF f
  <2>2. /\ Len(replies') = L + 1 /\ DOMAIN replies' = 1..(L + 1)
        /\ (\A i \in 1..L : replies'[i] = replies[i])
        /\ replies'[L + 1] = a
    <3>1. a \in Reply
      BY <1>2, AnswerIsReply
    <3>2. Append(replies, a) \in Seq(Reply) /\ Len(Append(replies, a)) = L + 1
      BY <1>2, <3>1, AppendProperties DEF L
    <3>3. (\A i \in 1..L : Append(replies, a)[i] = replies[i]) /\ Append(replies, a)[L + 1] = a
      BY <1>2, <3>1, AppendProperties DEF L
    <3>. QED BY <1>6, <3>2, <3>3, LenProperties
  <2>3. ASSUME NEW S, NEW M, Polarity(S, M)
        PROVE  /\ ctl'[n].state \in S => At(n, f[0], S, M)
               /\ Tells(frame', n, S) => At(n, f[1], S, M)
               /\ \A i \in DOMAIN replies' : Tells(replies'[i], n, S) => At(n, f[i + 1], S, M)
               /\ drive'[n].state \in S => At(n, f[Len(replies') + 2], S, M)
               /\ \A i \in DOMAIN requests' :
                    requests'[i].node = n /\ requests'[i].message \in M => At(n, f[Len(replies') + 2 + i], S, M)
    <3>1. ASSUME NEW i \in DOMAIN replies', Tells(replies'[i], n, S) PROVE At(n, f[i + 1], S, M)
      <4>1. CASE i = L + 1
        <5>1. Tells(a, n, S)
          BY <2>2, <3>1, <4>1
        <5>2. S \subseteq ControllerState
          BY <2>3 DEF Polarity, Operating, Others, ControllerState
        <5>3. drive[n].state \in S
          BY <1>2, <5>1, <5>2, AnswerTells
        <5>4. f[i + 1] = L + 2
          <6>1. L \in Nat
            BY <1>2
          <6>2. L + 1 \in 1..(L + 1) /\ (L + 1) + 1 = L + 2
            BY <6>1
          <6>3. f[(L + 1) + 1] = (L + 1) + 1
            BY <2>1, <6>2
          <6>. QED BY <4>1, <6>2, <6>3
        <5>. QED BY <5>3, <5>4, Known DEF L
      <4>2. CASE i # L + 1
        <5>1. i \in 1..L
          BY <1>2, <2>2, <4>2
        <5>2. Tells(replies[i], n, S)
          BY <2>2, <3>1, <5>1
        <5>3. f[i + 1] = i + 1 /\ i \in DOMAIN replies
          BY <1>2, <2>1, <5>1
        <5>. QED BY <5>2, <5>3, Known
      <4>. QED BY <4>1, <4>2
    <3>2. drive'[n].state \in S => At(n, f[Len(replies') + 2], S, M)
      BY <1>4, <2>1, <2>2, <2>3
    <3>3. ASSUME NEW i \in DOMAIN requests', requests'[i].node = n, requests'[i].message \in M
          PROVE  At(n, f[Len(replies') + 2 + i], S, M)
      <4>1. i + 1 \in DOMAIN requests /\ requests'[i] = requests[i + 1] /\ i \in Nat
        BY <1>2, <3>3
      <4>2. i # 0
        BY <3>3, LenProperties DEF CtlTypes, BusTypes
      <4>3. f[Len(replies') + 2 + i] = L + 2 + (i + 1)
        BY <2>1, <2>2, <4>1, <4>2
      <4>. QED BY <3>3, <4>1, <4>3, Known DEF L
    <3>4. (ctl'[n].state \in S => At(n, f[0], S, M)) /\ (Tells(frame', n, S) => At(n, f[1], S, M))
      <4>1. ctl' = ctl /\ frame' = frame
        BY <1>1
      <4>2. (ctl'[n].state \in S => At(n, 0, S, M)) /\ (Tells(frame', n, S) => At(n, 1, S, M))
        BY <4>1, Known
      <4>3. f[0] = 0 /\ f[1] = 1
        BY <2>1
      <4>. QED BY <4>2, <4>3
    <3>. QED BY <3>1, <3>2, <3>3, <3>4
  <2>. QED BY <2>1, <2>3, MovesPlaces
<1>. QED BY <1>1, <1>5, <1>6

(* What is sent comes last.                                                *)
LEMMA SentMoves ==
  ASSUME CtlTypes, CtlTypes', NEW n, UNCHANGED <<ctl, frame, replies, drive>>,
         NEW m \in Request, requests' = Append(requests, m)
  PROVE  /\ StaysIn(n) /\ ~(m.node = n /\ m.message \in Leaving) => StaysIn(n)'
         /\ StaysOut(n) /\ ~(m.node = n /\ m.message = "enable") => StaysOut(n)'
         /\ OnlyIn(n) /\ ~(m.node = n /\ m.message \in Leaving) => OnlyIn(n)'
<1>. DEFINE last == Len(replies) + 2 + (Len(requests) + 1)
<1>1. /\ Len(replies) \in Nat /\ Len(requests) \in Nat /\ DOMAIN requests = 1..Len(requests)
      /\ DOMAIN replies = 1..Len(replies)
      /\ DOMAIN requests' = 1..(Len(requests) + 1)
      /\ (\A i \in 1..Len(requests) : requests'[i] = requests[i]) /\ requests'[Len(requests) + 1] = m
  <2>1. requests \in Seq(Request)
    BY Positions
  <2>2. Append(requests, m) \in Seq(Request) /\ Len(Append(requests, m)) = Len(requests) + 1
    BY <2>1, AppendProperties
  <2>3. /\ \A i \in 1..Len(requests) : Append(requests, m)[i] = requests[i]
        /\ Append(requests, m)[Len(requests) + 1] = m
    BY <2>1, AppendProperties
  <2>. QED BY <2>2, <2>3, Positions, LenProperties
<1>2. ASSUME NEW p \in Nat, NEW S, NEW M, At(n, p, S, M)'
      PROVE  At(n, p, S, M) \/ (p = last /\ m.node = n /\ m.message \in M)
  <2>1. CASE /\ p - Len(replies') - 2 \in DOMAIN requests'
             /\ requests'[p - Len(replies') - 2].node = n
             /\ requests'[p - Len(replies') - 2].message \in M
    <3>. DEFINE i == p - Len(replies) - 2
    <3>1. i \in 1..(Len(requests) + 1) /\ requests'[i].node = n /\ requests'[i].message \in M
      BY <1>1, <2>1
    <3>2. CASE i = Len(requests) + 1
      <4>1. p = last
        BY <1>1, <3>2
      <4>2. m.node = n /\ m.message \in M
        BY <1>1, <3>1, <3>2
      <4>. QED BY <4>1, <4>2
    <3>3. CASE i # Len(requests) + 1
      <4>1. i \in DOMAIN requests
        BY <1>1, <3>1, <3>3
      <4>2. requests'[i] = requests[i]
        BY <1>1, <4>1
      <4>3. requests[i].node = n /\ requests[i].message \in M
        BY <3>1, <4>2
      <4>. QED BY <4>1, <4>3 DEF At
    <3>. QED BY <3>2, <3>3
  <2>2. CASE ~(/\ p - Len(replies') - 2 \in DOMAIN requests'
               /\ requests'[p - Len(replies') - 2].node = n
               /\ requests'[p - Len(replies') - 2].message \in M)
    BY <1>2, <2>2 DEF At, Tells
  <2>. QED BY <2>1, <2>2
<1>3. ASSUME NEW p \in Nat, NEW S, NEW M, At(n, p, S, M) PROVE p < last
  BY <1>1, <1>3 DEF At
<1>4. last \in Nat
  BY <1>1
<1>. HIDE DEF last
<1>5. ASSUME NEW p \in Nat
      PROVE  /\ In(n, p) => p < last
             /\ Out(n, p) => p < last
             /\ In(n, p)' => In(n, p) \/ (p = last /\ m.node = n /\ m.message = "enable")
             /\ Out(n, p)' => Out(n, p) \/ (p = last /\ m.node = n /\ m.message \in Leaving)
  BY <1>2, <1>3 DEF In, Out
<1>6. ASSUME StaysIn(n), ~(m.node = n /\ m.message \in Leaving), NEW p \in Nat, NEW q \in Nat, p < q,
             In(n, p)', Out(n, q)'
      PROVE  FALSE
  <2>1. Out(n, q) /\ q < last
    BY <1>5, <1>6
  <2>2. p # last
    BY <1>4, <1>6, <2>1
  <2>. QED BY <1>5, <1>6, <2>1, <2>2 DEF StaysIn
<1>7. ASSUME StaysOut(n), ~(m.node = n /\ m.message = "enable"), NEW p \in Nat, NEW q \in Nat, p < q,
             Out(n, p)', In(n, q)'
      PROVE  FALSE
  <2>1. In(n, q) /\ q < last
    BY <1>5, <1>7
  <2>2. p # last
    BY <1>4, <1>7, <2>1
  <2>. QED BY <1>5, <1>7, <2>1, <2>2 DEF StaysOut
<1>8. ASSUME OnlyIn(n), ~(m.node = n /\ m.message \in Leaving), NEW p \in Nat PROVE ~Out(n, p)'
  BY <1>5, <1>8 DEF OnlyIn
<1>. QED BY <1>6, <1>7, <1>8 DEF StaysIn, StaysOut, OnlyIn

-----------------------------------------------------------------------------
(* The script of prepareMotors() *)

(* A transition is asked for once and looked for three times; a look that  *)
(* finds it goes to the end.                                               *)
LEMMA TransitionItems ==
  ASSUME NEW n \in Node, NEW m \in {"shutdown", "enable"}, NEW s \in ControllerState
  PROVE  LET t == requestStateTransition(n, m, s)
         IN  /\ t \in Seq(Step) /\ Len(t) = 9
             /\ \A j \in 1..9 : /\ t[j].message \in {m, "status", "statusAgain", "look", "lastLook"}
                                /\ t[j].message \in {"look", "lastLook"} => t[j].arg = s /\ j + 1 + t[j].skip = 10
             /\ t[9].message = "lastLook"
<1>1. /\ Item(n, m) \in Step /\ Item(n, m).message = m
      /\ Item(n, "status") \in Step /\ Item(n, "status").message = "status"
      /\ Item(n, "statusAgain") \in Step /\ Item(n, "statusAgain").message = "statusAgain"
  BY DEF Item, Step, Message, Unheeded, Aborting
<1>2. ASSUME NEW k \in {3, 6}
      PROVE  /\ Look(n, s, k) \in Step /\ Look(n, s, k).message = "look"
             /\ Look(n, s, k).arg = s /\ Look(n, s, k).skip = k
  <2>1. \A j \in Nat : Look(n, s, j) \in Step /\ Look(n, s, j).message = "look"
    BY DEF Look, Item, Step
  <2>2. Look(n, s, k).arg = s
    BY DEF Look, Item
  <2>3. Look(n, s, k).skip = k
    BY DEF Look, Item
  <2>. QED BY <2>1, <2>2, <2>3
<1>3. /\ LastLook(n, s) \in Step /\ LastLook(n, s).message = "lastLook"
      /\ LastLook(n, s).arg = s /\ LastLook(n, s).skip = 0
  BY DEF LastLook, Item, Step
<1>. DEFINE t == requestStateTransition(n, m, s)
<1>4. t \in Seq(Step) /\ Len(t) = 9
  BY <1>1, <1>2, <1>3 DEF requestStateTransition
<1>5. /\ t[1] = Item(n, m) /\ t[2] = Item(n, "status") /\ t[3] = Look(n, s, 6)
      /\ t[4] = Item(n, "statusAgain") /\ t[5] = Item(n, "status") /\ t[6] = Look(n, s, 3)
      /\ t[7] = Item(n, "statusAgain") /\ t[8] = Item(n, "status") /\ t[9] = LastLook(n, s)
  BY DEF requestStateTransition
<1>. HIDE DEF t
<1>6. ASSUME NEW j \in 1..9
      PROVE  /\ t[j].message \in {m, "status", "statusAgain", "look", "lastLook"}
             /\ t[j].message \in {"look", "lastLook"} => t[j].arg = s /\ j + 1 + t[j].skip = 10
  <2>1. CASE j \in {1, 4, 7}
    BY <1>1, <1>5, <2>1
  <2>2. CASE j \in {2, 5, 8}
    BY <1>1, <1>5, <2>2
  <2>3. CASE j = 3
    BY <1>2, <1>5, <2>3
  <2>4. CASE j = 6
    BY <1>2, <1>5, <2>4
  <2>5. CASE j = 9
    BY <1>3, <1>5, <2>5
  <2>. QED BY <2>1, <2>2, <2>3, <2>4, <2>5
<1>. QED BY <1>3, <1>4, <1>5, <1>6 DEF t

(* Up to the 13th item the drive is to become ready, then to operate; a    *)
(* look that finds its state goes to the 14th, or to the end.              *)
Looks == {"look", "lastLook"}

LEMMA ConcatItems ==
  ASSUME NEW t \in Seq(Step), NEW u \in Seq(Step)
  PROVE  /\ t \o u \in Seq(Step) /\ Len(t \o u) = Len(t) + Len(u)
         /\ \A i \in 1..Len(t) : (t \o u)[i] = t[i]
         /\ \A i \in 1..Len(u) : (t \o u)[Len(t) + i] = u[i]
<1>1. Len(t) \in Nat /\ Len(u) \in Nat
  BY LenProperties
<1>2. /\ t \o u \in Seq(Step) /\ Len(t \o u) = Len(t) + Len(u)
      /\ \A i \in 1..Len(t) + Len(u) : (t \o u)[i] = IF i <= Len(t) THEN t[i] ELSE u[i - Len(t)]
  BY ConcatProperties
<1>3. ASSUME NEW i \in 1..Len(u) PROVE (t \o u)[Len(t) + i] = u[i]
  <2>1. Len(t) + i \in 1..Len(t) + Len(u) /\ ~(Len(t) + i <= Len(t)) /\ (Len(t) + i) - Len(t) = i
    BY <1>1
  <2>. QED BY <1>2, <2>1, Zenon
<1>4. ASSUME NEW i \in 1..Len(t) PROVE (t \o u)[i] = t[i]
  <2>1. i \in 1..Len(t) + Len(u) /\ i <= Len(t)
    BY <1>1
  <2>. QED BY <1>2, <2>1, Zenon
<1>. QED BY <1>2, <1>3, <1>4

(* What is asked for in both parts of a script t: states s, by messages m. *)
AsksFor(t, m, s, from) ==
  \A j \in 1..9 : /\ t[from + j].message \in {m, "status", "statusAgain"} \union Looks
                  /\ t[from + j].message \in Looks => t[from + j].arg = s /\ j + 1 + t[from + j].skip = 10

LEMMA PrepareItems ==
  ASSUME NEW n \in Node
  PROVE  LET s == Script("prepareMotors", n)
         IN  /\ s \in Seq(Step) /\ Len(s) = 22
             /\ \A i \in 1..4 : s[i].message \in {"operational", "mode", "velocity", "brake"}
             /\ AsksFor(s, "shutdown", "kReadyToSwitchOn", 4)
             /\ AsksFor(s, "enable", "kOperationEnabled", 13)
             /\ s[13].message = "lastLook" /\ s[22].message = "lastLook"
<1>. DEFINE first == << Item(n, "operational"), Item(n, "mode"), Item(n, "velocity"), Item(n, "brake") >>
            up    == requestStateTransition(n, "shutdown", "kReadyToSwitchOn")
            on    == requestStateTransition(n, "enable", "kOperationEnabled")
            half  == first \o up
            s     == half \o on
<1>1. /\ first \in Seq(Step) /\ Len(first) = 4
      /\ \A i \in 1..4 : first[i].message \in {"operational", "mode", "velocity", "brake"}
  BY DEF Item, Step, Message, Unheeded, Aborting
<1>2. /\ up \in Seq(Step) /\ Len(up) = 9 /\ up[9].message = "lastLook"
      /\ \A j \in 1..9 : /\ up[j].message \in {"shutdown", "status", "statusAgain"} \union Looks
                         /\ up[j].message \in Looks => up[j].arg = "kReadyToSwitchOn" /\ j + 1 + up[j].skip = 10
  BY TransitionItems DEF Looks, ControllerState
<1>3. /\ on \in Seq(Step) /\ Len(on) = 9 /\ on[9].message = "lastLook"
      /\ \A j \in 1..9 : /\ on[j].message \in {"enable", "status", "statusAgain"} \union Looks
                         /\ on[j].message \in Looks => on[j].arg = "kOperationEnabled" /\ j + 1 + on[j].skip = 10
  BY TransitionItems DEF Looks, ControllerState
<1>4. Script("prepareMotors", n) = s
  BY DEF Script, enterOperational
<1>. HIDE DEF first, up, on
<1>5. /\ half \in Seq(Step) /\ Len(half) = 13
      /\ \A i \in 1..4 : half[i] = first[i]
      /\ \A j \in 1..9 : half[4 + j] = up[j]
  <2>1. /\ half \in Seq(Step) /\ Len(half) = Len(first) + Len(up)
        /\ \A i \in 1..Len(first) : half[i] = first[i]
        /\ \A i \in 1..Len(up) : half[Len(first) + i] = up[i]
    BY <1>1, <1>2, ConcatItems, Zenon
  <2>. HIDE DEF half
  <2>. QED BY <1>1, <1>2, <2>1
<1>. HIDE DEF half
<1>6. /\ s \in Seq(Step) /\ Len(s) = 22
      /\ \A i \in 1..13 : s[i] = half[i]
      /\ \A j \in 1..9 : s[13 + j] = on[j]
  <2>1. /\ s \in Seq(Step) /\ Len(s) = Len(half) + Len(on)
        /\ \A i \in 1..Len(half) : s[i] = half[i]
        /\ \A i \in 1..Len(on) : s[Len(half) + i] = on[i]
    BY <1>3, <1>5, ConcatItems, Zenon
  <2>. HIDE DEF s
  <2>. QED BY <1>3, <1>5, <2>1
<1>. HIDE DEF s
<1>7. \A j \in 1..9 : s[4 + j] = up[j]
  <2>. TAKE j \in 1..9
  <2>1. 4 + j \in 1..13
    OBVIOUS
  <2>. QED BY <1>5, <1>6, <2>1
<1>8. \A i \in 1..4 : s[i] = first[i]
  <2>. TAKE i \in 1..4
  <2>1. i \in 1..13
    OBVIOUS
  <2>. QED BY <1>5, <1>6, <2>1
<1>9. s[13] = up[9] /\ s[22] = on[9]
  <2>1. s[4 + 9] = up[9] /\ s[13 + 9] = on[9]
    BY <1>6, <1>7
  <2>. QED BY <2>1
<1>10. AsksFor(s, "shutdown", "kReadyToSwitchOn", 4) /\ AsksFor(s, "enable", "kOperationEnabled", 13)
  <2>1. ASSUME NEW j \in 1..9
        PROVE  /\ s[4 + j].message \in {"shutdown", "status", "statusAgain"} \union Looks
               /\ s[4 + j].message \in Looks => s[4 + j].arg = "kReadyToSwitchOn" /\ j + 1 + s[4 + j].skip = 10
    <3>1. s[4 + j] = up[j]
      BY <1>7
    <3>. QED BY <1>2, <3>1, Zenon
  <2>2. ASSUME NEW j \in 1..9
        PROVE  /\ s[13 + j].message \in {"enable", "status", "statusAgain"} \union Looks
               /\ s[13 + j].message \in Looks => s[13 + j].arg = "kOperationEnabled" /\ j + 1 + s[13 + j].skip = 10
    <3>1. s[13 + j] = on[j]
      BY <1>6
    <3>. QED BY <1>3, <3>1, Zenon
  <2>. QED BY <2>1, <2>2, Zenon DEF AsksFor
<1>. QED BY <1>1, <1>2, <1>3, <1>4, <1>6, <1>8, <1>9, <1>10, Zenon

LEMMA PrepareScript ==
  ASSUME NEW n \in Node
  PROVE  LET s == Script("prepareMotors", n)
         IN  /\ Len(s) = 22
             /\ \A i \in 1..13 : /\ s[i].message # "enable"
                                 /\ s[i].message \in Looks => s[i].arg = "kReadyToSwitchOn" /\ i + 1 + s[i].skip = 14
             /\ \A i \in 14..22 : /\ s[i].message \in {"enable", "status", "statusAgain"} \union Looks
                                  /\ s[i].message \in Looks => s[i].arg = "kOperationEnabled" /\ i + 1 + s[i].skip = 23
             /\ s[13].message = "lastLook" /\ s[22].message = "lastLook"
<1>. DEFINE s == Script("prepareMotors", n)
<1>1. /\ s \in Seq(Step) /\ Len(s) = 22
      /\ \A i \in 1..4 : s[i].message \in {"operational", "mode", "velocity", "brake"}
      /\ AsksFor(s, "shutdown", "kReadyToSwitchOn", 4)
      /\ AsksFor(s, "enable", "kOperationEnabled", 13)
      /\ s[13].message = "lastLook" /\ s[22].message = "lastLook"
  BY PrepareItems
<1>. HIDE DEF s
<1>2. \A i \in 1..22 : s[i].skip \in Nat
  <2>1. \A i \in 1..22 : s[i] \in Step
    BY <1>1, ElementOfSeq, Zenon
  <2>. QED BY <2>1 DEF Step
<1>3. ASSUME NEW i \in 1..13
      PROVE  /\ s[i].message # "enable"
             /\ s[i].message \in Looks => s[i].arg = "kReadyToSwitchOn" /\ i + 1 + s[i].skip = 14
  <2>1. CASE i \in 1..4
    BY <1>1, <2>1 DEF Looks
  <2>2. CASE i \notin 1..4
    <3>. DEFINE j == i - 4
    <3>1. j \in 1..9 /\ 4 + j = i
      BY <2>2
    <3>. HIDE DEF j
    <3>2. /\ s[i].message \in {"shutdown", "status", "statusAgain"} \union Looks
          /\ s[i].message \in Looks => s[i].arg = "kReadyToSwitchOn" /\ j + 1 + s[i].skip = 10
      <4>1. /\ s[4 + j].message \in {"shutdown", "status", "statusAgain"} \union Looks
            /\ s[4 + j].message \in Looks => s[4 + j].arg = "kReadyToSwitchOn" /\ j + 1 + s[4 + j].skip = 10
        BY <1>1, <3>1, Zenon DEF AsksFor
      <4>. QED BY <3>1, <4>1, Zenon
    <3>3. s[i].skip \in Nat
      BY <1>2
    <3>4. j + 1 + s[i].skip = 10 => i + 1 + s[i].skip = 14
      BY <3>1, <3>3
    <3>. QED BY <3>2, <3>4 DEF Looks
  <2>. QED BY <2>1, <2>2
<1>4. ASSUME NEW i \in 14..22
      PROVE  /\ s[i].message \in {"enable", "status", "statusAgain"} \union Looks
             /\ s[i].message \in Looks => s[i].arg = "kOperationEnabled" /\ i + 1 + s[i].skip = 23
  <2>. DEFINE j == i - 13
  <2>1. j \in 1..9 /\ 13 + j = i
    OBVIOUS
  <2>. HIDE DEF j
  <2>2. /\ s[i].message \in {"enable", "status", "statusAgain"} \union Looks
        /\ s[i].message \in Looks => s[i].arg = "kOperationEnabled" /\ j + 1 + s[i].skip = 10
    <3>1. /\ s[13 + j].message \in {"enable", "status", "statusAgain"} \union Looks
          /\ s[13 + j].message \in Looks => s[13 + j].arg = "kOperationEnabled" /\ j + 1 + s[13 + j].skip = 10
      BY <1>1, <2>1, Zenon DEF AsksFor
    <3>. QED BY <2>1, <3>1, Zenon
  <2>3. s[i].skip \in Nat
    BY <1>2
  <2>4. j + 1 + s[i].skip = 10 => i + 1 + s[i].skip = 23
    BY <2>1, <2>3
  <2>. QED BY <2>2, <2>4
<1>. QED BY <1>1, <1>3, <1>4 DEF s

-----------------------------------------------------------------------------
(* Where a call of prepareMotors() goes                                     *)

(* The call goes on at its node, or leaves it.                             *)
LEMMA GoesAfter ==
  ASSUME CtlTypes, Left, NEW k \in Nat \ {0}
  PROVE  \/ After(k) = NextNode /\ at.step + k > Len(Script(call, at.node))
         \/ /\ After(k).node = at.node /\ After(k).step = at.step + k
            /\ at.step + k <= Len(Script(call, at.node))
<1>1. at \in [node : 1..(N + 1), step : Nat \ {0}] /\ at.node \in Node /\ call \in Call
  BY CurrentItem DEF CtlTypes, CallTypes
<1>2. Len(Script(call, at.node)) \in Nat /\ at.step + k \in Nat
  BY <1>1, ScriptItems, LenProperties
<1>3. CASE at.step + k <= Len(Script(call, at.node))
  <2>1. After(k) = [at EXCEPT !.step = at.step + k]
    BY <1>3 DEF After
  <2>. QED BY <1>1, <1>3, <2>1
<1>4. CASE ~(at.step + k <= Len(Script(call, at.node)))
  BY <1>2, <1>4 DEF After
<1>. QED BY <1>3, <1>4

LEMMA NextNodeIs == NextNode.node = at.node + 1 /\ NextNode.step = 1
BY DEF NextNode

(* The steps that take the caller on leave everything else as it is, but   *)
(* for what failed.                                                        *)
Onward == Answered \/ Timeout \/ LookAtState

LEMMA OnwardStays ==
  ASSUME CtlTypes, Onward
  PROVE  /\ Left /\ call' = call /\ UNCHANGED <<frame, requests, replies, drive>>
         /\ \A n \in Node : ctl'[n].state = ctl[n].state /\ (ctl[n].failed => ctl'[n].failed)
<1>1. Left /\ call' = call /\ UNCHANGED <<frame, requests, replies, drive>>
  BY DEF Onward, Answered, Timeout, LookAtState, busVars, CtlTypes, CallTypes
<1>2. PICK fails : ctl' = ctl \/ ctl' = [ctl EXCEPT ![at.node].failed = ctl[at.node].failed \/ fails]
  BY DEF Onward, Answered, Timeout, LookAtState
<1>3. ctl \in [Node -> Controller]
  BY DEF CtlTypes, MotorTypes
<1>4. ASSUME NEW n \in Node PROVE ctl'[n].state = ctl[n].state /\ (ctl[n].failed => ctl'[n].failed)
  <2>1. ctl[n] \in Controller
    BY <1>3
  <2>2. CASE ctl' = ctl
    BY <2>2
  <2>3. CASE ctl' = [ctl EXCEPT ![at.node].failed = ctl[at.node].failed \/ fails]
    BY <1>3, <2>1, <2>3 DEF Controller
  <2>. QED BY <1>2, <2>2, <2>3
<1>. QED BY <1>1, <1>4

(* Unless the controller fails, the call goes on to enable the drive only  *)
(* from a look that found it ready, and leaves it only after one that      *)
(* found it in operation.                                                  *)
LEMMA PrepareGoes ==
  ASSUME CtlTypes, Onward, call = "prepareMotors", ~ctl'[at.node].failed
  PROVE  \/ /\ at'.node = at.node
            /\ at.step >= 14 => at'.step >= 14
            /\ at'.step >= 14 /\ ~(at.step >= 14) => ctl[at.node].state = "kReadyToSwitchOn"
         \/ /\ at' = NextNode
            /\ at.step >= 14 /\ ctl[at.node].state = "kOperationEnabled"
<1>. DEFINE s == Script(call, at.node)
            i == at.step
<1>1. Left /\ at.node \in Node /\ i \in 1..Len(s) /\ Current = s[i]
  BY OnwardStays, CurrentItem DEF Current
<1>2. /\ Len(s) = 22
      /\ \A j \in 1..13 : s[j].message \in Looks => s[j].arg = "kReadyToSwitchOn" /\ j + 1 + s[j].skip = 14
      /\ \A j \in 14..22 : s[j].message \in Looks => s[j].arg = "kOperationEnabled" /\ j + 1 + s[j].skip = 23
      /\ s[13].message = "lastLook" /\ s[22].message = "lastLook"
  BY <1>1, PrepareScript
<1>. HIDE DEF s
<1>3. i \in 1..22 /\ (i \in 1..13 \/ i \in 14..22)
  BY <1>1, <1>2
<1>4. ctl \in [Node -> Controller] /\ ctl[at.node] \in Controller
  BY <1>1 DEF CtlTypes, MotorTypes
<1>5. Current.skip \in Nat
  BY <1>1, CurrentItem DEF ItemsOf, Step
<1>6. ASSUME at' = After(1), i # 13, i # 22
      PROVE  at'.node = at.node /\ at'.step = i + 1
  <2>1. i + 1 <= 22 /\ ~(i + 1 > 22)
    BY <1>3, <1>6
  <2>2. \/ After(1) = NextNode /\ i + 1 > Len(s)
        \/ After(1).node = at.node /\ After(1).step = i + 1
    BY <1>1, GoesAfter DEF s
  <2>. QED BY <1>2, <1>6, <2>1, <2>2
<1>7. CASE Answered \/ Timeout
  <2>1. Current.message \in Message
    BY <1>7 DEF Answered, Timeout, CtlTypes, CallTypes
  <2>2. i # 13 /\ i # 22
    BY <1>1, <1>2, <2>1 DEF Message, Aborting, Unheeded
  <2>3. at' = After(1)
    <3>1. CASE Answered
      BY <3>1 DEF Answered, Rest
    <3>2. CASE Timeout
      <4>1. PICK critical \in BOOLEAN : /\ ctl' = [ctl EXCEPT ![at.node].failed = ctl[at.node].failed \/ critical]
                                        /\ at' = Rest(ctl[at.node].failed \/ critical)
        BY <3>2 DEF Timeout
      <4>2. ctl'[at.node].failed = (ctl[at.node].failed \/ critical)
        BY <1>1, <1>4, <4>1 DEF Controller
      <4>. QED BY <4>1, <4>2 DEF Rest
    <3>. QED BY <1>7, <3>1, <3>2
  <2>4. at'.node = at.node /\ at'.step = i + 1
    BY <1>6, <2>2, <2>3
  <2>5. (i >= 14 => i + 1 >= 14) /\ (i + 1 >= 14 => i >= 14)
    BY <1>3, <2>2
  <2>. QED BY <2>4, <2>5
<1>8. CASE LookAtState
  <2>1. Current.message \in Looks
    <3>1. Current.message \notin Message
      BY <1>8 DEF LookAtState, Sends
    <3>. QED BY <1>1, <3>1, CurrentItem DEF ItemsOf, Step, Looks
  <2>2. CASE Reached
    <3>1. at' = After(1 + Current.skip)
      BY <1>8, <2>2 DEF LookAtState
    <3>2. 1 + Current.skip \in Nat \ {0}
      BY <1>5
    <3>3. CASE i \in 1..13
      <4>1. Current.arg = "kReadyToSwitchOn" /\ i + 1 + Current.skip = 14
        BY <1>1, <1>2, <2>1, <3>3
      <4>2. i + (1 + Current.skip) = 14 /\ ~(14 > 22) /\ 14 >= 14
        BY <1>5, <3>3, <4>1
      <4>3. at'.node = at.node /\ at'.step = 14
        BY <1>1, <1>2, <3>1, <3>2, <4>2, GoesAfter DEF s
      <4>4. ctl[at.node].state = "kReadyToSwitchOn"
        BY <2>2, <4>1 DEF Reached
      <4>. QED BY <4>2, <4>3, <4>4
    <3>4. CASE i \in 14..22
      <4>1. Current.arg = "kOperationEnabled" /\ i + 1 + Current.skip = 23
        BY <1>1, <1>2, <2>1, <3>4
      <4>2. i + (1 + Current.skip) = 23 /\ ~(23 <= 22) /\ i >= 14
        BY <1>5, <3>4, <4>1
      <4>3. at' = NextNode
        BY <1>1, <1>2, <3>1, <3>2, <4>2, GoesAfter DEF s
      <4>4. ctl[at.node].state = "kOperationEnabled"
        BY <2>2, <4>1 DEF Reached
      <4>. QED BY <4>2, <4>3, <4>4
    <3>. QED BY <1>3, <3>3, <3>4
  <2>3. CASE ~Reached
    <3>1. at' = After(1)
      BY <1>8, <2>3 DEF LookAtState
    <3>2. Current.message # "lastLook"
      <4>1. SUFFICES ASSUME Current.message = "lastLook" PROVE FALSE
        OBVIOUS
      <4>2. ctl' = [ctl EXCEPT ![at.node].failed = ctl[at.node].failed \/ TRUE]
        BY <1>8, <2>3, <4>1 DEF LookAtState
      <4>3. ctl'[at.node].failed
        BY <1>1, <1>4, <4>2 DEF Controller
      <4>. QED BY <4>3
    <3>3. i # 13 /\ i # 22
      BY <1>1, <1>2, <3>2
    <3>4. at'.node = at.node /\ at'.step = i + 1
      BY <1>6, <3>1, <3>3
    <3>5. (i >= 14 => i + 1 >= 14) /\ (i + 1 >= 14 => i >= 14)
      BY <1>3, <3>3
    <3>. QED BY <3>4, <3>5
  <2>. QED BY <2>2, <2>3
<1>. QED BY <1>7, <1>8 DEF Onward

-----------------------------------------------------------------------------
(* The invariant: while prepareMotors() enables a drive it does not leave  *)
(* operation, before and after that it does not enter it; a node that the  *)
(* call has left behind is in operation and is only told so.  It is so of  *)
(* every node that is neither known to have failed nor broken.             *)
Sound(n) == ~ctl[n].failed /\ ~drive[n].booted /\ drive[n].state # "kFault"

Rising(n) == call = "prepareMotors" /\ at.node = n /\ at.step >= 14

Prepared(n) ==
  /\ Rising(n) => StaysIn(n)
  /\ ~Rising(n) => StaysOut(n)
  /\ call = "prepareMotors" /\ n < at.node => OnlyIn(n)

PreparedSound == \A n \in Node : Sound(n) => Prepared(n)

(* Every step of the controllers, whoever calls.                           *)
AnyStep ==
  \/ \E c \in Call : Invoke(c)
  \/ Return \/ CallerStep \/ CanStep \/ DriveStep
  \/ UNCHANGED <<ctl, callVars, frame, requests, replies, drive>>

(* What is not sound stays so.                                             *)
LEMMA SoundBefore == ASSUME CtlTypes, AnyStep, NEW n \in Node, Sound(n)' PROVE Sound(n)
<1>0. ctl \in [Node -> Controller] /\ ctl[n] \in Controller /\ drive \in [Node -> Drive] /\ drive[n] \in Drive
  BY DEF CtlTypes, MotorTypes, BusTypes
<1>1. ctl[n].failed => ctl'[n].failed
  <2>1. CASE Onward
    BY <2>1, OnwardStays
  <2>2. CASE Arm
    BY <1>0, <2>2 DEF Arm, Controller
  <2>3. CASE Deliver
    <3>1. ctl' = ctl \/ \E m : ctl' = [ctl EXCEPT ![m].sending = FALSE]
      BY <2>3 DEF Deliver
    <3>. QED BY <1>0, <3>1 DEF Controller
  <2>4. CASE Process
    <3>1. ctl' = [ctl EXCEPT ![frame.node] = Stored(ctl[frame.node], frame)]
      BY <2>4 DEF Process
    <3>2. ctl[n].failed => Stored(ctl[n], frame).failed
      BY <1>0 DEF Stored, Controller
    <3>. QED BY <1>0, <3>1, <3>2
  <2>5. CASE ctl' = ctl
    BY <2>5
  <2>6. Onward \/ Arm \/ Deliver \/ Process \/ ctl' = ctl
    BY DEF AnyStep, Invoke, Return, CallerStep, Onward, Send, CanStep, DriveStep,
           Answer, Emergency, FallSilent, Heat, Restart, Breaks
  <2>. QED BY <2>1, <2>2, <2>3, <2>4, <2>5, <2>6
<1>2. (drive[n].booted => drive'[n].booted) /\ (drive[n].state = "kFault" => drive'[n].state = "kFault" \/ drive'[n].booted)
  <2>1. CASE Answer
    <3>1. PICK h : drive' = drive \/ drive' = [drive EXCEPT ![h.node] = DriveAfter(drive[h.node], h)]
      BY <2>1 DEF Answer
    <3>2. /\ DriveAfter(drive[n], h).booted = drive[n].booted
          /\ drive[n].state = "kFault" => DriveAfter(drive[n], h).state = "kFault"
      BY <1>0 DEF DriveAfter, Drive
    <3>. QED BY <1>0, <3>1, <3>2
  <2>2. ASSUME NEW k \in Node, Emergency(k) \/ FallSilent(k) \/ Heat(k)
        PROVE  drive'[n].booted = drive[n].booted /\ (drive[n].state = "kFault" => drive'[n].state = "kFault")
    BY <1>0, <2>2 DEF Emergency, FallSilent, Heat, Drive
  <2>3. ASSUME NEW k \in Node, Restart(k)
        PROVE  drive'[n] = drive[n] \/ drive'[n].booted
    BY <1>0, <2>3 DEF Restart, NewDrive
  <2>4. CASE drive' = drive
    BY <2>4
  <2>5. DriveStep \/ drive' = drive
    BY OnwardStays DEF AnyStep, Invoke, Return, busVars, CallerStep, Onward, Send, Arm, CanStep, Deliver, Process
  <2>. QED BY <2>1, <2>2, <2>3, <2>4, <2>5 DEF DriveStep
<1>. QED BY <1>1, <1>2 DEF Sound

LEMMA PreparedStays ==
  ASSUME UNCHANGED <<call, at>>, NEW n, Prepared(n),
         StaysIn(n) => StaysIn(n)', StaysOut(n) => StaysOut(n)', OnlyIn(n) => OnlyIn(n)'
  PROVE  Prepared(n)'
BY DEF Prepared, Rising

(* The caller goes on.                                                     *)
LEMMA PreparedOnward ==
  ASSUME CtlTypes, Onward, NEW n \in Node, Sound(n)', Prepared(n)
  PROVE  Prepared(n)'
<1>1. /\ Left /\ call' = call
      /\ StaysIn(n)' <=> StaysIn(n)
      /\ StaysOut(n)' <=> StaysOut(n)
      /\ OnlyIn(n)' <=> OnlyIn(n)
  BY OnwardStays, StandsStill
<1>2. n \in Nat /\ at.node \in Nat
  BY <1>1, CurrentItem, NAssumption DEF Node
<1>3. CASE call # "prepareMotors"
  BY <1>1, <1>3 DEF Prepared, Rising
<1>4. CASE call = "prepareMotors" /\ n # at.node
  <2>1. \/ at'.node = at.node
        \/ at'.node = at.node + 1 /\ at'.step = 1
    <3>1. Current.skip \in Nat
      BY <1>1, CurrentItem DEF ItemsOf, Step
    <3>2. PICK k \in Nat \ {0} : at' \in {NextNode, After(k)}
      BY <3>1 DEF Onward, Answered, Timeout, LookAtState, Rest
    <3>. QED BY <1>1, <3>2, GoesAfter, NextNodeIs
  <2>2. ~Rising(n) /\ ~Rising(n)'
    BY <1>2, <1>4, <2>1 DEF Rising
  <2>3. n < at'.node => n < at.node
    BY <1>2, <1>4, <2>1
  <2>. QED BY <1>1, <1>4, <2>2, <2>3 DEF Prepared
<1>5. CASE call = "prepareMotors" /\ n = at.node
  <2>0. ~ctl'[at.node].failed
    BY <1>5 DEF Sound
  <2>1. CASE /\ at'.node = at.node
             /\ at.step >= 14 => at'.step >= 14
             /\ at'.step >= 14 /\ ~(at.step >= 14) => ctl[at.node].state = "kReadyToSwitchOn"
    <3>1. ~(n < at'.node)
      BY <1>2, <1>5, <2>1
    <3>2. CASE Rising(n)
      BY <1>1, <1>5, <2>1, <3>1, <3>2 DEF Prepared, Rising
    <3>3. CASE ~Rising(n) /\ ~Rising(n)'
      BY <1>1, <3>1, <3>3 DEF Prepared
    <3>4. CASE ~Rising(n) /\ Rising(n)'
      <4>1. ctl[n].state = "kReadyToSwitchOn"
        BY <1>1, <1>5, <2>1, <3>4 DEF Rising
      <4>2. Out(n, 0)
        BY <4>1, Known DEF Out, Others, Operating, ControllerState
      <4>3. StaysOut(n)
        BY <3>4 DEF Prepared
      <4>4. \A p \in Nat : ~In(n, p)
        <5>. TAKE p \in Nat
        <5>1. p = 0 \/ 0 < p
          OBVIOUS
        <5>. QED BY <4>2, <4>3, <5>1, OneOrTheOther DEF StaysOut
      <4>5. StaysIn(n)
        BY <4>4 DEF StaysIn
      <4>. QED BY <1>1, <3>1, <3>4, <4>5 DEF Prepared
    <3>. QED BY <3>2, <3>3, <3>4
  <2>2. CASE /\ at' = NextNode
             /\ at.step >= 14 /\ ctl[at.node].state = "kOperationEnabled"
    <3>1. In(n, 0)
      BY <1>5, <2>2, Known DEF In, Operating
    <3>2. StaysIn(n)
      BY <1>5, <2>2 DEF Prepared, Rising
    <3>3. OnlyIn(n)
      <4>. SUFFICES ASSUME NEW p \in Nat PROVE ~Out(n, p)
        BY DEF OnlyIn
      <4>1. p = 0 \/ 0 < p
        OBVIOUS
      <4>. QED BY <3>1, <3>2, <4>1, OneOrTheOther DEF StaysIn
    <3>4. StaysOut(n)
      BY <3>3 DEF OnlyIn, StaysOut
    <3>5. ~Rising(n)'
      BY <1>2, <1>5, <2>2, NextNodeIs DEF Rising
    <3>. QED BY <1>1, <3>3, <3>4, <3>5 DEF Prepared
  <2>. QED BY <1>5, <2>0, <2>1, <2>2, PrepareGoes
<1>. QED BY <1>3, <1>4, <1>5

(* Nothing is sent that would undo what is prepared.                       *)
LEMMA PreparedSend ==
  ASSUME CtlTypes, CtlTypes', Send, NEW n \in Node, Prepared(n)
  PROVE  Prepared(n)'
<1>0. UNCHANGED <<ctl, call, at, frame, replies, drive>> /\ Left /\ Current.message \in Message
  BY DEF Send, Sends
<1>1. CASE requests' = requests
  BY <1>0, <1>1, StandsStill, PreparedStays
<1>2. CASE requests' = Append(requests, Current)
  <2>1. at.node \in Node /\ Current \in ItemsOf(call, at.node) /\ at.step \in 1..Len(Script(call, at.node))
    BY <1>0, CurrentItem
  <2>2. Current \in Request
    BY <1>0, <2>1 DEF ItemsOf, Request
  <2>3. Current.node = at.node /\ (Current.message = "enable" => call = "prepareMotors")
    BY <2>1 DEF ItemsOf
  <2>4. CASE Rising(n)
    <3>1. Current = Script(call, at.node)[at.step] /\ at.step \in 14..22
      <4>1. at.step \in 1..22 /\ at.step >= 14
        BY <2>1, <2>4, PrepareScript DEF Rising
      <4>2. at.step \in 14..22
        BY <4>1
      <4>. QED BY <4>2 DEF Current
    <3>2. Current.message \in {"enable", "status", "statusAgain"} \union Looks
      BY <2>1, <2>4, <3>1, PrepareScript DEF Rising
    <3>3. Current.message \notin Leaving
      BY <3>2 DEF Leaving, Looks
    <3>4. StaysIn(n)'
      BY <1>0, <1>2, <2>2, <2>4, <3>3, SentMoves DEF Prepared
    <3>5. Rising(n)' /\ ~(n < at'.node)
      BY <1>0, <2>4 DEF Rising, Node
    <3>. QED BY <3>4, <3>5 DEF Prepared
  <2>5. CASE ~Rising(n)
    <3>1. ASSUME Current.node = n, Current.message = "enable" PROVE FALSE
      <4>1. call = "prepareMotors" /\ at.node = n /\ ~(at.step >= 14)
        BY <2>3, <2>5, <3>1 DEF Rising
      <4>2. Current = Script("prepareMotors", n)[at.step] /\ at.step \in 1..22
        BY <2>1, <4>1, PrepareScript DEF Current
      <4>3. at.step \in 1..13
        BY <4>1, <4>2
      <4>. QED BY <3>1, <4>2, <4>3, PrepareScript
    <3>2. StaysOut(n)'
      BY <1>0, <1>2, <2>2, <2>5, <3>1, SentMoves DEF Prepared
    <3>3. ~Rising(n)'
      BY <1>0, <2>5 DEF Rising
    <3>4. call' = "prepareMotors" /\ n < at'.node => OnlyIn(n)'
      <4>. SUFFICES ASSUME call = "prepareMotors", n < at.node PROVE OnlyIn(n)'
        BY <1>0
      <4>1. Current.node # n
        BY <2>1, <2>3 DEF Node
      <4>. QED BY <1>0, <1>2, <2>2, <4>1, SentMoves DEF Prepared
    <3>. QED BY <3>2, <3>3, <3>4 DEF Prepared
  <2>. QED BY <2>4, <2>5
<1>. QED BY <1>1, <1>2 DEF Send

(* A drive that goes wrong is not sound, and the others do not change.     *)
LEMMA PreparedBreaks ==
  ASSUME CtlTypes, CtlTypes', NEW k \in Node, Emergency(k) \/ FallSilent(k) \/ Heat(k) \/ Restart(k),
         NEW n \in Node, Sound(n)', Prepared(n)
  PROVE  Prepared(n)'
<1>0. UNCHANGED <<ctl, call, at, frame, requests>> /\ drive \in [Node -> Drive]
  BY DEF Emergency, FallSilent, Heat, Restart, Breaks, callVars, CtlTypes, BusTypes
<1>1. CASE FallSilent(k) \/ Heat(k)
  <2>1. drive'[n].state = drive[n].state /\ replies' = replies
    BY <1>0, <1>1 DEF FallSilent, Heat, Drive
  <2>. QED BY <1>0, <2>1, StandsStill, PreparedStays
<1>2. CASE Emergency(k) \/ Restart(k)
  <2>1. n # k
    BY <1>0, <1>2 DEF Emergency, Restart, Sound, Drive, NewDrive
  <2>2. drive'[n].state = drive[n].state
    BY <1>0, <1>2, <2>1 DEF Emergency, Restart
  <2>3. PICK a \in Reply : replies' = Append(replies, a) /\ a.about # "status"
    BY <1>2 DEF Emergency, Restart, Frame, Reply
  <2>4. \E f : Moves(n, f)
    BY <1>0, <2>2, <2>3, BreakMoves
  <2>. QED BY <1>0, <2>4, MovedOn, PreparedStays
<1>. QED BY <1>1, <1>2

LEMMA PreparedStep == ASSUME CtlTypes, CtlTypes', PreparedSound, AnyStep PROVE PreparedSound'
<1>. SUFFICES ASSUME NEW n \in Node, Sound(n)' PROVE Prepared(n)'
  BY DEF PreparedSound
<1>0. Prepared(n)
  BY SoundBefore DEF PreparedSound
<1>1. ASSUME NEW c \in Call, Invoke(c) PROVE Prepared(n)'
  <2>1. StaysOut(n)
    BY <1>0, <1>1 DEF Prepared, Rising, Invoke
  <2>2. StaysOut(n)'
    BY <1>1, <2>1, StandsStill DEF Invoke, busVars
  <2>3. ~Rising(n)' /\ ~(n < at'.node)
    BY <1>1 DEF Rising, Invoke, Node
  <2>. QED BY <2>2, <2>3 DEF Prepared
<1>2. CASE Return
  <2>1. StaysOut(n)
    BY <1>0, <1>2 DEF Prepared, Rising, Return, Done, Left, Node
  <2>2. StaysOut(n)' /\ call' = "none"
    BY <1>2, <2>1, StandsStill DEF Return, busVars
  <2>. QED BY <2>2 DEF Prepared, Rising
<1>3. CASE CallerStep
  <2>1. CASE Arm
    <3>1. ctl'[n].state = ctl[n].state
      BY <2>1 DEF Arm, CtlTypes, MotorTypes, Controller
    <3>. QED BY <1>0, <2>1, <3>1, StandsStill, PreparedStays DEF Arm, busVars
  <2>. QED BY <1>0, <1>3, <2>1, PreparedSend, PreparedOnward DEF CallerStep, Onward
<1>4. CASE CanStep
  BY <1>0, <1>4, DeliverMoves, ProcessMoves, MovedOn, PreparedStays DEF CanStep, Deliver, Process, callVars
<1>5. CASE DriveStep
  <2>1. CASE Answer
    BY <1>0, <2>1, AnswerMoves, MovedOn, PreparedStays DEF Answer, callVars
  <2>. QED BY <1>0, <1>5, <2>1, PreparedBreaks DEF DriveStep
<1>6. CASE UNCHANGED <<ctl, callVars, frame, requests, replies, drive>>
  BY <1>0, <1>6, StandsStill, PreparedStays DEF callVars
<1>. QED BY <1>1, <1>2, <1>3, <1>4, <1>5, <1>6 DEF AnyStep

LEMMA PreparedInit == ASSUME CtlInit PROVE PreparedSound
<1>. SUFFICES ASSUME NEW n \in Node PROVE Prepared(n)
  BY DEF PreparedSound
<1>1. /\ ctl[n].state \notin Operating /\ drive[n].state \notin Operating
      /\ replies = <<>> /\ requests = <<>> /\ frame = NoFrame /\ call = "none"
  BY DEF CtlInit, NewDrive, Operating
<1>2. \A p \in Nat : ~In(n, p)
  BY <1>1 DEF In, At, Tells, NoFrame, Frame
<1>. QED BY <1>1, <1>2 DEF Prepared, Rising, StaysOut

(* The call returns to a drive that is in operation.                       *)
LEMMA PreparedReturn ==
  ASSUME CtlTypes, PreparedSound, AnyStep, call = "prepareMotors", call' = "none", NEW n \in Node
  PROVE  ctl[n].failed \/ drive[n].booted \/ drive[n].state \in {"kOperationEnabled", "kFault"}
<1>1. Return
  BY OnwardStays DEF AnyStep, Invoke, callVars, Call, CallerStep, Onward, Send, Arm, CanStep, Deliver, Process,
                     DriveStep, Answer, Emergency, FallSilent, Heat, Restart, Breaks
<1>2. n < at.node
  <2>1. at.node \in 1..(N + 1) /\ ~(at.node <= N)
    BY <1>1 DEF Return, Done, Left, CtlTypes, CallTypes
  <2>. QED BY <2>1, NAssumption DEF Node
<1>. SUFFICES ASSUME Sound(n) PROVE drive[n].state = "kOperationEnabled"
  BY DEF Sound
<1>3. OnlyIn(n)
  BY <1>2 DEF PreparedSound, Prepared
<1>4. Len(replies) + 2 \in Nat
  BY Positions
<1>5. drive[n].state \notin Others
  BY <1>3, <1>4, Known DEF OnlyIn, Out
<1>6. drive[n].state \in ControllerState
  BY DEF CtlTypes, BusTypes, Drive
<1>. QED BY <1>5, <1>6 DEF Others, Operating

(* When prepareMotors() returns, each controller has failed, or its drive  *)
(* is in operation, or has broken since: a status that was under way       *)
(* before the command, or is asked for again by what should repeat it, is  *)
(* not taken for the state that was asked for, because messages and        *)
(* answers keep their order and the call leaves a node only at a look that *)
(* found the drive in operation (controller.cpp:178-193).                  *)
THEOREM PreparedInOperation == CtlSpec => PreparedOrFailed
<1>1. CtlTypes /\ [CtlNext]_ctlrsVars => CtlTypes'
  BY InvokeTypes, ReturnTypes, CallerTypes, CanTypes, DriveTypes, CtlStays
     DEF CtlNext, CtlCall, CtlThreads
<1>2. [CtlNext]_ctlrsVars => AnyStep
  BY DEF CtlNext, CtlCall, CtlThreads, AnyStep, ctlrsVars, busVars
<1>3. CtlTypes /\ CtlTypes' /\ PreparedSound /\ [CtlNext]_ctlrsVars => PreparedSound'
  BY <1>2, PreparedStep
<1>4. CtlTypes /\ PreparedSound /\ [CtlNext]_ctlrsVars =>
        [ call = "prepareMotors" /\ call' = "none" =>
            \A n \in Node : \/ ctl[n].failed \/ drive[n].booted
                            \/ drive[n].state \in {"kOperationEnabled", "kFault"} ]_ctlrsVars
  BY <1>2, PreparedReturn
<1>. QED BY <1>1, <1>3, <1>4, CtlInitTypes, PreparedInit, PTL DEF CtlSpec, PreparedOrFailed

-----------------------------------------------------------------------------
(* What run() makes of it: the drives are never put into operation          *)

(* Motors that are initialised, and all that the thread does in its loop   *)
(* or after it, come after the first switch; and so does kReady, which is  *)
(* too late for a transition to be seen.                                   *)
TooLate ==
  /\ initialised \/ call # "none" \/ ppc \notin {"start", "copy", "switch", "exited"} => transitionSeen
  /\ call # "prepareMotors"

(* Nothing asks a drive to operate, and none does.                         *)
NoneEnabled ==
  /\ \A i \in DOMAIN requests : requests[i].message # "enable"
  /\ \A n \in Node : drive[n].state \notin Operating

LEMMA TooLateHolds == ASSUME Types, NotBefore, TooLate, [Next]_pvars PROVE TooLate'
<1>1. CASE MainStep
  <2>1. CASE Start \/ WriteBack \/ PublishReady \/ handleCriticalFailure
    BY <2>1 DEF Start, WriteBack, PublishReady, handleCriticalFailure, callVars, TooLate
  <2>2. CASE CopyMotors
    BY <2>2 DEF CopyMotors, ctlrsVars, callVars, TooLate
  <2>3. CASE Switch
    <3>1. transitionSeen' /\ call = "none"
      BY <2>3 DEF Switch, Types, Calling
    <3>2. podState = "kReady" => transitionSeen
      BY DEF NotBefore, Beyond, TooLate
    <3>. QED BY <2>3, <3>1, <3>2 DEF Switch, Goes, Calls, Invoke, ctlrsVars, callVars, TooLate, Waits, Thrusts, Stops, Ends
  <2>4. CASE Accelerate \/ Regulate
    BY <2>4 DEF Accelerate, Regulate, Goes, Calls, Invoke, ctlrsVars, callVars, TooLate
  <2>5. CASE \E overCurrent \in BOOLEAN : Resume(overCurrent)
    BY <2>5 DEF Resume, Return, TooLate
  <2>. QED BY <1>1, <2>1, <2>2, <2>3, <2>4, <2>5 DEF MainStep
<1>2. CASE ~MainStep
  <2>1. UNCHANGED <<initialised, call, ppc, transitionSeen>>
    BY <1>2 DEF Next, PropulsionThread, CanThread, Drives, Transition, StopSystem, CallerStep, Send, Arm, Answered,
                Timeout, LookAtState, CanStep, Deliver, Process, DriveStep, Answer, Emergency, FallSilent, Heat,
                Restart, Breaks, pvars, mainVars, ctlrsVars, callVars
  <2>. QED BY <2>1 DEF TooLate
<1>. QED BY <1>1, <1>2

LEMMA NoneEnabledHolds == ASSUME Types, TooLate, NoneEnabled, [Next]_pvars PROVE NoneEnabled'
<1>0. /\ CtlTypes
      /\ requests \in Seq(Request) /\ DOMAIN requests = 1..Len(requests) /\ Len(requests) \in Nat
      /\ drive \in [Node -> Drive]
  BY Positions DEF Types, CtlTypes, BusTypes
<1>1. CASE Send
  <2>1. Current.message # "enable"
    BY <1>0, <1>1, CurrentItem DEF Send, ItemsOf, TooLate
  <2>2. CASE requests' = Append(requests, Current)
    <3>1. \A i \in DOMAIN requests' : requests'[i] = Current \/ (i \in DOMAIN requests /\ requests'[i] = requests[i])
      <4>1. Current \in Request
        BY <1>0, <1>1, CurrentItem DEF Send, Sends, ItemsOf, Request
      <4>. QED BY <1>0, <2>2, <4>1, AppendProperties
    <3>. QED BY <1>1, <2>1, <3>1 DEF Send, NoneEnabled
  <2>. QED BY <1>1, <2>2 DEF Send, NoneEnabled
<1>2. CASE Answer
  <2>. DEFINE h == Head(requests)
  <2>1. /\ h = requests[1] /\ 1 \in DOMAIN requests /\ h \in Request
        /\ \A i \in DOMAIN Tail(requests) : i + 1 \in DOMAIN requests /\ Tail(requests)[i] = requests[i + 1]
    <3>1. requests # <<>>
      BY <1>2 DEF Answer
    <3>2. Len(requests) \in Nat \ {0}
      BY <1>0, <3>1, EmptySeq
    <3>3. /\ Tail(requests) \in Seq(Request) /\ Len(Tail(requests)) = Len(requests) - 1
          /\ \A i \in 1..(Len(requests) - 1) : Tail(requests)[i] = requests[i + 1]
          /\ h \in Request
      BY <1>0, <3>1, HeadTailProperties
    <3>4. DOMAIN Tail(requests) = 1..(Len(requests) - 1)
      BY <3>3, LenProperties
    <3>. QED BY <1>0, <3>2, <3>3, <3>4
  <2>2. h.message # "enable"
    BY <2>1 DEF NoneEnabled
  <2>. HIDE DEF h
  <2>3. requests' = Tail(requests) /\ (drive' = drive \/ drive' = [drive EXCEPT ![h.node] = DriveAfter(drive[h.node], h)])
    BY <1>2 DEF Answer, h
  <2>4. ASSUME NEW n \in Node PROVE drive'[n].state \notin Operating
    <3>1. drive[n] \in Drive /\ drive[n].state \notin Operating
      BY <1>0 DEF NoneEnabled
    <3>2. DriveAfter(drive[n], h).state \notin Operating
      BY <2>2, <3>1, DriveTurns
    <3>. QED BY <1>0, <2>3, <3>1, <3>2
  <2>5. \A i \in DOMAIN requests' : requests'[i].message # "enable"
    BY <2>1, <2>3 DEF NoneEnabled
  <2>. QED BY <2>4, <2>5 DEF NoneEnabled
<1>3. ASSUME NEW m \in Node, Emergency(m) \/ FallSilent(m) \/ Heat(m) \/ Restart(m) PROVE NoneEnabled'
  <2>1. requests' = requests
    BY <1>3 DEF Emergency, FallSilent, Heat, Restart, Breaks
  <2>2. \A n \in Node : drive'[n].state \in {drive[n].state, "kFault", "kNotReadyToSwitchOn"}
    BY <1>0, <1>3 DEF Emergency, FallSilent, Heat, Restart, NewDrive, Drive
  <2>. QED BY <2>1, <2>2 DEF NoneEnabled, Operating
<1>4. CASE UNCHANGED <<requests, drive>>
  BY <1>4 DEF NoneEnabled
<1>5. CASE MainStep
  BY <1>4, <1>5, MainActs DEF ctlrsVars, busVars, Invoke, Return
<1>. QED BY <1>1, <1>2, <1>3, <1>4, <1>5
         DEF Next, PropulsionThread, CanThread, Drives, Transition, StopSystem, CallerStep, Arm, Answered, Timeout,
             LookAtState, CanStep, Deliver, Process, DriveStep, pvars, ctlrsVars, busVars

(* run() never calls sendOperationalCommand(), so that no drive is ever in *)
(* operation, whatever the pod does: the comparison of handleTransition()  *)
(* is of members that the loop does not set, and kReady follows the first  *)
(* iteration (main.cpp:47-53, 67-69; main.hpp:31).                         *)
THEOREM NeverInOperation == Spec => [](call # "prepareMotors" /\ \A n \in Node : drive[n].state # "kOperationEnabled")
<1>1. Init => TooLate /\ NoneEnabled
  BY DEF Init, CtlInit, NewDrive, TooLate, NoneEnabled, Operating
<1>2. Types /\ NotBefore /\ TooLate /\ NoneEnabled /\ [Next]_pvars => TooLate' /\ NoneEnabled'
  BY TooLateHolds, NoneEnabledHolds
<1>3. TooLate /\ NoneEnabled => call # "prepareMotors" /\ \A n \in Node : drive[n].state # "kOperationEnabled"
  BY DEF TooLate, NoneEnabled, Operating
<1>. QED BY <1>1, <1>2, <1>3, TypesHold, SetUpHolds, PTL DEF Spec

=============================================================================
