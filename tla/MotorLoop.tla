------------------------------ MODULE MotorLoop ------------------------------
(***************************************************************************)
(* The server's single thread between the motor controller and a client:   *)
(* State::set() of a motor key calls the Ax3500's slot, which writes a     *)
(* command; onActivity() reads the answers; a StateSocket reads what the   *)
(* client sends.  A handler is one step, but a blocking read that finds    *)
(* too little keeps the thread: loop then says in which handler it is.     *)
(*                                                                         *)
(* send() returns when everything is written out (tcdrain), so that a      *)
(* command reaches the controller in the step that sends it.  The          *)
(* controller (external) answers in its own time, and stops the motors     *)
(* and says "W" when it hears nothing for SilenceLimit ticks.              *)
(***************************************************************************)
EXTENDS Ax3500

CONSTANTS
  Channel,          \* of LINEAR and STEERING, those in use
  Speeds,           \* what the autopilot and the dead man's switch set
  Texts,            \* what a client may set: numbers and text
  Unset,            \* the empty string
  BatteryWatched,   \* requestBatteryVoltage() is an interval slot (main.cpp:156-157)
  SilenceLimit,     \* one second, in intervals
  MaxPending,       \* bound on the requests under way
  MaxInbox          \* bound on what a client has sent in advance

ASSUME ChannelAssumption == Channel \subseteq {LINEAR, STEERING}
ASSUME SpeedAssumption == Speeds \subseteq -MAX_SPEED .. MAX_SPEED
ASSUME UnsetAssumption == Unset \notin Texts \cup Int
ASSUME BoundAssumption ==
  {SilenceLimit, MaxPending, MaxInbox} \subseteq Nat \ {0} /\ BatteryWatched \in BOOLEAN

VARIABLES
  loop,             \* "idle", the blocked handler, or "terminated"
  motors,           \* State, by the channel of the slot: for some reason they are reversed
  expectedResponses,
  fromMotor,        \* characters that arrived
  motorOut,         \* characters the controller is still to send
  speed,            \* of the motors
  silence,          \* since the controller heard anything
  port,             \* "ok", "gone" (the cable), "removed" (by the loop)
  conn,             \* a client is connected
  inbox,            \* what it sent: the size of a message, then the message
  closed,           \* it closed its end
  tripped           \* history: channels without a command since the controller's watchdog

motorVars == <<expectedResponses, fromMotor, motorOut, speed, silence, tripped>>
clientVars == <<conn, inbox, closed>>
vars == <<loop, motors, motorVars, port, clientVars>>

Size == [kind |-> "size"]
Messages == {[kind |-> "bad"], [kind |-> "get"]}
            \cup {[kind |-> "set", channel |-> c, value |-> v] : c \in Channel, v \in Texts}
Expectations == {"COMMAND", "RESET", "MAIN_BATT"}

\* The constructor has just sent reset().
Init ==
  /\ loop = "idle"
  /\ motors = [c \in Channel |-> Unset]
  /\ expectedResponses = <<"RESET">>
  /\ fromMotor = <<>> /\ motorOut = ControllerAnswer("RESET")
  /\ speed = [c \in Channel |-> 0] /\ silence = 0 /\ port = "ok"
  /\ conn = FALSE /\ inbox = <<>> /\ closed = FALSE
  /\ tripped = {}

-----------------------------------------------------------------------------
(* The motor keys.                                                         *)

Numeric(v) == v \in Int

\* A request is written, then its kind is pushed.
Request(kind) ==
  /\ expectedResponses' = Append(expectedResponses, kind)
  /\ motorOut' = motorOut \o ControllerAnswer(kind)
  /\ silence' = 0

Bug_setSpeed(c, v) ==
  IF Magnitude(v) \notin 1 .. MAX_SPEED THEN loop' = "idle" /\ UNCHANGED motorVars
  ELSE IF port = "gone" THEN loop' = "terminated" /\ UNCHANGED motorVars
  ELSE /\ Request("COMMAND")
       /\ speed' = [speed EXCEPT ![c] = CommandedSpeed(Command(c, v))]
       /\ tripped' = tripped \ {c}
       /\ loop' = "idle" /\ UNCHANGED fromMotor

\* The slot: an int that is no speed as a char is refused with a logic_error, which the slot
\* ignores.  send()'s SerialException is not in setSpeed()'s exception specification: it ends
\* the program before the slot could ignore it.
setSpeed(c, v) ==
  IF ~Accepted(v) THEN loop' = "idle" /\ UNCHANGED motorVars
  ELSE IF port = "gone" THEN loop' = "terminated" /\ UNCHANGED motorVars
  ELSE /\ Request("COMMAND")
       /\ speed' = [speed EXCEPT ![c] = CommandedSpeed(Command(c, v))]
       /\ tripped' = tripped \ {c}
       /\ loop' = "idle" /\ UNCHANGED fromMotor

\* State::set(): no signal without a change, no slot without the object, no text.
SetSubstate(c, v) ==
  /\ motors' = [motors EXCEPT ![c] = v]
  /\ IF v = motors[c] \/ port = "removed" \/ ~Numeric(v)
     THEN loop' = "idle" /\ UNCHANGED motorVars
     ELSE setSpeed(c, v)

Few == Len(expectedResponses) < MaxPending

\* An interval: resetWatchdog(), then the autopilot or the switch may set a speed.
\* Nothing catches what resetWatchdog() throws.
Interval ==
  /\ loop = "idle"
  /\ \/ /\ port = "gone"
        /\ loop' = "terminated" /\ UNCHANGED <<motors, motorVars>>
     \/ /\ port # "gone"
        /\ silence' = 0
        /\ UNCHANGED <<motors, expectedResponses, fromMotor, motorOut, speed, tripped, loop>>
     \/ /\ port # "gone" /\ Few
        /\ \E c \in Channel, v \in Speeds : SetSubstate(c, v)
  /\ UNCHANGED <<port, clientVars>>

requestBatteryVoltage ==
  /\ BatteryWatched /\ loop = "idle" /\ port = "ok" /\ Few
  /\ Request("MAIN_BATT")
  /\ UNCHANGED <<loop, motors, fromMotor, speed, tripped, port, clientVars>>

-----------------------------------------------------------------------------
(* Ax3500::onActivity().                                                   *)

Readable == port = "ok" /\ fromMotor # <<>>
InMotor == loop \in {"idle", "motor"}

\* Something comes although nothing was asked: "W" is answered, all else is the end of the
\* object, whose destructor resets the controller.
Unasked ==
  /\ loop = "idle" /\ Readable /\ expectedResponses = <<>>
  /\ IF Head(fromMotor) = "W"
     THEN fromMotor' = Tail(fromMotor) /\ silence' = 0 /\ UNCHANGED <<speed, port, motorOut>>
     ELSE /\ port' = "removed" /\ fromMotor' = <<>> /\ motorOut' = <<>>
          /\ speed' = [c \in Channel |-> 0] /\ silence' = 0
  /\ UNCHANGED <<loop, motors, expectedResponses, tripped, clientVars>>

\* The answer to the oldest request is read whole; until it has come the thread waits.
ReadAnswer ==
  /\ InMotor /\ Readable /\ expectedResponses # <<>>
  /\ LET kind == Head(expectedResponses) IN
     IF AllCame(kind, fromMotor)
     THEN /\ fromMotor' = SubSeq(fromMotor, Taken(kind, fromMotor) + 1, Len(fromMotor))
          /\ expectedResponses' = Tail(expectedResponses)
          /\ loop' = "idle"
     ELSE loop = "idle" /\ loop' = "motor" /\ UNCHANGED <<fromMotor, expectedResponses>>
  /\ UNCHANGED <<motors, motorOut, speed, silence, tripped, port, clientVars>>

\* read() fails: the SerialException leaves onActivity() and run().
ReadFails ==
  /\ InMotor /\ port = "gone"
  /\ loop' = "terminated"
  /\ UNCHANGED <<motors, motorVars, port, clientVars>>

-----------------------------------------------------------------------------
(* SocketServer and StateSocket::onActivity().                             *)

Accept ==
  /\ loop = "idle" /\ ~conn
  /\ conn' = TRUE /\ inbox' = <<>> /\ closed' = FALSE
  /\ UNCHANGED <<loop, motors, motorVars, port>>

InClient == loop \in {"idle", "client"} /\ conn

\* After a message the socket goes when the client has closed, unread messages or not;
\* sizes that do not fit, and a question that cannot be answered, throw.
StaysOk(message) == ~closed /\ message.kind # "bad"
Handled(message) ==
  /\ inbox' = IF StaysOk(message) THEN SubSeq(inbox, 3, Len(inbox)) ELSE <<>>
  /\ conn' = StaysOk(message)
  /\ UNCHANGED <<closed, port>>

HandleMessage ==
  /\ InClient /\ Len(inbox) >= 2
  /\ Handled(inbox[2])
  /\ IF inbox[2].kind = "set"
     THEN Few /\ SetSubstate(inbox[2].channel, inbox[2].value)
     ELSE loop' = "idle" /\ UNCHANGED <<motors, motorVars>>

\* Only a size has come: recv(MSG_WAITALL) waits for the rest, and with it the thread.
AwaitMessage ==
  /\ loop = "idle" /\ conn /\ Len(inbox) = 1 /\ ~closed
  /\ loop' = "client"
  /\ UNCHANGED <<motors, motorVars, port, clientVars>>

\* The end of the stream where bytes are wanted.
ClientEnds ==
  /\ InClient /\ closed /\ Len(inbox) < 2
  /\ conn' = FALSE /\ inbox' = <<>> /\ loop' = "idle"
  /\ UNCHANGED <<motors, motorVars, port, closed>>

-----------------------------------------------------------------------------
(* What happens to the thread: a device is plugged in, and its handshake   *)
(* (ArdLink) takes a while.  What happens outside: the client sends half a *)
(* message or closes, the controller answers, a cable is lost, time.       *)

Running == loop # "terminated"

Hotplug ==
  /\ loop = "idle" /\ loop' = "handshake"
  /\ UNCHANGED <<motors, motorVars, port, clientVars>>
HandshakeEnds ==
  /\ loop = "handshake" /\ loop' = "idle"
  /\ UNCHANGED <<motors, motorVars, port, clientVars>>

ClientSends ==
  /\ Running /\ conn /\ ~closed /\ Len(inbox) < MaxInbox
  /\ inbox' \in IF Len(inbox) % 2 = 0 THEN {Append(inbox, Size)}
                ELSE {Append(inbox, m) : m \in Messages}
  /\ UNCHANGED <<loop, motors, motorVars, port, conn, closed>>
ClientCloses ==
  /\ Running /\ conn /\ ~closed /\ closed' = TRUE
  /\ UNCHANGED <<loop, motors, motorVars, port, conn, inbox>>

MotorSends ==
  /\ Running /\ port = "ok" /\ motorOut # <<>>
  /\ \E n \in 1 .. Len(motorOut) :
        /\ fromMotor' = fromMotor \o SubSeq(motorOut, 1, n)
        /\ motorOut' = SubSeq(motorOut, n + 1, Len(motorOut))
  /\ UNCHANGED <<loop, motors, expectedResponses, speed, silence, tripped, port, clientVars>>

MotorTrips ==
  /\ Running /\ silence = SilenceLimit /\ port # "removed" /\ tripped # Channel
  /\ speed' = [c \in Channel |-> 0] /\ tripped' = Channel
  /\ motorOut' = Append(motorOut, "W")
  /\ UNCHANGED <<loop, motors, expectedResponses, fromMotor, silence, port, clientVars>>

Unplug ==
  /\ Running /\ port = "ok" /\ port' = "gone"
  /\ UNCHANGED <<loop, motors, motorVars, clientVars>>

\* An idle loop calls its interval slots in time.
Tick ==
  /\ Running /\ silence < IF loop = "idle" /\ port = "ok" THEN SilenceLimit - 1 ELSE SilenceLimit
  /\ silence' = silence + 1
  /\ UNCHANGED <<loop, motors, expectedResponses, fromMotor, motorOut, speed, tripped, port, clientVars>>

Motor == Unasked \/ ReadAnswer \/ ReadFails
Client == Accept \/ HandleMessage \/ AwaitMessage \/ ClientEnds
Next ==
  \/ Interval \/ requestBatteryVoltage \/ Motor \/ Client
  \/ Hotplug \/ HandshakeEnds \/ ClientSends \/ ClientCloses
  \/ MotorSends \/ MotorTrips \/ Unplug \/ Tick

\* The thread reads what it can, handshakes end (ArdLink), the controller answers.
Spec ==
  /\ Init /\ [][Next]_vars
  /\ WF_vars(Motor) /\ WF_vars(HandleMessage) /\ WF_vars(ClientEnds)
  /\ WF_vars(HandshakeEnds) /\ WF_vars(MotorSends)

TypeOK ==
  /\ loop \in {"idle", "motor", "client", "handshake", "terminated"}
  /\ motors \in [Channel -> Speeds \cup Texts \cup {Unset}]
  /\ expectedResponses \in Seq(Expectations)
  /\ {fromMotor, motorOut} \subseteq Seq({"0", "flag", CR, "W"})
  /\ speed \in [Channel -> -MAX_SPEED .. MAX_SPEED]
  /\ silence \in 0 .. SilenceLimit
  /\ port \in {"ok", "gone", "removed"}
  /\ inbox \in Seq({Size} \cup Messages)
  /\ tripped \subseteq Channel

(***************************************************************************)
(* Each motor turns as its key says, if that is a speed, whoever set it    *)
(* and whatever came between; unless the controller's watchdog stopped it: *)
(* a key that does not change is not sent again                            *)
(* (Ax3500.cpp:86-122, State::set()).                                      *)
(***************************************************************************)
FollowsState ==
  /\ TypeOK
  /\ \A c \in Channel :
       port = "ok" /\ c \notin tripped /\ motors[c] \in -MAX_SPEED .. MAX_SPEED =>
         speed[c] = motors[c]

(***************************************************************************)
(* The controller is not given up while it answers what it was asked, also *)
(* when its "W" comes in front of an answer (Ax3500.cpp:143-220).          *)
(***************************************************************************)
NotGivenUp == port # "removed"

(***************************************************************************)
(* The thread always comes back to the loop, unless the program ended or a *)
(* client keeps it with half a message (StateSocket.cpp:47).               *)
(***************************************************************************)
LoopNotStarved == []<>(loop \in {"idle", "terminated"}) \/ <>[](loop = "client")

(***************************************************************************)
(* "ignore errors" (Ax3500.cpp:112): an error while a speed is sent is     *)
(* ignored.                                                                *)
(***************************************************************************)
ErrorsIgnored == [][motors' # motors => loop' # "terminated"]_vars
=============================================================================
