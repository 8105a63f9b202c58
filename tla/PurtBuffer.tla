----------------------------- MODULE PurtBuffer -----------------------------
(***************************************************************************)
(* The buffered mode of PURT (lib/PURT/src/statedevice_buffer.c) on a      *)
(* device: the receive interrupt parses datagrams byte by byte and pushes  *)
(* message types on a three-slot queue; the main loop handles the head.    *)
(*                                                                         *)
(* A datagram of size N is N, type, N-2 message bytes, ~N.  Bytes range    *)
(* over 0..M, M = 255 on the device, so that ~b is M - b.  Of the 253-byte *)
(* buffer only the first two cells are ever read: the others are handed on *)
(* by address.  The interrupt routine runs with its own interrupt disabled *)
(* and is one step; the main loop is interrupted between any two stores.   *)
(***************************************************************************)
EXTENDS Integers, Sequences

CONSTANTS
  M,                \* the largest byte
  Input             \* the bytes that may arrive on the line

ASSUME MAssumption == M \in Nat /\ M >= 4
ASSUME InputAssumption == Input \subseteq 0 .. M

Byte == 0 .. M
Message == {"POLL", "SUBSTATE", "HANDSHAKE"}

VARIABLES
  queue,            \* three slots of message types
  rxEnabled,        \* the receive interrupt is enabled
  main,             \* where the main loop stands
  handling,         \* the message type it took from queue[0]
  bytesRemaining, size, type, drop,
  ptr,              \* offset of the next write into buffer
  buffer,           \* its first two cells
  substate,         \* what onSubstate() is given; key is an offset
  nulRun,           \* history: NULs received in a row, at most M
  owed              \* history: accepted messages no handler was started for

mainVars == <<queue, rxEnabled, main, handling>>
isrVars == <<bytesRemaining, size, type, drop, ptr, buffer, substate, nulRun>>
vars == <<mainVars, isrVars, owed>>

TypeOK ==
  /\ queue \in [0 .. 2 -> Message \cup {"NONE"}]
  /\ rxEnabled \in BOOLEAN
  /\ main \in {"loop", "disable", "shift0", "shift1", "shift2", "enable", "handler"}
  /\ handling \in Message \cup {"NONE"}
  /\ bytesRemaining \in Byte /\ size \in Byte /\ type \in Byte
  /\ drop \in BOOLEAN
  /\ ptr \in 0 .. (M - 2)
  /\ buffer \in [0 .. 1 -> Byte]
  /\ substate \in [keyLength : Byte, valueLength : Byte, key : Byte]
  /\ nulRun \in Byte
  /\ owed \in SUBSET Message

Init ==
  /\ queue = [i \in 0 .. 2 |-> "NONE"]
  /\ rxEnabled = TRUE
  /\ main = "loop"
  /\ handling = "NONE"
  /\ bytesRemaining = 0 /\ size = 0 /\ type = 0
  /\ drop = FALSE
  /\ ptr = 0
  /\ buffer = [i \in 0 .. 1 |-> 0]
  /\ substate = [keyLength |-> 0, valueLength |-> 0, key |-> 0]
  /\ nulRun = 0
  /\ owed = {}

-----------------------------------------------------------------------------
(***************************************************************************)
(* The message queue.                                                      *)
(***************************************************************************)
exists(t) == \E i \in 0 .. 2 : queue[i] = t

\* Defect: the queue does not look for a message that already waits.
Bug_push(t) ==
  queue' = IF queue[0] = "NONE" THEN [queue EXCEPT ![0] = t]
           ELSE IF queue[1] = "NONE" THEN [queue EXCEPT ![1] = t]
           ELSE [queue EXCEPT ![2] = t]

\* The first slot that is free or already holds t; the last one by default.
push(t) ==
  \E i \in 0 .. 2 :
    /\ i = 2 \/ queue[i] \in {"NONE", t}
    /\ \A j \in 0 .. (i - 1) : queue[j] \notin {"NONE", t}
    /\ queue' = [queue EXCEPT ![i] = t]

-----------------------------------------------------------------------------
(***************************************************************************)
(* The receive interrupt, one action per path through it.                  *)
(***************************************************************************)
Receive(b) ==
  /\ rxEnabled
  /\ nulRun' = IF b # 0 THEN 0 ELSE IF nulRun < M THEN nulRun + 1 ELSE M

MessageOf(t) ==
  CASE t = 0 -> "POLL"
    [] t = 1 -> "SUBSTATE"
    [] t = M -> "HANDSHAKE"
    [] OTHER -> "NONE"

\* Between datagrams 0 and 1 mean nothing.
Interstitial(b) ==
  /\ Receive(b)
  /\ bytesRemaining = 0 /\ b <= 1
  /\ UNCHANGED <<bytesRemaining, size, type, drop, ptr, buffer, substate>>
  /\ UNCHANGED <<mainVars, owed>>

SizeByte(b) ==
  /\ Receive(b)
  /\ bytesRemaining = 0 /\ b > 1
  /\ bytesRemaining' = b
  /\ size' = b
  /\ UNCHANGED <<type, drop, ptr, buffer, substate>>
  /\ UNCHANGED <<mainVars, owed>>

\* Defect: a substate is not dropped while the buffer is in use.
Bug_TypeByte_noDrop(b) ==
  /\ Receive(b)
  /\ bytesRemaining > 0 /\ bytesRemaining = size
  /\ type' = b
  /\ bytesRemaining' = IF b = 1 THEN bytesRemaining - 1 ELSE 1
  /\ UNCHANGED <<size, drop, ptr, buffer, substate, mainVars, owed>>

\* Defect: the length of every message is left to the next size byte.
Bug_TypeByte_forceSize(b) ==
  /\ Receive(b)
  /\ bytesRemaining > 0 /\ bytesRemaining = size
  /\ type' = b
  /\ bytesRemaining' = IF b = 1 THEN bytesRemaining - 1 ELSE size
  /\ drop' = IF b = 1 /\ exists("SUBSTATE") THEN TRUE ELSE drop
  /\ UNCHANGED <<size, ptr, buffer, substate, mainVars, owed>>

\* The second byte.  A substate must not overwrite one the main loop has not
\* finished with; any other message is taken to have no content.
TypeByte(b) ==
  /\ Receive(b)
  /\ bytesRemaining > 0 /\ bytesRemaining = size
  /\ type' = b
  /\ bytesRemaining' = IF b = 1 THEN bytesRemaining - 1 ELSE 1
  /\ drop' = IF b = 1 /\ exists("SUBSTATE") THEN TRUE ELSE drop
  /\ UNCHANGED <<size, ptr, buffer, substate>>
  /\ UNCHANGED <<mainVars, owed>>

Continuing == bytesRemaining > 0 /\ bytesRemaining # size

\* While drop is set nothing happens to a byte, the last one included.
DroppedByte(b) ==
  /\ Receive(b)
  /\ Continuing /\ drop
  /\ bytesRemaining' = bytesRemaining - 1
  /\ UNCHANGED <<size, type, drop, ptr, buffer, substate>>
  /\ UNCHANGED <<mainVars, owed>>

MessageByte(b) ==
  /\ Receive(b)
  /\ Continuing /\ ~drop /\ bytesRemaining > 1
  /\ bytesRemaining' = bytesRemaining - 1
  /\ buffer' = IF ptr \in 0 .. 1 THEN [buffer EXCEPT ![ptr] = b] ELSE buffer
  /\ ptr' = ptr + 1
  /\ UNCHANGED <<size, type, drop, substate>>
  /\ UNCHANGED <<mainVars, owed>>

\* An unsigned char holding a difference of two bytes, less one.
Wrap(x) == IF x < 0 THEN x + (M + 1) ELSE x

\* The slices of an intact substate.
Sliced ==
  [keyLength   |-> buffer[1],
   valueLength |-> Wrap(size - buffer[1] - 1),
   key         |-> 2]

\* Defect: the write offset survives into the next datagram.
Bug_LastByte(b) ==
  /\ Receive(b)
  /\ Continuing /\ ~drop /\ bytesRemaining = 1
  /\ bytesRemaining' = 0
  /\ IF b = M - size /\ MessageOf(type) # "NONE"
     THEN /\ push(MessageOf(type))
          /\ owed' = owed \cup {MessageOf(type)}
          /\ substate' = IF MessageOf(type) = "SUBSTATE" THEN Sliced ELSE substate
          /\ ptr' = 0
     ELSE UNCHANGED <<queue, owed, substate, ptr>>
  /\ drop' = FALSE
  /\ UNCHANGED <<size, type, buffer, rxEnabled, main, handling>>

\* The terminator: an intact message is queued, a damaged one is forgotten.
LastByte(b) ==
  /\ Receive(b)
  /\ Continuing /\ ~drop /\ bytesRemaining = 1
  /\ bytesRemaining' = 0
  /\ IF b = M - size /\ MessageOf(type) # "NONE"
     THEN /\ push(MessageOf(type))
          /\ owed' = owed \cup {MessageOf(type)}
          /\ substate' = IF MessageOf(type) = "SUBSTATE" THEN Sliced ELSE substate
     ELSE UNCHANGED <<queue, owed, substate>>
  /\ drop' = FALSE
  /\ ptr' = 0
  /\ UNCHANGED <<size, type, buffer, rxEnabled, main, handling>>

Interrupt ==
  \E b \in Input :
    \/ Interstitial(b) \/ SizeByte(b) \/ TypeByte(b)
    \/ DroppedByte(b) \/ MessageByte(b) \/ LastByte(b)

-----------------------------------------------------------------------------
(***************************************************************************)
(* purt_sd_buffer_process_message(), called for ever by the device.        *)
(***************************************************************************)
StartHandler(t) ==
  /\ main' = "handler"
  /\ owed' = owed \ {t}

\* The switch: POLL and HANDSHAKE leave the queue before their handler runs,
\* SUBSTATE after it, because the buffer belongs to it until then.
Look ==
  /\ main = "loop" /\ queue[0] # "NONE"
  /\ handling' = queue[0]
  /\ IF queue[0] = "SUBSTATE"
     THEN StartHandler("SUBSTATE")
     ELSE main' = "disable" /\ UNCHANGED owed
  /\ UNCHANGED <<queue, rxEnabled, isrVars>>

\* Defect: atomic_pop() that is not atomic.
Bug_DisableRx ==
  /\ main = "disable"
  /\ main' = "shift0"
  /\ UNCHANGED <<queue, rxEnabled, handling, isrVars, owed>>

DisableRx ==
  /\ main = "disable"
  /\ rxEnabled' = FALSE
  /\ main' = "shift0"
  /\ UNCHANGED <<queue, handling, isrVars, owed>>

Shift0 ==
  /\ main = "shift0"
  /\ queue' = [queue EXCEPT ![0] = queue[1]]
  /\ main' = "shift1"
  /\ UNCHANGED <<rxEnabled, handling, isrVars, owed>>

Shift1 ==
  /\ main = "shift1"
  /\ queue' = [queue EXCEPT ![1] = queue[2]]
  /\ main' = "shift2"
  /\ UNCHANGED <<rxEnabled, handling, isrVars, owed>>

Shift2 ==
  /\ main = "shift2"
  /\ queue' = [queue EXCEPT ![2] = "NONE"]
  /\ main' = "enable"
  /\ UNCHANGED <<rxEnabled, handling, isrVars, owed>>

EnableRx ==
  /\ main = "enable"
  /\ rxEnabled' = TRUE
  /\ IF handling = "SUBSTATE"
     THEN main' = "loop" /\ UNCHANGED owed
     ELSE StartHandler(handling)
  /\ UNCHANGED <<queue, handling, isrVars>>

\* Defect: a handled substate stays at the head of the queue.
Bug_HandlerReturns ==
  /\ main = "handler"
  /\ main' = "loop"
  /\ UNCHANGED <<queue, rxEnabled, handling, isrVars, owed>>

\* onPoll(), onSubstate() or the handshake reply and onHandshake() return.
HandlerReturns ==
  /\ main = "handler"
  /\ main' = IF handling = "SUBSTATE" THEN "disable" ELSE "loop"
  /\ UNCHANGED <<queue, rxEnabled, handling, isrVars, owed>>

MainLoop ==
  \/ Look \/ DisableRx \/ Shift0 \/ Shift1 \/ Shift2 \/ EnableRx
  \/ HandlerReturns

Next == Interrupt \/ MainLoop

Safety == Init /\ [][Next]_vars

(***************************************************************************)
(* The main loop calls process_message() for ever and its handlers return. *)
(* The line owes the device nothing.                                       *)
(***************************************************************************)
Spec == Safety /\ WF_vars(MainLoop)

-----------------------------------------------------------------------------
(***************************************************************************)
(* Properties.                                                             *)
(***************************************************************************)

\* Between pops the queue is a list without gaps or repetitions, and its head
\* is the message the main loop is working on (statedevice_buffer.c:24-50).
QueueIsUniqueList ==
  main \in {"loop", "disable", "handler"} =>
    /\ \A i, j \in 0 .. 2 : queue[i] = queue[j] /\ i # j => queue[i] = "NONE"
    /\ \A i \in 0 .. 1 : queue[i] = "NONE" => queue[i + 1] = "NONE"
    /\ main = "disable" => queue[0] = handling

\* No accepted message is lost: until its handler starts it is in the queue or
\* in the hands of the main loop that pops it, although the last of the three
\* slots is overwritten without a look (statedevice_buffer.c:34-46).
Popping(m) ==
  main \in {"disable", "shift0", "shift1", "shift2", "enable"} /\ handling = m

AcceptedIsQueued == \A m \in owed : exists(m) \/ Popping(m)

\* While a substate waits or is being handled, no byte from the line reaches
\* the buffer or the slices into it (statedevice_buffer.c:107-116).
BufferIsStable ==
  [][exists("SUBSTATE") /\ exists("SUBSTATE")' => UNCHANGED <<buffer, substate>>]_vars

\* M NULs in a row, which the server sends before a handshake, end any
\* datagram (ArdPort.cpp:45, statedevice_buffer.c:101-144).
NulRunEndsDatagram == nulRun = M => bytesRemaining = 0

\* The write offset leaves room for every byte still announced, so a write
\* never leaves the buffer (statedevice_buffer.c:95, 110-116, 141).
WritesFit ==
  Continuing /\ ~drop => ptr + bytesRemaining <= size - 1

\* Every message the interrupt accepted is eventually handled, whatever else
\* keeps arriving (statedevice_buffer.c:63-87, 120-137).
AcceptedIsHandled == \A m \in Message : (m \in owed) ~> (m \notin owed)

\* drop ignores only the datagram it was set for
\* (statedevice_buffer.c:99).
DropEndsWithDatagram == bytesRemaining = 0 => ~drop
=============================================================================
