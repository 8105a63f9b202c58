------------------------------ MODULE Compass ------------------------------
(***************************************************************************)
(* The compass board (avr/compass_gyro/main.c and ardlib/cmps03.c) on      *)
(* MiniURT: the serial interrupt takes the host's bytes apart and answers  *)
(* a handshake itself; the main loop reads the sensor over I2C with the    *)
(* functions that wait (see I2c), and looks whether it has been polled.    *)
(*                                                                         *)
(* The host (external) sends polls, handshakes and substates, and before a *)
(* handshake a run of NULs as long as the longest datagram; bytes get lost *)
(* on the way, and when the interrupt does not keep up.  The values of the *)
(* bearing and the turn, and the text of the answer, are left out.         *)
(***************************************************************************)
EXTENDS Integers, SequencesExt

CONSTANT ByteValues     \* of a byte, for 256

(* With 256 values, the complement of a poll's size starts a datagram that *)
(* ends one byte into another poll: polls alone never bring a receiver     *)
(* back in step.  A smaller alphabet keeps that if it is 1 modulo 3.       *)
ASSUME ByteAssumption == ByteValues \in Nat /\ ByteValues > 6 /\ ByteValues % 3 = 1

Complement(b) == ByteValues - 1 - b     \* ~b
Longest == ByteValues - 1               \* 255, 0xFF

Frame(kind) == CASE kind = "poll" -> <<2, 0, Complement(2)>>
                 [] kind = "handshake" -> <<2, Longest, Complement(2)>>
                 [] kind = "substate" -> <<3, 1, 0, Complement(3)>>
                 [] kind = "flush" -> [i \in 1 .. Longest |-> 0]

VARIABLES
  sending, left,    \* what the host is sending, and what is left of it
  line,             \* history: "lost" a byte, "flushing", or "flushed" since
  bytesRemaining, size, ptr, buffer0,   \* of the interrupt; buffer0: buffer[0]
  answering,        \* the interrupt is sending the answer to a handshake
  receivedPoll, temp,
  place, register,  \* where the main loop stands, the sensor's register it reads
  held,             \* an interrupt came since the STOP was written
  due               \* history: a poll is to be answered

hostVars == <<sending, left, line>>
isrState == <<bytesRemaining, size, ptr, buffer0, answering>>
loopVars == <<temp, place, register>>
compassVars == <<hostVars, isrState, receivedPoll, loopVars, held, due>>

CompassInit ==
  /\ sending = "flush" /\ left = <<>> /\ line = "lost"
  /\ bytesRemaining = 0 /\ size = 0 /\ ptr = 0 /\ buffer0 = 0 /\ answering = FALSE
  /\ receivedPoll = FALSE /\ temp = FALSE
  /\ place = "send" /\ register = 2
  /\ held = FALSE /\ due = FALSE

-----------------------------------------------------------------------------
(* The host and the line (external).                                       *)

HostBegins ==
  /\ left = <<>>
  /\ sending' \in {"poll", "handshake", "substate", "flush"}
  /\ left' = Frame(sending')
  /\ line' = IF sending' = "flush" /\ line = "lost" THEN "flushing" ELSE line
  /\ UNCHANGED <<isrState, receivedPoll, loopVars, held, due>>

(* The next byte is out; a frame sent is forgotten.                        *)
HostByte == /\ left # <<>> /\ left' = Tail(left)
            /\ sending' = IF left' = <<>> THEN "flush" ELSE sending

Lose ==
  /\ HostByte /\ line' = "lost"
  /\ UNCHANGED <<isrState, receivedPoll, loopVars, held, due>>

-----------------------------------------------------------------------------
(* ISR(USART_RX_vect), at once.  It masks itself, so that while it answers *)
(* the UART keeps a byte for later, and more than it holds are lost.       *)

Store(b) == buffer0' = IF ptr = 0 THEN b ELSE buffer0

(* Bug, for the mutants: the next datagram starts one byte too far.        *)
Bug_Complete(b) ==
  /\ IF size = Complement(b)
       THEN /\ receivedPoll' = (receivedPoll \/ buffer0' = 0)
            /\ answering' = (buffer0' = Longest)
       ELSE UNCHANGED <<receivedPoll, answering>>
  /\ ptr' = 1

Complete(b) ==
  /\ IF size = Complement(b)
       THEN /\ receivedPoll' = (receivedPoll \/ buffer0' = 0)
            /\ answering' = (buffer0' = Longest)
       ELSE UNCHANGED <<receivedPoll, answering>>
  /\ ptr' = 0

Continue(b) ==
  /\ Store(b)
  /\ bytesRemaining' = bytesRemaining - 1
  /\ IF bytesRemaining' = 0 THEN Complete(b)
                            ELSE ptr' = ptr + 1 /\ UNCHANGED <<receivedPoll, answering>>
  /\ UNCHANGED size

New(b) ==
  /\ IF b > 1 THEN bytesRemaining' = b /\ size' = b ELSE UNCHANGED <<bytesRemaining, size>>
  /\ UNCHANGED <<ptr, buffer0, receivedPoll, answering>>

Overlooked == place = "clear" /\ ~temp

Receive ==
  /\ HostByte /\ ~answering
  /\ LET b == Head(left) IN IF bytesRemaining > 0 THEN Continue(b) ELSE New(b)
  /\ line' = IF left' = <<>> /\ line = "flushing" THEN "flushed" ELSE line
  /\ due' = (due \/ (/\ left' = <<>> /\ sending = "poll" /\ line = "flushed"
                     /\ ~Overlooked))
  /\ held' = (place = "stop")
  /\ UNCHANGED loopVars

(* The five bytes are out.  onInit() and onIncoming() are empty.           *)
Answered ==
  /\ answering
  /\ answering' = FALSE
  /\ UNCHANGED <<hostVars, bytesRemaining, size, ptr, buffer0, receivedPoll,
                 loopVars, held, due>>

-----------------------------------------------------------------------------
(* The main loop.                                                          *)

Loop(p) == ~answering /\ place = p
Quietly == UNCHANGED <<hostVars, isrState>>

(* i2cMasterSendNI() up to its STOP.                                       *)
SendRegister ==
  /\ Loop("send") /\ place' = "stop" /\ held' = FALSE
  /\ Quietly /\ UNCHANGED <<receivedPoll, temp, register, due>>

(* while( !(TWCR & TWSTO) ): an interrupt outlasts the STOP, and the loop  *)
(* then never ends.  i2cMasterReceiveNI() has no such loop: the high byte, *)
(* then the low one, and the turn.                                         *)
SeeStop ==
  /\ Loop("stop") /\ held' = FALSE
  /\ \/ register = 2 /\ place' = "send" /\ register' = 3
     \/ register = 3 /\ place' = "look" /\ register' = 2
     \/ held /\ place' = "hung" /\ UNCHANGED register
  /\ Quietly /\ UNCHANGED <<receivedPoll, temp, due>>

(* polled() reads the flag, and then clears it.                            *)
ReadFlag ==
  /\ Loop("look") /\ place' = "clear" /\ temp' = receivedPoll
  /\ Quietly /\ UNCHANGED <<receivedPoll, register, held, due>>

ClearFlag ==
  /\ Loop("clear") /\ place' = IF temp THEN "onPoll" ELSE "send"
  /\ receivedPoll' = FALSE
  /\ Quietly /\ UNCHANGED <<temp, register, held, due>>

(* Both substates are sent.                                                *)
onPoll ==
  /\ Loop("onPoll") /\ place' = "send" /\ due' = FALSE /\ temp' = FALSE
  /\ Quietly /\ UNCHANGED <<receivedPoll, register, held>>

LoopStep == SendRegister \/ SeeStop \/ ReadFlag \/ ClearFlag \/ onPoll

CompassNext == HostBegins \/ Lose \/ Receive \/ Answered \/ LoopStep

(* The interrupt ends, and the processor takes a step of the program after *)
(* each.                                                                   *)
CompassFairness == /\ WF_compassVars(Answered) /\ SF_compassVars(LoopStep)

CompassSpec == CompassInit /\ [][CompassNext]_compassVars /\ CompassFairness

-----------------------------------------------------------------------------
(* Properties.                                                             *)

(* A poll that reaches the board whole, with nothing lost since a flush,   *)
(* is answered, whatever the receiver took the bytes before the flush for, *)
(* unless it comes between polled()'s look at the flag and its clearing,   *)
(* or the loop hangs on a STOP it did not see.                             *)
PollsAnswered == due ~> ~due \/ place = "hung"
=============================================================================
