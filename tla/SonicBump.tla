----------------------------- MODULE SonicBump -----------------------------
(***************************************************************************)
(* The sonar and bumper board (avr/sonicbump/sonicbump.c): two switches    *)
(* whose changes interrupt the program, and a main loop that takes the     *)
(* messages PURT's buffered mode queues (statedevice_buffer.c, here only   *)
(* its queue, see PurtBuffer).  Both talk on one serial line, and the      *)
(* board keeps their datagrams apart by masking the switches' interrupts.  *)
(*                                                                         *)
(* An interrupt that is due comes before the program's next step, INT0     *)
(* before INT1.  A datagram is two steps: its bytes, and its last one; one *)
(* that is not whole, for the other side spoke inside it, tells the host   *)
(* nothing.  The sonar's window (floating point) and substates from the    *)
(* host, which the board throws away, are left out.                        *)
(***************************************************************************)
EXTENDS Naturals, SequencesExt

CONSTANT MaxChanges     \* bound: how often the switches move before they rest

ASSUME ChangesAssumption == MaxChanges \in Nat

Switches == {"bumper", "deadman"}       \* INT0, INT1
Values == {"0", "1"}                    \* "1" is contact

VARIABLES
  pin,              \* PIND, as the value it stands for
  changes,          \* count, for MaxChanges
  flag,             \* EIFR: a change not yet served
  unmasked,         \* EIMSK
  isr, isrAt, isrValue, \* the interrupt being served, or "none"
  messages,         \* queue of those for the main loop
  at,               \* where the main loop stands
  reading,          \* what it reports
  whole,            \* no one spoke inside the datagram it is sending
  known             \* what the host knows of each switch

switchVars == <<pin, changes>>
edgeVars == <<isr, isrAt, isrValue>>
programVars == <<at, reading, whole>>
sonicVars == <<switchVars, flag, unmasked, edgeVars, messages, programVars, known>>

SonicInit ==
  /\ pin \in [Switches -> Values] /\ changes = 0
  /\ flag = [s \in Switches |-> FALSE] /\ unmasked = TRUE
  /\ isr = "none" /\ isrAt = "read" /\ isrValue = "0"
  /\ messages = <<>>
  /\ at = "loop" /\ reading = "0" /\ whole = TRUE
  /\ known = [s \in Switches |-> "unknown"]

(* A switch moves; any logical change sets its flag (external).            *)
Move(s) ==
  /\ changes < MaxChanges
  /\ pin' = [pin EXCEPT ![s] = IF @ = "0" THEN "1" ELSE "0"]
  /\ changes' = changes + 1
  /\ flag' = [flag EXCEPT ![s] = TRUE]
  /\ UNCHANGED <<unmasked, edgeVars, messages, programVars, known>>

(* push(): each type is queued once.                                       *)
pushMessage(t) ==
  /\ messages' = IF Contains(messages, t) THEN messages ELSE Append(messages, t)
  /\ UNCHANGED <<switchVars, flag, unmasked, edgeVars, programVars, known>>

-----------------------------------------------------------------------------
(* ISR(INT0_vect), ISR(INT1_vect).                                         *)

Due(s) == unmasked /\ isr = "none" /\ flag[s] /\ (s = "deadman" => ~flag["bumper"])
Reporting == [bumper |-> "sending bumper", deadman |-> "sending deadman"]
MidDatagram == at \in {"reply", "sonar"} \cup {Reporting[s] : s \in Switches}

(* The vector clears the flag, deactivateEINT().                           *)
IntEnter(s) ==
  /\ Due(s)
  /\ flag' = [flag EXCEPT ![s] = FALSE]
  /\ unmasked' = FALSE
  /\ isr' = s /\ isrAt' = "read" /\ UNCHANGED isrValue
  /\ UNCHANGED <<switchVars, messages, programVars, known>>

IntRead ==
  /\ isr # "none" /\ isrAt = "read"
  /\ isrValue' = pin[isr] /\ isrAt' = "send" /\ UNCHANGED isr
  /\ UNCHANGED <<switchVars, flag, unmasked, messages, programVars, known>>

(* The datagram and activateEINT().                                        *)
IntLeave ==
  /\ isr # "none" /\ isrAt = "send"
  /\ known' = IF MidDatagram THEN known ELSE [known EXCEPT ![isr] = isrValue]
  /\ whole' = (whole /\ ~MidDatagram)
  /\ unmasked' = TRUE
  /\ isr' = "none" /\ isrAt' = "read" /\ isrValue' = "0"
  /\ UNCHANGED <<switchVars, flag, messages, at, reading>>

-----------------------------------------------------------------------------
(* The main loop: purt_sd_buffer_process_message() again and again.        *)

Main == isr = "none" /\ \A s \in Switches : ~Due(s)
Goto(from, to) == Main /\ at = from /\ at' = to /\ UNCHANGED <<switchVars, flag, edgeVars>>

Take(t, to) ==
  /\ Goto("loop", to)
  /\ messages # <<>> /\ Head(messages) = t /\ messages' = Tail(messages)
  /\ UNCHANGED <<unmasked, reading, whole, known>>

TakePoll == Take("POLL", "onPoll")
TakeHandshake == Take("HANDSHAKE", "reply")

(* The five bytes of the answer: nothing is masked.                        *)
Reply == Goto("reply", "onHandshake") /\ UNCHANGED <<unmasked, messages, reading, whole, known>>

(* Bug, for the mutants: onPoll() does not mask.                           *)
Bug_onPollSonar == /\ Goto("onPoll", "sonar") /\ whole' = TRUE
              /\ UNCHANGED <<unmasked, messages, reading, known>>

onPollSonar == /\ Goto("onPoll", "sonar") /\ unmasked' = FALSE /\ whole' = TRUE
          /\ UNCHANGED <<messages, reading, known>>
SonarSent == Goto("sonar", "activate") /\ UNCHANGED <<unmasked, messages, reading, whole, known>>

onHandshake == /\ Goto("onHandshake", "bumper") /\ unmasked' = FALSE
               /\ UNCHANGED <<messages, reading, whole, known>>
ReadSwitch(s) ==
  /\ Goto(s, Reporting[s])
  /\ reading' = pin[s] /\ whole' = TRUE
  /\ UNCHANGED <<unmasked, messages, known>>
SwitchSent(s) ==
  /\ Goto(Reporting[s], IF s = "bumper" THEN "deadman" ELSE "activate")
  /\ known' = IF whole THEN [known EXCEPT ![s] = reading] ELSE known
  /\ reading' = "0"
  /\ UNCHANGED <<unmasked, messages, whole>>

(* Bug, for the mutants: what came while masked is thrown away.            *)
Bug_activateEINT ==
  /\ Main /\ at = "activate" /\ at' = "loop" /\ unmasked' = TRUE /\ whole' = TRUE
  /\ flag' = [s \in Switches |-> FALSE]
  /\ UNCHANGED <<switchVars, edgeVars, messages, reading, known>>

activateEINT == /\ Goto("activate", "loop") /\ unmasked' = TRUE /\ whole' = TRUE
                /\ UNCHANGED <<messages, reading, known>>

MainStep == TakePoll \/ TakeHandshake \/ Reply
            \/ onPollSonar \/ SonarSent \/ onHandshake \/ activateEINT
            \/ \E s \in Switches : ReadSwitch(s) \/ SwitchSent(s)
IntStep == IntRead \/ IntLeave \/ \E s \in Switches : IntEnter(s)

SonicNext ==
  \/ MainStep \/ IntStep
  \/ \E s \in Switches : Move(s)
  \/ \E t \in {"POLL", "HANDSHAKE"} : pushMessage(t)

(* The processor goes on.                                                  *)
SonicFairness == WF_sonicVars(MainStep) /\ WF_sonicVars(IntStep)

SonicSpec == SonicInit /\ [][SonicNext]_sonicVars /\ SonicFairness

-----------------------------------------------------------------------------
(* Properties.                                                             *)

AtRest == at = "loop" /\ isr = "none" /\ \A s \in Switches : ~flag[s]
Introduced == \A s \in Switches : known[s] # "unknown"

(* Once the board has introduced itself, and neither its program nor an    *)
(* interrupt has anything left to do, the host knows both switches as they *)
(* are, the dead man's switch among them: no change falls between reading  *)
(* a pin and unmasking, and none is reported inside another datagram.      *)
SwitchIsKnown == Introduced /\ AtRest => known = pin

(* When the switches have come to rest the host knows them, and from then  *)
(* on, however many messages keep the main loop busy.                      *)
SwitchGetsKnown == <>[](Introduced => known = pin)
=============================================================================
