------------------------------- MODULE Ax3500 -------------------------------
(***************************************************************************)
(* The text protocol of the motor controller as Ax3500.cpp speaks it:      *)
(* commands with two hexadecimal digits, and answers that are read line by *)
(* line according to the oldest request.  An answer is a sequence of       *)
(* characters of which only the carriage return and the watchdog's "W"     *)
(* matter.                                                                 *)
(***************************************************************************)
EXTENDS Integers, Sequences, FiniteSets

LINEAR == "LINEAR"
STEERING == "STEERING"
MAX_SPEED == 127
CR == "cr"

\* Conversion of an int to (signed) char.
Narrow(n) == ((n + 128) % 256) - 128
Magnitude(speed) == Narrow(IF speed < 0 THEN -speed ELSE speed)
Accepted(speed) == Magnitude(speed) \in 0 .. MAX_SPEED

toHex(val) == <<val \div 16, val % 16>>
fromHex(digits) == (digits[1] * 16 + digits[2]) % 256

\* setLinearSpeed(), setSteeringSpeed() and setSpeed(): the letter's case is the direction.
Command(channel, speed) ==
  [channel |-> channel, reverse |-> speed < 0, digits |-> toHex(Magnitude(speed))]
\* What a command makes the controller do.
CommandedSpeed(cmd) == IF cmd.reverse THEN -fromHex(cmd.digits) ELSE fromHex(cmd.digits)

\* The position of the n-th carriage return of s from position i on; 0 if it has not come.
CrAfter(s, i, n) ==
  LET crs == {p \in i .. Len(s) : s[p] = CR}
  IN  IF Cardinality(crs) < n THEN 0
      ELSE CHOOSE p \in crs : Cardinality({q \in crs : q <= p}) = n

Bug_Taken_noCR(expected, s) ==
  CASE expected = "COMMAND" -> CrAfter(s, 1, 1) + 1
    [] expected = "MAIN_BATT" -> CrAfter(s, 1, 3)
    [] OTHER -> CrAfter(s, CrAfter(s, 1, 7) + 3, 2)

Bug_Taken_extra(expected, s) ==
  CASE expected = "COMMAND" -> CrAfter(s, 1, 1) + 3
    [] expected = "MAIN_BATT" -> CrAfter(s, 1, 3)
    [] OTHER -> CrAfter(s, CrAfter(s, 1, 7) + 3, 2)

(***************************************************************************)
(* How many characters onActivity() reads when this is the oldest request. *)
(* A command: its echo, then two characters, the flag and the CR.  The     *)
(* battery: the echo and two lines.  A reset: the echo, five lines, the    *)
(* echo of the watchdog request, two characters and the rest of their      *)
(* line, one more line.                                                    *)
(***************************************************************************)
Taken(expected, s) ==
  CASE expected = "COMMAND" -> CrAfter(s, 1, 1) + 2
    [] expected = "MAIN_BATT" -> CrAfter(s, 1, 3)
    [] OTHER -> CrAfter(s, CrAfter(s, 1, 7) + 3, 2)

\* They have all come, so that no get() blocks.
LinesBefore(expected) == CASE expected = "COMMAND" -> 1 [] expected = "MAIN_BATT" -> 3 [] OTHER -> 9
AllCame(expected, s) ==
  CrAfter(s, 1, LinesBefore(expected)) > 0 /\ Len(s) >= Taken(expected, s) /\ Taken(expected, s) > 0

\* The controller's answers (external): the text of a line is left out but for the flag of a
\* command and the two characters in front of the line about the watchdog.
Lines(n) == [i \in 1 .. n |-> CR]
ControllerAnswer(expected) ==
  CASE expected = "COMMAND" -> <<CR, "flag", CR>>
    [] expected = "MAIN_BATT" -> Lines(3)
    [] OTHER -> Lines(7) \o <<"0", "flag", CR>> \o Lines(1)
=============================================================================
