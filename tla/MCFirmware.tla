----------------------------- MODULE MCFirmware -----------------------------
(***************************************************************************)
(* The firmware's parts, checked in one run: the I2C driver, the compass   *)
(* board and the sonar board do not interact, so each behaviour is that of *)
(* one of them, and the others stay as they are.                           *)
(***************************************************************************)
EXTENDS I2c, Compass, SonicBump

VARIABLE part

vars == <<part, i2cVars, compassVars, sonicVars>>

(* The parts at rest are kept in one of their initial states.              *)
Init ==
  /\ part \in {"driver", "compass", "sonar"}
  /\ I2cInit /\ CompassInit /\ SonicInit
  /\ part # "driver" => ~waits
  /\ part # "sonar" => \A s \in Switches : pin[s] = "0"

Driver(A) == part = "driver" /\ A /\ UNCHANGED <<part, compassVars, sonicVars>>
Board(A) == part = "compass" /\ A /\ UNCHANGED <<part, i2cVars, sonicVars>>
Sonar(A) == part = "sonar" /\ A /\ UNCHANGED <<part, i2cVars, compassVars>>

Next == Driver(I2cNext) \/ Board(CompassNext) \/ Sonar(SonicNext)

(* I2cFairness, CompassFairness and SonicFairness, of the part that runs.  *)
Fairness ==
  /\ SF_vars(Driver(~stuck /\ Program)) /\ WF_vars(Driver(~stuck /\ TwiInterrupt))
  /\ WF_vars(Driver(~stuck /\ MasterDone)) /\ WF_vars(Driver(~stuck /\ SlaveDone))
  /\ WF_vars(Board(Answered)) /\ SF_vars(Board(LoopStep))
  /\ WF_vars(Sonar(MainStep)) /\ WF_vars(Sonar(IntStep))

Spec == Init /\ [][Next]_vars /\ Fairness
=============================================================================
