---------------------------- MODULE MCMotorLoop ----------------------------
(* MotorLoop for TLC. *)
EXTENDS MotorLoop

CONSTANT text

\* Beyond char in both directions (128 and 300), and no number at all.
MCChannel == {STEERING}
MCTexts == {128, 300, text}
=============================================================================
