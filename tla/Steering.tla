------------------------------ MODULE Steering ------------------------------
(***************************************************************************)
(* The arithmetic of the robot's course: headings (globals.h), motor       *)
(* speeds (AutoPilot::adjustMotors) and the bearing of a cone in a picture *)
(* (Camera::getCameraHeading).  Angles are whole degrees; where the code   *)
(* computes in doubles and converts to int, the quotient is truncated as C *)
(* does it.                                                                *)
(***************************************************************************)
EXTENDS Integers

MAX_DRIVE_PWM == 43
MAX_STEER_PWM == 8
NTL_PWM == 0

\* The conversion of the quotient a / b to int: towards zero.
Trunc(a, b) == IF a >= 0 THEN a \div b ELSE -((-a) \div b)
Abs(a) == IF a >= 0 THEN a ELSE -a

\* Compass degrees (clockwise from north) as degrees counterclockwise from east.
northToEast(northern) == IF northern <= 90 THEN 90 - northern ELSE 450 - northern

angularDifference(x, y) ==
  CASE x - y < -180 -> x - y + 360
    [] x - y > 180  -> x - y - 360
    [] OTHER        -> x - y

Clip(value, limit) == IF value > limit THEN limit ELSE IF value < -limit THEN -limit ELSE value

\* The two values adjustMotors() gives to the State.
DriveFor(driveSpeed) == -Clip(driveSpeed, MAX_DRIVE_PWM)
SteerFor(angularOffset) == Clip(Trunc(-MAX_STEER_PWM * angularOffset, 180), MAX_STEER_PWM)

\* Full speed towards a far target straight ahead, less the nearer or the more sideways.
CruisingSpeed(sonar, error) ==
  Trunc(sonar * MAX_DRIVE_PWM * (180 - Abs(error)), 21 * 180)

\* Speed while avoiding: zero at MIN_ALLOW_DISTANCE (2.5 ft), full at MAX_SONAR_SIGNAL.
AvoidingSpeed(sonar) == Trunc((2 * sonar - 5) * MAX_DRIVE_PWM, 37)

(***************************************************************************)
(* What the camera makes of a picture: the bounding box of everything      *)
(* coloured like a cone, all zeros when there is nothing.  The box is      *)
(* taken for nothing when its corner is the picture's, cone or not.        *)
(***************************************************************************)
FieldDegrees == 43
coneExists(bound) == ~(bound.x = 0 /\ bound.y = 0)
cameraHeading(bound) ==
  IF coneExists(bound)
  THEN Trunc((bound.x + bound.width \div 2) * FieldDegrees, bound.frame) - FieldDegrees \div 2
  ELSE 0
=============================================================================
