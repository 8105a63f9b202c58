------------------------------ MODULE Trinidad ------------------------------
(***************************************************************************)
(* The robot's program (x86/trinidad2): start-up, the dead man's switch    *)
(* nested in State::set(), and the autopilot that the event loop calls on  *)
(* every interval.  One thread runs all of it, so a handler is one step,   *)
(* except that each round of realize()'s "goto evaluate" is a step of its  *)
(* own; between two of them main is "realize" and the readings are fixed.  *)
(*                                                                         *)
(* What the sensors reported last is any reading, apart from this: a       *)
(* substate once set is never empty again (known).  Clocks are the ages of *)
(* their last clock_gettime(), in ticks; distances are in ticks at a speed *)
(* of one PWM step.                                                        *)
(***************************************************************************)
EXTENDS Steering, Configuration, Gps

CONSTANTS
  Files,            \* waypoint files: lines and whether the last one is terminated
  Sentences,        \* what the GPS receiver may send
  Sonars,           \* distances the sonar may measure, in feet
  Compasses,        \* headings the compass may report, in degrees from north
  Frames,           \* bounding boxes the camera may see
  NoFrame,          \* cvQueryFrame() returned a null pointer
  Bearing,          \* Bearing[p][q]: newHeading() from one place to another
  AvoidAngle,       \* AvoidAngle[s]: atan2(OBSTACLE_BREADTH_FT, s)
  FootTicks,        \* one foot, in ticks at one PWM step
  BACKUP_DIST,      \* BACKUP_DIST_FT, in ticks at one PWM step
  DISTANCE_THRESHOLD_FT,
  PauseTicks,       \* one second: how long a lost cone pauses the robot
  ConeTicks,        \* two seconds: how long a cone may be out of sight
  MaxAge,           \* bound on the age of a clock
  MaxCovered,       \* bound on the distance that is measured
  Unset             \* the empty string

ASSUME UnsetAssumption == Unset \notin Int
ASSUME SonarAssumption == Sonars \subseteq Nat
ASSUME CompassAssumption == Compasses \subseteq 0 .. 359
ASSUME BearingAssumption == Bearing \in [Places \cup {Elsewhere} -> [Places -> 0 .. 360]]
ASSUME AvoidAssumption == AvoidAngle \in [Sonars -> 0 .. 90]
ASSUME TimeAssumption ==
  {FootTicks, BACKUP_DIST, DISTANCE_THRESHOLD_FT, PauseTicks, ConeTicks, MaxAge, MaxCovered} \subseteq Nat
ASSUME SentenceAssumption ==
  Sentences \subseteq Seq({Comma, Text} \cup {Lat(p) : p \in Places} \cup {Long(p) : p \in Places})
ASSUME FrameAssumption ==
  Frames \ {NoFrame} \subseteq [x : Nat, y : Nat, width : Nat, frame : Nat \ {0}]
ASSUME CoveredAssumption ==
  /\ BACKUP_DIST <= MaxCovered
  /\ \A s \in Sonars : s < DISTANCE_THRESHOLD_FT => s * FootTicks <= MaxCovered
ASSUME FileAssumption ==
  \A f \in Files : /\ f.lines \in Seq([place : Places, hasCone : BOOLEAN] \cup {Malformed})
                   /\ f.newline \in BOOLEAN

LEFT == 1
RIGHT == -1
Clocks == {"firstTime", "lastTime", "lastConeTime", "firstPauseTime"}

VARIABLES
  main,             \* what main() is doing; "loop" between two handlers
  waypoints,
  deadman,          \* State: DEADMAN_KEY
  drive, steer,     \* State: DRIVE_MOTOR, STEER_MOTOR
  saved,            \* deadman()'s static drive and steer
  known,            \* the sensors that ever reported
  state, curWaypoint, mode, coneOnPause,
  avoidanceHeading, initObstacleAvoidanceHeading, distTravelled, obstacleDistance,
  age,              \* of each of the autopilot's clocks
  reading,          \* the substates realize() finds
  covered,          \* history: distance really covered since the bump or the last echo
  paused            \* history: the switch was released meanwhile

switchVars == <<deadman, saved>>
avoidVars == <<mode, avoidanceHeading, initObstacleAvoidanceHeading, distTravelled, obstacleDistance>>
historyVars == <<covered, paused>>
motorVars == <<drive, steer>>
others == <<waypoints, switchVars, known>>     \* what the autopilot never changes
vars == <<main, waypoints, switchVars, drive, steer, known, state, curWaypoint,
          coneOnPause, avoidVars, age, reading, historyVars>>

Reported == {"bumper", "sonar", "compass"}
Fixes == {Position(gps_getstring(s, t)) : s, t \in Sentences}
Readings ==
  [bumper : BOOLEAN \cup {Unset}, sonar : Sonars \cup {Unset},
   compass : Compasses \cup {Unset}, place : Fixes]
NoReading == [bumper |-> Unset, sonar |-> Unset, compass |-> Unset, place |-> NoFix]

Steerings == -MAX_STEER_PWM .. MAX_STEER_PWM
Drives == -MAX_DRIVE_PWM .. MAX_DRIVE_PWM
RobotStates == {"INITIALIZING", "CRUISING", "OBSTACLE_AVOID", "HONING_ON_CONE",
                "DISENGAGING_FROM_CONE", "RECOVERING_FROM_COLLISION", "DONE"}
Stages == {"configure", "camera", "devices", "loop", "realize",
           "returned", "crashed", "noFrame", "unwound"}

\* The robot's types; a command is never beyond MAX_DRIVE_PWM and MAX_STEER_PWM
\* (AutoPilot.cpp:235-242).
TypeOK ==
  /\ main \in Stages
  /\ waypoints \in Seq([place : Places, hasCone : BOOLEAN])
  /\ deadman \in BOOLEAN \cup {Unset}
  /\ drive \in Drives \cup {Unset}
  /\ steer \in Steerings \cup {Unset}
  /\ saved \in [drive : Drives, steer : Steerings]
  /\ known \in SUBSET Reported
  /\ state \in RobotStates
  /\ curWaypoint \in 1 .. Len(waypoints) + 1
  /\ mode \in {LEFT, RIGHT, Unset}
  /\ coneOnPause \in BOOLEAN
  /\ avoidanceHeading \in -90 .. 450 \cup {Unset}
  /\ initObstacleAvoidanceHeading \in 0 .. 360 \cup {Unset}
  /\ distTravelled \in Int \cup {Unset}
  /\ obstacleDistance \in Nat \cup {Unset}
  /\ age \in [Clocks -> 0 .. MaxAge]
  /\ reading \in Readings \cup {NoReading}
  /\ covered \in Int
  /\ paused \in BOOLEAN

Init ==
  /\ main = "configure"
  /\ waypoints = <<>>
  /\ deadman = Unset /\ drive = Unset /\ steer = Unset
  /\ saved = [drive |-> NTL_PWM, steer |-> NTL_PWM]
  /\ known = {}
  /\ state = "INITIALIZING" /\ curWaypoint = 1 /\ coneOnPause = FALSE
  /\ mode = Unset /\ avoidanceHeading = Unset /\ initObstacleAvoidanceHeading = Unset
  /\ distTravelled = Unset /\ obstacleDistance = Unset
  /\ age = [c \in Clocks |-> MaxAge]
  /\ reading = NoReading
  /\ covered = 0 /\ paused = FALSE

-----------------------------------------------------------------------------
(* main(): configuration, camera, devices.                                 *)

\* The waypoint file, or an invocation without one.
Configure ==
  /\ main = "configure"
  /\ \/ main' = "returned" /\ UNCHANGED waypoints
     \/ \E f \in Files : waypoints' = loadConfiguration(f) /\ main' = "camera"
  /\ UNCHANGED <<switchVars, drive, steer, known, state, curWaypoint, coneOnPause,
                 avoidVars, age, reading, historyVars>>

\* Camera::Camera() needs a bus and a first picture.
OpenCamera ==
  /\ main = "camera"
  /\ main' \in {"devices", "returned"}
  /\ UNCHANGED <<waypoints, switchVars, drive, steer, known, state, curWaypoint, coneOnPause,
                 avoidVars, age, reading, historyVars>>

\* Exactly one device must have failed the handshake: it is taken for the Ax3500, whose
\* constructor may throw, like that of the server socket.
FindDevices ==
  /\ main = "devices"
  /\ main' \in {"loop", "returned", "unwound"}
  /\ UNCHANGED <<waypoints, switchVars, drive, steer, known, state, curWaypoint,
                 coneOnPause, avoidVars, age, reading, historyVars>>

-----------------------------------------------------------------------------
(* The dead man's switch.                                                  *)

InEpisode == state \in {"OBSTACLE_AVOID", "DISENGAGING_FROM_CONE"}
SetMotors(d, s) == drive' = d /\ steer' = s

\* A release keeps the speeds in static variables and stops the motors.
Release ==
  /\ saved' = [drive |-> drive, steer |-> steer]
  /\ SetMotors(NTL_PWM, NTL_PWM)
  /\ paused' = InEpisode

Engage ==
  /\ SetMotors(saved.drive, saved.steer)
  /\ UNCHANGED <<saved, paused>>

\* deadman(): the slot, called when the substate changes.  At a release before any speed
\* was set, lexical_cast throws through State::set(): the device that carries the switch is
\* dropped, so that the next report, if any, comes after it was plugged in again.
deadmanSlot(engaged) ==
  IF engaged THEN Engage
  ELSE IF Unset \in {drive, steer} THEN UNCHANGED <<drive, steer, saved, paused>> ELSE Release

\* The switch's device sets DEADMAN_KEY; when the device is lost, there are no reports.
SwitchReport(engaged) ==
  /\ main = "loop" /\ engaged # deadman
  /\ deadman' = engaged
  /\ deadmanSlot(engaged)
  /\ UNCHANGED <<main, waypoints, known, state, curWaypoint, coneOnPause, avoidVars, age,
                 reading, covered>>

\* A sensor reports for the first time.
Report(sensor) ==
  /\ main = "loop"
  /\ known' = known \cup {sensor}
  /\ UNCHANGED <<main, waypoints, switchVars, drive, steer, state, curWaypoint, coneOnPause,
                 avoidVars, age, reading, historyVars>>

-----------------------------------------------------------------------------
(* AutoPilot::realize().                                                   *)

(* Without an engaged switch it returns at once.  With one it finds any     *)
(* readings, which "goto evaluate" keeps.                                   *)

Current ==
  IF main = "realize" THEN {reading}
  ELSE {r \in Readings : /\ main = "loop" /\ deadman = TRUE
                         /\ ("bumper" \in known) <=> (r.bumper # Unset)
                         /\ ("sonar" \in known) <=> (r.sonar # Unset)
                         /\ ("compass" \in known) <=> (r.compass # Unset)}

Break == main' = "loop" /\ reading' = NoReading
GotoEvaluate(r) == main' = "realize" /\ reading' = r
Started(clocks) == age' = [c \in Clocks |-> IF c \in clocks THEN 0 ELSE age[c]]
Episode == covered' = 0 /\ paused' = FALSE

Present(r) == northToEast(r.compass)
Target == waypoints[curWaypoint]
AtEnd == curWaypoint > Len(waypoints)
Error(r) == angularDifference(Bearing[r.place][Target.place], Present(r))
Near(r) == r.sonar < DISTANCE_THRESHOLD_FT
WithinRange(r) == r.place = Target.place

Initialize(r) ==
  /\ state = "INITIALIZING"
  /\ SetMotors(NTL_PWM, NTL_PWM)
  /\ state' = "CRUISING"
  /\ Break
  /\ UNCHANGED <<others, curWaypoint, coneOnPause, avoidVars, age, historyVars>>

adjustMotors(offset, speed) == SetMotors(DriveFor(speed), SteerFor(offset))

Bug_incrementWaypoint(next) ==
  /\ UNCHANGED motorVars
  /\ curWaypoint' = curWaypoint + 1
  /\ state' = IF curWaypoint = Len(waypoints) THEN "DONE" ELSE next

Bug_incrementWaypoint_end(next) ==
  /\ SetMotors(NTL_PWM, NTL_PWM)
  /\ curWaypoint' = curWaypoint + 1
  /\ state' = next

\* Stops, and the program is done after the last waypoint; otherwise in state next.
incrementWaypoint(next) ==
  /\ SetMotors(NTL_PWM, NTL_PWM)
  /\ curWaypoint' = curWaypoint + 1
  /\ state' = IF curWaypoint = Len(waypoints) THEN "DONE" ELSE next

\* Every exception of these two states is swallowed: the motors keep their speeds.
Honing == state = "HONING_ON_CONE"
Cruising == state = "CRUISING"
NoHeading(r) == r.place = NoFix \/ r.compass = Unset

Swallow(r) ==
  /\ \/ Honing /\ \/ r.bumper = Unset
                  \/ r.bumper = FALSE /\ ~coneOnPause /\ NoHeading(r)
     \/ Cruising /\ \/ NoHeading(r)
                    \/ ~AtEnd /\ r.sonar = Unset
  /\ Break
  /\ UNCHANGED <<others, motorVars, state, curWaypoint, coneOnPause,
                 avoidVars, age, historyVars>>

\* curWaypoint is dereferenced at the end of the list.
Dereference(r) ==
  /\ \/ Cruising /\ ~NoHeading(r)
     \/ Honing /\ r.bumper = FALSE /\ ~coneOnPause /\ ~NoHeading(r)
  /\ AtEnd
  /\ main' = "crashed" /\ reading' = NoReading
  /\ UNCHANGED <<others, motorVars, state, curWaypoint, coneOnPause,
                 avoidVars, age, historyVars>>

Bug_HoningBumped(r) ==
  /\ Honing /\ r.bumper = TRUE
  /\ incrementWaypoint("DISENGAGING_FROM_CONE")
  /\ Episode
  /\ GotoEvaluate(r)
  /\ UNCHANGED <<others, coneOnPause, avoidVars, age>>

\* The bumper touches the cone.
HoningBumped(r) ==
  /\ Honing /\ r.bumper = TRUE
  /\ incrementWaypoint("DISENGAGING_FROM_CONE")
  /\ Started({"firstTime"}) /\ Episode
  /\ GotoEvaluate(r)
  /\ UNCHANGED <<others, coneOnPause, avoidVars>>

\* The cone reappeared after a while: stand still for a second.
HoningPaused(r) ==
  /\ Honing /\ r.bumper = FALSE /\ coneOnPause
  /\ IF age["firstPauseTime"] > PauseTicks
     THEN coneOnPause' = FALSE /\ UNCHANGED motorVars
     ELSE adjustMotors(0, 0) /\ UNCHANGED coneOnPause
  /\ Break
  /\ UNCHANGED <<others, state, curWaypoint, avoidVars, age, historyVars>>

Looking(r) == Honing /\ r.bumper = FALSE /\ ~coneOnPause /\ ~NoHeading(r) /\ ~AtEnd

\* The capture is opened again for each picture; nobody looks whether it gave one.
HoningBlind(r) ==
  /\ Looking(r) /\ NoFrame \in Frames
  /\ main' = "noFrame" /\ reading' = NoReading
  /\ UNCHANGED <<others, motorVars, state, curWaypoint, coneOnPause,
                 avoidVars, age, historyVars>>

HoningSearches(r) ==
  /\ Looking(r)
  /\ \E bound \in Frames \ {NoFrame} : ~coneExists(bound)
  /\ adjustMotors(50, 0)
  /\ Break
  /\ UNCHANGED <<others, state, curWaypoint, coneOnPause, avoidVars,
                 age, historyVars>>

HoningSees(r) ==
  /\ Looking(r)
  /\ \E bound \in Frames \ {NoFrame} :
        /\ coneExists(bound)
        /\ IF age["lastConeTime"] > ConeTicks
           THEN /\ coneOnPause' = TRUE
                /\ Started({"firstPauseTime", "lastConeTime"})
                /\ UNCHANGED motorVars
           ELSE /\ Started({"lastConeTime"})
                /\ adjustMotors(2 * angularDifference(Present(r) - cameraHeading(bound), Present(r)),
                                MAX_DRIVE_PWM \div 2)
                /\ UNCHANGED coneOnPause
  /\ Break
  /\ UNCHANGED <<others, state, curWaypoint, avoidVars, historyVars>>

Aware(r) == Cruising /\ ~NoHeading(r) /\ ~AtEnd /\ r.sonar # Unset
Obstructed(r) == Near(r) /\ Abs(Error(r)) < 45

CruisingObstructed(r) ==
  /\ Aware(r) /\ Obstructed(r)
  /\ state' = "OBSTACLE_AVOID"
  /\ initObstacleAvoidanceHeading' = Present(r)
  /\ mode' = RIGHT
  /\ GotoEvaluate(r)
  /\ UNCHANGED <<others, motorVars, curWaypoint, coneOnPause,
                 avoidanceHeading, distTravelled, obstacleDistance, age, historyVars>>

\* Towards the waypoint; at a cone, start honing, elsewhere take the next waypoint.
CruisingClear(r) ==
  /\ Aware(r) /\ ~Obstructed(r)
  /\ IF WithinRange(r) /\ ~Target.hasCone
     THEN incrementWaypoint("CRUISING")
     ELSE /\ adjustMotors(2 * Error(r), CruisingSpeed(r.sonar, Error(r)))
          /\ state' = IF WithinRange(r) THEN "HONING_ON_CONE" ELSE "CRUISING"
          /\ UNCHANGED curWaypoint
  /\ IF WithinRange(r) /\ Target.hasCone
     THEN Started({"lastConeTime"}) /\ GotoEvaluate(r)
     ELSE Break /\ UNCHANGED age
  /\ UNCHANGED <<others, coneOnPause, avoidVars, historyVars>>

Avoiding == state = "OBSTACLE_AVOID"

\* The readings and the speed that this state and the next one need are not guarded: with an
\* empty one an exception would leave realize() and run().  There is no step for that, as
\* Survives says that it does not happen.
Turned(r) == Abs(angularDifference(Present(r), initObstacleAvoidanceHeading)) > 125

\* What the detour left in its variables is forgotten in the model: the next one overwrites
\* them before it reads them, or TLC would meet Unset in an expression.
Resume ==
  /\ state' = "CRUISING"
  /\ mode' = Unset /\ avoidanceHeading' = Unset /\ initObstacleAvoidanceHeading' = Unset
  /\ distTravelled' = Unset /\ obstacleDistance' = Unset

AvoidNear(r) ==
  /\ Avoiding /\ Unset \notin {r.compass, r.sonar, drive} /\ Near(r)
  /\ mode' = IF Turned(r) THEN LEFT ELSE mode
  /\ avoidanceHeading' = Present(r) - mode' * AvoidAngle[r.sonar]
  /\ obstacleDistance' = r.sonar * FootTicks
  /\ distTravelled' = 0
  /\ Started({"lastTime"}) /\ Episode
  /\ adjustMotors(angularDifference(avoidanceHeading', Present(r)), AvoidingSpeed(r.sonar))
  /\ Break
  /\ UNCHANGED <<others, state, curWaypoint, coneOnPause, initObstacleAvoidanceHeading>>

AvoidFar(r) ==
  /\ Avoiding /\ Unset \notin {r.compass, r.sonar, drive} /\ ~Near(r)
  /\ LET travelled == distTravelled - drive * age["lastTime"] IN
     IF travelled > obstacleDistance
     THEN Resume /\ GotoEvaluate(r) /\ UNCHANGED <<motorVars, age>>
     ELSE /\ mode' = IF Turned(r) THEN LEFT ELSE mode
          /\ distTravelled' = travelled
          /\ Started({"lastTime"})
          /\ adjustMotors(angularDifference(avoidanceHeading, Present(r)), AvoidingSpeed(r.sonar))
          /\ Break
          /\ UNCHANGED <<state, avoidanceHeading, obstacleDistance, initObstacleAvoidanceHeading>>
  /\ UNCHANGED <<others, curWaypoint, coneOnPause, historyVars>>

Bug_Disengage(r) ==
  /\ state = "DISENGAGING_FROM_CONE" /\ drive # Unset
  /\ Started({"firstTime"})
  /\ IF Abs(drive * age["firstTime"]) > BACKUP_DIST
     THEN state' = "CRUISING" /\ GotoEvaluate(r) /\ UNCHANGED motorVars
     ELSE adjustMotors(27, -5) /\ Break /\ UNCHANGED state
  /\ UNCHANGED <<others, curWaypoint, coneOnPause, avoidVars, historyVars>>

\* Back up: the speed now times the time since the bump.
Disengage(r) ==
  /\ state = "DISENGAGING_FROM_CONE" /\ drive # Unset
  /\ IF Abs(drive * age["firstTime"]) > BACKUP_DIST
     THEN state' = "CRUISING" /\ GotoEvaluate(r) /\ UNCHANGED motorVars
     ELSE adjustMotors(27, -5) /\ Break /\ UNCHANGED state
  /\ UNCHANGED <<others, curWaypoint, coneOnPause, avoidVars, age, historyVars>>

Finished(r) ==
  /\ state = "DONE"
  /\ Break
  /\ UNCHANGED <<others, motorVars, state, curWaypoint, coneOnPause,
                 avoidVars, age, historyVars>>

-----------------------------------------------------------------------------
\* The clock; what the robot covers meanwhile is what its motors were told.
Tick ==
  /\ main = "loop"
  /\ age' = [c \in Clocks |-> IF age[c] < MaxAge THEN age[c] + 1 ELSE MaxAge]
  /\ covered' = IF InEpisode /\ covered <= MaxCovered THEN covered + Abs(drive) ELSE covered
  /\ UNCHANGED <<main, waypoints, switchVars, drive, steer, known, state, curWaypoint,
                 coneOnPause, avoidVars, reading, paused>>

StartUp == Configure \/ OpenCamera \/ FindDevices
Switch == \E engaged \in BOOLEAN : SwitchReport(engaged)
Evaluate ==
  \E r \in Current :
     \/ Initialize(r) \/ Swallow(r) \/ Dereference(r)
     \/ HoningBumped(r) \/ HoningPaused(r) \/ HoningBlind(r) \/ HoningSearches(r) \/ HoningSees(r)
     \/ CruisingObstructed(r) \/ CruisingClear(r)
     \/ AvoidNear(r) \/ AvoidFar(r) \/ Disengage(r) \/ Finished(r)
Next ==
  \/ StartUp \/ Switch \/ Tick \/ Evaluate
  \/ \E sensor \in Reported : Report(sensor)

\* The loop calls the interval slots for ever, and time passes although they run.
Spec == Init /\ [][Next]_vars /\ SF_vars(Tick) /\ WF_vars(Evaluate)

-----------------------------------------------------------------------------
(***************************************************************************)
(* While the switch is released, and once the course is done, the motors   *)
(* are told to stand still, whatever was saved, replayed or interrupted by *)
(* exceptions (main.cpp:74-88, AutoPilot.cpp:49-56, 221-230).              *)
(***************************************************************************)
AtRest ==
  deadman = FALSE \/ state = "DONE" => {drive, steer} \subseteq {NTL_PWM, Unset}

(***************************************************************************)
(* The autopilot cruises on only when the robot really passed the obstacle *)
(* or backed away from the cone, unless the switch was released meanwhile: *)
(* the clocks of AutoPilot.cpp:179 and 202 go on while the robot stands.   *)
(***************************************************************************)
Required == IF state = "OBSTACLE_AVOID" THEN obstacleDistance ELSE BACKUP_DIST
DistanceIsReal ==
  [][ /\ state \in {"OBSTACLE_AVOID", "DISENGAGING_FROM_CONE"}
      /\ state' = "CRUISING"
      => paused \/ covered > Required ]_vars

(***************************************************************************)
(* No exception of the unguarded states leaves run(), and the end of the   *)
(* waypoints is not dereferenced but with an empty list                    *)
(* (AutoPilot.cpp:155-213; Parameters.cpp:51-56 accepts an empty file).    *)
(***************************************************************************)
Survives ==
  /\ TypeOK
  /\ Avoiding => drive # Unset /\ {"compass", "sonar"} \subseteq known
  /\ state = "DISENGAGING_FROM_CONE" => drive # Unset
  /\ main = "crashed" => waypoints = <<>>

(***************************************************************************)
(* Neither the pause at a cone nor backing up is a trap: with the switch   *)
(* engaged and the bumper known, the autopilot leaves them                 *)
(* (AutoPilot.cpp:77-88, 198-213).                                         *)
(***************************************************************************)
Trapped ==
  /\ main \in {"loop", "realize"} /\ deadman = TRUE /\ "bumper" \in known
  /\ \/ state = "DISENGAGING_FROM_CONE"
     \/ state = "HONING_ON_CONE" /\ coneOnPause
NoTrap == []<>~Trapped
=============================================================================
