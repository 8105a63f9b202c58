--------------------------- MODULE TrinidadProofs ---------------------------
(***************************************************************************)
(* Theorems about the robot's program, for every waypoint file, sentence,  *)
(* sonar, compass and camera, and every length of pauses and detours.      *)
(***************************************************************************)
EXTENDS Trinidad, SequenceTheorems, FiniteSetTheorems, TLAPS

(***************************************************************************)
(* Arithmetic.                                                             *)
(***************************************************************************)
LEMMA TruncIs ==
  ASSUME NEW a \in Int, NEW b \in Nat \ {0}
  PROVE  Trunc(a, b) \in Int
<1>1. a \div b \in Int /\ (-a) \div b \in Int
  OBVIOUS
<1> QED BY <1>1 DEF Trunc

LEMMA ClipIs ==
  ASSUME NEW v \in Int, NEW limit \in Nat
  PROVE  Clip(v, limit) \in -limit .. limit
BY DEF Clip

LEMMA AbsIs ==
  ASSUME NEW a \in Int
  PROVE  Abs(a) \in Nat /\ Abs(a) >= a /\ Abs(a) >= -a
BY DEF Abs

\* A command never exceeds the limits, whatever is computed for it.
LEMMA CommandsFit ==
  ASSUME NEW speed \in Int, NEW offset \in Int
  PROVE  DriveFor(speed) \in Drives /\ SteerFor(offset) \in Steerings
<1>1. Clip(speed, 43) \in -43 .. 43
  BY ClipIs
<1>2. DriveFor(speed) \in Drives
  BY <1>1 DEF DriveFor, Drives, MAX_DRIVE_PWM
<1>3. -8 * offset \in Int
  OBVIOUS
<1>4. Trunc(-8 * offset, 180) \in Int
  BY <1>3, TruncIs
<1>5. Clip(Trunc(-8 * offset, 180), 8) \in -8 .. 8
  BY <1>4, ClipIs
<1>6. SteerFor(offset) \in Steerings
  BY <1>5 DEF SteerFor, Steerings, MAX_STEER_PWM
<1> QED BY <1>2, <1>6

LEMMA HeadingIs ==
  ASSUME NEW n \in 0 .. 359
  PROVE  northToEast(n) \in 0 .. 359
BY DEF northToEast

LEMMA DifferenceIs ==
  ASSUME NEW a \in Int, NEW b \in Int
  PROVE  angularDifference(a, b) \in Int
<1>1. CASE a - b < -180
  BY <1>1 DEF angularDifference
<1>2. CASE a - b > 180
  BY <1>2 DEF angularDifference
<1>3. CASE ~(a - b < -180) /\ ~(a - b > 180)
  BY <1>3 DEF angularDifference
<1> QED BY <1>1, <1>2, <1>3

LEMMA SpeedsAre ==
  ASSUME NEW sonar \in Nat, NEW error \in Int
  PROVE  CruisingSpeed(sonar, error) \in Int /\ AvoidingSpeed(sonar) \in Int
<1>1. Abs(error) \in Int
  BY AbsIs
<1>2. sonar * 43 * (180 - Abs(error)) \in Int
  BY <1>1
<1>3. Trunc(sonar * 43 * (180 - Abs(error)), 21 * 180) \in Int
  <2>1. 21 * 180 \in Nat \ {0}
    OBVIOUS
  <2> QED BY <1>2, <2>1, TruncIs
<1>4. (2 * sonar - 5) * 43 \in Int
  OBVIOUS
<1>5. Trunc((2 * sonar - 5) * 43, 37) \in Int
  BY <1>4, TruncIs
<1> QED BY <1>3, <1>5 DEF CruisingSpeed, AvoidingSpeed, MAX_DRIVE_PWM

LEMMA CameraHeadingIs ==
  ASSUME NEW bound \in Frames \ {NoFrame}
  PROVE  cameraHeading(bound) \in Int
<1>1. bound.x \in Nat /\ bound.width \in Nat /\ bound.frame \in Nat \ {0}
  BY FrameAssumption
<1>2. (bound.x + bound.width \div 2) * 43 \in Int
  BY <1>1
<1>3. Trunc((bound.x + bound.width \div 2) * 43, bound.frame) \in Int
  BY <1>1, <1>2, TruncIs
<1>4. 43 \div 2 \in Int
  OBVIOUS
<1> QED BY <1>3, <1>4 DEF cameraHeading, FieldDegrees

(***************************************************************************)
(* Positions.                                                              *)
(***************************************************************************)
Tokens == {Comma, Space, Nul, Text} \cup {Lat(p) : p \in Places} \cup {Long(p) : p \in Places}

LEMMA TokenIs == \A token \in Tokens : token[2] \in Places \cup {NoFix}
BY DEF Tokens, Comma, Space, Nul, Text, Lat, Long

\* A sentence stays one of tokens in the board's buffer.
LEMMA BufferIs ==
  ASSUME NEW s \in Sentences, NEW t \in Sentences
  PROVE  gps_getstring(s, t) \in Seq(Tokens)
<1>1. s \in Seq(Tokens) /\ t \in Seq(Tokens)
  <2> DEFINE T == {Comma, Text} \cup {Lat(p) : p \in Places} \cup {Long(p) : p \in Places}
  <2>1. s \in Seq(T) /\ t \in Seq(T)
    BY SentenceAssumption
  <2>2. T \subseteq Tokens
    BY DEF Tokens
  <2> HIDE DEF T
  <2> QED BY <2>1, <2>2, SeqMonotonic
<1>2. <<Nul>> \in Seq(Tokens)
  BY DEF Tokens
<1>3. s \o <<Nul>> \in Seq(Tokens)
  BY <1>1, <1>2, ConcatProperties
<1>4. SubSeq(t, Len(s) + 2, Len(t)) \in Seq(Tokens)
  <2>1. Len(s) \in Nat /\ Len(t) \in Nat
    BY <1>1, LenProperties
  <2>2. \A i \in (Len(s) + 2) .. Len(t) : t[i] \in Tokens
    BY <1>1, <2>1, ElementOfSeq
  <2> QED BY <2>1, <2>2, SubSeqProperties
<1>5. s \o <<Nul>> \o SubSeq(t, Len(s) + 2, Len(t)) \in Seq(Tokens)
  BY <1>3, <1>4, ConcatProperties
<1> QED BY <1>5 DEF gps_getstring

LEMMA CommaAtIs ==
  ASSUME NEW buf \in Seq(Tokens), NEW k
  PROVE  CommaAt(buf, k) \in 0 .. Len(buf)
<1> DEFINE at == {i \in 1 .. Len(buf) :
                    buf[i] = Comma /\ Cardinality({j \in 1 .. i : buf[j] = Comma}) = k}
<1>1. CommaAt(buf, k) = IF at = {} THEN 0 ELSE CHOOSE i \in at : TRUE
  BY DEF CommaAt
<1>2. at \subseteq 1 .. Len(buf) /\ Len(buf) \in Nat
  BY LenProperties
<1> HIDE DEF at
<1>3. CASE at = {}
  BY <1>1, <1>2, <1>3
<1>4. CASE at # {}
  <2>1. PICK c \in at : c = CHOOSE i \in at : TRUE
    BY <1>4
  <2>2. CommaAt(buf, k) = c
    BY <1>1, <1>4, <2>1
  <2> QED BY <1>2, <2>2
<1> QED BY <1>3, <1>4

\* A substate's value consists of tokens.
LEMMA FieldIs ==
  ASSUME NEW buf \in Seq(Tokens), NEW a, NEW b
  PROVE  \A i \in DOMAIN Field(buf, a, b) : Field(buf, a, b)[i] \in Tokens
<1> DEFINE from == CommaAt(buf, a)
           to == CommaAt(buf, b)
           value == [i \in 1 .. to - from - 1 |-> IF buf[from + i] = Comma THEN Space ELSE buf[from + i]]
<1>1. from \in 0 .. Len(buf) /\ to \in 0 .. Len(buf) /\ Len(buf) \in Nat
  BY CommaAtIs, LenProperties
<1>2. Field(buf, a, b) = value
  BY DEF Field
<1>3. ASSUME NEW i \in 1 .. to - from - 1
      PROVE  value[i] \in Tokens
  <2>1. from + i \in 1 .. Len(buf)
    <3> HIDE DEF from, to
    <3> QED BY <1>1
  <2>2. buf[from + i] \in Tokens
    BY <2>1, ElementOfSeq
  <2>3. Space \in Tokens
    BY DEF Tokens
  <2> HIDE DEF from, to
  <2> QED BY <2>2, <2>3
<1> HIDE DEF from, to
<1> QED BY <1>2, <1>3

LEMMA DegreesAre ==
  ASSUME NEW value, \A i \in DOMAIN value : value[i] \in Tokens
  PROVE  nemaSpaceToDegrees(value) \in Places \cup {NoFix}
<1> DEFINE dots == {i \in DOMAIN value : IsCoordinate(value[i])}
           last == {i \in dots : \A j \in dots : j <= i}
<1>1. nemaSpaceToDegrees(value) = IF last = {} THEN NoFix ELSE value[CHOOSE i \in last : TRUE][2]
  BY DEF nemaSpaceToDegrees
<1>2. last \subseteq DOMAIN value
  OBVIOUS
<1> HIDE DEF last
<1>3. CASE last # {}
  <2>1. (CHOOSE i \in last : TRUE) \in last
    BY <1>3
  <2>2. value[CHOOSE i \in last : TRUE] \in Tokens
    BY <1>2, <2>1
  <2> QED BY <1>1, <1>3, <2>2, TokenIs
<1> QED BY <1>1, <1>3

LEMMA FixesAre == Fixes \subseteq Places \cup {Elsewhere, NoFix}
<1> SUFFICES ASSUME NEW s \in Sentences, NEW t \in Sentences
             PROVE  Position(gps_getstring(s, t)) \in Places \cup {Elsewhere, NoFix}
  BY DEF Fixes
<1> DEFINE buf == gps_getstring(s, t)
           lat == nemaSpaceToDegrees(Latitude(buf))
           long == nemaSpaceToDegrees(Longitude(buf))
<1>1. buf \in Seq(Tokens)
  BY BufferIs
<1> HIDE DEF buf
<1>2. lat \in Places \cup {NoFix} /\ long \in Places \cup {NoFix}
  BY <1>1, FieldIs, DegreesAre DEF Latitude, Longitude
<1>3. Position(buf) = IF NoFix \in {lat, long} THEN NoFix ELSE IF lat = long THEN lat ELSE Elsewhere
  BY DEF Position
<1> HIDE DEF lat, long
<1>4. Position(buf) \in Places \cup {Elsewhere, NoFix}
  BY <1>2, <1>3
<1> QED BY <1>4 DEF buf

(***************************************************************************)
(* The waypoint file.                                                      *)
(***************************************************************************)
Waypoint == [place : Places, hasCone : BOOLEAN]

\* The lines up to the number of the good ones are good.
LEMMA GoodLines ==
  ASSUME NEW lines \in Seq(Waypoint \cup {Malformed})
  PROVE  /\ Cardinality(WellFormed(lines)) \in 0 .. Len(lines)
         /\ \A i \in 1 .. Cardinality(WellFormed(lines)) : lines[i] \in Waypoint
<1> DEFINE W == WellFormed(lines)
           good == Cardinality(W)
<1>1. W \subseteq 1 .. Len(lines) /\ Len(lines) \in Nat
  BY LenProperties DEF WellFormed
<1>2. IsFiniteSet(1 .. Len(lines)) /\ Cardinality(1 .. Len(lines)) = Len(lines)
  <2>1. \A n \in Nat : IsFiniteSet(1 .. n) /\ Cardinality(1 .. n) = IF 1 > n THEN 0 ELSE n - 1 + 1
    BY FS_Interval
  <2>2. \A n \in Nat : IsFiniteSet(1 .. n) /\ Cardinality(1 .. n) = n
    BY <2>1
  <2> QED BY <1>1, <2>2
<1>3. IsFiniteSet(W) /\ good <= Len(lines)
  BY <1>1, <1>2, FS_Subset
<1>4. good \in Nat
  BY <1>3, FS_CardinalityType
<1>5. \A k \in W : \A i \in 1 .. k : i \in W
  BY <1>1 DEF WellFormed
<1>6. ASSUME good # 0 PROVE good \in W
  <2>1. SUFFICES ASSUME good \notin W PROVE FALSE
    OBVIOUS
  <2>2. W \subseteq 1 .. (good - 1)
    <3> HIDE DEF good
    <3> SUFFICES ASSUME NEW k \in W, k >= good PROVE FALSE
      BY <1>1, <1>4
    <3>1. good \in 1 .. k
      BY <1>1, <1>4, <1>6
    <3> QED BY <1>5, <2>1, <3>1
  <2>3. IsFiniteSet(1 .. (good - 1)) /\ Cardinality(1 .. (good - 1)) <= good - 1
    <3> HIDE DEF good
    <3> QED BY <1>4, <1>6, FS_Interval
  <2>4. good <= Cardinality(1 .. (good - 1))
    BY <2>2, <2>3, FS_Subset
  <2>5. Cardinality(1 .. (good - 1)) \in Nat
    BY <2>3, FS_CardinalityType
  <2> HIDE DEF good
  <2> QED BY <1>4, <2>3, <2>4, <2>5
<1>7. ASSUME NEW i \in 1 .. good PROVE lines[i] \in Waypoint
  <2>1. good \in W
    <3> HIDE DEF good
    <3> QED BY <1>4, <1>6, <1>7
  <2>2. i \in W
    <3> HIDE DEF good
    <3> QED BY <1>5, <2>1
  <2>3. i \in 1 .. Len(lines) /\ lines[i] # Malformed
    BY <1>1, <2>2 DEF WellFormed
  <2> QED BY <2>3, ElementOfSeq
<1> QED BY <1>3, <1>4, <1>7

LEMMA ConfigurationIs ==
  ASSUME NEW f \in Files
  PROVE  loadConfiguration(f) \in Seq(Waypoint)
<1> DEFINE good == Cardinality(WellFormed(f.lines))
           n == IF good = Len(f.lines) /\ good > 0 /\ ~f.newline THEN good - 1 ELSE good
<1>1. f.lines \in Seq(Waypoint \cup {Malformed})
  BY FileAssumption DEF Waypoint
<1>2. good \in Nat /\ \A i \in 1 .. good : f.lines[i] \in Waypoint
  BY <1>1, GoodLines, LenProperties
<1>3. loadConfiguration(f) = SubSeq(f.lines, 1, n)
  BY DEF loadConfiguration
<1> HIDE DEF good
<1>4. n \in Int /\ n <= good
  BY <1>2
<1> HIDE DEF n
<1>5. \A i \in 1 .. n : f.lines[i] \in Waypoint
  BY <1>2, <1>4
<1> QED BY <1>3, <1>4, <1>5, SubSeqProperties

-----------------------------------------------------------------------------
(***************************************************************************)
(* The inductive invariant.                                                *)
(***************************************************************************)
Neutral == [drive |-> NTL_PWM, steer |-> NTL_PWM]
Knows(r) ==
  /\ ("sonar" \in known) <=> (r.sonar # Unset)
  /\ ("compass" \in known) <=> (r.compass # Unset)

\* The motors: set together, and for good once the autopilot has started; the
\* switch has nothing but zeros to replay when the course is done.
MotorsInv ==
  /\ (drive = Unset) <=> (steer = Unset)
  /\ state # "INITIALIZING" => drive # Unset
  /\ deadman # TRUE /\ state = "DONE" => saved = Neutral
  /\ AtRest

\* The course: past its end only when it is done, or when it was empty.
CourseInv ==
  /\ main = "configure" => state = "INITIALIZING" /\ curWaypoint = 1
  /\ AtEnd => state = "DONE" \/ waypoints = <<>>
  /\ Honing => ~AtEnd
  /\ main = "crashed" => waypoints = <<>>

\* A detour begins with the readings it needs, and measures before it steers.
DetourInv ==
  /\ main = "realize" => deadman = TRUE /\ reading \in Readings /\ Knows(reading)
  /\ Avoiding => /\ {"compass", "sonar"} \subseteq known
                 /\ mode # Unset /\ initObstacleAvoidanceHeading # Unset
  /\ Avoiding /\ main = "realize" => Near(reading)
  /\ Avoiding /\ main # "realize" =>
       Unset \notin {avoidanceHeading, distTravelled, obstacleDistance}

\* What the autopilot believes to have covered, it has, unless it was stopped.
Believed ==
  IF Avoiding THEN distTravelled - drive * age["lastTime"]
  ELSE Abs(drive * age["firstTime"])
BackingSpeed == DriveFor(-5)
DistanceInv ==
  InEpisode /\ ~paused =>
    /\ deadman = TRUE
    /\ main # "realize" => covered > MaxCovered \/ covered >= Believed
    /\ Avoiding /\ main # "realize" => obstacleDistance <= MaxCovered
    /\ ~Avoiding => IF main = "realize"
                    THEN drive = NTL_PWM /\ age["firstTime"] = 0 /\ covered = 0
                    ELSE drive = BackingSpeed

IInv == TypeOK /\ MotorsInv /\ CourseInv /\ DetourInv /\ DistanceInv

(***************************************************************************)
(* What the actions find.                                                  *)
(***************************************************************************)
LEMMA Numbers ==
  /\ Drives \subseteq Int /\ Steerings \subseteq Int
  /\ Unset \notin Drives /\ Unset \notin Steerings
  /\ NTL_PWM = 0 /\ 0 \in Drives /\ 0 \in Steerings
  /\ BackingSpeed \in Drives
  /\ MaxAge \in Nat /\ MaxCovered \in Nat /\ BACKUP_DIST \in Nat /\ FootTicks \in Nat
  /\ DISTANCE_THRESHOLD_FT \in Nat
<1>1. Drives \subseteq Int /\ Steerings \subseteq Int /\ 0 \in Drives /\ 0 \in Steerings
  BY DEF Drives, Steerings, MAX_DRIVE_PWM, MAX_STEER_PWM
<1>2. DriveFor(-5) \in Drives
  <2>1. -5 \in Int /\ 0 \in Int
    OBVIOUS
  <2> QED BY <2>1, CommandsFit
<1> QED BY <1>1, <1>2, UnsetAssumption, TimeAssumption DEF NTL_PWM, BackingSpeed

LEMMA ReadingIs ==
  ASSUME NEW r \in Readings
  PROVE  /\ r.sonar # Unset => r.sonar \in Sonars /\ r.sonar \in Nat
         /\ r.compass # Unset => Present(r) \in 0 .. 359
         /\ r.place # NoFix => r.place \in Places \cup {Elsewhere}
<1>1. /\ r.sonar \in Sonars \cup {Unset} /\ r.compass \in Compasses \cup {Unset}
      /\ r.place \in Fixes
  BY DEF Readings
<1>2. r.compass # Unset => r.compass \in 0 .. 359
  BY <1>1, CompassAssumption
<1> QED BY <1>1, <1>2, SonarAssumption, FixesAre, HeadingIs, ZenonT(40) DEF Present

\* The heading's error is a number when there is a fix and a waypoint.
LEMMA ErrorIs ==
  ASSUME TypeOK, NEW r \in Readings, ~NoHeading(r), ~AtEnd
  PROVE  Error(r) \in Int
<1>1. r.place \in Places \cup {Elsewhere} /\ Present(r) \in Int
  BY ReadingIs DEF NoHeading
<1>2. Target.place \in Places
  <2>1. Len(waypoints) \in Nat /\ curWaypoint \in 1 .. Len(waypoints)
    BY LenProperties DEF TypeOK, AtEnd
  <2>2. waypoints[curWaypoint] \in [place : Places, hasCone : BOOLEAN]
    BY <2>1, ElementOfSeq DEF TypeOK
  <2> QED BY <2>2 DEF Target
<1>3. Bearing[r.place][Target.place] \in Int
  <2>1. \A p \in Places \cup {Elsewhere} : Bearing[p] \in [Places -> 0 .. 360]
    BY BearingAssumption
  <2>2. Bearing[r.place] \in [Places -> 0 .. 360]
    BY <1>1, <2>1
  <2> QED BY <1>2, <2>2, SMTT(30)
<1> QED BY <1>1, <1>3, DifferenceIs DEF Error

LEMMA CurrentIs ==
  ASSUME IInv, NEW r \in Current
  PROVE  /\ r \in Readings /\ Knows(r) /\ deadman = TRUE
         /\ main \in {"loop", "realize"}
         /\ main = "realize" => r = reading
<1>1. CASE main = "realize"
  BY <1>1 DEF Current, IInv, DetourInv
<1>2. CASE main # "realize"
  BY <1>2 DEF Current, Knows
<1> QED BY <1>1, <1>2

LEMMA Products ==
  /\ \A x \in Int : x * 0 = 0
  /\ \A x, y \in Int : x * y \in Int
  /\ Abs(0) = 0
BY DEF Abs

LEMMA StartedIs ==
  ASSUME TypeOK, NEW c, Started(c)
  PROVE  /\ age' \in [Clocks -> 0 .. MaxAge]
         /\ \A x \in Clocks : x \in c => age'[x] = 0
         /\ \A x \in Clocks : x \notin c => age'[x] = age[x]
BY Numbers DEF TypeOK, Started

LEMMA AdjustIs ==
  ASSUME NEW offset \in Int, NEW speed \in Int, adjustMotors(offset, speed)
  PROVE  drive' \in Drives /\ steer' \in Steerings /\ drive' = DriveFor(speed)
BY CommandsFit DEF adjustMotors, SetMotors

(***************************************************************************)
(* Each action preserves the invariant.                                    *)
(***************************************************************************)
LEMMA InitHolds == Init => IInv
<1> SUFFICES ASSUME Init PROVE IInv
  OBVIOUS
<1>1. waypoints \in Seq([place : Places, hasCone : BOOLEAN]) /\ Len(waypoints) = 0
  BY EmptySeq DEF Init
<1>2. TypeOK
  <2>1. /\ main \in Stages /\ state \in RobotStates /\ curWaypoint \in 1 .. Len(waypoints) + 1
        /\ deadman \in BOOLEAN \cup {Unset} /\ drive \in Drives \cup {Unset}
        /\ steer \in Steerings \cup {Unset} /\ known \in SUBSET Reported
        /\ mode \in {LEFT, RIGHT, Unset}
    BY <1>1 DEF Init, Stages, RobotStates
  <2>2. saved \in [drive : Drives, steer : Steerings]
    BY Numbers DEF Init
  <2>3. age \in [Clocks -> 0 .. MaxAge]
    BY Numbers DEF Init
  <2>4. coneOnPause \in BOOLEAN /\ paused \in BOOLEAN
    BY Zenon DEF Init
  <2> QED BY <1>1, <2>1, <2>2, <2>3, <2>4 DEF Init, TypeOK
<1>3. MotorsInv
  BY DEF Init, MotorsInv, AtRest
<1>4. CourseInv
  BY <1>1, EmptySeq DEF Init, CourseInv, AtEnd, Honing
<1>5. DetourInv /\ DistanceInv
  BY DEF Init, DetourInv, DistanceInv, Avoiding, InEpisode
<1> QED BY <1>2, <1>3, <1>4, <1>5 DEF IInv

LEMMA StartUpHolds == IInv /\ StartUp => IInv'
<1> SUFFICES ASSUME IInv, StartUp PROVE IInv'
  OBVIOUS
<1>1. /\ main \in {"configure", "camera", "devices"}
      /\ main' \in {"returned", "camera", "devices", "loop", "unwound"}
      /\ \/ waypoints' = waypoints
         \/ main = "configure" /\ \E f \in Files : waypoints' = loadConfiguration(f)
      /\ UNCHANGED <<deadman, saved, drive, steer, known, state, curWaypoint, coneOnPause>>
      /\ UNCHANGED <<mode, avoidanceHeading, initObstacleAvoidanceHeading, distTravelled,
                     obstacleDistance, age, reading, covered, paused>>
  BY DEF StartUp, Configure, OpenCamera, FindDevices, switchVars, avoidVars, historyVars
<1>2. waypoints' \in Seq([place : Places, hasCone : BOOLEAN])
  BY <1>1, ConfigurationIs, ZenonT(40) DEF IInv, TypeOK, Waypoint
<1>3. Len(waypoints') \in Nat /\ (waypoints' # <<>> => Len(waypoints') >= 1)
  BY <1>2, LenProperties, EmptySeq
<1>4. main = "configure" => state = "INITIALIZING" /\ curWaypoint = 1
  BY DEF IInv, CourseInv
<1>5. curWaypoint' \in 1 .. Len(waypoints') + 1
  BY <1>1, <1>3, <1>4 DEF IInv, TypeOK
<1>6. TypeOK'
  BY <1>1, <1>2, <1>5 DEF IInv, TypeOK, Stages
<1>7. MotorsInv' /\ DetourInv' /\ DistanceInv'
  BY <1>1 DEF IInv, MotorsInv, AtRest, DetourInv, DistanceInv, Knows, Avoiding, InEpisode, Believed
<1>8. CourseInv'
  BY <1>1, <1>3, <1>4 DEF IInv, CourseInv, AtEnd, Honing
<1> QED BY <1>6, <1>7, <1>8 DEF IInv

LEMMA ReportHolds ==
  ASSUME IInv, NEW sensor \in Reported, Report(sensor)
  PROVE  IInv'
<1>1. /\ main = "loop" /\ known' = known \cup {sensor}
      /\ UNCHANGED <<main, waypoints, deadman, saved, drive, steer, state, curWaypoint, coneOnPause>>
      /\ UNCHANGED <<mode, avoidanceHeading, initObstacleAvoidanceHeading, distTravelled,
                     obstacleDistance, age, reading, covered, paused>>
  BY DEF Report, switchVars, avoidVars, historyVars
<1>2. TypeOK'
  BY <1>1 DEF IInv, TypeOK
<1>3. MotorsInv' /\ CourseInv' /\ DistanceInv'
  BY <1>1 DEF IInv, MotorsInv, AtRest, CourseInv, DistanceInv, AtEnd, Honing, Avoiding, InEpisode,
     Believed
<1>4. DetourInv'
  BY <1>1 DEF IInv, DetourInv, Avoiding
<1> QED BY <1>2, <1>3, <1>4 DEF IInv

LEMMA SwitchHolds ==
  ASSUME IInv, NEW engaged \in BOOLEAN, SwitchReport(engaged)
  PROVE  IInv'
<1>1. /\ main = "loop" /\ engaged # deadman /\ deadman' = engaged
      /\ UNCHANGED <<main, waypoints, known, state, curWaypoint, coneOnPause>>
      /\ UNCHANGED <<mode, avoidanceHeading, initObstacleAvoidanceHeading, distTravelled,
                     obstacleDistance, age, reading, covered>>
  BY DEF SwitchReport, avoidVars
<1>2. \/ engaged /\ drive' = saved.drive /\ steer' = saved.steer /\ UNCHANGED <<saved, paused>>
      \/ ~engaged /\ Unset \in {drive, steer} /\ UNCHANGED <<drive, steer, saved, paused>>
      \/ /\ ~engaged /\ Unset \notin {drive, steer} /\ drive' = 0 /\ steer' = 0
         /\ saved' = [drive |-> drive, steer |-> steer] /\ paused' = InEpisode
  BY Numbers DEF SwitchReport, deadmanSlot, Engage, Release, SetMotors
<1>3. saved \in [drive : Drives, steer : Steerings] /\ saved.drive \in Drives /\ saved.steer \in Steerings
  BY DEF IInv, TypeOK
<1>4. TypeOK'
  <2>1. drive' \in Drives \cup {Unset} /\ steer' \in Steerings \cup {Unset}
    BY <1>2, <1>3, Numbers DEF IInv, TypeOK
  <2>2. saved' \in [drive : Drives, steer : Steerings]
    BY <1>2, <1>3 DEF IInv, TypeOK
  <2>3. paused' \in BOOLEAN /\ deadman' \in BOOLEAN \cup {Unset}
    <3>1. paused \in BOOLEAN
      BY Zenon DEF IInv, TypeOK
    <3>2. InEpisode \in BOOLEAN
      BY DEF InEpisode
    <3>3. paused' \in BOOLEAN
      <4>1. CASE UNCHANGED <<saved, paused>>
        BY <3>1, <4>1, Zenon
      <4>2. CASE UNCHANGED <<drive, steer, saved, paused>>
        BY <3>1, <4>2, Zenon
      <4>3. CASE paused' = InEpisode
        BY <3>2, <4>3, Zenon
      <4> QED BY <1>2, <4>1, <4>2, <4>3, Zenon
    <3> QED BY <1>1, <3>3, Zenon
  <2> QED BY <1>1, <2>1, <2>2, <2>3 DEF IInv, TypeOK
<1>5. MotorsInv'
  <2>1. (drive' = Unset) <=> (steer' = Unset)
    BY <1>2, <1>3, Numbers DEF IInv, MotorsInv
  <2>2. state' # "INITIALIZING" => drive' # Unset
    BY <1>1, <1>2, <1>3, Numbers DEF IInv, MotorsInv
  <2>3. ASSUME deadman' # TRUE, state' = "DONE" PROVE saved' = Neutral
    <3>1. ~engaged /\ state = "DONE" /\ drive # Unset /\ steer # Unset
      BY <1>1, <2>3 DEF IInv, MotorsInv
    <3>2. {drive, steer} \subseteq {NTL_PWM, Unset}
      BY <3>1 DEF IInv, MotorsInv, AtRest
    <3> QED BY <1>2, <3>1, <3>2 DEF Neutral
  <2>4. AtRest'
    <3>1. CASE engaged
      <4>1. SUFFICES ASSUME state' = "DONE" PROVE {drive', steer'} \subseteq {NTL_PWM, Unset}
        BY <1>1, <3>1 DEF AtRest
      <4>2. deadman # TRUE /\ state = "DONE"
        BY <1>1, <3>1, <4>1
      <4>3. saved = Neutral
        BY <4>2 DEF IInv, MotorsInv
      <4> QED BY <1>2, <3>1, <4>3 DEF Neutral
    <3>2. CASE ~engaged
      <4>1. {drive', steer'} \subseteq {NTL_PWM, Unset}
        BY <1>2, <3>2, Numbers DEF IInv, MotorsInv
      <4> QED BY <4>1 DEF AtRest
    <3> QED BY <3>1, <3>2
  <2> QED BY <2>1, <2>2, <2>3, <2>4 DEF MotorsInv
<1>6. CourseInv' /\ DetourInv'
  BY <1>1 DEF IInv, CourseInv, DetourInv, AtEnd, Honing, Avoiding
<1>7. DistanceInv'
  <2>1. SUFFICES ASSUME InEpisode', ~paused' PROVE FALSE
    BY DEF DistanceInv
  <2>2. InEpisode /\ drive # Unset /\ steer # Unset
    BY <1>1, <2>1 DEF IInv, MotorsInv, InEpisode
  <2>3. CASE engaged
    <3>1. ~paused
      BY <1>2, <2>1, <2>3
    <3> QED BY <1>1, <2>2, <2>3, <3>1 DEF IInv, DistanceInv
  <2>4. CASE ~engaged
    BY <1>2, <2>1, <2>2, <2>4
  <2> QED BY <2>3, <2>4
<1> QED BY <1>4, <1>5, <1>6, <1>7 DEF IInv

\* Rounds of realize() that change nothing.
LEMMA IdleHolds ==
  ASSUME IInv, NEW r \in Current, Swallow(r) \/ Dereference(r) \/ HoningBlind(r) \/ Finished(r)
  PROVE  IInv'
<1>1. /\ main' \in {"loop", "crashed", "noFrame"} /\ reading' = NoReading
      /\ state \in {"HONING_ON_CONE", "CRUISING", "DONE"}
      /\ main' = "crashed" => AtEnd /\ state # "DONE"
      /\ UNCHANGED <<waypoints, deadman, saved, known, drive, steer, state, curWaypoint, coneOnPause>>
      /\ UNCHANGED <<mode, avoidanceHeading, initObstacleAvoidanceHeading, distTravelled,
                     obstacleDistance, age, covered, paused>>
  BY DEF Swallow, Dereference, HoningBlind, Finished, Looking, Break, others, switchVars, motorVars,
     avoidVars, historyVars, Honing, Cruising
<1>2. TypeOK'
  BY <1>1 DEF IInv, TypeOK, Stages
<1>3. MotorsInv' /\ CourseInv' /\ DetourInv' /\ DistanceInv'
  BY <1>1 DEF IInv, MotorsInv, AtRest, CourseInv, DetourInv, DistanceInv, AtEnd, Honing, Avoiding,
     InEpisode
<1> QED BY <1>2, <1>3 DEF IInv

LEMMA InitializeHolds ==
  ASSUME IInv, NEW r \in Current, Initialize(r)
  PROVE  IInv'
<1>1. /\ main' = "loop" /\ reading' = NoReading /\ state = "INITIALIZING" /\ state' = "CRUISING"
      /\ drive' = 0 /\ steer' = 0
      /\ UNCHANGED <<waypoints, deadman, saved, known, curWaypoint, coneOnPause>>
      /\ UNCHANGED <<mode, avoidanceHeading, initObstacleAvoidanceHeading, distTravelled,
                     obstacleDistance, age, covered, paused>>
  BY Numbers DEF Initialize, SetMotors, Break, others, switchVars, avoidVars, historyVars
<1>2. TypeOK'
  BY <1>1, Numbers DEF IInv, TypeOK, Stages, RobotStates
<1>3. deadman = TRUE
  BY CurrentIs
<1>4. MotorsInv'
  BY <1>1, <1>3, Numbers DEF MotorsInv, AtRest
<1>5. CourseInv' /\ DetourInv' /\ DistanceInv'
  BY <1>1 DEF IInv, CourseInv, DetourInv, DistanceInv, AtEnd, Honing, Avoiding, InEpisode
<1> QED BY <1>2, <1>4, <1>5 DEF IInv

\* Rounds that only steer, or pause, on the way to a cone.
LEMMA HoningHolds ==
  ASSUME IInv, NEW r \in Current, HoningPaused(r) \/ HoningSearches(r) \/ HoningSees(r)
  PROVE  IInv'
<1>1. /\ main' = "loop" /\ reading' = NoReading /\ state = "HONING_ON_CONE"
      /\ UNCHANGED <<waypoints, deadman, saved, known, state, curWaypoint>>
      /\ UNCHANGED <<mode, avoidanceHeading, initObstacleAvoidanceHeading, distTravelled,
                     obstacleDistance, covered, paused>>
  BY DEF HoningPaused, HoningSearches, HoningSees, Looking, Honing, Break, others, switchVars,
     avoidVars, historyVars
<1>2. deadman = TRUE /\ r \in Readings
  BY CurrentIs
<1>3. drive # Unset /\ steer # Unset /\ drive \in Drives /\ steer \in Steerings
  BY <1>1 DEF IInv, MotorsInv, TypeOK
<1>4. /\ drive' \in Drives /\ steer' \in Steerings
      /\ coneOnPause' \in BOOLEAN
      /\ age' \in [Clocks -> 0 .. MaxAge]
  <2>1. CASE HoningPaused(r)
    <3>1. age' = age /\ coneOnPause' \in BOOLEAN
      BY <2>1 DEF HoningPaused, IInv, TypeOK
    <3>2. UNCHANGED <<drive, steer>> \/ adjustMotors(0, 0)
      BY <2>1 DEF HoningPaused, motorVars
    <3>3. drive' \in Drives /\ steer' \in Steerings
      <4>1. 0 \in Int
        OBVIOUS
      <4> QED BY <1>3, <3>2, <4>1, AdjustIs
    <3> QED BY <3>1, <3>3 DEF IInv, TypeOK
  <2>2. CASE HoningSearches(r)
    <3>1. age' = age /\ coneOnPause' = coneOnPause /\ adjustMotors(50, 0)
      BY <2>2 DEF HoningSearches
    <3>2. 0 \in Int /\ 50 \in Int
      OBVIOUS
    <3> QED BY <3>1, <3>2, AdjustIs DEF IInv, TypeOK
  <2>3. CASE HoningSees(r)
    <3>1. PICK bound \in Frames \ {NoFrame} :
            \/ /\ coneOnPause' = TRUE /\ Started({"firstPauseTime", "lastConeTime"})
               /\ UNCHANGED <<drive, steer>>
            \/ /\ Started({"lastConeTime"}) /\ coneOnPause' = coneOnPause
               /\ adjustMotors(2 * angularDifference(Present(r) - cameraHeading(bound), Present(r)),
                               MAX_DRIVE_PWM \div 2)
      BY <2>3 DEF HoningSees, motorVars
    <3>2. Present(r) \in Int
      BY <1>2, <2>3, ReadingIs DEF HoningSees, Looking, NoHeading
    <3>3. cameraHeading(bound) \in Int
      BY CameraHeadingIs
    <3>4. angularDifference(Present(r) - cameraHeading(bound), Present(r)) \in Int
      BY <3>2, <3>3, DifferenceIs
    <3>5. /\ 2 * angularDifference(Present(r) - cameraHeading(bound), Present(r)) \in Int
          /\ MAX_DRIVE_PWM \div 2 \in Int
      BY <3>4 DEF MAX_DRIVE_PWM
    <3>6. TypeOK
      BY DEF IInv
    <3>7. age' \in [Clocks -> 0 .. MaxAge]
      BY <3>1, <3>6, StartedIs
    <3>8. drive' \in Drives /\ steer' \in Steerings
      BY <1>3, <3>1, <3>5, AdjustIs
    <3>9. coneOnPause' \in BOOLEAN
      BY <3>1, <3>6, Zenon DEF TypeOK
    <3> QED BY <3>7, <3>8, <3>9
  <2> QED BY <2>1, <2>2, <2>3
<1>5. TypeOK'
  BY <1>1, <1>4 DEF IInv, TypeOK, Stages
<1>6. MotorsInv'
  BY <1>1, <1>2, <1>4, Numbers DEF MotorsInv, AtRest
<1>7. CourseInv' /\ DetourInv' /\ DistanceInv'
  BY <1>1 DEF IInv, CourseInv, DetourInv, DistanceInv, AtEnd, Honing, Avoiding, InEpisode
<1> QED BY <1>5, <1>6, <1>7 DEF IInv

\* What taking the next waypoint does, in front of the end of the course.
LEMMA NextWaypoint ==
  ASSUME IInv, ~AtEnd, NEW next \in {"CRUISING", "DISENGAGING_FROM_CONE"}, incrementWaypoint(next),
         waypoints' = waypoints
  PROVE  /\ drive' = 0 /\ steer' = 0
         /\ state' \in {next, "DONE"}
         /\ curWaypoint' \in 1 .. Len(waypoints) + 1
         /\ AtEnd' => state' = "DONE"
<1>1. Len(waypoints) \in Nat /\ curWaypoint \in 1 .. Len(waypoints)
  BY LenProperties DEF IInv, TypeOK, AtEnd
<1>2. /\ drive' = 0 /\ steer' = 0 /\ curWaypoint' = curWaypoint + 1
      /\ state' = IF curWaypoint = Len(waypoints) THEN "DONE" ELSE next
  BY Numbers DEF incrementWaypoint, SetMotors
<1>3. AtEnd' => curWaypoint = Len(waypoints)
  <2>1. Len(waypoints') = Len(waypoints)
    OBVIOUS
  <2> QED BY <1>1, <1>2, <2>1 DEF AtEnd
<1>4. state' \in {next, "DONE"}
  BY <1>2
<1>5. curWaypoint' \in 1 .. Len(waypoints) + 1
  BY <1>1, <1>2
<1> QED BY <1>2, <1>3, <1>4, <1>5

LEMMA BumpedHolds ==
  ASSUME IInv, NEW r \in Current, HoningBumped(r)
  PROVE  IInv'
<1>1. /\ main' = "realize" /\ reading' = r /\ state = "HONING_ON_CONE"
      /\ incrementWaypoint("DISENGAGING_FROM_CONE") /\ Started({"firstTime"})
      /\ covered' = 0 /\ paused' = FALSE
      /\ UNCHANGED <<waypoints, deadman, saved, known, coneOnPause>>
      /\ UNCHANGED <<mode, avoidanceHeading, initObstacleAvoidanceHeading, distTravelled,
                     obstacleDistance>>
  BY DEF HoningBumped, Honing, GotoEvaluate, Episode, others, switchVars, avoidVars
<1>2. deadman = TRUE /\ r \in Readings /\ Knows(r)
  BY CurrentIs
<1>3. ~AtEnd
  BY <1>1 DEF IInv, CourseInv, Honing
<1>4. /\ drive' = 0 /\ steer' = 0
      /\ state' \in {"DISENGAGING_FROM_CONE", "DONE"}
      /\ curWaypoint' \in 1 .. Len(waypoints) + 1
      /\ AtEnd' => state' = "DONE"
  BY <1>1, <1>3, NextWaypoint
<1>5. age' \in [Clocks -> 0 .. MaxAge] /\ age'["firstTime"] = 0
  BY <1>1, StartedIs DEF IInv, Clocks
<1>6. TypeOK'
  BY <1>1, <1>2, <1>4, <1>5, Numbers, ZenonT(40) DEF IInv, TypeOK, Stages, RobotStates
<1>7. MotorsInv'
  BY <1>1, <1>2, <1>4, Numbers DEF MotorsInv, AtRest
<1>8. CourseInv'
  BY <1>1, <1>4 DEF CourseInv, Honing
<1>9. DetourInv'
  BY <1>1, <1>2, <1>4 DEF DetourInv, Avoiding, Knows
<1>10. DistanceInv'
  BY <1>1, <1>2, <1>4, <1>5, Numbers DEF DistanceInv, Avoiding, InEpisode
<1> QED BY <1>6, <1>7, <1>8, <1>9, <1>10 DEF IInv

LEMMA ObstructedHolds ==
  ASSUME IInv, NEW r \in Current, CruisingObstructed(r)
  PROVE  IInv'
<1>1. /\ main' = "realize" /\ reading' = r /\ state = "CRUISING" /\ state' = "OBSTACLE_AVOID"
      /\ initObstacleAvoidanceHeading' = Present(r) /\ mode' = RIGHT
      /\ r.compass # Unset /\ r.sonar # Unset /\ Near(r) /\ ~AtEnd
      /\ UNCHANGED <<waypoints, deadman, saved, known, drive, steer, curWaypoint, coneOnPause>>
      /\ UNCHANGED <<avoidanceHeading, distTravelled, obstacleDistance, age, covered, paused>>
  BY DEF CruisingObstructed, Aware, Obstructed, Cruising, NoHeading, GotoEvaluate, others, switchVars,
     motorVars, historyVars
<1>2. deadman = TRUE /\ r \in Readings /\ Knows(r)
  BY CurrentIs
<1>3. Present(r) \in 0 .. 359
  BY <1>1, <1>2, ReadingIs
<1>4. RIGHT # Unset /\ Present(r) # Unset
  BY <1>3, UnsetAssumption DEF RIGHT
<1>5. TypeOK'
  BY <1>1, <1>2, <1>3 DEF IInv, TypeOK, Stages, RobotStates
<1>6. MotorsInv' /\ CourseInv'
  BY <1>1, <1>2 DEF IInv, MotorsInv, AtRest, CourseInv, AtEnd, Honing
<1>7. DetourInv'
  BY <1>1, <1>2, <1>4 DEF DetourInv, Avoiding, Knows, Near
<1>8. DistanceInv'
  BY <1>1, <1>2 DEF DistanceInv, Avoiding
<1> QED BY <1>5, <1>6, <1>7, <1>8 DEF IInv

LEMMA ClearHolds ==
  ASSUME IInv, NEW r \in Current, CruisingClear(r)
  PROVE  IInv'
<1>1. /\ state = "CRUISING" /\ ~AtEnd /\ ~NoHeading(r) /\ r.sonar # Unset
      /\ \/ incrementWaypoint("CRUISING") /\ main' = "loop"
         \/ /\ adjustMotors(2 * Error(r), CruisingSpeed(r.sonar, Error(r)))
            /\ state' \in {"HONING_ON_CONE", "CRUISING"} /\ curWaypoint' = curWaypoint
      /\ \/ main' = "realize" /\ reading' = r /\ Started({"lastConeTime"})
         \/ main' = "loop" /\ reading' = NoReading /\ age' = age
      /\ UNCHANGED <<waypoints, deadman, saved, known, coneOnPause>>
      /\ UNCHANGED <<mode, avoidanceHeading, initObstacleAvoidanceHeading, distTravelled,
                     obstacleDistance, covered, paused>>
  BY DEF CruisingClear, Aware, Cruising, Break, GotoEvaluate, others, switchVars, avoidVars, historyVars
<1>2. deadman = TRUE /\ r \in Readings /\ Knows(r)
  BY CurrentIs
<1>3. /\ drive' \in Drives /\ steer' \in Steerings
      /\ curWaypoint' \in 1 .. Len(waypoints) + 1
      /\ state' \in {"HONING_ON_CONE", "CRUISING", "DONE"}
      /\ AtEnd' => state' = "DONE"
      /\ state' = "DONE" => drive' = 0 /\ steer' = 0
  <2>1. CASE incrementWaypoint("CRUISING")
    BY <1>1, <2>1, NextWaypoint, Numbers
  <2>2. CASE ~incrementWaypoint("CRUISING")
    <3>1. Error(r) \in Int
      BY <1>1, <1>2, ErrorIs DEF IInv
    <3>2. r.sonar \in Nat
      BY <1>1, <1>2, ReadingIs
    <3>3. CruisingSpeed(r.sonar, Error(r)) \in Int
      BY <3>1, <3>2, SpeedsAre
    <3>4. 2 * Error(r) \in Int
      BY <3>1
    <3>5. drive' \in Drives /\ steer' \in Steerings
      BY <1>1, <2>2, <3>3, <3>4, AdjustIs
    <3> QED BY <1>1, <2>2, <3>5 DEF IInv, TypeOK, AtEnd
  <2> QED BY <2>1, <2>2
<1>4. age' \in [Clocks -> 0 .. MaxAge]
  BY <1>1, StartedIs DEF IInv, TypeOK
<1>5. TypeOK'
  BY <1>1, <1>2, <1>3, <1>4, Numbers DEF IInv, TypeOK, Stages, RobotStates
<1>6. MotorsInv'
  BY <1>1, <1>2, <1>3, Numbers DEF MotorsInv, AtRest
<1>7. CourseInv'
  BY <1>1, <1>3 DEF CourseInv, Honing
<1>8. DetourInv'
  BY <1>1, <1>2, <1>3 DEF DetourInv, Avoiding, Knows
<1>9. DistanceInv'
  BY <1>3 DEF DistanceInv, InEpisode
<1> QED BY <1>5, <1>6, <1>7, <1>8, <1>9 DEF IInv

\* A round that sees the obstacle measures from here, and turns away.
LEMMA AvoidNearHolds ==
  ASSUME IInv, NEW r \in Current, AvoidNear(r)
  PROVE  IInv'
<1>1. /\ main' = "loop" /\ reading' = NoReading
      /\ state = "OBSTACLE_AVOID" /\ state' = state
      /\ r.compass # Unset /\ r.sonar # Unset /\ drive # Unset /\ Near(r)
      /\ mode' = LEFT \/ mode' = mode
      /\ avoidanceHeading' = Present(r) - mode' * AvoidAngle[r.sonar]
      /\ obstacleDistance' = r.sonar * FootTicks /\ distTravelled' = 0
      /\ Started({"lastTime"}) /\ covered' = 0 /\ paused' = FALSE
      /\ adjustMotors(angularDifference(avoidanceHeading', Present(r)), AvoidingSpeed(r.sonar))
      /\ UNCHANGED <<waypoints, deadman, saved, known, curWaypoint, coneOnPause,
                     initObstacleAvoidanceHeading>>
  BY DEF AvoidNear, Avoiding, Break, Episode, others, switchVars
<1>2. deadman = TRUE /\ r \in Readings
  BY CurrentIs
<1>3. mode' \in {LEFT, RIGHT}
  BY <1>1 DEF IInv, TypeOK, DetourInv, Avoiding
<1>4. r.sonar \in Sonars /\ r.sonar \in Nat /\ Present(r) \in 0 .. 359
  BY <1>1, <1>2, ReadingIs
<1>5. avoidanceHeading' \in -90 .. 450
  <2>1. PICK angle \in 0 .. 90 : angle = AvoidAngle[r.sonar]
    BY <1>4, AvoidAssumption
  <2>2. PICK present \in 0 .. 359 : present = Present(r)
    BY <1>4
  <2>3. avoidanceHeading' = present - mode' * angle
    BY <1>1, <2>1, <2>2
  <2>4. mode' * angle = angle \/ mode' * angle = -angle
    <3>1. 1 * angle = angle /\ (-1) * angle = -angle
      OBVIOUS
    <3>2. mode' = 1 \/ mode' = -1
      BY <1>3 DEF LEFT, RIGHT
    <3> QED BY <3>1, <3>2
  <2>5. present - angle \in -90 .. 450 /\ present - (-angle) \in -90 .. 450
    OBVIOUS
  <2> QED BY <2>3, <2>4, <2>5
<1>6. obstacleDistance' \in Nat /\ obstacleDistance' <= MaxCovered
  <2>1. r.sonar * FootTicks <= MaxCovered
    BY <1>1, <1>4, CoveredAssumption DEF Near
  <2>2. r.sonar * FootTicks \in Nat
    <3>1. \A a, b \in Nat : a * b \in Nat
      OBVIOUS
    <3> QED BY <1>4, <3>1, Numbers
  <2> QED BY <1>1, <2>1, <2>2
<1>7. age' \in [Clocks -> 0 .. MaxAge] /\ age'["lastTime"] = 0
  BY <1>1, StartedIs DEF IInv, Clocks
<1>8. drive' \in Drives /\ steer' \in Steerings
  <2>1. PICK h \in Int : h = avoidanceHeading'
    BY <1>5
  <2>2. Present(r) \in Int
    BY <1>4
  <2>3. angularDifference(h, Present(r)) \in Int
    BY <2>2, DifferenceIs
  <2>4. AvoidingSpeed(r.sonar) \in Int
    <3>1. 0 \in Int
      OBVIOUS
    <3> QED BY <1>4, <3>1, SpeedsAre
  <2>5. adjustMotors(angularDifference(h, Present(r)), AvoidingSpeed(r.sonar))
    BY <1>1, <2>1
  <2> QED BY <2>3, <2>4, <2>5, AdjustIs
<1>9. TypeOK'
  <2>1. distTravelled' \in Int /\ covered' \in Int
    BY <1>1
  <2>2. paused' \in BOOLEAN /\ coneOnPause' \in BOOLEAN
    BY <1>1, Zenon DEF IInv, TypeOK
  <2>3. /\ main' \in Stages /\ state' \in RobotStates /\ reading' \in Readings \cup {NoReading}
        /\ waypoints' \in Seq([place : Places, hasCone : BOOLEAN])
        /\ curWaypoint' \in 1 .. Len(waypoints') + 1
        /\ deadman' \in BOOLEAN \cup {Unset} /\ known' \in SUBSET Reported
        /\ saved' \in [drive : Drives, steer : Steerings]
        /\ initObstacleAvoidanceHeading' \in 0 .. 360 \cup {Unset}
    BY <1>1 DEF IInv, TypeOK, Stages
  <2> QED BY <1>3, <1>5, <1>6, <1>7, <1>8, <2>1, <2>2, <2>3 DEF TypeOK
<1>10. MotorsInv' /\ CourseInv'
  BY <1>1, <1>2, <1>8, Numbers DEF IInv, MotorsInv, AtRest, CourseInv, AtEnd, Honing
<1>11. DetourInv'
  <2>1. Unset \notin {avoidanceHeading', distTravelled', obstacleDistance', mode'}
    BY <1>1, <1>3, <1>5, <1>6, UnsetAssumption, SMTT(30) DEF LEFT, RIGHT
  <2> QED BY <1>1, <2>1 DEF IInv, DetourInv, Avoiding
<1>12. DistanceInv'
  <2>1. Believed' = distTravelled' - drive' * age'["lastTime"]
    BY <1>1 DEF Believed, Avoiding
  <2>2. drive' \in Int
    BY <1>8, Numbers
  <2>3. drive' * 0 = 0
    BY <2>2, Products
  <2>4. Believed' = 0
    BY <1>1, <1>7, <2>1, <2>3
  <2> QED BY <1>1, <1>2, <1>6, <2>4 DEF DistanceInv, Avoiding, InEpisode
<1> QED BY <1>9, <1>10, <1>11, <1>12 DEF IInv

\* What a round past the obstacle finds, and what it concludes from it.
LEMMA FarIs ==
  ASSUME IInv, NEW r \in Current, AvoidFar(r)
  PROVE  /\ deadman = TRUE /\ r \in Readings /\ main = "loop" /\ Knows(r)
         /\ drive \in Int /\ age["lastTime"] \in Nat
         /\ avoidanceHeading \in -90 .. 450 /\ distTravelled \in Int /\ obstacleDistance \in Nat
         /\ distTravelled - drive * age["lastTime"] \in Int
         /\ ~paused => /\ \/ covered > MaxCovered
                          \/ covered >= distTravelled - drive * age["lastTime"]
                       /\ obstacleDistance <= MaxCovered
<1>1. Avoiding /\ ~Near(r) /\ drive # Unset
  BY DEF AvoidFar
<1>2. deadman = TRUE /\ r \in Readings /\ main = "loop" /\ Knows(r)
  BY <1>1, CurrentIs DEF IInv, DetourInv
<1>3. Unset \notin {avoidanceHeading, distTravelled, obstacleDistance}
  BY <1>1, <1>2 DEF IInv, DetourInv
<1>4. /\ avoidanceHeading \in -90 .. 450 /\ distTravelled \in Int /\ obstacleDistance \in Nat
      /\ drive \in Int
  BY <1>1, <1>3, Numbers DEF IInv, TypeOK
<1>5. age["lastTime"] \in Nat
  BY Numbers DEF IInv, TypeOK, Clocks
<1>6. distTravelled - drive * age["lastTime"] \in Int
  <2>1. \A a, b, c \in Int : a - b * c \in Int
    OBVIOUS
  <2> QED BY <1>4, <1>5, <2>1
<1>7. ~paused => /\ covered > MaxCovered \/ covered >= Believed
                 /\ obstacleDistance <= MaxCovered
  BY <1>1, <1>2 DEF IInv, DistanceInv, InEpisode, Avoiding
<1> QED BY <1>1, <1>2, <1>4, <1>5, <1>6, <1>7 DEF Believed

LEMMA AvoidFarHolds ==
  ASSUME IInv, NEW r \in Current, AvoidFar(r)
  PROVE  IInv'
<1> DEFINE travelled == distTravelled - drive * age["lastTime"]
<1>1. /\ state = "OBSTACLE_AVOID" /\ r.compass # Unset /\ r.sonar # Unset /\ drive # Unset
      /\ UNCHANGED <<waypoints, deadman, saved, known, curWaypoint, coneOnPause, covered, paused>>
      /\ \/ /\ Resume /\ main' = "realize" /\ reading' = r /\ UNCHANGED <<drive, steer, age>>
         \/ /\ mode' = LEFT \/ mode' = mode
            /\ distTravelled' = travelled /\ Started({"lastTime"})
            /\ adjustMotors(angularDifference(avoidanceHeading, Present(r)), AvoidingSpeed(r.sonar))
            /\ main' = "loop" /\ reading' = NoReading
            /\ UNCHANGED <<state, avoidanceHeading, obstacleDistance, initObstacleAvoidanceHeading>>
  BY DEF AvoidFar, Avoiding, GotoEvaluate, Break, others, switchVars, motorVars, historyVars
<1>2. /\ deadman = TRUE /\ r \in Readings /\ main = "loop" /\ Knows(r)
      /\ avoidanceHeading \in -90 .. 450 /\ obstacleDistance \in Nat
      /\ travelled \in Int
      /\ ~paused => /\ covered > MaxCovered \/ covered >= travelled
                    /\ obstacleDistance <= MaxCovered
  BY FarIs, ZenonT(40)
<1> HIDE DEF travelled
<1>3. CASE Resume /\ main' = "realize" /\ reading' = r /\ UNCHANGED <<drive, steer, age>>
  <2>1. /\ state' = "CRUISING"
        /\ mode' = Unset /\ avoidanceHeading' = Unset /\ initObstacleAvoidanceHeading' = Unset
        /\ distTravelled' = Unset /\ obstacleDistance' = Unset
    BY <1>3 DEF Resume
  <2>2. TypeOK'
    BY <1>1, <1>2, <1>3, <2>1 DEF IInv, TypeOK, Stages, RobotStates
  <2>3. MotorsInv' /\ CourseInv'
    BY <1>1, <1>2, <1>3, <2>1 DEF IInv, MotorsInv, AtRest, CourseInv, AtEnd, Honing
  <2>4. DetourInv' /\ DistanceInv'
    BY <1>1, <1>2, <1>3, <2>1 DEF DetourInv, DistanceInv, Avoiding, Knows, InEpisode
  <2> QED BY <2>2, <2>3, <2>4 DEF IInv
<1>4. CASE /\ mode' = LEFT \/ mode' = mode
           /\ distTravelled' = travelled /\ Started({"lastTime"})
           /\ adjustMotors(angularDifference(avoidanceHeading, Present(r)), AvoidingSpeed(r.sonar))
           /\ main' = "loop" /\ reading' = NoReading
           /\ UNCHANGED <<state, avoidanceHeading, obstacleDistance, initObstacleAvoidanceHeading>>
  <2>1. r.sonar \in Nat /\ Present(r) \in 0 .. 359
    BY <1>1, <1>2, ReadingIs
  <2>2. drive' \in Drives /\ steer' \in Steerings
    <3>1. angularDifference(avoidanceHeading, Present(r)) \in Int
      <4>1. avoidanceHeading \in Int /\ Present(r) \in Int
        BY <1>2, <2>1
      <4> QED BY <4>1, DifferenceIs
    <3>2. AvoidingSpeed(r.sonar) \in Int
      <4>1. 0 \in Int
        OBVIOUS
      <4> QED BY <2>1, <4>1, SpeedsAre
    <3> QED BY <1>4, <3>1, <3>2, AdjustIs
  <2>3. age' \in [Clocks -> 0 .. MaxAge] /\ age'["lastTime"] = 0
    BY <1>4, StartedIs DEF IInv, Clocks
  <2>4. mode' \in {LEFT, RIGHT}
    BY <1>1, <1>4 DEF IInv, TypeOK, DetourInv, Avoiding
  <2>5. TypeOK'
    BY <1>1, <1>2, <1>4, <2>2, <2>3, <2>4 DEF IInv, TypeOK, Stages
  <2>6. MotorsInv' /\ CourseInv'
    BY <1>1, <1>2, <1>4, <2>2, Numbers DEF IInv, MotorsInv, AtRest, CourseInv, AtEnd, Honing
  <2>7. DetourInv'
    <3>1. Unset \notin {avoidanceHeading', distTravelled', obstacleDistance', mode'}
      BY <1>2, <1>4, <2>4, UnsetAssumption DEF LEFT, RIGHT
    <3> QED BY <1>1, <1>4, <3>1 DEF IInv, DetourInv, Avoiding
  <2>8. DistanceInv'
    <3>1. Believed' = distTravelled' - drive' * age'["lastTime"]
      BY <1>1, <1>4 DEF Believed, Avoiding
    <3>2. drive' \in Int
      BY <2>2, Numbers
    <3>3. drive' * 0 = 0
      BY <3>2, Products
    <3>4. Believed' = travelled
      BY <1>2, <1>4, <2>3, <3>1, <3>3
    <3> QED BY <1>1, <1>2, <1>4, <3>4 DEF DistanceInv, Avoiding, InEpisode
  <2> QED BY <2>5, <2>6, <2>7, <2>8 DEF IInv
<1> QED BY <1>1, <1>3, <1>4

\* What a round of backing away finds: before the first one the motors stand still.
LEMMA BackingIs ==
  ASSUME IInv, NEW r \in Current, Disengage(r)
  PROVE  /\ deadman = TRUE /\ r \in Readings /\ Knows(r)
         /\ drive \in Int /\ age["firstTime"] \in Nat
         /\ Abs(drive * age["firstTime"]) \in Nat
         /\ BACKUP_DIST <= MaxCovered
         /\ ~paused => \/ main = "loop" /\ drive = BackingSpeed
                          /\ (covered > MaxCovered \/ covered >= Abs(drive * age["firstTime"]))
                       \/ /\ main = "realize" /\ age["firstTime"] = 0 /\ covered = 0
                          /\ Abs(drive * age["firstTime"]) = 0
<1>1. state = "DISENGAGING_FROM_CONE" /\ drive # Unset
  BY DEF Disengage
<1>2. deadman = TRUE /\ r \in Readings /\ Knows(r) /\ main \in {"loop", "realize"}
  BY CurrentIs
<1>3. drive \in Int
  BY <1>1, Numbers DEF IInv, TypeOK
<1>4. age["firstTime"] \in Nat
  BY Numbers DEF IInv, TypeOK, Clocks
<1>5. drive * age["firstTime"] \in Int
  <2>1. \A a, b \in Int : a * b \in Int
    OBVIOUS
  <2> QED BY <1>3, <1>4, <2>1
<1>6. Abs(drive * age["firstTime"]) \in Nat
  BY <1>5, AbsIs
<1>7. ASSUME ~paused, main = "realize"
      PROVE  age["firstTime"] = 0 /\ covered = 0 /\ Abs(drive * age["firstTime"]) = 0
  <2>1. age["firstTime"] = 0 /\ covered = 0
    BY <1>1, <1>7 DEF IInv, DistanceInv, InEpisode, Avoiding
  <2>2. drive * 0 = 0
    BY <1>3
  <2>3. Abs(0) = 0
    BY DEF Abs
  <2> QED BY <2>1, <2>2, <2>3
<1>8. ASSUME ~paused, main = "loop"
      PROVE  /\ drive = BackingSpeed
             /\ covered > MaxCovered \/ covered >= Abs(drive * age["firstTime"])
  BY <1>1, <1>8 DEF IInv, DistanceInv, InEpisode, Avoiding, Believed
<1> QED BY <1>2, <1>3, <1>4, <1>6, <1>7, <1>8, CoveredAssumption

LEMMA DisengageHolds ==
  ASSUME IInv, NEW r \in Current, Disengage(r)
  PROVE  IInv'
<1>1. /\ state = "DISENGAGING_FROM_CONE" /\ drive # Unset
      /\ UNCHANGED <<waypoints, deadman, saved, known, curWaypoint, coneOnPause>>
      /\ UNCHANGED <<mode, avoidanceHeading, initObstacleAvoidanceHeading, distTravelled,
                     obstacleDistance, age, covered, paused>>
      /\ \/ /\ state' = "CRUISING" /\ main' = "realize" /\ reading' = r
            /\ UNCHANGED <<drive, steer>>
         \/ adjustMotors(27, -5) /\ main' = "loop" /\ reading' = NoReading /\ state' = state
  BY DEF Disengage, GotoEvaluate, Break, others, switchVars, motorVars, avoidVars, historyVars
<1>2. deadman = TRUE /\ r \in Readings /\ Knows(r)
  BY BackingIs
<1>3. CASE state' = "CRUISING" /\ main' = "realize" /\ reading' = r /\ UNCHANGED <<drive, steer>>
  <2>1. TypeOK'
    BY <1>1, <1>2, <1>3 DEF IInv, TypeOK, Stages, RobotStates
  <2>2. MotorsInv' /\ CourseInv'
    BY <1>1, <1>2, <1>3 DEF IInv, MotorsInv, AtRest, CourseInv, AtEnd, Honing
  <2>3. DetourInv' /\ DistanceInv'
    BY <1>1, <1>2, <1>3 DEF DetourInv, DistanceInv, Avoiding, Knows, InEpisode
  <2> QED BY <2>1, <2>2, <2>3 DEF IInv
<1>4. CASE adjustMotors(27, -5) /\ main' = "loop" /\ reading' = NoReading /\ state' = state
  <2>1. 27 \in Int /\ -5 \in Int
    OBVIOUS
  <2>2. drive' \in Drives /\ steer' \in Steerings /\ drive' = DriveFor(-5)
    BY <1>4, <2>1, AdjustIs
  <2>3. drive' = BackingSpeed
    BY <2>2 DEF BackingSpeed
  <2>4. TypeOK'
    BY <1>1, <1>4, <2>2 DEF IInv, TypeOK, Stages
  <2>5. MotorsInv' /\ CourseInv'
    BY <1>1, <1>2, <1>4, <2>2, Numbers DEF IInv, MotorsInv, AtRest, CourseInv, AtEnd, Honing
  <2>6. DetourInv'
    BY <1>1, <1>4 DEF DetourInv, Avoiding
  <2>7. DistanceInv'
    <3>1. SUFFICES ASSUME ~paused
                   PROVE  covered > MaxCovered \/ covered >= Abs(drive' * age["firstTime"])
      BY <1>1, <1>2, <1>4, <2>3 DEF DistanceInv, Avoiding, InEpisode, Believed, BackingSpeed
    <3>2. CASE main = "loop"
      BY <2>3, <3>1, <3>2, BackingIs
    <3>3. CASE main = "realize"
      <4>1. age["firstTime"] = 0 /\ covered = 0
        BY <3>1, <3>3, BackingIs
      <4>2. drive' \in Int
        BY <2>2, Numbers
      <4>3. drive' * 0 = 0
        BY <4>2, Products
      <4>4. Abs(0) = 0
        BY DEF Abs
      <4> QED BY <4>1, <4>3, <4>4
    <3> QED BY <3>1, <3>2, <3>3, CurrentIs
  <2> QED BY <2>4, <2>5, <2>6, <2>7 DEF IInv
<1> QED BY <1>1, <1>3, <1>4

LEMMA TickHolds == IInv /\ Tick => IInv'
<1> SUFFICES ASSUME IInv, Tick PROVE IInv'
  OBVIOUS
<1>1. /\ main = "loop"
      /\ age' = [c \in Clocks |-> IF age[c] < MaxAge THEN age[c] + 1 ELSE MaxAge]
      /\ covered' = IF InEpisode /\ covered <= MaxCovered THEN covered + Abs(drive) ELSE covered
      /\ UNCHANGED <<main, waypoints, deadman, saved, drive, steer, known, state, curWaypoint, coneOnPause>>
      /\ UNCHANGED <<mode, avoidanceHeading, initObstacleAvoidanceHeading, distTravelled,
                     obstacleDistance, reading, paused>>
  BY DEF Tick, switchVars, avoidVars
<1>2. /\ age \in [Clocks -> 0 .. MaxAge] /\ covered \in Int
      /\ InEpisode => drive \in Int
  BY Numbers DEF IInv, TypeOK, MotorsInv, InEpisode
<1>3. covered' \in Int /\ covered' >= covered
  BY <1>1, <1>2, AbsIs
<1>4. age' \in [Clocks -> 0 .. MaxAge]
  BY <1>1, <1>2, Numbers
<1>5. TypeOK'
  BY <1>1, <1>3, <1>4 DEF IInv, TypeOK
<1>6. MotorsInv' /\ CourseInv' /\ DetourInv'
  BY <1>1 DEF IInv, MotorsInv, AtRest, CourseInv, AtEnd, Honing, DetourInv, Avoiding
<1>7. DistanceInv'
  <2>1. SUFFICES ASSUME InEpisode, ~paused
                 PROVE  covered' > MaxCovered \/ covered' >= Believed'
    BY <1>1 DEF IInv, DistanceInv, Avoiding, InEpisode, BackingSpeed
  <2>2. drive \in Int /\ Abs(drive) \in Nat /\ Abs(drive) >= drive /\ Abs(drive) >= -drive
    BY <1>2, <2>1, AbsIs
  <2>3. covered > MaxCovered \/ covered >= Believed
    BY <1>1, <2>1 DEF IInv, DistanceInv
  <2>4. CASE covered > MaxCovered
    BY <1>2, <1>3, <2>4, Numbers
  <2>5. CASE covered <= MaxCovered /\ covered >= Believed
    <3>1. covered' = covered + Abs(drive)
      BY <1>1, <2>1, <2>5
    <3>2. \A c \in Clocks : \E step \in 0 .. 1 :
             age'[c] = age[c] + step /\ drive * age'[c] = drive * age[c] + drive * step
      <4> SUFFICES ASSUME NEW c \in Clocks
                   PROVE  \E step \in 0 .. 1 :
                            age'[c] = age[c] + step /\ drive * age'[c] = drive * age[c] + drive * step
        OBVIOUS
      <4>1. age[c] \in 0 .. MaxAge
        BY <1>2
      <4>2. PICK step \in 0 .. 1 : age'[c] = age[c] + step
        BY <1>1, <4>1, Numbers
      <4>3. \A a, b, k \in Int : k * (a + b) = k * a + k * b
        OBVIOUS
      <4> QED BY <2>2, <4>1, <4>2, <4>3
    <3>3. CASE Avoiding
      <4>1. distTravelled \in Int
        <5>1. distTravelled # Unset
          BY <1>1, <3>3 DEF IInv, DetourInv
        <5> QED BY <5>1 DEF IInv, TypeOK
      <4>2. PICK step \in 0 .. 1 : drive * age'["lastTime"] = drive * age["lastTime"] + drive * step
        BY <3>2 DEF Clocks
      <4>3. /\ Believed = distTravelled - drive * age["lastTime"]
            /\ Believed' = distTravelled - drive * age'["lastTime"]
        BY <1>1, <3>3 DEF Believed, Avoiding
      <4>4. PICK p \in Int : p = drive * age["lastTime"]
        <5>1. \A a, b \in Int : a * b \in Int
          OBVIOUS
        <5>2. age["lastTime"] \in Int
          BY <1>2 DEF Clocks
        <5> QED BY <2>2, <5>1, <5>2
      <4>5. PICK q \in Int : q = drive * step /\ (q = 0 \/ q = drive)
        BY <2>2
      <4> QED BY ONLY <1>2, <2>2, <2>5, <3>1, <4>1, <4>2, <4>3, <4>4, <4>5
    <3>4. CASE ~Avoiding
      <4>1. PICK step \in 0 .. 1 : drive * age'["firstTime"] = drive * age["firstTime"] + drive * step
        BY <3>2 DEF Clocks
      <4>2. /\ Believed = Abs(drive * age["firstTime"])
            /\ Believed' = Abs(drive * age'["firstTime"])
        BY <1>1, <3>4 DEF Believed, Avoiding
      <4>3. PICK p \in Int : p = drive * age["firstTime"]
        <5>1. \A a, b \in Int : a * b \in Int
          OBVIOUS
        <5>2. age["firstTime"] \in Int
          BY <1>2 DEF Clocks
        <5> QED BY <2>2, <5>1, <5>2
      <4>4. PICK q \in Int : q = drive * step /\ (q = 0 \/ q = drive)
        BY <2>2
      <4>5. Believed = Abs(p) /\ Believed' = Abs(p + q)
        BY <4>1, <4>2, <4>3, <4>4
      <4>6. Abs(p + q) <= Abs(p) + Abs(drive)
        BY <2>2, <4>3, <4>4 DEF Abs
      <4> QED BY <1>2, <2>2, <2>5, <3>1, <4>3, <4>4, <4>5, <4>6, AbsIs
    <3> QED BY <3>3, <3>4
  <2>6. covered > MaxCovered \/ covered <= MaxCovered
    BY <1>2, Numbers
  <2> QED BY <2>3, <2>4, <2>5, <2>6
<1> QED BY <1>5, <1>6, <1>7 DEF IInv

LEMMA NextHolds == IInv /\ [Next]_vars => IInv'
<1> SUFFICES ASSUME IInv, [Next]_vars PROVE IInv'
  OBVIOUS
<1>1. CASE StartUp
  BY <1>1, StartUpHolds
<1>2. CASE Switch
  BY <1>2, SwitchHolds DEF Switch
<1>3. CASE Tick
  BY <1>3, TickHolds
<1>4. CASE Evaluate
  BY <1>4, InitializeHolds, IdleHolds, BumpedHolds, HoningHolds, ObstructedHolds, ClearHolds,
     AvoidNearHolds, AvoidFarHolds, DisengageHolds DEF Evaluate
<1>5. CASE \E sensor \in Reported : Report(sensor)
  BY <1>5, ReportHolds
<1>6. CASE UNCHANGED vars
  <2>1. /\ UNCHANGED <<main, waypoints, deadman, saved, drive, steer, known, state, curWaypoint>>
        /\ UNCHANGED <<coneOnPause, mode, avoidanceHeading, initObstacleAvoidanceHeading>>
        /\ UNCHANGED <<distTravelled, obstacleDistance, age, reading, covered, paused>>
    BY <1>6 DEF vars, switchVars, avoidVars, historyVars
  <2>2. TypeOK'
    BY <2>1 DEF IInv, TypeOK
  <2>3. MotorsInv' /\ CourseInv'
    BY <2>1 DEF IInv, MotorsInv, AtRest, CourseInv, AtEnd, Honing
  <2>4. DetourInv'
    BY <2>1 DEF IInv, DetourInv, Avoiding, Knows, Near
  <2>5. DistanceInv'
    BY <2>1 DEF IInv, DistanceInv, InEpisode, Avoiding, Believed
  <2> QED BY <2>2, <2>3, <2>4, <2>5 DEF IInv
<1> QED BY <1>1, <1>2, <1>3, <1>4, <1>5, <1>6 DEF Next

-----------------------------------------------------------------------------
(***************************************************************************)
(* The invariant holds of the whole program: start-up, switch, sensors,    *)
(* clock and autopilot (main.cpp:90-180, AutoPilot.cpp:46-232).            *)
(***************************************************************************)
THEOREM Inductive == Spec => []IInv
<1>1. Init => IInv
  BY InitHolds
<1>2. IInv /\ [Next]_vars => IInv'
  BY NextHolds
<1> QED BY <1>1, <1>2, PTL DEF Spec

(***************************************************************************)
(* The robot's variables keep their types: no command is ever beyond what  *)
(* the motors may be told, no heading beyond a turn (AutoPilot.cpp:235).   *)
(***************************************************************************)
THEOREM TypeCorrect == Spec => []TypeOK
<1>1. IInv => TypeOK
  BY DEF IInv
<1> QED BY <1>1, Inductive, PTL

(***************************************************************************)
(* The motors are told to stand still while the switch is released and     *)
(* once the course is done, whatever the switch saved before (AtRest:      *)
(* main.cpp:74-88, AutoPilot.cpp:49-56, 221-230).                          *)
(***************************************************************************)
THEOREM MotorsAtRest == Spec => []AtRest
<1>1. IInv => AtRest
  BY DEF IInv, MotorsInv
<1> QED BY <1>1, Inductive, PTL

(***************************************************************************)
(* The unguarded states find every reading and speed they cast, and the    *)
(* end of the waypoints is dereferenced with an empty list only (Survives: *)
(* AutoPilot.cpp:155-213).                                                 *)
(***************************************************************************)
THEOREM RobotSurvives == Spec => []Survives
<1>1. IInv => Survives
  BY DEF IInv, MotorsInv, CourseInv, DetourInv, Survives, Avoiding
<1> QED BY <1>1, Inductive, PTL

LEMMA ResumesPastIt ==
  ASSUME IInv, Next, InEpisode, state' = "CRUISING"
  PROVE  paused \/ covered > Required
<1>1. PICK r \in Current : AvoidFar(r) \/ Disengage(r)
  <2>1. ~StartUp /\ ~Switch /\ ~Tick /\ ~\E sensor \in Reported : Report(sensor)
    BY DEF InEpisode, StartUp, Configure, OpenCamera, FindDevices, Switch, SwitchReport, Tick, Report
  <2>2. PICK r \in Current :
          \/ Initialize(r) \/ Swallow(r) \/ Dereference(r)
          \/ HoningBumped(r) \/ HoningPaused(r) \/ HoningBlind(r) \/ HoningSearches(r) \/ HoningSees(r)
          \/ CruisingObstructed(r) \/ CruisingClear(r)
          \/ AvoidNear(r) \/ AvoidFar(r) \/ Disengage(r) \/ Finished(r)
    BY <2>1 DEF Next, Evaluate
  <2>3. /\ ~Initialize(r) /\ ~Swallow(r) /\ ~Dereference(r) /\ ~HoningBumped(r) /\ ~HoningPaused(r)
        /\ ~HoningBlind(r) /\ ~HoningSearches(r) /\ ~HoningSees(r)
    BY DEF InEpisode, Initialize, Swallow, Dereference, HoningBumped, HoningPaused, HoningBlind,
       HoningSearches, HoningSees, Looking, Honing, Cruising
  <2>4. /\ ~CruisingObstructed(r) /\ ~CruisingClear(r) /\ ~AvoidNear(r) /\ ~Finished(r)
    BY DEF InEpisode, CruisingObstructed, CruisingClear, Aware, Cruising, AvoidNear, Finished
  <2> QED BY <2>2, <2>3, <2>4
<1>2. covered \in Int
  BY DEF IInv, TypeOK
<1>3. SUFFICES ASSUME ~paused PROVE covered > Required
  OBVIOUS
<1>4. CASE AvoidFar(r)
  <2>1. /\ distTravelled - drive * age["lastTime"] \in Int /\ obstacleDistance \in Nat
        /\ covered > MaxCovered \/ covered >= distTravelled - drive * age["lastTime"]
        /\ obstacleDistance <= MaxCovered
    BY <1>3, <1>4, FarIs, ZenonT(40)
  <2>2. distTravelled - drive * age["lastTime"] > obstacleDistance
    BY <1>4 DEF AvoidFar, Avoiding, InEpisode
  <2>3. Required = obstacleDistance
    BY <1>4 DEF AvoidFar, Avoiding, Required
  <2> QED BY <1>2, <2>1, <2>2, <2>3, Numbers
<1>5. CASE Disengage(r)
  <2>1. /\ Abs(drive * age["firstTime"]) > BACKUP_DIST
        /\ Required = BACKUP_DIST
    BY <1>5 DEF Disengage, Required
  <2>2. /\ Abs(drive * age["firstTime"]) \in Nat /\ BACKUP_DIST <= MaxCovered
        /\ \/ covered > MaxCovered \/ covered >= Abs(drive * age["firstTime"])
           \/ Abs(drive * age["firstTime"]) = 0
    BY <1>3, <1>5, BackingIs
  <2> QED BY <1>2, <2>1, <2>2, Numbers
<1> QED BY <1>1, <1>4, <1>5

(***************************************************************************)
(* The robot cruises on only past the obstacle or away from the cone,      *)
(* unless the switch was released meanwhile, however long its rounds take  *)
(* (DistanceIsReal: AutoPilot.cpp:179, 202).                               *)
(***************************************************************************)
THEOREM DistanceCovered == Spec => DistanceIsReal
<1>1. IInv /\ [Next]_vars =>
        [ /\ state \in {"OBSTACLE_AVOID", "DISENGAGING_FROM_CONE"}
          /\ state' = "CRUISING"
          => paused \/ covered > Required ]_vars
  BY ResumesPastIt DEF InEpisode
<1> QED BY <1>1, Inductive, PTL DEF Spec, DistanceIsReal
=============================================================================
