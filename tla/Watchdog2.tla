----------------------------- MODULE Watchdog2 ------------------------------
(***************************************************************************)
(* urt::Watchdog2 (lib/URT/Watchdog2.h): a Timer that is restarted by      *)
(* every touch of a watched substate and calls onTrip() when it expires.   *)
(* Touches arrive as State slots in the event loop's thread: from another  *)
(* source's handler, or from onTrip() itself.                              *)
(***************************************************************************)
EXTENDS Timer

VARIABLES
  m_ignoreSubstateReset,
  owed              \* history: no trip since the last check-in

tripVars == <<m_ignoreSubstateReset, owed>>
watchdog2Vars == <<timerVars, tripVars>>

Watchdog2TypeOK ==
  /\ TimerTypeOK
  /\ m_ignoreSubstateReset \in BOOLEAN
  /\ owed \in BOOLEAN

\* Constructing the watchdog counts as the first check-in.
Watchdog2Init ==
  /\ TimerInit(TRUE)
  /\ m_ignoreSubstateReset = FALSE
  /\ owed = TRUE

-----------------------------------------------------------------------------
Expiration == Expire /\ UNCHANGED tripVars

Thread == timerThread /\ UNCHANGED tripVars

\* Defect: the flag is not looked at.
Bug_reset == start

\* The slot on the watched substates.
Watchdog2_reset == IF m_ignoreSubstateReset THEN UNCHANGED timerVars ELSE start

\* Some other handler touches a watched substate.
CheckIn ==
  /\ loop = "elsewhere"
  /\ Watchdog2_reset
  /\ owed' = TRUE
  /\ UNCHANGED m_ignoreSubstateReset

\* onTrip() touches a watched substate.
TripTouches ==
  /\ loop = "trip"
  /\ Watchdog2_reset
  /\ UNCHANGED tripVars

\* Defect: the timer is left running while onTrip() executes and after it.
Bug_onTimeout_noStop ==
  /\ loop = "timeout"
  /\ loop' = "trip"
  /\ unserved' = FALSE
  /\ m_ignoreSubstateReset' = TRUE
  /\ owed' = FALSE
  /\ UNCHANGED <<armed, threads, pipe, overrun>>

\* onTimeout() up to the call of onTrip().
Watchdog2_onTimeout ==
  /\ loop = "timeout"
  /\ armed' = FALSE
  /\ m_ignoreSubstateReset' = TRUE
  /\ loop' = "trip"
  /\ unserved' = FALSE
  /\ owed' = FALSE
  /\ UNCHANGED <<threads, pipe, overrun>>

\* Defect: check-ins stay ignored after the first trip.
Bug_onTripReturns ==
  /\ loop = "trip"
  /\ loop' = "elsewhere"
  /\ UNCHANGED <<armed, threads, pipe, unserved, overrun, tripVars>>

onTripReturns ==
  /\ loop = "trip"
  /\ m_ignoreSubstateReset' = FALSE
  /\ loop' = "elsewhere"
  /\ UNCHANGED <<armed, threads, pipe, unserved, overrun, owed>>

Service ==
  \/ (onActivity \/ Read) /\ UNCHANGED tripVars
  \/ Watchdog2_onTimeout
  \/ onTripReturns

Watchdog2Next == Expiration \/ Thread \/ Service \/ CheckIn \/ TripTouches

Watchdog2Safety == Watchdog2Init /\ [][Watchdog2Next]_watchdog2Vars

(***************************************************************************)
(* A running timer that is not restarted expires, its thread writes, and   *)
(* the event loop polls for ever.  Nobody has to check in.                 *)
(***************************************************************************)
Watchdog2Spec ==
  /\ Watchdog2Safety
  /\ WF_watchdog2Vars(Expiration)
  /\ WF_watchdog2Vars(Thread)
  /\ WF_watchdog2Vars(Service)

-----------------------------------------------------------------------------
(***************************************************************************)
(* Properties.                                                             *)
(***************************************************************************)

\* Once a trip is over, whatever onTrip() touched, the timer is stopped until
\* somebody checks in (Watchdog2.h:39-41, 87-93).
TrippedStaysStopped == ~owed => ~armed

\* Without a later check-in there is no second trip, unless the timer expired
\* again before its first expiration was served: what is in the pipe by then
\* survives the timer's stop (Watchdog2.h:38-39, 87-93).
OneTripUnlessOverrun == [][Watchdog2_onTimeout => owed \/ overrun]_watchdog2Vars

\* Unless check-ins keep coming, or the drain of the pipe never catches up, the
\* last check-in is followed by a trip (Watchdog2.h:36-37, 81, 87-93).
SilenceTrips ==
  \/ []<><<CheckIn>>_watchdog2Vars
  \/ []<><<ExpiresInDrain>>_watchdog2Vars
  \/ owed ~> ~owed
=============================================================================
