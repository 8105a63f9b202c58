------------------------------ MODULE Watchdog ------------------------------
(***************************************************************************)
(* urt::Watchdog (lib/URT/Watchdog.cpp, Watchdog.h), the first watchdog:   *)
(* an interval slot that compares the clock with the last check-in.        *)
(* Check-ins are State slots, called by handlers of the loop or by         *)
(* onTimeout() itself.  The state of the event loop's clock is that of     *)
(* IntervalTimer.                                                          *)
(***************************************************************************)
EXTENDS IntervalTimer

CONSTANT
  watchTimeout      \* the watchdog's timeout, in milliseconds

ASSUME WatchAssumption ==
  watchTimeout \in Nat \ {0} /\ MaxAge > (watchTimeout + 1) * NsPerMs

VARIABLES
  sinceCheckIn,     \* age of lastCheckIn
  hasTimedout,
  resetsEnabled,
  check,            \* "before", "onTimeout" or "after": this signal's check()
  reported          \* history: onTimeout() was called since the last reset

watchVars == <<sinceCheckIn, hasTimedout, resetsEnabled, check, reported>>
vars == <<loopVars, watchVars>>

TypeOK ==
  /\ LoopTypeOK
  /\ sinceCheckIn \in 0 .. MaxAge
  /\ hasTimedout \in BOOLEAN
  /\ resetsEnabled \in BOOLEAN
  /\ check \in {"before", "onTimeout", "after"}
  /\ reported \in BOOLEAN

\* The constructor for one key starts with resets enabled, the one for a range
\* of keys with resets disabled, so that its own reset() leaves lastCheckIn as
\* the memory was.
Init ==
  /\ LoopInit
  /\ \/ resetsEnabled = TRUE /\ sinceCheckIn = 0
     \/ resetsEnabled = FALSE /\ sinceCheckIn \in 0 .. MaxAge
  /\ hasTimedout = FALSE
  /\ check = "before"
  /\ reported = FALSE

-----------------------------------------------------------------------------
Time ==
  /\ Tick
  /\ sinceCheckIn' = Older(sinceCheckIn)
  /\ UNCHANGED <<hasTimedout, resetsEnabled, check, reported>>

\* Code that runs in a handler or in onTimeout().
ClientCode == pc = "handlers" \/ check = "onTimeout"

\* The slot on the watched substates, which are also signalled on touch.
reset ==
  IF resetsEnabled
  THEN sinceCheckIn' = 0 /\ reported' = FALSE
  ELSE UNCHANGED <<sinceCheckIn, reported>>

Touch ==
  /\ ClientCode
  /\ reset
  /\ UNCHANGED <<loopVars, hasTimedout, resetsEnabled, check>>

enableResets(enable) ==
  /\ ClientCode
  /\ resetsEnabled' = enable
  /\ UNCHANGED <<loopVars, sinceCheckIn, hasTimedout, check, reported>>

Expired == ElapsedMs(sinceCheckIn) >= watchTimeout

\* Defect: hasTimedout survives a check-in.
Bug_CheckQuiet ==
  /\ pc = "slots" /\ check = "before"
  /\ ~Expired
  /\ check' = "after"
  /\ UNCHANGED <<loopVars, sinceCheckIn, hasTimedout, resetsEnabled, reported>>

\* check() finds a recent check-in.
CheckQuiet ==
  /\ pc = "slots" /\ check = "before"
  /\ ~Expired
  /\ hasTimedout' = FALSE
  /\ check' = "after"
  /\ UNCHANGED <<loopVars, sinceCheckIn, resetsEnabled, reported>>

\* check() finds none, as it did the last time.
CheckAgain ==
  /\ pc = "slots" /\ check = "before"
  /\ Expired /\ hasTimedout
  /\ check' = "after"
  /\ UNCHANGED <<loopVars, sinceCheckIn, hasTimedout, resetsEnabled, reported>>

\* Defect: hasTimedout is not looked at.
Bug_onTimeout ==
  /\ pc = "slots" /\ check = "before"
  /\ Expired
  /\ check' = "onTimeout"
  /\ reported' = TRUE
  /\ UNCHANGED <<loopVars, sinceCheckIn, hasTimedout, resetsEnabled>>

\* check() finds none for the first time and calls onTimeout().
onTimeout ==
  /\ pc = "slots" /\ check = "before"
  /\ Expired /\ ~hasTimedout
  /\ check' = "onTimeout"
  /\ reported' = TRUE
  /\ UNCHANGED <<loopVars, sinceCheckIn, hasTimedout, resetsEnabled>>

onTimeoutReturns ==
  /\ check = "onTimeout"
  /\ hasTimedout' = TRUE
  /\ check' = "after"
  /\ UNCHANGED <<loopVars, sinceCheckIn, resetsEnabled, reported>>

\* The stages of a pass; the signal is over when check() is.
LoopStep ==
  /\ \/ PollReturns \/ IntervalNotDue \/ IntervalDue
     \/ SlotsReturn /\ check = "after"
  /\ check' = "before"
  /\ UNCHANGED <<sinceCheckIn, hasTimedout, resetsEnabled, reported>>

Check == CheckQuiet \/ CheckAgain \/ onTimeout \/ onTimeoutReturns

Next ==
  \/ Time
  \/ Touch
  \/ \E b \in BOOLEAN : enableResets(b)
  \/ LoopStep
  \/ Check

Safety == Init /\ [][Next]_vars

\* Time passes, poll() returns and slots do.  No key has to be touched.
Spec == Safety /\ WF_vars(Time) /\ WF_vars(LoopStep) /\ WF_vars(Check)

-----------------------------------------------------------------------------
(***************************************************************************)
(* Properties.                                                             *)
(***************************************************************************)

\* onTimeout() is called once for a silence, however often it is checked
\* (Watchdog.h:63-65), and never a whole millisecond early (Watchdog.h:76-79).
OncePerSilence ==
  [][onTimeout => ~reported /\ sinceCheckIn > (watchTimeout - 1) * NsPerMs]_vars

\* A silence the check finds has been reported: a check-in since the last one
\* is noticed by some check that finds it recent.  This needs an interval well
\* below the watchdog's timeout, the passes of two signals included: otherwise
\* a check-in, also one by onTimeout() itself, and the next silence may both
\* fit between two checks (Watchdog.h:76-79, Watchdog.cpp:55-61).
IntervalIsShort ==
  (timeout + 1) * NsPerMs + 2 * MaxBusy <= (watchTimeout - 1) * NsPerMs

SilenceIsReported == [][IntervalIsShort /\ CheckAgain => reported]_vars
=============================================================================
