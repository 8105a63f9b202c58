---------------------------- MODULE IntervalTimer ---------------------------
(***************************************************************************)
(* The interval signal of urt::EventLoop (lib/URT/EventLoop.cpp:75-91): at *)
(* the end of every pass the loop compares the clock with the time of the  *)
(* last signal and either calls the slots or shortens the next poll().     *)
(*                                                                         *)
(* This module has the clock, the stages of a pass that matter for it and  *)
(* what they promise; the slot that runs is that of Watchdog.tla.          *)
(*                                                                         *)
(* The clock advances by ticks, NsPerMs to the millisecond, MsPerSec       *)
(* milliseconds to the second.  A timespec in the past is represented by   *)
(* its age in ticks, which together with the clock's position within the   *)
(* second determines tv_sec and tv_nsec differences exactly.               *)
(***************************************************************************)
EXTENDS Integers

CONSTANTS
  NsPerMs, MsPerSec,
  timeout,          \* of the event loop, in milliseconds
  MaxBusy,          \* ticks a pass may last beyond the wait it asked for
  MaxAge            \* ages are not counted beyond this

ASSUME ClockAssumption ==
  NsPerMs \in Nat \ {0} /\ MsPerSec \in Nat \ {0}
ASSUME LoopAssumption == timeout \in Nat \ {0} /\ MaxBusy \in Nat
ASSUME AgeAssumption == MaxAge \in Nat /\ MaxAge > (timeout + 1) * NsPerMs + MaxBusy

VARIABLES
  phase,            \* the clock's position within the current second
  sinceInterval,    \* age of timeLastInterval
  wait,             \* what is left of adjustedTimeout, in ticks
  busy,             \* ticks this pass lasted beyond the wait
  pc                \* "poll", "handlers" or "slots"

loopVars == <<phase, sinceInterval, wait, busy, pc>>

Second == NsPerMs * MsPerSec

LoopTypeOK ==
  /\ phase \in 0 .. (Second - 1)
  /\ sinceInterval \in 0 .. MaxAge
  /\ wait \in 0 .. (timeout * NsPerMs)
  /\ busy \in 0 .. MaxBusy
  /\ pc \in {"poll", "handlers", "slots"}

\* timeLastInterval starts at the epoch of the monotonic clock.
LoopInit ==
  /\ phase \in 0 .. (Second - 1)
  /\ sinceInterval = MaxAge
  /\ wait = timeout * NsPerMs
  /\ busy = 0
  /\ pc = "poll"

-----------------------------------------------------------------------------
\* Division of a C integer by a positive one truncates towards zero.
CDiv(a, b) == IF a >= 0 THEN a \div b ELSE -((-a) \div b)

\* The milliseconds the code computes for a timespec of the given age.
ElapsedMs(age) ==
  LET nsec == (phase - age) % Second                \* tv_nsec then
      sec  == (age + nsec - phase) \div Second      \* seconds between
  IN  sec * MsPerSec + CDiv(phase - nsec, NsPerMs)

Older(age) == IF age < MaxAge THEN age + 1 ELSE age

\* One tick: either of the time poll() waits, or of the time all else takes,
\* oversleeping included.
Tick ==
  /\ phase' = (phase + 1) % Second
  /\ sinceInterval' = Older(sinceInterval)
  /\ \/ pc = "poll" /\ wait > 0 /\ wait' = wait - 1 /\ UNCHANGED busy
     \/ busy < MaxBusy /\ busy' = busy + 1 /\ UNCHANGED wait
  /\ UNCHANGED pc

\* poll() returns for activity, or when its time is over.
PollReturns ==
  /\ pc = "poll"
  /\ pc' = "handlers"
  /\ UNCHANGED <<phase, sinceInterval, wait, busy>>

StartPoll(ms) == pc' = "poll" /\ wait' = ms * NsPerMs /\ busy' = 0

\* Defect: the next poll() waits for the whole timeout again.
Bug_IntervalNotDue_whole ==
  /\ pc = "handlers"
  /\ ElapsedMs(sinceInterval) < timeout
  /\ StartPoll(timeout)
  /\ UNCHANGED <<phase, sinceInterval>>

\* Defect: timeLastInterval is set on every pass.
Bug_IntervalNotDue_restart ==
  /\ pc = "handlers"
  /\ ElapsedMs(sinceInterval) < timeout
  /\ StartPoll(timeout - ElapsedMs(sinceInterval))
  /\ sinceInterval' = 0
  /\ UNCHANGED phase

IntervalNotDue ==
  /\ pc = "handlers"
  /\ ElapsedMs(sinceInterval) < timeout
  /\ StartPoll(timeout - ElapsedMs(sinceInterval))
  /\ UNCHANGED <<phase, sinceInterval>>

IntervalDue ==
  /\ pc = "handlers"
  /\ ElapsedMs(sinceInterval) >= timeout
  /\ pc' = "slots"
  /\ UNCHANGED <<phase, sinceInterval, wait, busy>>

\* The clock is read again: the slots' own time is not part of the interval.
SlotsReturn ==
  /\ pc = "slots"
  /\ sinceInterval' = 0
  /\ StartPoll(timeout)
  /\ UNCHANGED phase

-----------------------------------------------------------------------------
(***************************************************************************)
(* Properties.                                                             *)
(***************************************************************************)

\* The slots are not called a millisecond or more early, nor later than a
\* millisecond and one pass's work after the timeout, whatever activity cuts
\* the waits short (EventLoop.h:53, EventLoop.cpp:75-91).
IntervalOnTime ==
  [][IntervalDue /\ sinceInterval # MaxAge =>
       /\ sinceInterval > (timeout - 1) * NsPerMs
       /\ sinceInterval < (timeout + 1) * NsPerMs + MaxBusy]_loopVars

\* The slots are called again and again, activity or not (EventLoop.h:42-43).
SlotsRecur == []<>(pc = "slots")
=============================================================================
