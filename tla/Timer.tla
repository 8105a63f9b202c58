------------------------------- MODULE Timer --------------------------------
(***************************************************************************)
(* urt::Timer (lib/URT/Timer.cpp): a periodic POSIX timer as an event      *)
(* source.  Each expiration starts a detached thread that writes one byte  *)
(* to a pipe; the event loop finds the pipe readable, empties it and calls *)
(* onTimeout(), which a derived class implements.  This module has the     *)
(* state and the actions the derived classes share.                        *)
(*                                                                         *)
(* Time is abstract: an armed timer may expire at any moment.              *)
(***************************************************************************)
EXTENDS Integers

CONSTANT
  MaxPending        \* bound on the threads in flight plus the bytes in the pipe

ASSUME MaxPendingAssumption == MaxPending \in Nat \ {0}

VARIABLES
  armed,            \* the kernel timer runs (m_its.it_value is not zero)
  threads,          \* expirations whose thread has not written its byte yet
  pipe,             \* bytes in the pipe
  loop,             \* where the event loop's thread is, seen from this timer
  unserved,         \* history: expired since onTimeout() was last called
  overrun           \* history: it ever expired again before that service ended

timerVars == <<armed, threads, pipe, loop, unserved, overrun>>

TimerTypeOK ==
  /\ armed \in BOOLEAN
  /\ threads \in 0 .. MaxPending
  /\ pipe \in 0 .. MaxPending
  /\ threads + pipe <= MaxPending
  /\ loop \in {"elsewhere", "drain", "timeout", "trip"}
  /\ unserved \in BOOLEAN
  /\ overrun \in BOOLEAN

\* The constructor starts the timer, or stops it.
TimerInit(started) ==
  /\ armed = started
  /\ threads = 0
  /\ pipe = 0
  /\ loop = "elsewhere"
  /\ unserved = FALSE
  /\ overrun = FALSE

-----------------------------------------------------------------------------
(***************************************************************************)
(* The kernel and the threads it starts.                                   *)
(***************************************************************************)

\* The kernel rearms the timer itself, served or not.
Expire ==
  /\ armed
  /\ threads + pipe < MaxPending
  /\ threads' = threads + 1
  /\ unserved' = TRUE
  /\ overrun' = (overrun \/ unserved \/ loop # "elsewhere")
  /\ UNCHANGED <<armed, pipe, loop>>

timerThread ==
  /\ threads > 0
  /\ threads' = threads - 1
  /\ pipe' = pipe + 1
  /\ UNCHANGED <<armed, loop, unserved, overrun>>

-----------------------------------------------------------------------------
(***************************************************************************)
(* onActivity(), in the event loop's thread.                               *)
(***************************************************************************)
onActivity ==
  /\ loop = "elsewhere"
  /\ pipe > 0
  /\ loop' = "drain"
  /\ UNCHANGED <<armed, threads, pipe, unserved, overrun>>

\* Defect: a full buffer is mistaken for an empty pipe.
Bug_Read_skip ==
  /\ loop = "drain"
  /\ pipe' = 0
  /\ loop' = IF pipe > 1 THEN "elsewhere" ELSE "timeout"
  /\ UNCHANGED <<armed, threads, unserved, overrun>>

\* read(fdesc, &dummy, 2): two bytes ask for another read, one or none (the
\* pipe is not blocking) lead to onTimeout().
Read ==
  /\ loop = "drain"
  /\ IF pipe > 1
     THEN pipe' = pipe - 2 /\ UNCHANGED loop
     ELSE pipe' = 0 /\ loop' = "timeout"
  /\ UNCHANGED <<armed, threads, unserved, overrun>>

start == armed' = TRUE /\ UNCHANGED <<threads, pipe, loop, unserved, overrun>>

-----------------------------------------------------------------------------
(***************************************************************************)
(* Properties.                                                             *)
(***************************************************************************)

\* The period is so short that the timer expires while the pipe is emptied.
ExpiresInDrain == Expire /\ loop = "drain"

\* Every expiration that has not been answered is still in a thread, in the
\* pipe or in the loop's hands: none is dropped by the drain (Timer.cpp:89).
NoneDropped ==
  unserved => threads > 0 \/ pipe > 0 \/ loop \in {"drain", "timeout"}
=============================================================================
