----------------------------- MODULE EventLoop ------------------------------
(***************************************************************************)
(* urt::EventLoop (lib/URT/EventLoop.h, lib/URT/EventLoop.cpp): a single   *)
(* threaded poll() loop over a vector of event sources.  While it runs,    *)
(* handlers and interval slots call back into add() and remove(), which    *)
(* then only queue the change: an INDEX into the vector for a removal, the *)
(* source itself for an addition.                                          *)
(*                                                                         *)
(* The C++ vectors fds and fdsources are changed in tandem, always at the  *)
(* same position; they are one sequence here.  Indices start at 1.  The    *)
(* clock and the poll timeout are the subject of IntervalTimer.tla; here   *)
(* an interval may or may not have elapsed.                                *)
(***************************************************************************)
EXTENDS Naturals, SequencesExt

CONSTANTS
  Source,           \* every FDEvtSource that could ever be watched
  Keeps,            \* the rules, among those of Rule, that every client keeps
  MaxQueue          \* bound on deleteQueue and addQueue

(***************************************************************************)
(* What the loop silently relies on.  Every client in the repository keeps *)
(* all three: none calls remove(), each removes itself by returning false  *)
(* from onActivity(), and main, SocketServer, DeviceManager and            *)
(* HotDeviceManager add sources they have just created, outside run() or   *)
(* from onActivity().                                                      *)
(***************************************************************************)
Rule == {
  "add once",       \* no add() of a source that already waits in addQueue
  "remove once",    \* no second removal of a source in one pass
  "no empty add"}   \* an interval slot adds only while something is watched

ASSUME KeepsAssumption == Keeps \subseteq Rule
ASSUME MaxQueueAssumption == MaxQueue \in Nat

VARIABLES
  fdsources,        \* the watched sources, by index
  deleteQueue,      \* indices to erase at the end of the pass
  addQueue,         \* sources to append at the end of the pass
  running,
  ready,            \* indices with a relevant revents bit, not yet visited
  pos,              \* index whose onActivity() is executing
  pc,               \* where run() stands
  asked             \* history: watched sources whose removal was accepted

vars == <<fdsources, deleteQueue, addQueue, running, ready, pos, pc, asked>>

Watched == ToSet(fdsources)
Pending == ToSet(addQueue)

TypeOK ==
  /\ fdsources \in Seq(Source)
  /\ deleteQueue \in Seq(Nat \ {0})
  /\ addQueue \in Seq(Source)
  /\ running \in BOOLEAN
  /\ ready \in SUBSET Nat
  /\ pos \in Nat
  /\ pc \in {"idle", "poll", "scan", "handler", "erase", "drain",
             "interval", "slot", "crashed"}
  /\ asked \in SUBSET Source

Init ==
  /\ fdsources = <<>>
  /\ deleteQueue = <<>>
  /\ addQueue = <<>>
  /\ running = FALSE
  /\ ready = {}
  /\ pos = 0
  /\ pc = "idle"
  /\ asked = {}

-----------------------------------------------------------------------------
(***************************************************************************)
(* The client interface.  Client code executes outside run() ("idle"), in  *)
(* an onActivity() handler ("handler") or in an interval slot ("slot").    *)
(***************************************************************************)

\* The position of s, or one past the end when s is not watched.
indexFDSource(s) ==
  IF s \in Watched
  THEN CHOOSE i \in DOMAIN fdsources :
         /\ fdsources[i] = s
         /\ \A j \in 1 .. (i - 1) : fdsources[j] # s
  ELSE Len(fdsources) + 1

has(s) == indexFDSource(s) <= Len(fdsources)

ClientCode == pc \in {"idle", "handler", "slot"}

\* The rules as guards of the calls that could break them.
MayAdd(s) ==
  /\ "add once" \in Keeps => s \notin Pending
  /\ "no empty add" \in Keeps /\ pc = "slot" => fdsources # <<>>

MayRemove(s) == "remove once" \in Keeps => s \notin asked

\* Defect: add() forgets that the source may already be watched.
Bug_add_unchecked(s) ==
  /\ ClientCode /\ MayAdd(s)
  /\ IF running
     THEN Len(addQueue) < MaxQueue /\ addQueue' = Append(addQueue, s) /\ UNCHANGED fdsources
     ELSE fdsources' = Append(fdsources, s) /\ UNCHANGED addQueue
  /\ UNCHANGED <<deleteQueue, running, ready, pos, pc, asked>>

\* Defect: add() grows the vector under the loop's feet.
Bug_add_inPlace(s) ==
  /\ ClientCode /\ MayAdd(s)
  /\ ~has(s)
  /\ fdsources' = Append(fdsources, s)
  /\ UNCHANGED <<deleteQueue, addQueue, running, ready, pos, pc, asked>>

\* add() returns false and changes nothing when s is already watched.
add(s) ==
  /\ ClientCode /\ MayAdd(s)
  /\ ~has(s)
  /\ IF running
     THEN /\ Len(addQueue) < MaxQueue
          /\ addQueue' = Append(addQueue, s)
          /\ UNCHANGED fdsources
     ELSE /\ fdsources' = Append(fdsources, s)
          /\ UNCHANGED addQueue
  /\ UNCHANGED <<deleteQueue, running, ready, pos, pc, asked>>

\* remove() returns false and changes nothing when s is not watched.
remove(s) ==
  /\ ClientCode /\ MayRemove(s)
  /\ has(s)
  /\ IF running
     THEN /\ Len(deleteQueue) < MaxQueue
          /\ deleteQueue' = Append(deleteQueue, indexFDSource(s))
          /\ asked' = asked \cup {s}
          /\ UNCHANGED fdsources
     ELSE /\ fdsources' = RemoveAt(fdsources, indexFDSource(s))
          /\ UNCHANGED <<deleteQueue, asked>>
  /\ UNCHANGED <<addQueue, running, ready, pos, pc>>

-----------------------------------------------------------------------------
(***************************************************************************)
(* The body of run(), one action per stage of a pass.                      *)
(***************************************************************************)
Run ==
  /\ pc = "idle"
  /\ running' = TRUE
  /\ pc' = "poll"
  /\ UNCHANGED <<fdsources, deleteQueue, addQueue, ready, pos, asked>>

\* The while condition fails: nothing is watched any more.
Exit ==
  /\ pc = "poll"
  /\ fdsources = <<>>
  /\ running' = FALSE
  /\ pc' = "idle"
  /\ UNCHANGED <<fdsources, deleteQueue, addQueue, ready, pos, asked>>

\* poll() reports any set of sources; none after a timeout or an error.
Poll ==
  /\ pc = "poll"
  /\ fdsources # <<>>
  /\ ready' \in SUBSET (1 .. Len(fdsources))
  /\ pc' = "scan"
  /\ UNCHANGED <<fdsources, deleteQueue, addQueue, running, pos, asked>>

\* The scan meets the next index with activity and calls its handler.
Dispatch ==
  /\ pc = "scan"
  /\ \E i \in ready :
       /\ \A j \in ready : i <= j
       /\ pos' = i
       /\ ready' = ready \ {i}
  /\ pc' = "handler"
  /\ UNCHANGED <<fdsources, deleteQueue, addQueue, running, asked>>

HandlerReturnsTrue ==
  /\ pc = "handler"
  /\ pc' = "scan"
  /\ UNCHANGED <<fdsources, deleteQueue, addQueue, running, ready, pos, asked>>

\* A handler returns false: the loop queues the index it is visiting.
HandlerReturnsFalse ==
  /\ pc = "handler"
  /\ MayRemove(fdsources[pos])
  /\ Len(deleteQueue) < MaxQueue
  /\ deleteQueue' = Append(deleteQueue, pos)
  /\ asked' = asked \cup {fdsources[pos]}
  /\ pc' = "scan"
  /\ UNCHANGED <<fdsources, addQueue, running, ready, pos>>

ScanDone ==
  /\ pc = "scan"
  /\ ready = {}
  /\ pc' = "erase"
  /\ UNCHANGED <<fdsources, deleteQueue, addQueue, running, ready, pos, asked>>

\* Defect: the queue is walked in ascending order (std::less).
Bug_NextToErase ==
  CHOOSE k \in DOMAIN deleteQueue :
    \A j \in DOMAIN deleteQueue : deleteQueue[k] <= deleteQueue[j]

(***************************************************************************)
(* deleteQueue is sorted in descending order and walked: each step erases  *)
(* at the largest index not yet handled.  The walk drops the entry here;   *)
(* the code clears the whole queue after it.                               *)
(***************************************************************************)
NextToErase ==
  CHOOSE k \in DOMAIN deleteQueue :
    \A j \in DOMAIN deleteQueue : deleteQueue[j] <= deleteQueue[k]

\* typeid() and erase() past the end are undefined: the process dies.
Erase ==
  /\ pc = "erase"
  /\ deleteQueue # <<>>
  /\ LET i == deleteQueue[NextToErase]
     IN  IF i <= Len(fdsources)
         THEN /\ fdsources' = RemoveAt(fdsources, i)
              /\ deleteQueue' = RemoveAt(deleteQueue, NextToErase)
              /\ asked' = asked \ {fdsources[i]}
              /\ UNCHANGED pc
         ELSE /\ pc' = "crashed"
              /\ UNCHANGED <<fdsources, deleteQueue, asked>>
  /\ UNCHANGED <<addQueue, running, ready, pos>>

EraseDone ==
  /\ pc = "erase"
  /\ deleteQueue = <<>>
  /\ pc' = "drain"
  /\ UNCHANGED <<fdsources, deleteQueue, addQueue, running, ready, pos, asked>>

Drain ==
  /\ pc = "drain"
  /\ fdsources' = fdsources \o addQueue
  /\ addQueue' = <<>>
  /\ pc' = "interval"
  /\ UNCHANGED <<deleteQueue, running, ready, pos, asked>>

\* Less than the timeout has passed: only adjustedTimeout changes.
IntervalNotDue ==
  /\ pc = "interval"
  /\ pc' = "poll"
  /\ UNCHANGED <<fdsources, deleteQueue, addQueue, running, ready, pos, asked>>

IntervalDue ==
  /\ pc = "interval"
  /\ pc' = "slot"
  /\ UNCHANGED <<fdsources, deleteQueue, addQueue, running, ready, pos, asked>>

SlotsReturn ==
  /\ pc = "slot"
  /\ pc' = "poll"
  /\ UNCHANGED <<fdsources, deleteQueue, addQueue, running, ready, pos, asked>>

-----------------------------------------------------------------------------
HandlerReturns == HandlerReturnsTrue \/ HandlerReturnsFalse

Loop ==
  \/ Exit \/ Poll \/ Dispatch \/ HandlerReturns \/ ScanDone
  \/ Erase \/ EraseDone \/ Drain
  \/ IntervalNotDue \/ IntervalDue \/ SlotsReturn

Next ==
  \/ \E s \in Source : add(s) \/ remove(s)
  \/ Run
  \/ Loop

Safety == Init /\ [][Next]_vars

(***************************************************************************)
(* poll() is given a finite timeout and handlers and slots return, so run()*)
(* never stops between two stages of a pass.  Nothing obliges a client to  *)
(* call anything.                                                          *)
(***************************************************************************)
Spec == Safety /\ WF_vars(Loop)

-----------------------------------------------------------------------------
(***************************************************************************)
(* Properties.                                                             *)
(***************************************************************************)

\* No source is watched or waiting to be watched twice, so one event never
\* calls one handler twice (add(), EventLoop.cpp:114-133).
NoDuplicates == IsInjective(fdsources \o addQueue)

\* The queued indices still denote exactly the sources whose removal was
\* accepted, however the vector shrinks under them (EventLoop.cpp:54-64).
IndicesDenote ==
  /\ \A i \in ToSet(deleteQueue) : i \in 1 .. Len(fdsources)
  /\ {fdsources[i] : i \in ToSet(deleteQueue)} = asked
  /\ IsInjective(deleteQueue)

\* While the loop runs, a source stops being watched only if its removal was
\* accepted and not yet carried out (EventLoop.cpp:56-63).
OnlyAskedLeave ==
  [][running => \A s \in Watched \ Watched' : s \in asked]_vars

\* A pass carries out every accepted removal before it admits a new source
\* or calls a slot, and run() leaves nothing queued (EventLoop.cpp:54-94).
NothingLeftOver ==
  /\ pc \in {"drain", "interval", "idle"} => asked = {} /\ deleteQueue = <<>>
  /\ pc \in {"interval", "idle"} => addQueue = <<>>

\* The loop implements the abstract watch set.
WS == INSTANCE WatchSet WITH
        watched <- Watched,
        leaving <- {fdsources[i] : i \in ToSet(deleteQueue) \cap DOMAIN fdsources},
        joining <- Pending,
        busy    <- running

ImplementsWatchSet == WS!Spec
=============================================================================
