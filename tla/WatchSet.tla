------------------------------ MODULE WatchSet ------------------------------
(***************************************************************************)
(* What urt::EventLoop promises its clients, without its vectors, queues   *)
(* and indices: a set of watched sources, a set of sources that will stop  *)
(* being watched and a set of sources that will start being watched.       *)
(* EventLoop.tla implements it (lib/URT/EventLoop.h:45-134).               *)
(***************************************************************************)
CONSTANT Source     \* every FDEvtSource that could ever be watched

VARIABLES
  watched,          \* the sources the loop polls
  leaving,          \* watched sources whose removal has been accepted
  joining,          \* sources accepted by add() while the loop runs
  busy              \* the loop is inside run()

vars == <<watched, leaving, joining, busy>>

Init ==
  /\ watched = {}
  /\ leaving = {}
  /\ joining = {}
  /\ busy = FALSE

\* Outside run() a client changes the set at once.
AddNow(s) ==
  /\ ~busy
  /\ s \notin watched
  /\ watched' = watched \cup {s}
  /\ UNCHANGED <<leaving, joining, busy>>

RemoveNow(s) ==
  /\ ~busy
  /\ s \in watched
  /\ watched' = watched \ {s}
  /\ UNCHANGED <<leaving, joining, busy>>

\* Inside run() it can only ask.
AskToJoin(s) ==
  /\ busy
  /\ s \notin watched \cup joining
  /\ joining' = joining \cup {s}
  /\ UNCHANGED <<watched, leaving, busy>>

AskToLeave(s) ==
  /\ busy
  /\ s \in watched \ leaving
  /\ leaving' = leaving \cup {s}
  /\ UNCHANGED <<watched, joining, busy>>

\* The loop grants what was asked: every removal before any addition.
Leave(s) ==
  /\ s \in leaving
  /\ watched' = watched \ {s}
  /\ leaving' = leaving \ {s}
  /\ UNCHANGED <<joining, busy>>

JoinAll ==
  /\ joining # {}
  /\ leaving = {}
  /\ watched' = watched \cup joining
  /\ joining' = {}
  /\ UNCHANGED <<leaving, busy>>

Start ==
  /\ ~busy
  /\ busy' = TRUE
  /\ UNCHANGED <<watched, leaving, joining>>

\* run() returns only when nothing is watched and no request is outstanding.
Stop ==
  /\ busy
  /\ watched = {} /\ leaving = {} /\ joining = {}
  /\ busy' = FALSE
  /\ UNCHANGED <<watched, leaving, joining>>

Next ==
  \/ \E s \in Source :
       AddNow(s) \/ RemoveNow(s) \/ AskToJoin(s) \/ AskToLeave(s) \/ Leave(s)
  \/ JoinAll
  \/ Start
  \/ Stop

Safety == Init /\ [][Next]_vars

Fairness == WF_vars(JoinAll) /\ \A s \in Source : WF_vars(Leave(s))

Spec == Safety /\ Fairness
=============================================================================
