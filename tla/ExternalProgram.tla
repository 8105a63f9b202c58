--------------------------- MODULE ExternalProgram ---------------------------
(***************************************************************************)
(* urt::ExternalProgram (lib/URT/ExternalProgram.cpp): a child process     *)
(* whose standard input and output are one end of a socket pair; the other *)
(* end is watched by the event loop.  Destroying the object ends the       *)
(* child, and keeps the loop's thread for up to two tenths of a second.    *)
(*                                                                         *)
(* vfork() suspends the constructor until the child runs its program or    *)
(* has given up, so the constructor is one step.  The child may close or   *)
(* ignore what it likes, TERM too, but not KILL.                           *)
(***************************************************************************)
CONSTANT Programs       \* objects that may be created, each once

VARIABLES
  child,            \* "none", "runs", "zombie" or "reaped"
  object,           \* "none", "failed", "watched", then in the destructor "closed",
                    \* "terminated", "killed", and "gone"
  sockets,          \* the ends of the pair the server has open, 0 or 1
  late              \* history: alive a tenth of a second after KILL

programVars == <<child, object, sockets, late>>

ProgramInit ==
  /\ child = [p \in Programs |-> "none"]
  /\ object = [p \in Programs |-> "none"]
  /\ sockets = [p \in Programs |-> {}]
  /\ late = {}

Destroying == \E p \in Programs : object[p] \in {"closed", "terminated", "killed"}

-----------------------------------------------------------------------------
\* socketpair() or vfork() fails, and nothing is left open.
CreateFails(p) ==
  /\ object[p] = "none"
  /\ object' = [object EXCEPT ![p] = "failed"]
  /\ UNCHANGED <<child, sockets, late>>

\* Defect: the server keeps the child's end.
Bug_Create(p) ==
  /\ object[p] = "none"
  /\ object' = [object EXCEPT ![p] = "watched"]
  /\ \E c \in {"runs", "zombie"} : child' = [child EXCEPT ![p] = c]
  /\ sockets' = [sockets EXCEPT ![p] = {0, 1}]
  /\ UNCHANGED late

\* A program that cannot be executed is a child that ends at once.
Create(p) ==
  /\ object[p] = "none"
  /\ object' = [object EXCEPT ![p] = "watched"]
  /\ \E c \in {"runs", "zombie"} : child' = [child EXCEPT ![p] = c]
  /\ sockets' = [sockets EXCEPT ![p] = {0}]
  /\ UNCHANGED late

\* The child ends for its own reasons, by TERM or by KILL (external).
Ends(p) ==
  /\ child[p] = "runs"
  /\ child' = [child EXCEPT ![p] = "zombie"]
  /\ UNCHANGED <<object, sockets, late>>

-----------------------------------------------------------------------------
(* The destructors: the socket's closes it, then the child is dealt with.  *)

Close(p) ==
  /\ object[p] = "watched"
  /\ object' = [object EXCEPT ![p] = "closed"]
  /\ sockets' = [sockets EXCEPT ![p] = @ \ {0}]
  /\ UNCHANGED <<child, late>>

\* The last holder of the other end is gone: get() fails, onActivity() returns false and the
\* loop destroys the object.
Hangup(p) == child[p] # "runs" /\ sockets[p] = {0} /\ Close(p)

\* waitpid(WNOHANG): a dead child is reaped and nothing else is to be done.
Reaps(p) ==
  /\ child[p] = "zombie"
  /\ child' = [child EXCEPT ![p] = "reaped"]
  /\ object' = [object EXCEPT ![p] = "gone"]

StillRuns(p, next) ==
  /\ child[p] # "zombie"
  /\ object' = [object EXCEPT ![p] = next]
  /\ UNCHANGED child

Terminate(p) ==
  /\ object[p] = "closed"
  /\ Reaps(p) \/ StillRuns(p, "terminated")
  /\ UNCHANGED <<sockets, late>>

\* A tenth of a second later.
Kill(p) ==
  /\ object[p] = "terminated"
  /\ Reaps(p) \/ StillRuns(p, "killed")
  /\ UNCHANGED <<sockets, late>>

\* And another.
GiveUp(p) ==
  /\ object[p] = "killed"
  /\ \/ Reaps(p) /\ UNCHANGED late
     \/ StillRuns(p, "gone") /\ late' = late \cup {p}
  /\ UNCHANGED sockets

Destroy(p) == Terminate(p) \/ Kill(p) \/ GiveUp(p)

-----------------------------------------------------------------------------
\* The loop's thread, when no destructor keeps it; clients may remove a program at any time.
Clients == ~Destroying /\ \E p \in Programs : CreateFails(p) \/ Create(p) \/ Close(p)
Notices == ~Destroying /\ \E p \in Programs : Hangup(p)
Destructor == \E p \in Programs : Destroy(p)
=============================================================================
