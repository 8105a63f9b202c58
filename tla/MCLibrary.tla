------------------------------ MODULE MCLibrary ------------------------------
(***************************************************************************)
(* The two parts of the library that the robot does not use, in one event  *)
(* loop: the watchdog's expirations go on while a program's destructor     *)
(* keeps the thread.                                                       *)
(***************************************************************************)
EXTENDS Watchdog2, ExternalProgram

LoopIsFree == ~Destroying

LibraryInit == Watchdog2Init /\ ProgramInit

Kernel == Expiration \/ Thread
Handlers == LoopIsFree /\ (Service \/ CheckIn \/ TripTouches)
InLoop == loop = "elsewhere" /\ (Clients \/ Notices \/ Destructor)
Children == \E p \in Programs : Ends(p)

LibraryNext ==
  \/ (Kernel \/ Handlers) /\ UNCHANGED programVars
  \/ (InLoop \/ Children) /\ UNCHANGED watchdog2Vars

\* Fairness of Watchdog2Spec and of ExternalProgram, for the thread they share: the
\* loop comes to every source that is ready.
LibrarySpec ==
  /\ LibraryInit /\ [][LibraryNext]_<<watchdog2Vars, programVars>>
  /\ WF_watchdog2Vars(Expiration /\ UNCHANGED programVars)
  /\ WF_watchdog2Vars(Thread /\ UNCHANGED programVars)
  /\ WF_watchdog2Vars(LoopIsFree /\ Service /\ UNCHANGED programVars)
  /\ SF_programVars(loop = "elsewhere" /\ Notices /\ UNCHANGED watchdog2Vars)
  /\ WF_programVars(Destructor /\ UNCHANGED watchdog2Vars)

(***************************************************************************)
(* Every child that ends, or whose object is destroyed, is reaped, so that *)
(* no zombies pile up: also one that could not be executed, that ends      *)
(* between a look and a signal, or that ignores TERM; but not one alive a  *)
(* tenth of a second after KILL, and not while the drain of the timer's    *)
(* pipe keeps the thread (ExternalProgram.cpp:34-67, ExternalProgram.h:    *)
(* 81-83, 127-132, Timer.cpp:85-91).                                       *)
(***************************************************************************)
ChildrenAreReaped ==
  \/ []<><<ExpiresInDrain>>_watchdog2Vars
  \/ \A i \in Programs :
       child[i] = "zombie" \/ object[i] = "closed" ~> child[i] = "reaped" \/ i \in late
=============================================================================
