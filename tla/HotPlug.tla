------------------------------- MODULE HotPlug -------------------------------
(***************************************************************************)
(* How boards get into the event loop: main() lets HotDeviceManager watch  *)
(* /dev (inotify), then search it (DeviceManager::execute()), takes the    *)
(* one port that did not answer for the motor controller, and runs the     *)
(* loop, in which the manager constructs a StateDevice for every file that *)
(* appears.  A construction takes seconds (ArdLink), and things are        *)
(* plugged in and pulled out meanwhile.                                    *)
(***************************************************************************)
EXTENDS Naturals, SequencesExt

CONSTANTS
  Boards,           \* the ports of boards, which answer a handshake
  Controller,       \* the port of the motor controller, which does not
  NoPort,
  MaxPlugs          \* bound on the number of times something is plugged in

ASSUME PortAssumption == Controller \notin Boards /\ NoPort \notin Boards \cup {Controller}
ASSUME MaxPlugsAssumption == MaxPlugs \in Nat

Port == Boards \cup {Controller}

VARIABLES
  stage,            \* of main(): "watch", "execute", "scan", "loop" or "ended"
  files,            \* the device files that exist
  events,           \* inotify's queue
  batch,            \* events read by onActivity() and not handled yet
  entries,          \* what the directory iterator will still return
  trying,           \* the port whose StateDevice is being constructed
  step,             \* "none"; "first" or "second" construction, "sleep" between them
  objects,          \* how many StateDevices of a port the loop holds
  m_failed,
  motor,            \* the port given to the Ax3500
  plugs,            \* how often something was plugged in
  unlucky,          \* history: boards that were late or pulled out since they were plugged in
  raced             \* history: plugged in during the search, or before an older event was handled

searchVars == <<stage, entries, m_failed, motor>>
deviceVars == <<trying, step, objects>>
historyOfPlugs == <<plugs, unlucky, raced>>
plugVars == <<searchVars, files, events, batch, deviceVars, historyOfPlugs>>

HotPlugInit ==
  /\ stage = "watch"
  /\ files \in SUBSET Port
  /\ events = <<>> /\ batch = <<>> /\ entries = {}
  /\ trying = NoPort /\ step = "none"
  /\ objects = [p \in Port |-> 0]
  /\ m_failed = <<>> /\ motor = NoPort
  /\ plugs = 0 /\ unlucky = {} /\ raced = {}

-----------------------------------------------------------------------------
(* The search.                                                             *)

\* From now on the kernel queues the names of new files.
addDirectory ==
  /\ stage = "watch"
  /\ stage' = "execute"
  /\ UNCHANGED <<entries, m_failed, motor, files, events, batch, deviceVars, historyOfPlugs>>

openDirectory ==
  /\ stage = "execute"
  /\ stage' = "scan" /\ entries' = files
  /\ UNCHANGED <<m_failed, motor, files, events, batch, deviceVars, historyOfPlugs>>

\* A construction begins; without the file it fails at once.  In the loop the manager
\* sleeps for half a second and constructs another before it gives the port up.
Fails(p, attempt) ==
  IF stage = "loop" /\ attempt = "first"
  THEN step' = "sleep" /\ trying' = p /\ UNCHANGED m_failed
  ELSE step' = "none" /\ trying' = NoPort /\ m_failed' = Append(m_failed, p)

Construct(p, attempt) ==
  IF p \in files
  THEN step' = attempt /\ trying' = p /\ UNCHANGED m_failed
  ELSE Fails(p, attempt)

SearchFinds(p) ==
  /\ stage = "scan" /\ step = "none" /\ p \in entries
  /\ entries' = entries \ {p}
  /\ Construct(p, "first")
  /\ UNCHANGED <<stage, motor, files, events, batch, objects, historyOfPlugs>>

\* getFailed(): with none or several the program ends; with a port that is gone it does so
\* by an exception.
ChooseMotor ==
  /\ stage = "scan" /\ step = "none" /\ entries = {}
  /\ IF Len(m_failed) = 1 /\ m_failed[1] \in files
     THEN stage' = "loop" /\ motor' = m_failed[1]
     ELSE stage' = "ended" /\ UNCHANGED motor
  /\ UNCHANGED <<entries, m_failed, files, events, batch, deviceVars, historyOfPlugs>>

-----------------------------------------------------------------------------
(* The loop.                                                               *)

\* One read() takes the events that wait.
onActivity ==
  /\ stage = "loop" /\ step = "none" /\ batch = <<>> /\ events # <<>>
  /\ batch' = events /\ events' = <<>>
  /\ UNCHANGED <<searchVars, files, deviceVars, historyOfPlugs>>

\* Defect: one event is handled for each read.
Bug_HandleEvent ==
  /\ stage = "loop" /\ step = "none" /\ batch # <<>>
  /\ batch' = <<>>
  /\ Construct(Head(batch), "first")
  /\ UNCHANGED <<stage, entries, motor, files, events, objects, historyOfPlugs>>

HandleEvent ==
  /\ stage = "loop" /\ step = "none" /\ batch # <<>>
  /\ batch' = Tail(batch)
  /\ Construct(Head(batch), "first")
  /\ UNCHANGED <<stage, entries, motor, files, events, objects, historyOfPlugs>>

TryAgain ==
  /\ step = "sleep"
  /\ Construct(trying, "second")
  /\ UNCHANGED <<stage, entries, motor, files, events, batch, objects, historyOfPlugs>>

\* A lost port hangs up, and the loop destroys what it holds of it.
Hangup(p) ==
  /\ stage = "loop" /\ step = "none" /\ batch = <<>>
  /\ objects[p] > 0 /\ p \notin files
  /\ objects' = [objects EXCEPT ![p] = 0]
  /\ UNCHANGED <<searchVars, files, events, batch, trying, step, historyOfPlugs>>

-----------------------------------------------------------------------------
(* A construction ends, within execute() or onActivity().                  *)

Constructing == step \in {"first", "second"}

\* Defect: a second device is constructed although the first construction succeeded.
Bug_Answered_twice ==
  /\ Constructing /\ trying \in files \cap Boards
  /\ objects' = [objects EXCEPT ![trying] = @ + 1]
  /\ IF stage = "loop" /\ step = "first"
     THEN step' = "sleep" /\ UNCHANGED trying
     ELSE step' = "none" /\ trying' = NoPort
  /\ UNCHANGED <<searchVars, files, events, batch, historyOfPlugs>>

\* Defect: the port is noted as failed whether or not its device answered.
Bug_Answered_failed ==
  /\ Constructing /\ trying \in files \cap Boards
  /\ objects' = [objects EXCEPT ![trying] = @ + 1]
  /\ m_failed' = Append(m_failed, trying)
  /\ trying' = NoPort /\ step' = "none"
  /\ UNCHANGED <<stage, entries, motor, files, events, batch, historyOfPlugs>>

\* onFound() vetoes nothing in this program: the device is added to the loop.
Answered ==
  /\ Constructing /\ trying \in files \cap Boards
  /\ objects' = [objects EXCEPT ![trying] = @ + 1]
  /\ trying' = NoPort /\ step' = "none"
  /\ UNCHANGED <<searchVars, files, events, batch, historyOfPlugs>>

\* It is the controller's port, the device was pulled out, or it is late.
NotAnswered ==
  /\ Constructing
  /\ Fails(trying, step)
  /\ unlucky' = unlucky \cup ({trying} \cap Boards)
  /\ UNCHANGED <<stage, entries, motor, files, events, batch, objects, plugs, raced>>

-----------------------------------------------------------------------------
(* Whoever plugs things in.  The kernel gives a port's name away again     *)
(* only after the server has closed it; the Ax3500's is never closed here. *)

Closed(p) == objects[p] = 0 /\ motor # p /\ ~(Constructing /\ trying = p)
Handled(p) == p \notin ToSet(events) \cup ToSet(batch) \cup {trying}

Plug(p) ==
  /\ stage # "ended" /\ p \notin files /\ Closed(p) /\ plugs < MaxPlugs
  /\ plugs' = plugs + 1
  /\ files' = files \cup {p}
  /\ events' = IF stage = "watch" THEN events ELSE Append(events, p)
  /\ entries' \in IF stage = "scan" THEN {entries, entries \cup {p}} ELSE {entries}
  /\ unlucky' = unlucky \ {p}
  /\ raced' = IF stage \in {"execute", "scan"} \/ ~Handled(p) THEN raced \cup {p} ELSE raced
  /\ UNCHANGED <<stage, m_failed, motor, batch, deviceVars>>

Pull(p) ==
  /\ stage # "ended" /\ p \in files
  /\ files' = files \ {p}
  /\ entries' \in {entries, entries \ {p}}
  /\ unlucky' = unlucky \cup ({p} \cap Boards)
  /\ UNCHANGED <<stage, m_failed, motor, events, batch, deviceVars, plugs, raced>>

-----------------------------------------------------------------------------
execute == openDirectory \/ \E p \in Port : SearchFinds(p)
StartSearch == addDirectory \/ execute \/ ChooseMotor
Manage == onActivity \/ HandleEvent \/ TryAgain
Constructed == Answered \/ NotAnswered
Program == StartSearch \/ Manage \/ Constructed \/ \E p \in Port : Hangup(p)
HotPlugNext == Program \/ \E p \in Port : Plug(p) \/ Pull(p)

\* main() and the loop go on; constructions end (ArdLink).
HotPlugSpec == HotPlugInit /\ [][HotPlugNext]_plugVars /\ WF_plugVars(Program)

HotPlugTypeOK ==
  /\ stage \in {"watch", "execute", "scan", "loop", "ended"}
  /\ {files, entries, raced} \subseteq SUBSET Port /\ unlucky \subseteq Boards
  /\ {events, batch, m_failed} \subseteq Seq(Port)
  /\ {trying, motor} \subseteq Port \cup {NoPort}
  /\ step \in {"none", "first", "sleep", "second"}
  /\ (step = "none") = (trying = NoPort)
  /\ objects \in [Port -> Nat]
  /\ plugs \in 0 .. MaxPlugs

(***************************************************************************)
(* Two StateDevices never read the same port, unless it was plugged in     *)
(* during the search, which then meets it twice, or again before the       *)
(* manager had dealt with an older event of the same name                  *)
(* (HotDeviceManager.cpp:48-90, DeviceManager.cpp:45-67).                  *)
(***************************************************************************)
OneDevicePerPort ==
  /\ HotPlugTypeOK
  /\ \A p \in Port : objects[p] > 1 => p \in raced

(***************************************************************************)
(* "Assume the failed device is an Ax3500" (main.cpp:136): the port taken  *)
(* for the motor controller is the controller's, unless a board was late,  *)
(* pulled out or plugged in during the search.                             *)
(***************************************************************************)
ControllerIsTaken ==
  [][motor' # motor => motor' = Controller \/ unlucky # {} \/ raced # {}]_plugVars

(***************************************************************************)
(* A board that is plugged in while or before the loop runs, stays and     *)
(* answers in time is watched, whatever else comes and goes: no file falls *)
(* between the watch, the search and the events                            *)
(* (HotDeviceManager.h:46-47, HotDeviceManager.cpp:38-61).                 *)
(***************************************************************************)
BoardIsWatched ==
  \A b \in Boards :
    stage = "loop" /\ b \in files ~> objects[b] > 0 \/ b \notin files \/ b \in unlucky
=============================================================================
