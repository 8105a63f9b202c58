---------------------------- MODULE StateDevices ----------------------------
(***************************************************************************)
(* urt::State (lib/URT/State.cpp) and its clients on the server's side of  *)
(* the links, StateDevice and StateSocket.  A handler that sets a substate *)
(* calls, before set() returns, the sendSubstate() of every device that    *)
(* registered for it; a failing write throws through the signal and        *)
(* set() into the SETTER's handler, whose catch (...) returns false.       *)
(*                                                                         *)
(* The devices are a redundant group: same application type and UID, so    *)
(* that they share every substate of Key (StateDevice.h:42-47).  The event *)
(* loop is reduced to what it guarantees (WatchSet): handlers run one at a *)
(* time, and a source that returned false is destroyed at the end of the   *)
(* pass, other handlers of the pass running in between.                    *)
(***************************************************************************)
EXTENDS Naturals, SequencesExt

CONSTANTS
  Device,           \* StateDevices of one application type and UID
  Socket,           \* StateSockets
  Key, Value,
  None,             \* not a source
  Unset,            \* the empty string, the value of a substate never set
  MaxSlots          \* bound on the registrations for one key

ASSUME SourceAssumption == Device \cap Socket = {}
ASSUME UnsetAssumption == Unset \notin Value
ASSUME MaxSlotsAssumption == MaxSlots \in Nat

Source == Device \cup Socket
ASSUME NoneAssumption == None \notin Source

VARIABLES
  data,             \* State::substates[k].data
  slots,            \* State::substates[k].signal, in calling order
  signalOnTouch,    \* the keys whose signal is triggered by a touch, too
  watched,          \* sources the event loop holds
  leaving,          \* those whose onActivity() returned false in this pass
  broken,           \* devices whose line fails
  setter,           \* the source whose handler is inside State::set()
  key,              \* the substate it sets, when there is a setter
  todo,             \* slots of the signal still to be called
  heard,            \* history: the value last pushed to a device, per key
  cutShort          \* history: the keys whose last signal a slot threw out of

sourceVars == <<watched, leaving, broken>>
callVars == <<setter, key, todo>>
historyVars == <<heard, cutShort>>
vars == <<data, slots, signalOnTouch, sourceVars, callVars, historyVars>>

TypeOK ==
  /\ data \in [Key -> Value \cup {Unset}]
  /\ slots \in [Key -> Seq(Device)]
  /\ signalOnTouch \in SUBSET Key
  /\ watched \in SUBSET Source
  /\ leaving \in SUBSET watched
  /\ broken \in SUBSET Device
  /\ setter \in Source \cup {None}
  /\ key \in Key
  /\ todo \in Seq(Device)
  /\ heard \in [Device -> [Key -> Value \cup {Unset}]]
  /\ cutShort \in SUBSET Key

Init ==
  /\ data = [k \in Key |-> Unset]
  /\ slots = [k \in Key |-> <<>>]
  /\ signalOnTouch \in SUBSET Key
  /\ watched = Source
  /\ leaving = {}
  /\ broken = {}
  /\ setter = None
  /\ key \in Key
  /\ todo = <<>>
  /\ heard = [d \in Device |-> [k \in Key |-> Unset]]
  /\ cutShort = {}

-----------------------------------------------------------------------------
(***************************************************************************)
(* Handlers, begun by the event loop one at a time.                        *)
(***************************************************************************)
Handles(s) == setter = None /\ s \in watched \ leaving /\ s \notin broken

\* The substate changes, or it is touched and wants to know.
Signals(k, v) == data[k] # v \/ k \in signalOnTouch

\* Message 0x00.  set() stores the value, then starts to call the slots.
set(s, k, v) ==
  /\ Handles(s)
  /\ data' = [data EXCEPT ![k] = v]
  /\ IF Signals(k, v)
     THEN /\ setter' = s /\ key' = k /\ todo' = slots[k]
          /\ cutShort' = cutShort \ {k}
     ELSE UNCHANGED <<callVars, cutShort>>
  /\ UNCHANGED <<slots, signalOnTouch, sourceVars, heard>>

\* Message 0x02, from a device only.  Nothing is pushed at registration.
registerSlot(d, k) ==
  /\ Handles(d)
  /\ Len(slots[k]) < MaxSlots
  /\ slots' = [slots EXCEPT ![k] = Append(@, d)]
  /\ UNCHANGED <<data, signalOnTouch, sourceVars, callVars, historyVars>>

\* Any other type from a device, a damaged datagram, a peer that closed.
Refuse(s) ==
  /\ Handles(s)
  /\ leaving' = leaving \cup {s}
  /\ UNCHANGED <<data, slots, signalOnTouch, watched, broken, callVars, historyVars>>

\* Defect: a failing read is ignored, as poll() ignores a failing write.
Bug_Hangup(d) ==
  /\ setter = None /\ d \in (watched \ leaving) \cap broken
  /\ UNCHANGED vars

\* A broken line is reported by poll(2); reading from it, or writing the reply
\* to a message 0x01 that was read before, throws.
Hangup(d) ==
  /\ setter = None /\ d \in (watched \ leaving) \cap broken
  /\ leaving' = leaving \cup {d}
  /\ UNCHANGED <<data, slots, signalOnTouch, watched, broken, callVars, historyVars>>

-----------------------------------------------------------------------------
(***************************************************************************)
(* The slots of the signal, called inside set().                           *)
(***************************************************************************)

\* Defect: the first slot is skipped (a pre-incremented iterator).
Bug_sendSubstate ==
  /\ setter # None /\ todo # <<>>
  /\ Head(todo) \notin broken
  /\ heard' = IF Len(todo) = Len(slots[key]) THEN heard
              ELSE [heard EXCEPT ![Head(todo)][key] = data[key]]
  /\ todo' = Tail(todo)
  /\ UNCHANGED <<data, slots, signalOnTouch, sourceVars, setter, key, cutShort>>

sendSubstate ==
  /\ setter # None /\ todo # <<>>
  /\ Head(todo) \notin broken
  /\ heard' = [heard EXCEPT ![Head(todo)][key] = data[key]]
  /\ todo' = Tail(todo)
  /\ UNCHANGED <<data, slots, signalOnTouch, sourceVars, setter, key, cutShort>>

\* The write fails: no further slot is called, and the setter is given up.
sendThrows ==
  /\ setter # None /\ todo # <<>>
  /\ Head(todo) \in broken
  /\ leaving' = leaving \cup {setter}
  /\ setter' = None /\ todo' = <<>>
  /\ cutShort' = cutShort \cup {key}
  /\ UNCHANGED <<data, slots, signalOnTouch, watched, broken, key, heard>>

setReturns ==
  /\ setter # None /\ todo = <<>>
  /\ setter' = None
  /\ UNCHANGED <<data, slots, signalOnTouch, sourceVars, key, todo, historyVars>>

-----------------------------------------------------------------------------
(***************************************************************************)
(* The event loop destroys sources, the user pulls and plugs cables.       *)
(***************************************************************************)

\* The slots of a signal once those of destroyed devices are disconnected; a recursive
\* function, like SelectSeq(), that can be reasoned about.
Without(s, gone) ==
  LET rest[n \in 0 .. Len(s)] ==
        IF n = 0 THEN <<>>
        ELSE IF s[n] \in gone THEN rest[n - 1] ELSE Append(rest[n - 1], s[n])
  IN  rest[Len(s)]

\* Defect: the destroyed device does not leave the signals it is connected to.
Bug_Erase ==
  /\ setter = None /\ leaving # {}
  /\ watched' = watched \ leaving
  /\ leaving' = {}
  /\ UNCHANGED <<data, slots, signalOnTouch, broken, callVars, historyVars>>

\* The end of the pass; destroying a trackable object disconnects its slots.
Erase ==
  /\ setter = None /\ leaving # {}
  /\ watched' = watched \ leaving
  /\ leaving' = {}
  /\ slots' = [k \in Key |-> Without(slots[k], leaving)]
  /\ UNCHANGED <<data, signalOnTouch, broken, callVars, historyVars>>

\* At any moment, in the middle of a signal too.
Unplug(d) ==
  /\ d \in watched
  /\ broken' = broken \cup {d}
  /\ UNCHANGED <<data, slots, signalOnTouch, watched, leaving, callVars, historyVars>>

\* A handshake succeeds, or a client connects: a new object is added.
Connect(s) ==
  /\ setter = None /\ s \notin watched
  /\ watched' = watched \cup {s}
  /\ broken' = broken \ {s}
  /\ heard' = [d \in Device |-> IF d = s THEN [k \in Key |-> Unset] ELSE heard[d]]
  /\ UNCHANGED <<data, slots, signalOnTouch, leaving, callVars, cutShort>>

InSet == sendSubstate \/ sendThrows \/ setReturns

Next ==
  \/ \E s \in Source, k \in Key, v \in Value : set(s, k, v)
  \/ \E d \in Device, k \in Key : registerSlot(d, k)
  \/ \E s \in Source : Refuse(s) \/ Connect(s)
  \/ \E d \in Device : Hangup(d) \/ Unplug(d)
  \/ InSet
  \/ Erase

Safety == Init /\ [][Next]_vars

(***************************************************************************)
(* set() and the pass it belongs to come to an end, and every pass visits  *)
(* every source poll(2) reports, a broken line among them.                 *)
(***************************************************************************)
Spec ==
  /\ Safety
  /\ WF_vars(InSet)
  /\ SF_vars(Erase)
  /\ \A d \in Device : SF_vars(Hangup(d))

-----------------------------------------------------------------------------
(***************************************************************************)
(* Properties.                                                             *)
(***************************************************************************)

\* A signal never calls a slot of a device that has been destroyed, although
\* the setter's handler goes on after the device failed (State.h:187-202,
\* EventLoop.cpp:56-63).
SlotsAreLive ==
  /\ TypeOK
  /\ \A k \in Key : ToSet(slots[k]) \subseteq watched
  /\ ToSet(todo) \subseteq watched

\* Whenever no set() is in progress, a device that registered a substate and
\* works has been told its latest value, if any since, unless an exception cut
\* the signal short, which the next change makes good (globals.h:130-133,
\* State.cpp:42-50).
UpdatedUnlessCutShort ==
  setter = None =>
    \A k \in Key \ cutShort : \A d \in ToSet(slots[k]) \ broken :
      heard[d][k] \in {Unset, data[k]}

\* A device that works and keeps to the protocol is not dropped because of
\* another one: the State is refreshed as long as one device still works
\* (StateDevice.h:44-45).
OnlyOwnFaultDrops ==
  [][\A s \in leaving' \ leaving : s \in broken \/ Refuse(s)]_vars

\* A device whose line fails is eventually dropped, whichever handler met the
\* failure first (StateDevice.cpp:86-90).
BrokenIsDropped ==
  \A d \in Device : (d \in broken /\ d \in watched) ~> (d \notin watched)
=============================================================================
