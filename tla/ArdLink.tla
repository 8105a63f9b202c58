------------------------------ MODULE ArdLink ------------------------------
(***************************************************************************)
(* One ARD link: the server opens a serial port, looks for a device at     *)
(* each baud rate in turn (ArdPort.cpp over SerialPort.cpp, retried by the *)
(* managers), then reads its datagrams; the device runs PURT in direct     *)
(* mode (statedevice_direct.c, datagram.c) and was in the middle of        *)
(* anything when the port was opened.                                      *)
(*                                                                         *)
(* A byte is a number below W (256 in the code), so that a handshake is    *)
(* <<4, W - 1, type, uid, ~4>>.  The lines carry bytes in order.  A byte   *)
(* sent at the wrong speed arrives as one of Junk, or not at all.          *)
(***************************************************************************)
EXTENDS Integers, SequencesExt

CONSTANTS
  W,                \* number of byte values
  Junk,             \* what a byte sent at another speed may be taken for
  Messages,         \* messages of the substates that the device sets, asks or registers
  Value,            \* the server's answer to a question
  AppType, Uid,     \* of the device's firmware
  Leftovers,        \* what handshake[] may hold before it is read into
  MaxPending        \* bound on the bytes waiting for the server, when more are sent

\* The size of a handshake, its type, its complement and those of text are different bytes.
ASSUME WAssumption == W \in Nat /\ W >= 10
Byte == 0 .. W - 1
HANDSHAKE == W - 1
Complement(n) == W - 1 - n
\* Every firmware has UID 0 (sonicbump.c:11, gps/main.c:11, compass_gyro/main.c:14).
ASSUME ByteAssumption ==
  /\ {AppType, Uid} \subseteq Byte /\ (AppType # 4 \/ Uid # HANDSHAKE)
  /\ Junk \subseteq Byte \ {4}
ASSUME LeftoverAssumption == \A l \in Leftovers : l \in Seq(Byte) /\ Len(l) = 5
\* Substates are text, so that none of their bytes is 0xFF, and short: with 249 characters
\* their complement would be 4 and could be taken for the beginning of a handshake.
ASSUME MessageAssumption ==
  /\ Messages \subseteq Seq(Byte \ {HANDSHAKE}) /\ <<>> \notin Messages
  /\ \A m \in Messages : Len(m) + 2 < Complement(4)
  /\ Value \in Seq(Byte \ {HANDSHAKE})

Bauds == <<"B2400", "B19200">>

VARIABLES
  host,             \* what the server does
  baud,             \* its index in BAUD_RATES
  attempt,          \* 1, or 2 for the retry of HotDeviceManager
  manager,          \* which manager found the port
  appType, uid,     \* as the server believes
  rx,               \* the kernel's input buffer
  hostOut,          \* bytes the server wrote, in front of the device
  devBaud,          \* the speed of the device
  size, left, type, \* purt_get_datagram(): the size byte, the bytes missing, the type byte
  devOut,           \* bytes the device is still to write: it is inside a handler
  plugged,
  slow,             \* speeds at which 255 NULs take longer than alarm(1)
  excuses           \* history: what went wrong while the server was looking

hostVars == <<host, baud, attempt, appType, uid>>
parserVars == <<size, left, type>>
constVars == <<manager, devBaud, slow>>
vars == <<hostVars, rx, hostOut, parserVars, devOut, plugged, constVars, excuses>>

Late == "late"          \* the device did not answer in time
Stray == "stray"        \* it answered what was not a handshake at its speed
Chatter == "chatter"    \* it sent a substate meanwhile

\* A datagram on the line: its size modulo the width of a byte, and the size's complement.
Datagram(t, message) ==
  LET n == (Len(message) + 2) % W IN <<n, t>> \o message \o <<Complement(n)>>

Flush == [i \in 1 .. W - 1 |-> 0]
Answer == Datagram(HANDSHAKE, <<AppType, Uid>>)

Init ==
  /\ host = "baud" /\ baud = 1 /\ attempt = 1
  /\ manager \in {"DeviceManager", "HotDeviceManager"}
  /\ appType = 0 /\ uid = 0
  /\ rx = <<>> /\ hostOut = <<>> /\ devOut = <<>>
  /\ devBaud \in DOMAIN Bauds
  /\ \/ size = 0 /\ left = 0 /\ type = 0
     \/ size \in 2 .. W - 1 /\ left = size /\ type = 0
     \/ size \in 2 .. W - 1 /\ left \in 1 .. size - 1 /\ type \in {0, 2, HANDSHAKE}
  /\ plugged = TRUE
  /\ slow \in SUBSET {1}
  /\ excuses = {}

-----------------------------------------------------------------------------
(* The server, looking.                                                    *)

\* The constructor throws; HotDeviceManager waits half a second and constructs another.
Throw ==
  /\ rx' = <<>>
  /\ IF manager = "HotDeviceManager" /\ attempt = 1
     THEN host' = "baud" /\ baud' = 1 /\ attempt' = 2
     ELSE host' = "failed" /\ UNCHANGED <<baud, attempt>>

NextBaud ==
  IF baud < Len(Bauds)
  THEN host' = "baud" /\ baud' = baud + 1 /\ UNCHANGED attempt
  ELSE Throw

\* setSpeed() discards what came; then 255 NULs, which end whatever datagram the device is
\* reading.  A write fails on a lost port and when tcdrain() is interrupted by the alarm.
Bug_SendFlush ==
  /\ host = "baud" /\ hostOut = <<>>
  /\ rx' = <<>>
  /\ IF ~plugged \/ baud \in slow
     THEN Throw /\ UNCHANGED hostOut
     ELSE host' = "flush" /\ hostOut' = Tail(Flush) /\ UNCHANGED <<baud, attempt>>
  /\ UNCHANGED <<appType, uid, parserVars, devOut, plugged, constVars, excuses>>

SendFlush ==
  /\ host = "baud" /\ hostOut = <<>>
  /\ rx' = <<>>
  /\ IF ~plugged \/ baud \in slow
     THEN Throw /\ UNCHANGED hostOut
     ELSE host' = "flush" /\ hostOut' = Flush /\ UNCHANGED <<baud, attempt>>
  /\ UNCHANGED <<appType, uid, parserVars, devOut, plugged, constVars, excuses>>

\* flushInput(), then the handshake.
Ask ==
  /\ host = "flush" /\ hostOut = <<>>
  /\ rx' = <<>>
  /\ IF plugged
     THEN host' = "wait" /\ hostOut' = Datagram(HANDSHAKE, <<>>) /\ UNCHANGED <<baud, attempt>>
     ELSE Throw /\ UNCHANGED hostOut
  /\ UNCHANGED <<appType, uid, parserVars, devOut, plugged, constVars, excuses>>

AtDevicesSpeed == baud = devBaud
Waiting == host = "wait" /\ hostOut = <<>>

\* Half a second without a byte.
PollTimeout ==
  /\ Waiting /\ rx = <<>>
  /\ NextBaud
  /\ excuses' = IF devOut # <<>> THEN excuses \cup {Late} ELSE excuses
  /\ UNCHANGED <<appType, uid, rx, hostOut, parserVars, devOut, plugged, constVars>>

Bug_IsHandshake(h) == h[1] = 4 /\ h[5] = Complement(4)
IsHandshake(h) == h[1] = 4 /\ h[2] = HANDSHAKE /\ h[5] = Complement(4)

\* What the constructor makes of five bytes, after which it reads with rest still waiting.
Judge(h, rest) ==
  IF IsHandshake(h)
  THEN host' = "up" /\ appType' = h[3] /\ uid' = h[4] /\ rx' = rest /\ UNCHANGED <<baud, attempt>>
  ELSE NextBaud /\ UNCHANGED <<appType, uid>> /\ (baud < Len(Bauds) => rx' = rest)

ReadHandshake ==
  /\ Waiting /\ Len(rx) >= 5
  /\ Judge(SubSeq(rx, 1, 5), SubSeq(rx, 6, Len(rx)))
  /\ UNCHANGED <<hostOut, parserVars, devOut, plugged, constVars, excuses>>

\* Half a second without a further byte: read() returns fewer than five, and the rest of
\* the array is what the stack held.
ReadShort ==
  /\ Waiting /\ Len(rx) \in 1 .. 4
  /\ \E old \in Leftovers : Judge(rx \o SubSeq(old, Len(rx) + 1, 5), <<>>)
  /\ excuses' = IF devOut # <<>> THEN excuses \cup {Late} ELSE excuses
  /\ UNCHANGED <<hostOut, parserVars, devOut, plugged, constVars>>

-----------------------------------------------------------------------------
(* The server, connected: StateDevice::poll() and onActivity().            *)

Poll ==
  /\ host = "up" /\ hostOut = <<>> /\ plugged /\ Len(rx) <= MaxPending
  /\ hostOut' = Datagram(0, <<>>)
  /\ UNCHANGED <<hostVars, rx, parserVars, devOut, plugged, constVars, excuses>>

\* getDatagram(): no byte is skipped, so that a first byte of 0 or 1 is an error like a bad
\* complement; the bytes are then read whole, however late they come.
Complete == rx # <<>> /\ (rx[1] < 2 \/ Len(rx) > rx[1])
Valid == rx[1] >= 2 /\ rx[rx[1] + 1] = Complement(rx[1])

Bug_Receive ==
  /\ host = "up" /\ hostOut = <<>> /\ Complete
  /\ IF Valid /\ rx[2] \in 0 .. 2 /\ (rx[2] = 1 => plugged)
     THEN /\ hostOut' = IF rx[2] = 1 THEN Datagram(1, SubSeq(rx, 3, rx[1]) \o Value) ELSE <<>>
          /\ rx' = SubSeq(rx, rx[1] + 1, Len(rx))
          /\ UNCHANGED host
     ELSE host' = "dropped" /\ rx' = <<>> /\ UNCHANGED hostOut
  /\ UNCHANGED <<baud, attempt, appType, uid, parserVars, devOut, plugged, constVars, excuses>>

\* A substate set or registered for stays here; a question is answered, if the port is
\* there; everything else, another answer to a handshake too, returns false.
Receive ==
  /\ host = "up" /\ hostOut = <<>> /\ Complete
  /\ IF Valid /\ rx[2] \in 0 .. 2 /\ (rx[2] = 1 => plugged)
     THEN /\ hostOut' = IF rx[2] = 1 THEN Datagram(1, SubSeq(rx, 3, rx[1]) \o Value) ELSE <<>>
          /\ rx' = SubSeq(rx, rx[1] + 2, Len(rx))
          /\ UNCHANGED host
     ELSE host' = "dropped" /\ rx' = <<>> /\ UNCHANGED hostOut
  /\ UNCHANGED <<baud, attempt, appType, uid, parserVars, devOut, plugged, constVars, excuses>>

\* The end of the file, or a write that fails.
ReceiveEnd ==
  /\ host = "up" /\ ~plugged /\ ~Complete
  /\ host' = "dropped" /\ rx' = <<>>
  /\ UNCHANGED <<baud, attempt, appType, uid, hostOut, parserVars, devOut, plugged, constVars, excuses>>

-----------------------------------------------------------------------------
(* The device, as long as the server has the port open.                    *)

Looking == host \in {"baud", "flush", "wait"}
Opened == Looking \/ host = "up"

\* purt_sd_direct_process_message() with a valid datagram: every answer to a poll, and the
\* registrations of onHandshake() behind the handshake.
Process(t) ==
  \/ /\ t = 0
     /\ \E m \in Messages : devOut' = Datagram(0, m)
     /\ excuses' = IF Looking THEN excuses \cup {Chatter} ELSE excuses
  \/ /\ t = HANDSHAKE
     /\ \E m \in Messages : devOut' \in {Answer, Answer \o Datagram(2, m)}
     /\ excuses' = IF host = "wait" /\ AtDevicesSpeed THEN excuses ELSE excuses \cup {Stray}
  \/ t \notin {0, HANDSHAKE} /\ UNCHANGED <<devOut, excuses>>

\* purt_get_datagram(), a byte at a time: sizes below 2 are skipped, and what does not end
\* in the complement of its size is ignored.
Parse(b) ==
  \/ left = 0 /\ b < 2 /\ UNCHANGED <<parserVars, devOut, excuses>>
  \/ left = 0 /\ b >= 2 /\ size' = b /\ left' = b /\ type' = 0 /\ UNCHANGED <<devOut, excuses>>
  \/ left = size /\ left > 1 /\ type' = b /\ left' = left - 1 /\ UNCHANGED <<size, devOut, excuses>>
  \/ left \in 2 .. size - 1 /\ left' = left - 1 /\ UNCHANGED <<size, type, devOut, excuses>>
  \/ /\ left = 1
     /\ left' = 0 /\ type' = 0 /\ size' = 0
     /\ IF b = Complement(size) THEN Process(type) ELSE UNCHANGED <<devOut, excuses>>

\* Idle, it takes the next byte.
DeviceReceives ==
  /\ Opened /\ devOut = <<>> /\ hostOut # <<>>
  /\ hostOut' = Tail(hostOut)
  /\ \/ AtDevicesSpeed /\ Parse(Head(hostOut))
     \/ ~AtDevicesSpeed /\ \E b \in Junk : Parse(b)
     \/ ~AtDevicesSpeed /\ UNCHANGED <<parserVars, devOut, excuses>>
  /\ UNCHANGED <<hostVars, rx, plugged, constVars>>

\* Inside a handler nothing empties its receiver, and bytes may be lost.
DeviceMisses ==
  /\ Opened /\ devOut # <<>> /\ hostOut # <<>>
  /\ hostOut' = Tail(hostOut)
  /\ UNCHANGED <<hostVars, rx, parserVars, devOut, plugged, constVars, excuses>>

DeviceSends ==
  /\ Opened /\ devOut # <<>>
  /\ devOut' = Tail(devOut)
  /\ IF AtDevicesSpeed THEN rx' = Append(rx, Head(devOut))
     ELSE \E b \in Junk : rx' \in {rx, Append(rx, b)}
  /\ UNCHANGED <<hostVars, hostOut, parserVars, plugged, constVars, excuses>>

\* Between two datagrams the program may set or ask for a substate of its own accord.
DeviceSpeaks ==
  /\ Opened /\ plugged /\ devOut = <<>> /\ left = 0 /\ Len(rx) <= MaxPending
  /\ \E m \in Messages, t \in {0, 1} : devOut' = Datagram(t, m)
  /\ excuses' = IF Looking THEN excuses \cup {Chatter} ELSE excuses
  /\ UNCHANGED <<hostVars, rx, hostOut, parserVars, plugged, constVars>>

Unplug ==
  /\ Opened /\ plugged
  /\ plugged' = FALSE /\ hostOut' = <<>> /\ devOut' = <<>>
  /\ UNCHANGED <<hostVars, rx, parserVars, constVars, excuses>>

-----------------------------------------------------------------------------
Look == SendFlush \/ Ask \/ PollTimeout \/ ReadHandshake \/ ReadShort
Serve == Poll \/ Receive \/ ReceiveEnd
Device == DeviceReceives \/ DeviceMisses \/ DeviceSends
Next == Look \/ Serve \/ Device \/ DeviceSpeaks \/ Unplug

\* The server's constructor goes on, and so do the lines and the firmware.
Spec == Init /\ [][Next]_vars /\ WF_vars(Look) /\ WF_vars(Device)

TypeOK ==
  /\ host \in {"baud", "flush", "wait", "up", "dropped", "failed"}
  /\ baud \in DOMAIN Bauds /\ devBaud \in DOMAIN Bauds
  /\ attempt \in 1 .. 2
  /\ {appType, uid, size, left, type} \subseteq Byte
  /\ left <= size
  /\ {rx, hostOut, devOut} \subseteq Seq(Byte)
  /\ excuses \subseteq {Late, Stray, Chatter}

\* The positions of s at which getDatagram() would find a datagram, and where it ends.
EndOf(s, i) == i + s[i]
Whole(s) ==
  {i \in 1 .. Len(s) :
     s[i] >= 2 /\ EndOf(s, i) <= Len(s) /\ s[EndOf(s, i)] = Complement(s[i])}
\* A sequence of whole datagrams: one begins where the one before it ends.
Framed(s) ==
  \E starts \in SUBSET Whole(s) :
    /\ s = <<>> \/ 1 \in starts
    /\ \A i \in starts : EndOf(s, i) + 1 \in starts \cup {Len(s) + 1}

(***************************************************************************)
(* Whatever the device was doing, and whatever junk both ends took for     *)
(* datagrams, a server that accepted a handshake in time knows the type    *)
(* and UID of the device, and what is under way to it is a sequence of     *)
(* whole datagrams (ArdPort.cpp:37-68, 74-90).                             *)
(***************************************************************************)
InStep ==
  /\ TypeOK
  /\ host = "up" /\ plugged /\ Late \notin excuses =>
       appType = AppType /\ uid = Uid /\ Framed(rx \o devOut)

(***************************************************************************)
(* A device is dropped only when its port is lost, unless one of its       *)
(* answers was late or stray: a second one ends the link                   *)
(* (StateDevice.cpp:61-66, ArdPort.cpp:80-86).                             *)
(***************************************************************************)
StaysUp ==
  [][host = "up" /\ host' = "dropped" => ~plugged \/ excuses \cap {Late, Stray} # {}]_vars

(***************************************************************************)
(* A device that answers in time and says nothing else meanwhile is        *)
(* connected, whatever it was in the middle of and whichever its speed;    *)
(* unless the NULs take longer than the alarm (SerialPort.cpp:176-185):    *)
(* then the second speed is never tried.                                   *)
(***************************************************************************)
LinkComesUp == [](plugged /\ excuses = {} /\ slow = {}) => <>(host = "up")
=============================================================================
