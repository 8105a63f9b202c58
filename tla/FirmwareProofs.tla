--------------------------- MODULE FirmwareProofs ---------------------------
(***************************************************************************)
(* Theorems about the boards' programs: PurtBuffer, for every width of a   *)
(* byte and whatever arrives on the line; SonicBump, the sonar and bumper  *)
(* board, however often its switches move; I2c, the compass board's        *)
(* driver, for every buffer, every length, every fault and every other     *)
(* master.                                                                 *)
(***************************************************************************)
EXTENDS PurtBuffer, SonicBump, I2c, SequenceTheorems, TLAPS

-----------------------------------------------------------------------------
(* SonicBump.                                                              *)

\* Type correctness of SonicBump.
SonicTypeOK ==
  /\ pin \in [Switches -> Values] /\ changes \in Nat
  /\ flag \in [Switches -> BOOLEAN] /\ unmasked \in BOOLEAN
  /\ isr \in Switches \cup {"none"} /\ isrAt \in {"read", "send"} /\ isrValue \in Values
  /\ messages \in Seq({"POLL", "HANDSHAKE"})
  /\ at \in {"loop", "onPoll", "sonar", "reply", "onHandshake", "activate"}
            \cup Switches \cup {Reporting[s] : s \in Switches}
  /\ reading \in Values /\ whole \in BOOLEAN
  /\ known \in [Switches -> Values \cup {"unknown"}]

\* The switches' interrupts are masked while one is served, and while the program sends.
MaskInv ==
  /\ at \in {"loop", "onPoll", "reply", "onHandshake"} => (unmasked <=> isr = "none")
  /\ at \notin {"loop", "onPoll", "reply", "onHandshake"} => ~unmasked /\ isr = "none"
  /\ \A s \in Switches : at = Reporting[s] => whole

\* What was read of a switch is what it is, or a flag waits.
ReadInv == \A s \in Switches :
  /\ isr = s /\ isrAt = "send" => flag[s] \/ isrValue = pin[s]
  /\ at = Reporting[s] => flag[s] \/ reading = pin[s]

\* What the host does not know of a switch is on its way: a flag waits, the interrupt is
\* being served, or the program answers a handshake and has not sent the switch yet.
BeforeReport(s) ==
  {"reply", "onHandshake", "bumper", "sending bumper"}
  \cup (IF s = "deadman" THEN {"deadman", "sending deadman"} ELSE {})
KnownInv == \A s \in Switches :
  known[s] \in {"unknown", pin[s]} \/ flag[s] \/ isr = s \/ at \in BeforeReport(s)

\* The inductive invariant of the sonar and bumper board.
SonicInv == SonicTypeOK /\ MaskInv /\ ReadInv /\ KnownInv

\* Where the program sends a switch.
LEMMA ReportingIs ==
  Reporting["bumper"] = "sending bumper" /\ Reporting["deadman"] = "sending deadman"
BY DEF Reporting

\* It holds at power-on, with the switches as they are.
LEMMA SonicInitHolds == SonicInit => SonicInv
<1> SUFFICES ASSUME SonicInit PROVE SonicInv
  OBVIOUS
<1>1. SonicTypeOK
  BY EmptySeq DEF SonicInit, SonicTypeOK, Switches, Values
<1> QED BY <1>1 DEF SonicInit, SonicInv, MaskInv, ReadInv, KnownInv, Reporting, Switches

\* A switch that moves sets its flag, which is all the invariant asks for.
LEMMA MoveHolds ==
  ASSUME SonicInv, NEW s \in Switches, Move(s)
  PROVE  SonicInv'
<1>1. SonicTypeOK'
  BY DEF SonicInv, SonicTypeOK, Move, Values, edgeVars, programVars
<1>2. MaskInv'
  BY DEF SonicInv, MaskInv, Move, edgeVars, programVars
<1>3. ReadInv' /\ KnownInv'
  <2>1. ASSUME NEW t \in Switches, t # s
        PROVE  pin'[t] = pin[t] /\ flag'[t] = flag[t]
    BY <2>1 DEF SonicInv, SonicTypeOK, Move
  <2>2. flag'[s] = TRUE
    BY DEF SonicInv, SonicTypeOK, Move
  <2>3. UNCHANGED <<edgeVars, programVars, known>>
    BY DEF Move
  <2> QED BY <2>1, <2>2, <2>3 DEF SonicInv, ReadInv, KnownInv, BeforeReport, edgeVars, programVars
<1> QED BY <1>1, <1>2, <1>3 DEF SonicInv

\* The interrupt reads after its flag is cleared and unmasks after it has sent.
LEMMA InterruptHolds ==
  ASSUME SonicInv, IntStep
  PROVE  SonicInv'
<1>1. CASE IntRead
  <2>1. SonicTypeOK'
    BY <1>1 DEF SonicInv, SonicTypeOK, IntRead, switchVars, programVars
  <2>2. MaskInv'
    BY <1>1 DEF SonicInv, MaskInv, IntRead, switchVars, programVars
  <2>3. ReadInv' /\ KnownInv'
    BY <1>1 DEF SonicInv, ReadInv, KnownInv, BeforeReport, IntRead, switchVars, programVars
  <2> QED BY <2>1, <2>2, <2>3 DEF SonicInv
<1>2. CASE IntLeave
  <2>1. SonicTypeOK'
    BY <1>2 DEF SonicInv, SonicTypeOK, IntLeave, switchVars, Switches, Values
  <2>2. at \in {"loop", "onPoll", "reply", "onHandshake"} /\ UNCHANGED <<at, reading, pin, flag>>
    BY <1>2 DEF SonicInv, MaskInv, IntLeave, switchVars
  <2>3. MaskInv'
    BY <1>2, <2>2, ReportingIs DEF SonicInv, MaskInv, IntLeave, Switches
  <2>4. MidDatagram <=> at = "reply"
    BY <2>2, ReportingIs DEF MidDatagram, Switches
  <2>5. ReadInv' /\ KnownInv'
    <3>1. CASE at = "reply"
      BY <1>2, <2>2, <3>1, ReportingIs DEF SonicInv, ReadInv, KnownInv, BeforeReport, IntLeave, Switches
    <3>2. CASE at # "reply"
      <4>1. known' = [known EXCEPT ![isr] = isrValue] /\ isr \in Switches /\ isrAt = "send"
        BY <1>2, <2>4, <3>2 DEF IntLeave, SonicInv, SonicTypeOK
      <4>2. ASSUME NEW t \in Switches, t # isr PROVE known'[t] = known[t]
        BY <4>1, <4>2 DEF SonicInv, SonicTypeOK
      <4>3. known'[isr] = isrValue
        BY <4>1 DEF SonicInv, SonicTypeOK
      <4>4. isr' = "none"
        BY <1>2 DEF IntLeave
      <4>5. flag[isr] \/ isrValue = pin[isr]
        BY <4>1 DEF SonicInv, ReadInv
      <4>6. ReadInv'
        BY <2>2, <4>4, ReportingIs DEF SonicInv, ReadInv, Switches
      <4>7. ASSUME NEW t \in Switches
            PROVE  known'[t] \in {"unknown", pin[t]} \/ flag[t] \/ at \in BeforeReport(t)
        <5>1. CASE t = isr
          BY <5>1, <4>3, <4>5
        <5>2. CASE t # isr
          BY <5>2, <4>2 DEF SonicInv, KnownInv
        <5> QED BY <5>1, <5>2
      <4>8. KnownInv'
        BY <2>2, <4>7 DEF KnownInv, BeforeReport
      <4> QED BY <4>6, <4>8
    <3> QED BY <3>1, <3>2
  <2> QED BY <2>1, <2>3, <2>5 DEF SonicInv
<1>3. ASSUME NEW s \in Switches, IntEnter(s)
      PROVE  SonicInv'
  <2>1. SonicTypeOK'
    BY <1>3 DEF SonicInv, SonicTypeOK, IntEnter, switchVars, programVars
  <2>2. MaskInv'
    BY <1>3 DEF SonicInv, MaskInv, IntEnter, Due, switchVars, programVars, Switches
  <2>3. ReadInv' /\ KnownInv'
    <3>1. /\ isr' = s /\ isrAt' = "read" /\ isr = "none"
          /\ UNCHANGED <<switchVars, programVars, known>>
      BY <1>3 DEF IntEnter, Due
    <3>2. ASSUME NEW t \in Switches, t # s PROVE flag'[t] = flag[t]
      BY <1>3, <3>2 DEF SonicInv, SonicTypeOK, IntEnter
    <3>3. ReadInv'
      <4>1. at \in {"loop", "onPoll", "reply", "onHandshake"} /\ at' = at
        BY <1>3, <3>1 DEF SonicInv, MaskInv, IntEnter, Due, programVars
      <4> QED BY <3>1, <4>1, ReportingIs DEF ReadInv, Switches
    <3>4. KnownInv'
      <4>1. pin' = pin /\ at' = at /\ known' = known
        BY <3>1 DEF switchVars, programVars
      <4>2. ASSUME NEW t \in Switches
            PROVE  known[t] \in {"unknown", pin[t]} \/ flag'[t] \/ s = t \/ at \in BeforeReport(t)
        BY <3>1, <3>2, <4>2 DEF SonicInv, KnownInv, Switches
      <4> QED BY <3>1, <4>1, <4>2 DEF KnownInv, BeforeReport
    <3> QED BY <3>3, <3>4
  <2> QED BY <2>1, <2>2, <2>3 DEF SonicInv
<1> QED BY <1>1, <1>2, <1>3 DEF IntStep

\* The main loop unmasks only when no switch is on its way.
LEMMA ProgramHolds ==
  ASSUME SonicInv, MainStep
  PROVE  SonicInv'
<1>1. /\ isr = "none" /\ UNCHANGED <<switchVars, flag, edgeVars>>
      /\ \A s \in Switches : ~unmasked \/ ~flag[s]
  <2>1. PICK from, to : Goto(from, to)
    BY DEF MainStep, TakePoll, TakeHandshake, Take, Reply, onPollSonar, SonarSent, onHandshake,
           activateEINT, ReadSwitch, SwitchSent
  <2>2. isr = "none" /\ \A s \in Switches : ~Due(s)
    BY <2>1 DEF Goto, Main
  <2> QED BY <2>1, <2>2 DEF Goto, Due, Switches
<1>2. CASE TakePoll \/ TakeHandshake \/ Reply \/ onPollSonar \/ SonarSent \/ onHandshake \/ activateEINT
  <2>1. messages' \in Seq({"POLL", "HANDSHAKE"})
    <3>1. messages # <<>> => Tail(messages) \in Seq({"POLL", "HANDSHAKE"})
      BY HeadTailProperties DEF SonicInv, SonicTypeOK
    <3> QED BY <1>2, <3>1 DEF SonicInv, SonicTypeOK, TakePoll, TakeHandshake, Take, Reply,
               onPollSonar, SonarSent, onHandshake, activateEINT
  <2>2. UNCHANGED <<reading, known>>
    BY <1>2 DEF TakePoll, TakeHandshake, Take, Reply, onPollSonar, SonarSent, onHandshake, activateEINT
  <2>3. SonicTypeOK'
    BY <1>1, <1>2, <2>1, <2>2 DEF SonicInv, SonicTypeOK, switchVars, edgeVars, TakePoll, TakeHandshake, Take,
       Reply, onPollSonar, SonarSent, onHandshake, activateEINT, Goto, Switches
  <2>4. MaskInv'
    <3>1. \/ at = "loop" /\ at' \in {"onPoll", "reply"} /\ unmasked' = unmasked
          \/ at = "onPoll" /\ at' = "sonar" /\ unmasked' = FALSE
          \/ at = "sonar" /\ at' = "activate" /\ unmasked' = unmasked
          \/ at = "reply" /\ at' = "onHandshake" /\ unmasked' = unmasked
          \/ at = "onHandshake" /\ at' = "bumper" /\ unmasked' = FALSE
          \/ at = "activate" /\ at' = "loop" /\ unmasked' = TRUE
      BY <1>2 DEF TakePoll, TakeHandshake, Take, Reply, onPollSonar, SonarSent, onHandshake,
         activateEINT, Goto
    <3>2. isr = "none" /\ isr' = "none"
      BY <1>1 DEF edgeVars
    <3>3. /\ at \in {"loop", "onPoll", "reply"} => unmasked
          /\ at = "sonar" => ~unmasked
      BY <3>2 DEF SonicInv, MaskInv
    <3>4. unmasked' <=> at' \in {"loop", "onPoll", "reply", "onHandshake"}
      BY <3>1, <3>3
    <3>5. at' \notin {"sending bumper", "sending deadman"}
      BY <3>1
    <3> QED BY ONLY <3>2, <3>4, <3>5, ReportingIs DEF MaskInv, Switches
  <2>5. ReadInv'
    <3>1. at' \notin {"sending bumper", "sending deadman"}
      BY <1>2 DEF TakePoll, TakeHandshake, Take, Reply, onPollSonar, SonarSent, onHandshake,
         activateEINT, Goto
    <3> QED BY <1>1, <3>1, ReportingIs DEF ReadInv, edgeVars, Switches
  <2>6. KnownInv'
    <3>1. \/ at \in {"loop", "onPoll", "sonar", "activate"}
          \/ at = "reply" /\ at' = "onHandshake"
          \/ at = "onHandshake" /\ at' = "bumper"
      BY <1>2 DEF TakePoll, TakeHandshake, Take, Reply, onPollSonar, SonarSent, onHandshake,
         activateEINT, Goto
    <3>2. ASSUME NEW s \in Switches, at \in BeforeReport(s) PROVE at' \in BeforeReport(s)
      BY <3>1, <3>2 DEF BeforeReport
    <3>3. /\ pin' = pin /\ flag' = flag /\ isr' = isr
          /\ known' = known
      BY <1>1, <2>2 DEF switchVars, edgeVars
    <3>4. \A s \in Switches :
            known[s] \in {"unknown", pin[s]} \/ flag[s] \/ isr = s \/ at' \in BeforeReport(s)
      BY <3>2 DEF SonicInv, KnownInv
    <3> QED BY <3>3, <3>4 DEF KnownInv, BeforeReport
  <2> QED BY <2>3, <2>4, <2>5, <2>6 DEF SonicInv
<1>3. ASSUME NEW s \in Switches, ReadSwitch(s)
      PROVE  SonicInv'
  <2>1. SonicTypeOK'
    BY <1>1, <1>3, ReportingIs DEF SonicInv, SonicTypeOK, switchVars, edgeVars, ReadSwitch, Goto
  <2>2. MaskInv'
    BY <1>1, <1>3, ReportingIs DEF SonicInv, SonicTypeOK, MaskInv, edgeVars, ReadSwitch, Goto, Switches
  <2>3. ReadInv' /\ KnownInv'
    BY <1>1, <1>3, ReportingIs DEF SonicInv, ReadInv, KnownInv, BeforeReport, switchVars, edgeVars,
       ReadSwitch, Goto, Switches
  <2> QED BY <2>1, <2>2, <2>3 DEF SonicInv
<1>4. ASSUME NEW s \in Switches, SwitchSent(s)
      PROVE  SonicInv'
  <2>1. /\ whole /\ known' = [known EXCEPT ![s] = reading]
        /\ at = Reporting[s] /\ at' = IF s = "bumper" THEN "deadman" ELSE "activate"
    BY <1>4 DEF SonicInv, SonicTypeOK, MaskInv, SwitchSent, Goto
  <2>2. SonicTypeOK'
    BY <1>1, <1>4, <2>1, ReportingIs, ZenonT(40) DEF SonicInv, SonicTypeOK, switchVars, edgeVars, SwitchSent, Switches, Values
  <2>3. MaskInv'
    BY <1>1, <1>4, <2>1, ReportingIs DEF SonicInv, SonicTypeOK, MaskInv, edgeVars, SwitchSent, Switches
  <2>4. ReadInv' /\ KnownInv'
    <3>1. known'[s] = reading /\ \A t \in Switches : t # s => known'[t] = known[t]
      BY <2>1 DEF SonicInv, SonicTypeOK
    <3> QED BY <1>1, <2>1, <3>1, ReportingIs DEF SonicInv, ReadInv, KnownInv, BeforeReport, switchVars, edgeVars,
               Switches
  <2> QED BY <2>2, <2>3, <2>4 DEF SonicInv
<1> QED BY <1>2, <1>3, <1>4 DEF MainStep

\* Every step of the board keeps the invariant.
LEMMA SonicStepHolds == SonicInv /\ [SonicNext]_sonicVars => SonicInv'
<1> SUFFICES ASSUME SonicInv, [SonicNext]_sonicVars PROVE SonicInv'
  OBVIOUS
<1>1. ASSUME NEW t \in {"POLL", "HANDSHAKE"}, pushMessage(t)
      PROVE  SonicInv'
  <2>1. messages' \in Seq({"POLL", "HANDSHAKE"})
    BY <1>1, AppendProperties DEF pushMessage, SonicInv, SonicTypeOK
  <2> QED BY <1>1, <2>1 DEF pushMessage, SonicInv, SonicTypeOK, MaskInv, ReadInv, KnownInv,
             BeforeReport, switchVars, edgeVars, programVars
<1>2. CASE UNCHANGED sonicVars
  BY <1>2 DEF sonicVars, SonicInv, SonicTypeOK, MaskInv, ReadInv, KnownInv,
              BeforeReport, switchVars, edgeVars, programVars
<1> QED BY <1>1, <1>2, MoveHolds, InterruptHolds, ProgramHolds DEF SonicNext

\* Once the board has introduced itself and is at rest, the host knows both switches as they
\* are: onHandshake() and the two interrupts of sonicbump.c lose no change and let no datagram
\* fall into another, however often the switches move.
THEOREM SwitchesKnown == SonicSpec => []SwitchIsKnown
<1>1. SonicInit => SonicInv
  BY SonicInitHolds
<1>2. SonicInv /\ [SonicNext]_sonicVars => SonicInv'
  BY SonicStepHolds
<1>3. SonicInv => SwitchIsKnown
  <2> SUFFICES ASSUME SonicInv, Introduced, AtRest PROVE known = pin
    BY DEF SwitchIsKnown
  <2>1. \A s \in Switches : known[s] = pin[s]
    BY DEF SonicInv, ReadInv, KnownInv, BeforeReport, Introduced, AtRest, Switches
  <2> QED BY <2>1 DEF SonicInv, SonicTypeOK
<1> QED BY <1>1, <1>2, <1>3, PTL DEF SonicSpec

-----------------------------------------------------------------------------
(* I2c.                                                                    *)

\* What the driver may have asked the interface to do, and the types of the parts.
Commands == {"none", "start", "stop", "byte", "receive", "slave"}
CallTypeOK ==
  /\ waits \in BOOLEAN
  /\ call \in {"none"} \cup Waiting \cup Interrupting
  /\ step \in {"out", "spin", "claim", "start", "wait", "returned", "address", "check",
               "sending", "receiving", "stopping", "enable"}
  /\ data \in Seq(Nat) /\ want \in Nat /\ retval \in {"I2C_OK", "I2C_ERROR_NODEV"}
DriverTypeOK ==
  /\ I2cState \in {"I2C_IDLE", "I2C_MASTER_TX", "I2C_MASTER_RX", "I2C_SLAVE_RX", "I2C_SLAVE_TX"}
  /\ rw \in {0, 1}
  /\ I2cSendData \in [1 .. BufferSize -> Nat] /\ I2cSendDataIndex \in Nat
  /\ I2cSendDataLength \in 0 .. BufferSize
  /\ I2cReceiveData \in [1 .. BufferSize -> Nat]
  /\ I2cReceiveDataIndex \in Nat /\ I2cReceiveDataLength \in Nat
RegistersTypeOK ==
  /\ twint \in BOOLEAN /\ twea \in BOOLEAN /\ twie \in BOOLEAN
  /\ command \in Commands
  /\ twdr \in Nat
BusTypeOK ==
  /\ bus \in {"free", "started", "MT", "MR", "SR", "ST"}
  /\ asked \in Seq(Nat) /\ moved \in Seq(Nat) /\ disturbed \in BOOLEAN
  /\ noise \in Nat /\ stuck \in BOOLEAN
I2cTypeOK == CallTypeOK /\ DriverTypeOK /\ RegistersTypeOK /\ BusTypeOK

\* The running function, its length argument and its buffer.
CallInv ==
  /\ call = "none" <=> step = "out"
  /\ call # "none" => want \in 1 .. BufferSize
  /\ call \in Sending => Len(data) = want
  /\ call \in Waiting <=> waits /\ call # "none"

\* The functions that wait.
\* The status that says whether the device answered its address.
Answer(ack, sends) ==
  IF sends THEN status = (IF ack THEN "TW_MT_SLA_ACK" ELSE "TW_MT_SLA_NACK")
             ELSE status = (IF ack THEN "TW_MR_SLA_ACK" ELSE "TW_MR_SLA_NACK")
\* How a function that waits ends: all was moved, or the device is not there.
Ended == /\ retval = "I2C_OK" => moved = data /\ Len(data) = want
         /\ retval # "I2C_OK" => moved = <<>> /\ disturbed

\* The interface has a command to carry out, or has carried it out; the bus is then b.
Pending(c, b) == ~twint /\ command = c /\ bus = b
Done(b) == twint /\ command = "none" /\ bus = b
MyBus == IF call \in Sending THEN "MT" ELSE "MR"

\* Between two calls the last stop may still be going out.
AtRest1 == ~twint /\ command \in {"none", "stop"} /\ bus \in {"free", "MT", "MR"}
\* Where each step of a function that waits finds the interface, the bus and the data.
WaitInv ==
  /\ step \in {"out", "start"} => AtRest1
  /\ step = "start" => retval = "I2C_OK" /\ (call \notin Sending => data = <<>>)
  /\ step \notin {"out", "start", "returned"} => ~twie
  /\ step = "address" =>
       /\ ~disturbed /\ retval = "I2C_OK" /\ (call \notin Sending => data = <<>>)
       /\ \/ ~twint /\ command = "start" /\ bus \in {"free", "MT", "MR"}
          \/ Done("started") /\ moved = <<>>
  /\ step = "check" =>
       /\ retval = "I2C_OK" /\ moved = <<>> /\ (call \notin Sending => data = <<>>)
       /\ \/ ~disturbed /\ Pending("byte", "started") /\ twdr = (IF call \in Sending THEN 0 ELSE 1)
          \/ Done(MyBus) /\ Answer(~disturbed, call \in Sending)
  /\ step = "sending" =>
       /\ call \in Sending /\ retval = "I2C_OK"
       /\ Len(moved) <= want /\ \A i \in 1 .. Len(moved) : moved[i] = data[i]
       /\ \/ Pending("byte", "MT") /\ Len(moved) < want /\ twdr = data[Len(moved) + 1]
          \/ Done("MT")
  /\ step = "receiving" =>
       /\ call \notin Sending /\ retval = "I2C_OK" /\ Len(data) < want
       /\ ~disturbed
       /\ \/ Pending("receive", "MR") /\ moved = data
          \/ Done("MR") /\ moved = Append(data, twdr)
  /\ step = "stopping" => call \in Sending /\ Ended /\ ~twint /\ command \in {"stop", "none"} /\ bus \in {"free", "MT", "MR"}
  /\ step \in {"enable", "returned"} => Ended /\ AtRest1
  /\ step \notin {"spin", "claim", "wait"}

\* The functions the interrupt serves.
Prefix(a, n) == Len(moved) = n /\ \A i \in 1 .. n : a[i] = moved[i]

\* A transfer that has been claimed and whose START is not written yet, one that is being
\* addressed, and then one byte after the other, as master transmitter and receiver.
Claimed ==
  /\ step = "start" /\ ~twint /\ command # "start" /\ bus \notin {"SR", "ST"}
  /\ bus = "free" \/ command = "stop"
Addressing ==
  \/ ~twint /\ command = "start" /\ bus \notin {"SR", "ST"}
  \/ Done("started") /\ moved = <<>> /\ status \in {"TW_START", "TW_REP_START"}
  \/ Pending("byte", "started") /\ moved = <<>> /\ twdr = rw
TxAddressed == Done("MT") /\ status = "TW_MT_SLA_ACK" /\ I2cSendDataIndex = 0 /\ moved = <<>>
TxByte ==
  /\ Pending("byte", "MT") /\ I2cSendDataIndex = Len(moved) + 1 /\ I2cSendDataIndex <= Len(asked)
  /\ twdr = asked[I2cSendDataIndex] /\ \A i \in 1 .. Len(moved) : asked[i] = moved[i]
TxTaken ==
  /\ Done("MT") /\ status = "TW_MT_DATA_ACK"
  /\ I2cSendDataIndex = Len(moved) /\ Len(moved) <= Len(asked)
  /\ \A i \in 1 .. Len(moved) : asked[i] = moved[i]
TxOf ==
  /\ I2cState = "I2C_MASTER_TX" /\ rw = 0
  /\ asked # <<>> /\ I2cSendDataLength = Len(asked) /\ Len(asked) <= BufferSize
  /\ \A i \in 1 .. Len(asked) : I2cSendData[i] = asked[i]
Transmitting ==
  /\ TxOf
  /\ \/ Claimed /\ call = "i2cMasterSend" /\ I2cSendDataIndex = 0
     \/ /\ step \in {"out", "spin"} \/ (step = "returned" /\ call = "i2cMasterSend")
        /\ (Addressing /\ I2cSendDataIndex = 0) \/ TxAddressed \/ TxByte \/ TxTaken

RxAddressed == Done("MR") /\ status = "TW_MR_SLA_ACK" /\ I2cReceiveDataIndex = 0 /\ moved = <<>>
RxByte ==
  /\ Pending("receive", "MR")
  /\ Prefix(I2cReceiveData, I2cReceiveDataIndex) /\ I2cReceiveDataIndex < want
  /\ twea <=> I2cReceiveDataIndex + 1 < want
RxTaken ==
  /\ Done("MR") /\ Len(moved) = I2cReceiveDataIndex + 1 /\ twdr = moved[Len(moved)]
  /\ \A i \in 1 .. I2cReceiveDataIndex : I2cReceiveData[i] = moved[i]
  /\ \/ status = "TW_MR_DATA_ACK" /\ Len(moved) < want
     \/ status = "TW_MR_DATA_NACK" /\ Len(moved) = want
RxOf ==
  /\ I2cState = "I2C_MASTER_RX" /\ rw = 1 /\ asked = <<>>
  /\ call = "i2cMasterReceive" /\ I2cReceiveDataLength = want
Receiving ==
  /\ RxOf
  /\ \/ Claimed /\ I2cReceiveDataIndex = 0
     \/ /\ step = "wait"
        /\ (Addressing /\ I2cReceiveDataIndex = 0) \/ RxAddressed \/ RxByte \/ RxTaken
\* The interrupt has finished the transfer; the caller may not have seen it yet.
Idle ==
  /\ I2cState = "I2C_IDLE" /\ ~twint /\ bus \notin {"SR", "ST"}
  /\ command = "stop" \/ (command = "none" /\ bus = "free")
  /\ asked # <<>> => moved = asked
  /\ step \in {"out", "spin", "claim", "returned"} \/ (step = "wait" /\ call = "i2cMasterReceive")
  /\ step = "wait" => Prefix(I2cReceiveData, want)
  /\ step = "returned" /\ call = "i2cMasterReceive" => data = moved

\* What an undisturbed transfer of the interrupt looks like; of a disturbed one nothing is known
\* but that the program and the interrupt still fit each other.
Undisturbed == Transmitting \/ Receiving \/ Idle
ServedFrame ==
  /\ twie /\ step \in {"out", "spin", "claim", "start", "wait", "returned"}
  /\ disturbed => asked = <<>>
  /\ call = "i2cMasterSend" => step # "wait"
ServedInv == ServedFrame /\ (~disturbed => Undisturbed)

\* The inductive invariant of the driver.
I2cInv == /\ I2cTypeOK /\ CallInv
          /\ waits => WaitInv
          /\ ~waits => ServedInv

USE BufferAssumption

\* What is left alone keeps its type.
LEMMA CallKept == CallTypeOK /\ UNCHANGED <<waits, callVars>> => CallTypeOK'
BY DEF CallTypeOK, callVars
LEMMA DriverKept == DriverTypeOK /\ UNCHANGED driverVars => DriverTypeOK'
BY DEF DriverTypeOK, driverVars, sendVars, receiveVars
LEMMA RegistersKept == RegistersTypeOK /\ UNCHANGED <<registers, twdr>> => RegistersTypeOK'
BY DEF RegistersTypeOK, registers
LEMMA BusKept == BusTypeOK /\ UNCHANGED busVars => BusTypeOK'
BY DEF BusTypeOK, busVars, history

\* A command written, as far as types go.
LEMMA Commanded ==
  ASSUME NEW c \in Commands, NEW ea \in BOOLEAN, Command(c, ea), twie' \in BOOLEAN, twdr' \in Nat
  PROVE  RegistersTypeOK' /\ command' = c /\ twea' = ea /\ twint' = FALSE
BY DEF Command, RegistersTypeOK

\* It holds after i2cInit().
LEMMA I2cInitHolds == I2cInit => I2cInv
<1> SUFFICES ASSUME I2cInit PROVE I2cInv
  OBVIOUS
<1>1. CallTypeOK
  BY EmptySeq DEF I2cInit, CallTypeOK
<1>2. DriverTypeOK
  <2>1. I2cSendData \in [1 .. BufferSize -> Nat] /\ I2cReceiveData \in [1 .. BufferSize -> Nat]
    BY DEF I2cInit
  <2>2. /\ I2cState = "I2C_IDLE" /\ rw = 0 /\ I2cSendDataIndex = 0 /\ I2cSendDataLength = 0
        /\ I2cReceiveDataIndex = 0 /\ I2cReceiveDataLength = 0
    BY DEF I2cInit
  <2> QED BY <2>1, <2>2 DEF DriverTypeOK
<1>3. RegistersTypeOK
  BY DEF I2cInit, RegistersTypeOK, Commands
<1>4. BusTypeOK
  BY EmptySeq DEF I2cInit, BusTypeOK
<1>5. CallInv
  BY DEF I2cInit, CallInv, Waiting, Sending
<1>6. WaitInv
  BY DEF I2cInit, WaitInv, AtRest1
<1>7. ServedInv
  BY DEF I2cInit, ServedInv, ServedFrame, Undisturbed, Idle
<1> QED BY <1>1, <1>2, <1>3, <1>4, <1>5, <1>6, <1>7 DEF I2cInv, I2cTypeOK

-----------------------------------------------------------------------------
\* The functions that wait.

\* The invariant of a program that waits.
WaitIndInv == waits /\ I2cTypeOK /\ CallInv /\ WaitInv

\* A call of a function that waits.
LEMMA BeginNI ==
  ASSUME WaitIndInv, NEW f \in Waiting, CallNI(f)
  PROVE  WaitIndInv'
<1>1. /\ want' \in 1 .. MaxLength /\ call' = f /\ step' = "start" /\ retval' = "I2C_OK"
      /\ UNCHANGED <<waits, driverVars, registers, twdr, busVars>> /\ call = "none"
  BY DEF CallNI, Begin
<1>2. data' = IF f \in Sending THEN [i \in 1 .. want' |-> i] ELSE <<>>
  BY DEF CallNI, Begin
<1>3. data' \in Seq(Nat) /\ (f \in Sending => Len(data') = want') /\ (f \notin Sending => data' = <<>>)
  <2>1. PICK n \in 1 .. MaxLength : n = want'
    BY <1>1
  <2>2. [i \in 1 .. n |-> i] \in Seq(Nat) /\ Len([i \in 1 .. n |-> i]) = n
    OBVIOUS
  <2> QED BY <1>2, <2>1, <2>2
<1>4. I2cTypeOK'
  <2>1. CallTypeOK'
    BY <1>1, <1>3 DEF WaitIndInv, I2cTypeOK, CallTypeOK
  <2> QED BY <1>1, <2>1, DriverKept, RegistersKept, BusKept DEF WaitIndInv, I2cTypeOK
<1>5. CallInv'
  BY <1>1, <1>3 DEF WaitIndInv, CallInv, Waiting
<1>6. WaitInv'
  BY <1>1, <1>3 DEF WaitIndInv, CallInv, WaitInv, AtRest1, registers, busVars, history
<1> QED BY <1>1, <1>4, <1>5, <1>6 DEF WaitIndInv

\* Its steps: each writes a command only when the one before has been carried out.
LEMMA ProgramNI ==
  ASSUME WaitIndInv, Program
  PROVE  WaitIndInv'
<1> USE DEF WaitIndInv, I2cTypeOK
<1>1. CASE NIStart
  <2>1. /\ step = "start" /\ step' = "address" /\ UNCHANGED <<waits, call, want, data, retval, driverVars, bus, moved>>
        /\ twie' = FALSE /\ asked' = data /\ disturbed' = FALSE /\ UNCHANGED <<noise, stuck, twdr>>
        /\ Command("start", FALSE)
    BY <1>1 DEF NIStart, To, Stands, i2cSendStart
  <2>2. RegistersTypeOK' /\ twint' = FALSE /\ command' = "start"
    BY <2>1, Commanded DEF Commands, RegistersTypeOK
  <2>3. I2cTypeOK'
    <3>1. CallTypeOK' /\ BusTypeOK'
      BY <2>1 DEF CallTypeOK, BusTypeOK
    <3> QED BY <2>1, <2>2, <3>1, DriverKept
  <2>4. CallInv' /\ WaitInv'
    BY <2>1, <2>2 DEF CallInv, WaitInv, AtRest1
  <2> QED BY <2>1, <2>3, <2>4
<1>2. CASE NIAddress
  <2>1. /\ step = "address" /\ step' = "check" /\ UNCHANGED <<waits, call, want, data, retval, driverVars, busVars, twie>>
        /\ twdr' = IF call \in Sending THEN 0 ELSE 1
        /\ Command("byte", FALSE) /\ twint
    BY <1>2 DEF NIAddress, To, Stands, i2cSendByte, Awaited
  <2>2. RegistersTypeOK' /\ twint' = FALSE /\ command' = "byte"
    BY <2>1, Commanded DEF Commands, RegistersTypeOK
  <2>3. I2cTypeOK'
    <3>1. CallTypeOK'
      BY <2>1 DEF CallTypeOK
    <3> QED BY <2>1, <2>2, <3>1, DriverKept, BusKept
  <2>4. CallInv' /\ WaitInv'
    BY <2>1, <2>2 DEF CallInv, WaitInv, Done, Pending, busVars, history
  <2> QED BY <2>1, <2>3, <2>4
<1>3. CASE NICheck
  <2>1. /\ step = "check" /\ UNCHANGED <<waits, call, want, data, driverVars, twie, busVars>> /\ twint
    BY <1>3 DEF NICheck, SendNext, ReceiveNext, To, Stands, Awaited
  <2>2. /\ retval = "I2C_OK" /\ moved = <<>> /\ (call \notin Sending => data = <<>>)
        /\ bus = MyBus /\ Answer(~disturbed, call \in Sending) /\ ~twie
        /\ want \in 1 .. BufferSize /\ (call \in Sending => Len(data) = want)
        /\ want \in Nat /\ data \in Seq(Nat) /\ twie \in BOOLEAN /\ disturbed \in BOOLEAN /\ twdr \in Nat
    BY <2>1 DEF WaitInv, Pending, Done, CallInv, CallTypeOK, RegistersTypeOK, BusTypeOK
  <2>3. CASE call \in Sending /\ ~disturbed
    <3>1. status = "TW_MT_SLA_ACK"
      BY <2>2, <2>3 DEF Answer
    <3>2. SendNext(0) /\ retval' = retval
      BY <1>3, <2>3, <3>1 DEF NICheck
    <3>3. i2cSendByte(data[1]) /\ step' = "sending"
      BY <2>2, <3>2 DEF SendNext, To
    <3>4. data[1] \in Nat
      BY <2>2, <2>3
    <3>5. /\ RegistersTypeOK' /\ twint' = FALSE /\ command' = "byte" /\ twdr' = data[1]
      BY <2>1, <2>2, <3>3, <3>4 DEF i2cSendByte, Command, RegistersTypeOK, Commands
    <3>6. I2cTypeOK'
      <4>1. CallTypeOK'
        BY <2>1, <3>2, <3>3 DEF CallTypeOK
      <4> QED BY <2>1, <3>5, <4>1, DriverKept, BusKept
    <3>7. CallInv' /\ WaitInv'
      <4>1. bus' = bus /\ moved' = moved /\ disturbed' = disturbed
        BY <2>1 DEF busVars, history
      <4> QED BY <2>1, <2>2, <2>3, <3>2, <3>3, <3>5, <4>1 DEF CallInv, WaitInv, Pending, MyBus
    <3> QED BY <2>1, <3>6, <3>7
  <2>4. CASE call \notin Sending /\ ~disturbed
    <3>1. status = "TW_MR_SLA_ACK"
      BY <2>2, <2>4 DEF Answer
    <3>2. ReceiveNext(0) /\ retval' = retval
      BY <1>3, <2>4, <3>1 DEF NICheck
    <3>3. i2cReceiveByte(want - 0 > 1) /\ step' = "receiving"
      BY <2>2, <3>2 DEF ReceiveNext, To
    <3>4. (want - 0 > 1) \in BOOLEAN
      OBVIOUS
    <3>5. RegistersTypeOK' /\ twint' = FALSE /\ command' = "receive"
      BY <2>1, <2>2, <3>3, <3>4 DEF i2cReceiveByte, Command, RegistersTypeOK, Commands
    <3>6. I2cTypeOK'
      <4>1. CallTypeOK'
        BY <2>1, <3>2, <3>3 DEF CallTypeOK
      <4> QED BY <2>1, <3>5, <4>1, DriverKept, BusKept
    <3>7. CallInv' /\ WaitInv'
      <4>1. bus' = bus /\ moved' = moved /\ disturbed' = disturbed
        BY <2>1 DEF busVars, history
      <4> QED BY <2>1, <2>2, <2>4, <3>2, <3>3, <3>5, <4>1 DEF CallInv, WaitInv, Pending, MyBus
    <3> QED BY <2>1, <3>6, <3>7
  <2>5. CASE disturbed
    <3>1. status \in {"TW_MT_SLA_NACK", "TW_MR_SLA_NACK"}
      BY <2>2, <2>5 DEF Answer
    <3>2. /\ retval' = "I2C_ERROR_NODEV" /\ i2cSendStop
          /\ step' = IF call \in Sending THEN "stopping" ELSE "enable"
      BY <1>3, <3>1 DEF NICheck, To
    <3>3. RegistersTypeOK' /\ twint' = FALSE /\ command' = "stop"
      BY <2>1, <2>2, <3>2 DEF i2cSendStop, Command, RegistersTypeOK, Commands
    <3>4. I2cTypeOK'
      <4>1. CallTypeOK'
        BY <2>1, <3>2 DEF CallTypeOK
      <4> QED BY <2>1, <3>3, <4>1, DriverKept, BusKept
    <3>5. CallInv' /\ WaitInv'
      <4>1. bus' = bus /\ moved' = moved /\ disturbed' = disturbed
        BY <2>1 DEF busVars, history
      <4> QED BY <2>1, <2>2, <2>5, <3>2, <3>3, <4>1 DEF CallInv, WaitInv, MyBus, Ended, AtRest1
    <3> QED BY <2>1, <3>4, <3>5
  <2> QED BY <2>3, <2>4, <2>5
<1>4. CASE NISendMore
  <2>1. /\ step = "sending" /\ UNCHANGED <<waits, call, want, data, retval, driverVars, twie, busVars>> /\ twint
    BY <1>4 DEF NISendMore, SendNext, To, Stands, Awaited
  <2>2. /\ call \in Sending /\ retval = "I2C_OK" /\ ~twie /\ bus = "MT" /\ Len(data) = want
        /\ Len(moved) <= want /\ \A i \in 1 .. Len(moved) : moved[i] = data[i]
        /\ want \in Nat /\ data \in Seq(Nat) /\ twie \in BOOLEAN /\ twdr \in Nat
        /\ moved \in Seq(Nat)
    BY <2>1 DEF WaitInv, Pending, Done, CallInv, CallTypeOK, RegistersTypeOK, BusTypeOK
  <2>3. bus' = bus /\ moved' = moved /\ disturbed' = disturbed
    BY <2>1 DEF busVars, history
  <2>4. CASE Len(moved) < want
    <3>1. i2cSendByte(data[Len(moved) + 1]) /\ step' = "sending"
      BY <1>4, <2>4 DEF NISendMore, SendNext, To
    <3>2. data[Len(moved) + 1] \in Nat
      BY <2>2, <2>4
    <3>3. RegistersTypeOK' /\ twint' = FALSE /\ command' = "byte" /\ twdr' = data[Len(moved) + 1]
      BY <2>1, <2>2, <3>1, <3>2 DEF i2cSendByte, Command, RegistersTypeOK, Commands
    <3>4. I2cTypeOK'
      <4>1. CallTypeOK'
        BY <2>1, <3>1 DEF CallTypeOK
      <4> QED BY <2>1, <3>3, <4>1, DriverKept, BusKept
    <3>5. CallInv' /\ WaitInv'
      BY <2>1, <2>2, <2>3, <2>4, <3>1, <3>3 DEF CallInv, WaitInv, Pending
    <3> QED BY <2>1, <3>4, <3>5
  <2>5. CASE Len(moved) = want
    <3>1. i2cSendStop /\ step' = "stopping"
      BY <1>4, <2>2, <2>5 DEF NISendMore, SendNext, To
    <3>2. RegistersTypeOK' /\ twint' = FALSE /\ command' = "stop"
      BY <2>1, <2>2, <3>1 DEF i2cSendStop, Command, RegistersTypeOK, Commands
    <3>3. moved = data
      BY <2>2, <2>5
    <3>4. I2cTypeOK'
      <4>1. CallTypeOK'
        BY <2>1, <3>1 DEF CallTypeOK
      <4> QED BY <2>1, <3>2, <4>1, DriverKept, BusKept
    <3>5. CallInv' /\ WaitInv'
      BY <2>1, <2>2, <2>3, <2>5, <3>1, <3>2, <3>3 DEF CallInv, WaitInv, Ended
    <3> QED BY <2>1, <3>4, <3>5
  <2> QED BY <2>2, <2>4, <2>5
<1>5. CASE NIReceiveMore
  <2>1. /\ step = "receiving" /\ UNCHANGED <<waits, call, want, retval, driverVars, twie, busVars, twdr>> /\ twint
        /\ data' = Append(data, twdr)
    BY <1>5 DEF NIReceiveMore, ReceiveNext, i2cReceiveByte, i2cSendStop, To, Stands, Awaited
  <2>2. /\ call \notin Sending /\ retval = "I2C_OK" /\ Len(data) < want /\ ~disturbed /\ ~twie
        /\ bus = "MR" /\ moved = data' /\ want \in Nat /\ twie \in BOOLEAN /\ twdr \in Nat
        /\ data \in Seq(Nat)
    BY <2>1 DEF WaitInv, Pending, Done, CallTypeOK, RegistersTypeOK
  <2>3. data' \in Seq(Nat) /\ Len(data') = Len(data) + 1
    BY <2>1, <2>2
  <2>4. bus' = bus /\ moved' = moved /\ disturbed' = disturbed
    BY <2>1 DEF busVars, history
  <2>5. CASE Len(data') < want
    <3>1. i2cReceiveByte(want - Len(data') > 1) /\ step' = "receiving"
      BY <1>5, <2>5 DEF NIReceiveMore, ReceiveNext, To
    <3>2. (want - Len(data') > 1) \in BOOLEAN
      OBVIOUS
    <3>3. RegistersTypeOK' /\ twint' = FALSE /\ command' = "receive"
      BY <2>1, <2>2, <3>1, <3>2 DEF i2cReceiveByte, Command, RegistersTypeOK, Commands
    <3>4. I2cTypeOK'
      <4>1. CallTypeOK'
        BY <2>1, <2>3, <3>1 DEF CallTypeOK
      <4> QED BY <2>1, <3>3, <4>1, DriverKept, BusKept
    <3>5. CallInv' /\ WaitInv'
      BY <2>1, <2>2, <2>3, <2>4, <2>5, <3>1, <3>3 DEF CallInv, WaitInv, Pending
    <3> QED BY <2>1, <3>4, <3>5
  <2>6. CASE Len(data') = want
    <3>1. i2cSendStop /\ step' = "enable"
      BY <1>5, <2>2, <2>3, <2>6 DEF NIReceiveMore, To
    <3>2. RegistersTypeOK' /\ twint' = FALSE /\ command' = "stop"
      BY <2>1, <2>2, <3>1 DEF i2cSendStop, Command, RegistersTypeOK, Commands
    <3>4. I2cTypeOK'
      <4>1. CallTypeOK'
        BY <2>1, <2>3, <3>1 DEF CallTypeOK
      <4> QED BY <2>1, <3>2, <4>1, DriverKept, BusKept
    <3>5. CallInv' /\ WaitInv'
      BY <2>1, <2>2, <2>3, <2>4, <2>6, <3>1, <3>2 DEF CallInv, WaitInv, Ended, AtRest1
    <3> QED BY <2>1, <3>4, <3>5
  <2> QED BY <2>2, <2>3, <2>5, <2>6
<1>6. CASE NIStopping
  <2>1. /\ step = "stopping" /\ step' = "enable" /\ command = "stop"
        /\ UNCHANGED <<waits, call, want, data, retval, driverVars, registers, twdr, busVars>>
    BY <1>6 DEF NIStopping, To, Stands
  <2>2. I2cTypeOK'
    <3>1. CallTypeOK'
      BY <2>1 DEF CallTypeOK
    <3> QED BY <2>1, <3>1, DriverKept, BusKept, RegistersKept
  <2>3. CallInv' /\ WaitInv'
    BY <2>1 DEF CallInv, WaitInv, Ended, AtRest1, registers, busVars, history
  <2> QED BY <2>1, <2>2, <2>3
<1>7. CASE NIEnable
  <2>1. /\ step = "enable" /\ step' = "returned"
        /\ UNCHANGED <<waits, call, want, data, retval, driverVars, twint, twea, command, twdr, busVars>>
        /\ twie' = TRUE
    BY <1>7 DEF NIEnable, To, Stands
  <2>2. I2cTypeOK'
    <3>1. CallTypeOK' /\ RegistersTypeOK'
      BY <2>1 DEF CallTypeOK, RegistersTypeOK
    <3> QED BY <2>1, <3>1, DriverKept, BusKept
  <2>3. CallInv' /\ WaitInv'
    BY <2>1 DEF CallInv, WaitInv, Ended, AtRest1, registers, busVars, history
  <2> QED BY <2>1, <2>2, <2>3
<1>8. CASE Return
  <2>1. /\ step = "returned" /\ step' = "out" /\ call' = "none" /\ data' = <<>> /\ want' = 0 /\ retval' = "I2C_OK"
        /\ UNCHANGED <<waits, driverVars, registers, twdr, busVars>>
    BY <1>8 DEF Return, Stands
  <2>2. I2cTypeOK'
    <3>1. CallTypeOK'
      BY <2>1, EmptySeq DEF CallTypeOK
    <3> QED BY <2>1, <3>1, DriverKept, BusKept, RegistersKept
  <2>3. CallInv' /\ WaitInv'
    BY <2>1 DEF CallInv, WaitInv, Ended, AtRest1, registers, busVars, history, Sending, Waiting
  <2> QED BY <2>1, <2>2, <2>3
<1>9. ~(Spin \/ ClaimSend \/ ClaimReceive \/ TakeData)
  BY DEF Spin, ClaimSend, ClaimReceive, TakeData, Stands, WaitInv
<1>10. ~StartIt
  BY DEF StartIt, CallInv, Waiting, Interrupting
<1> QED BY <1>1, <1>2, <1>3, <1>4, <1>5, <1>6, <1>7, <1>8, <1>9, <1>10 DEF Program

\* The interface carries its commands out.
LEMMA BusNI ==
  ASSUME WaitIndInv, MasterDone
  PROVE  WaitIndInv'
<1> USE DEF WaitIndInv, I2cTypeOK
<1>0. ASSUME Quiet PROVE CallTypeOK' /\ DriverTypeOK' /\ twie' = twie /\ waits' = waits
      /\ UNCHANGED <<call, step, data, want, retval>> /\ ~twint
  BY <1>0, CallKept, DriverKept DEF Quiet, callVars
<1>1. CASE StartDone
  <2>1. /\ command = "start" /\ bus' = "started" /\ moved' = <<>> /\ twint' = TRUE /\ command' = "none"
        /\ UNCHANGED <<twea, twdr, noise, stuck, asked, disturbed>> /\ Quiet
    BY <1>1 DEF StartDone, Wire, Report, Fault, BusTypeOK
  <2>2. step = "address"
    BY <1>0, <2>1 DEF WaitInv, AtRest1, Done, Pending, CallTypeOK
  <2>3. I2cTypeOK'
    <3>1. RegistersTypeOK' /\ BusTypeOK'
      BY <1>0, <2>1, EmptySeq DEF RegistersTypeOK, BusTypeOK, Commands
    <3> QED BY <1>0, <2>1, <3>1
  <2>4. CallInv' /\ WaitInv'
    BY <1>0, <2>1, <2>2 DEF CallInv, WaitInv, Done
  <2> QED BY <1>0, <2>1, <2>3, <2>4
<1>2. CASE AddressDone
  <2>1. /\ command = "byte" /\ bus = "started" /\ bus' = IF twdr = 0 THEN "MT" ELSE "MR"
        /\ twint' = TRUE /\ command' = "none" /\ UNCHANGED <<twea, twdr, noise, stuck, moved>> /\ Quiet
    BY <1>2 DEF AddressDone, Wire, Report, Fault
  <2>2. PICK ack \in BOOLEAN :
          /\ disturbed' = (disturbed \/ ~ack)
          /\ asked' = IF ~ack THEN <<>> ELSE asked
          /\ status' = IF twdr = 0 THEN IF ack THEN "TW_MT_SLA_ACK" ELSE "TW_MT_SLA_NACK"
                                   ELSE IF ack THEN "TW_MR_SLA_ACK" ELSE "TW_MR_SLA_NACK"
    BY <1>2 DEF AddressDone, Report, Fault
  <2>3. step = "check" /\ ~disturbed /\ (twdr = 0 <=> call \in Sending)
    BY <1>0, <2>1 DEF WaitInv, AtRest1, Done, Pending, CallTypeOK
  <2>4. I2cTypeOK'
    <3>1. RegistersTypeOK'
      BY <1>0, <2>1 DEF RegistersTypeOK, Commands
    <3>2. asked' \in Seq(Nat) /\ disturbed' \in BOOLEAN
      BY <2>2, EmptySeq DEF BusTypeOK
    <3>3. BusTypeOK'
      BY <2>1, <3>2 DEF BusTypeOK
    <3> QED BY <1>0, <2>1, <3>1, <3>3 DEF I2cTypeOK
  <2>5. bus' = MyBus /\ (~disturbed' <=> ack)
    BY <2>1, <2>2, <2>3 DEF MyBus
  <2>7. CallInv' /\ WaitInv'
    <3>1. Answer(~disturbed, call \in Sending)'
      <4>1. CASE ack
        BY <1>0, <2>1, <2>2, <2>3, <2>5, <4>1 DEF Answer
      <4>2. CASE ~ack
        BY <1>0, <2>1, <2>2, <2>3, <2>5, <4>2 DEF Answer
      <4> QED BY <4>1, <4>2
    <3> QED BY <1>0, <2>1, <2>3, <2>5, <3>1 DEF CallInv, WaitInv, Done, Pending, MyBus, Answer
  <2> QED BY <1>0, <2>1, <2>4, <2>7
<1>3. CASE ByteSent
  <2>1. /\ command = "byte" /\ bus = "MT" /\ moved' = Append(moved, twdr)
        /\ twint' = TRUE /\ command' = "none" /\ UNCHANGED <<twea, twdr, noise, stuck, bus>> /\ Quiet
        /\ disturbed' \in BOOLEAN /\ asked' \in {<<>>, asked}
    BY <1>3 DEF ByteSent, Wire, Report, Fault, Moved, BusTypeOK
  <2>2. /\ step = "sending" /\ call \in Sending /\ Len(moved) < want /\ twdr = data[Len(moved) + 1]
        /\ \A i \in 1 .. Len(moved) : moved[i] = data[i]
        /\ want \in Nat /\ moved \in Seq(Nat) /\ twdr \in Nat
    BY <1>0, <2>1 DEF WaitInv, AtRest1, Done, Pending, CallTypeOK, RegistersTypeOK, BusTypeOK
  <2>3. /\ moved' \in Seq(Nat) /\ Len(moved') = Len(moved) + 1 /\ Len(moved') <= want
        /\ \A i \in 1 .. Len(moved') : moved'[i] = data[i]
    BY <2>1, <2>2
  <2>4. I2cTypeOK'
    <3>1. asked' \in Seq(Nat)
      BY <2>1, EmptySeq DEF BusTypeOK
    <3>2. RegistersTypeOK' /\ BusTypeOK'
      BY <1>0, <2>1, <2>3, <3>1 DEF RegistersTypeOK, BusTypeOK, Commands
    <3> QED BY <1>0, <2>1, <3>2
  <2>5. CallInv' /\ WaitInv'
    BY <1>0, <2>1, <2>2, <2>3 DEF CallInv, WaitInv, Done
  <2> QED BY <1>0, <2>1, <2>4, <2>5
<1>4. CASE ByteReceived
  <2>1. /\ command = "receive" /\ bus = "MR" /\ moved' = Append(moved, twdr')
        /\ twdr' = BufferSize + Len(moved) + 1
        /\ twint' = TRUE /\ command' = "none" /\ UNCHANGED <<twea, noise, stuck, bus, asked, disturbed>> /\ Quiet
    BY <1>4 DEF ByteReceived, Wire, Report, Fault, Moved, BusTypeOK
  <2>2. step = "receiving" /\ moved = data
    BY <1>0, <2>1 DEF WaitInv, AtRest1, Done, Pending, CallTypeOK
  <2>3. twdr' \in Nat /\ moved' \in Seq(Nat)
    BY <2>1 DEF BusTypeOK
  <2>4. I2cTypeOK'
    <3>1. RegistersTypeOK' /\ BusTypeOK'
      BY <1>0, <2>1, <2>3 DEF RegistersTypeOK, BusTypeOK, Commands
    <3> QED BY <1>0, <2>1, <3>1
  <2>5. CallInv' /\ WaitInv'
    BY <1>0, <2>1, <2>2 DEF CallInv, WaitInv, Done
  <2> QED BY <1>0, <2>1, <2>4, <2>5
<1>5. CASE StopDone
  <2>1. /\ command = "stop" /\ bus' = "free" /\ command' = "none" /\ stuck' \in BOOLEAN
        /\ UNCHANGED <<twint, twea, twdr, asked, moved, disturbed, noise>> /\ Quiet
    BY <1>5 DEF StopDone, Wire, BusTypeOK
  <2>2. step \in {"out", "start", "stopping", "enable", "returned"}
    BY <1>0, <2>1 DEF WaitInv, Done, Pending, CallTypeOK
  <2>3. I2cTypeOK'
    <3>1. RegistersTypeOK' /\ BusTypeOK'
      BY <1>0, <2>1 DEF RegistersTypeOK, BusTypeOK, Commands
    <3> QED BY <1>0, <2>1, <3>1
  <2>4. CallInv' /\ WaitInv'
    BY <1>0, <2>1, <2>2 DEF CallInv, WaitInv, AtRest1, Ended
  <2> QED BY <1>0, <2>1, <2>3, <2>4
<1> QED BY <1>1, <1>2, <1>3, <1>4, <1>5 DEF MasterDone

\* Every step of a program that waits, of which no interrupt and no other master takes part.
LEMMA StepNI == WaitIndInv /\ [I2cNext]_i2cVars => WaitIndInv'
<1> SUFFICES ASSUME WaitIndInv, [I2cNext]_i2cVars PROVE WaitIndInv'
  OBVIOUS
<1>1. ~TwiInterrupt
  <2>1. ~twint \/ ~twie
    BY DEF WaitIndInv, WaitInv, AtRest1, I2cTypeOK, CallTypeOK
  <2> QED BY <2>1 DEF TwiInterrupt, Isr, IsrStarted, IsrTransmit, IsrLast, IsrArbitrationLost, IsrReceive,
          IsrSlaveWritten, IsrSlaveData, IsrSlaveRefused, IsrSlaveOver, IsrSlaveRead, IsrBusError
<1>2. ~SlaveDone
  <2>1. bus \notin {"SR", "ST"}
    BY DEF WaitIndInv, WaitInv, AtRest1, Done, Pending, MyBus, I2cTypeOK, CallTypeOK
  <2> QED BY <2>1 DEF SlaveDone, Written, WrittenStop, Read
<1>3. ~Noise /\ \A f \in Interrupting : ~Call(f)
  BY DEF WaitIndInv, Noise, ArbitrationLost, BusError, Addressed, Noisy, Call
<1>4. CASE UNCHANGED i2cVars
  <2>1. UNCHANGED <<waits, callVars, driverVars, registers, twdr, busVars>>
    BY <1>4 DEF i2cVars
  <2>2. I2cTypeOK'
    BY <2>1, CallKept, DriverKept, RegistersKept, BusKept DEF WaitIndInv, I2cTypeOK
  <2>3. CallInv' /\ WaitInv'
    BY <2>1 DEF WaitIndInv, CallInv, WaitInv, AtRest1, Done, Pending, MyBus, Ended, Answer,
       callVars, registers, busVars, history
  <2> QED BY <2>1, <2>2, <2>3 DEF WaitIndInv
<1> QED BY <1>1, <1>2, <1>3, <1>4, BeginNI, ProgramNI, BusNI DEF I2cNext

-----------------------------------------------------------------------------
\* The functions the interrupt serves.

\* The invariant of a program the interrupt serves.
ServedIndInv == ~waits /\ I2cTypeOK /\ CallInv /\ ServedInv

\* What the interrupt routine leaves alone, and the types of what it writes.
LEMMA InterruptTypes ==
  ASSUME I2cTypeOK, TwiInterrupt
  PROVE  UNCHANGED <<waits, callVars, twie, busVars>> /\ I2cTypeOK' /\ twint /\ twint' = FALSE
<1>1. /\ UNCHANGED <<waits, callVars, twie, busVars, rw, I2cReceiveDataLength>> /\ twint
      /\ UNCHANGED <<I2cSendData, I2cSendDataLength>>
  BY DEF TwiInterrupt, Isr, IsrStarted, IsrTransmit, IsrLast, IsrArbitrationLost, IsrReceive,
     IsrSlaveWritten, IsrSlaveData, IsrSlaveRefused, IsrSlaveOver, IsrSlaveRead, IsrBusError, sendVars
<1>2. /\ I2cState' \in {I2cState, "I2C_IDLE", "I2C_SLAVE_RX", "I2C_SLAVE_TX"}
      /\ StoreByte \/ I2cReceiveData' = I2cReceiveData
  BY DEF TwiInterrupt, IsrStarted, IsrTransmit, IsrLast, IsrArbitrationLost, IsrReceive,
     IsrSlaveWritten, IsrSlaveData, IsrSlaveRefused, IsrSlaveOver, IsrSlaveRead, IsrBusError, NoStore
<1>3. StoreByte => I2cReceiveData' \in [1 .. BufferSize -> Nat] /\ I2cReceiveDataIndex' \in Nat
  <2>1. twdr \in Nat /\ I2cReceiveDataIndex \in Nat /\ \A i \in 1 .. BufferSize : I2cReceiveData[i] \in Nat
    BY DEF I2cTypeOK, DriverTypeOK, RegistersTypeOK
  <2>2. [i \in 1 .. BufferSize |-> IF i = I2cReceiveDataIndex + 1 THEN twdr ELSE I2cReceiveData[i]]
          \in [1 .. BufferSize -> Nat]
    BY <2>1
  <2> QED BY <2>1, <2>2 DEF StoreByte
<1>4. I2cReceiveData' \in [1 .. BufferSize -> Nat]
  BY <1>2, <1>3 DEF I2cTypeOK, DriverTypeOK
<1>5. I2cSendDataIndex' \in Nat
  <2>1. I2cSendDataIndex' \in {I2cSendDataIndex, I2cSendDataIndex + 1, 0 + 1}
    <3>1. CASE IsrSlaveRead
      BY <3>1 DEF IsrSlaveRead
    <3>2. CASE ~IsrSlaveRead
      BY <3>2 DEF TwiInterrupt, IsrStarted, IsrTransmit, IsrLast, IsrArbitrationLost, IsrReceive,
         IsrSlaveWritten, IsrSlaveData, IsrSlaveRefused, IsrSlaveOver, IsrBusError, sendVars
    <3> QED BY <3>1, <3>2
  <2> QED BY <2>1 DEF I2cTypeOK, DriverTypeOK
<1>6. I2cReceiveDataIndex' \in Nat
  <2>1. StoreByte \/ I2cReceiveDataIndex' \in {I2cReceiveDataIndex, 0}
    BY DEF TwiInterrupt, IsrStarted, IsrTransmit, IsrLast, IsrArbitrationLost, IsrReceive,
       IsrSlaveWritten, IsrSlaveData, IsrSlaveRefused, IsrSlaveOver, IsrSlaveRead, IsrBusError, NoStore
  <2> QED BY <1>3, <2>1 DEF I2cTypeOK, DriverTypeOK
<1>7. DriverTypeOK'
  BY <1>1, <1>2, <1>4, <1>5, <1>6 DEF I2cTypeOK, DriverTypeOK
<1>8. twdr' \in Nat
  <2>1. CASE IsrTransmit
    <3>1. I2cSendDataIndex < I2cSendDataLength => I2cSendData[I2cSendDataIndex + 1] \in Nat
      BY DEF I2cTypeOK, DriverTypeOK
    <3> QED BY <2>1, <3>1 DEF IsrTransmit, i2cSendByte, i2cSendStop, I2cTypeOK, RegistersTypeOK
  <2>2. CASE IsrSlaveRead
    <3>1. PICK n \in Nat : n < BufferSize /\ twdr' = I2cSendData[n + 1]
      BY <2>2 DEF IsrSlaveRead, I2cTypeOK, DriverTypeOK
    <3> QED BY <3>1 DEF I2cTypeOK, DriverTypeOK
  <2>3. CASE IsrStarted
    BY <2>3 DEF IsrStarted, i2cSendByte, I2cTypeOK, DriverTypeOK
  <2>4. CASE ~IsrTransmit /\ ~IsrSlaveRead /\ ~IsrStarted
    BY <2>4 DEF TwiInterrupt, IsrLast, IsrArbitrationLost, IsrReceive, IsrSlaveWritten, IsrSlaveData,
       IsrSlaveRefused, IsrSlaveOver, IsrBusError, i2cSendStop, i2cReceiveByte, Listen, Release,
       I2cTypeOK, RegistersTypeOK
  <2> QED BY <2>1, <2>2, <2>3, <2>4
<1>9. \E c \in Commands, ea \in BOOLEAN : Command(c, ea)
  <2>1. /\ (I2cReceiveDataIndex' + 1 < I2cReceiveDataLength) \in BOOLEAN
        /\ (I2cReceiveDataIndex' < BufferSize) \in BOOLEAN
        /\ \A n \in Nat : (n + 1 < I2cSendDataLength) \in BOOLEAN
    OBVIOUS
  <2>2. CASE IsrStarted \/ IsrTransmit \/ IsrLast \/ IsrArbitrationLost \/ IsrSlaveOver \/ IsrBusError
    BY <2>2 DEF IsrStarted, IsrTransmit, IsrLast, IsrArbitrationLost, IsrSlaveOver, IsrBusError,
       i2cSendStop, i2cSendByte, Listen, Release, Commands
  <2>3. CASE IsrReceive \/ IsrSlaveWritten \/ IsrSlaveData \/ IsrSlaveRefused
    <3>1. ASSUME NEW ack \in BOOLEAN, i2cReceiveByte(ack) PROVE Command("receive", ack) /\ "receive" \in Commands
      BY <3>1 DEF i2cReceiveByte, Commands
    <3>2. CASE IsrReceive
      BY <2>1, <3>1, <3>2 DEF IsrReceive
    <3>3. CASE IsrSlaveData
      BY <2>1, <3>1, <3>3 DEF IsrSlaveData
    <3>4. CASE IsrSlaveWritten \/ IsrSlaveRefused
      BY <3>1, <3>4 DEF IsrSlaveWritten, IsrSlaveRefused
    <3> QED BY <2>3, <3>2, <3>3, <3>4
  <2>4. CASE IsrSlaveRead
    <3>1. PICK n : n \in Nat /\ Command("slave", n + 1 < I2cSendDataLength)
      BY <2>4 DEF IsrSlaveRead, I2cTypeOK, DriverTypeOK
    <3> QED BY <2>1, <3>1 DEF Commands
  <2> QED BY <2>2, <2>3, <2>4 DEF TwiInterrupt
<1> QED BY <1>1, <1>7, <1>8, <1>9, CallKept, BusKept, Commanded DEF I2cTypeOK, RegistersTypeOK

\* While nothing disturbed it, the interrupt routine finds the transfer where it left it.
LEMMA InterruptServes ==
  ASSUME ServedIndInv, ~disturbed, TwiInterrupt
  PROVE  Undisturbed'
<1>1. /\ twint /\ UNCHANGED <<waits, callVars, bus, asked, moved>> /\ twint' = FALSE /\ Undisturbed
      /\ UNCHANGED <<call, step, want, data, retval>>
  BY InterruptTypes DEF ServedIndInv, ServedInv, busVars, history, callVars
<1>2. UNCHANGED <<rw, I2cReceiveDataLength, I2cSendData, I2cSendDataLength>>
  BY DEF TwiInterrupt, Isr, IsrStarted, IsrTransmit, IsrLast, IsrArbitrationLost, IsrReceive,
     IsrSlaveWritten, IsrSlaveData, IsrSlaveRefused, IsrSlaveOver, IsrSlaveRead, IsrBusError, sendVars
<1>3. CASE status \in {"TW_START", "TW_REP_START"} /\ Addressing
  <2>1. IsrStarted
    BY <1>3 DEF TwiInterrupt, Isr, IsrTransmit, IsrLast, IsrArbitrationLost, IsrReceive,
     IsrSlaveWritten, IsrSlaveData, IsrSlaveRefused, IsrSlaveOver, IsrSlaveRead, IsrBusError
  <2>2. /\ UNCHANGED <<I2cState, I2cSendDataIndex, I2cReceiveDataIndex, I2cReceiveData>>
        /\ command' = "byte" /\ twdr' = rw
    BY <2>1 DEF IsrStarted, i2cSendByte, Command, sendVars
  <2>3. Addressing'
    BY <1>1, <1>2, <1>3, <2>2 DEF Addressing, Pending, Done
  <2> QED BY <1>1, <1>2, <1>3, <2>2, <2>3 DEF Undisturbed, Transmitting, Receiving, Idle, TxOf, RxOf,
          Claimed, TxAddressed, TxTaken, TxByte, RxAddressed, RxTaken, RxByte, Pending, Done
<1>4. CASE Transmitting /\ (TxAddressed \/ TxTaken)
  <2>1. /\ I2cSendDataIndex = Len(moved) /\ Len(moved) <= Len(asked) /\ bus = "MT"
        /\ \A i \in 1 .. Len(moved) : asked[i] = moved[i]
        /\ asked \in Seq(Nat) /\ moved \in Seq(Nat) /\ TxOf
        /\ step \in {"out", "spin"} \/ (step = "returned" /\ call = "i2cMasterSend")
    BY <1>1, <1>4 DEF TxAddressed, TxTaken, Transmitting, Done, Claimed, ServedIndInv, I2cTypeOK, BusTypeOK
  <2>2. IsrTransmit
    BY <1>4 DEF TxAddressed, TxTaken, TwiInterrupt, Isr, IsrStarted, IsrLast, IsrArbitrationLost, IsrReceive,
     IsrSlaveWritten, IsrSlaveData, IsrSlaveRefused, IsrSlaveOver, IsrSlaveRead, IsrBusError
  <2>3. CASE Len(moved) < Len(asked)
    <3>1. /\ i2cSendByte(I2cSendData[I2cSendDataIndex + 1])
          /\ I2cSendDataIndex' = I2cSendDataIndex + 1 /\ UNCHANGED I2cState
      BY <2>1, <2>2, <2>3 DEF IsrTransmit, TxOf
    <3>2. twdr' = asked[Len(moved) + 1] /\ command' = "byte"
      BY <2>1, <2>3, <3>1 DEF i2cSendByte, Command, TxOf
    <3>3. TxByte'
      BY <1>1, <2>1, <2>3, <3>1, <3>2 DEF TxByte, Pending
    <3> QED BY <1>1, <1>2, <2>1, <3>1, <3>3 DEF Undisturbed, Transmitting, TxOf
  <2>4. CASE Len(moved) = Len(asked)
    <3>1. i2cSendStop /\ I2cState' = "I2C_IDLE"
      BY <2>1, <2>2, <2>4 DEF IsrTransmit, TxOf
    <3>2. command' = "stop"
      BY <3>1 DEF i2cSendStop, Command
    <3>3. moved = asked
      BY <2>1, <2>4, SMTT(30)
    <3> QED BY <1>1, <2>1, <3>1, <3>2, <3>3 DEF Undisturbed, Idle
  <2> QED BY <2>1, <2>3, <2>4
<1>5. CASE Receiving /\ RxAddressed
  <2>1. IsrReceive
    BY <1>5 DEF RxAddressed, TwiInterrupt, Isr, IsrStarted, IsrTransmit, IsrLast, IsrArbitrationLost,
     IsrSlaveWritten, IsrSlaveData, IsrSlaveRefused, IsrSlaveOver, IsrSlaveRead, IsrBusError
  <2>2. /\ I2cReceiveData' = I2cReceiveData /\ I2cReceiveDataIndex' = 0 /\ I2cState' = I2cState
        /\ command' = "receive" /\ (twea' <=> 0 + 1 < want)
    BY <1>5, <2>1 DEF IsrReceive, RxAddressed, NoStore, i2cReceiveByte, Command, Receiving, RxOf
  <2>3. want \in Nat /\ want >= 1 /\ step = "wait" /\ RxOf /\ bus = "MR" /\ moved = <<>>
    BY <1>1, <1>5 DEF Receiving, RxAddressed, RxOf, Claimed, ServedIndInv, CallInv, Done
  <2>4. RxByte'
    BY <1>1, <2>2, <2>3 DEF RxByte, Prefix, Pending
  <2> QED BY <1>1, <1>2, <2>2, <2>3, <2>4 DEF Undisturbed, Receiving, RxOf
<1>6. CASE Receiving /\ RxTaken
  <2>1. /\ RxOf /\ step = "wait" /\ bus = "MR" /\ want \in Nat /\ want <= BufferSize
        /\ moved \in Seq(Nat) /\ I2cReceiveDataIndex \in Nat /\ Len(moved) = I2cReceiveDataIndex + 1
        /\ Len(moved) <= want /\ twdr = moved[I2cReceiveDataIndex + 1]
        /\ \A i \in 1 .. I2cReceiveDataIndex : I2cReceiveData[i] = moved[i]
    BY <1>1, <1>6 DEF Receiving, RxTaken, RxOf, Claimed, Done, ServedIndInv, I2cTypeOK, BusTypeOK, CallInv,
       DriverTypeOK
  <2>2. StoreByte
    BY <1>6 DEF RxTaken, TwiInterrupt, Isr, IsrStarted, IsrTransmit, IsrLast, IsrArbitrationLost, IsrReceive,
     IsrSlaveWritten, IsrSlaveData, IsrSlaveRefused, IsrSlaveOver, IsrSlaveRead, IsrBusError
  <2>3. /\ I2cReceiveDataIndex' = Len(moved)
        /\ \A i \in 1 .. Len(moved) : I2cReceiveData'[i] = moved[i]
    BY <2>1, <2>2 DEF StoreByte
  <2>4. CASE status = "TW_MR_DATA_ACK"
    <3>1. IsrReceive /\ Len(moved) < want
      BY <1>6, <2>4 DEF RxTaken, TwiInterrupt, Isr, IsrStarted, IsrTransmit, IsrLast, IsrArbitrationLost,
       IsrSlaveWritten, IsrSlaveData, IsrSlaveRefused, IsrSlaveOver, IsrSlaveRead, IsrBusError
    <3>2. /\ I2cState' = I2cState /\ command' = "receive"
          /\ twea' <=> I2cReceiveDataIndex' + 1 < want
      BY <2>1, <3>1 DEF IsrReceive, i2cReceiveByte, Command, RxOf
    <3>3. RxByte'
      BY <1>1, <2>1, <2>3, <3>1, <3>2 DEF RxByte, Prefix, Pending
    <3> QED BY <1>1, <1>2, <2>1, <3>2, <3>3 DEF Undisturbed, Receiving, RxOf
  <2>5. CASE status = "TW_MR_DATA_NACK"
    <3>1. IsrLast /\ Len(moved) = want
      BY <1>6, <2>5 DEF RxTaken, TwiInterrupt, Isr, IsrStarted, IsrTransmit, IsrReceive, IsrArbitrationLost,
       IsrSlaveWritten, IsrSlaveData, IsrSlaveRefused, IsrSlaveOver, IsrSlaveRead, IsrBusError
    <3>2. I2cState' = "I2C_IDLE" /\ command' = "stop"
      BY <3>1 DEF IsrLast, i2cSendStop, Command
    <3> QED BY <1>1, <2>1, <2>3, <3>1, <3>2 DEF Undisturbed, Idle, RxOf, Prefix
  <2> QED BY <1>6, <2>4, <2>5 DEF RxTaken
<1> QED
  BY <1>1, <1>3, <1>4, <1>5, <1>6 DEF Undisturbed, Transmitting, Receiving, Idle, Claimed, Addressing,
     TxByte, RxByte, Pending, Done

\* What the interface and the bus leave alone, and the types of what they change.
LEMMA BusTypes ==
  ASSUME I2cTypeOK, MasterDone \/ SlaveDone \/ Noise
  PROVE  UNCHANGED <<waits, callVars, driverVars, twie>> /\ ~twint /\ I2cTypeOK'
<1>1. Quiet /\ bus' \in {"free", "started", "MT", "MR", "SR", "ST"} /\ noise' \in {noise, noise + 1}
  BY DEF MasterDone, StartDone, AddressDone, ByteSent, ByteReceived, StopDone,
     SlaveDone, Written, WrittenStop, Read, Noise, ArbitrationLost, BusError, Addressed, Wire, Noisy,
     I2cTypeOK, BusTypeOK
<1>2. /\ command' = "none" /\ twint' \in BOOLEAN /\ twea' = twea
      /\ stuck' \in BOOLEAN /\ disturbed' \in BOOLEAN /\ asked' \in {asked, <<>>}
  BY DEF MasterDone, StartDone, AddressDone, ByteSent, ByteReceived, StopDone,
     SlaveDone, Written, WrittenStop, Read, Noise, ArbitrationLost, BusError, Addressed, Report, Fault,
     I2cTypeOK, BusTypeOK, RegistersTypeOK
<1>3. twdr' \in {twdr, 0, BufferSize + Len(moved) + 1}
  BY DEF MasterDone, StartDone, AddressDone, ByteSent, ByteReceived, StopDone,
     SlaveDone, Written, WrittenStop, Read, Noise, ArbitrationLost, BusError, Addressed
<1>4. twdr' \in Nat
  BY <1>3 DEF I2cTypeOK, BusTypeOK, RegistersTypeOK
<1>5. moved' \in {moved, <<>>, Append(moved, twdr), Append(moved, twdr')}
  BY DEF MasterDone, StartDone, AddressDone, ByteSent, ByteReceived, StopDone,
     SlaveDone, Written, WrittenStop, Read, Noise, ArbitrationLost, BusError, Addressed, Moved
<1>6. moved' \in Seq(Nat) /\ asked' \in Seq(Nat) /\ noise' \in Nat
  <2>1. PICK b \in Nat : b = twdr'
    BY <1>4
  <2>2. moved' \in {moved, <<>>, Append(moved, twdr), Append(moved, b)} /\ moved \in Seq(Nat) /\ twdr \in Nat
    BY <1>5, <2>1 DEF I2cTypeOK, BusTypeOK, RegistersTypeOK
  <2>3. moved' \in Seq(Nat)
    <3>1. \A c \in Nat : Append(moved, c) \in Seq(Nat)
      BY <2>2
    <3> QED BY <2>1, <2>2, <3>1, EmptySeq
  <2>4. asked' \in Seq(Nat)
    BY <1>2, EmptySeq DEF I2cTypeOK, BusTypeOK
  <2> QED BY <1>1, <2>3, <2>4 DEF I2cTypeOK, BusTypeOK
<1>7. UNCHANGED <<waits, callVars, driverVars, twie>> /\ ~twint
  BY <1>1 DEF Quiet
<1>8. RegistersTypeOK' /\ BusTypeOK'
  BY <1>1, <1>2, <1>4, <1>6, <1>7 DEF I2cTypeOK, RegistersTypeOK, BusTypeOK, Commands
<1> QED BY <1>7, <1>8, CallKept, DriverKept DEF I2cTypeOK

\* While nothing disturbs it, the interface carries out the transfer's commands.
LEMMA BusServes ==
  ASSUME ServedIndInv, ~disturbed, ~disturbed', MasterDone \/ SlaveDone \/ Noise
  PROVE  Undisturbed'
<1>1. /\ ~twint /\ Undisturbed /\ UNCHANGED <<call, step, data, want, retval>>
      /\ UNCHANGED <<I2cState, rw, I2cSendData, I2cSendDataIndex, I2cSendDataLength, I2cReceiveData,
                     I2cReceiveDataIndex, I2cReceiveDataLength>>
      /\ moved \in Seq(Nat) /\ asked \in Seq(Nat) /\ twdr \in Nat /\ ~waits
  BY BusTypes DEF ServedIndInv, ServedInv, callVars, driverVars, sendVars, receiveVars,
     I2cTypeOK, BusTypeOK, RegistersTypeOK
<1>2. ~Noise /\ ~SlaveDone
  <2>1. bus \notin {"SR", "ST"}
    BY <1>1 DEF Undisturbed, Transmitting, Receiving, Idle, Claimed, Addressing, TxAddressed, TxByte, TxTaken,
       RxAddressed, RxByte, RxTaken, Pending, Done
  <2> QED BY <2>1 DEF Noise, ArbitrationLost, BusError, Addressed, Fault, SlaveDone, Written, WrittenStop, Read
<1>3. CASE StartDone
  <2>1. /\ command = "start" /\ bus' = "started" /\ moved' = <<>> /\ twint' = TRUE /\ command' = "none"
        /\ status' \in {"TW_START", "TW_REP_START"} /\ asked' = asked
    BY <1>3 DEF StartDone, Report, Fault
  <2>2. \/ /\ TxOf /\ I2cSendDataIndex = 0
           /\ step \in {"out", "spin"} \/ (step = "returned" /\ call = "i2cMasterSend")
        \/ RxOf /\ I2cReceiveDataIndex = 0 /\ step = "wait"
    BY <1>1, <2>1 DEF Undisturbed, Transmitting, Receiving, Idle, Claimed, TxAddressed, TxByte, TxTaken,
       RxAddressed, RxByte, RxTaken, Pending, Done
  <2>3. Addressing'
    BY <2>1 DEF Addressing, Done
  <2> QED BY <1>1, <2>1, <2>2, <2>3 DEF Undisturbed, Transmitting, Receiving, TxOf, RxOf
<1>4. CASE AddressDone
  <2>1. /\ command = "byte" /\ bus = "started" /\ bus' = IF twdr = 0 THEN "MT" ELSE "MR"
        /\ twint' = TRUE /\ command' = "none" /\ moved' = moved
    BY <1>4 DEF AddressDone, Report
  <2>2. asked' = asked /\ status' = IF twdr = 0 THEN "TW_MT_SLA_ACK" ELSE "TW_MR_SLA_ACK"
    BY <1>4 DEF AddressDone, Report, Fault
  <2>3. /\ moved = <<>> /\ twdr = rw
        /\ \/ /\ TxOf /\ I2cSendDataIndex = 0
              /\ step \in {"out", "spin"} \/ (step = "returned" /\ call = "i2cMasterSend")
           \/ RxOf /\ I2cReceiveDataIndex = 0 /\ step = "wait"
    BY <1>1, <2>1 DEF Undisturbed, Transmitting, Receiving, Idle, Claimed, Addressing, TxAddressed, TxByte,
       TxTaken, RxAddressed, RxByte, RxTaken, Pending, Done
  <2>4. TxOf /\ I2cSendDataIndex = 0 => TxAddressed' /\ TxOf'
    BY <1>1, <2>1, <2>2, <2>3 DEF TxOf, TxAddressed, Done
  <2>5. RxOf /\ I2cReceiveDataIndex = 0 => RxAddressed' /\ RxOf'
    BY <1>1, <2>1, <2>2, <2>3 DEF RxOf, RxAddressed, Done
  <2> QED BY <1>1, <2>3, <2>4, <2>5 DEF Undisturbed, Transmitting, Receiving
<1>5. CASE ByteSent
  <2>1. /\ command = "byte" /\ bus = "MT" /\ bus' = bus /\ moved' = Append(moved, twdr)
        /\ twint' = TRUE /\ command' = "none" /\ asked' = asked /\ status' = "TW_MT_DATA_ACK"
    BY <1>1, <1>5 DEF ByteSent, Report, Fault, Moved
  <2>2. /\ TxOf /\ I2cSendDataIndex = Len(moved) + 1 /\ I2cSendDataIndex <= Len(asked)
        /\ twdr = asked[Len(moved) + 1] /\ \A i \in 1 .. Len(moved) : asked[i] = moved[i]
        /\ step \in {"out", "spin"} \/ (step = "returned" /\ call = "i2cMasterSend")
    BY <1>1, <2>1 DEF Undisturbed, Transmitting, Receiving, Idle, Claimed, Addressing, TxAddressed, TxByte,
       TxTaken, RxAddressed, RxByte, RxTaken, Pending, Done
  <2>3. Len(moved') = Len(moved) + 1 /\ \A i \in 1 .. Len(moved') : asked[i] = moved'[i]
    BY <1>1, <2>1, <2>2
  <2>4. TxTaken'
    BY <1>1, <2>1, <2>2, <2>3 DEF TxTaken, Done
  <2> QED BY <1>1, <2>1, <2>2, <2>4 DEF Undisturbed, Transmitting, TxOf
<1>6. CASE ByteReceived
  <2>1. /\ command = "receive" /\ bus = "MR" /\ bus' = bus /\ moved' = Append(moved, twdr')
        /\ twdr' = BufferSize + Len(moved) + 1
        /\ twint' = TRUE /\ command' = "none" /\ asked' = asked
        /\ status' = IF twea THEN "TW_MR_DATA_ACK" ELSE "TW_MR_DATA_NACK"
    BY <1>1, <1>6 DEF ByteReceived, Report, Fault, Moved
  <2>2. /\ RxOf /\ step = "wait" /\ I2cReceiveDataIndex = Len(moved) /\ Len(moved) < want
        /\ (twea <=> Len(moved) + 1 < want) /\ want \in Nat
        /\ \A i \in 1 .. Len(moved) : I2cReceiveData[i] = moved[i]
    BY <1>1, <2>1 DEF Undisturbed, Transmitting, Receiving, Idle, Claimed, Addressing, TxAddressed, TxByte,
       TxTaken, RxAddressed, RxByte, RxTaken, Pending, Done, Prefix, ServedIndInv, I2cTypeOK, CallTypeOK
  <2>3. twdr' \in Nat
    BY <1>1, <2>1
  <2>4. PICK b \in Nat : b = twdr'
    BY <2>3
  <2>5. /\ Len(moved') = Len(moved) + 1 /\ moved'[Len(moved) + 1] = b
        /\ \A i \in 1 .. Len(moved) : moved'[i] = moved[i]
    BY <1>1, <2>1, <2>4
  <2>6. RxTaken'
    <3>1. \/ status' = "TW_MR_DATA_ACK" /\ Len(moved') < want
          \/ status' = "TW_MR_DATA_NACK" /\ Len(moved') = want
      BY <1>1, <2>1, <2>2, <2>5
    <3> QED BY <1>1, <2>1, <2>2, <2>4, <2>5, <3>1 DEF RxTaken, Done
  <2> QED BY <1>1, <2>1, <2>2, <2>6 DEF Undisturbed, Receiving, RxOf
<1>7. CASE StopDone
  <2>1. command = "stop" /\ bus' = "free" /\ command' = "none" /\ UNCHANGED <<twint, asked, moved>>
    BY <1>7 DEF StopDone
  <2>2. \/ Transmitting /\ Claimed /\ call = "i2cMasterSend" /\ I2cSendDataIndex = 0
        \/ Receiving /\ Claimed /\ I2cReceiveDataIndex = 0
        \/ Idle
    BY <1>1, <2>1 DEF Undisturbed, Transmitting, Receiving, Addressing, TxAddressed, TxByte,
       TxTaken, RxAddressed, RxByte, RxTaken, Pending, Done
  <2>3. Claimed => Claimed'
    BY <1>1, <2>1 DEF Claimed
  <2>4. Idle => Idle'
    BY <1>1, <2>1 DEF Idle, Prefix
  <2> QED BY <1>1, <2>1, <2>2, <2>3, <2>4 DEF Undisturbed, Transmitting, Receiving, TxOf, RxOf
<1> QED BY <1>2, <1>3, <1>4, <1>5, <1>6, <1>7 DEF MasterDone

\* A program served by the interrupt takes a step.
LEMMA ProgramServed ==
  ASSUME ServedIndInv, Program \/ \E f \in Interrupting : Call(f)
  PROVE  ServedIndInv'
<1>1. /\ ~waits /\ CallTypeOK /\ DriverTypeOK /\ RegistersTypeOK /\ BusTypeOK /\ twie
      /\ step \in {"out", "spin", "claim", "start", "wait", "returned"} /\ call \in {"none"} \cup Interrupting
      /\ call = "none" <=> step = "out"
      /\ call # "none" => want \in 1 .. BufferSize
      /\ call \in Sending => Len(data) = want
      /\ disturbed => asked = <<>>
      /\ call = "i2cMasterSend" => step # "wait"
      /\ ~disturbed => Undisturbed
  BY DEF ServedIndInv, ServedInv, ServedFrame, CallInv, I2cTypeOK, CallTypeOK
<1>2. ASSUME NEW f \in Interrupting, Call(f) PROVE ServedIndInv'
  <2>1. /\ want' \in 1 .. MaxLength /\ call' = f /\ step' = "spin" /\ retval' = "I2C_OK"
        /\ UNCHANGED <<waits, driverVars, registers, twdr, busVars>> /\ call = "none" /\ step = "out"
    BY <1>1, <1>2 DEF Call, Begin
  <2>2. data' = IF f \in Sending THEN [i \in 1 .. want' |-> i] ELSE <<>>
    BY <1>2 DEF Call, Begin
  <2>3. data' \in Seq(Nat) /\ (f \in Sending => Len(data') = want')
    <3>1. PICK n \in 1 .. MaxLength : n = want'
      BY <2>1
    <3>2. [i \in 1 .. n |-> i] \in Seq(Nat) /\ Len([i \in 1 .. n |-> i]) = n
      OBVIOUS
    <3> QED BY <2>2, <3>1, <3>2
  <2>4. I2cTypeOK'
    <3>1. CallTypeOK'
      BY <1>1, <2>1, <2>3 DEF CallTypeOK
    <3> QED BY <1>1, <2>1, <3>1, DriverKept, RegistersKept, BusKept DEF I2cTypeOK
  <2>5. CallInv'
    BY <1>1, <2>1, <2>3 DEF CallInv, Waiting, Interrupting
  <2>6. Undisturbed => Undisturbed'
    BY <2>1 DEF Undisturbed, Transmitting, Receiving, Idle, TxOf, RxOf, Claimed, Addressing, TxAddressed,
       TxByte, TxTaken, Pending, Done, driverVars, sendVars, receiveVars, registers, busVars, history,
       Interrupting
  <2>7. ServedInv'
    BY <1>1, <2>1, <2>6 DEF ServedInv, ServedFrame, registers, busVars, history
  <2> QED BY <1>1, <2>1, <2>4, <2>5, <2>7 DEF ServedIndInv
<1>3. CASE Spin
  <2>1. /\ step = "spin" /\ step' = "claim" /\ I2cState = "I2C_IDLE"
        /\ UNCHANGED <<waits, call, want, data, retval, driverVars, registers, twdr, busVars>>
    BY <1>3 DEF Spin, Stands, To
  <2>2. I2cTypeOK'
    <3>1. CallTypeOK'
      BY <1>1, <2>1 DEF CallTypeOK
    <3> QED BY <1>1, <2>1, <3>1, DriverKept, RegistersKept, BusKept DEF I2cTypeOK
  <2>3. CallInv'
    BY <2>1 DEF CallInv, ServedIndInv
  <2>4. Undisturbed => Undisturbed'
    BY <2>1 DEF Undisturbed, Transmitting, Receiving, Idle, TxOf, RxOf,
       driverVars, registers, busVars, history
  <2>5. ServedInv'
    BY <1>1, <2>1, <2>4 DEF ServedInv, ServedFrame, registers, busVars, history
  <2> QED BY <1>1, <2>1, <2>2, <2>3, <2>5 DEF ServedIndInv
<1>4. ASSUME ~Taken, ~twint, step = "claim"
      PROVE  bus \notin {"SR", "ST"} /\ command # "start" /\ (bus = "free" \/ command = "stop")
  <2>1. CASE disturbed
    BY <1>4, <2>1 DEF Taken
  <2>2. CASE ~disturbed
    BY <1>1, <1>4, <2>2 DEF Undisturbed, Transmitting, Receiving, Idle, Claimed
  <2> QED BY <1>1, <2>1, <2>2 DEF BusTypeOK
<1>5. CASE ClaimSend
  <2>1. /\ step = "claim" /\ step' = "start" /\ call = "i2cMasterSend" /\ ~twint
        /\ UNCHANGED <<waits, call, want, data, retval, receiveVars, registers, twdr, bus, moved, noise, stuck>>
        /\ I2cState' = "I2C_MASTER_TX" /\ rw' = 0 /\ I2cSendDataIndex' = 0 /\ I2cSendDataLength' = want
        /\ disturbed' = Taken /\ asked' = IF Taken THEN <<>> ELSE data
        /\ I2cSendData' = [i \in 1 .. BufferSize |-> IF i <= want THEN data[i] ELSE I2cSendData[i]]
    BY <1>1, <1>5 DEF ClaimSend, Stands, To, Runs
  <2>2. want \in 1 .. BufferSize /\ Len(data) = want /\ data \in Seq(Nat)
    BY <1>1, <2>1 DEF Sending, CallTypeOK
  <2>3. I2cTypeOK'
    <3>1. CallTypeOK'
      BY <1>1, <2>1 DEF CallTypeOK
    <3>2. I2cSendData' \in [1 .. BufferSize -> Nat]
      <4>1. \A i \in 1 .. BufferSize : I2cSendData[i] \in Nat /\ (i <= want => data[i] \in Nat)
        <5>1. ASSUME NEW i \in 1 .. BufferSize, i <= want PROVE data[i] \in Nat
          <6>1. i \in 1 .. Len(data)
            BY <2>2, <5>1
          <6> QED BY <2>2, <6>1, ElementOfSeq
        <5>2. \A i \in 1 .. BufferSize : I2cSendData[i] \in Nat
          BY <1>1 DEF DriverTypeOK
        <5> QED BY <5>1, <5>2
      <4>2. [i \in 1 .. BufferSize |-> IF i <= want THEN data[i] ELSE I2cSendData[i]]
              \in [1 .. BufferSize -> Nat]
        BY <4>1
      <4> QED BY <2>1, <4>2
    <3>3. DriverTypeOK'
      BY <1>1, <2>1, <2>2, <3>2 DEF DriverTypeOK, receiveVars
    <3>4. BusTypeOK'
      BY <1>1, <2>1, <2>2, EmptySeq DEF BusTypeOK, Taken
    <3> QED BY <1>1, <2>1, <3>1, <3>3, <3>4, RegistersKept DEF I2cTypeOK
  <2>4. CallInv'
    BY <1>1, <2>1 DEF CallInv, Waiting, Interrupting
  <2>5. ~Taken => Undisturbed'
    <3> SUFFICES ASSUME ~Taken PROVE Undisturbed'
      OBVIOUS
    <3>1. Claimed'
      BY <1>4, <2>1 DEF Claimed, registers
    <3>2. TxOf'
      BY <2>1, <2>2 DEF TxOf
    <3> QED BY <2>1, <3>1, <3>2 DEF Undisturbed, Transmitting
  <2>6. ServedInv'
    BY <1>1, <2>1, <2>5 DEF ServedInv, ServedFrame, registers
  <2> QED BY <1>1, <2>1, <2>3, <2>4, <2>6 DEF ServedIndInv
<1>6. CASE ClaimReceive
  <2>1. /\ step = "claim" /\ step' = "start" /\ call = "i2cMasterReceive" /\ ~twint
        /\ UNCHANGED <<waits, call, want, data, retval, sendVars, I2cReceiveData, registers, twdr, bus, moved,
                       noise, stuck>>
        /\ I2cState' = "I2C_MASTER_RX" /\ rw' = 1 /\ I2cReceiveDataIndex' = 0 /\ I2cReceiveDataLength' = want
        /\ disturbed' = Taken /\ asked' = <<>>
    BY <1>1, <1>6 DEF ClaimReceive, Stands, To, Runs
  <2>2. I2cTypeOK'
    <3>1. CallTypeOK' /\ want \in Nat
      BY <1>1, <2>1 DEF CallTypeOK
    <3>2. DriverTypeOK'
      BY <1>1, <2>1, <3>1 DEF DriverTypeOK, sendVars
    <3>3. BusTypeOK'
      BY <1>1, <2>1, EmptySeq DEF BusTypeOK, Taken
    <3> QED BY <1>1, <2>1, <3>1, <3>2, <3>3, RegistersKept DEF I2cTypeOK
  <2>3. CallInv'
    BY <1>1, <2>1 DEF CallInv, Waiting, Interrupting
  <2>4. ~Taken => Undisturbed'
    <3> SUFFICES ASSUME ~Taken PROVE Undisturbed'
      OBVIOUS
    <3>1. Claimed'
      BY <1>4, <2>1 DEF Claimed, registers
    <3> QED BY <2>1, <3>1 DEF Undisturbed, Receiving, RxOf
  <2>5. ServedInv'
    BY <1>1, <2>1, <2>4 DEF ServedInv, ServedFrame, registers
  <2> QED BY <1>1, <2>1, <2>2, <2>3, <2>5 DEF ServedIndInv
<1>7. CASE StartIt
  <2>1. /\ step = "start" /\ call \in Interrupting /\ step' = IF call \in Sending THEN "returned" ELSE "wait"
        /\ UNCHANGED <<waits, call, want, data, retval, driverVars, bus, asked, moved, disturbed, noise, twie, twdr>>
        /\ command' = "start" /\ twea' = FALSE /\ twint' = FALSE /\ stuck' \in BOOLEAN
    BY <1>1, <1>7 DEF StartIt, Stands, To, i2cSendStart, Command, BusTypeOK
  <2>2. I2cTypeOK'
    <3>1. CallTypeOK' /\ RegistersTypeOK' /\ BusTypeOK'
      BY <1>1, <2>1 DEF CallTypeOK, RegistersTypeOK, BusTypeOK, Commands
    <3> QED BY <1>1, <2>1, <3>1, DriverKept DEF I2cTypeOK
  <2>3. CallInv'
    BY <1>1, <2>1 DEF CallInv, Waiting, Interrupting
  <2>4. Undisturbed => Undisturbed'
    <3> SUFFICES ASSUME Undisturbed PROVE Undisturbed'
      OBVIOUS
    <3>1. \/ TxOf /\ Claimed /\ call = "i2cMasterSend" /\ I2cSendDataIndex = 0
          \/ RxOf /\ Claimed /\ I2cReceiveDataIndex = 0
      BY <2>1 DEF Undisturbed, Transmitting, Receiving, Idle
    <3>2. Addressing'
      BY <2>1, <3>1 DEF Addressing, Claimed
    <3>3. call \in Sending <=> call = "i2cMasterSend"
      BY <2>1 DEF Sending, Interrupting
    <3> QED BY <2>1, <3>1, <3>2, <3>3 DEF Undisturbed, Transmitting, Receiving, TxOf, RxOf, driverVars,
               sendVars, receiveVars
  <2>5. ServedInv'
    BY <1>1, <2>1, <2>4 DEF ServedInv, ServedFrame, Sending
  <2> QED BY <1>1, <2>1, <2>2, <2>3, <2>5 DEF ServedIndInv
<1>8. CASE TakeData
  <2>1. /\ step = "wait" /\ step' = "returned" /\ call = "i2cMasterReceive" /\ I2cState = "I2C_IDLE"
        /\ UNCHANGED <<waits, call, want, retval, driverVars, registers, twdr, busVars>>
        /\ data' = SubSeq(I2cReceiveData, 1, want)
    BY <1>8 DEF TakeData, Stands, To
  <2>2. want \in 1 .. BufferSize
    BY <1>1, <2>1
  <2>3. data' \in Seq(Nat) /\ Len(data') = want /\ \A i \in 1 .. want : data'[i] = I2cReceiveData[i]
    <3>1. I2cReceiveData \in Seq(Nat) /\ Len(I2cReceiveData) = BufferSize
      BY <1>1 DEF DriverTypeOK
    <3> QED BY <2>1, <2>2, <3>1
  <2>4. I2cTypeOK'
    <3>1. CallTypeOK'
      BY <1>1, <2>1, <2>3 DEF CallTypeOK
    <3> QED BY <1>1, <2>1, <3>1, DriverKept, RegistersKept, BusKept DEF I2cTypeOK
  <2>5. CallInv'
    BY <1>1, <2>1, <2>3 DEF CallInv, Waiting, Interrupting
  <2>6. Undisturbed => Undisturbed'
    <3> SUFFICES ASSUME Undisturbed PROVE Undisturbed'
      OBVIOUS
    <3>1. Idle /\ Prefix(I2cReceiveData, want)
      BY <2>1 DEF Undisturbed, Transmitting, Receiving, TxOf, RxOf, Idle
    <3>2. data' = moved
      <4>1. moved \in Seq(Nat) /\ Len(moved) = want /\ \A i \in 1 .. want : I2cReceiveData[i] = moved[i]
        BY <1>1, <3>1 DEF Prefix, BusTypeOK
      <4>2. PICK d \in Seq(Nat) : d = data'
        BY <2>3
      <4>3. Len(d) = want /\ \A i \in 1 .. want : d[i] = moved[i]
        BY <2>3, <4>1, <4>2
      <4>4. d = moved
        BY <4>1, <4>3, SeqEqual
      <4> QED BY <4>2, <4>4
    <3> QED BY <2>1, <3>1, <3>2 DEF Undisturbed, Idle, driverVars, registers, busVars, history
  <2>7. ServedInv'
    BY <1>1, <2>1, <2>6 DEF ServedInv, ServedFrame, registers, busVars, history
  <2> QED BY <1>1, <2>1, <2>4, <2>5, <2>7 DEF ServedIndInv
<1>9. CASE Return
  <2>1. /\ step = "returned" /\ step' = "out" /\ call' = "none" /\ data' = <<>> /\ want' = 0
        /\ retval' = "I2C_OK" /\ UNCHANGED <<waits, driverVars, registers, twdr, busVars>>
    BY <1>9 DEF Return, Stands
  <2>2. I2cTypeOK'
    <3>1. CallTypeOK'
      BY <1>1, <2>1, EmptySeq DEF CallTypeOK
    <3> QED BY <1>1, <2>1, <3>1, DriverKept, RegistersKept, BusKept DEF I2cTypeOK
  <2>3. CallInv'
    BY <1>1, <2>1 DEF CallInv, Waiting, Sending
  <2>4. Undisturbed => Undisturbed'
    BY <2>1 DEF Undisturbed, Transmitting, Receiving, Idle, TxOf, RxOf, Claimed, Addressing, TxAddressed,
       TxByte, TxTaken, Pending, Done, driverVars, sendVars, receiveVars, registers, busVars, history
  <2>5. ServedInv'
    BY <1>1, <2>1, <2>4 DEF ServedInv, ServedFrame, registers, busVars, history
  <2> QED BY <1>1, <2>1, <2>2, <2>3, <2>5 DEF ServedIndInv
<1>10. ~(NIAddress \/ NICheck \/ NISendMore \/ NIReceiveMore \/ NIStopping \/ NIEnable)
  BY <1>1 DEF NIAddress, NICheck, NISendMore, NIReceiveMore, NIStopping, NIEnable, Stands
<1>11. ~NIStart
  BY <1>1 DEF NIStart, Waiting, Interrupting
<1> QED BY <1>2, <1>3, <1>5, <1>6, <1>7, <1>8, <1>9, <1>10, <1>11 DEF Program

\* Every step of a program that is served: its own, the interrupt's, the interface's and the
\* other masters'.
LEMMA StepServed == ServedIndInv /\ [I2cNext]_i2cVars => ServedIndInv'
<1> SUFFICES ASSUME ServedIndInv, [I2cNext]_i2cVars PROVE ServedIndInv'
  OBVIOUS
<1>1. CASE TwiInterrupt
  <2>1. UNCHANGED <<waits, callVars, twie, busVars>> /\ I2cTypeOK'
    BY <1>1, InterruptTypes DEF ServedIndInv
  <2>2. ~disturbed => Undisturbed'
    BY <1>1, InterruptServes
  <2>3. CallInv' /\ ServedInv'
    BY <2>1, <2>2 DEF ServedIndInv, CallInv, ServedInv, ServedFrame, callVars, busVars, history
  <2> QED BY <2>1, <2>3 DEF ServedIndInv
<1>2. CASE MasterDone \/ SlaveDone \/ Noise
  <2>1. UNCHANGED <<waits, callVars, driverVars, twie>> /\ I2cTypeOK'
    BY <1>2, BusTypes DEF ServedIndInv
  <2>2. (disturbed => disturbed') /\ (disturbed' => asked' = <<>>)
    BY <1>2 DEF MasterDone, StartDone, AddressDone, ByteSent, ByteReceived, StopDone,
       SlaveDone, Written, WrittenStop, Read, Noise, ArbitrationLost, BusError, Addressed, Fault,
       ServedIndInv, ServedInv, ServedFrame, I2cTypeOK, BusTypeOK
  <2>3. ~disturbed' => Undisturbed'
    BY <1>2, <2>2, BusServes
  <2>4. CallInv' /\ ServedInv'
    BY <2>1, <2>2, <2>3 DEF ServedIndInv, CallInv, ServedInv, ServedFrame, callVars
  <2> QED BY <2>1, <2>4 DEF ServedIndInv
<1>3. CASE UNCHANGED i2cVars
  <2>1. UNCHANGED <<waits, callVars, driverVars, registers, twdr, busVars>>
    BY <1>3 DEF i2cVars
  <2>2. I2cTypeOK'
    BY <2>1, CallKept, DriverKept, RegistersKept, BusKept DEF ServedIndInv, I2cTypeOK
  <2>3. Undisturbed => Undisturbed'
    BY <2>1 DEF Undisturbed, Transmitting, Receiving, Idle, TxOf, RxOf, Claimed, Addressing, TxAddressed,
       TxByte, TxTaken, RxAddressed, RxByte, RxTaken, Prefix, Pending, Done, callVars, driverVars, sendVars,
       receiveVars, registers, busVars, history
  <2>4. CallInv' /\ ServedInv'
    BY <2>1, <2>3 DEF ServedIndInv, CallInv, ServedInv, ServedFrame, callVars, registers, busVars, history
  <2> QED BY <2>1, <2>2, <2>4 DEF ServedIndInv
<1>4. \A f \in Waiting : ~CallNI(f)
  BY DEF ServedIndInv, CallNI
<1> QED BY <1>1, <1>2, <1>3, <1>4, ProgramServed DEF I2cNext

\* A transfer that nothing disturbed moves exactly what was asked for, and a device reported
\* missing was sent nothing (i2c.c): for every buffer and length, however the program, the
\* interrupt, the other masters and the noise take turns.
THEOREM TransfersHold == I2cSpec => []Transferred
<1>1. I2cInit => I2cInv
  BY I2cInitHolds
<1>2. I2cInv /\ [I2cNext]_i2cVars => I2cInv'
  <2> SUFFICES ASSUME I2cInv, [I2cNext]_i2cVars PROVE I2cInv'
    OBVIOUS
  <2>1. CASE waits
    BY <2>1, StepNI DEF WaitIndInv, I2cInv
  <2>2. CASE ~waits
    BY <2>2, StepServed DEF ServedIndInv, I2cInv
  <2> QED BY <2>1, <2>2
<1>3. I2cInv => Transferred
  <2> SUFFICES ASSUME I2cInv PROVE Transferred
    OBVIOUS
  <2>1. CASE waits
    BY <2>1 DEF I2cInv, WaitInv, Ended, Transferred, CallInv, Waiting, I2cTypeOK, CallTypeOK
  <2>2. CASE ~waits
    <3>1. ~waits /\ I2cState = "I2C_IDLE" /\ asked # <<>> => moved = asked
      BY <2>2 DEF I2cInv, ServedInv, ServedFrame, Undisturbed, Transmitting, Receiving, Idle, TxOf, RxOf
    <3>2. step = "returned" /\ call = "i2cMasterReceive" /\ ~disturbed => data = moved
      BY <2>2 DEF I2cInv, ServedInv, ServedFrame, Undisturbed, Transmitting, Receiving, Idle, TxOf, RxOf, Claimed
    <3>3. call \notin Waiting
      BY <2>2 DEF I2cInv, CallInv
    <3> QED BY <3>1, <3>2, <3>3 DEF Transferred
  <2> QED BY <2>1, <2>2
<1> QED BY <1>1, <1>2, <1>3, PTL DEF I2cSpec

HIDE BufferAssumption

-----------------------------------------------------------------------------
(* PurtBuffer.                                                             *)

USE MAssumption, InputAssumption DEF Byte, Message

UniqueList(q) ==
  /\ \A i, j \in 0 .. 2 : q[i] = q[j] /\ i # j => q[i] = "NONE"
  /\ \A i \in 0 .. 1 : q[i] = "NONE" => q[i + 1] = "NONE"

\* The queue at every point of the main loop, the half-done pops included.
QueueInv ==
  /\ rxEnabled <=> main \in {"loop", "disable", "handler"}
  /\ main # "loop" => handling \in Message
  /\ main \in {"disable", "shift0"} => queue[0] = handling
  /\ main = "handler" /\ handling = "SUBSTATE" => queue[0] = "SUBSTATE"
  /\ main \in {"loop", "disable", "handler", "shift0", "enable"} => UniqueList(queue)
  /\ main = "shift1" => /\ queue[0] = queue[1]
                        /\ queue[1] = queue[2] => queue[1] = "NONE"
                        /\ queue[1] = "NONE" => queue[2] = "NONE"
  /\ main = "shift2" => /\ queue[1] = queue[2]
                        /\ queue[0] = queue[1] => queue[0] = "NONE"
                        /\ queue[0] = "NONE" => queue[1] = "NONE"

\* The bytes the parser still expects and where it will put them.
FrameInv ==
  /\ bytesRemaining <= size
  /\ bytesRemaining > 0 => size >= 2
  /\ bytesRemaining \in {0, size} => ptr = 0
  /\ drop => ptr = 0
  /\ WritesFit
  /\ bytesRemaining > 0 => bytesRemaining + nulRun <= M

\* While a substate is queued, a datagram that is not dropped has nothing left
\* but its terminator and is not a substate.
BufferInv ==
  Continuing /\ exists("SUBSTATE") /\ ~drop => bytesRemaining = 1 /\ type # 1

IInv == TypeOK /\ QueueInv /\ FrameInv /\ BufferInv

-----------------------------------------------------------------------------
\* push() keeps the queue a list without gaps or repetitions, changes at most
\* one slot and finds room for every message (statedevice_buffer.c:34-40).
LEMMA PushFacts ==
  ASSUME NEW t \in Message, UniqueList(queue), push(t),
         queue \in [0 .. 2 -> Message \cup {"NONE"}]
  PROVE  /\ queue' \in [0 .. 2 -> Message \cup {"NONE"}]
         /\ UniqueList(queue')
         /\ queue[0] # "NONE" => queue'[0] = queue[0]
         /\ \E i \in 0 .. 2 : queue'[i] = t
         /\ \A i \in 0 .. 2 : queue'[i] \in {queue[i], t}
<1>1. PICK i \in 0 .. 2 :
        /\ i = 2 \/ queue[i] \in {"NONE", t}
        /\ \A j \in 0 .. (i - 1) : queue[j] \notin {"NONE", t}
        /\ queue' = [queue EXCEPT ![i] = t]
  BY DEF push
<1>2. queue' \in [0 .. 2 -> Message \cup {"NONE"}]
  BY <1>1
<1>3. CASE i = 0
  BY <1>1, <1>2, <1>3 DEF UniqueList
<1>4. CASE i = 1
  BY <1>1, <1>2, <1>4 DEF UniqueList
<1>5. CASE i = 2
  BY <1>1, <1>2, <1>5 DEF UniqueList
<1> QED BY <1>3, <1>4, <1>5

\* What every path of the interrupt does to the history of NULs.
LEMMA ReceiveFacts ==
  ASSUME IInv, NEW b \in Input, Receive(b)
  PROVE  /\ nulRun' \in Byte /\ b \in Byte
         /\ b # 0 => nulRun' = 0
         /\ bytesRemaining > 0 => nulRun' <= nulRun + 1
         /\ main \in {"loop", "disable", "handler"}
BY DEF Receive, IInv, TypeOK, FrameInv, QueueInv

\* The paths that leave the queue alone.
LEMMA ByteStep ==
  ASSUME IInv, NEW b \in Input,
         Interstitial(b) \/ SizeByte(b) \/ TypeByte(b) \/ DroppedByte(b)
         \/ MessageByte(b)
  PROVE  IInv' /\ queue' = queue
<1> USE DEF IInv
<1>1. Receive(b) /\ UNCHANGED mainVars
  BY DEF Interstitial, SizeByte, TypeByte, DroppedByte, MessageByte
<1>2. QueueInv' /\ queue' = queue
  BY <1>1 DEF QueueInv, mainVars
<1>3. CASE Interstitial(b)
  <2>1. /\ bytesRemaining = 0 /\ UNCHANGED <<mainVars, owed>>
        /\ UNCHANGED <<bytesRemaining, size, type, drop, ptr, buffer, substate>>
    BY <1>3 DEF Interstitial
  <2> QED BY <1>1, <1>2, <2>1, ReceiveFacts
       DEF TypeOK, FrameInv, BufferInv, WritesFit, Continuing, mainVars, exists
<1>4. CASE SizeByte(b)
  BY <1>1, <1>2, <1>4, ReceiveFacts
  DEF SizeByte, TypeOK, FrameInv, BufferInv, WritesFit, Continuing, mainVars
<1>5. CASE TypeByte(b)
  <2>1. TypeOK'
    <3>1. nulRun' \in Byte /\ b \in Byte
      BY <1>1, ReceiveFacts
    <3>2. bytesRemaining' \in Byte /\ type' \in Byte
      BY <1>5, <3>1 DEF TypeByte, TypeOK
    <3>3. drop' \in BOOLEAN
      BY <1>5 DEF TypeByte, TypeOK
    <3> QED BY <1>1, <1>5, <3>1, <3>2, <3>3 DEF TypeByte, TypeOK, mainVars
  <2>2. FrameInv'
    BY <1>1, <1>5, ReceiveFacts
    DEF TypeByte, TypeOK, FrameInv, WritesFit, Continuing, mainVars
  <2>3. BufferInv'
    BY <1>1, <1>5 DEF TypeByte, TypeOK, FrameInv, BufferInv, Continuing, mainVars, exists
  <2> QED BY <1>2, <2>1, <2>2, <2>3
<1>6. CASE DroppedByte(b)
  <2>1. TypeOK'
    BY <1>1, <1>6, ReceiveFacts DEF DroppedByte, Continuing, TypeOK, mainVars
  <2>2. FrameInv'
    BY <1>1, <1>6, ReceiveFacts
    DEF DroppedByte, TypeOK, FrameInv, WritesFit, Continuing, mainVars
  <2>3. BufferInv'
    BY <1>6 DEF DroppedByte, BufferInv
  <2> QED BY <1>2, <2>1, <2>2, <2>3
<1>7. CASE MessageByte(b)
  <2>1. TypeOK'
    <3>1. ptr + 1 \in 0 .. (M - 2)
      BY <1>7 DEF MessageByte, FrameInv, WritesFit, TypeOK, Continuing
    <3>2. buffer' \in [0 .. 1 -> Byte]
      BY <1>7 DEF MessageByte, TypeOK
    <3> QED BY <1>1, <1>7, <3>1, <3>2, ReceiveFacts
         DEF MessageByte, Continuing, TypeOK, mainVars
  <2>2. FrameInv'
    BY <1>1, <1>7, ReceiveFacts
    DEF MessageByte, TypeOK, FrameInv, WritesFit, Continuing, mainVars
  <2>3. BufferInv'
    BY <1>7 DEF MessageByte, TypeOK, FrameInv, BufferInv, Continuing, mainVars, exists
  <2> QED BY <1>2, <2>1, <2>2, <2>3
<1> QED BY <1>2, <1>3, <1>4, <1>5, <1>6, <1>7

LEMMA LastByteStep ==
  ASSUME IInv, NEW b \in Input, LastByte(b)
  PROVE  IInv'
<1> USE DEF IInv
<1>1. /\ Receive(b) /\ bytesRemaining' = 0 /\ ptr' = 0 /\ drop' = FALSE
      /\ UNCHANGED <<size, type, buffer, rxEnabled, main, handling>>
  BY DEF LastByte
<1>2. /\ main \in {"loop", "disable", "handler"} /\ UniqueList(queue)
      /\ nulRun' \in Byte
  BY <1>1, ReceiveFacts DEF QueueInv
<1>3. /\ QueueInv' /\ queue' \in [0 .. 2 -> Message \cup {"NONE"}]
      /\ owed' \in SUBSET Message
  <2>1. CASE UNCHANGED <<queue, owed>>
    BY <1>1, <2>1 DEF QueueInv, TypeOK
  <2>2. ASSUME NEW t \in Message, push(t), owed' = owed \cup {t}
        PROVE  /\ QueueInv' /\ queue' \in [0 .. 2 -> Message \cup {"NONE"}]
               /\ owed' \in SUBSET Message
    <3>1. queue \in [0 .. 2 -> Message \cup {"NONE"}] /\ owed \in SUBSET Message
      BY DEF TypeOK
    <3>2. /\ queue' \in [0 .. 2 -> Message \cup {"NONE"}]
          /\ UniqueList(queue')
          /\ queue[0] # "NONE" => queue'[0] = queue[0]
      BY <1>2, <2>2, <3>1, PushFacts
    <3> QED BY <1>1, <1>2, <2>2, <3>1, <3>2 DEF QueueInv
  <2>3. MessageOf(type) # "NONE" => MessageOf(type) \in Message
    BY DEF MessageOf
  <2> QED BY <2>1, <2>2, <2>3 DEF LastByte
<1>4. substate' \in [keyLength : Byte, valueLength : Byte, key : Byte]
  <2>1. Sliced \in [keyLength : Byte, valueLength : Byte, key : Byte]
    BY DEF Sliced, Wrap, TypeOK
  <2> QED BY <2>1 DEF LastByte, TypeOK
<1>5. TypeOK'
  <2>1. bytesRemaining' \in Byte /\ ptr' \in 0 .. (M - 2)
    BY <1>1
  <2>2. drop' \in BOOLEAN
    BY <1>1
  <2> QED BY <1>1, <1>2, <1>3, <1>4, <2>1, <2>2 DEF TypeOK
<1>6. FrameInv' /\ BufferInv'
  BY <1>1, <1>5 DEF FrameInv, BufferInv, WritesFit, Continuing, TypeOK
<1> QED BY <1>3, <1>5, <1>6

\* The main loop touches neither the parser nor the buffer.
LEMMA MainLoopStep ==
  ASSUME IInv, MainLoop \/ UNCHANGED vars
  PROVE  /\ IInv'
         /\ UNCHANGED <<buffer, substate>>
<1> USE DEF IInv
<1>1. UNCHANGED isrVars
  BY DEF MainLoop, Look, DisableRx, Shift0, Shift1, Shift2, EnableRx,
         HandlerReturns, vars
<1>2. QueueInv' /\ TypeOK'
  <2>0. queue \in [0 .. 2 -> Message \cup {"NONE"}]
    BY DEF TypeOK
  <2>1. CASE Look
    <3>1. QueueInv'
      BY <2>0, <2>1 DEF Look, StartHandler, QueueInv
    <3>2. /\ handling' \in Message \cup {"NONE"} /\ owed' \in SUBSET Message
          /\ main' \in {"handler", "disable"} /\ UNCHANGED <<queue, rxEnabled>>
      <4>1. handling' \in Message \cup {"NONE"}
        BY <2>0, <2>1 DEF Look
      <4>2. owed' \in SUBSET Message
        BY <2>1 DEF Look, StartHandler, TypeOK
      <4>3. main' \in {"handler", "disable"} /\ UNCHANGED <<queue, rxEnabled>>
        BY <2>1 DEF Look, StartHandler
      <4> QED BY <4>1, <4>2, <4>3
    <3>3. TypeOK'
      BY <1>1, <3>2 DEF TypeOK, isrVars
    <3> QED BY <3>1, <3>3
  <2>2. CASE DisableRx
    <3>1. rxEnabled' \in BOOLEAN
      BY <2>2 DEF DisableRx
    <3>2. QueueInv'
      BY <2>2 DEF DisableRx, QueueInv
    <3> QED BY <1>1, <2>2, <3>1, <3>2 DEF DisableRx, TypeOK, isrVars
  <2>3. CASE Shift0
    BY <1>1, <2>0, <2>3 DEF Shift0, QueueInv, TypeOK, isrVars, UniqueList
  <2>4. CASE Shift1
    BY <1>1, <2>0, <2>4 DEF Shift1, QueueInv, TypeOK, isrVars, UniqueList
  <2>5. CASE Shift2
    BY <1>1, <2>0, <2>5 DEF Shift2, QueueInv, TypeOK, isrVars, UniqueList
  <2>6. CASE EnableRx
    <3>1. rxEnabled' \in BOOLEAN
      BY <2>6 DEF EnableRx
    <3>2. QueueInv'
      BY <2>6 DEF EnableRx, StartHandler, QueueInv
    <3> QED BY <1>1, <2>6, <3>1, <3>2 DEF EnableRx, StartHandler, TypeOK, isrVars
  <2>7. CASE HandlerReturns
    <3>1. QueueInv'
      BY <2>7 DEF HandlerReturns, QueueInv
    <3>2. TypeOK'
      BY <1>1, <2>7 DEF HandlerReturns, TypeOK, isrVars
    <3> QED BY <3>1, <3>2
  <2>8. CASE UNCHANGED vars
    BY <2>8 DEF vars, mainVars, isrVars, QueueInv, TypeOK
  <2> QED BY <2>1, <2>2, <2>3, <2>4, <2>5, <2>6, <2>7, <2>8 DEF MainLoop
<1>3. FrameInv'
  BY <1>1 DEF FrameInv, WritesFit, Continuing, isrVars
<1>4. exists("SUBSTATE")' => exists("SUBSTATE")
  BY DEF exists, MainLoop, Look, DisableRx, Shift0, Shift1, Shift2, EnableRx,
         HandlerReturns, vars, mainVars, TypeOK
<1>5. BufferInv'
  BY <1>1, <1>4 DEF BufferInv, Continuing, isrVars
<1> QED BY <1>1, <1>2, <1>3, <1>5 DEF isrVars

-----------------------------------------------------------------------------
(***************************************************************************)
(* No accepted message is lost.                                            *)
(***************************************************************************)

\* A substate being handled is not accepted again before it is popped.
OwedInv ==
  /\ AcceptedIsQueued
  /\ main # "loop" /\ handling = "SUBSTATE" => "SUBSTATE" \notin owed

\* There are as many slots as messages, so that a push replaces none
\* (statedevice_buffer.c:34-40).
LEMMA PushKeeps ==
  ASSUME NEW t \in Message, NEW m \in Message, UniqueList(queue), push(t),
         queue \in [0 .. 2 -> Message \cup {"NONE"}],
         exists(m)
  PROVE  exists(m)'
<1>1. PICK i \in 0 .. 2 :
        /\ i = 2 \/ queue[i] \in {"NONE", t}
        /\ \A j \in 0 .. (i - 1) : queue[j] \notin {"NONE", t}
        /\ queue' = [queue EXCEPT ![i] = t]
  BY DEF push
<1>2. PICK k \in 0 .. 2 : queue[k] = m
  BY DEF exists
<1>3. CASE i \in {0, 1}
  BY <1>1, <1>2, <1>3 DEF exists
<1>4. CASE i = 2
  BY <1>1, <1>2, <1>4 DEF exists, UniqueList
<1> QED BY <1>3, <1>4

LEMMA OwedLastByte ==
  ASSUME IInv, OwedInv, NEW b \in Input, LastByte(b)
  PROVE  OwedInv'
<1> USE DEF IInv
<1>1. /\ UNCHANGED <<main, handling>> /\ UniqueList(queue)
      /\ queue \in [0 .. 2 -> Message \cup {"NONE"}] /\ owed \in SUBSET Message
      /\ main \in {"loop", "disable", "handler"}
  BY ReceiveFacts DEF LastByte, QueueInv, TypeOK
<1>2. CASE UNCHANGED <<queue, owed>>
  BY <1>1, <1>2 DEF OwedInv, AcceptedIsQueued, Popping, exists
<1>3. ASSUME NEW t \in Message, t = MessageOf(type), push(t),
             owed' = owed \cup {t}
      PROVE  OwedInv'
  <2>1. \A m \in Message : exists(m) => exists(m)'
    BY <1>1, <1>3, PushKeeps
  <2>2. exists(t)'
    BY <1>1, <1>3, PushFacts DEF exists
  <2>3. AcceptedIsQueued'
    BY <1>1, <1>3, <2>1, <2>2 DEF OwedInv, AcceptedIsQueued, Popping
  <2>4. main # "loop" /\ handling = "SUBSTATE" => t # "SUBSTATE"
    <3>1. SUFFICES ASSUME main # "loop", handling = "SUBSTATE" PROVE type # 1
      BY <1>3 DEF MessageOf, TypeOK
    <3>2. exists("SUBSTATE")
      BY <1>1, <3>1 DEF QueueInv, exists
    <3> QED BY <3>2 DEF LastByte, BufferInv
  <2> QED BY <1>1, <1>3, <2>3, <2>4 DEF OwedInv
<1>4. MessageOf(type) # "NONE" => MessageOf(type) \in Message
  BY DEF MessageOf
<1> QED BY <1>2, <1>3, <1>4 DEF LastByte

LEMMA OwedMain ==
  ASSUME IInv, OwedInv, MainLoop
  PROVE  OwedInv'
<1> USE DEF IInv, OwedInv, AcceptedIsQueued, Popping, exists
<1>1. queue \in [0 .. 2 -> Message \cup {"NONE"}] /\ owed \in SUBSET Message
  BY DEF TypeOK
<1>2. CASE Look
  BY <1>1, <1>2 DEF Look, StartHandler
<1>3. CASE DisableRx
  BY <1>1, <1>3 DEF DisableRx
<1>4. CASE Shift0
  BY <1>1, <1>4 DEF Shift0, QueueInv
<1>5. CASE Shift1
  BY <1>1, <1>5 DEF Shift1, QueueInv
<1>6. CASE Shift2
  BY <1>1, <1>6 DEF Shift2, QueueInv
<1>7. CASE EnableRx
  <2>1. main = "enable" /\ UNCHANGED <<queue, handling>>
    BY <1>7 DEF EnableRx
  <2>2. CASE handling = "SUBSTATE"
    <3>1. owed' = owed /\ main' = "loop" /\ handling \notin owed
      BY <1>7, <2>1, <2>2 DEF EnableRx
    <3>2. \A m \in owed' : \E i \in 0 .. 2 : queue'[i] = m
      BY <2>1, <3>1
    <3> QED BY <3>1, <3>2
  <2>3. CASE handling # "SUBSTATE"
    <3>1. owed' = owed \ {handling} /\ main' = "handler"
      BY <1>7, <2>3 DEF EnableRx, StartHandler
    <3>2. \A m \in owed' : \E i \in 0 .. 2 : queue'[i] = m
      BY <2>1, <3>1
    <3> QED BY <2>1, <2>3, <3>1, <3>2
  <2> QED BY <2>2, <2>3
<1>8. CASE HandlerReturns
  BY <1>1, <1>8 DEF HandlerReturns
<1> QED BY <1>2, <1>3, <1>4, <1>5, <1>6, <1>7, <1>8 DEF MainLoop

-----------------------------------------------------------------------------
(***************************************************************************)
(* Theorems.                                                               *)
(***************************************************************************)

\* The inductive invariant (statedevice_buffer.c:33-150).
THEOREM PurtInvariantHolds == Safety => []IInv
<1>1. ASSUME Init PROVE IInv
  <2> USE <1>1
  <2>1. rxEnabled \in BOOLEAN /\ drop \in BOOLEAN
    BY DEF Init
  <2>2. TypeOK
    BY <2>1 DEF Init, TypeOK
  <2>3. QueueInv
    BY DEF Init, QueueInv, UniqueList
  <2>4. FrameInv /\ BufferInv
    BY DEF Init, FrameInv, BufferInv, WritesFit, Continuing
  <2> QED BY <2>2, <2>3, <2>4 DEF IInv
<1>2. IInv /\ [Next]_vars => IInv'
  BY ByteStep, LastByteStep, MainLoopStep DEF Next, Interrupt
<1> QED BY <1>1, <1>2, PTL DEF Safety

\* Type correctness: in particular the write offset stays in the buffer
\* (statedevice_buffer.c:95, 141).
THEOREM PurtTypeCorrect == Safety => []TypeOK
<1>1. IInv => TypeOK
  BY DEF IInv
<1> QED BY <1>1, PurtInvariantHolds, PTL

\* The queue is a list of distinct messages whose head is the one the main
\* loop works on, although the interrupt pushes between any two of its stores
\* (statedevice_buffer.c:24-50).
THEOREM QueueStaysUniqueList == Safety => []QueueIsUniqueList
<1>1. IInv => QueueIsUniqueList
  BY DEF IInv, QueueInv, UniqueList, QueueIsUniqueList
<1> QED BY <1>1, PurtInvariantHolds, PTL

\* M NULs bring the parser back between datagrams from any state it can be in
\* (ArdPort.cpp:45).
THEOREM NulsResynchronise == Safety => []NulRunEndsDatagram
<1>1. IInv => NulRunEndsDatagram
  BY DEF IInv, TypeOK, FrameInv, NulRunEndsDatagram
<1> QED BY <1>1, PurtInvariantHolds, PTL

\* A message byte always fits the buffer (statedevice_buffer.c:95, 141).
THEOREM WritesAlwaysFit == Safety => []WritesFit
<1>1. IInv => WritesFit
  BY DEF IInv, FrameInv
<1> QED BY <1>1, PurtInvariantHolds, PTL

\* Every accepted message stays queued until its handler starts
\* (statedevice_buffer.c:34-46, 63-87).
THEOREM AcceptedStaysQueued == Safety => []AcceptedIsQueued
<1>1. Init => OwedInv
  BY DEF Init, OwedInv, AcceptedIsQueued
<1>2. IInv /\ OwedInv /\ [Next]_vars => OwedInv'
  <2>1. ASSUME IInv, OwedInv, NEW b \in Input,
               Interstitial(b) \/ SizeByte(b) \/ TypeByte(b) \/ DroppedByte(b)
               \/ MessageByte(b)
        PROVE  OwedInv'
    <3>1. UNCHANGED <<mainVars, owed>>
      BY <2>1 DEF Interstitial, SizeByte, TypeByte, DroppedByte, MessageByte
    <3> QED BY <2>1, <3>1 DEF OwedInv, AcceptedIsQueued, Popping, exists, mainVars
  <2>2. IInv /\ OwedInv /\ UNCHANGED vars => OwedInv'
    BY DEF OwedInv, AcceptedIsQueued, Popping, exists, vars, mainVars
  <2> QED BY <2>1, <2>2, OwedLastByte, OwedMain DEF Next, Interrupt
<1>3. OwedInv => AcceptedIsQueued
  BY DEF OwedInv
<1> QED BY <1>1, <1>2, <1>3, PurtInvariantHolds, PTL DEF Safety

\* The substate given to onSubstate() does not change under it
\* (statedevice_buffer.c:107-116).
THEOREM BufferStaysStable == Safety => BufferIsStable
<1>1. ASSUME IInv, [Next]_vars
      PROVE  [exists("SUBSTATE") /\ exists("SUBSTATE")'
                => UNCHANGED <<buffer, substate>>]_vars
  <2>1. CASE MainLoop \/ UNCHANGED vars
    BY <1>1, <2>1, MainLoopStep
  <2>2. ASSUME NEW b \in Input, LastByte(b), exists("SUBSTATE")
        PROVE  UNCHANGED <<buffer, substate>>
    <3>1. type # 1
      BY <1>1, <2>2 DEF LastByte, IInv, BufferInv
    <3>2. MessageOf(type) # "SUBSTATE"
      BY <3>1, <1>1 DEF MessageOf, IInv, TypeOK
    <3> QED BY <2>2, <3>2 DEF LastByte
  <2>3. ASSUME NEW b \in Input, MessageByte(b), exists("SUBSTATE")
        PROVE  FALSE
    BY <1>1, <2>3 DEF MessageByte, IInv, BufferInv
  <2>4. ASSUME NEW b \in Input,
               Interstitial(b) \/ SizeByte(b) \/ TypeByte(b) \/ DroppedByte(b)
        PROVE  UNCHANGED <<buffer, substate>>
    BY <2>4 DEF Interstitial, SizeByte, TypeByte, DroppedByte
  <2> QED BY <1>1, <2>1, <2>2, <2>3, <2>4 DEF Next, Interrupt
<1> QED BY <1>1, PurtInvariantHolds, PTL DEF Safety, BufferIsStable
=============================================================================
