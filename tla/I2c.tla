-------------------------------- MODULE I2c --------------------------------
(***************************************************************************)
(* The I2C driver of the compass board (avr/compass_gyro/ardlib/i2c.c): a  *)
(* processor's TWI interface as master and as slave.  The program either   *)
(* uses the functions that wait for the interface with its interrupt off   *)
(* (..NI, as cmps03.c does), or those served by the interrupt, and then it *)
(* may also be addressed by another master.                                *)
(*                                                                         *)
(* A register write that sets TWINT hands the interface a command; it      *)
(* answers with a status and TWINT (external).  The interrupt routine is   *)
(* one step and comes before the program's next one.  A byte is its place  *)
(* in the transfer, BufferSize more if it is received.                     *)
(***************************************************************************)
EXTENDS Naturals, SequencesExt

CONSTANTS
  BufferSize,       \* I2C_SEND_DATA_BUFFER_SIZE, I2C_RECEIVE_DATA_BUFFER_SIZE
  MaxLength,        \* of one transfer of the program
  MaxNoise          \* bound: faults, and other masters, in a run

ASSUME BufferAssumption == BufferSize \in Nat \ {0} /\ MaxLength \in 1 .. BufferSize /\ MaxNoise \in Nat

VARIABLES
  waits,            \* the program uses the ..NI functions
  call, step,       \* the running function, or "none", and where it stands
  data,             \* its buffer: to be sent, or received so far
  want,             \* its length argument
  retval,
  I2cState, rw,     \* rw: the lowest bit of I2cDeviceAddrRW, 1 to read
  I2cSendData, I2cSendDataIndex, I2cSendDataLength,
  I2cReceiveData, I2cReceiveDataIndex, I2cReceiveDataLength,
  twint, twea, twie, \* bits of TWCR
  command,          \* the last one written to it, until it is carried out
  bus,              \* what the interface is on the bus
  status, twdr,     \* TWSR, TWDR
  asked,            \* history: the data of the last send, while nothing disturbs it
  moved,            \* history: bytes the device took or gave since the START; not
                    \* kept of a disturbed transfer of the interrupt's
  disturbed,        \* history: a fault, or addressed as a slave, since then
  noise,            \* count of those
  stuck             \* history: one of the two ways not to come back (Refuse, StopDone)

callVars == <<call, step, data, want, retval>>
sendVars == <<I2cSendData, I2cSendDataIndex, I2cSendDataLength>>
receiveVars == <<I2cReceiveData, I2cReceiveDataIndex, I2cReceiveDataLength>>
driverVars == <<I2cState, rw, sendVars, receiveVars>>
registers == <<twint, twea, twie, command, status>>
history == <<asked, moved, disturbed, noise, stuck>>
busVars == <<bus, history>>
i2cVars == <<waits, callVars, driverVars, registers, twdr, busVars>>

Waiting == {"i2cMasterSendNI", "i2cMasterReceiveNI"}
Interrupting == {"i2cMasterSend", "i2cMasterReceive"}
Sending == {"i2cMasterSend", "i2cMasterSendNI"}

I2cInit ==
  /\ waits \in BOOLEAN
  /\ call = "none" /\ step = "out" /\ data = <<>> /\ want = 0 /\ retval = "I2C_OK"
  /\ I2cState = "I2C_IDLE" /\ rw = 0
  /\ I2cSendData = [i \in 1 .. BufferSize |-> 0] /\ I2cSendDataIndex = 0 /\ I2cSendDataLength = 0
  /\ I2cReceiveData = [i \in 1 .. BufferSize |-> 0]
  /\ I2cReceiveDataIndex = 0 /\ I2cReceiveDataLength = 0
  /\ twint = FALSE /\ twea = TRUE /\ twie = TRUE /\ command = "none"
  /\ bus = "free" /\ status = "TW_NO_INFO" /\ twdr = 0
  /\ asked = <<>> /\ moved = <<>> /\ disturbed = FALSE /\ noise = 0 /\ stuck = FALSE

-----------------------------------------------------------------------------
(* Writing TWCR: whatever is not set is cleared, a START not yet sent too; *)
(* with TWINT the status goes.                                             *)

Command(c, ea) == command' = c /\ twea' = ea /\ twint' = FALSE /\ status' = "TW_NO_INFO"
i2cSendStart == Command("start", FALSE) /\ UNCHANGED twdr
i2cSendStop == Command("stop", TRUE) /\ UNCHANGED twdr
i2cSendByte(b) == Command("byte", FALSE) /\ twdr' = b
i2cReceiveByte(ackFlag) == Command("receive", ackFlag) /\ UNCHANGED twdr
Listen == Command("none", TRUE) /\ UNCHANGED twdr
Release == Command("none", FALSE) /\ UNCHANGED twdr

-----------------------------------------------------------------------------
(* The program.                                                            *)

Runs == ~(twint /\ twie)        \* no interrupt of the interface is due
Stands(f, s) == Runs /\ call = f /\ step = s
To(s) == step' = s /\ UNCHANGED <<call, want>>
Unregistered == UNCHANGED <<registers, twdr>>

Begin(f, s) ==
  /\ Runs /\ call = "none"
  /\ call' = f /\ step' = s
  /\ want' \in 1 .. MaxLength
  /\ data' \in IF f \in Sending THEN {[i \in 1 .. want' |-> i]} ELSE {<<>>}
  /\ retval' = "I2C_OK"
  /\ UNCHANGED <<waits, driverVars, registers, twdr, busVars>>

(* An interrupt driven function: while(I2cState), and then the claim.      *)
Call(f) == ~waits /\ f \in Interrupting /\ Begin(f, "spin")

Spin ==
  /\ Stands(call, "spin") /\ I2cState = "I2C_IDLE"
  /\ To("claim")
  /\ UNCHANGED <<waits, data, retval, driverVars, registers, twdr, busVars>>

(* What the new transfer finds on the bus: another master's, or the rest   *)
(* of a disturbed one.                                                     *)
Taken == \/ bus \in {"SR", "ST"}
         \/ disturbed /\ (command = "start" \/ (bus # "free" /\ command # "stop"))

ClaimSend ==
  /\ Stands("i2cMasterSend", "claim")
  /\ To("start")
  /\ I2cState' = "I2C_MASTER_TX" /\ rw' = 0
  /\ I2cSendData' = [i \in 1 .. BufferSize |-> IF i <= want THEN data[i] ELSE I2cSendData[i]]
  /\ I2cSendDataIndex' = 0 /\ I2cSendDataLength' = want
  /\ disturbed' = Taken /\ asked' = IF Taken THEN <<>> ELSE data
  /\ UNCHANGED <<waits, data, retval, receiveVars, registers, twdr, bus, moved, noise, stuck>>

ClaimReceive ==
  /\ Stands("i2cMasterReceive", "claim")
  /\ To("start")
  /\ I2cState' = "I2C_MASTER_RX" /\ rw' = 1
  /\ I2cReceiveDataIndex' = 0 /\ I2cReceiveDataLength' = want
  /\ asked' = <<>> /\ disturbed' = Taken
  /\ UNCHANGED <<waits, data, retval, sendVars, I2cReceiveData, registers, twdr,
                 bus, moved, noise, stuck>>

StartIt ==
  /\ call \in Interrupting /\ Stands(call, "start")
  /\ To(IF call \in Sending THEN "returned" ELSE "wait")
  /\ i2cSendStart /\ UNCHANGED twie
  /\ stuck' = (stuck \/ (bus # "free" /\ command # "stop"))
  /\ UNCHANGED <<waits, data, retval, driverVars, bus, asked, moved, disturbed, noise>>

TakeData ==
  /\ Stands("i2cMasterReceive", "wait") /\ I2cState = "I2C_IDLE"
  /\ To("returned")
  /\ data' = SubSeq(I2cReceiveData, 1, want)
  /\ UNCHANGED <<waits, retval, driverVars, registers, twdr, busVars>>

(* A function that waits: the interrupt off, START, the address, the data. *)
CallNI(f) == waits /\ f \in Waiting /\ Begin(f, "start")

Awaited == twint                 \* i2cWaitForComplete()

NIStart ==
  /\ call \in Waiting /\ Stands(call, "start")
  /\ To("address")
  /\ twie' = FALSE /\ i2cSendStart
  /\ asked' = data /\ disturbed' = FALSE
  /\ UNCHANGED <<waits, data, retval, driverVars, bus, moved, noise, stuck>>

NIAddress ==
  /\ Stands(call, "address") /\ Awaited
  /\ To("check")
  /\ i2cSendByte(IF call \in Sending THEN 0 ELSE 1) /\ UNCHANGED twie
  /\ UNCHANGED <<waits, data, retval, driverVars, busVars>>

(* The next byte, or the stop: `taken` bytes are done.                     *)
SendNext(taken) ==
  IF taken < want THEN i2cSendByte(data[taken + 1]) /\ To("sending")
                  ELSE i2cSendStop /\ To("stopping")
ReceiveNext(taken) == i2cReceiveByte(want - taken > 1) /\ To("receiving")

NICheck ==
  /\ Stands(call, "check") /\ Awaited
  /\ CASE status = "TW_MT_SLA_ACK" /\ call \in Sending -> SendNext(0) /\ UNCHANGED retval
       [] status = "TW_MR_SLA_ACK" /\ call \notin Sending -> ReceiveNext(0) /\ UNCHANGED retval
       [] OTHER -> /\ retval' = "I2C_ERROR_NODEV"
                   /\ i2cSendStop
                   /\ To(IF call \in Sending THEN "stopping" ELSE "enable")
  /\ UNCHANGED <<waits, twie, data, driverVars, busVars>>

(* Bug, for the mutants: the last byte is left out.                        *)
Bug_NISendMore ==
  /\ Stands(call, "sending") /\ Awaited
  /\ SendNext(Len(moved) + 1)
  /\ UNCHANGED <<waits, twie, data, retval, driverVars, busVars>>

NISendMore ==
  /\ Stands(call, "sending") /\ Awaited
  /\ SendNext(Len(moved))
  /\ UNCHANGED <<waits, twie, data, retval, driverVars, busVars>>

NIReceiveMore ==
  /\ Stands(call, "receiving") /\ Awaited
  /\ data' = Append(data, twdr)
  /\ IF Len(data') < want THEN ReceiveNext(Len(data'))
                          ELSE i2cSendStop /\ To("enable")
  /\ UNCHANGED <<waits, twie, retval, driverVars, busVars>>

(* while( !(TWCR & BV(TWSTO)) ): until the bit is seen SET.                *)
NIStopping ==
  /\ Stands(call, "stopping") /\ command = "stop"
  /\ To("enable")
  /\ UNCHANGED <<waits, data, retval, driverVars, registers, twdr, busVars>>

NIEnable ==
  /\ Stands(call, "enable")
  /\ To("returned")
  /\ twie' = TRUE
  /\ UNCHANGED <<waits, data, retval, driverVars, twint, twea, command, status, twdr, busVars>>

Return ==
  /\ Stands(call, "returned")
  /\ call' = "none" /\ step' = "out" /\ data' = <<>> /\ want' = 0 /\ retval' = "I2C_OK"
  /\ UNCHANGED <<waits, driverVars, registers, twdr, busVars>>

Program == Spin \/ ClaimSend \/ ClaimReceive \/ StartIt \/ TakeData
           \/ NIStart \/ NIAddress \/ NICheck \/ NISendMore \/ NIReceiveMore
           \/ NIStopping \/ NIEnable \/ Return

-----------------------------------------------------------------------------
(* SIGNAL(SIG_2WIRE_SERIAL), one action for each arm of its switch.        *)

Isr(statuses) ==
  /\ twint /\ twie /\ status \in statuses
  /\ UNCHANGED <<waits, callVars, twie, busVars, rw, I2cReceiveDataLength>>

IsrStarted ==
  /\ Isr({"TW_START", "TW_REP_START"})
  /\ i2cSendByte(rw)
  /\ UNCHANGED <<I2cState, sendVars, I2cReceiveData, I2cReceiveDataIndex>>

IsrTransmit ==
  /\ Isr({"TW_MT_SLA_ACK", "TW_MT_DATA_ACK"})
  /\ IF I2cSendDataIndex < I2cSendDataLength
       THEN /\ i2cSendByte(I2cSendData[I2cSendDataIndex + 1])
            /\ I2cSendDataIndex' = I2cSendDataIndex + 1 /\ UNCHANGED I2cState
       ELSE i2cSendStop /\ I2cState' = "I2C_IDLE" /\ UNCHANGED I2cSendDataIndex
  /\ UNCHANGED <<I2cSendData, I2cSendDataLength, I2cReceiveData, I2cReceiveDataIndex>>

(* A store past the end of the array changes none of these variables.      *)
StoreByte ==
  /\ I2cReceiveData' = [i \in 1 .. BufferSize |->
                          IF i = I2cReceiveDataIndex + 1 THEN twdr ELSE I2cReceiveData[i]]
  /\ I2cReceiveDataIndex' = I2cReceiveDataIndex + 1
NoStore == UNCHANGED <<I2cReceiveData, I2cReceiveDataIndex>>

(* Bug, for the mutants: a refused byte leaves the state as it is.         *)
Bug_IsrLast ==
  /\ Isr({"TW_MR_DATA_NACK", "TW_MR_SLA_NACK", "TW_MT_SLA_NACK", "TW_MT_DATA_NACK"})
  /\ IF status = "TW_MR_DATA_NACK" THEN StoreByte ELSE NoStore
  /\ i2cSendStop
  /\ I2cState' = IF status = "TW_MT_DATA_NACK" THEN I2cState ELSE "I2C_IDLE"
  /\ UNCHANGED sendVars

IsrLast ==
  /\ Isr({"TW_MR_DATA_NACK", "TW_MR_SLA_NACK", "TW_MT_SLA_NACK", "TW_MT_DATA_NACK"})
  /\ IF status = "TW_MR_DATA_NACK" THEN StoreByte ELSE NoStore
  /\ i2cSendStop /\ I2cState' = "I2C_IDLE"
  /\ UNCHANGED sendVars

IsrArbitrationLost ==
  /\ Isr({"TW_MT_ARB_LOST"})
  /\ Release /\ I2cState' = "I2C_IDLE"
  /\ NoStore /\ UNCHANGED sendVars

IsrReceive ==
  /\ Isr({"TW_MR_DATA_ACK", "TW_MR_SLA_ACK"})
  /\ IF status = "TW_MR_DATA_ACK" THEN StoreByte ELSE NoStore
  /\ i2cReceiveByte(I2cReceiveDataIndex' + 1 < I2cReceiveDataLength)
  /\ UNCHANGED <<I2cState, sendVars>>

IsrSlaveWritten ==
  /\ Isr({"TW_SR_SLA_ACK"})
  /\ I2cState' = "I2C_SLAVE_RX" /\ I2cReceiveDataIndex' = 0
  /\ i2cReceiveByte(TRUE)
  /\ UNCHANGED <<I2cReceiveData, sendVars>>

IsrSlaveData ==
  /\ Isr({"TW_SR_DATA_ACK"})
  /\ StoreByte
  /\ i2cReceiveByte(I2cReceiveDataIndex' < BufferSize)
  /\ UNCHANGED <<I2cState, sendVars>>

(* The byte is refused, and the state is left as it was.                   *)
IsrSlaveRefused ==
  /\ Isr({"TW_SR_DATA_NACK"})
  /\ i2cReceiveByte(FALSE)
  /\ NoStore /\ UNCHANGED <<I2cState, sendVars>>

IsrSlaveOver ==
  /\ Isr({"TW_SR_STOP", "TW_ST_DATA_NACK", "TW_ST_LAST_DATA"})
  /\ Listen /\ I2cState' = "I2C_IDLE"
  /\ NoStore /\ UNCHANGED sendVars

(* No handler is registered: what is in the buffer is sent.                *)
IsrSlaveRead ==
  /\ Isr({"TW_ST_SLA_ACK", "TW_ST_DATA_ACK"})
  /\ LET at == IF status = "TW_ST_SLA_ACK" THEN 0 ELSE I2cSendDataIndex IN
       /\ Command("slave", at + 1 < I2cSendDataLength)
       /\ at < BufferSize /\ twdr' = I2cSendData[at + 1]
       /\ I2cSendDataIndex' = at + 1
  /\ I2cState' = IF status = "TW_ST_SLA_ACK" THEN "I2C_SLAVE_TX" ELSE I2cState
  /\ NoStore /\ UNCHANGED <<I2cSendData, I2cSendDataLength>>

IsrBusError ==
  /\ Isr({"TW_BUS_ERROR"})
  /\ i2cSendStop /\ I2cState' = "I2C_IDLE"
  /\ NoStore /\ UNCHANGED sendVars

TwiInterrupt == IsrStarted \/ IsrTransmit \/ IsrLast \/ IsrArbitrationLost \/ IsrReceive
             \/ IsrSlaveWritten \/ IsrSlaveData \/ IsrSlaveRefused \/ IsrSlaveOver
             \/ IsrSlaveRead \/ IsrBusError

-----------------------------------------------------------------------------
(* The interface and the bus (external).  A program that waits is alone on *)
(* the bus with its device; otherwise there are other masters, and noise.  *)

Quiet == ~twint /\ UNCHANGED <<waits, callVars, driverVars, twie>>
Wire == Quiet /\ UNCHANGED noise
Noisy == ~waits /\ Quiet /\ noise < MaxNoise /\ noise' = noise + 1
Report(s) == status' = s /\ twint' = TRUE /\ command' = "none" /\ UNCHANGED twea
Moved(b) == IF disturbed /\ ~waits THEN <<>> ELSE Append(moved, b)
Fault(f) == /\ disturbed' = (disturbed \/ f)
            /\ asked' = IF f THEN <<>> ELSE asked
            /\ UNCHANGED stuck

StartDone ==
  /\ Wire /\ command = "start" /\ bus \in {"free", "MT", "MR"}
  /\ \E s \in {"TW_START"} \cup (IF bus = "free" THEN {} ELSE {"TW_REP_START"}) : Report(s)
  /\ bus' = "started" /\ moved' = <<>> /\ Fault(FALSE) /\ UNCHANGED twdr

AddressDone ==
  /\ Wire /\ command = "byte" /\ bus = "started"
  /\ \E ack \in BOOLEAN :
       /\ Report(IF twdr = 0 THEN IF ack THEN "TW_MT_SLA_ACK" ELSE "TW_MT_SLA_NACK"
                               ELSE IF ack THEN "TW_MR_SLA_ACK" ELSE "TW_MR_SLA_NACK")
       /\ Fault(~ack)
  /\ bus' = IF twdr = 0 THEN "MT" ELSE "MR"
  /\ UNCHANGED <<moved, twdr>>

ByteSent ==
  /\ Wire /\ command = "byte" /\ bus = "MT"
  /\ moved' = Moved(twdr)
  /\ \E ack \in BOOLEAN : Report(IF ack THEN "TW_MT_DATA_ACK" ELSE "TW_MT_DATA_NACK") /\ Fault(~ack)
  /\ UNCHANGED <<bus, twdr>>

ByteReceived ==
  /\ Wire /\ command = "receive" /\ bus = "MR"
  /\ twdr' = BufferSize + Len(moved) + 1
  /\ moved' = Moved(twdr')
  /\ Report(IF twea THEN "TW_MR_DATA_ACK" ELSE "TW_MR_DATA_NACK")
  /\ Fault(FALSE) /\ UNCHANGED bus

(* TWSTO goes out by itself.  If the program comes to look only now,       *)
(* another interrupt having held it, it looks for ever.                    *)
StopDone ==
  /\ Wire /\ command = "stop"
  /\ command' = "none" /\ bus' = "free"
  /\ stuck' = (stuck \/ step = "stopping")
  /\ UNCHANGED <<twint, twea, status, twdr, asked, moved, disturbed>>

ArbitrationLost ==
  /\ Noisy /\ command = "byte" /\ bus \in {"started", "MT"}
  /\ Report("TW_MT_ARB_LOST")
  /\ bus' = "free" /\ Fault(TRUE) /\ UNCHANGED <<moved, twdr>>

BusError ==
  /\ Noisy /\ bus # "free"
  /\ Report("TW_BUS_ERROR")
  /\ bus' = "free" /\ Fault(TRUE) /\ UNCHANGED <<moved, twdr>>

Addressed ==
  /\ Noisy /\ bus = "free" /\ twea /\ command = "none"
  /\ \/ Report("TW_SR_SLA_ACK") /\ bus' = "SR"
     \/ Report("TW_ST_SLA_ACK") /\ bus' = "ST"
  /\ Fault(TRUE) /\ UNCHANGED <<moved, twdr>>

(* What the other master writes is kept as 0: no one reads it.             *)
Written ==
  /\ Wire /\ bus = "SR"
  /\ twdr' = 0
  /\ Report(IF twea THEN "TW_SR_DATA_ACK" ELSE "TW_SR_DATA_NACK")
  /\ bus' = IF twea THEN "SR" ELSE "free"
  /\ stuck' = (stuck \/ ~twea)
  /\ UNCHANGED <<asked, moved, disturbed>>

WrittenStop ==
  /\ Wire /\ bus = "SR"
  /\ Report("TW_SR_STOP")
  /\ bus' = "free" /\ Fault(FALSE) /\ UNCHANGED <<moved, twdr>>

Read ==
  /\ Wire /\ bus = "ST"
  /\ \/ twea /\ Report("TW_ST_DATA_ACK") /\ UNCHANGED bus
     \/ Report("TW_ST_DATA_NACK") /\ bus' = "free"
     \/ ~twea /\ Report("TW_ST_LAST_DATA") /\ bus' = "free"
  /\ Fault(FALSE) /\ UNCHANGED <<moved, twdr>>

MasterDone == StartDone \/ AddressDone \/ ByteSent \/ ByteReceived \/ StopDone
SlaveDone == Written \/ WrittenStop \/ Read
Noise == ArbitrationLost \/ BusError \/ Addressed

(* A driver that is stuck is not followed further.                         *)
I2cNext ==
  /\ ~stuck
  /\ \/ \E f \in Interrupting : Call(f)
     \/ \E f \in Waiting : CallNI(f)
     \/ Program \/ TwiInterrupt \/ MasterDone \/ SlaveDone \/ Noise

(* The interface carries out its commands and the other master goes on.    *)
(* The processor takes a step of the program after each interrupt, and a   *)
(* spinning one sees the idle state if it comes again and again.           *)
I2cFairness ==
  /\ SF_i2cVars(~stuck /\ Program) /\ WF_i2cVars(~stuck /\ TwiInterrupt)
  /\ WF_i2cVars(~stuck /\ MasterDone) /\ WF_i2cVars(~stuck /\ SlaveDone)

I2cSpec == I2cInit /\ [][I2cNext]_i2cVars /\ I2cFairness

-----------------------------------------------------------------------------
(* Properties.                                                             *)

(* A transfer that nothing disturbed moved exactly what was asked for: an  *)
(* interrupt driven send by the time the driver is idle again, though the  *)
(* caller and the interrupt share the buffer, its index and the state; a   *)
(* receive, and the functions that wait, by the time they return; and a    *)
(* device reported missing was sent nothing.                               *)
Transferred ==
  /\ ~waits /\ I2cState = "I2C_IDLE" /\ asked # <<>> => moved = asked
  /\ step = "returned" /\ call = "i2cMasterReceive" /\ ~disturbed => data = moved
  /\ step = "returned" /\ call \in Waiting =>
       /\ ~disturbed => retval = "I2C_OK" /\ moved = data /\ Len(data) = want
       /\ retval = "I2C_ERROR_NODEV" => moved = <<>>

(* Every call comes back, whatever the device, the other masters and the   *)
(* noise do, except in the two ways to be stuck: another master wrote      *)
(* more than the receive buffer holds, or caught the program between its   *)
(* look at I2cState and its START (the byte is refused and I2cState stays  *)
(* as it is, :446-451); or the stop was over before i2cMasterSendNI()      *)
(* looked for it (:237).                                                   *)
CallsReturn == call # "none" ~> step = "returned" \/ stuck
=============================================================================
