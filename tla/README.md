# TLA+ models of Trinidad and its robot toolkit

Trinidad is an autonomous robot. A Linux host runs `x86/trinidad2` on top of the
**URT** library (`lib/URT`); AVR microcontrollers with sensors and switches run
firmware on top of **PURT** (`lib/PURT`) or the older **MiniURT** (`lib/MiniURT`)
and talk to the host over serial lines. This directory models the parts whose
correctness depends on the order in which things happen, checks them with TLC and
proves the most important results with TLAPS.

## 1. Inventory

### Host

| Component | State it keeps | Operations | Interacts with |
|---|---|---|---|
| `EventLoop` | the vectors `fds`, `fdsources`; `deleteQueue` (indices), `addQueue`; `running`; `timeLastInterval`, `adjustedTimeout` | `run`, `add`, `remove`, `has`, interval signal | calls `onActivity()` of every source and the interval slots, which call back into `add`/`remove` |
| `State` | a map from key to value, signal and `signalOnTouch` | `set`, `get`, `registerSlot` | calls slots inside `set`; slots may set, send or throw |
| `StateDevice` on `ArdPort` on `SerialPort` | application type, UID, the line | handshake, datagrams 0x00 (set), 0x01 (ask), 0x02 (register), `poll` | `State`, the firmware |
| `StateSocket`, `SocketServer` | connections, a shared receive buffer | set, ask, accept | `State`, `EventLoop::add` |
| `Timer`, `SlottedTimer`, `Watchdog2` | kernel timer, pipe, detached threads, `m_ignoreSubstateReset` | `start`, `stop`, `reset`, expiry, `onActivity`, `onTrip` | `State` slots, event loop, kernel threads |
| `Watchdog` (deprecated) | `lastCheckIn`, `hasTimedout`, `resetsEnabled` | `reset`, `check`, `onTimeout` | interval signal, `State` slots |
| `DeviceManager`, `HotDeviceManager` | directories, failed paths, inotify watches | `execute`, `onActivity` | construct `StateDevice`s, `EventLoop::add` |
| `Ax3500` | queue of expected answers | speeds, watchdog, battery, reset | `State` slots, serial line |
| `main`, `deadman()` | saved drive and steer values | start-up; stop and resume | `State::set` inside a slot |
| `AutoPilot` | state, waypoint, clocks, avoidance mode | `realize()` on every interval | `State`, camera |
| `ExternalProgram` | a socket pair, the child's pid | creation, hang-up, destruction | child process, event loop |
| camera, parameters, `utilities` | capture handle; – | a heading from a picture; waypoints from a file; angles | `AutoPilot` |
| `Log`, `SerLCD`, `LMSensors`, screen | – | output, sensors of the PC | – |

### Firmware

| Component | State it keeps | Operations | Interacts with |
|---|---|---|---|
| PURT buffered mode | three-slot queue, parser state, 253-byte buffer | receive interrupt, `process_message` | handlers of the application; the interrupt preempts the main loop |
| PURT direct, raw and datagram layer | the last datagram | blocking receive and send | – |
| MiniURT | `receivedPoll`, parser state | receive interrupt, `polled` | application in the main loop or *inside* the interrupt |
| `sonicbump` | distance window and sum | ADC and edge interrupts, `onPoll` | interrupts transmit on the same UART as the main loop |
| `gps` | a line buffer | bit-banged serial, cutting into fields | the host's parsing |
| `compass_gyro` with `ardlib` | state, buffers and indices of the two-wire driver | interrupt, calls that wait, calls that do not | other masters and devices of the bus |

### What is hard, and what makes it correct

* **Event loop.** Clients change the set of sources while the loop iterates over it.
  Correct when queued indices keep denoting what they denoted, only what asked to go
  is erased, and every accepted request is carried out.
* **Interval slots.** Truncating arithmetic on two timespecs decides when they run,
  while activity keeps cutting `poll()` short. Correct when they run on time and again
  and again.
* **PURT buffered mode.** An interrupt parses into a buffer that the main loop is using
  and pushes on a queue it is popping; bytes get lost. Correct when nothing accepted is
  lost, nothing in use is overwritten, no write leaves the buffer and noise cannot
  wedge the parser.
* **Timer and Watchdog2.** A kernel timer, its threads, a pipe and the loop race with
  check-ins, and the trip handler may check in itself. Correct when every silence trips,
  once.
* **State and its listeners.** A set runs other objects' code in the setter's handler,
  exceptions included. Correct when listeners stay in step and failures stay with whoever
  failed.
* **The robot.** `deadman()` runs inside whatever set the switch's substate, saves and
  replays motor values, and stops the autopilot but not its clocks; some of the
  autopilot's states catch every exception and others none. Correct when the motors stand
  while the switch is released and after the course, distances are real, no state is a trap
  and no report of a sensor ends the program.
* **Links.** The two ends may differ in speed and in where they believe datagrams begin;
  answers come late; boards come and go while constructors wait for others. Correct when a
  timely board is used, once, in step, and kept, and the motor commands reach the motors.
* **Motor controller.** Answers are matched by order alone, its own watchdog stops the
  motors and speaks up in between, one thread serves it and everything else. Correct when
  the motors turn as their keys say.
* **Firmware.** Interrupts transmit in the middle of the main loop's work, share buffers
  with it and lose bytes while they do. Correct when transfers move what was asked, polls
  are answered and the host knows the switches.

`PROJECT.json` lists every hazard with its line and the properties that cover it.

## 2. Plan

| # | Modules | Composes | Why | State |
|---|---|---|---|---|
| 1 | `WatchSet`, `EventLoop`, `VectorFacts`, `EventLoopProofs` | `EventLoop` implements `WatchSet` | everything on the host runs in it | checked, proved |
| 2 | `PurtBuffer` (with `I2c`, `SonicBump` in `FirmwareProofs`) | interrupt and main loop | everything on the boards runs on it | checked, proved |
| 3 | `Timer`, `Watchdog2`, `ExternalProgram`, `MCLibrary` | `Watchdog2` extends `Timer`; both share the loop's thread with a destructor | threads, processes | checked, `Watchdog2` proved |
| 4 | `StateDevices`, `StateDevicesProofs` | `State`, devices, sockets, passes of the loop | callbacks and exceptions | checked, proved |
| 5 | `IntervalTimer`, `Watchdog`, `WatchdogProofs` (also of `Watchdog2`) | `Watchdog` extends `IntervalTimer` | numeric edges | checked, proved |
| 6 | `Steering`, `Gps`, `Configuration`, `Trinidad`, `TrinidadProofs` | `deadman()` nested in `State::set`, `AutoPilot`, camera, positions, waypoints, exceptions | the robot's own logic | checked, safety proved |
| 7 | `ArdLink`, `HotPlug`, `LinkProofs` | server, line and device; search, inotify and start-up | lost and late bytes, boards that come and go | checked, safety proved |
| 8 | `Ax3500`, `MotorLoop`, `MotorLoopProofs` | motor controller, socket client and hot-plug in one thread | ordering, one thread | checked, safety proved |
| 9 | `I2c`, `Compass`, `SonicBump` | interrupts against main loops | preemption | checked; safety of `I2c` and `SonicBump` proved |

Every safety invariant and every action property that a run checks is also a theorem. What
is left for proof is what no run states yet: invariants of `ExternalProgram` and `Compass`,
of which the runs check liveness only, and type correctness of `Timer` by itself.

## 3. Modules and code

**`WatchSet`** – what `EventLoop` promises without vectors, queues and indices: three
sets, requests granted later, every removal before any addition.

**`EventLoop`** (`EventLoop.cpp:30-170`) – `fds` and `fdsources`, changed in tandem, are
one sequence. `pc` names the stage of `run()`: `poll`, `scan`, `handler`, `erase`,
`drain`, `interval`, `slot`. `add` and `remove` are possible wherever client code runs:
outside `run()`, in a handler, in a slot. A handler ends by returning true or false. An
erase past the end is undefined behaviour; the model goes to `crashed`. `Keeps` selects
which of three rules the clients follow – the loop itself checks none of them: not to add
a source that is already queued (`indexFDSource` searches only `fdsources`), not to
remove a source twice in a pass, and not to add from an interval slot when nothing is
watched (the loop would end with the source still queued). Every client in the repository
keeps all three. `asked` is a history variable.

**`IntervalTimer`** (`EventLoop.cpp:75-91`) – the clock ticks; a past timespec is
represented by its age, from which its `tv_sec` and `tv_nsec` follow, and the code's
formula is evaluated on those, C's truncation towards zero included.

**`Watchdog`** (`Watchdog.cpp`, `Watchdog.h:94-132`) – extends `IntervalTimer`: `check()`
is the interval slot, split at the call of `onTimeout()`, during which touches may come.
Both constructors are initial states; the one for a range leaves `lastCheckIn`
uninitialised, which is any age.

**`PurtBuffer`** (`statedevice_buffer.c`) – one action per path through the receive
interrupt, one per store of `atomic_pop()`. The interrupt does not nest, so it is atomic;
the main loop is interrupted anywhere its interrupt is enabled. Bytes range over `0..M`
with `M = 255` on the device; `~b` is `M - b`. Only two cells of the buffer are ever read
by this code, so only those are kept.

**`Timer`**, **`Watchdog2`** (`Timer.cpp:26-103`, `Watchdog2.h:53-95`) – time is abstract:
an armed timer may expire at any moment. Threads and pipe bytes are counts. `reset` is the
slot on the watched substates, called from other handlers and from `onTrip()`.

**`ExternalProgram`** (`ExternalProgram.cpp`, `.h`) – `vfork()` suspends the constructor
until the child has run its program or given up, so the constructor is one step. The
destructor is three: a look, the TERM and a tenth of a second; the same with KILL; a last
look. The child may end at any moment between them. `MCLibrary` puts it and `Watchdog2`
in one loop: while a destructor sleeps, expirations go on and no handler runs. Left out
are the descriptors that a later child inherits (no `FD_CLOEXEC`), which can hide an
earlier child's end, and the second `close(sockets[0])` at line 66, which the socket's
destructor has already closed: nothing opens a descriptor in between in this one thread.

**`StateDevices`** (`State.cpp:42-55`, `StateDevice.cpp:32-90`) – redundant devices (same
type and UID) and sockets. `set` stores the value, then calls slots one by one
(`sendSubstate`); a write on a broken line throws into the setter's `catch (...)`
(`sendThrows`). The event loop is reduced to what `EventLoop` establishes: handlers run one
at a time; a source that returned false is destroyed at the end of the pass, which
disconnects its slots (`boost::signals::trackable`). Lines break at any moment, also
between two slots.

**`Trinidad`** (`main.cpp`, `AutoPilot.cpp`) – one thread, so a handler is one step, except
that each round of `realize()`'s `goto evaluate` is its own. Every path through `realize()`
is an action: those of a state share its guard and differ in the readings. `deadmanSlot` is
nested in `SwitchReport` as `deadman()` is in `State::set()`. A missing substate is
`Unset`; where the code would throw, `Swallow` is the `catch (...)` of two states, and for
the other two `Survives` says that there is nothing to throw. Sensors report any reading of
small sets at any time. Clocks are ages; distances are counted in ticks at one PWM step, and
`covered`, a history variable, is what the robot really covered. Headings, speeds and the
camera's angle are computed as in the code, in whole degrees, by **`Steering`**;
**`Gps`** cuts sentences, also short ones over the remains of longer ones, into fields
(`gps/main.c:19-57`) and turns them back into places; **`Configuration`** reads waypoint
files (`Parameters.cpp`), a last line without a newline included, which loses its waypoint.
`RECOVERING_FROM_COLLISION` is never entered and has no action. The capture is opened again
before each picture (`AutoPilot.cpp:98-100`).

**`ArdLink`** (`ArdPort.cpp`, `SerialPort.cpp:57-186`, `StateDevice.cpp:32-90`,
`datagram.c`, `statedevice_direct.c`) – the server, the device and the line between them,
byte by byte. The device may be in the middle of anything when the port is opened. A byte
sent at another speed arrives as junk or not at all. The server's waits end when their time
is over, and `excuses` records that this was the device's doing: it was late, sent something
that was not asked for, or spoke of itself. `slow` lists the speeds at which 255 NULs take
longer than `alarm(1)`, as they do at 2400 baud (1.06 s) with a driver that buffers nothing.
`Leftovers` is what the uninitialised array may hold when `read()` returns fewer than five
bytes. Both managers' ways of trying again are modelled. The texts that devices send contain no
0xFF and are shorter than 249 characters: the complement of a longer one's size would be 4,
which with a late byte behind it can pass for a handshake's beginning. No firmware sends texts
that long, but nothing forbids them (`datagram.c:41-48`).

**`HotPlug`** (`main.cpp:137-165`, `DeviceManager.cpp`, `HotDeviceManager.cpp`) – start-up
sets the watch, searches `/dev`, takes the one port that failed for the controller's, and
runs the loop. Events are read in batches, each event handled to its end. The directory
iterator may or may not return a file that comes or goes during the scan. The kernel gives a
port's name away again only when the server has closed it. A construction is one of
`ArdLink`'s handshakes and may end either way. `raced` and `unlucky` record what excuses a
second device or a wrong choice.

**`Ax3500`**, **`MotorLoop`** (`Ax3500.cpp`, `StateSocket.cpp:42-66`, `SocketServer.h`) –
what the controller's answers look like and how many characters `onActivity()` takes for
each kind of request; then one thread that serves the controller, a client that sets motor
keys, interval slots and a hot-plugged device's handshake. `set()` narrows a speed to `char`
as the code does (300 becomes 44, 128 is refused). Where nothing catches an exception the
program ends (`terminated`). The controller's own watchdog stops both motors after
`SilenceLimit` and sends a `W` in front of whatever it sends next.

**`I2c`** (`ardlib/i2c.c`) – program, interrupt and TWI hardware. The program either uses
the calls that wait and is then alone on the bus, as `cmps03.c` does, or the interrupt, and
then other masters may take the bus or address the board, `MaxNoise` times. A byte of a
buffer is its position in the transfer. After each interrupt the processor executes one
instruction of the program, hence the strong fairness of `Program`. The driver is not
followed further once `stuck`.

**`Compass`** (`compass_gyro/main.c`, `cmps03.c`, `miniurt.c:38-98`) – MiniURT's receiver
and poll flag against the main loop that reads the sensor. `ByteValues` must be 1 modulo 3
(253 of the 256 values are 3·84+1), so that polls alone do not happen to bring a receiver
that is out of step back: only the 255 NULs do. Bearings, the angular velocity and the text
of answers are left out.

**`SonicBump`** (`sonicbump.c`) – two edge interrupts, each reading its pin and transmitting
a whole datagram with interrupts enabled, the handlers of the main loop and the handshake's
reply, which is sent unmasked and may be split by a bump.

**`MCFirmware`**, **`MCLinks`** – modules that do not interact are checked in one run each:
a behaviour is that of one part, and the others stand still.

The definitions named `Bug_...` are defective variants, each the effect of one plausible
mistake in the code; nothing uses them in the specifications. For each property at least
one of them, put in place of the definition it is a variant of, breaks it, as listed in
`PROJECT.json`.

## 4. Runs

| Run | Configuration | Bounds | Distinct states |
|---|---|---|---|
| `event_loop` | `MCEventLoop.cfg` | 3 sources, queues of 3 | 7 734 |
| `purt_buffer` | `PurtBuffer.cfg` | `M = 4`, bytes 0, 1, 4 | 93 371 |
| `library` | `MCLibrary.cfg` | 6 expirations in flight, 2 programs | 20 440 |
| `watchdog` | `Watchdog.cfg` | loop 2 ms, watchdog 6 ms, 2 ticks per ms, 3 ms per second | 38 060 |
| `state_devices` | `MCStateDevices.cfg` | 2 devices, 1 socket, 1 key, 2 values, 3 slots | 66 760 |
| `robot` | `MCTrinidad.cfg` | 2 waypoints, one with a cone; 2 sonar readings, 2 headings, 3 pictures | 104 414 |
| `links` | `MCLinks.cfg` | 10 byte values, 1 message; 2 boards, the controller, 2 times something is plugged in | 234 942 |
| `motor_loop` | `MCMotorLoop.cfg` | 1 channel, 2 speeds, 3 texts, 2 answers and 2 messages in flight | 423 188 |
| `firmware` | `MCFirmware.cfg` | transfers of 2 bytes, 1 disturbance; 3 changes of the switches | 288 043 |

* **`event_loop`** – with clients that keep the rules: no duplicates (`NoDuplicates`), exact
  indices (`IndicesDenote`), only what asked leaves (`OnlyAskedLeave`), and the loop
  implements `WatchSet`, liveness included (`ImplementsWatchSet`), so that every accepted
  request is carried out. Three sources are the least for which an erased element, a shifted
  one and a newcomer coexist; with one removal per source and pass, three queue entries are
  all a pass can fill.
* **`purt_buffer`** – arbitrary input. `M = 4` is the smallest byte range in which the size
  of a substate, its type, the handshake type (`M`), a NUL and a terminator occur; 0, 1 and
  4 are poll, substate and handshake as types, interstitial bytes or a size as sizes, and
  terminators (`~4 = 0`). The proofs cover every `M >= 4` and every input.
* **`library`** – six expirations allow overruns: a second one in a thread, in the pipe and
  while draining. `SilenceTrips` excuses two behaviours by name: check-ins that never stop,
  and a period so short that the drain loop never catches up. `ChildrenAreReaped` excuses a
  child that outlives KILL by a tenth of a second (`late`). Two programs are enough for one
  destructor to keep the thread from another's hang-up.
* **`watchdog`** – two ticks per millisecond make truncation visible, three milliseconds per
  second make every wait cross a second. `MaxBusy` bounds what a pass lasts beyond its wait
  and `MaxAge` is larger than every comparison. `SilenceIsReported` is about an interval
  well below the watchdog's timeout (`IntervalIsShort`), true of these values. The proofs
  cover all others.
* **`state_devices`** – two devices suffice for a setter and a listener, three slots for a
  device registered twice. A signal that an exception cut short leaves listeners stale
  until the next change (`cutShort`), which is how the code is, not how `globals.h:130-133`
  reads.
* **`robot`** – two waypoints give a cone, a plain one and the end of the course; the file may
  also be malformed or end without a newline. 5 and 21 feet lie on either side of the avoidance
  threshold, 0 and 180 degrees make the robot face its target or turn around; the two boxes
  lead to a cone and to "nothing". `AtRest` and `Survives` are invariants of the nesting of
  `deadman()` and of the exceptions; `DistanceIsReal` and `NoTrap` of the clocks, with the
  behaviour in which the switch is released meanwhile excused by name (`paused`).
* **`links`** – one link, or the manager. With ten values, as with
  256, a handshake's size (4), type (9) and complement (5) are different bytes; the substate has
  the size of a handshake, so that only the type tells them apart, `Junk` is the size of a
  shorter one, and the longest datagram is ended by the last NUL of the flush only. Two boards and two pluggings let a
  board come back, or come while another is being constructed. `InStep`, `StaysUp` and
  `LinkComesUp` speak of a device that answers in time, `OneDevicePerPort`,
  `ControllerIsTaken` and `BoardIsWatched` of boards that were not `unlucky` or `raced`.
* **`motor_loop`** – 128 and 300 leave `char` in both directions, `text` is no number; two
  pending answers are the least that can be matched wrongly. `SilenceLimit = 1` lets the
  controller's watchdog fire between any two commands, `BatteryWatched` adds the answer of
  another kind that `main()` has commented out. `LoopNotStarved` excuses a client that sends
  half a message and waits.
* **`firmware`** – two bytes are the least for a first, a last and a boundary at the buffer's
  end; one disturbance is a lost arbitration, a refused byte or a call by another master.
  `ByteValues` must be 1 modulo 3 (§3). Three changes of the switches let one come during
  each of: the handshake's reply, the other switch's interrupt and the report of the first.

Runs in which the code departs from what a comment or document says:

* **`drop_never_ends`** – `drop` is to ignore the *current* datagram
  (`statedevice_buffer.c:99`), but no path resets it: after one substate that arrives while
  another waits, the device is deaf until reset.
* **`others_fault`** – a working device that sets a substate its broken twin registered for
  is dropped in its place (`StateDevice.h:44-45`).
* **`errors_ignored`** – `catch (...) //ignore errors` around `setSpeed()` never sees the
  exception of a lost port, because `setSpeed()` is declared `throw(std::logic_error)`: the
  program ends (`Ax3500.cpp:86, 112, 121`).

Deadlock is checked in `event_loop`, `purt_buffer`, `library`, `watchdog` and
`state_devices`. In `robot` and `links` the program may end; in `motor_loop` it may
terminate; in `firmware` the noise and the changes are bounded and a board may have
nothing left to do.

### Fairness

* `EventLoop`, `IntervalTimer`: weak fairness of the loop's stages. `poll()` gets a finite
  timeout and handlers return. Clients are never obliged to call anything.
* `PurtBuffer`: weak fairness of the main loop, which the firmware calls in `while(1)`. No
  byte ever has to arrive.
* `MCLibrary`: an armed timer expires, a started thread writes, the loop serves the pipe when
  it is free, a destructor goes on (weak), and a hang-up that `poll(2)` reports in every pass
  is handled (strong, as other handlers come first). Children need not end; check-ins are
  unconstrained.
* `Watchdog`: the clock advances, `check()` returns. No key has to be touched.
* `StateDevices`: slots and set return (weak). A pass ends, and it visits each source that
  `poll(2)` reports (strong, as the model lets other handlers of the pass come first).
* `Trinidad`: the interval slot is called (weak) and time passes although it runs (strong).
  No sensor has to report anything, the switch may stay released.
* `ArdLink`: the server's waits end, by a byte or by their time (`Look`), and a device
  that has bytes or an answer to send goes on (`Device`). `HotPlug`: `main()` and the loop
  go on, constructions end. Nobody has to plug anything in.
* `MotorLoop`: handlers run when they have something to do and come back, except the one
  that waits for the rest of a message; the controller sends what it owes.
* Firmware: the processor executes an instruction after each interrupt (`SF(Program)`,
  `SF(LoopStep)`), pending interrupts are served, the bus and the main loop go on. No other
  master has to let go for ever, no switch has to move.

## 5. Proofs

For every value of the constants, from the named assumptions of the modules.

**`EventLoopProofs`** (with the facts on sequences in `VectorFacts`), assuming that clients
keep all three rules (`Keeps = Rule`). The invariant adds to the checked properties what
each stage has already finished (`NothingLeftOver`: a pass that reached `drain` has erased
everything, one that reached `interval` has admitted everything) and that `pos` and `ready`
are valid indices. It is needed because `IndicesDenote` alone does not survive an erase:
one has to know that the entry erased is the largest, so that the remaining ones lie below
it and keep denoting the same elements. Results: `InvariantHolds`, `TypeCorrect`,
`WatchedOnce`, `IndicesAreExact`, `NothingIsLeftOver`, `OnlyAskedAreRemoved`, and `KeepsTheSet`:
under the mapping of the run, the initial states are initial states of `WatchSet` and every
step is one of its steps or leaves its variables alone. That is `ImplementsWatchSet` without
`WatchSet`'s fairness. The mapping takes what the queued
indices stand for as the sources that are leaving; `QueuesAre` shows from the invariant that
these are the watched sources that asked.

**`FirmwareProofs`**, three programs, each with its interrupts.
`PurtBuffer`, for every `M >= 4` and every set of input bytes: the invariant
relates queue, `handling` and program counter at every point of the pop; bounds the write
offset by what has been announced and received; and ties the run of NULs to
`bytesRemaining`, which each further NUL decreases. Results: `PurtInvariantHolds`,
`PurtTypeCorrect`, `QueueStaysUniqueList`, `NulsResynchronise`, `WritesAlwaysFit`,
`AcceptedStaysQueued`, `BufferStaysStable`.
`SonicBump`, for any number of changes of the switches: what the host does not know of a switch
is on its way – its flag waits, its interrupt is served, or the program answers a handshake and
has not come to that switch yet (`KnownInv`); what has been read of a pin but not sent is what
the pin is, or the flag waits (`ReadInv`); and the interrupts do not nest (`MaskInv`). Result:
`SwitchesKnown`.
`I2c`, for every size of the buffers and any number of disturbances, one invariant for each way of
use: with calls that wait, the program is alone and `WaitInv` follows its steps; with the
interrupt, `ServedInv` says at which byte an undisturbed transfer is, and that it agrees in the
hardware's registers, the driver's indices and what the caller asked (`Transmitting`,
`Receiving`), or that it is over although the caller may not have looked yet (`Idle`). Of a
disturbed transfer only `ServedFrame` is known. Result: `TransfersHold`.

**`MotorLoopProofs`**, for every set of channels, speeds and texts, any number of requests and
any timing. `WireInv` is about the characters that the server has not read, those the
controller has not sent included: they contain the whole answers to the pending requests in
their order, and all the others are a `W` of the controller's watchdog. It is kept because what
`onActivity()` takes when the oldest answer has come is that answer and the `W`s in front of it:
it neither stops inside the answer nor reads into the next one (`TakenIs`). `DriveInv` says
that a motor that the controller's watchdog has not stopped turns as its key says, if that is a
speed, whoever wrote the key. Results: `MotorInvariantHolds`, `MotorTypeCorrect`,
`MotorsFollowState`, `ControllerKept`. They rest on the model's controller, which sends its `W`
before or after an answer, never within one.

**`WatchdogProofs`**, for every resolution of the clock, every timeout and every bound on the
work of a pass. Two facts of arithmetic carry it: the milliseconds that the code computes
from two timespecs are less than one off either way, although the two truncations point in
different directions (`ElapsedBounds`), and they never shrink as the clock ticks, in
particular not when it crosses a second (`ElapsedGrows`). The invariant says that what
`poll()` still waits never takes the interval past its time; that a silence that has been
reported is still one, and is remembered; and that a check-in that `hasTimedout` has not
noticed is not older than the last signal and that signal's own work. Results:
`Inductive`, `TypeCorrect`, `SlotsOnTime`, `ReportedOnce`, `EverySilenceReported`.
The same module treats `Watchdog2`, for any number of expirations in flight. Its invariant says
where an unanswered expiration is, when the reset slot is masked, and when an expiration of an
earlier period may still be on its way. Results: `Watchdog2InvariantHolds`,
`Watchdog2TypeCorrect`, `ExpirationsAreKept`, `StaysStopped`, `OneTrip`.

**`TrinidadProofs`**, for every waypoint file, sentence, sonar, compass and picture, and every
length of pauses and detours; `CoveredAssumption` says that `MaxCovered`, at which the
model stops measuring, is beyond every distance that is compared. The invariant has four
parts besides the types. `MotorsInv`: the two motor keys are set together, for good once the
autopilot has started, and the switch has nothing but zeros saved when the course is
done – without it, a replay at the end of the course could start the motors again.
`CourseInv`: the waypoint's iterator is at its end only when the course is done or empty.
`DetourInv`: a detour begins with the readings it needs, and its first round, in which
`goto evaluate` keeps the reading, sees the obstacle and so initialises what later rounds
read. `DistanceInv`: what the autopilot believes to have covered (`Believed`: a speed times
the age of a clock) is at most what the robot has covered, unless the switch was released;
it needs that the speed between a bump and the next round is 0, so that the autopilot's
"speed now times the time since" cannot overestimate. Results: `Inductive`, `TypeCorrect`,
`MotorsAtRest`, `RobotSurvives`, `DistanceCovered`.

**`StateDevicesProofs`**, for every set of devices, sockets, keys and values. What
disconnecting destroyed slots leaves of a signal is a recursive function (`Without`);
`WithoutIs` says what it computes, by the least number at which it would not. The invariant
says of a set in progress that its source is still watched and that the slots to be called
are slots of its key (`CallInv`), that slots belong to watched devices (`LiveInv`), and of
every device that works that it knows the latest value of a key, knows nothing of it yet, or
is among those still to be called (`ToldInv`, `BeingTold`) – the last case is why the
property, which speaks of the time between two sets only, is not inductive. Results:
`Inductive`, `TypeCorrect`, `SlotsStayLive`, `ListenersUpdated`.

**`LinkProofs`**, `ArdLink` first, for every width of a byte of at least ten values, all texts of
`MessageAssumption`, whatever junk and leftovers (`ByteAssumption`, `LeftoverAssumption`:
junk is not taken for the size of a handshake, and the firmwares' UID is 0).
What the server will read, the bytes in the kernel's buffer and those the device is still to
write, is a stream (`Stream`): from some position on, datagrams that follow one another without
a gap; before and inside them no byte 4 is followed by 0xFF, so that nothing but an answer can
be taken for one. Streams are closed under what the lines do to them: `StreamGrows` when the
device begins to write, `StreamShrinks` when bytes are read, lost or discarded. `InStep` needs
more. `Fits` says that at most one answer to a handshake is under way unless one was late or
stray, that it can only be the last thing the device wrote or stand before it, and that it
is there only for a server that asked for it; `MayAnswer` and `Spent` say when the device
may still be about to send one: not once the three bytes of the question at this speed
have been taken or what is left of them cannot end a datagram. So, when a server finds an
answer in front of it, the stream behind it begins with a datagram, and no second answer
follows to end the link. Results: `LinkInvariantHolds`, `LinkInStep`, `LinkStaysUp`.

`HotPlug`, for every set of ports and any number of times something is plugged in.
The invariant says what is still empty at each stage of start-up (`StageInv`), that a failed
board has a reason (`FailedInv`), and that a port that is not `raced` waits in one place at
most – the entries still to be read, the device being tried, the events, the batch – and only
while nobody watches it (`OnceInv`).
Results: `HotPlugInvariantHolds`, `WatchedOnce`, `ControllerTaken`.

**Only model-checked:** the liveness properties (the prover handles neither fairness nor
`ENABLED` here) – `SilenceTrips`, `ChildrenAreReaped`, `SlotsRecur`, `AcceptedIsHandled`,
`BrokenIsDropped`, `NoTrap`, `LinkComesUp`, `BoardIsWatched`, `LoopNotStarved`, `CallsReturn`,
`PollsAnswered`, `SwitchGetsKnown` – and the fairness in `ImplementsWatchSet`. What the recursive
functions of `Gps`, `Configuration` and `Steering` compute for every input would need
induction over data, which the provers here cannot do; the proofs of `TrinidadProofs` take
whatever they return.

## 6. What is not modelled

* `SlottedTimer` (a `Timer` with a signal in place of a virtual function), `SerLCD`,
  `LMSensors`, `Log`, the screen and the tester: sequential output.
* Requests of type 0x01, which only read; `setPIDGain()`, which nothing calls.
* Destroying a `Timer` whose notification thread has started; errors of the timer calls.
* `POLLNVAL`, which the loop ignores, so that a source whose descriptor is closed early makes
  it spin; an overflow of inotify's queue; `SIGPIPE`, which nobody ignores
  (`Socket.cpp:67`), so that a client that closes at the wrong moment ends the program.
* The text, the arithmetic on doubles and the picture processing behind the angles and
  places that `Trinidad` and `Gps` are given; PURT's raw layer below `ArdLink`'s bytes.
* In `robot`, clients that set motor keys themselves: `AtRest` is about `deadman()` and the
  autopilot.

Disagreements between documents and code, and surprises, met on the way that have no run:

* Event loop. Removing a source twice in a pass (asking and returning false, say) queues its
  index twice, and the second erase hits its neighbour (`EventLoop.cpp:149`); no client does
  it today, and `Keeps` names the rule. The comment of `add()` (`EventLoop.cpp:114`) promises
  false for a source already added; one that is still in `addQueue` is accepted again. A
  source erased in this pass may still be called in it: `remove()` only queues.
* Timers. `Timer.h:49-50` says that events do not accrue between an expiration and its
  service; the kernel's periodic timer keeps expiring and each expiration writes its byte.
  `Watchdog2.h:38-39` promises one trip per silence; an expiration already in the pipe when
  the first is served trips again, or trips just after a check-in (hence
  `OneTripUnlessOverrun`). `Watchdog.h:76-79` gives the timeout in microseconds and promises
  never to be early; it is in milliseconds and may be early by a fraction of one (hence the
  bound of `OncePerSilence`). `Watchdog.h:84-85`: touches do not reset a watchdog built for a
  range of keys until `enableResets()` is called.
* Boards. Substates are sliced one byte late and the value is taken two bytes too long
  (`statedevice_buffer.c:126`); MiniURT's `valueLength` counts the type and terminator bytes
  as well (`miniurt.c:70`). A poll between `polled()`'s look at the flag and its clearing is
  lost (`miniurt.c:42-43`). A `continue` in the GPS board's scan runs past the end of a
  short sentence. The two-wire driver hangs when another master starts at the wrong moment
  or when a STOP is over too soon (`i2c.c:167, 237, 446-459`: `stuck`), may store past
  `I2cReceiveData` in a long slave write, and goes idle after a lost arbitration or a
  refused byte without telling its caller.
* Links. 255 NULs take 1.06 s at 2400 baud, longer than `alarm(1)`. A run of NULs that
  completes a size-255 datagram makes a device speak; a late second handshake answer drops
  the device; a message of size 0 ends in `length_error`; a socket client that is closed
  loses what it sent and nobody read (`IsOk()`).
* The robot. The last waypoint of a file without a final newline is lost, and an empty list is
  dereferenced (`Parameters.cpp:51-56`). A picture that cannot be taken is dereferenced
  (`camera.cpp:104-111`). When the motor controller's own watchdog has stopped the motors, an
  unchanged key is never sent again.
