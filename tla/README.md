# Contiki-Device-Link in TLA+

TLA+ models of *Sensors Unleashed* / Contiki-Device-Link: sensor and actuator
nodes (Contiki C, `sensorsUnleashed/`, `apps/uartsensors/`) that talk CoAP to
one another and to a Qt program (`SensorsUnleasedGui/suGui/`). A sensor raises
events, an actuator is *paired* with a sensor and observes its events, and both
survive power losses by means of small files in flash.

Contents: [the system](#the-system) · [modules](#modules) ·
[runs](#runs) · [fairness](#fairness) · [proofs](#proofs) ·
[where the code departs from its documentation](#where-the-code-departs-from-its-documentation) ·
[what is not modelled](#what-is-not-modelled) · [plan](#plan) · [use](#use)

## The system

Paths are relative to `src/`. SU is `sensorsUnleashed/`, GUI is
`SensorsUnleasedGui/suGui/`, UART is `apps/uartsensors/`.

| component | state | operations | interacts with |
|---|---|---|---|
| event dispatch (SU`lib/susensors.c`, `dev/susensorcommon.c`) | device list `sudevices`; per device `event_flag`, last value, change accumulator, event levels; poll flag of `susensors_process` | `susensors_changed`, `setEventU8/U16`, the walk of `susensors_process`, `eventsetup` | drivers (ISRs and CoAP handlers) raise; the CoAP engine notifies the observers |
| pulse counter (SU`dev/pulsesensor.c`) | hardware counter, pending interrupt, poll, value, change accumulator | interrupt, process, `setEventU16` | event dispatch |
| push button (SU`dev/button-sensor.c`) | pin, debounce timer, long-press timer, its count | edge interrupt, timer callback | event dispatch, `er_uart_server` |
| mains detector (SU`dev/mainsdetect.c`) | two hardware timers and their interrupts, value | the two interrupt handlers | event dispatch |
| relay and LED (SU`dev/relay.c`, `ledindicator.c`) | level, enabled | `setCommand`, `postEvent`, notified actions | pairing, event dispatch |
| reverse notification (SU`reverseNotify.c`, `lib/susensors.c`, `resources/res-systeminfo.c`) | list `revlookup` in RAM, file `revnotify`, pool of 20 blocks | `initReverseNotify`, `addSource`, `removeItem`, `txPresence` and its callback; on the other node `missingJustCalled` | CoAP observers (volatile), flash, transactions, the actuator nodes |
| pairing (SU`pairing.c`, `lib/susensors.c`) | list of pairs per device, pool of 20 blocks, file `pairs_<device>`, file `temp`, assembly buffer | `pairing_assembleMessage`, `pairing_handle`, `pairing_remove`, `pairing_remove_all`, `restore_SensorPairs`; event `susensors_pair` | the resource, flash, CoAP observees, the device's event handlers |
| resources (SU`resources/*.c`) | none of their own | GET and PUT of a device, `nodeinfo` | all of the above |
| node start-up (SU`er-uart-server.c`) | order of start: CoAP engine, resources, wait for a route, `susensors_process` | | all of the above |
| uart sensors (UART) | ring of receive buffers, place of the handshake, list of proxies, buffer of strings | frames, handshake, readings, PUT eventsetup | a microcontroller on a serial line |
| uart test tool (`UartTest/`) | sensors and their readings | answers to the node, readings | the serial line |
| CoAP client (GUI`wsn.cpp`, `suinterface.cpp`, `socket.cpp`) | open messages `activePDUs`, one timer `acktimer` | `send`, `timeout`, `parseData` | the nodes |
| sensor and pair lists (GUI`sensor.cpp`, `pairlist.cpp`) | event levels as read, the rows of the pair list, marked rows, ids of the last removal | read, set up, pair, remove, parse | CoAP client |
| node store (GUI`sensorsunleashed.cpp`, `nodestore.cpp`, `node.cpp`, `borderrouter.cpp`, ...) | SQL tables of nodes and sensors, the lists shown | start, create node, request links, pair | user, border router |
| message coding (SU`lib/cmp*.c`, GUI`cantcoap/`) | none; a CoAP message under construction | encode, decode, add options | all |

What is hard here, and hard to test:

* **interrupts against the walk.** `event_flag` is set by ISRs while the
  process tests, clears and resets it, without a lock;
* **three copies of one fact.** A pair is in RAM, in flash and in the CoAP
  engine; a known observer is in RAM, in flash and in the CoAP engine. Every
  command changes some of the copies, and power may fail in between;
* **bounded everything.** 20 blocks per pool, 8 transactions, 32 events, a
  fixed set of file descriptors, one assembly buffer; most shortages are silent;
* **the network.** Answers that come late, twice or never; retransmissions of
  what was handled already; requests served before the node has restored its
  state;
* **liveness by events.** After a boot each pair and each observer depends on
  one posted event and at most one confirmable message;
* **two ends of one format.** A pair is written by the GUI, read, stored and
  read back by the node, and read once more by the GUI with other limits; a row
  of the GUI names a place of a file that others change;
* **a line without protection but a checksum.** Lost bytes, receive buffers
  that are filled again, a handshake without a time-out.

What makes each component correct:

| component | correct if |
|---|---|
| event dispatch | no raised event is lost, none is invented, the last report agrees with the value |
| reverse notification | an observer that has a pair is known after any power loss, and observes again |
| pairing | stored pairs change exactly as the commands say; an answered join survives; each pair is observed |
| block-wise transfer | the node parses the message that was sent; every transfer ends; the client believes a join done only if it is |
| pulse counter | every pulse is in the value, or known to be on its way; a change is reported although the step is cut |
| push button | the long-press timer runs while the button is pressed, counts only what was held, and posts an event for each interval held |
| mains detector | it never stops measuring; mains that stays, or stays away, is seen |
| relay and LED | a device that follows another has its level when nothing is on its way |
| event set-up | what a node accepts is what the GUI asked for, in full |
| uart sensors | only what was sent is decoded; every proxy has its sensor's configuration, readings and strings; the handshake ends |
| message coding | what is written is read, by just the types that hold it; a built CoAP message parses as what was put in |
| pair coding and pair list | the node and the GUI read a pair as it was joined; the rows are the node's file, and a removal removes the rows that were marked |
| node store | the sensors shown are those of the data base, over restarts and failed inserts |

## Modules

| module | models | about |
|---|---|---|
| `EventPosting` | – | abstract: what a device promises about its events |
| `SensorEvents` | SU`lib/susensors.c`, `dev/susensorcommon.c`, drivers | flags, poll and walk; implements `EventPosting` |
| `MCSensorEvents` | | devices and event levels for the runs |
| `SensorEventsProofs` | | six theorems |
| `ReverseNotify` | SU`reverseNotify.c`, `lib/susensors.c`, `res-systeminfo.c` | list, file, presence messages, observers, power and message loss |
| `ReverseNotifyProofs` | | three theorems |
| `PairStore` | – | abstract: what the pair commands promise of the stored pairs |
| `Pairing` | SU`pairing.c`, `lib/susensors.c`, `res-susensors.c` | blocks, lists, files, events, observees; implements `PairStore` |
| `MCPairing` | | pairs for the runs |
| `PairingProofs` | | six theorems |
| `JoinTransfer` | GUI`wsn.cpp`, SU`res-susensors.c`, `pairing.c` | block-wise PUT, timer, assembly buffer |
| `JoinTransferProofs` | | four theorems |
| `PulseCounter` | SU`dev/pulsesensor.c`, `susensorcommon.c` | hardware counter, interrupt, poll, `setEventU16` |
| `PushButton` | SU`dev/button-sensor.c`, `er-uart-server.c` | debounce, long-press timer, count |
| `MainsDetector` | SU`dev/mainsdetect.c` | two timers that start one another |
| `Actuation` | SU`dev/relay.c`, `ledindicator.c`, `lib/susensors.c` | relays and LEDs that follow relays |
| `EventSetup` | SU`dev/susensorcommon.c`, `res-susensors.c`, GUI`sensor.cpp` | the levels a GUI reads and sets |
| `UartFrames` | UART`uart_protocolhandler.c`, `uarthandler.c`, `UartTest/` | bytes, escapes, length and checksum |
| `UartProxy` | UART`uartsensors.c`, `res-uartsensors.c`, `UartTest/` | ring of buffers, handshake, readings |
| `UartStrings` | UART`uartsensors.c`, `uart_protocolhandler.c` | the one buffer of strings and messages |
| `MsgPack` | SU`lib/cmp.c`, GUI`cmp/cmp.c` | every writer and reader of the library |
| `CoapPdu` | GUI`cantcoap/cantcoap.cpp` | building and parsing a message in place |
| `MessageProofs` | | two theorems about `CoapPdu` |
| `PairCoding` | GUI`sensor.cpp`, `wsn.cpp`, SU`pairing.c`, `lib/cmp_helpers.c` | a pair as join message, record and row |
| `PairCodingProofs` | | two theorems |
| `PairView` | GUI`pairlist.cpp`, `sensor.cpp`, SU`pairing.c` | the rows of the pair list and the file |
| `NodeStore` | GUI`sensorsunleashed.cpp`, `node.cpp`, `nodestore.cpp`, ... | tables, lists, restarts |
| `Node` | | one instance of each component of the node from `PulseCounter` to `UartStrings`, what is assumed of their constants, and their properties in the node |
| `NodeProofs` | | twenty-nine theorems: `PulseCounter`, `PushButton`, `MainsDetector`, `Actuation`, `EventSetup`, `UartFrames`, `UartProxy` and `UartStrings` through their instances, and the invariants of the node |
| `MCNode` | | values of `Node`'s constants for the run |
| `Selections` | the loops of `PairView` and `NodeStore` that take some rows | what they take, in a form that can be proved about |
| `Client` | | one instance of each component from `MsgPack` to `NodeStore`, what is assumed of their constants, and their properties in the GUI |
| `ClientProofs` | | eleven theorems: `MsgPack`, `PairView` and `NodeStore` through their instances, and the invariants of the GUI |
| `MCClient` | | values of `Client`'s constants for the run |

In `Node` and `Client` the components share no state that any of them
tells apart, so a behaviour follows one of them, chosen in its first state
(`focus`), while the others rest: their union is checked, not their product.

`Pairing` and `ReverseNotify` are the two ends of one relation: a susensors_pair
event of `Pairing` sends the observe request that is `ObserveArrives` of
`ReverseNotify`, whose `Bind`/`Unbind` stand for the pairs of the other node.
`JoinTransfer` ends where `Pairing` begins: its parse "as sent" is a join
command of `Pairing`. `SensorEvents` begins where both have settled: the
observers it notifies are theirs. `MainsDetector` and `PushButton` end where
`SensorEvents` begins: their reports are its `Edge`. `Actuation` takes the
observe relations of `Pairing` as settled and looks at what they carry.
`PairView` sees the file as a sequence of pairs, `PairCoding` sees the bytes of
it; `PairCoding` counts the bytes of a number or a string, `MsgPack` says what
they are. `UartFrames` hands whole messages to `UartProxy`, whose
configurations are what `UartStrings` lays out.

A definition marked *slip* is not part of a specification. It is a copy of the
definition that follows it with one plausible mistake, and shows which property
would notice the mistake.

### SensorEvents

`event_flag`, `LastValue`, `ChangeEventAcc` and `needspoll` are the fields of
the code. `pc`, `cur`, `ev` and `reg` are the position of `susensors_process`:
the device `d` it is at, the `if` that is next, and the flag byte between the
load and the store of `d->event_flag &= ~EVENT`. `Boot` is its configuration
loop. `Edge` is a driver with `setEventU8` and `susensors_changed`; for a device
in `IsrDevices` it may fall between any two steps, for the others (set by a
CoAP handler, another cooperative process) only while `susensors_process`
waits. `owed` and `reported` are history; `EventPosting` sees the events that
are flagged or about to be posted (`Outstanding`) and those that are owed. `Spaced` names the devices whose
edges are further apart than a walk; what is claimed of them holds while other
devices interrupt the walk at will. A change is a change to the other of two
levels, which is what relay, LED and mains detector report; the change step is
1, kept modulo 2^8 as in the code.

### ReverseNotify

`phase` is off, the CoAP engine up, or `susensors_process` running. `writeFile`
is one step per record (`wr`), so power can fail between records or within one
(`Torn`); the record it fails in is old, new or torn. `slotAddr` keeps what a
freed observer struct still holds, because `susensors_process` reads the address
from the struct long after the event was posted. A block is never freed, as in
the code, so `allocated` only grows between boots. The actuator nodes appear as
`interest` (they have a pair) and `obsReq` (transmissions left of an observe
request). `early` is history: the observers that registered before
`susensors_process` had set the callback that would have told it; the code
records them only when they register again, and `ObserversAreRemembered`
excepts them.

### Pairing

A pair is a record `[dst, url, action]`; the three sub-URLs and the three
triggers of a pair are treated alike by the code, so one stands for them.
`blk` keeps the content of freed blocks, since `memb_free` clears nothing.
`leaked` counts descriptors that were never closed. `pairing_remove` is one step
per record (`rm`); the other commands are one step, since the scheduler is
cooperative. A write to an empty pool's block is a write through a null
pointer, which resets the node (`MemoryLost`). A record is written whole or not
at all and all records have one size.

### JoinTransfer

A message is a sequence of blocks; a request carries a number and a payload,
and the two may disagree, since the number follows the answer and the payload
`tx_next_index`. Time passes in ticks: `txtime` and `acktimer` count them, and
a message arrives within `MaxDelay` ticks or not at all. `MayExpire` and
`MustExpire` differ by the tick at which `hasExpired` can go either way.
`buffer` holds blocks in the order the node appended them. `disturbed` is
history: something happened after which the node may see a block twice or not
in turn; a transfer that starts with nothing else under way starts undisturbed.
The client builds messages of at most 200 bytes, so the answer 4.13 of the
resource does not occur.

### PulseCounter, PushButton, MainsDetector

`PulseCounter` has the registers of the code: `TAR` counts to `Period` and
starts over, `captured` and `polled` are the pending interrupt and poll, so
that two interrupts before the process runs are one poll (`overrun` counts
them). `Period`, `StepSize` (2^8) and `ValueSize` (2^16) are constants.
`PushButton` moves in ticks; the interrupt of an edge is served within its
tick, the processes are late by any number of ticks. An edge within the debounce
time is ignored by the code as by the model (`dropped`). The long-press timer is
Contiki's callback timer, in three steps between which an interrupt may fall:
`etimer_process` finds it expired and posts its event (`due`), `ctimer_process`
takes the event and calls back whatever timer of that name is then listed, and
`duration_exceeded_callback` counts and posts (`Count`) before it sets the timer
again (`SetAgain`); its `press_event_counter++` is a load and a store (`loaded`).
So a release may find the callback about to set the timer again, and a press
the expiry of the timer it has just set anew; `raced` is history of such an
edge. After it the timer may run on a released button, or an interval be
counted that was not held (`EventEverySecond`, which does not hold). That an
interrupt may also find Contiki's own lists of timers half changed is not
modelled. `MainsDetector` moves in periods of the mains: `TAEN`, `TBEN` and
their counts are the two timers, `pulseIrq` and `goneIrq` their pending
interrupts; a handler that is pending runs even if its cause is gone. `prompt`
is chosen once and says whether interrupts are served within a period.

### Actuation

A pair is `[src, dst, trig]` with an action for each event. `net` holds, for
each pair, the notifications on their way, in order. A request and the walk it causes are one
step, since the process is polled before the next request is served. `stale` is
history: pairs whose last notification was lost or ignored, or whose
destination a user set.

### EventSetup

A payload is the sequence of its objects; the node's `struct resourceconf` and
what each GUI holds are records of typed objects. `asked` are all requests ever
sent: a GUI sends another whatever it waits for, as `initSensor` and the Submit
button do, and each may be served late, out of order, again or never, and its
answer be lost. A request keeps the objects it was coded with and what its GUI
had read by then (`seen`), so that an update coded before the set-up was read may
be served after it was shown. `Stored` is `suconfig` with its order of tests and
stores: the levels before the wrong object are stored.

### UartFrames, UartProxy, UartStrings

`UartFrames` is about bytes: `line` is what is still on the wire, and noise
flips a bit of a byte or loses one; length, escapes and CRC are computed as in
the code, the exclusive or by halves of the word down to its bits.
`UartProxy` is about whole frames: `rxbuf` is the ring the interrupt fills,
`posted` the events for `uartsensors_server`, and the device answers in the
order it was asked. `prompt` says whether a posted buffer is read before all
others are full. `UartStrings` is about the one buffer: a cell per number,
string head and character.

### MsgPack, CoapPdu

`MsgPack` keeps every form of the library and makes the byte small: with a byte
of two bits, 4 is already a u16 and 16 a u32, so every border between two forms
lies within a small instance. A byte of a multi-byte value is a cell, `be` is
the change of byte order, and reading interprets cells as they lie. `CoapPdu`
keeps the bytes behind the fixed header, as the code does, and its insertion
point, its delta of the option behind and its walk over the options; `options`,
`token` and `payload` are history. `addOption` notes the number of an option
that is to stand last before it looks at the room, and does not take it back:
`refused` and `misled` are history of that and of the next option, which is
coded as the difference to the number of the one refused.

### PairCoding, PairView, NodeStore

`PairCoding` follows a pair through `sensor::pair`, `parseMessage`,
`store_SensorPair`, `restore_SensorPairs`, the blocks of `pairing_getlist` and
`parsePairList`, with the sizes of the code (strings of 100 and 40 bytes,
blocks of 32, which is what the CoAP engine makes of `REST_MAX_CHUNK_SIZE`). A list during whose reading a pair was removed is `mixed`, and
nothing is said of it. A join longer than 200 bytes is left out: the GUI does
not check its buffer. `PairView` follows the ids: a row's id is the place at
which it was read, and a removal sends ids that the node takes as places.
`copies` are the retransmissions of `wsn::timeout`. `NodeStore` has the tables
as sequences of rows; `Start` is the constructor that loads them, each as far as
it can be read, and `running` ends with the user or with the null pointer of
`updateDB`. `database::insert` may fail for any sensor: it is listed and has no
row, and an unknown destination whose insert fails does not end the GUI. `stored`
and `read` are history: the sensors that have a row, and that both tables could
be read.

## Runs

| run | expectation | shows | constants |
|---|---|---|---|
| `SensorEvents_edges` | holds | types; a flagged event always has a poll or a walk ahead; only raised events are posted; of the spaced device no event is lost, the last report is right, every event is posted, `EventPosting` is implemented | 3 devices: ISR any time, ISR spaced, relay |
| `SensorEvents_lost` | violated | `NoEventLost` of all devices: an edge within the walk is wiped out | as above |
| `ReverseNotify_powerloss` | holds | types; a power loss at any step forgets no listed node | 2 nodes, 2 power losses, any loss and reordering |
| `ReverseNotify_known` | holds | an observer with a pair is listed, or about to be, unless it was served before `susensors_process` ran | 2 nodes, 3 blocks, 2 transmissions, in order, early requests |
| `ReverseNotify_return` | holds | a recorded node with a pair observes again in the end | 2 nodes, a transaction for each |
| `ReverseNotify_reorder` | violated | the same as `_known`, but with messages out of order | |
| `Pairing_store` | holds | types; a join answered 2.01 is stored; the pool has a block for every record; no redundant pairs; no command changes a pair something points at; every listed pair is observed in the end; `PairStore` is implemented | 2 devices, 2 pairs, 2 blocks, a queue of 2, a power loss between commands |
| `Pairing_crash` | violated | `ImplementsPairStore` with power failing during pairRemoveIndex | |
| `JoinTransfer_any` | holds | types; the timer runs while a message is open; garbled only after one of four causes; a join taken for done was parsed; every join ends | 2 joins of 2 blocks, 1 retransmission, everything may go wrong |
| `JoinTransfer_slow` | violated | `NothingGarbled` with no loss and every answer in time, 3 blocks | |
| `Node` | holds | types; pulses are accounted for; the long-press timer follows the pin and counts what was held, but for an edge that met its expiry; the mains is seen; followers agree; an accepted set-up is stored whole; only what was sent is decoded; every proxy is its sensor's; the handshake ends; the strings of the uart sensors are intact | see `MCNode` |
| `Client` | holds | types; what is written is read by just the types that hold it; a built message parses as what was put in, until an option follows a refused one; a pair is read as it was joined; the rows of the pair list are the file; the sensors shown are those stored | see `MCClient` |

Why the bounds are enough. Three devices give the walk a device before, at and
after the one an edge belongs to, of every kind. Two nodes make the smallest
list with a head that is not the tail, and a write of two records that power can
cut in the middle; one power loss more than that shows nothing new, because a
boot depends on the file alone. Two devices with two pairs share one pool
and one file `temp`; two blocks are as many as there are pairs for one device,
so one device fills the pool while another starves, and a queue of two is
filled by the boot of one device. Two joins overlap
or follow each other; the longest delay is a tick and the timer three ticks, so
an exchange of two ticks fits the timer and a transfer of two exchanges need
not. `MaxCrashes` and `MaxRecords` only bound the state space; `RecordsFitPool`
says that the latter is not felt.

In `Node`, registers are small enough to wrap within a run (8 periods of 5
pulses fill a value of 32; the step is cut to 3 values, so it is 2 of 5), and
the proofs say that their width does not matter. The button is pressed and
released around a debounce of 2 and a long press of 4 ticks, and held for up to 14
of them; one event of a long press finds a place in the queue. A chain of two
pairs and a second follower of the first relay give both depths and both
widths of following. Three requests of two GUIs are enough to interleave a
reading and two updates, of one of them or of both. Two sensors and three buffers make the ring overtake the process. The
messages of `UartFrames` hold an ESC, an END and what follows an ESC, two
frames and one disturbance, which joins them.

In `Client`, two objects in a buffer are enough to find the second one in the
wrong place. Option numbers lie below and above those of a URI, option values
have 0 and 14 bytes (one below the extra length byte, one above it), and four
calls set token, path, an option and the payload. Three rows are the smallest
list with a middle; one retransmission and one other client are enough to
misplace a removal. The file of `PairCoding` takes three records, more than a
block, with URLs at the limits 39, 40, 99 and 100. Four rows of sensors
(`MaxRows`) hold a node's links twice, with inserts that failed between them.

Deadlock is checked except in the runs of `JoinTransfer`, `Node` and `Client`,
which stop when the requests of their bounds have been made.

## Fairness

* `SensorEvents`: `WF(Process)`. Contiki's scheduler runs a process that is
  polled, and the walk has no wait in it. No fairness for edges or for other
  processes' events.
* `ReverseNotify`: `WF(Sensor)` (power comes back, processes run), `SF` for the
  arrivals of requests, presence messages and answers (a confirmable message is
  sent several times; with `Reliable` one of them arrives), `WF` for the
  time-out of an exchange (the CoAP engine's timer). None for users, power
  losses and message losses. `Reliable` and a transaction per node are
  assumptions on the network and on the size of the installation, not promises
  of the code: `KnownNodesReturn` fails without them (see below).
* `Pairing`: `WF(Node)` and `SF(HandlePair)`. The event queue is served in
  turn between the commands, so a stream of commands cannot keep an event from
  the process forever.
* `Node`: `WF` of a period of the mains and of the two interrupts of its
  detector (hardware), of the device's answer, the receive interrupt and
  `uartsensors_server` (a polled process runs). `MainsIsSeen` and
  `HandshakeEnds` need them; nothing is assumed of users.
* `JoinTransfer`: `WF(System)`. Time passes, timers fire, what is not lost
  arrives. Losses are never forced and never excluded.

## Proofs

Every theorem holds for all values of the constants that satisfy the named
assumptions next to their declaration: sizes are positive, sentinels differ from
data. The assumption of `Node` has eight parts, and TLC evaluates it in every run
of `MCNode`:

* `Registers`, `Times`, `Detection`: periods, widths, the press duration and the
  load of the detector's timer are positive.
* `Bounds`: users and GUIs make a number of requests.
* `Traffic`: messages are made of bytes, and the length of one fits in the byte of
  the frame that carries it (`cp_encodemessage` has no room for a longer one).
* `Topology`: relays are the sources of pairs, and a device follows at most one.
* `Numbering`: the handshake numbers its requests 1, 2, ..., one for the count of
  sensors, one for each sensor and one for the readings; with those that early
  PUTs take in between, they stay below 255, the number under which the device
  speaks unasked. The code does not guard this (`msgid` of `uartsensors.c:80` is
  an int, the number on the line a byte): the last request for a 254th sensor
  would have the device's own number, and a reading would be taken for its answer.
* `Buffer`: there is a buffer, and a string of a sensor with its two zeros is
  within the 100 characters that `cp_decoderesource_conf` allows each (a longer
  one is refused, and the strings behind it are read out of step).

That of `Client` has five, evaluated in every run of `MCClient`: `Lists` (the pairs
file at the start is a list of pairs, the bounds are numbers), `Tables` (the
tables of the data base hold known nodes and their resources), `Digits` (a
byte has more than two values, a fixnum is a number of one byte that has its sign,
numbers fit in eight bytes and sizes in four: `int64_t`, `uint64_t` and
`uint32_t` of `lib/cmp.h` hold no others), `Messages` (`ShortMessages` of
`CoapPdu`: option numbers fit in 16 bits, values are shorter than 269 bytes, a
token has at most 8 bytes and the message behind its header at most 251, because
`setToken` and the moves take lengths in a byte) and `Codings` (`PairsFit` of
`PairCoding`: addresses, URLs and actions are of numbers, the device's name is
shorter than either reader's room, 100 and 40 characters, and what the GUI's buffer
of 200 bytes holds fits with the name in a record of 300). With two values in a byte, as `cmp.c`
does not have them, a fixnum of one bit would have to be both signs.

Theorems about a component by itself name the part they need as a hypothesis.
Seven theorems have a hypothesis on the environment, and a run or a definition
of the table of departures below shows that they fail without it (`PduTypes`
and `ClientTypes` share that of `MessageParsesAsBuilt`, whose invariant they are read from):

| theorem | hypothesis | without it |
|---|---|---|
| `StoreImplemented` | `~MidRewrite`: power does not fail inside `pairRemoveIndex` | run `Pairing_crash` |
| `PairsNotRedundant`, `NodeCanBoot` | `~MidRewrite`, `~EarlyTraffic`: commands come after the boot loop | `Pairing!NoRedundantPairs` with `EarlyTraffic = TRUE` |
| `ObserversRemembered` | `Reliable`, `InOrder` | run `ReverseNotify_reorder` |
| `ChangeIsNotStarved` | `Period + StepSize <= ValueSize + 1`: the accumulator has room for one step above the level | `PulseCounter!EveryPeriodReported` |
| `MessageParsesAsBuilt`, `ClientBuildsMessages` | `~AnyOrder`: a message gets its payload once, and behind it no option whose number is as high as the highest or higher, as `wsn.cpp` calls | `CoapPdu!ParsesAsBuilt` with `AnyOrder = TRUE` |

The other theorems hold whatever is lost, reordered or cut by power, `MidRewrite`
and `EarlyTraffic` included. Some properties name what they except, since the
code fails there: `ObserversAreRemembered` the observers served early and a pool
or queue that had no room, `TimerFollowsPin` and `CountedIsHeld` an edge that was
ignored or met the timer's expiry, `ParsesAsBuilt` a message with an option
behind a refused one, `RowsAreShown` the sensors whose insert failed and a start
that could not read the data base, `ViewFollowsFile` removals that overlap or
follow one another.

| theorem | states | argument |
|---|---|---|
| `SensorEventsProofs!TypeCorrect` | `TypeOK` | inductive |
| `…!WakeupKept` | `NoLostWakeup` | inductive given `TypeOK` |
| `…!PostsWereRaised` | `OnlyRaisedEventsPosted` | `RaisedInv`: a flag is owed unless its `if` is behind the walk at this device (the notification that just went out covered it); the same of the copy `reg` |
| `…!SpacedEdgesAreNotLost` | `SpacedEventsKept` | `SpacedInv`: at a spaced device nothing writes the flags during the walk, so load and store agree and the reset clears nothing |
| `…!ReportsAreCurrent` | `LastReportIsCurrent` | `ReportInv`: of a device with both level events, the one its value is not on is never outstanding; the other is, or was the last report |
| `…!PostingImplemented` | `ImplementsPosting` | each step of `Next` is a step of `EventPosting` or a stutter, under `SpacedInv` |
| `ReverseNotifyProofs!TypeCorrect` | `TypeOK` | inductive |
| `…!PowerLossKeepsSources` | `SourcesSurvivePowerLoss` | an invariant that says, for each position of the list, where its address is in the file while `writeFile` is at record `wr`: the written part equals the list, the rest still equals the former list |
| `…!ObserversRemembered` | `ObserversAreRemembered` | `RememberInv`: an observer struct of a node with a pair is listed, or its event queued, or another request is coming (`SlotKnown`); an answer that takes such a node off the list always has its observe request behind it (`RepliesBehind`) |
| `PairingProofs!TypeCorrect` | `TypeOK` | inductive with `PointersOK` and `BlocksFilled` below |
| `…!PairsKept` | `PairsStayPut` | `PointersOK`: every pointer is to an allocated block; `BlocksFilled`: allocated blocks hold a pair; commands write only the next free block |
| `…!CreatedArePersistent` | `CreatedIsStored` | `CreatedInv`: there is a descriptor left for the append, and while a file is rewritten the last answer is not that of a join |
| `…!StoreImplemented` | `ImplementsPairStore` | `RewriteInv`: `temp` is what `PairStore` keeps of the records read so far, and the new file a beginning of `temp`; then every step is a step of `PairStore` or a stutter, the removal at the moment the file is created again |
| `…!PairsNotRedundant` | `NoRedundantPairs` | `UrlsInv`: stored URLs differ, and those of a device that is restored are on its list, with which a join is compared |
| `…!NodeCanBoot` | `RecordsFitPool` | `PoolInv`: the records stored are at most the blocks in use, and during the boot loop exactly those of the devices that are done |
| `JoinTransferProofs!TypeCorrect` | `TypeOK` | inductive; `Without` is shown to return a subsequence by induction over its length |
| `…!TimerKept` | `TimerRuns` | inductive given `TypeOK`: a message that is kept was sent again or is waiting, and either sets the timer |
| `…!GarbledOnlyIfDisturbed` | `UndisturbedIsWhole` | `TransferInv`: while undisturbed, one join is in turn at one block: the block is under way, or its answer is, or it was lost, and the buffer holds what was handled |
| `…!DoneWasJoined` | `DoneIsJoined` | from `TransferInv`: the answer that ends a join is to its last block |
| `NodeProofs!ActuationTypes` | `TypeOK` | with `RequestsAreFew`: counts stay within the bounds |
| `…!FollowersFollow` | `FollowersAgree` | `LastIsLevel`: the last notification under way carries the source's level; `CopiesAgree`, `TogglesCount`: what a follower will be when all that is under way has been taken, by the parity of it for a toggle |
| `…!EveryPulseIsAccounted` | `Pulse!PulsesAccounted` | inductive with the types; a wrap of the value is `rounds`, by division with remainder |
| `…!ReadingsTrailByAPeriod` | `Pulse!ReadingTrails` | from `PulsesAccounted`, modulo the width of the value |
| `…!ChangeIsNotStarved` | `Pulse!ChangeNotStarved` | `AccIsSilence`: the accumulator is the cut step times the silent periods |
| `…!TimerFollows` | `Button!TimerFollowsPin` | inductive with `TimerIsRight`, which also speaks of the moments with an edge pending, and `ExpiryIsOne`: of a timer left to count, an expiry in the queue and a callback under way there is one |
| `…!CountIsHeld` | `Button!CountedIsHeld` | `HeldCovers`: the ticks held cover the intervals counted, the one under way and a callback that is due |
| `…!AcceptedUpdatesAreStored` | `Setup!AcceptedIsStored` | `SetupInv`: requests and answers under way, of which a GUI may have any number, have the shape of their kind, and the objects stored the types of the node's |
| `…!TypesNeverChange` | `Setup!TypesStay` | part of the same invariant |
| `…!SetupTypes` | `Setup!TypeOK` | with `SetupInv`; of requests there are no more than `MaxSetups` |
| `…!ProxyTypes` | `Proxy!TypeOK` | with `Handshake`: a request or an answer under way has the number of its sensor, and none is ahead of the sensor asked for |
| `…!RowsAreSensors` | `Proxy!RowIsItsSensor` | the configurations by `Handshake`; the readings by `InTime`: while buffers are read in time the posted ones are those behind the active one (`Ring`), and what is ahead, in buffers and on the line, is newer than what is kept (`Newer`) |
| `…!StringsTypes` | `Strings!TypeOK` | with `StringsKept` |
| `…!StringsAreKept` | `Strings!StringsIntact` | `StringsKept`: a message under way lies whole behind all that is kept (`Waiting`), and what is kept of each sensor reads as sent and ends before the readings and the next sensor's (`RowsKept`); the decoding in place, string by string, is below |
| `…!MainsTypes`, `DetectorStaysAwake` | `Mains!TypeOK`, `Mains!NeverAsleep` | a timer that is enabled has time left, and one of the two that start one another is, or the pulses are |
| `…!FrameTypes` | `Frames!TypeOK` | exclusive or, checksum and escapes stay within their width, by induction over the bytes (`ChecksumIsWord`, `StuffedIs`) |
| `…!PlainFramesAreRead` | `Frames!PlainFramesArrive` | `QuietLine`: on a line without noise the node is between frames, or buffer and line together are the one frame under way |
| `…!NodeTypes` | `NodeTypeOK` | `NodeFollowsParts` and the types of the eight parts; the focus stays |
| `…!NodeCountsPulses`, `NodeTimesPresses`, `NodeCountsPresses`, `NodeFollowersAgree`, `NodeStoresSetups`, `NodeProxiesAreRight`, `NodeKeepsStrings`, `NodeStaysAwake`, `NodeReadsPlainFrames` | the properties of `Node` | `NodeFollowsParts`: a behaviour of the node is one of each part, stuttering while it rests |
| `ClientProofs!SensorsAreThoseStored` | `Store!RowsAreShown` | `StoreInv`: while both tables could be read, the sensors listed of a known node that have a row are the rows stored of it, in their order; taking rows by a condition distributes over appending rows (`OnlyOfConcat`) |
| `…!ListFollowsFile` | `View!ViewFollowsFile` | `ViewInv`: what rows and file have in common, by what is under way (below) |
| `…!WrittenIsWhatIsRead` | `Mp!WrittenIsRead`, `Mp!ReadersTakeWhatFits` | `MpInv`: the buffer is the cells of the calls one behind the other, and the reader is where the next of them begins as long as it was given what it asked for |
| `…!ReaderStaysInBuffer` | the reader's place is in the buffer or just behind it | part of `MpInv` |
| `MessageProofs!MessageParsesAsBuilt` | `ParsesAsBuilt` | `PduInv`: the message is the token, the options in the order of their numbers and the payload, one behind the other (`Laid`), and what is noted of them is true (`Sound`) |
| `…!PduTypes` | `TypeOK` | read from `PduInv` |
| `PairCodingProofs!PairReadAsJoined` | `PairsReadAlike` | `PairInv`: the file is the records of the pairs that should be stored, one behind the other (`InFile`), what was read of a list is its beginning unless a removal fell between, and what is said of the rows and the answer is so (below) |
| `…!PairCodingTypes` | `TypeOK` | read from `PairInv` |
| `ClientProofs!StoreTypes` | `Store!TypeOK` | `StoreInv`, with `StoreLists`: the other lists |
| `…!ClientKeepsValues`, `ClientShowsSensors`, `ClientShowsFile`, `ClientBuildsMessages`, `ClientReadsPairs`, `ClientTypes` | the properties of `Client` | `ClientFollowsParts`, as `NodeFollowsParts`; what `MessageProofs` and `PairCodingProofs` prove is instantiated, and `MessageAsProved` and `PairsAsProved` show that the instances say the same |

Why strengthening is needed: `OnlyRaisedEventsPosted` speaks of the one event
the walk is at, while the reason it holds is in all flags of all devices;
`SpacedEventsKept` is not inductive because the reset may clear a flag unless
one knows the flags it clears are empty; `SourcesSurvivePowerLoss` is about a
crash at any record, so the file has to be known in the middle of a write;
`PairsStayPut` needs to know that no pointer is to a free block;
`UndisturbedIsWhole` says nothing of the moment before the last block, so
`TransferInv` follows the transfer block by block, and `NewIsFresh` says where
it starts. `TransferInv` also holds in TLC, with 2 and with 3 blocks.

`FollowersAgree` says nothing while notifications are under way, so its
invariant has to; `CountedIsHeld` speaks of the moment of an event, and its
invariant of the ticks between; `AcceptedIsStored` is about one step, whose
guard says nothing of the payload without `AskedShape` and `HeldTyped`.

`CreatedIsStored` is about the moment after an answer, `CreatedInv` about all
that may happen until the next; `NoRedundantPairs` compares what is stored, but
the code compares a join with its list, so `UrlsInv` has to relate the two;
`RecordsFitPool` counts over all devices, and `PoolInv` follows the boot loop
that reads them. `RowIsItsSensor` says nothing of what is on the line; both its
invariants are mostly about that.

`PlainFramesArrive` speaks of an empty line, `QuietLine` of every byte on its way
there: as long as no byte of a frame needs an escape, `last_c` is never an ESC,
and what the buffer has and the line still holds are together the frame, whose
END comes last; the checksum of the whole is that of the sender, so the frame is
decoded to what was sent. That an escaped frame may be refused, or decode to
something else, takes nothing from the others, because a sequence stays within
`got` when more is appended to it. The types of the frames need that exclusive
or stays within its width, which `Halves` gives from one width to the next.

`StringsIntact` is not inductive: it says nothing of the message that is yet to
be decoded, of where the next one will be written, or of the room for readings.
`StringsKept` does. That the decoding, which writes over what it reads, does not
overtake itself is shown for one string (`ReadStr` copies to cells it has read,
because the head in front of every string is not kept)
and then five times in a row, once for each field; each step carries what was
read so far and what of the message is left. Where a string ends is a `CHOOSE`
over the cells, which is determined by the least number that is one
(`LeastNumber`, by the library's well-founded order of the natural numbers). TLC
checks `StringsKept` with the constants of `MCNode`.

`ViewFollowsFile` says nothing until all requests are answered. `ViewInv` says
why it holds then: as long as nothing overlaps there is one message at most, and
it belongs to the one open request (`Together`); the newest answer to a reading
has the file as it is (`LastRead`), so a list that is parsed in quiet starts
afresh whatever happened before; and while a removal is under way the file is
what the node kept of the rows when it was given the ids of the last command
(`Follows`). That the GUI then takes off its list just the rows the node took
out of its file are two inductions: `AckedIs` for the GUI, which looks for each
id from the front, and `KeptIs` for the node, which walks the file once and
passes over the ids in turn. The second needs ids that ascend, which
`MarkedIs` shows of the marked rows; both need rows whose ids are their places,
which is what a second removal breaks. Nothing is claimed while a request is
open whose message was lost. TLC checks `ViewInv` with up to 3 requests, one
rival and one retransmission, and with 4 requests without them.

`WrittenIsRead` speaks of the value that was returned, `MpInv` of where it was
found. The rest is about the forms: each writer writes one form that holds its
value (`TypedWrites`, `CellsAre`), whatever the reader it is read by there is no
cell that is taken for the marker of another form, and `cmp_read_object` returns form and
value and the place behind (`ObjectForms`). That a number of n bytes reads as it was
written is an induction over the bytes (`NumberIs`): after i bytes from the front
the reader has the value divided by the power of what is left. For the signed
forms the value comes back from the upper half (`SignedIs`), and for each reader
of a C type its list of forms accepts just the values of the type
(`SignedFits`, `UnsignedFits`) when the writer chose the shortest form.

`ParsesAsBuilt` speaks of what the walk of the receiver finds, `PduInv` of
where everything lies: there are places, one for each option and one for the
end, at which the bytes of the options lie one behind the other, each coded as
the difference to the number before it, and what is behind them is the payload
with its marker, if there is one. From there the walk is an induction over the
places (`WalkGoesOn`, `WalkIs`, by `OptionAtIs`: the nibbles and extra bytes of
one option give back its difference and value). That the calls keep it is about
moving bytes. `InsertLaid`: an option put in goes behind those with its number
(`FindIs` against `PlaceIs`), the options before it stay, the next one is coded
again as the difference to the new number (its header may take fewer bytes than
before, `MiddleIs`), and those behind it move as they are. `ShiftLaid` is the same for a
token of another length and `TailLaid` for a payload. `AddAllIs` does it for
`setURI`, which adds options one by one until one has no room. TLC finds no
message of the run that is not read as built; that none is for any number of
options, lengths and calls is what the induction adds.

`PairsReadAlike` speaks of what three readers return, `PairInv` of where the
cells lie: the file is flattened out of the records, so there are places, one
for each record and one for the end, at which they lie (`Laid`). What one
writer wrote is read wherever it lies (`Holds`): an object by its marker
(`ObjectIs`), an array number by number (`ArrayIs`), a string if there is room
(`StringIs`), a record part by part, up to its URL if that is too long
(`PartsAre`). Over the places the loops that read a file are inductions: one
record is read for each, and then no head is found (`RecordsAre`); the heads,
which bound both loops, are at least as many as the records because each place
has one (`HeadsOf`). `RestoredIs` then is the restart; `RowsAre` the list, whose
rows end at the first long URL; and `KeptIs` the removal, which passes over the
same ids in the records as in the pairs. A list is read in blocks that end
anywhere: what was read is a beginning of the file (`Reading`), which stays one
when a join appends, but not when a removal rewrites, and a block that is not
full completes it (`BlockIs`).

The recursive functions of the model (`KeptUpTo` of `PairStore`, `Kept` and
`Acked` of `PairView`, `Power` and `numberUpTo` of `MsgPack`, `walked`
and `Added` of `CoapPdu`, `OnlyUpTo`, the lengths summed by `RecordsFitPool`) are
unfolded by `RecursionExists` (those of `CoapPdu` and `PairCoding`, which end at
a length, in `WalkedDef`, `AddedDef`, `NumbersReadDef` and their like): a
recursion over the natural numbers has a solution, as a union of the chains that
begin it, so the `CHOOSE` behind the definition finds one. `NumbersInduction`, in
`JoinTransferProofs`, `PairingProofs`, `MessageProofs`, `PairCodingProofs` and
`ClientProofs`, states induction over the natural
numbers in first-order form: a set with 0 and all successors has all numbers;
`SequencesInduction` does the same for sequences and `Append`.
The library's own theorem takes an operator as its parameter, which the provers
cannot instantiate.

Only model-checked: liveness (`EveryEventPosted`, `KnownNodesReturn`,
`EveryPairObserved`, `EveryJoinEnds`, `MainsIsSeen`, `HandshakeEnds`), which is
out of the provers' reach; of `Node`, `AcceptedIsSent`, which is no theorem: a
checksum of 16 bits does not tell all frames apart, so for some messages and
some disturbance it fails, and that none of those is met is what the run shows of
the messages of `MCNode`. `NeverAsleep` of `MainsDetector` and
`PlainFramesArrive` of `UartFrames` are proved and have no run of their own.

## Where the code departs from its documentation

Shown by a run:

1. **A lost event** (`SensorEvents_lost`). `susensors_process` stores over the
   flag byte that ISRs set bits in (`lib/susensors.c:519-531`); an event raised
   between test and store is never notified.
2. **A forgotten observer** (`ReverseNotify_reorder`). A 2.02 answer that was
   sent before the node was paired arrives after it registered, and
   `txPresence_cb` takes it off the list (`lib/susensors.c:405`).
3. **Pairs lost with the power** (`Pairing_crash`). `pairing_remove` removes
   the pairs file before it copies `temp` back (`pairing.c:210`); a `temp` left
   by an earlier failure is copied back as well.
4. **A garbled join** (`JoinTransfer_slow`). The time-out of a message counts
   from its first block and no answer restarts it (`wsn.cpp:105`); the block
   sent again is appended a second time (`pairing.c:87`). The same happens when
   an answer is lost.

Stated in the modules, seen in the models, and without a run of their own. Each
is seen by naming the definition as an invariant or a property of the
configuration given:

| definition | configuration | what happens |
|---|---|---|
| `ReverseNotify!FileHoldsOnlyTheList` | `ReverseNotify_known` | the file is not truncated; a node taken off the list is read back at the next boot (`reverseNotify.c:98`) |
| `ReverseNotify!AllObserversAreRemembered` | `ReverseNotify_known` | an observe request served before `susensors_process` runs is never recorded (`lib/susensors.c:66`) |
| `ReverseNotify!KnownNodesReturn` | `_return` with `MaxTrans = 1` | a presence message without a free transaction is never sent (`lib/susensors.c:420`) |
| `Pairing!RefusedIsStored` | `Pairing_store` | a pair removed by index is still on the list, so joining it again is answered 3.04 and not stored (`pairing.c:341`) |
| `Pairing!RefusedIsListed` | `Pairing_store` with `Records <- TwoNodes` | only the URL is compared, not the node (`pairing.c:338`) |
| `Pairing!RemovalsHaveDescriptors` | `Pairing_store` | a removal from an empty file leaves `temp` open (`pairing.c:207`) |
| `Pairing!RemoveAllStopsObserving` | `Pairing_store` | the observe relations of removed pairs stay (`pairing.c:119`) |
| `Pairing!ObservesOwnUrl` | `Pairing_store` | a reused block keeps its sub-URLs (`pairing.c:273`) |
| `Pairing!HandlersMatch` | `Pairing_store` | event handlers are per device, so the last pair's win (`lib/susensors.c:477`) |
| `Pairing!NoRedundantPairs` | `Pairing_store` with `EarlyTraffic = TRUE` | a join before the boot loop is compared with an empty list (`pairing.c:337`) |
| `PulseCounter!EveryPeriodReported` | `Node` | the change step is cut to eight bits: a level of 500 is reported in every third period (`susensorcommon.c:217`), and one above 65536 − 256 may never be, because the 16-bit accumulator wraps first (`:236`) |
| `PulseCounter!ReadingsGrow` | `Node` | between the wrap of the hardware counter and the run of the process a reading lacks a period (`pulsesensor.c:264`) |
| `MainsDetector!GoneIsGone` | `Node` | with both interrupts pending, "gone" is reported although the mains is there (`mainsdetect.c:230`) |
| `PushButton!EventEverySecond` | `Node` | the interrupts of a release and of the next press come after the long-press timer expired and before its callback ended: it counts and posts an interval of a press that has just begun (`button-sensor.c:112`); a release in the middle of the callback leaves the timer running on a released button (`:115`) |
| `Actuation!AlwaysAgree` | `Node` | a lost notification is not repeated, so a follower differs until the next one |
| `Actuation!ComesToRest` | two relays that copy one another, notifications taken fairly | two crossing notifications chase each other for ever |
| `EventSetup!ShownIsAccepted` | `Node` | an update coded before the set-up was read is refused after it was shown (`sensor.cpp:72`) |
| `EventSetup!RefusedChangesNothing` | `Node` | the levels before the wrong object are stored, and the answer is 4.00 (`susensorcommon.c:71`) |
| `UartFrames!JoinedIsRefused` | `Node` | two frames whose END is lost pass the checksum as one (`uart_protocolhandler.c:55`) |
| `UartFrames!FramesArrive` | `Node` | an escaped byte is stored behind the ESC that announced it, so a frame with one is refused |
| `UartProxy!ReadingsDoNotGoBack` | `Node` with `MaxOwn <- 3` | a buffer that is filled again is read twice, the new frame before older ones (`uarthandler.c:60`) |
| `UartProxy!HandshakeEnds` | `Node` with `EarlyPuts <- TRUE` | a PUT to a sensor that is listed already takes the number the handshake waits for (`uartsensors.c:198`) |
| `UartStrings!AnyGroupReads` | `Node` | a group longer than its type is refused, and the attributes with it (`uart_protocolhandler.c:178`) |
| `CoapPdu!AddedAreFound` | `Client` | `addOption` notes the number of an option before it refuses it for want of room, and counts the next one from there, which is read as another (`cantcoap.cpp:1008`) |
| `CoapPdu!ResetIsReusable` | `Client` | `reset` clears the version as well, so a message built anew is not valid (`cantcoap.cpp:188`) |
| `CoapPdu!ParsesAsBuilt` | `Client` with `AnyOrder <- TRUE`, or with option values of 269 bytes | some orders of the calls, and the two-byte length, go wrong; the GUI uses neither |
| `PairCoding!StoredIsShown` | `Client` | the GUI has 40 bytes for a URL, the node 100: a longer one hides its pair and those behind it (`sensor.cpp:480`) |
| `PairView!ViewFollowsRemovals` | `Client` with `MaxRequests <- 3` | rows keep their ids after a removal, so the next one removes others (`pairlist.cpp:156`) |
| `NodeStore!ListedOnce` | `Client` | asking a node for its links again lists and stores all its sensors again |
| `NodeStore!EverythingReturns` | `Client` | nodes the user created are not stored, so their stored sensors are not shown |

A definition of a component of `Node` or `Client` is named through its
instance there, e.g. `Pulse!EveryPeriodReported`.

## What is not modelled

* The GET handlers of a value and of the ranges, of the nodes and of the uart
  proxies: they only read. The `cfsformat` and statistics commands of
  `nodeinfo`. `configure` of drivers that have none.
* Exhaustion of `mmem` and `malloc`, a record torn inside an append of a pairs
  file, files longer than the flash.
* The boot loops of `Pairing` and `ReverseNotify` post to one queue in the
  code; each module has its own. `initReverseNotify` does not close its file,
  which costs one descriptor for as long as the node is up: `MaxFd` is what is
  left of them.
* Observe requests that are refused or time out (`notification_callback` only
  logs).
* Code under `USE_BR_DETECT`, which is not defined.
* Observe tokens and RST messages of the GUI, its test events, `Block2` on the
  way of any list but that of the pairs.
* Of the uart sensors: `uartsensors_updateVal` and `uartsensors_reset`, which
  nobody calls, and the contents of a PUT, whose index the code does not
  initialise before it reads through it.
* Of the codings: printing (`cp_cmp_to_string`, `printHuman` and their like),
  `httpStatusToCode`, string conversions of cantcoap.
* Of the node store: the configuration of the border router, display data, a
  query of the data base that breaks off in the middle of a table.
* Interrupts that find Contiki's lists of timers half changed: the interrupt of
  the push button calls `ctimer_set` and `ctimer_stop`, which the processes use
  as well.
* An empty selection in the pair list, which makes the node compare with an
  uninitialised index; a join longer than the GUI's buffer.
* `targets/` is platform code without state of its own beyond Contiki's.
* The CoAP engine, `process_post`, the network and the clock are external:
  modelled from how the code uses them.

## Plan

Done, from what would hurt most to what would hurt less: `SensorEvents`,
`ReverseNotify`, `Pairing`, `JoinTransfer`; then the devices of the node, the
uart proxy and the event set-up (`Node`); then the client's codings, lists and
tables (`Client`); with the proofs above.

Left:

1. One queue for the boot loops of `Pairing` and `ReverseNotify`.
2. The observe relations of the GUI (tokens, RST) in `JoinTransfer`'s client.

## Use

    tlc -workers 2 -config SensorEvents_edges.cfg MCSensorEvents
    tlc -workers 2 -config Pairing_store.cfg MCPairing
    tlc -workers 2 -config ReverseNotify_known.cfg ReverseNotify
    tlc -workers 2 -config Node.cfg MCNode
    tlc -workers 2 -config Client.cfg MCClient
    tlapm SensorEventsProofs.tla

A run takes between a second and about two minutes on two cores.
