# dsm-viz: verification project

dsm-viz shows, in a browser, what passes through a pair of drone security
modules (DSM): packets of the flight controller (FCC) and of the ground station
(GCS), before and after encryption, the MAVLink messages in them, and the state
of the module. This directory holds TLA+ models of its programs, TLC
configurations that check them on small instances, and TLAPS proofs of every
safety property those configurations check.

```
 DSM, or            TCP, 4-byte header     packet client      WebSocket, JSON text
 replay simulator  ------------------->   (C++ or Python)  ----------------------+
 sim_mon_srv.c      cmd seq len payload    client/                                |
                                                                                  v
   browser  <---- WebSocket: every text frame goes to every connection ---- server.py
   (page from index_handler)                                        (websocket_handler)
```

Line numbers below and in the modules are those of the file a module names in
its header.

## 1. Inventory

### Components, their state and their operations

| component | state | operations | interacts with |
|---|---|---|---|
| WebSocket relay, `server/server.py` 18-56 | the global set `websocket_clients`; per connection a handler coroutine, its local `disconnected_clients` and set iterator; transport buffers of aiohttp | register, take a frame, write it to every client, drop failed clients, unregister | packet client (producer of frames), browsers (listeners); all handlers share the set |
| C++ packet client, `client/client.cpp` | `pc` of `main`, `ret`, the TCP socket, `connected`, the websocketpp connection and the thread `ws_thread`, one global MAVLink parser state | connect with a 5 s wait, greet, dial the device, read header and payload, forward, parse MAVLink, clean up, restart after 3 s | device (TCP), relay (WebSocket); `main` and `ws_thread` share `connected` and the connection |
| Replay simulator, `server/simulator/sim_mon_srv.c` | position in the dump and in the buffer, `ts_first`, `ref_time`, `client_fd` | accept, read a record, wait for its time, send it in blocks, rewind, hang up | one TCP client at a time |
| Dashboard page, `server/server.py` 266-542 (script in `index_handler`) | four series objects, seven text areas, the state panel, moving averages | handle one WebSocket message; append, trim, draw | relay |
| Packet statistics, `client.py` 27-36 and 72-116, `server.py` 403-513 and 579-640 | frequency tables, moving averages | classify a packet, format its bytes; entropy, chi-square, reduced chi-square | Python client, dashboard |
| Chart rendering, `server.py` 571-577 and 642-901 | `chartStates`, SVG elements, scales | make a chart, draw the series, load event | dashboard |
| Sequence monitor, `simulator/mon_print.c` 126-154 | `g_seq_prev` | compare each packet's sequence number modulo 256 | replay simulator |
| Packet and MAVLink printing, `mon_print.c`, `mavlink_print.c`, `libcup_dump.c` | none (one parser state) | format to the console | replay simulator |
| Command-line client, `simulator/mon_cli.c` | socket, position in a packet | read header, read payload | device or simulator |
| Python packet client, `client/client.py` | socket, WebSocket with its queue of unread frames and its keepalive, the main task and its cancellation | as the C++ client, in one coroutine; interrupts | device, relay |
| Static files and start scripts | none | serve files, start and stop processes | all |

### What is hard

* **Interleaving at awaits.** `websocket_handler` iterates the shared set while
  it awaits each send (38-40); every other handler may run there and add or
  remove members, and `disconnected_clients` is subtracted (45) long after its
  members were found to fail.
* **Two threads.** `cleanupWebSocket` (56-65) tests `connected`, closes and
  joins while the WebSocket thread opens, closes or loses the connection, and
  `main` calls it twice per session, a third time from its exception handler.
* **Status carried over.** `ret` of one packet's send is tested after the next
  packet's payload (374); `ts_first` of one pass over the dump is used in the
  next (187, 190).
* **Waiting for each other.** The relay echoes every frame to its producer, and
  the Python client reads none: its send and the relay's may wait for each other.
* **Blocking calls in a coroutine.** While the Python client is in `recv`, no
  loss, no cancellation and no keepalive is handled; an interrupt takes effect
  at the next await that suspends.
* **Page load.** The load event may come after the first messages, and makes the
  charts anew.
* **Back-pressure.** A slow browser suspends the handler of the producer, and so
  every other browser's stream; but not at every frame, because the writer asks
  for the transport only now and then.
* **Failures in the middle.** Exceptions that pass the cleanup of a socket, a
  send that takes part of a record, a record cut off by the end of the dump, a
  client that vanishes between two sends.
* **Numeric edges.** Limits of series and text areas, sequence numbers modulo
  256, division by a number of bytes that may be zero.

`PROJECT.json` lists every hazard at its line with the properties that would
catch it; a hazard no property covers yet has a note.

## 2. Modules

| module | models | checked by | proved in |
|---|---|---|---|
| `FanOut` | what the relay promises, without handlers, queues and iterators | as `KeepsPromise` of `BroadcastServer` | `BroadcastServerProofs` |
| `BroadcastServer` | `websocket_handler` and its transports | `MCBroadcastServer` | `BroadcastServerProofs` |
| `MonitorClient` | `client.cpp` | `MCMonitorClient` | `MonitorClientProofs` |
| `PyMonitorClient` | `client.py`: coroutine, restart, interrupts, keepalive | within `EchoPipeline` | `EchoPipelineProofs` |
| `EchoPipeline` | `PyMonitorClient` and an instance of `BroadcastServer`, closed with each other | `MCEchoPipeline` | `EchoPipelineProofs` |
| `ReplaySimulator` | `mon_server_task`, and the drop report of `mon_print_packet` | `MCReplaySimulator` | `ReplaySimulatorProofs` |
| `Dashboard` | the page's message handler, its charts and load event | `MCDashboard` | `DashboardProofs` |
| `PacketStats` | classification, formatting, frequencies, chi-square, averages | `MCPacketStats` | `PacketStatsProofs` |
| `NaturalLemmas` | nothing: two facts about natural numbers that proofs share | | itself |

The `MC` modules only give values to constants. Definitions whose comment
begins with "Fault:" are never part of a specification: each is a plausible bug
in the definition that follows it, and shows that a property can fail (the
table `mutants` of `PROJECT.json` says which).

### BroadcastServer

`pc[c]` is where the handler of connection `c` is: `none` (before
`ws.prepare` returned), `receive` (in `async for`), `iterate` (runs the loop of
line 38 and holds the event loop), `drain` (its send waits for a paused
transport), `ready` (its send can return), `done`. A coroutine keeps the event
loop until it awaits something that is not ready, so every action except the
steps of a handler in `iterate` asks for `LoopFree`.

* `Connect` is lines 25-28, `TakeMessage` 30-38, `SendWrites` and `SendFails`
  one iteration (38-42), `SendReturns` the return from the await,
  `FinishBroadcast` 45, `IterationRaises` the RuntimeError of the iterator that
  leaves through 50-53, `RejectFrame` a close frame, a frame that does not
  parse or an error frame (31-51), `EndOfFrames` the end of `async for`. The
  last three end in `Leave`, the `finally` clause.
* The set iterator of CPython compares the size of the set with the one it
  remembers before each element (`SizeChanged`). When the size is the same
  again after changes, the table may have been rebuilt, and an element may come
  twice or not at all: `churned` records that, `MayYield` and `MayStop` allow it.
* aiohttp: a frame is written at once (`Write`), and over the high-water mark the
  transport is paused. The writer of a connection, which all handlers share,
  counts what it has written (`unchecked`); only a write that takes the count
  beyond `DrainLimit` asks for the transport (`Asks`), resets the count and waits
  if the transport is paused. All other writes return at once, paused or not (or
  yield once, in the compression worker). So a paused transport holds more than
  the mark and one frame per waiting handler, and `Backpressure` says how much
  more. A lost transport wakes the writers, drops the buffer and makes further
  writes raise. Sizes are counted in frames, in the code in bytes: the mark and
  the 64 KiB of the writer become `HighWater` and `DrainLimit`.
* A peer that reconnects is a new element of `Conns`.

`FanOut` is the promise: members, connections that are gone, connections that
have left, frames sent and frames read. A peer reads the frames of one sender in
order, none before it was sent and none through a lost connection. A member that
is up is taken out only when it leaves by itself (`Leave`, after which it is in
`over` and neither joins nor publishes again); others may only `Forget` members
that are gone. It promises neither that every frame arrives nor that it arrives
once, because the code keeps neither (`BroadcastReachesAll` fails). The
refinement mapping is by renaming: `members` is `clients`, `gone` is `lost`,
`sent` is `taken`, `read` is `seen`; `over` is the set of the connections whose
handler has returned, so that a `Leave` is only ever the return of that
connection's own handler, and a broadcast that drops a live listener is no step
of `FanOut`. Everything a handler does between taking a frame and the peer's
reading it is a stutter of `FanOut`.

### PyMonitorClient and EchoPipeline

`pc` is where the coroutine is. It gives the event loop a turn only where it is
suspended: in `connect`, in `drain` (a send on a full transport) and in `close`.
Everything the library does (taking echoed frames into its queue, keepalive,
noticing a loss, delivering a cancellation) happens there, and nothing of it in
`dial` and `recv`, which block.

* `Connect` is 50-56, `Dial` 58-62, `SendToWebsocket` 38-46, `Greet`, `Forward`
  and `ForwardMavlink` its three callers, `Receive` and `DeviceEnds` the framing
  loop 69-92, `Parse` 128-136, `CloseReturns` the `finally` clause and the next
  turn of `main`.
* `Interrupt` and `Cancelled` are SIGINT as `asyncio.run` handles it: the first
  cancels the main task (the `CancelledError` passes 44 and 152, and `main`'s
  handlers), the second raises `KeyboardInterrupt` where the code is.
* The echoed frames fill a queue of `MaxQueue`; then the library stops reading.
  A keepalive ping goes the way of every frame: when the transport is full it
  waits for room (`ping = "waits"`), and only one that was written before can
  time out and end the connection.
* `up` is what the relay has not read yet, of this session and of those before
  it. In `EchoPipeline` a connection is a session; its handler takes frames from
  `up` (`TakeFrame`), its close frame comes after them (`CloseFrame`), and the
  client reads the relay's buffer in `EchoArrives`.
* The relay forgets an ended session, with one exception that `SessionForgotten`
  names: its handler broadcasts the frames that are left to the next session
  too, and if that one is wedged, or silent with its transport full, the old
  connection stays in `websocket_clients`.

### MonitorClient

`pc` is where `main` is, `by` who called `cleanupWebSocket` (`monitorClient`,
`main` through `deinitialize`, or the exception handler of `main`). One turn of
the loop of line 489 goes from `start` to `sleep`. The WebSocket is one of the
connection states of websocketpp: `closing` covers both sides of the closing
handshake, `terminating` is the point where the close handler runs and
`connected` is reset. `close()` throws unless the connection is `open`.
Packets are of three kinds, because the control flow tells no more apart:
plaintext is parsed for MAVLink and may send a second frame, state is sent as
text and may throw in `dump`, the rest is forwarded. `undelivered` and `threw`
are history variables. Reading `connected` in `main` while the other thread
writes it is a data race on a plain `bool`; on the targets of this build the
read returns either value, and the interleaving covers both.

### ReplaySimulator

`dump` is the file: a sequence of records, each with its timestamp, the sequence
number of its packet, the number of its units of data, and its kind. The last
record may be cut off, and any may be longer than the buffer (`huge`). A length
field of 2^31 or more is negative in `pkt_len`: it passes the test of line 165,
`fread` takes the rest of the file, and the record is waited for and printed, but
nothing of it is sent. It is assumed that the rest of the file fits into `buf`,
and that each record holds the timestamp and the header of a packet.

`elapsed` is `get_utc() - ref_time`, in the unit of the timestamps, and saturates
at `Horizon`, one above every timestamp: beyond it no comparison of the code
changes. A `Send` is asked for at most `Block` of the `left` units of the record,
from the position `off` in the buffer, and takes any number of them: `left` and
`off` are `data_len` and `pos`. What the kernel took is recorded in `stream`. The
kernel buffer of the client holds `Room` units; a `send` that finds it full for
3 s fails, the first `send` after the peer closed succeeds and provokes a reset.

`prev` is `g_seq_prev`, which neither a new client nor a rewind resets, and
`report` the number of drops printed with the last packet. Only the very first
packet of the process is exempt: the first record of every later pass or client
is compared with whatever was printed before it, as in the code.
`ReportsTheDistance` says what the number means: the distance modulo 256 from the
record printed before, which is the preceding one of the file except for the first
of a pass. `passTime`, `last`, `stream` and `shown` are history variables.

A dump without any data to send never reaches `send` and so never notices that
its client is gone; the instances have some or end the session by themselves. A
timestamp below the first one makes the unsigned difference of line 190 huge (the
code waits for about 49 days); the model waits for ever there, and the instances
have no such record.

### Dashboard

A value of a series is the number of the packet it was computed from, a line of
text the number of the line in its area, a field of the panel the number of the
message that set it. `Cut` is the trimming of `addMessage` (312-320), where
`split` yields one empty piece after the last line. The rules that trim two
series and the timestamps together (426-432, 448-454, 479-486, 502-509) are kept
as they are. `chartStates` holds for each chart whether it exists, the least
maximum of its axis and the points its two lines show. `Draw` is the two update
functions with the drawing of 781-840; `Load` is the load event, which makes all
charts anew and leaves their lines empty until the next packet of the source.
`ChartsFollow` leaves the step of the load event out and says that nothing else,
in particular no packet that comes before or after it, puts a chart out of step.
The charts draw values by index; the timestamps are kept beside them.

### PacketStats

A packet grows byte by byte until the two bytes of its length field, up to
`MaxPayload`, say it is complete, is classified
by its first byte, and is formatted as pairs of hexadecimal digits. `Slot` is the
point of the model: an element of a JavaScript array is designated by a string
only if that is a decimal number without a leading zero, so of the 256 strings
the 90 from "10" to "99" count, in the slot of that decimal number. The comments
of the page say that every byte value is counted: `CountsEveryByte`, which fails
(run `stats_count`). Chi-square
is kept as a fraction with a whole numerator; `Total` is the loop over the 256
slots of the table, sixteen at a time, which changes nothing but the depth of
the recursion. A filtered sequence is given by the positions that stay in it.
The other properties say what the loss comes to: the slots that are used do not
mix values, a packet never looks less random than it is, and which packets turn
an average into NaN (line 639).

## 3. Runs

Passing runs check the properties named; a run that is expected to fail checks
one statement of a comment or message of the source which the code does not
keep, and is quoted under "findings" in `PROJECT.json`.

| run | instance | shows |
|---|---|---|
| `relay` | 3 connections, 1 producer of 2 frames, fair | `TypeOK`, `RegistrySound`, `Backpressure`, `SenderOrder`, `StableBroadcastDelivers`, `SendsEnd`, `LostIsForgotten`, `KeepsPromise` (the refinement of `FanOut`) |
| `relay_join` | as above, 1 frame | violates `BroadcastReachesAll` (comment of line 36): a browser that joins or leaves during a send ends the producer's connection, and the rest of the clients miss the frame |
| `client` | 3 polls, fair, a device that keeps talking | `TypeOK`, `DestroyedClean`, `LossBound`, `QuietExitCloses`, `LossRestarts` |
| `client_join` | 3 polls, fair | violates `EndedSessionRestarts`: the connection opens after the wait gave up and `join` waits for a thread nobody stops |
| `client_abort` | 3 polls | violates `NeverAborts`: `close()` throws in the exception handler of `main` |
| `replay` | 5 dumps of 2-4 records of up to 3 units, blocks of 2, room for 2, fair | `TypeOK`, `ReplayInOrder`, `RecordsWhole`, `ReportsTheDistance`, `GoneClientIsNoticed`, `StuckClientIsDropped` |
| `replay_pacing` | as above | violates `EveryPassPaced` (comment of line 193): after the rewind every record is overdue |
| `dashboard` | 6 messages, series of 2, areas of 3 pieces, the load event at any time | `TypeOK`, `ChartShowsNewest`, `StampsAligned`, `TextShowsNewest`, `ChartsFollow` |
| `stats` | 9 byte values, payloads of up to 2 bytes | `TypeOK`, `SlotsCountOneValue`, `NeverLooksLessRandom`, `AverageLostOnlyToNulls` |
| `stats_count` | as above | violates `CountsEveryByte` (comments of lines 586 and 614 of `server.py`): a byte whose string is not a decimal number, or begins with a zero, is counted nowhere |
| `pipeline` | 2 sessions of 3 frames, a queue of 1, no room beyond what is in transit, 2 interrupts, fair | `TypeOK`, `RelaySound` (registry, buffers and order of the relay), `SessionForgotten`, `InterruptStops`, `LossEndsSession`, `SendEndsUntilQueueFull` |
| `pipeline_wedge` | 1 session of 7 frames (three packets), a writer that asks at every second frame, fair | violates `SendEnds` (comment of line 94 of `client.py`): once the queue is full, client, relay and keepalive wait for each other |

Why the bounds are enough. Three connections are a sender, one it is just
sending to and one that changes the set meanwhile. `HighWater = 0` and
`DrainLimit = 1` let the first frame pass the mark without anybody waiting and
the second one make its handler wait, until the buffer is read. Two producers, whose loops are open
at once and whose frames meet in the same buffer, are in `pipeline` (`RelaySound`),
where two sessions send three frames each; three connections of which two send
are beyond a run with liveness, and there the theorems of section 4 stand for any
number of producers. `MaxYields` cuts only iterators of a set that changed. An
iterator that saw no change yields each element once, without a bound. Three
polls stand for the 50 of the 5 s wait: the code treats all but the last alike.
Five dumps cover each way a record can end (sent, skipped, cut, too long,
negative) and sequence numbers that wrap, skip, repeat and go back; four records
let the replay pass the end twice with a gap in time, and a record of three units
with blocks of two and room for two takes two or three sends and stops in the
middle. Six messages fill a series of two values and an area of two lines and
trim each several times. In `stats` the bytes are a command of each class and
strings of each kind: with a leading zero, decimal, with a letter at either
place. Payloads of two bytes reach only small packets; that the same holds for
every length of 16 bits is what the theorems add. `NeverLooksLessRandom` needs
fewer than 128 bytes that are not zero, and says so. In `pipeline` two sessions
are the old one and the one it is left behind for; three frames are the greeting
and both frames of a packet; capacities are as small as lets every queue be full,
since only full queues make anybody wait. (`DrainLimit` is 0 there, so that each
write over the mark waits; `pipeline_wedge` shows that the wedge needs no such
writer.) Interrupts come in the first session only: the second differs by what
is left of the first, which stopping does not look at.

Deadlock is checked in `replay` and `replay_pacing`. In the others the system
may stop: every connection of the relay may have come and gone, the process of
a client may have aborted or been stopped, and the dashboard has handled its
last message. (`stats` goes on for ever.)

### Fairness

* Relay: weak fairness of the steps of a handler that can run and of the reads
  of a peer that is up. asyncio's ready queue is FIFO and a run of the loop
  calls everything that was ready, so nothing that stays ready waits for ever;
  frames are bounded, so strong fairness is not needed. Nothing is assumed of
  peers that go away, of joins, or of new frames. aiohttp ends the transport of
  a handler that returned.
* Client: `main` and the thread are scheduled by the operating system; the
  timers of websocketpp end each handshake after 5 s. `LiveDevice`, used by
  `client` only, is the assumption that the device sends another packet or
  closes: a silent device may keep `main` in `recv` for ever, whatever the
  WebSocket does.
* Pipeline: both event loops run what can run, both libraries notice a connection
  that the other side closed, and the keepalive task runs. Nothing is assumed of
  the device or of losses; `LossEndsSession` says itself that the device goes on
  sending.
* Simulator: the process and the clock run; clients owe nothing.

## 4. Proofs

Every invariant and action property of the passing runs, and the refinement of
`FanOut`, is a theorem for all values of the constants. The assumptions are those
the modules state: `RelayAssumption` (a finite set of connections, `LowWater` at
most `HighWater`), `ClientAssumption` of the two clients and `PipelineAssumption`
(bounds and capacities are natural numbers), `DumpAssumption` (a dump is a
sequence of records, of which only the last may be cut off or of a negative
length; blocks and the room of the kernel are positive), `DashboardAssumption`
(positive limits, at least one line for a MAVLink message) and `StatsAssumption`
(bytes are numbers from 0 to 255, and the bound of a payload is any natural
number, so that of the code, 65535, is covered).

* `BroadcastServerProofs`
  * `TypeCorrect`: `TypeOK` is inductive.
  * `RegistryCorrect`: `RegistrySound` is not inductive by itself. Line 45
    removes members other than the handler's own, and only because they failed
    is that no loss of a live one. The invariant adds `FailedAreLost`: what a
    loop holds as failed is a lost transport.
  * `BackpressureCorrect`: inductive with `TypeOK`. Let u be the number of
    writes since the writer last asked. A write that does not ask adds one frame
    and one to u; one that asks on a paused transport adds one frame, takes
    `DrainLimit` from u and suspends one more handler, which pays for
    `DrainLimit + 1` (`WriteFacts`, `WaitersCost`); writers of one transport wake
    together, when its buffer is at the low-water mark or gone.
  * `SenderOrderCorrect`: a frame carries the number its handler took last,
    so the order of a queue needs that no number in it, nor the last one read
    from it, is beyond the counter (`QueueOrdered`). Three lemmas treat one
    queue: the counter grows, a frame is appended, a frame is read.
  * `KeepsPromiseCorrect`: `Spec => KeepsPromise`, that is, the relay implements
    `FanOut`. Each step is shown to be a step of `FanOut` or a stutter
    (`PromiseStep`), with the invariants of the two theorems before it: what a
    loop removes is lost, hence `Forget` is legal, and what a peer reads next is
    not before what it read and not beyond the counter, hence `Read` is. That
    a removal is `Forget` and not `Leave` needs `FailedAreLost` again.
  * `DeliveryCorrect`: the action property `StableBroadcastDelivers`. Its
    invariant (`DeliveryInv`) speaks of a broadcast in progress: unless its set
    was changed, it still runs over the members it began with, and each member
    it has yielded is lost or has the frame, in its buffer or read. That reading
    goes on without taking a delivered frame back needs the order of the queue
    (`ReadHolds`): a later frame of the same sender cannot be an older one.
* `MonitorClientProofs`
  * `TypeCorrect`: flags and the rest are shown apart.
  * `DestroyedCleanCorrect`: from `FlagFollows` (the flag is set exactly between
    the open and the close handler), `ThreadServes` (a connection in use has a
    running thread), `FreshStart` and `Joined`.
  * `LossBoundCorrect`: from `Greeted` (after the greeting the connection can
    only get worse) and `LossRecorded` (a packet that was not forwarded leaves
    an error in `ret` until the next payload).
  * `QuietExitCorrect`: where the socket may be open.

* `DashboardProofs`
  * `PageInv` says of every series and text area that it is the newest values
    up to its limit, counted from those that were measured or added. It is
    inductive: the trims of the ciphertext branch cut a series together with
    its timestamps, those of the plaintext branch test the length of the one
    series and the timestamps and never fire on the others (`CiphertextKeeps`,
    `PlaintextKeeps`), and `CutNewest` treats any number of lines of a message.
  * `PageTypes`: the limits follow from the same invariant.
  * `ChartsShowNewestPackets`, `ValuesKeepTheirStamps` and
    `AreasShowNewestLines` follow from it. For the second one the counts matter:
    both lists of a pair are as long as the same count makes them.
  * `ChartsFollowSeries` is an action property: one lemma for each handler of the
    page, and the load event as the exception.
* `ReplaySimulatorProofs`
  * `TypeOK` is not inductive: that a record in hand can be sent is known only by
    where it was read. `ReplayInv` adds three parts. `Place`: everything before
    the place in the file was sent in this pass, in order, or nothing of this
    pass was sent yet and the pass before was complete. `Portions`: what was sent
    and what is left make up the record, and the kernel has the units up to the
    position in the buffer. `Printed`: the number remembered is that of the
    record printed last, which is the one in hand, the one sent last to this
    client, or one of an earlier client.
  * `ReplayIsInOrder`, `RecordsAreWhole` and `DropsAreDistances` are the three
    action properties that follow, one from each part; the last one also needs
    the arithmetic of one byte (`DropsCountOn`).
* `PacketStatsProofs`
  * `StatsInv`: the header, of any length field, bounds the packet, what is shown
    was computed from it, and the averages are numbers as `AverageLostOnlyToNulls` says.
  * `NoTwoValuesShareASlot`: on the strings that have a slot, byte to slot is
    one-to-one (`SlotsDiffer`), for all 256 bytes.
  * `NoFalseAlarm`: `NeverLooksLessRandom`. The two sums, over the bytes and over
    the table of the page, are followed while one byte value after the other is
    entered into both (`EnterKeeps`). A value with a slot changes both by the
    same amount, wherever it goes. A value without one, that occurs t times
    among n bytes, puts the true sum ahead by t(256t - 2n), divided already by
    256: that is positive if n < 128, and `SquareGrows` is where the bound comes
    from. At n = 128 a value that occurs once adds nothing, so the property says
    "fewer than 128". The sums are loops over 256 slots, so the
    lemmas about `Total` say what it does to them when one slot changes.
* `EchoPipelineProofs`
  * `PipelineHasTheRelay`: `EchoPipeline` implements `BroadcastServer`. The
    module instantiates `BroadcastServerProofs`, so that what is proved of the
    relay with arbitrary peers is inherited (`PipelineKeepsTheRelay` for
    `RelaySound`,
    `PipelineDelivers`, `PipelineKeepsPromise`) and not proved again; the lemmas
    `Same...` identify the instance of the specification with that of its proofs.
  * `PipelineTypes`: needs `ClientInv` on the client's side. A frame is sent only
    when those before it have left room, or the client is suspended; and a
    session that has not begun has nothing on its way.

Induction. The induction theorems of the library take a predicate as a
parameter, which the provers here cannot instantiate. Where an induction over
numbers is needed (that the loop of `Total` ends with a value, that a finite
list has a largest element, that all byte values have been entered) it is
replaced by the least counterexample: a set of numbers that is not empty has a
least element (`LeastNatural` of `NaturalLemmas`, from the well-foundedness of
the order on the natural numbers). No definition of these modules is recursive
but that loop, over 16 terms and 16 rows.

Only model-checked: liveness, which needs ENABLED and fairness and is beyond the
prover. These are `SendsEnd`, `LostIsForgotten`, `LossRestarts`,
`GoneClientIsNoticed`, `StuckClientIsDropped`, `SessionForgotten`,
`InterruptStops`, `LossEndsSession` and `SendEndsUntilQueueFull`. The properties
of the runs that find a violation have no theorem, as they do not hold.

## 5. Not modelled, and simplifications

* Contents of packets beyond their bytes: JSON, MAVLink and its parsers (generated
  code that is not in the repository). What the control flow or a property needs
  is kept: the kind of packet, whether text is UTF-8, how many frames it makes.
  So a message that is split over two packets, which the one parser channel of
  `client.cpp` 447 loses when a packet of the other direction comes in between,
  looks like a packet without a message.
* The value of the entropy, which needs logarithms; its table is that of the
  chi-square. The p-value of `chi-square.js`, which the page does not load.
* The layout of charts, tab switching and the console output: functions of state
  that is modelled, or of one packet.
* `mon_cli.c`: one blocking loop. When `read` returns 0 inside a payload, its
  inner loop (line 81) turns for ever; a model would only repeat the line.
* The static file handler, set-up and shut-down of the server, the start
  scripts, and set-up errors of the simulator before `listen`.
* Connection attempts of the Python client that fail: it repeats them at once,
  because `monitor_client` catches every exception and the delay of `main` (168)
  is for one that leaves it.
* Noted in reading: `restart_delay` of the C++ client is read from the
  environment and not used (the wait is 3 s in the code); the error paths of a
  header or a payload close its socket twice (344 or 364, then 475), and an
  exception inside a payload or in `dump` does not close it at all
  (`QuietExitCloses` says that only an exception can), although the comment of
  line 474 says "always"; the two packet clients disagree on
  the source of commands 4 and 5 (`client.cpp` 381-410, `client.py` 99-116); the
  charts of the chi-square start with a least maximum of 2 at the load event and
  of 200 when a packet comes first; a packet of zero bytes only makes an average
  NaN, which the comment of `server.py` 420 calls a "simple moving average"; the
  simulator prints a mismatch with drops at every rewind and for every new client
  whose first number does not follow the last one printed, though nothing was
  dropped, and 255 drops for a repeated number (`mon_print.c` 142-154); a record
  with a length field of 2^31 or more is not rejected but read to the end of the
  file; a timestamp below the first one holds the replay for about 49 days.

## 6. Plan

Done: all parts that keep state but `mon_cli.c`, the refinement of `FanOut`, and
proofs of all safety properties. What would come next:

1. The safety half of the liveness properties, as invariants: who can wait for
   whom in `EchoPipeline`, and that a handler in `drain` always has a buffer
   above the low-water mark in front of it, so that a reading peer wakes it.
2. Abstract specifications of the simulator (a cyclic log with one reader) and of
   the page (windows of the newest values), with refinements like that of `FanOut`.
