# A TLA+ specification of the esp32_template firmware

The firmware runs on an ESP32 under FreeRTOS. Its centre is a table of
*registers*: named variables that Modbus and web clients, user tasks and the
firmware itself read and write, some of which are kept in flash. Around it lie
servers and clients of several protocols, control of Wi-Fi and sleep, and a set of
optional tasks that drive hardware. This project models the parts in which tasks,
callbacks, interrupts, resets and clients meet, checks them with TLC on small
instances and proves the main results about the core with TLAPS for all instances.

Paths below are relative to the repository, `main/` unless said otherwise.

## 1. Inventory

| Component | State | What is hard | What makes it correct |
|---|---|---|---|
| Saved registers (`regs.c`, `mirror_storage.c`, `regs_description.c`, `common.c`) | registers, a mirror with CRC and an NVS blob per table, `table_to_save`, `async_flags` | two semaphores that do not cover the same data; power cuts; failing NVS calls | what was saved comes back, no request is lost, the reset does not overtake the save |
| Writes through the API (`regs_set`) | one static byte buffer for all clients | an item arrives in pieces, requests for other items in between, errors in the middle | bytes stay with their item, limits and read only registers hold |
| Modbus TCP server (`modbus_tcp/`) | connection blocks, their list, receive buffers, retries | order of the lwIP callbacks, an exhausted pool, a close that fails | no block leaks or dangles, silent clients are given up |
| Modbus requests (`modbus.c`) | the request, its answer | word and bit addresses, writes that stop half way | what is read is what is stored, an answer means what it says |
| Register tables (`regs_description.c`) | list of tables, sorted descriptions | registration without a lock, odd sizes | a search finds the register that is there |
| Wireless control (`wireless_control.c`) | Wi-Fi state, retries, time of the stop | events of the driver against the task, merged notifications | the station connects again, the driver is set up once |
| Web server (`http/httpd.c`, `json.c`, `fs.c`) | connections, one shared answer buffer | two builds: workers behind a queue, or lwIP callbacks; partial writes | a client gets its own answer, whole and in order |
| HTTP client (`http/http_client.c`) | one request, its parser | segmentation, early close, timeout | one result, a success only for a whole body |
| Modbus master (`modbus.c:855`, `modbus_tcp_client/`) | client table, slave table, sockets, identifier, clock samples | late answers, slaves that move | an answer belongs to its request |
| SLIP (`slip_handle.c`) | buffers, receive state, settings | two senders, chunks that end inside an escape | frames arrive whole, buffers come back |
| Sleep and duty task (`sleep_control.c`, `common.c`) | `alive_timer`, notification bits, reset timer | merged bits, clocks that wrap | a sleep or a reset that was asked for comes |
| Device timer (`common.c`) | alarm, task, `sys_tick_counter` | late interrupts, failing set-up | the register keeps being refreshed |
| UDP broadcast (`udp_broadcast/`) | text lines, slave table | lost, repeated, reordered packets | a line is one whole text, the own or one sender's |
| Telegram, air sensor (`telegram.c`, `user_tasks/scd41.c`) | notification value, ring of samples | ORed values, restarts between two writes | a full ring is reported once |
| Memory pool (`memory_handle.c`) | markers, current index | wrap of the index | a block has one user |
| Updater (`updater/`) | boot partition, image | power cuts, clients that vanish | only whole images are booted |
| User tasks (`user_tasks/`) | marks, inputs, steppers, motors, LEDs, PWM | drivers that fail at any call, restarts | outputs follow the registers and stop when told to |
| Sonar (`radar/sr04.c`, `interrupt.c`) | times of two edges | an interrupt between two reads | a distance is one of a real echo |
| Display (`u8g2_esp32_hal.c`, `common.c`) | bus, lines, panel | rows shared with a callback | a row is whole |
| CRC (`crc.c`, `modbus.c`) | | bit order | damage is found |
| Touch, battery, e-paper; generator, web pages, makefsdata, camera example | | | not modelled, see section 6 |

How they interact: network callbacks (HTTP, Modbus TCP, UDP) run on the lwIP thread
and call `regs_set` and `execute_main_command` there. User tasks write their
registers with `regs_description_write_value`. Both end in `mirror_access_write`,
which asks `common_duty_task` for a save through `table_to_save`. Commands reach the
tasks as notification values, whose bits merge while they are not taken: this is the
most common source of trouble, and nearly every task model has it. `PROJECT.json`
lists every component with its status, and the hazards with their lines.

## 2. Modules

`A ⊃ B` says that A extends B.

**Registers and their clients**

| Module | Models |
|---|---|
| `SavedSettings` | the abstract store: what the flag `&save` promises of a register |
| `RegsStore` | registers, mirrors and flash; boot, writes, defaults, the duty task, resets and power cuts |
| `RegsSet` | the byte buffer behind `regs_set` and `regs_set_buffer` |
| `ModbusRequest` ⊃ `RegsSet` | `modbus_rtu_packet`: check of a request, functions 1 to 6, 15, 16 and their error answers; `Lookup == INSTANCE RegsLookup` gives its addresses |
| `RegsLookup` | registration of tables step by step, searches by name, guid, address, index and Modbus address |
| `RegsText` | the text of a register in a page and in a message; `extract_uri_parameters`, one round of its loop a step |
| `JsonRequest` | `get_json_handle`: pairs, register writes on the way, the answer with its lengths |
| `Crc` | the two 16-bit checks |

**Connections**

| Module | Models |
|---|---|
| `ModbusTcp` | connections, blocks and receive buffers of the Modbus TCP server |
| `HttpService` | the abstract service of a web server to its clients |
| `HttpRequest` | what a request does in both builds: parsing, files, permissions, the shared buffer |
| `HttpSockets` ⊃ `HttpRequest` | acceptor and workers, queue, mutexes, stop |
| `HttpCallbacks` ⊃ `HttpRequest` | the lwIP callbacks, pool of `http_state`, killing the oldest |
| `HttpPages` | `http_send` with dynamic headers and server side includes |
| `HttpClient` | one request from `httpc_get_file*` to the release of its state |
| `ModbusMaster` | one connection task with its tables |
| `Slip` | sending, reception and the packet of settings |
| `UdpBroadcast` | requests, answers and texts, signed or not, on an unreliable network; the lines they share with the own text of the display |
| `MemoryPool` | the pool and the address spaces in it |

**The device and its tasks**

| Module | Models |
|---|---|
| `Wireless` | `wireless_control_task` against the events of the Wi-Fi driver |
| `PowerControl` | `sleep_control_task` and the rounds of `common_duty_task` |
| `SysTick` | set-up of the device timer, its alarm, the task behind it; the measurement of a slave's clock |
| `Updater` | both directions of an update |
| `UserTasks` | creation, marks and end of the tasks, input pins, stepper |
| `Feeder` | when the feeder feeds; how its motor turns |
| `Polisher` | its task |
| `Outputs` | the LED strip and the PWM channels |
| `Sensors` | the air sensor with the telegram task that sends its reports; the sonar |
| `Morse`, `Display` | the keyer and the cursor of the display in its text; the panel and its bus |

**Instances and proofs.** `MCRegsStore`, `MCModbusRequest`, `MCHttpSockets`, `MCWeb`,
`MCLinks`, `MCDevice`, `MCTasks` and `MCSensors` are instances for TLC; `ModbusTcp` is
checked as it is. `RegsStoreProofs`, `RegsSetProofs`, `ModbusRequestProofs`,
`ModbusTcpProofs`, `HttpRequestProofs`, `HttpSocketsProofs` and `HttpCallbacksProofs`
extend their module and `TLAPS`; `ModbusRequestProofs` extends `RegsSetProofs` too.
`PartsProofs` has the proofs about smaller parts, which have no variable in common: it
extends `HttpClient`, `ModbusMaster`, `MemoryPool`, `Updater`, `Wireless` and
`RegsLookup`.

Components that do not interact share a run: `MCWeb`, `MCLinks`, `MCDevice`, `MCTasks`
and `MCSensors` join several modules (those with theorems they extend, the others they
instantiate), and a variable `part`, chosen at the start
and never changed, says which of them runs while the others stand still. The state
space is the sum of the parts, not their product, and nothing is claimed of
interactions between parts. A property of such a run is the conjunction of the named
properties of its parts, each stated and explained in the part's own module.

A definition with the comment "mutant" is a wrong version of the definition after
it: it shows that the property named beside it in `PROJECT.json` notices that
error. The specifications do not use it.

## 3. How state and actions correspond to the code

One action stands for what runs without interruption: a callback of the lwIP thread,
a critical section, a round of a task between two places where it waits, an interrupt
handler. Where code reads shared data outside of its lock, the action ends and another
begins. Names are those of the code; `map` in `PROJECT.json` gives the lines of every
definition. The environment (clients, network, drivers, power, pins) is a set of
actions of its own with a bounded number of events.

**`RegsStore`.** Each saved register is made of *cells*, the pieces in which a `memcpy`
moves it. `ram`, `mirror` and `flash` give the content of a cell in the three places;
`crc` and `flashCrc` give the content a CRC was computed from, so that it matches when
the two are equal. `pc` says where in `regs_set`, `mirror_access_write` or
`execute_main_command` a task is. `mirror_access_write` compares (`MirrorCompare`) and
copies (`MirrorCopy`) without the lock of the register, and a copy into a register
(`CopyCell`) goes cell by cell, so that every torn value occurs. Boot is `RegsInit`
and `PreinitTableVars`, the duty task `DutyWait` … `DutyRestart`, the environment
`PowerCut` and a failure of any NVS access. A save of a blob is atomic: NVS promises
that for a blob of one page. The history variables `failed`, `wiped`, `owed`,
`sentFor` and `promised` are never read by guards.

**`RegsSet`, `ModbusRequest`.** `item`, `flags` and `data` are `temp_data_buffering`;
`addr` and `rest` are the request in progress, one action per call of `regs_set`. A
Modbus request takes its checks, its address from `RegsLookup` and its calls of
`regs_set` from there, a JSON value comes as whole items and goes on after an error.
Bytes have two values in the instance. Bytes of a request's buffer that were not
received are arbitrary. `regs_write_access` is `Writable`: a register is not read only, or it
is a credential and the register `permission` allows those (`Permitted`; no generated
register is both, the instance has one). The commands that change `permission` are not among
the requests.

**`ModbusTcp`.** lwIP is external: a connection is offered once, may fail at any time
and is polled while a poll callback is registered. Of a receive buffer the model keeps
whether it holds a complete write request, and whose, since the checks look at the
length a function code implies and not at the length received.

**Web server.** `HttpSockets` gives each worker a place in `http_sock_worker_task`;
`HttpCallbacks` has one action per callback, in which `http_write` takes any part of what
it is offered. Both take the meaning of a request from `HttpRequest`. A file is a number
of chunks of which the first is its header. `HttpPages` goes down to characters,
because its property is about them.

**Network.** `ModbusMaster` has one connection task; the others are seen in the
identifier they share and the tables they fill. `UdpBroadcast` keeps every packet that
was ever sent and lets it arrive any number of times, or never. `Slip` reads its stream in
chunks of every size; a name in its settings that is padded with zeros is stored up to the
first one (`Stored`) and does not count as a change (`Changed`), as `regs_set_buffer` ends
with an error. `HttpClient` lets the answer arrive in every segmentation.

**Two builds of the keyer.** With a display `display_morse` is a second writer: once a second
it puts a cursor, or a zero, at `morse_message_position` of the text that is keyed
(`DrawCursor`) and copies that text into the line of the counter (`DrawOwn`). `Morse` lets it
come between any two steps of `handle_next_letter`, `UdpBroadcast` between the two critical
sections of a received text (`StoreText`, `Store`). Without a display these two actions are
never taken, so that what is checked holds for both builds. A device has an HMAC or not
(`hmac`), and packets too short for one are taken without it (`Valid`, `Speak`).

**Device and tasks.** A notification value is a set of bits that a task takes at once.
Time passes in rounds of the task's period. Driver calls may fail as often as the
bound on faults allows. A restart sets back what is not saved.

**Undefined behaviour** is a choice: words that an overlapping `memcpy` moves or
spreads (`SysTick`), the order of two reads of variables an interrupt writes (`Sensors`),
an uninitialised buffer (`RegsStore`), a division by zero (`Outputs`), the first value of
`task_timer` of `sleep_control_task` (`behind`: as long as it lies in the past, rounds come
without their 100 ms). A speed of the polisher from 1 to 15 has a pulse that does not
fit into 16 bits; `Duration` keeps the lower half, as the build does.

**The pulse of the polisher.** The speed becomes the low part of a pulse in microseconds
(`Pulse`), cut to the 15 bits of `duration0`: speeds from 1 to 30 play another pulse than
the one they ask for, from 10000 on all play the shortest, and 100 microseconds come on
top of each. `SpeedFollows` is about that pulse.

## 4. Runs

| Run | Properties | Instance |
|---|---|---|
| `store_races` | `NoLostSave`, `MirrorFollows`, `RestartAfterSave` | 2 tables, 3 registers in 4 cells, 2 tasks, 2 writes, 2 commands |
| `store_faults` | `MirrorSealed`, `SettingsSurviveReset`, `SettingsKept` | the same with 1 write, 1 command, 1 power cut, 1 NVS failure, an empty NVS or refused settings |
| `store_live` | `EventuallyDurable`, `ResetHappens` | 1 write, 1 command |
| `tcp` | `BlocksOwned`, `NoDanglingArg`, `OwnRequestsOnly`, `OldestGivenUp`, `SilentReclaimed` | 3 connections, 2 blocks, 2 segments |
| `registers` | `OwnBytes`, `FreshBytes`, `StoredRight`, `ReadRight`, `ReadOnlyKept`, `WritesImplementRegsSet` | 10 bytes of registers, one of them read only and one a credential, and 9 coils, any 3 of about 60 requests |
| `web_sockets` | `SocketsCounted`, `AnswersOwn`, `EveryClientClosed` | 2 clients, 2 workers or fewer |
| `web` | `AnswerRight`, `WritesOne`, `ConnectionsRight`, `ConnectionsEnd` | 3 JSON packs; 3 connections on 1 or 2 blocks |
| `links` | `ResultRight`, `AnswersRight`, `PoolApart`, `LinksRecover` | HTTP client, master, pool, SLIP |
| `device` | `ServicesAnswer`, `TextsKept`, `TransfersWhole` | Wi-Fi, sleep, keyer, broadcast, updater, pages |
| `tasks` | `TablesRight`, `TasksKept`, `TextsRight`, `TasksFollow` | tables, life of the tasks, feeder, polisher, display, helpers |
| `sensors` | `OutputsRight`, `AirReported`, `TimesReal` | LED strip, PWM, air, sonar, timer, clock of a slave |

What the bundles consist of:

- `StoredRight`: `LimitsHold`, `PrefixOnly`, `WholeWriteStored`. `ReadRight`: `ReadBack`,
  `CoilsByNumber`, `OnlyWritable`.
- `SocketsCounted`: `ClientsCounted`, `DeletedUnused`. `AnswersOwn`: `BufferFreeOutside`,
  `OwnAnswer`, and `ImplementsService`.
- `AnswerRight`: `NeverCut`, `ListAnswered`, `AnswerIsJson`. `ConnectionsRight`:
  `StatesListed`, `PrefixInOrder`, and `ImplementsService`. `ConnectionsEnd`:
  `OldestKilled` and `EveryConnectionEnds`.
- `ResultRight`: `OneResult`, `OkIsWhole`, `BodyInOrder`. `AnswersRight`: `BlocksCover`,
  `AskAccepted`, `FreshAnswer`. `PoolApart`: `NoTwins`, `BlocksApart`. `LinksRecover`:
  `ResultComes` of the client; `DeadDropped`, `FollowsTable`, `EndsOnSignal` of the master;
  `ResyncAfterDrop`, `BuffersReturn`, `SameSettingsQuiet` of SLIP.
- `ServicesAnswer`: `DriverBalanced`, `TimedSleepQuiet`, `RouterTried`, `StopEnds`,
  `SleepComes`, `ResetComes`, `UdpShown`. `TextsKept`: `KeyedIsStandard`, `SentAsKeyed`,
  `LinesWhole`, `NoTwinLines`, `FoundIsTrue`. `TransfersWhole`: `BootsWhole`,
  `PageInOrder`, `PageWhole`.
- `TablesRight`: `OwnSlot`, `UserVarsCounted`, `SearchesFind`, `WordsInside`,
  `IndexLeadsBack`, `IndicesStay`. `TasksKept`: `MarksTrue`, `OncePerMinute`,
  `StepsAsAsked`, `RunsSmoothly`, `NothingLeft`, `PanelIsBuffer`, `RowsWhole`,
  `NoLinkLeft`. `TextsRight`: `SsiWhole`, `InsideTemp`, `TextIsPrefix`, `ParamsSplit`,
  `DamageFound`. `TasksFollow`: `PinsFollow`, `FedAgain`, `MotorOff`, `SpeedFollows`,
  `PolisherStops`.
- `OutputsRight`: `FrameFits`, `WindowFades`, `EveryLedLit`, `ArmedFirst`, `ValueFollows`,
  `ServoFollows`. `AirReported`: `OneMessage`, `RingInOrder`, `RingReported`,
  `TelegramStops`. `TimesReal`: `LapReal`, `TimerUndone`, `TickRefreshed`,
  `LargestLeftOut`, `DeviationTrue`, `ActiveStays`.

The bundles also hold the type invariants of their modules.

**Refinement.** `HttpService` says what a web server promises: an accepted connection
gets a beginning of one answer, in order, until it is closed, once; when there is no
room an open one may be closed for it. `ImplementsService` in `HttpSockets` maps the
sockets and what they received to it, in `HttpCallbacks` the pcbs and what was written.
`WritesImplementRegsSet` says that whatever `ModbusRequest` does to the registers
`RegsSet` allows, so that the theorems about `RegsSet` hold for it. `SettingsKept` says
that `RegsStore` implements `SavedSettings`, in which a setting has a value, what a
reset would bring back (`kept`), and rests or is worked on (`settled`): `kept` is mapped to
what `preinit_table_vars` would make of the flash, `settled` to the settings with no copy
and no save before them. All of these are proved as well.

**A counterexample.** `store_wiped` checks that every requested save is served, as
`regs.h:215` says of the flag `&save`, and TLC finds it violated: restoring the defaults of
the global table overwrites `table_to_save` and `async_flags`, which are registers of that
table, and with them the pending save of a user table. The properties of the passing
runs exclude that case by name (`wiped`).

**Preconditions worth knowing.** A property that has one says so where it is stated. The
important ones: registrations of tables must not overlap (`~overlap`, as
`regs_description_list_add_new` has no lock); marks of two tasks must not be changed at
the same time (`~overlapped`); a reset taken at tick 0 is forgotten (`zeroAsk`);
Wi-Fi was never set up with the setting "off" (`wasOff`); no text was put into a line that it
does not fit into (`allFit`; a receiver without an HMAC takes the one of a packet
for the end of its text); what is keyed is shorter than `morse_message_len` with its cursor,
and no cursor was drawn between a letter and its new position (`whole`); the motor
does not follow a register that is set back to the speed noted when the pulse after it was
refused, nor any while the channel was disabled and not enabled again (`SpeedFollows`); a page that ends in a tag loses the insert of that tag
(`PageWhole`); a `memcpy` that overlaps moves its words (`copy`). Each names a
weakness of the code that the model shows. A hazard such a precondition leaves out has
no property for that part, and its note in `PROJECT.json` says so.

Other differences met on the way, without a run:

- `flash_write_number` is marked `&save` and never mirrored (`mirror_storage.c:212`).
- The settings that SLIP receives are stored in part when a name is shorter than its
  register: the rest of the old name stays, the setting does not count as changed, and
  without another change there is no reset (`slip_handle.c:194`).
- A write of a whole item can be stored with the upper bytes an earlier request left
  in the buffer (`regs_description.c:585`).
- The zero that has to end a router name is refused as a symbol; the tail of the old
  name stays (`regs.c:343`).
- A silent Modbus connection stays for 40 polls of 2 s, the comment says 8 seconds
  (`modbus_tcp/modbus_tcp.c:255`).
- Function 6 on an array of bytes drops its second byte and answers with success;
  `regs_set_buffer` returns 1 ("value changed") also when it has stored nothing.
- The master takes an exception answer for success (`modbus.c:974`, `:1043`).
- `timeout_ticks` of the HTTP client is never set back when data arrive.
- `modbus_master_init` tests the bound of the array of blocks before a round that may end
  two of them (`modbus_tcp_client.c:82`), and with a single variable it makes none:
  `BlocksCover` is about two variables or more and about as many spaces as the array has room
  for. With more spaces the beginning of a block is written behind the array.

**Why the bounds are enough.** Two tasks suffice for a torn copy, since one holds the
mutex while the other compares or copies; two cells make a value that is neither
old nor new. Two tables show that requests of different tables do not disturb each
other, and the defaults of the global one that they do. Two writes and two commands
let each overtake the other at every point. Three requests leave half an item, disturb
it and complete it. Two blocks and three connections exhaust the pool, so that a
recycled block is used again; `MaxRetries` 2 lets a connection survive a poll. Two
workers share one answer buffer and one queue. Three pieces of an HTTP body allow a
length that is too short, right and too long. Master: two addresses and
a table of two slaves let a slave move away and come back; two identifiers with one
tolerated error are the tightest numbers the assumption `Identifiers` allows, so that an
identifier is given again as early as it can be. SLIP: three
packets, among them both bytes that are escaped, and a buffer that is too short when
packets run together; settings with a name that ends in a zero. Broadcast: one
peer, two texts of different length, with and without an HMAC, an own text that leaves no
room behind it, two lines, memory behind them and a counter that wraps. Polisher: no
speed, one whose pulse wraps, the slowest whose pulse fits and one that is cut to the
shortest pulse, and two failing calls. Feeder:
a common multiple of the intervals, so that every phase of clock, sleep and boot
occurs. Clocks are taken modulo small numbers so that they wrap: each property about
a time-out holds across the wrap. Every bound is a CONSTANT (`Max…`) and limits the
environment only. Deadlock is not checked: when the bounds are reached and everything is
done, the models stop.

**Fairness.** Clients, networks and power owe nothing.

- `RegsStore`: the tasks have equal priority and time slices, and FreeRTOS hands a
  semaphore to a waiting task: strong fairness of a task that waits for one
  (`WriteStep`, `CommandStep`, `DutyStep`). The duty task returns to its reset test every
  period: strong fairness of `DutyRestart`.
- `ModbusTcp`, `HttpCallbacks`, `HttpClient`: `tcp_slowtmr` polls every connection that has
  a poll callback, weak fairness of the poll; a DNS query ends.
- `HttpSockets`: acceptor and workers keep running.
- `ModbusMaster`, `Slip`, `Wireless`, `PowerControl`, `UserTasks`, `Feeder`, `Polisher`,
  `Outputs`, `Sensors`, `SysTick`: the task takes its next round. For
  a mutex, strong fairness of taking it, and the other users give it back. Strong
  fairness of a success where something is tried again and again: a measurement of the
  air, a feed that a sleep may cut. `live_time`, counted by the duty task, advances.

## 5. Proofs

All proofs hold for arbitrary sets of tables, registers, cells, tasks, layouts,
requests, connections, workers, files, blocks, replies, client tables and images, under
the assumptions named in the modules, which TLC evaluates in the runs: `Structure` (`RegsStore`, `ModbusTcp`),
`Layout` and `Limits` (`RegsSet`: items do not overlap; the limits of a register are
values of its type), `Described` and `Included` (`ModbusRequest`: the descriptions give
each register with function 3 the addresses of its bytes, none of them is a single byte,
registers are writable or read only as a whole; the coils lie one behind the other, two
bytes a number; the requests of `RegsSet` include the writes of the clients), `Answering`
(`HttpRequest`: every file has at least its header), `Tasks` (`HttpSockets`), `Pools`
(`HttpCallbacks`), `ReplyNumbers` (`HttpClient`), `PoolNumbers` (`MemoryPool`), `Identifiers`
and `Requested` (`ModbusMaster`: more identifiers than errors that are tolerated, 65536 and
10 in the code; the generator writes the variables of a client structure in order and
gives each structure a space of its own), `UploadNumbers` (`Updater`), `Modes` (`Wireless`)
and `Descriptions` (`RegsLookup`). The generated tables satisfy `Described`; none of them has
coils yet, so what is said of coils is about a table that uses function 1.

`RegsStoreProofs`: `TypeOK`, `NoLostSave`, `MirrorFollows`, `MirrorSealed`,
`RestartAfterSave`, `SettingsSurviveReset`, `SettingsKept`. The invariant `IInv` adds to them
`Locking` (who holds a semaphore is where the semaphore says), `Copying` (a copy in
progress stays inside the register or table its task is known to work on), `Carrying`
(bits are set only with the flag, and the duty task carries tables only while saving)
and `Promise` (a notified or armed reset has its saves in front of it). `MirrorFollows`
is not inductive without `Locking` and `Copying`: a copy into a register must be
known to belong to a task that still has the mirror ahead of it. `NoLostSave` needs
`Carrying`: were a bit set without the flag, the duty task would never take it.
The refinement needs two parts more: `Awake` (work in progress belongs to tables that are
up, so that before its start a table is what the flash makes of it) and `RefusedReplaced`
(Wi-Fi settings the boot refuses are gone from the flash as soon as the global table rests).
Each action is then a step of `SavedSettings`: a write begins work and changes the setting,
a copy or a request continues it, a save of the duty task ends it for one table, a reset at any
moment is a `Reset`.

`RegsSetProofs`: `OwnBytes`, `FreshBytes`, `ReadOnlyKept`, and `StoredRight` with its
parts `LimitsHold`, `PrefixOnly` and `WholeWriteStored`. The invariant of the first two
is they themselves with the types of the buffer (`BufferOK`). `ReadOnlyKept` needs no
invariant, only that an item is writable as a whole. `StoredRight` needs `WInv`:

- `Incomplete`: between two calls the buffer never holds a whole item;
- `Behind`: what a request has changed lies in front of its address, or in the item
  it is in the middle of. That exception makes `PrefixOnly` inductive: an item is stored
  when its last byte comes, whatever the order of its bytes;
- `Progress`: an item the request has not passed is gathered (`Gathered`: the buffer
  holds the bytes sent so far and no others), one it has passed is stored (`Kept`).

The limits follow from the digits of a number: `Digits` says that the bytes
`regs_write_value_check` writes give back the limited value. `Number` and `Power` are
recursive functions; what the proofs need of them (`PartialSums`, `PowerStep`,
`NumberSums`, `ChunkAddrs`) is obtained from the least element of a set of numbers
(`SetInduction`), since the induction theorems of the library cannot be used.

`ModbusRequestProofs`: `WritesImplementRegsSet` and `ReadRight` with its parts `ReadBack`,
`CoilsByNumber` and `OnlyWritable`. The refinement comes first (`StepAllowed`): a write
of registers makes a request of `RegsSet`, since an address the search finds is a word
of a register (`PointerFound`, `WordFound`). That the binary search returns a register with
the address, for tables of any length, sorted or not, is `BisectHits`: `Searching`
holds after every round, each of which shortens what is left (`HalvedSearches`), and
after as many rounds as registers nothing is left. `WInv` of `RegsSetProofs` therefore
holds here, with all that is proved there (`RequestsStoredRight`), and `MInv` adds to it
what was read, written and answered:

- `Current`: without an answer the last request is the write `regs_set` works on;
- `Latest`: a write remembered as answered without error was the last one, and went through;
- `Passed`: a request that has met no error has met writable addresses only, from which
  `OnlyWritable` follows when the answer is sent (`RangeWritable`);
- `CoilsKept`: the low byte of each coil is what requests have set by number.

`BackRead` gives `ReadBack`: by `Progress` of `WInv` memory holds the limited values of what
was sent (`StoredBytes`); where a register has no limits of its own these are the bytes
themselves (`DigitsBack`), and the second exchange of bytes undoes the first (`SwappedBack`).
The proof corrected the property: without `pdu.mine` it was false, as a read of registers for
another device is answered with nothing at all.

`ModbusTcpProofs`: `BlocksOwned`, `NoDanglingArg`, `OwnRequestsOnly`, `OldestGivenUp`.
The invariant adds `Hooks` (callbacks agree with the argument) and `BufferOwned` (a
request waiting in a buffer came from the owner of the block). The lemmas on `Removed`
say what the unlinking of a block leaves of a list without duplicates; `KilledIsLast`
gives `OldestGivenUp` from them.

`HttpRequestProofs` holds the lemmas on requests and answers both builds need: what
`Parse` returns, how long an answer is, that the outline of a beginning is a beginning
of the outline.

`HttpSocketsProofs`: `SocketsCounted` and `AnswersOwn`, which includes the refinement of
`HttpService`. The invariant `IInv` says where everything is: `Holding` (the place of a
worker says which mutex and client it has), `Phases` (no worker is told to stop while the
acceptor listens, nothing is deleted before all have left), `Counted` (`workers` and
`clientNumber` are cardinalities), `OnePlace` (an accepted client is in the queue, with the
acceptor or with one worker), `Untouched`, `Sending`, `Held` and `Answered` (what was sent is
the beginning of one answer: none, all but the rest a worker has left, or all). That
the queue has room for every client, and that the shared buffer is free outside of
`http_request_mutex`, are consequences no single one of these parts has. The refinement
is one lemma per action: each is a step of `HttpService` or unseen by it.

`HttpCallbacksProofs`: `ConnectionsRight` (types, `StatesListed`, `PrefixInOrder`, and the
refinement of `HttpService`) and `OldestKilled`. The invariant `CbInv` is `StatesListed` with
`Coherent`: what an `http_state` has written and what it has left make one answer of its
client. `WithoutContent` and `AcceptedContent` say what `http_remove_connection` and
`http_add_connection` leave of the list; `WriteKeeps` that any part `altcp_write` takes keeps
an `http_state` coherent; `OneChanges` that a callback on one connection keeps the
invariant if it keeps the connection open or gives its block back.

`PartsProofs`:

- `PoolApart`. `NoTwins` is inductive with the types: a space that is bound already is found
  by the command that would bind it again (`TwinFound`), and `os_pool_alloc` gives out only
  blocks nobody has (`AllocatedFree`).
- `AnswersRight` of the master. For `FreshAnswer` the invariant `MasterIInv` says that the
  messages on their way are those of the last requests, in their order (`LastAsked`), and
  not more than there were errors in a row (`FewOnTheirWay`). As there are more identifiers
  than that, none occurs twice among them (`OnceInTurn`), and an answer with the identifier
  that is waited for is the last one (`OwnIsLast`). For `BlocksCover`, the loop of
  `modbus_master_init` is a recursive function; `Seen` is its invariant (the blocks made so
  far hold the variables in front of the open block, each once), which every round
  keeps (`TurnSeen`), and `WalkCovers` takes it to the end by the least round that would
  not.
- `ResultRight` of the HTTP client. `ClientIInv` adds `StagesKept` (the polls left, and the one
  report as the last thing that happens) and `HeadersFirst` (where in the reply the body
  begins, and that nothing is given before).
- `BootsWhole` of the updater. `UpdaterIInv`: the updater runs from its own partition only,
  and what it has validated is whole and stays until the next upload begins.
- `DriverBalanced` of the wireless control. `WirelessIInv`: the task leaves the states in which
  the driver is in use only where it stops it, or ends.
- `OwnSlot` of the list of tables. `ListIInv`: while no two registrations meet there is at most
  one, its table stands behind all others (`OneAdds`), and the slots in front of it are
  those the tasks were told (`AddedBefore`).

Only model-checked: liveness (outside the prover's reach), so `EveryConnectionEnds` of
`ConnectionsEnd`, `SilentReclaimed`, `EveryClientClosed`, `EventuallyDurable`, `ResetHappens`,
`LinksRecover` and the liveness in the bundles of the other runs; what recursive operators
compute (JSON elements, CRCs, texts of registers), which needs an induction over data, so
`AnswerRight`, `WritesOne` and `TextsRight`; and of the runs `device`, `tasks` and
`sensors` all but `BootsWhole`, `DriverBalanced` and `OwnSlot`.

## 6. Not modelled

- `user_tasks/touch_handle.c` does not compile when it is turned on; `epaper.c` calls
  `epd_*` functions that the repository does not hold; `battery_state.c` copies one ADC
  value into a register; `link_functions.c` is a table of pointers.
- `generator/` runs on the host; `http/fsdata.c` is generated data; `http/makefsdata/` is a
  vendored tool with its compression library; web pages and the camera example in
  `esp32_s3_sense/` stand for themselves. `lwipopts.h` is configuration.
- `display_statistic` and `display_time_diff` format registers; `print_nvs_files` prints.
- `pbuf_alloc` failing in a worker of the web server (`http/httpd.c:3641`): the segment is
  thrown away and the worker waits on. That is one more way of a client that sends less
  than a request.
- POST reception of `httpd.c` (`http_post_rxpbuf`, `httpd_post_finished`): `httpd_post_begin`
  refuses every POST, so nothing reaches it. Keep-alive and request lists are off.
- The send loop of `modbus_tcp_write_sofi` and its partial writes (the send buffer of lwIP is
  not modelled); a second caller of `regs_set_buffer` under `SLIP_ENABLE`: both are in
  the hazard list without a property.
- Of the master: writes to slaves, bits as data, statistics. Of the polisher: the finite
  loop of `rmt_step_motor_step`, which has no caller. Sums of `crc.c` without a caller.

## 7. What the plan has left

1. Proofs of the safety properties of single tasks (`OncePerMinute`, `RowsWhole`,
   `RingInOrder`, `LapReal`), and of the searches beyond what `ModbusRequestProofs` has
   (`SearchesFind`, `IndexLeadsBack`).
2. Partial answers of `ModbusTcp`; two callers of `regs_set_buffer`.
3. Composition: the master against the server's request handler; user tasks as the
   writers of `RegsStore`.
