# Machine access: specifications, checks and proofs

This directory models the firmware in `relay/machine-access` (an ESP8266
device that locks machines out and takes commands over MQTT) and the older
Arduino relay in `relay/mqtt` in TLA+. TLC checks the models on small
instances, TLAPS proves the most important results for every value of the
constants. Paths below are relative to the repository's root; `app.cpp`,
`main.cpp` and `misc.cpp` are in `relay/machine-access/main`, `kv.c` in
`relay/machine-access/components/kv`, `common.h` and `PubSubClient.cpp` in
`relay/mqtt`.

- [The system](#the-system)
- [The modules](#the-modules)
- [The runs](#the-runs)
- [The proofs](#the-proofs)
- [Findings](#findings)
- [What is assumed, what is left out](#what-is-assumed-what-is-left-out)
- [Plan](#plan)

## The system

| Component | State | Operations | Modelled in |
|---|---|---|---|
| Lock controller, `app.cpp` | `locks[i].locked` and the level of each lock's pin; one static `command` object | `app_init`, `app_on_command`, `on_lock_command_<i>`, `command_lock`, `command_refresh`, `app_on_mqtt_connected` | `LockController`, `LockService` |
| Connection management, `main.cpp` | Wi-Fi status, notification bits, the MQTT client's state | `wifi_event_handler_cb`, `main_task`, `mqtt_connect`, `mqtt_reset`, `set_station_mode`, `mqtt_publish` | `Connection` |
| Configuration, `main.cpp` | `main_config` in memory, files `config` and `config.tmp` in SPIFFS | `config_load`, `config_store`, `config_make_default` | `ConfigStore`, `ConfigService` |
| Key-value parser, `kv.c` | `struct kv_parser`: two buffers, an end pointer, `has_key` | `kv_parser_init`, `_add`, `_end`, `kv_write_str` | `KvParser` |
| Device name and publish queue, `main.cpp` | `device_name`, two queued messages, a mutex | `on_device_name`, `mqtt_queue_publish`, `mqtt_queue_send_all`, the name published by `mqtt_connect` | `DeviceName`, `ConfigService`; the file operations of storing a name in `ConfigStore` |
| MQTT client (Eclipse Paho, a submodule that is not part of the sources) | re-entrant lock, receive buffer, connection | connect, subscribe, publish, run | external, in `LockController`, `DeviceName` and `Connection` |
| Legacy relay, `common.h` | `the_machine_is_locked` and the relay's level | `setup`, `loop`, `mqtt_callback` | `LegacyRelay` |
| Its MQTT client, `PubSubClient.cpp` | state, time of the last packet in and out, `pingOutstanding` | `connect`, `connected`, `subscribe`, `publish`, `loop`, `readByte`, `readPacket` | `PubSubClient`, as far as the relay uses it |
| Flash layout, `misc.cpp` | none after start | `fs_init`, `user_rf_cal_sector_set` | no: one mount or format call and a table |
| `machine-access` command line tool | none | publishes one payload | its payloads are among the messages of `LockController` |

### How the parts interact

Three contexts run on a device with the newer firmware.

- The **main task** (`main_task`) waits up to a second for notification bits,
  resets the connection if a bit says so, and connects or empties the publish
  queue. `mqtt_connect` ends in `app_on_mqtt_connected`, which subscribes to
  each lock's topic and publishes each lock's state.
- The **MQTT client's task** (`MQTTStartTask`) reads packets and calls the
  handlers: `on_device_name`, `app_on_command`, `on_lock_command_<i>`. It holds
  the client's lock while it does, and handlers publish.
- The **SDK's event task** calls `wifi_event_handler_cb`, which sets bits in the
  main task's notification value.

Main task and client task share `locks[]`, `main_config`, the queue and the
client. The only protection is the client's own lock, taken inside each client
call, and the queue's mutex. A client call with QoS 1 waits for its
acknowledgement by reading packets, so **a message that arrives during the wait
is handled by whoever waits**: in the main task, or nested inside a handler
that is publishing.

The legacy relay has one thread. `setup()` connects and subscribes once,
`loop()` calls the client's `loop()`, which sends a ping or gives up when the
keep-alive says so, reads at most one packet and calls `mqtt_callback` with it.
The callback switches the relay and publishes its state.

### What is hard about it

- *Shared objects across nested and parallel handlers*: one `command` object
  for every topic, one receive buffer, values read before a lock is taken.
- *Every QoS 1 call can fail three ways*: it arrives and is acknowledged, it
  arrives and the acknowledgement is lost, it is lost. Some results are looked
  at, some are not.
- *Events that are merged, late or dropped*: the main task spends seconds in
  `mqtt_connect` while bits accumulate, and events before it exists are dropped.
- *Crashes at every step of a file update*, on a file system where replacing a
  file takes an unlink and a rename.
- *Two locks taken in both orders*: a handler holds the client's lock and wants
  the queue's mutex, the main task holds the mutex and wants the client's lock.
- *A name that comes back*: the device publishes its own name on the topic it
  takes names from, with a length counted before anything is locked.
- *Time that wraps*: the legacy client decides from the differences of three
  time stamps, one packet a call, whether the broker is still there, and reading
  a packet that is slow or never ends takes as long as the keep-alive and more.
- *A parser that must not depend on how its input is cut into chunks*, with two
  fixed buffers on the caller's stack.

### What makes each part correct

- Lock controller: a machine is released only by an unlock on its own topic; a
  request that arrived is carried out; a connection is kept only if every
  lock's state was reported on it; the state published is the state.
- Connection: the device gets on line and stays there once failures stop; no
  connection outlives the link it was made on; one that is kept is complete.
- Configuration: the file is whole or absent; it is replaced only by the
  running configuration, and only when that is safely on flash; a device whose
  file is there comes back.
- Device name: the device is called what its topic last said, and still is
  after a restart unless storing the name failed or was interrupted; refusing a
  name answers it and blocks nobody.
- Legacy relay: it hears its commands and reports its relay truthfully while it
  is connected, notices a dead connection in bounded time, never gives up a
  live one, and is silent on a live one for longer than the keep-alive only
  while a packet is coming in.
- Parser: stays in its buffers, counts the room left exactly, and reads what
  the text as a whole means; what is stored is what is read back.

`PROJECT.json` lists the hazards line by line, each with the properties that
cover it or the reason why none does.

## The modules

```
LockService        what the outputs promise            (abstract)
LockController     app.cpp and its two tasks           implements LockService
  MCLockController     payloads for TLC
  LockControllerProofs
Connection         Wi-Fi events, main_task, mqtt_connect, broker
  ConnectionProofs
ConfigService      what a device keeps of its name and credentials (abstract)
ConfigStore        config_load, config_store, crashes  implements ConfigService
  MCConfigStore        values for TLC
  ConfigStoreProofs
DeviceName         on_device_name, the publish queue, the echo of the name
                                                       implements ConfigService
  MCDeviceName         names and payloads for TLC
  DeviceNameProofs
KvParser           kv.c, one loop iteration a step
  MCKvParser           texts and files for TLC
  KvParserProofs
    KvMeaningProofs        what a text means as a whole; what config_store writes
PubSubClient       the legacy client, its broker, network and clock
LegacyRelay        setup(), loop() and the callback    extends PubSubClient
  LegacyRelayProofs
    LegacyTimingProofs     the clock, time-outs and pings
```

In each module the definitions whose comment starts with "Mutant:" are not part
of the specification. They are wrong versions of the definition that follows
them, and substituting one for it must break the property it is listed with in
`PROJECT.json`.

### LockController

| Variable or action | Code |
|---|---|
| `locked`, `pin`, `command` | `locks[i].locked`, the GPIO level, `command.type` (app.cpp:181) |
| `calls` | the stack of handlers running; `h` is the topic, `pos` the pairs parsed, `buf` the receive buffer as it now stands |
| `owner` | who holds the client's lock |
| `main` | position of the main task in connecting; `val` is the argument of a publish, evaluated before the client's lock is taken |
| `Deliver` | the client dispatches a message; the handler resets `command` and starts parsing |
| `AcceptItem`, `RefuseItem` + `ErrorReturn` | one pair: `*_on_item`, with the error publish and the wait inside it |
| `ParseFail`, `NoCommand`, `ExecuteLock`, `ExecuteRefresh`, `UnknownCommand`, `LastReturn` | the end of the handler (app.cpp:213-305) |
| `RefreshSend`, `RefreshNext`, `RefreshDone` | `command_refresh` in a handler |
| `MainConnect` ... `MainReset`, `MainIdle` | `main_task`'s reconnect branch; `mqtt_connect` as far as `app_on_mqtt_connected` is one step here (`Connection` has its detail) |
| `ConnectionLost`, `Restart` | the environment |

A payload is a sequence of *items*: what matters of a pair is which command it
is, or that it is refused, or that it does not fit the parser's buffers. A
message that arrives while a handler waits overwrites the one receive buffer,
so `Deliver` gives the waiting handlers any buffer contents.

`LockService` is what a user of the locks is promised: outputs follow requests
made on the lock's own topic, one at a time, a restart locks everything, and a
request that was received is obeyed unless the device restarts. The refinement
maps `output` to the pins and `asked` to the requests in handlers that have not
acted yet.

### Connection

`wifi`, `events`, `bits` and `taken` follow one Wi-Fi change from the station's
status through the event queue and the notification value to the main task.
`pc` and `step` walk through `user_init`, `main_task` and the calls of
`mqtt_connect`, listed in `Setup`. `connected` is `MQTTIsConnected`, `path` the
TCP connection behind it, `session`, `served`, `seen` and `retained` the
broker's side. Every call can fail (`Fault`), be carried out without the device
learning it (`Outcome`), or find its path gone. `Reset` is `mqtt_reset`: it
sends DISCONNECT only if the client is connected, which drops the will. A device
restart can come anywhere.

### ConfigStore

One step per file operation of `config_load` and `config_store`, each of which
may fail, and a crash after each. `on_device_name` with an acceptable name is
`NewName`: it changes the name in memory, then stores, and ignores the result.
At boot the result is asserted (main.cpp:687): `dead` is a failed assertion,
after which the device restarts.

`ConfigService` is what the two files are for: one configuration is kept; the
device starts on it or, if it cannot be read, on the built-in one; a new name is
put in use, then kept together with the credentials in use or not at all; and
what is kept is lost only while it is being replaced. In `ConfigStore` what is
kept is `config`, or `config.tmp` between the unlink and the rename; a device
does not run before `config_load` has succeeded. Of the files `DeviceName`
has the name in `config` only: what is kept there is `stored`, or the new name
between the unlink and the rename. Both are shown to implement the one
specification: storing a name and a restart in `DeviceName` are steps of the
same service as the files' own, and both lose what is kept at the same place.

### DeviceName

| Variable or action | Code |
|---|---|
| `name`, `stored`, `failed` | `main_config.device_name`, the name in `config` (none when there is no file), and whether the last `config_store` failed |
| `queue`, `mutex`, `owner` | `mqtt_queue`, `mqtt_queue_mutex`, the client's lock |
| `handler` | the running `on_device_name`: `Copy` and `Store` for a new name (main.cpp:251-259), the latter as `Unlink`, `Rename` and their failures (main.cpp:117-135), `BadChar`, `Reject`, `BadInput`, `Restore` for the answers it queues (main.cpp:225-270) |
| `main` | `Check`, `Strlen`, `PublishName`, `Published` are `mqtt_connect`'s publish of the name (main.cpp:404-409 and `mqtt_publish`); `Take` ... `Clear` are `mqtt_queue_send_all` (main.cpp:585-602) |
| `inbox`, `heard` | the name topic, and the last acceptable name on it since the device subscribed |

A handler starts in the client's task, or in the main task while that waits for
an acknowledgement (`CanDispatch`). `Lengths` is what `strlen` may return while
the handler copies a longer name over the old one's terminator. `err`, which is
never assigned after a bad character (main.cpp:265), may be any text or make
the device crash (`BadInput`, `BadInputCrash`). A restart (`Boot`) takes the name
from the file; without one it fails the assertion at main.cpp:687, and the main
task is `dead`: after a rename that failed, or a restart before it, that is so
at every boot.

### PubSubClient and LegacyRelay

Time advances in units; `now` is `millis()` and wraps at `Wrap`. `loop()` runs
at least once in each unit (`polled`), except while a call waits: for the
CONNACK (`call = "connack"`) or for the next byte of a packet, of which the rest
may come or not (`call = "stalled"` in `loop()`, `"answer"` in `connect()`).
`LoopTimeout`, `LoopPing` and `LoopNotDue` are the keep-alive test
(PubSubClient.cpp:282-298), the `Read*` actions what one call does with the one
packet it reads (:299-343). The broker owes answers (`owed`) and delivers each
within `AnswerTime`; packets of others and packets too long for the buffer come
between them. Of each packet the first byte may come before the rest
(`partial`), which on a working path comes in within `RestTime`, in pieces
(`MoreArrives`, `RestArrives`); `readByte` waits up to `SocketTimeout` for each
of them (`ReadWaits`, `ReadGivesUp`), and the client sends nothing meanwhile.
The path can die at any moment, with half a packet in the socket (`PathDies`),
and what the client then writes is lost without an error. `LegacyRelay` adds
`setup()`, which goes on whatever `connect` and `subscribe` return, and the
callback.

### KvParser

`AddBegin(n)` hands over the next `n` bytes; `StoreByte`, `KeyFound` and
`ValueFound` are the three ways through an iteration of the loop; `AddEnd` and
`End` are the returns of `kv_parser_add` and `kv_parser_end`. `space` is the
loop's count of room left, recomputed from the buffer's fill at each call.
`IsFile` is what `config_store`'s loop leaves in a file (main.cpp:93-115): the
lines `WriteStr` makes of its items, one after the other. `ReadsText` says what
was read without a recursive definition of it: there are places `at[1]`,
`at[2]`, ... in the text, each right after the newline of the line before, where
the callbacks' keys and values stand. `Meaning` is what a text means as a whole,
read from its start without chunks, buffers or a position in the middle of
anything; it is a function that is recursive in the place in the text.

## The runs

| Run | Result | Bounds | Question |
|---|---|---|---|
| `lock_service` | holds | 2 locks, 7 payloads, 2 messages, 2 faults, no nesting; 120 k states | Do the outputs obey the requests on their own topics and only those (`OpensOnlyOnOwnRequest`, `CommandIsOwn`, the refinement `ServiceSpec`)? Is a connection kept only when every lock's state reached the broker on it (`OnlineMeansReported`), and is one reached (`EventuallyOnline`)? |
| `lock_nested` | violated | nesting 2, no faults | `OpensOnlyOnOwnRequest` when handlers nest |
| `lock_status` | violated | 1 lock, 1 message, no faults | Is the published state current when nothing is going on? |
| `lock_deaf` | violated | 2 locks, 1 message, 1 fault | Does a device that is connected end up hearing all of its topics? |
| `device_name` | holds | names of up to 2 characters, 6 payloads, 3 messages, 2 faults; 355 k states | `FollowsTopic`, `StoredUnlessFailed`, `NothingQueuedIsLost`; is a name taken and stored, or lost, as `ConfigService` says (`ServiceSpec`); and is there one way only in which the two tasks block each other (`OnlyMutexBlocks`)? |
| `device_name_stuck` | violated | 1 refused name, no faults | Can the client dispatch messages again and again? |
| `connection` | holds | 3 failures; 271 k states | `OldConnectionIsReset`, `KeptIsServed`, `StaysOnline` |
| `connection_online` | violated | 1 failure | Is a new subscriber to `online` told the truth about a device that is on line? |
| `config_store` | holds | 3 faults, 2 new names; 9.6 k states | `ConfigIsComplete`, `ConfigChangesSafely`, `RunsOnStoredWifi`, `ComesBack`; do the two files carry out `ConfigService` (`ServiceSpec`)? |
| `config_boot` | violated | no faults | Does `config_load` succeed at boot? |
| `kv_parser` | holds | every text of up to 6 bytes over a letter, `=` and newline, every cut; buffers of 2 and 3 bytes; files of up to 3 items in lines of up to 5 bytes; 26 k states | Does the parser stay in its buffers (`InBounds`, `SpaceIsExact`)? Are the callbacks the lines of the text (`ReadsText`), and all that the text as a whole means (`ParsesMeaning`)? Does it read back what `config_store` writes (`RoundTrip`)? |
| `legacy_relay` | holds | keep-alive and socket timeout 3, clock of 14 values, answers within 1, packets within 2, 2 unread packets; any number of failures; 4.7 M states | `DeadLinkIsNoticed`, `NoFalseTimeout`, `BrokerHearsInTime`, `ListensIfConnected`, `ReportIsTrue` |

### Why the bounds are enough

- *Two locks* tell a lock's own topic from another's, and give the refresh
  something left to do after its first publish. *Two messages* are what it takes
  for one to meet the other's command, nested or queued; the payloads include
  one that changes its mind, one cut short by an overlong pair, one that
  commands nothing and the one README.md:76 shows. *Two faults* are a failed
  publish and a restart or lost connection on top of it.
- *Three failures* in `connection` are one to leave something stale (a session
  at the broker, a bit, a lost acknowledgement), one to hit the recovery from
  it, and one more. The proofs cover any number.
- *Three faults* in `config_store` are a failed store, a crash in its aftermath
  and a fault at the boot after that; two names and the empty one tell an old
  name from a new one and from none.
- *Three messages of others* in `device_name` are an old name, a new one and a
  refused one around the device's own publish; the payloads have two names of
  which one begins with the other, an empty one, one with a bad character and
  one that does not fit. Two characters are enough for a torn publish (a name
  with a NUL in it). *Two faults* are a failed store, or a rename that fails,
  and the restart that shows it. The queue has its real capacity, 2.
- *Keep-alive 3, socket timeout 3* are equal as in `PubSubClient.h:31` and
  `:36`, where both are 15. `AnswerTime + InboxSize <= KeepAlive` is what a
  broker in working order means: the answer to a ping, with everything queued
  before it at one packet a unit, comes before the next test. `RestTime` 2 lets
  a packet come in, in one piece or more, for as long as a byte of it may take;
  the proofs are for any. The clock's 14 values are more than any difference the
  code computes (`TimesAssumption`) and it starts anywhere, so that every step
  happens before, at and after the wrap. The bounds in `DeadLinkIsNoticed` and
  `BrokerHearsInTime` are tight: with one unit less TLC finds both violated.
- *Six bytes* over buffers of 2 and 3 hold keys and values that fit exactly,
  that are one too long, two pairs with a chunk boundary anywhere in them, and
  a value with `=` in it.

Deadlock is checked in every run but three. The parser ends when its input does.
In the two runs of `DeviceName` the two tasks may come to wait for each other
for ever: `OnlyMutexBlocks` says that, apart from a device that lost its file,
this is the only way, `device_name_stuck` shows it. A bound on messages, faults
or names never stops a model: the main task's loop goes on.

### Fairness

- `LockController`: weak fairness of the handlers and of the main task. Every
  wait for an acknowledgement ends, since the client's command timeout is 3000
  ms (main.cpp:449), and FreeRTOS schedules both tasks. Nothing makes the broker
  send or the network fail, so there is none on `Deliver`, `ConnectionLost` or
  `Restart`.
- `Connection`: weak fairness of the main task, of the event callback, of the
  end of an attempt to join the access point, and of the client's keep-alive
  (main.cpp:353, 15 s) finding a connection that no longer works. There is none
  on the broker: `StaysOnline` does not need the broker to time anything out.
  `Disconnected` also stands for an attempt to join that fails, and counts as a
  failure, so an access point that never answers is not promised anything.
- `ConfigStore`: boot, a running store and an abort go on to their end. A crash
  is never forced, and `ComesBack` speaks only of devices that keep their file.
- `DeviceName`: weak fairness of the main task and of the client's task reading
  what has arrived. `HandlerStep` has strong fairness, because a handler that
  waits for the mutex is enabled only while the main task has given it back:
  `main_task` then waits up to a second for its next notification
  (main.cpp:614), and FreeRTOS hands a mutex to the task that waits for it.
- `KvParser`, `PubSubClient` and `LegacyRelay` have no liveness property and no
  fairness. What must happen in time is said with counters (`deadFor`,
  `silence`), and `TimePasses` waits for what the thread can do at once.

## The proofs

| Theorem | Statement |
|---|---|
| `LockControllerProofs!TypeCorrect` | `Spec => []TypeOK`, any number of locks (1 to 4), payloads, nesting |
| `LockControllerProofs!OwnCommand` | `MaxDepth = 1` implies `Spec => []CommandIsOwn` |
| `LockControllerProofs!OpensOnOwnRequest` | `MaxDepth = 1` implies `Spec => OpensOnlyOnOwnRequest` |
| `LockControllerProofs!KeptIsReported` | `Spec => []OnlineMeansReported`, any nesting |
| `LockControllerProofs!ImplementsService` | `MaxDepth = 1` implies `Spec => Service!Init /\ [][Service!Next]_(Service!vars)` |
| `ConnectionProofs!TypeCorrect` | `Spec => []TypeOK`, any number of failures |
| `ConnectionProofs!ResetsOldConnection` | `Spec => []OldConnectionIsReset` |
| `ConnectionProofs!KeepsServed` | `Spec => []KeptIsServed` |
| `ConfigStoreProofs!TypeCorrect` | `Spec => []TypeOK`, any values, crashes and failures |
| `ConfigStoreProofs!StaysComplete` | `Spec => []ConfigIsComplete` |
| `ConfigStoreProofs!ReplacesSafely` | `Spec => ConfigChangesSafely` |
| `ConfigStoreProofs!KeepsStoredWifi` | `Spec => []RunsOnStoredWifi` |
| `ConfigStoreProofs!ImplementsService` | `Spec => ServiceSpec` |
| `DeviceNameProofs!TypeCorrect` | `Spec => []TypeOK`, any name size, payloads, messages and faults |
| `DeviceNameProofs!KeepsName` | `Spec => []StoredUnlessFailed` |
| `DeviceNameProofs!LosesNothing` | `Spec => NothingQueuedIsLost` |
| `DeviceNameProofs!FollowsItsTopic` | `Spec => []FollowsTopic` |
| `DeviceNameProofs!ImplementsService` | `Spec => ServiceSpec` |
| `DeviceNameProofs!OneWayToBlock` | `Spec => [](Stuck <=> Blocked)`: neither task of a device that has started is ready |
| `DeviceNameProofs!StuckForGood` | from a state that is `Stuck` every step is a restart, or leaves tasks, locks, queue and configuration as they are and the state `Stuck` |
| `LegacyRelayProofs!TypeCorrect` | `Spec => []TypeOK`, any keep-alive, timeouts and clock |
| `LegacyRelayProofs!Listens` | `Spec => []ListensIfConnected` |
| `LegacyRelayProofs!ReportsTruth` | `Spec => []ReportIsTrue` |
| `LegacyTimingProofs!NoticesDeadLink` | `SocketTimeout <= KeepAlive` implies `Spec => []DeadLinkIsNoticed` |
| `LegacyTimingProofs!IsHeardInTime` | `SocketTimeout <= KeepAlive + 1` implies `Spec => []BrokerHearsInTime` |
| `LegacyTimingProofs!NeverGivesUpEarly` | `AnswerTime + InboxSize <= KeepAlive` and `2 * AnswerTime <= KeepAlive` imply `Spec => NoFalseTimeout` |
| `KvParserProofs!TypeCorrect` | `Spec => []TypeOK`, any texts, chunks and buffer sizes |
| `KvParserProofs!StaysInBounds` | `Spec => []InBounds` |
| `KvParserProofs!CountsSpace` | `Spec => []SpaceIsExact` |
| `KvParserProofs!ParsesText` | `Spec => []ReadsText` |
| `KvParserProofs!ReadsBack` | `Spec => []RoundTrip`, any files |
| `KvMeaningProofs!WrittenIsFile` | what the loop of `config_store` leaves after any number of lines, of items that fit, satisfies `IsFile` |
| `KvMeaningProofs!ParsesToMeaning` | `Spec => []ParsesMeaning`, any texts, chunks and buffer sizes |

The arguments:

- *OpensOnOwnRequest.* `TypeOK` and `CommandIsOwn` together are inductive when
  handlers do not nest. `CommandIsOwn` says that what is in the one shared
  `command` object while a handler parses is the last command accepted among
  the pairs *this* handler has parsed; it is needed because the pin is driven
  from `command`, not from the payload. When parsing has ended, the lemma
  `RequestedIsLast` turns "last accepted among all pairs" into `Requested`, and
  only `ExecuteLock` lowers a pin. `MaxDepth = 1` cannot be dropped:
  `lock_nested` is the counterexample.
- *KeptIsReported.* `ReportedSoFar`: on a connection that stands, the locks
  before the main task's index are reported, and the one at it if its publish
  succeeded. Handlers only add to what is reported, so it needs no `MaxDepth`.
- *ImplementsService* of `LockController`. A pin changes only in `ExecuteLock`,
  where `CommandIsOwn` makes the command the request of the message, and in
  `Restart`. `PinFollows` (the pin is the variable) is needed because
  `command_lock` does not drive a lock that is already in the state asked for:
  what is asked is dropped, and the output must have it already.
- *ConfigStore.* `WrittenSoFar` says what `config.tmp` holds while it is
  written, item by item, and that it is all of the running configuration once
  it is closed; `ConfigIsWhole` is `ConfigIsComplete` with the kinds of the
  items. `KeepsStoredWifi` adds that a name never changes the credentials.
- *ImplementsService* of `ConfigStore`. The unlink is the step that keeps the
  new configuration, since `WrittenSoFar` has all of it in `config.tmp` by then;
  the rename changes nothing that is kept, and a rename that fails, or a crash
  before it, loses it. `Replacing` is needed to tell the two callers of
  `config_store` apart: a boot stores only when there is no `config`, so its
  unlink fails, and it never replaces anything; and a device that has not loaded
  a configuration holds the built-in one, which a read error leaves in use.
- *ImplementsService* of `DeviceName`. `CopiesNew`: what a handler is about to
  copy over the name is another name, however long ago it compared the two;
  nobody else writes the name, and handlers of one client do not overlap. As in
  `ConfigStore` the unlink is the step that keeps the new name, and a rename that
  fails, or a restart before it, loses it: `BootIsService` says on what a restart
  starts, and that it starts on nothing when there is no file.
- *DeviceName.* `LosesNothing` needs `QueueIndex`: items may be added while
  `mqtt_queue_send_all` is sending, since only its own mutex keeps handlers out,
  and the index has reached the end when it forgets them. `FollowsItsTopic` is
  about messages on their way, so `Follows` says where the last name heard is:
  the last acceptable one among them, or, if none is, the device has it or is
  copying it.
- *OneWayToBlock.* `HandlerReady` and `MainReady` are the conditions under which
  each task's next step is possible; `StepsAreReady` shows that no step is taken
  without them, and `OnlyMutexBlocks`, on a run, that with them the tasks do get
  on. `TypeOK` says who holds each lock where, and that is enough: whoever waits
  for the client's lock or for a handler's return waits for somebody who is
  ready, unless that one waits for the mutex. So both are blocked in exactly the
  state that `device_name_stuck` reaches, which no step of either task leaves
  (`StuckForGood`).
- *LegacyRelay.* `SubscribedSoFar`: a topic is missing at each point of
  `setup()` only if the connection is gone too. `Reported` adds to
  `ReportIsTrue` that nothing is published before `loop()`.
- *The clock of the legacy relay.* The code compares differences of stamps
  modulo `Wrap`, so the three properties about time rest on `ClockInv`: at each
  point of the thread no stamp is older than a bound that `TimesAssumption`
  keeps below `Wrap`, hence every difference is the true age. Two lemmas then
  say all the proofs need of `%`: a difference stands while `now` does and grows
  by one with it (`ClockStands`, `ClockTicks`).
- *NoticesDeadLink.* `DeadInv` is an account of how long a path can have been
  dead by how far the client has come: one unit for each packet still to be
  read, then the age of the last packet, then the age of the ping. A packet cut
  off by the death of the path is the last one read, and the wait for the rest of
  it is part of an age (`StallAge`), which is why the socket timeout must not be
  longer than the keep-alive; both are 15 s in `PubSubClient.h:31` and `:36`. With `KeepAlive` 3 and `SocketTimeout` 4 TLC
  finds the property violated.
- *IsHeardInTime.* `HeardInv`: the broker's silence is no longer than the age of
  what was last written, which `ClockInv` bounds by the keep-alive or, before
  the CONNACK, by the socket timeout, and by `late` more while a packet is coming
  in. The code itself bounds `late` only by the socket timeout for each byte of
  the packet: one that takes 15 s lets a device with the timers of
  `PubSubClient.h` be silent for 30 s, longer than the one and a half keep-alive
  intervals after which a broker may give it up. So what is proved is that the
  packet being read is all that adds to the keep-alive, and not that a broker
  always hears in time.
- *NeverGivesUpEarly.* While a ping is outstanding on a path that works, either
  the broker still owes the answer and has had less than `AnswerTime` for it
  (`Pinged`), or the answer is the `j`-th unread packet and at least `j` packets'
  time is left (`Answered`); before that no ping is out (`Quiet`). The hypotheses
  say what a broker in working order is: it answers within half the keep-alive,
  and its answer is not behind more packets than the client has time to read.
  With an answer that takes 2 of 4 units behind 3 packets TLC finds the property
  violated.
- *ResetsOldConnection.* The property itself is not inductive: a link may change
  between `NetworkConnect` and the end of `MQTTConnect`, when there is no
  connection yet. `OldInv` extends it to that moment.
- *KeepsServed.* `ProgressInv` says what holds in the middle of `mqtt_connect`:
  as long as the client is connected over a working socket, the broker has the
  session and the first `step` calls have reached it. It speaks of the socket
  rather than of the link because a socket may survive the link's absence, and
  of the broker's closing it because a session whose keep-alive ran out never
  comes back on the same socket.
- *TypeCorrect* of `Connection` needs `EventsFitRadio`: the station joins again
  only from the callback of the event that said it was disconnected, so at most
  two events are ever pending.
- *StaysInBounds* and *CountsSpace* come from one inductive invariant, `Safe`:
  `space` is exact while the loop runs, and a byte that leaves no room for the
  closing NUL ends the parse.
- *ParsesText.* `ReadsText` is inductive with `TypeOK` and `Safe`. A newline that
  ends a value adds one place to the sequence that is its witness; the lemma
  `KeepsReading` covers every step that makes no callback.
- *ReadsBack.* `FilesRead` says how far into its items a file has been read and
  that the buffer holds the beginning of the next key or value. The next byte of
  the text is then the next byte of that item (`FileNext`), so the parser stores
  it, and since the item fits, it stops neither early nor late. A file is given
  with the places of its lines, as `ReadsText` gives a text.
- *WrittenIsFile.* `FilesAssumption` asks only that each item fits: a file that is
  written as the loop writes it, each line appended to the lines before
  (`Written`), has the places `IsFile` asks for, and each line is still there
  after all the others (`Stay`, by induction on their number). TLC evaluates the
  assumption for such files too (`Text`).
- *ParsesToMeaning.* The theorems of the library about induction and recursive
  functions take a predicate or an operator, which the provers cannot
  instantiate; `WFMin`, about well-founded relations, takes a set. From it come
  least numbers (`LeastNumber`) and induction over a set (`InductionOverSet`);
  from these, that the next `=` or newline is found (`EndFound`), and that there
  is a function with the recursion `Meaning` asks for, built up from the end of
  the text (`MeaningExists`), hence that `Meaning` satisfies it (`MeaningIs`).
  The invariant `Meant` then says that what the text means is what has been
  called back followed by what the rest means, from the start of the line that
  is being read; `LineMeans` is the step from a line to the next, and the ways
  to stop are lemmas of their own (`KeyTooLong`, `KeyAtEnd`, `ValueTooLong`).

Only model-checked, and why: liveness (`EventuallyOnline`, `StaysOnline`,
`ComesBack`, `OnlyMutexBlocks`) and the fairness part of `LockController`'s
`ServiceSpec`, which the prover does not handle. Every invariant and every
action property of a passing run is proved, some under the hypotheses the table
gives; `ServiceSpec` of `ConfigStore` and of `DeviceName` has no fairness and is
proved as it stands.

## Findings

Each is the counterexample of a run.

1. `lock_nested` (app.cpp:181): every handler parses into the same static
   `command`. A handler that waits for the acknowledgement of its error message
   and is re-entered comes back to the other message's command and carries it
   out on its own lock. It takes a client that dispatches messages while a
   publish inside a handler waits.
2. `lock_status` (app.cpp:165): the refresh after connecting reads a lock's
   state before its publish takes the client's lock. A command handled in
   between is published first and the old state after it; nothing corrects it.
3. `lock_deaf` (app.cpp:310): the results of the subscriptions to the commands'
   topics are ignored, unlike those at main.cpp:378 and :383. One SUBSCRIBE that
   is lost leaves a connection that is kept and reported, with a lock that
   hears nothing until the connection happens to be lost.
4. `config_boot` (main.cpp:123): `config_store` fails if there is no `config`
   to unlink, so a device without the file (new, or interrupted between unlink
   and rename) never gets one, and the assertion on `config_load` fails at every
   boot.
5. `connection_online` (main.cpp:492): the will's "0" is retained, the "1" is
   not. After one lost connection, whoever subscribes to `online` is told "0".

6. `device_name_stuck` (main.cpp:588): `mqtt_queue_send_all` holds the queue's
   mutex while it publishes, which takes the client's lock or dispatches
   messages; `on_device_name` waits for the mutex with the client's lock. One
   name with a bad character queues an error, and as the main task sends it the
   handler's next item waits for ever.

Seen while modelling and not settled by a run: the size test of the `request`
key is the wrong way round (app.cpp:203 and :258), so every `request` that fits
is answered with an error, which is what opens the window of the first finding;
a read error in `config_load` counts as success (main.cpp:179); what is queued
for the DEVICE topics is sent to the MACHINE_ACCESS topics (main.cpp:596).

## What is assumed, what is left out

- The MQTT client is not in the repository. Assumed from its use: its lock is
  re-entrant for the task that holds it and held while handlers run; a call that
  waits dispatches what arrives; a call that times out leaves the connection up;
  `MQTTDisconnect` leaves the client disconnected. Whether it dispatches inside
  a handler is the parameter `MaxDepth`. Whether it closes the socket of an
  earlier connection is not known and not modelled.
- The broker keeps one session per client identifier and publishes a will when a
  session ends without DISCONNECT, also when a new CONNECT ends it.
- SPIFFS does an unlink or a rename entirely or not at all, and does not unlink
  what is not there. The configuration file fits the 100-byte buffer
  `config_load` reads with, so a read error loses all of it. A write that fails
  leaves nothing of its item.
- `LockController`: topic formatting, logging and the `status` texts are left
  out; payloads have no NUL bytes. `MainConnect` is all of `mqtt_connect` before
  `app_on_mqtt_connected`, and a reset by a notification bit is one of its
  `ConnectionLost` steps.
- `Connection`: the publish queue is left out of the loop's connected branch,
  `named` does not change during a run, and `app_on_mqtt_connected` is one call
  that succeeds or fails (`LockController` has it in detail, the ignored results
  included).
- `ConfigStore`: the compile-time overrides of ssid and password
  (main.cpp:689-696) and truncation of over-long values are left out.
- `DeviceName`: `mqtt_connect` before the name is one step (`Connection` has
  it), what the queue sends is not a payload but the topic it was meant for,
  and nothing it sends comes back. Writing `config.tmp` is part of `Unlink` or
  `StoreFails` (`ConfigStore` has it step by step); a read error at boot, which
  `ConfigStore` has, is left out.
- `PubSubClient`: what the relay does not use (QoS 1, `publish_P`,
  `unsubscribe`, `disconnect`, streams, the answer to a PINGREQ, which brokers
  do not send); packets that are malformed; unread packets are dropped when the
  peer closes. Only the last packet in the socket can be incomplete. A path over
  which one byte takes as long as the socket timeout counts as dead: what is cut
  off then is not followed by the rest of it, which the client would take for a
  new packet.
- `LegacyRelay`: the blinking LED, the serial log, and the wait for Wi-Fi before
  `setup()` goes on. `loop()` has no reconnect, and the model's has none.
- `KvParser`: `kv_write_int` is not called anywhere. What a callback returns is
  ignored by the code (kv.c:76, :95), so parsing goes on after a pair that
  `LockController` refuses; `pairs` is the calls made.

## Plan

What would be next, in order of what it would show:

1. `Connection` composed with the connect sequence of `LockController`, so that
   "kept" in one is "reported" in the other.
2. QoS 1 in `PubSubClient`, should a sketch begin to use it.
