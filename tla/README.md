# zigbee-go-home: TLA+ models and proofs

zigbee-go-home is a Zigbee gateway in Go. It drives an nRF52840 coprocessor
(ZBOSS NCP firmware) over a serial port, forms or resumes a Zigbee network,
interviews the devices that join it, keeps their records in a bbolt database and
offers them over HTTP, WebSocket, MQTT and Lua scripts. Almost everything that can
go wrong in it, and that a unit test would hardly reach, is a race between its
goroutines, or a failure between two writes. The models below are about that.

Paths are relative to the repository; the modules are in this directory.

## 1. The system

| Part | State | Operations | Talks to |
|---|---|---|---|
| Device manager `internal/coordinator/device_manager.go` | `addrIndex`, `interviewCancels` with generations, `lastJoin` | `HandleJoin`, `HandleAnnounce`, `HandleLeave`, reports, `Interview`, `RemoveDevice`, `CancelAllInterviews` | NCP requests, store, event bus |
| Device store `internal/store/bolt.go` | device bucket, network bucket | one transaction per call | - |
| NCP transport `internal/ncp/nrf52840.go` | `hlPending`, `llAckCh`, TSN and packet counters, `done`, port | `request`, `writeWithACK`, `readLoop`, `resetAndReconnect`, `Close` | serial port, indication callbacks |
| Network start `internal/coordinator/coordinator.go` | `ncpInfo`, network record, NVRAM of the coprocessor | `Start`, `FormNetwork`, `StartNetwork`, `saveNetworkState` | NCP, store |
| Automation engine `internal/automation/engine.go`, `lua_zigbee.go` | `vms`, one context, channel and Lua state per script, `vmWg` | `Start`, `ReloadScript`, `StopScript`, `RunScript`, `dispatchEvent`, `zigbee.after`, `Stop` | event bus, script files |
| Script manager `internal/automation/manager.go` | one file per script | `List`, `Get`, `Save`, `Delete` | file system |
| Event bus `internal/coordinator/events.go` | subscribers | `On`, `OnAll`, `Emit` | everyone |
| MQTT bridge `internal/mqtt/bridge.go` | `eventCh`, `pendingDiscovery` with generations, state and topic name caches | `eventLoop`, `delayedDiscovery`, `handleCommand`, `Stop` | event bus, broker |
| WebSocket hub `internal/web/handlers_ws.go` | clients, each with a send channel | `Run`, `Broadcast`, read and write pumps, `Stop` | event bus, browsers |
| HTTP API `internal/web` | none | handlers calling the above | everyone |
| Codecs `internal/ncp/nrf52840_zboss.go`, `nrf52840_hdlc.go`, `zcl_parse.go`, `internal/zcl` | none | pure functions on bytes | - |
| Process `cmd/zigbee-home/main.go` | configuration | start-up and shutdown order | everyone |

Goroutines. Indications of the coprocessor are handled one at a time in `readLoop`'s
goroutine. An announce starts an interview in a goroutine of its own, which makes
requests for minutes. HTTP requests run in parallel with all of it. Every script
has a command loop and every `zigbee.after` a goroutine. `main` shuts down in a
fixed order: HTTP server, WebSocket hub, automation, MQTT, coordinator (which
cancels and awaits the interviews); then its deferred calls close the NCP and, last,
the database.

What is hard, part by part, and what makes the part correct:

* Device manager: interviews of one device may overlap, and each is cancelled by a
  leave, a removal, a newer interview, a timeout or Stop. The registry of cancel
  functions must agree with the goroutines that run, or a device can never be
  interviewed again, or an interview can never be stopped. A record must not come
  back from the dead, and nothing may touch the database once it is closed.
* NCP transport: many goroutines share one port, one ACK channel, 256 TSNs and 3
  packet numbers, while frames are lost and repeated and a reset replaces the
  channels. No send on a closed channel; no request left waiting with nobody to tell
  it; no answer for the wrong request; no wait that never ends.
* Network start: forming a network takes several commands and one database write,
  and the process may die between any two. A record that names one network's key
  with another network's parameters would lock the devices out.
* Automation: a Lua state must have one user at a time; reloading, deleting and
  stopping race with dispatch and timers; Stop must end and leave nothing behind.
* MQTT bridge: an event queue that drops, delayed work for a device that has left,
  payloads made under a mutex and published after it, topics that follow a device's name
  and are cached, a broker that forgets subscriptions with the connection.
* WebSocket hub: four places close a client's channel, two goroutines cause them; a
  client must not silently miss a message, nor keep its place after it is gone.
* Device record: some writers merge fields in a transaction, some write back a whole
  record read earlier; a copy may be minutes old.
* Codecs: a damaged or misaligned frame must not be understood as another one, the
  reader must find its way back, and no number may change on its way.

`PROJECT.json` lists these hazards line by line, with the properties that cover them.

## 2. Modules

A component module has an `MC` module (model values and symmetry for TLC) and, where
theorems are proved, a `Proofs` module. An action ends where the code releases a
mutex, finishes a transaction, sends or receives on a channel, or waits, so that
every interleaving of the goroutines at those points is explored.

| Module | Models | Uses |
|---|---|---|
| `LatestWorker` | abstract: at most one live worker per key, the one begun last | - |
| `DeviceManager` | `device_manager.go`: control | implements `LatestWorker` |
| `DeviceRecord` | `device_manager.go`, `properties.go`: one record, field by field | - |
| `NcpLink` | `nrf52840.go`: transport | - |
| `NetworkStart` | `coordinator.go`, `nrf52840.go`: start | - |
| `AutomationEngine` | `engine.go`, `lua_zigbee.go`, `manager.go` | - |
| `WsHub` | `handlers_ws.go` | - |
| `MqttBridge` | `bridge.go` | implements `LatestWorker` |
| `Wire` | `nrf52840_zboss.go`, `nrf52840_hdlc.go`: operators on bytes | - |
| `Zcl` | `zcl/types.go`, `zcl_parse.go`, ZCL parts of `ncp`, Tuya and Xiaomi decoders | `Wire` |
| `Uplink` | device, line, `readLoop` and the handlers, end to end | `Zcl` |

### LatestWorker

What the device manager promises of interviews and the bridge of delayed
discoveries: a worker that begins for a key ends every other of that key, a worker
never becomes live again. Both keep a map from key to cancel function with
generation numbers; the refinement mapping forgets them and keeps which goroutines
are past their registration and not cancelled.

### DeviceManager

`store` is the device bucket; `addrIndex`, `cancels`, `interviewGen` and `lastJoin`
are the fields of `DeviceManager`. `hPc ...` is the `readLoop` goroutine in a
handler, `pc[j] ...` the interview goroutine `j`, `rPc[r] ...` an HTTP removal,
`stopPc` is `Coordinator.Stop`. `HandleJoin` is `JoinIndication`, `JoinGetDevice`,
`JoinSaveDevice`: the read and the write of the record are two transactions, and so
two actions. `HandleAnnounce` goes on with the two checks (interview under way,
debounce) and the start of the interview. `Interview` is registration, read, active
endpoints with retries, descriptors, context check, save, and the deferred clean-up
that compares generations. A database call may fail wherever the code has an error
path. An entry of `lastJoin` is missing, recent or old, the debounce time being the
border. A record keeps its short address and its `Interviewed` flag.

### NcpLink

Each `request` call `r` has a program counter, its TSN and packet number, and its
response channel (`resp`, `closedCh`). `hlPending` and `llAckCh` are the shared
fields. `readLoop` looks a channel up under `hlMu` and sends later: two actions. The
coprocessor is external: it receives frames (`NcpReceive`), acknowledges, and answers
(`NcpAnswer`) in any order; frames are lost in both directions and retransmissions
may be received twice. `received` is history: what the coprocessor got since the port
was opened, which a reset empties. `resetAndReconnect` and `Close` are step by step. In the
order `main` calls them, `Close` comes after `Start` has returned; the guards have
that order. (Without it a reset under way would reopen the port of a closed NCP: the
comment at `nrf52840.go:65` says `closed` prevents this, but only `Close` reads it.)

### NetworkStart

`disk` is the saved network state, `nv` and `run` the coprocessor, `info` the key the
NCP object remembers. `Start` tries to resume, then to form, then to form after a
factory reset. Any call may fail, with or without effect; `Killed` ends the process
at any point; `Boot(p)` starts it with any configuration. A failing resume forms a
new network with a new key: that is the fallback the code has, and the model has it.

### AutomationEngine

`vms` is `Engine.vms`; for a VM, `cancelled`, `commands`, `timers` and `vmPc` are its
context, channel, `zigbee.after` goroutines and command loop. Callers are `main` in
`Start` and the HTTP requests; `ReloadScript` is `ReloadStop`, `ReloadGet`, `Load`,
`Register`, `Spawn`, because the engine's mutex is released between them.
`dispatchEvent` works on a copy. Go's `select` chooses at random among ready cases: a
loop may take a command, and a dispatch may send one, after the context has ended.
`Stop` follows the shutdown of the HTTP server, which waits ten seconds for requests
being served; a request longer than that is not modelled.

### DeviceRecord

`rec` is the record of one device; `loop` is `readLoop` in a handler with the copy it
read, `iv` the interview with its copy, `RenameDevice` and `RemoveDevice` are HTTP requests.
`HandleJoin` and `HandleAnnounce` save a whole copy, all others merge in one
transaction, as in the code. A report carries a number of its own, so a lost or
revived value shows. A report may be of a standard attribute (`emitStandardProperty`), of a
structure (`processProperties`), or of both: under a definition in `StdDefs` the second writes back
the copy read before the first. Manufacturer and model are one field; LQI, RSSI and `LastSeen`
are left out. The index, the debounce and overlapping interviews are in DeviceManager;
here one interview runs at a time and may be cancelled at any point.

### WsHub

`clients`, `broadcast` and `done` are the fields of `WSHub`, `hub` is the goroutine in `Run`, `handler`,
`writer` and `conn` belong to a connection. `register` and `unregister` are unbuffered, so
a send is one step of both. `closes` counts the closes of a `send` channel: more than one
is a panic in Go, as is a send after one. `log`, `from` and `got` are history.

### MqttBridge

`states`, `topicNames`, `pendingDiscovery`, `discoveryGen` and `eventCh` are the fields of `Bridge`;
`loop` is `eventLoop`, `pc[w] ...` a `delayedDiscovery` goroutine, `cmd` the library's callback in
`handleCommand`, `conn` the OnConnect handler. The broker is what it retains. The library
is external: it delivers publishes in order, also over a reconnect, and loses the
subscriptions with the connection (clean session).

`record` and `name` are the store as the bridge sees it. Joins and announces are `HandleRead` and
`HandleSave`, with the whole record written back, so a device may become un-interviewed or come
back; interviews and renames give the name. A device publishes under its address (a member of
`Device`) or under its name (of `Name`), and two devices may have one name (`Topic`).
`cachedTopicName` is a look-up and, after a miss, a store of what it read, with other goroutines
between the two and before the publish; `updateAndPublishState` publishes after the unlock. The
OnConnect handler lists twice, either of which may fail, and subscribes to the names of the second
list.

`overlap`, `excuse`, `upset` and `unlisted` are history: whether another payload was under way when
a state was stored or another device took over the topic; which topics may keep something, and
why; whether an interviewed record was deleted, renamed or overwritten; whether the OnConnect handler
failed to list the devices. Each is set in the very step of its cause.

The devices of the model have endpoints and clusters that Home Assistant knows, and no write to
the store fails (`DeviceManager` has that).

### Wire, Zcl, Uplink

The codecs are operators on sequences of bytes; a reader is a function of the bytes
not yet consumed. In `Zcl` the digits of a typed value are in base `Base`, which is 256 in
the code and 8 in the run: with eight digits TLC's integers suffice, and all limits
(sign, width, a length of all ones) are at the same places. A number to be written may have a
fraction (its `n` is twice the number), and a float has a sign, an exponent and 6 or 2 significant
digits, where IEEE 754 has 53 or 24 bits, with rounding to the nearest, ties to even (`Nearest`,
`FloatBits`); NaN, the infinities and floats beyond 64-bit integers are left out. `Uplink` puts a device and a
line around them: the device says one thing, encoded by the rules of the protocols
and not by the code under test (`refTable` computes the CRC from its polynomial,
`StdWidth` the widths from the structure of type IDs), again and again; one frame may be
damaged anywhere, and noise may come first. The host reads with `readRawZBOSSFrame`, as
`readLoop` does, or with the HDLC reader, which is in the repository and not called.
`WriteAttribute` goes the other way: `EncodeValue`, `zclBuildWriteAttributes`, `buildAPSDEDataReq`,
`zbossEncodeRequest`; the device keeps what it finds in the request and reports it.
`Taken`, `Value`, `Event` and `Understood` are the types of what each layer hands to the next, so that
the markers beside them can be assumed to be none of them.

## 3. Runs

| Run | Instance | Shows |
|---|---|---|
| `DM_interviews` | 2 devices, 1 address, 2 interviews, debounce cap 1 | types; `EntriesAreLive`, `UncancelledIsRegistered`: registry and goroutines agree; `NoSaveAfterStop`; `DebounceBounded`; `OneInterview`: refines `LatestWorker` |
| `DM_removal` | 1 device, 2 removals, 1 interview, 2 attempts, fair | `OnlyIndicationsCreate`: no resurrection; `InterviewsEnd`, `StopCompletes` |
| `DM_join_overwrites` | 1 device | violation of `JoinPreservesInterview` |
| `NCP_link` | 2 requests, 2 lives of the port | types; `NoChannelPanic`, `WaiterRegistered`, `ResponseMatches`, `AckMeansReceived` |
| `NCP_liveness` | 1 request, 3 lives of the port, fair | `CloseReturns`, `ResetReturns` |
| `NET_start` | 2 configurations, 4 keys | types; `SavedKeyNamesNetwork` |
| `AUTO_engine` | 2 scripts, 2 VMs, 2 requests, fair | types; `RegisteredIsLive`, `LuaExclusive`, `StoppedIsQuiet`, `StopCompletes` |
| `AUTO_reload` | 2 scripts, 2 VMs, 2 requests | violation of `ReloadStopsOld` |
| `RECORD` | 3 models (none, unnamed and named definition, one of them in `StdDefs`), 3 reports, 2 joins, 2 renames, 2 interviews of 2 attempts | `ReportsSurvive`, `OnlyJoinForgets`, `NameIsReplacedBy` |
| `WS_hub` | 2 connections, 1 place, channels of 1, 2 events, fair | types; `NoChannelPanic`, `NoGap`, `PlaceIsFreed`, `ShutdownEnds` |
| `MQTT_bridge` | 1 device, 1 name, 2 discoveries, queue of 1, 3 events (joins, announces, reports, commands, leaves, renames, lost connections, Stop) | types; `RetainedIsCurrent`, `LeftoversExplained`, `CommandsReach`; `OneDiscovery`: refines `LatestWorker` |
| `UPLINK` | base 8, every type at its limits, every single fault of three frames, size limit 128 | `UnderstoodIsSaid`, `NoNeedlessLoss`, `Resync`, `WrittenIsReported` |

Bounds, and why they are enough. Two interviews of one device are what overlaps: a
third adds no new relation between an entry and a goroutine (and the proofs are for
any number). Two devices and a cap of one fill the debounce table. Two lives of the
port are before and after a reset; a TSN modulus of 4 lets the second life reuse the
TSNs of the first. Two configurations and four keys let a network be formed,
replaced, cut short and gone back to. Two VMs are two concurrent reloads of one
script, or a running script and a temporary run. Two connections for one place are a
rejection, an eviction and a reuse. Two discoveries of one device are what overlaps,
a queue of one is full with one event. A tick of a delayed discovery that finds the device not
yet interviewed changes nothing but the count, so one tick gives the same interleavings
as many. Three events of the bridge, of any kinds, are a report, a leave and one that interferes, or two
announces and a lost connection; interviews, and the steps of all goroutines, are not counted.
Two devices with one topic are in the proofs only. Numbers to be written lie at, inside and outside
the limits of every type, each whole and with a half; floats at, beside and halfway between those that
can be written exactly. Three frames lose or gain any byte or bit: one without a body, one whose
body has the bytes HDLC escapes, one with a ZCL payload; everything else is checked on
an undamaged line. The size limit is a few frames, so that a damaged length swallows
several. `MaxLives`, `RxCap`, `MaxKeys`,
`MaxTimers`, `Job` and `VM` bound what is unbounded in the code; the others are the
code's constants made small.

Deadlock is checked in the device manager, in network start and in `UPLINK`. In `NCP_*`,
`AUTO_*`, `WS_hub` and `MQTT_bridge` the system really stops, after `Close` or `Stop`; in
`RECORD` the bounded supply of events ends.

Fairness. Go schedules every runnable goroutine, so weak fairness holds for the
steps of interviews, of Stop, Reset and Close, and for `readLoop`'s own steps. The
requests an interview makes return, because `request` has a timeout. Nothing is assumed
of the coprocessor, of indications, of users, of events or of timers. In
`AutomationEngine` a Lua handler is assumed to return (the engine cannot interrupt
one: `startScript` gives the state no context), and `LoopExit` has strong
fairness: a loop with a full queue and an ended context chooses at random each
time and does not lose for ever. In `WsHub` the hub, the handlers and the write pumps are
scheduled, `conn.Write` returns (it has a timeout of 10 s), `conn.Close` returns, and a
`conn.Read` whose connection is closed or whose context is cancelled fails. Nobody has to
connect, disconnect or call Stop.

Every property of a passing run has a mutant: a plausible bug in one definition (a
dropped generation check, an uncounted retry, a clean-up that does not signal, a
blocking send, a wait for the wrong goroutines) that makes TLC report it.

### What disagrees with the repository

1. `DM_join_overwrites`: `HandleJoin` reads the record and writes it whole. An interview
   that finishes in between is overwritten, though the comment at
   `device_manager.go:139` promises to preserve interview data.
2. `AUTO_reload`: two reloads of one script at once leave a VM that nothing can
   cancel; `Engine.Stop` then waits for ever.

The models also show, without a run of their own:

* `HandleLeave` and `RemoveDevice` remove one address of the device from the index
  (`RemoveOneFromIndex`); a device that rejoined under a new address has two.
* Requests share `llAckCh`: the ACK that one drains as stale may be the one another
  waits for, which then retransmits (`TakeAck`).
* The deferred delete of a request that outlives a reset removes the entry of a newer
  request with the same TSN (`Return`).
* `canResumeNetwork` compares the configuration with the database, not with the
  coprocessor: after a formation cut short before its save, going back to the old
  configuration resumes the new network.
* An announce handled while a rename is stored takes the rename back, and so does an
  interview that read the name before: the exceptions in `NameIsReplacedBy`.
* A report and a command of one device at once may leave the older state retained on
  the broker: the exception `overlap` in `RetainedIsCurrent`.
* A device-left event dropped by a full queue, or a discovery published by somebody
  who looked the device up just before it went, leaves an entity in Home Assistant. A report
  retained under the device's address before the interview named it stays there, for
  `handleDeviceLeft` clears the cached topic only: the exceptions in `LeftoversExplained`.
* A device that a stale join un-interviewed, or a list that fails, keeps its entity in Home Assistant
  and has no command subscription after a reconnect, and a rename between the two lists of the
  OnConnect handler has entity and subscription disagree: the exceptions in `CommandsReach`.
* `parseAttributeResponses` reads what there is of a value that is cut short as the next
  record, while `zclParseAttributeReports` stops. A string length of 0xFF is 255
  bytes to both and no value to `zcl.DecodeValue`.
* `zcl.TypeSize` does not know data8 to data64, uint56, uint64 and int40 to int64, which
  `ncp.typeSize` does: such a report is given in hex, and a Xiaomi structure with such a
  tag is discarded whole.
* `EncodeValue` cuts a number to the 16 bits of Float16 without a check; it is the
  exception in `WrittenIsReported`. It accepts a fraction for an integer type and drops it (1.7
  becomes 1), and narrows to float32, without an error in either case: `LeftOf` says what is left.
* A definition that decodes a standard attribute once more, as a structure, writes the old value
  of the standard property back over the new one: the exception in `ReportsSurvive`.
* `zbossDecodeFrame` slices out of range for a data frame whose length is below 5; the
  readers admit none.

## 4. Proofs

All theorems hold for every value of the constants that satisfies the named
`ASSUME`s (bounds are naturals, `None` is not a member of the other sets, devices
are a finite set of numbers; those for the codecs are below). The theorems about components
follow from an inductive invariant of their module: `Init => IInv`, one lemma or step per
action, and a last temporal step. In `CodecProofs` the invariant comes last, and most of the
module is about operators.

* `DeviceManagerProofs`: `TypeCorrect`, `RegistryAgrees`, `LiveIsRegistered`,
  `OneInterviewHolds`, `DebounceBoundedHolds`, `StoreQuietAfterStop`, `NoResurrection`. The registry properties are not inductive alone: the clean-up
  compares generations, so `GenInv` says that numbers handed out are distinct
  and not above the counter, and `HandlerInv`, `RemoveInv`, `JobInv` say what the local
  variables of each goroutine hold. `OneInterviewHolds` is the refinement of
  `LatestWorker`: every action is a `Begin`, an `End` or a stutter under the mapping, because
  the registry names the one live interview of a device. `DebounceBoundedHolds` counts
  the table with the cardinality theorems. `NoResurrection` is an action property.
* `NcpLinkProofs`: `TypeCorrect`, `ChannelsSafe`, `WaitersReachable`, `ResponsesMatch`,
  `AcksHonest`. `Registered` says that `hlPending` holds open channels under their own
  TSNs, `QuietInv` that `readLoop` is off whenever channels are closed, which is what
  the two `wg.Wait` calls are for; `WireInv` and `AckInv` follow an ACK back to a
  frame with its packet number that was received since the port was opened, `AnswerInv` an answer to its TSN.
* `NetworkStartProofs`: `TypeCorrect`, `SavedKeyIsSound`. `FreshInv` says that the key being formed with
  is newer than the saved one, so a crash never leaves a record that names it.
* `AutomationEngineProofs`: `TypeCorrect`, `RegistryLive`, `LuaStatesExclusive`,
  `QuietAfterStop`. `OwnerInv` says that a caller owns the Lua state it works on until
  the loop starts, `FreshInv` that nobody else can reach it before it is registered,
  `StopInv` that Stop begins when no request is left.
* `WsHubProofs`: `TypeCorrect`, `ChannelsSafe`, `GapFree`. `ChannelInv` adds that a connection
  the hub has not taken yet is no client and has an open channel, so a rejection is its first
  close; `GapInv` that nothing waits for it, so it starts without a gap. The rest of `GapFree`
  is about sequences: an element moved from a queue to what was taken before, and one
  appended to the log and to a queue.

* `DeviceRecordProofs`: `ReportsAreKept`, `OnlyJoinForgetsHolds`, `NameIsReplacedByHolds`. Every writer
  works on a copy, so the invariant relates each copy to the record: `LoopInv` says what
  `readLoop` holds between the steps of a handler (the properties it read are those in the
  store), `IvInv` that the name in the interview's copy is the one it read until it chooses
  one, `ModelInv` that every copy names the device's model or none. `StoreInv` is `ReportsSurvive` at
  every step of `readLoop`, not only between handlers. The other two are action properties.
* `MqttBridgeProofs`: `TypeCorrect`, `OneDiscoveryHolds`, `RetainedIsCurrentHolds`,
  `LeftoversExplainedHolds`, `CommandsReachHolds`. `RegistryInv` (distinct generations, a registered
  discovery is the live one) makes `OneDiscoveryHolds` the second refinement of `LatestWorker`.
  `PayloadInv` says that a payload not yet published is the accumulated state unless an
  overlap was recorded. `CoverInv` says that what is retained lies under
  the cached topic or is excused, and `StagedInv` that the one topic `handleDeviceLeft` is about to
  clear is all there is to clear; without the two `LeftoversExplained` is not inductive, for the topic
  is found in one step and cleared in another. `KnownInv` says that whoever announces or subscribes
  a device does so under the name it has, as long as its record was not changed, and `ReachInv`
  that while the OnConnect handler subscribes, what has no subscription yet is on its list.
* `CodecProofs`, operators: `ReaderTakesFrames`, `ReaderPreventsPanic`, `NoiseIsSkipped`,
  `FrameRoundTrip`, `RequestRoundTrip`, `HdlcRoundTrip`, `ValueRoundTrip`, `WriteRoundTrip`, for
  streams, payloads, numbers and lists of records of any length. The codecs are recursive
  functions. `LeastNat` (a set of naturals has a least element) gives induction on sets, `Upward`
  and `Downward`; each recursive function is shown to exist before its equation is used
  (`RankedExists` does it for the HDLC scanner, whose argument is a pair). The checksums are shown
  to stay within a byte and a word, which is all a round trip needs of them. `ValueRoundTrip` is for
  any base, so for 256, where the run uses 8. It says what the type holds of the value (`Means`): whole parts, the nearest float;
  Float16, which `EncodeValue` cuts without a check, is left out.
* `CodecProofs`, `Uplink`: `MessagesAreUnderstood`, `LineIsInvariant`, `NothingIsLost`, `WritesComeBack`,
  `CleanIsUnderstood`, for every base of the digits, frame limit and number of faults.
  The argument goes up layer by layer. `MessagesAreUnderstood` says that each message of the
  device is `Good`: the frame that carries it, encoded by the rules of the protocols, is found by
  the reader behind noise, decoded, dispatched by `handleIndication`, cut into its records and
  converted to what the message means. There is one lemma per kind of message (ACKs, resets,
  announcements, reports, read responses, Tuya data points, Xiaomi structures); the ones with
  records share the parser's (`Delimited` says when a value ends where the next record
  begins) and the value codec's. `LineInv` is what makes it a statement about behaviours. The three
  properties speak of `got` and of a reader that blocks, and neither is inductive: one must know
  which bytes are on the line. `Silent` and `Speaking` tie message and frame together, `Clean`
  says that before the first fault the line is empty, with nothing behind, or holds one whole
  frame, perhaps after noise, that is still to be read (`Pending`), and `Wrote` that the message
  after a write means the value written. A read step then is `Good`, and a write step
  `EncodeValue`'s round trip through the request and the report. TLC checked `LineInv` on the
  instance of `UPLINK` before it was proved.

The assumptions of the codecs: a digit is a byte, the base is even and from 8 to 256, and the
frame limit (4096 in the code) leaves room for the longest message (`LineAssumption`); the table
written out in `nrf52840_hdlc.go` is that of the polynomial, which TLC evaluates
(`TableAssumption`); and the markers for no result, an error and a panic are none of the values
they stand beside (`ErrAssumption`, `NoneAssumption`, `ValueAssumption`, `PairsAssumption`,
`EventAssumption`, `ResultAssumption`).

Only model-checked: the liveness properties (`InterviewsEnd`, `StopCompletes`,
`CloseReturns`, `ResetReturns`, `PlaceIsFreed`, `ShutdownEnds`), which are out of the prover's
reach; `UnderstoodIsSaid` once a frame was damaged, and `Resync`: that no damaged frame
passes the checks as another message, and how much a wrong length can swallow, depends on which
faults the two checksums detect on these very frames. That is a fact about their tables and
not about every stream (some changes of several bytes do pass), and TLC evaluates it for every
single fault. A violation is a trace, found on a small instance.

## 5. Not modelled

* `ReadAttributes` with `zclPending`: its answers are decoded in `Uplink`, the registry of
  those who wait is not modelled. It is registered, looked up and closed like `hlPending`; a
  channel closed by a reset is taken for an empty answer.
* The frames and answers of single requests: scans, descriptors, binding, reporting,
  cluster commands, Lua's `zigbee` functions. One request each, without state.
* The numeric transforms of properties, cluster tables and names, discovery messages,
  HTTP parsing and authentication, templates: data and formatting.
* What earlier runs left retained on the broker, besides discovery; a database that fails to write
  while the bridge runs.
* The window in `NewBridge` in which the OnConnect handler may run before `b.client` is
  assigned, and an index rebuilt from a list read before a removal (`RebuildAddrIndex`; the
  step is in DeviceManager, a stale entry leads to no record).
* The Lua interpreter, the broker, the browser, the firmware: external.
* The browser scripts, device definitions, packaging: no state of the program.
* A corrupt database record, and a script that never returns.

## 6. Plan

Done: all components above have a run, and their safety properties are proved, but for
what a damaged frame may do in `Uplink`; `LatestWorker` has a refinement proof for the device
manager and for the bridge. Next, in order:

1. `NcpLink`: ZCL read responses (`zclPending`), and an abstract request and response service
   that NcpLink implements.
2. The index invariants of DeviceManager.
3. A bound for `Resync` that does not depend on the checksums.
