# A TLA+ model of the environmental sensor node

The repository is the firmware of a battery-powered sensor node (Zephyr, nRF52840).
Ruuvi tags are read over Bluetooth and soil and water sensors over an SDI-12 bus;
the samples are packed and sent by a radio module (LoRa-E5) or a 4G modem on a serial
line, whichever the build chooses. This directory models how a sample gets from its sensor to the network server,
and everything on that way in which several threads, a callback, a timer, the shell or
a line that loses things have to agree.

Paths below are relative to `src/` of the checkout. `PROJECT.json` lists for every
definition the lines it stands for.

## The system

Threads (all of priority 7 unless said otherwise): `main`, `ruuvi_scan`,
`sdi12_scan`, `lora_sm`, `cloud_send`; the shell has the lowest priority, the
Bluetooth receive callback a cooperative one, timers and UARTs call back from
interrupts.

| component | source | state | operations | talks to |
|---|---|---|---|---|
| LoRa state machine | `src/transport/lora_statemachine.cpp` | `Smi` (state, timer, count, buffer), `event_queue_` (10), `payload_queue_` (4), `lora_response_event`, `max_payload_len_` | thread `lora_sm`: one event at a time; `queue_payload`, `wait_for_response`, `get_max_payload_len`, `raw_write`, `raw_read` for other threads; `tick_cb`, `on_rx` from interrupts | radio module (lines on a UART), cloud sender (queue and event bits), `AppEvents` (clock event), shell |
| LoRa transport | `src/transport/lora_transport.cpp` | none | `send`, `send_log`, `max_payload` | state machine |
| cloud sender | `src/d_pipeline/cloud_sender.cpp` | `wakeup_event_`, day statistics, `last_day_` | thread `cloud_send`; `notify`, `timer_cb`, `set_bat_voltage` | transport, serializer, shell (`transmit`) |
| serializers | `src/serialization/*.cpp` | four subscriber queues of 16 | `pending`, `pack` | topics, cloud sender |
| publish/subscribe | `includes/pubsub/*.hpp` | subscriber list of a topic | `publish`, `subscribe`, `peek`, `remove` | scanners, serializers |
| Ruuvi scanner | `src/sensor_scan/ruuvi_scan.cpp` | `scan_event_`, `ruuvi_q_`, the mask of the tags | thread `ruuvi_scan`, Bluetooth callback | storage, topic, `AppEvents` |
| storage | `src/storage/nv_storage.cpp` | ten tags, the LoRa key, their copies in flash | `read_tags`, `write_tags`, `add_tag`, `clear_tags`, `is_listed`, `get_tag_mask`, key | scanner, shell |
| SDI-12 scanner and bus | `src/sensor_scan/sdi12_scan.cpp`, `src/hardware/sdi12.cpp` | power, buffers, addresses | thread `sdi12_scan`; power, send, receive | UART, shell, topics |
| UART driver | `src/hardware/uart.cpp` | receive pipe, transmit ring | `read`, `write`, `flush`, interrupt | state machine, SDI-12 |
| application events | `src/utils/app_events.cpp` | event bits | boot, clock and measurement events | everybody |
| 4G transport | `src/transport/modem_transport.cpp`, `jwt_builder.cpp`, `src/utils/system_clock.cpp` | the access token, the power of the modem | `boot_setup`, `connect`, `send`, `send_log`, `disconnect`, `max_payload` | modem (lines on a UART), `main`, cloud sender, `AppEvents` (clock event) |
| main | `src/main.cpp` | none | start of the modem, boot prompt, ten-minute measurement | `AppEvents`, ADC, 4G transport, cloud sender |
| shell | `src/utils/shell.cpp` | none | commands | everybody |

The 4G transport is used with `CONFIG_CLOUD_SEND_4G`, which `prj.conf` does not choose;
with it samples are packed as JSON. The legacy `network/lora.c` is not part of the build, `cJSON.c` is
vendored, `sdi12_simulator` runs on a host.

### What is hard about it

* Two threads, an interrupt timer and a serial line share two queues and one word of
  event bits, with no lock. A wait that resets the bits wipes what was posted just
  before it (`wait_for_response`, the wakeup of the cloud sender).
* The result bits do not say which payload they are about. A payload may stay in the
  queue after its call has failed, and its acknowledgement may come late.
* Everything may be lost: a command the module sleeps through, an answer, an uplink,
  an acknowledgement, an event that does not fit its queue, an event another thread
  takes.
* Deadlines run on different clocks: the caller's 95 s ("3 retries 30s each so 95 second
  timeout to account for those", `lora_transport.cpp:30`) against three attempts of 31
  ticks and up to 3 ticks of the port command before them, which make 96.
* The buffer a batch is written to has one size, what the transport allows another.
* The clock starts in 1970 and is set by the network, some time after boot.
* The shell has no lock on anything: it changes the list of tags in the middle of a
  Bluetooth scan and talks on the SDI-12 bus in the middle of a measurement.
* `main` calls the 4G transport before it has started anyone, but `lora_sm` runs in that
  build too and opens the same UART; and the wait at the boot prompt wipes whatever
  events were posted before.
* A dialogue of thirty AT commands takes each line for the answer to the last command,
  with a dozen ways out, on which memory is to be freed and the modem switched off.
* The two serializers peek at a queue and remove from it in two steps while the
  scanners publish.

`PROJECT.json` lists these as hazards, each at its line, with the properties that
cover it.

### What makes each component correct

* State machine: a payload goes out on its own port; an acknowledgement removes the
  payload it is about; batches arrive in order; whatever was lost, the machine finds
  back to `st_connected` and empties its queue.
* Transport: every call returns; a failed call says nothing about its batch.
* Cloud sender: at most one log a day and none on the day of boot; pending samples are
  tried again and again; the statistics of a day are reported.
* Serializers and topics: every sample a queue took is packed once and in order, a
  batch fits what the transport allows and the buffer it is written to (the latter is so
  in the build for LoRa only), a sample that is too large does not block the other types.
* Ruuvi scanner and storage: the list of tags has no holes and no duplicates, a round
  reports each tag once and every tag it waited for, what was heard is published.
* 4G transport: what came in is seen; whatever fails, the memory is freed, and the modem
  is off after `disconnect`, after a `connect` that fails and after `boot_setup`, except
  when that could not set up the UART (`modem_transport.cpp:150-153` returns and leaves the
  modem on); a call that begins with everything in order delivers and says so; no batch is
  delivered twice.
* Main: it gets past the boot, and asks for one sample in every ten minutes.
* SDI-12: the values that are published for a sensor come from it, a round nothing
  disturbs is complete, the power is off when nobody measures, a round ends.

## The modules

| module | models |
|---|---|
| `LoRaModem` | the radio module: external, what the firmware's commands and matches presume of it |
| `LoRaStateMachine` | `lora_sm` and the calls of the other threads on it; EXTENDS `LoRaModem` |
| `UplinkService` | what LoRaTransport promises: the abstract specification `LoRaStateMachine` implements |
| `CloudSender` | `cloud_send`; EXTENDS `UplinkService` |
| `Packer` | the topics, the subscriber queues and `pack` of both serializers |
| `NvStorage` | the list of tags, its copy in flash, the shell commands on it |
| `RuuviScanner` | `ruuvi_scan` and its Bluetooth callback; EXTENDS `NvStorage` |
| `Sdi12Bus` | the bus driver, the sensors (external), the shell commands on the bus |
| `MeasureCycle` | `sdi12_scan`, the boot event and the requests; EXTENDS `Sdi12Bus` |
| `UartPipe` | the receive side of the UART driver, with `read_line` |
| `ModemTransport` | the 4G transport and the token it signs, the modem (external); EXTENDS `UartPipe` |
| `Node` | `main`, the boot and clock events, and `cloud_send` on the 4G transport; EXTENDS `ModemTransport`, implements `UplinkService` |
| `LoRaStateMachine_proofs`, `LoRaDelivery_proofs`, `CloudSender_proofs`, `Packer_proofs`, `RuuviScanner_proofs`, `Node_proofs`, `NodeDelivery_proofs`, `MeasureCycle_proofs` | theorems |

### LoRaModem

A short command (`AT`, `AT+PORT=2`, ...) is answered with one line or not at all; a
long one (`AT+JOIN`, `AT+CMSGHEX`) takes its time, during which the module refuses
another one and may still answer short ones. `air` is the batch the network server
received last. `healthy` starts FALSE (anything may be lost) and may become TRUE for
good in `FairSpec` only: it states from when on nothing goes wrong, so that a liveness
property has something to promise.

A payload is its batch number and its port; a line is its text (one of 17) and, for
an acknowledgement, the payload it is about. The firmware does not see the latter:
no action of `LoRaStateMachine` reads it, only properties do.

### LoRaStateMachine

* `state`, `timer`, `count` are those of `Smi`; `buf` and `pipe` are the lines in its
  buffer and in the UART's pipe. `eventQ`, `payloadQ` are the message queues with
  their capacities: `Fit` drops what does not fit (`K_NO_WAIT`).
* One action per state and kind of event: `TickSetup`, `ReceiveAck`, ... Each is the
  whole of what `run()` does with one event: the handler, and the Exit and Enter
  handlers when the state changes (`Enter`, which flushes, clears `Smi` and writes the
  command of the new state). No handler blocks, so it is one action.
* `Respond` is `k_event_post` on `lora_response_event`. Only the bit of the length is a
  variable: the other two are wiped by the only wait for them before it looks.
* The calls of `cloud_send` are cut where another thread may act: `CallMaxPayload`,
  `PostCommand`, `LenTimeout`; `QueuePayload`, `PutEvent`, `ResetResponses`,
  `RespTimeout`. `waited` counts the ticks of a wait, and a deadline that is due is met
  before the next tick.
* `TimerTick` presumes what a second allows: threads that can run have run, so that at
  most one event that has just come in is still queued.
* `ShellWrite`, `ShellWaits`, `ShellReads` are `raw_write` and `raw_read`. `raw_read`
  waits on `event_queue_`: while it does, an event posted when `lora_sm` is at work goes
  to the shell (`Post`, `Handled`).

Left out: what the bytes of a line are, the buffer of 700 bytes
(`lora_statemachine.cpp:26`) filling up, the value of the length, the boot before the loop
of `run()`.

### UplinkService and CloudSender

`UplinkService` has a call in progress or returned, the batches handed over and
received, and the clock event. `ClockEvent` does not promise that the time was set: the
code does not (`lora_statemachine.cpp:492`). `CloudSender` is one action per step of
`run()` between which another thread may act. `pending` counts the samples of all
queues; `pack` takes 1 to `PackMax` of them, or none if the first does not fit.
`bootDay`, `logDays` only watch.

### Packer

`queue` has one subscriber queue per type of sample, `batch` the arrays of the message
(binary) or what was written (JSON), `used` is `enc_size` or `pos`. A sample is its
number and its encoded size. `format` is chosen in `Init` and stands for the build
option. The binary serializer puts the first sample of a queue into the message
(`Peek`), looks whether it still fits and removes it from one of the two (`Check`): a
scanner may publish in between. The JSON serializer tests for room first (`Write`).
`max_len` is chosen anew for each call, as the transport gives it. `cloud_send` passes it
to `pack` as the room there is in `pb_buf`, whose 51 bytes are `PbBufMax`: `pack` itself
never sees that size. The LoRa transport gives what the module reports
(`LoRaLenAssumption`: at data rate 1 that is no more than 51; the code compares it with
nothing), the 4G transport 6144. `BatchFits` is what holds in both builds, `BatchFitsBuffer`
what does not (see the disagreements). That a JSON element fits the 256 bytes
(`ELEMENT_MAX`) the serializer has for it is `JsonAssumption`; the longest one, a Ruuvi
reading, stays well below. The -1 of a `pb_encode` that fails
(`binary_serializer.cpp:103-106`) is left out: what is encoded has just been measured to
fit `max_len`. `begun`, `accepted` and `handed` only watch.

### NvStorage and RuuviScanner

`list` is `ruuvi_tags_`, a bit `1 << i` is slot `i + 1`. The commands `add_tag` and
`clear_tags` are cut at each look at the list and each store, because every other
thread may run between them. `flash` may or may not take a write, and a reboot keeps
nothing else. `scanEvent` holds the bits of `scan_event_`, `ruuviQ` the readings
between the callback and the thread. `Hear` is the whole callback: its thread is
cooperative, so nobody sees a part of it. That the stack makes no callback after
`bt_le_scan_stop` is presumed of it. `EndScan` may come at any time: by the bits or
after five minutes. `Prompt` is `main` coming to the prompt of the boot, whose wait wipes all
event bits (`main.cpp:112`), so also a request nobody waits for yet; that it does so once
is left out, it may come again. `RequestIsServed` is about requests that were not wiped.
`torn` remembers that the list was read at boot in the middle of a
command of the shell, the one way to a list with a hole; `asked`, `published` and
`stable` only watch.

### Sdi12Bus and MeasureCycle

Two masters, the scanner and the shell, each with its place in `cmd` and `wait_for`
(`io`), use one power pin, one line and one receive buffer (`line`). `Command` is up to
the break; after it flush and write do not wait, so `FlushAndWrite` is one action. What
comes back (`coming`) is the echo of the command with the answer of a sensor, or the
address alone of a sensor that has measured; `Garble` spoils the echo or all of it.
`wait_for` returns at the first line that holds what is expected, or at any line
when nothing is; a buffer may be full at any turn, since lengths are left out. A sensor
answers at once or not at all (the standard gives it 15 ms, the code waits seconds).
The scanner's table has the address and the sensor; its identification reads the first
line and does not look at the address. `trouble` tells what disturbs the round or the
scan, `moved` that an address changed after the scan, `leftOn` that a command returned
with the power on; all three only watch. A request may come at any time, which covers
what main's clock arithmetic can produce. `Prompt` wipes all the events at once, as in
`RuuviScanner`, except that a thread a post has woken goes on whatever becomes of the bit
(`Woken`). `BootContinue` and `ClockEvent` come while the thread has still to wait for
them: an event after that changes nothing it looks at.

### UartPipe and ModemTransport

`pipe` holds pieces of input: the texts of a piece the firmware looks for, and whether it
ends a line. `read_line` is cut where the interrupt may come: the event is cleared
(`ClearRcvEvt`), then the pipe is emptied (`ReadLine`, `ReadPart`). What stood behind the
first end of a line is dropped, as the code does.

A call of the transport walks through places. Those of `Dialogue` are the calls of `at`,
a row each: the command, what it waits for, where the code goes with it and without. A
row is about the first line that holds the text, or `ERROR`, or no line in time
(`AtLine`, `AtTimeout`); every other line is passed over, and a deadline begins anew with
each. `TimeLine` and `TokenLine` are the two loops that look at lines themselves. The
other places are what the code does with memory and its decisions; the locals of a
function (`tries`, `timeOk`, `full`, `chunk`) are cleared when it returns. `heap` counts
the blocks each pointer holds.

The modem (external) may, until `healthy`, refuse a command, not hear it, and have pieces
lost on their way; it answers at any later time, so also when nobody waits any more
(`MaxComing` bounds what is on its way). A healthy one answers every command and nothing
else, its answers come in one by one and in time, and its SIM has no PIN: with one, the
`OK` behind `+CPIN: SIM PIN` is taken for the answer to `AT+CPIN="1234"`, every later answer is
one late, and `modem_get_time` takes the last `OK` for its own and fails. A piece comes in
whole, but an `OK` that is alone may come in two parts.

### Node

`main` is where `main()` is; `Post` wakes who waits, as `k_event_post` does, whatever
becomes of the bits. In the build for 4G `BootSetup` calls the transport, in that for LoRa
`main` begins at the prompt, and the clock event comes from `lora_sm` (`LoRaClock`), which
is otherwise `LoRaStateMachine`. `LoRaInit` is its `uart_.init` in either build: it takes
the interrupt of the UART from the transport. `Look` and `Tick` are the loop of `main` in
units of 5 s: `Cycle` 120, `Minute` 12, `Early` 1 are the numbers of the code; the short
sleep is one unit, and `adc_read` may take `AdcTime`.

`ConnectNew` to `DisconnectReturns` are `cloud_send` on the transport. `cloud_send` is
woken ten minutes after the clock was set, when `main` has long passed the prompt: `MayCall`
is the bound that says so (with `continue` and `transmit` given during `boot_setup` of a
node whose clock is set it would not hold, and two threads would use the modem at once).
`stop` is given where something may come of it.

`Node` implements `UplinkService`, so what `CloudSender` shows of batches holds in both
builds. What it shows of the daily log does so in the build for LoRa only: `send_log` of
the 4G transport is called without a connection and always fails
(`modem_transport.cpp:228-231` and 395), so that no log is ever delivered there.

## The runs

| run | bounds | shows |
|---|---|---|
| `lora_safety` | two ports, two batches, queues of 3 and 2, two attempts, patience of one tick, every kind of clock answer | types, `OnItsPort`, `AckForHead`, `DeliveredInOrder`, `ImplementsService` |
| `lora_recovery` | one port, one batch that may be handed over again, event queue of 6, with the raw commands of the shell | `Recovers`, `NextCallFlushes` |
| `lora_wrong_ok` | as `lora_safety`, a deadline of 8 ticks | violates `OkMeansDelivered` |
| `sender` | three samples, three days, batches of two, three attempts | `NoLogOnBootDay`, `OneLogPerDay`, `PendingIsTried`, `StatsAreReported` |
| `sender_boot_log` | as `sender`, `TimeFails` | violates `NoLogOnBootDay` |
| `packer` | two types, queues of two, samples small and too large, three samples of a type, both formats | `EachSampleOnce`, `BatchFits`, `NothingMeansNoneFits`, `NoTypeBlocksAnother` |
| `packer_buffer` | the numbers of the code: four types, queues of 16, 51 and 6144 bytes; readings of 30 and 80 bytes | violates `BatchFitsBuffer` |
| `ruuvi` | two tags, two slots, reboots | `ListWellFormed`, `QueueNeverFull`, `RoundReports`, `OncePerRound`, `RequestIsServed`, `HeardIsPublished` |
| `ruuvi_skip` | as `ruuvi` | violates `SkipMeansSeen` |
| `sdi12` | two sensors, one of each way to be read, two addresses, one command of the shell | `TableIsRight`, `ValuesOfTheSensor`, `RoundIsComplete`, `PowerOffAtRest`, `RequestIsServed`, `RoundEnds` |
| `node` | one retry of `modem_init`, a request of two chunks, two attempts, one batch, two pieces on their way, the real times | types, `PendingIsSignalled`, `HeapBalanced`, `OffAtRest`, `SoundCallDelivers`, `EachSlotOnce`, `ImplementsService`, `DeliveredOnce`, `StartsUp`, `GetsThrough` |
| `node_clock` | as `node` | violates `SyncedClockEndsWait` |

Why the bounds suffice. The patience of a state matters only by whether it ends before
or after an answer, and the timer interleaves freely with the answers, so one tick
shows both. Two batches in a queue of two give a payload that stays behind and the
next one; two attempts give a resend. Queues of three events overflow and hold a
reposted event beside a new one. `MaxLines` stops the module from printing while one
line is unread; a handler still sees two lines at once, as an acknowledgement comes
with its `Done`. In `lora_recovery` `ClockTicks` is 4: the clock takes three
answers, and a patience shorter than that never ends (the code's is 30).

In `packer` two types give one that is blocked and one that is not, and a queue of two
a first and a next sample and a full queue. `MaxSamples` ends the publishing, which is
why a deadlock is none there. The lengths 3 and 9 let a large sample fit or not; 12
leaves a JSON batch room for one element or two. In `ruuvi` two slots give a hole before a tag and a full list.
In `sdi12` a scan of the shell is two commands, the others one of each kind to each
address, at any step of the scanner, before the boot too; two sensors and two addresses
give an answer of the wrong sensor and an address used twice. Noise is not bounded.

In `node` a retry of `modem_init` and of the batch is what a failure needs to be followed
by a success, and to be given up on. Two chunks give a request of which the modem took a
part. Two pieces are an answer of two lines, or a late one and the next. One batch is
enough to be delivered twice; that a second one overtakes it is impossible, as `send`
returns before the next is packed, and `Node_proofs` shows it for any number.

### The disagreements

* `OkMeansDelivered` ("wait for ack or for error", `lora_transport.cpp:30`). The
  payload of call 1 stays in the queue when its call fails; call 2 is waiting when
  the acknowledgement of 1 comes in, and returns success. Payload 2 is still queued.
  Had call 2 been the last, its result would be right by accident.
* `BatchFitsBuffer` ("PB_BUF_MAX = LoRaStateMachine::PAYLOAD_MAX_LEN; //set initially for
  DR1", `cloud_sender.cpp:19`). `pb_buf` has 51 bytes in either build, `pack(pb_buf,
  max_len)` is told the 6144 of `ModemTransport::max_payload()`: a JSON batch of one
  reading is longer than `pb_buf` already. The other modules take a batch as a whole and
  presume that it was written to where it fits.
* `NoLogOnBootDay` (`cloud_sender.cpp:91`) when the clock event came without a time.
  With it, `DaysRise` is proved.
* `SyncedClockEndsWait` ("sync system clock", `modem_transport.hpp:23`). `boot_setup` sets
  the clock and posts the event before the prompt, whose wait resets all events
  (`main.cpp:112`): `main` then waits for the clock for ever. `cloud_send` does too, unless
  the user gave `continue` early.
* `SkipMeansSeen` ("skip if already seen this tag in this scan round",
  `ruuvi_scan.cpp:114`). A round clears the bits of the mask taken at boot. A tag added
  later has a bit outside it: it is reported in one round and skipped ever after.

### Fairness

`FairSpec` of `LoRaStateMachine`: `lora_sm` and `cloud_send` run when they can (equal
priorities, neither spins), the timer fires, the deadlines of the kernel expire, a
healthy module answers and ends what it does, and the shell ends its read (its wait
lasts a second at most). Nothing is assumed of `cloud_send` calling again, of the
module while it is not healthy, or of `Recovery` ever happening: the properties
presume it in their antecedent. `FairSpec` of `CloudSender`: the thread runs, the timer
expires again and again, every call returns (it has a deadline), the clock event comes.
`RuuviScanner`: the thread runs, the boot and each scan end (the scan has a deadline).
`Packer`: `cloud_send` packs as long as something is pending, which is `PendingIsTried`
of `CloudSender`. `MeasureCycle`: the scanner runs, what is on the
line comes in or is lost, and a command the shell has begun goes on. Nothing is
presumed of sensors, operator, clock or requests: `RequestIsServed` is about a request
the scanner is past the boot to see. `Node`: main, `lora_sm`, `cloud_send` and the
transport run, every deadline of `read_line` expires, what is on its way comes in, and
`lora_sm` gets the time of its network in the end. `GetsThrough` presumes a modem that is
healthy from some time on and a `lora_sm` that does not talk to it.

Two of the liveness properties presume less than they seem to. `Recovers` is about a shell
that leaves the line alone (`reader`), `NextCallFlushes` about any; `StartsUp` allows what
really ends the start: the user, and a UART that cannot be opened.

## The proofs

For every value of the constants:

* `TypeCorrect`: `Spec => []TypeOK`, with `PortsAssumption`, `RtcAssumption` and
  `LimitsAssumption`.
* `Inductive`: `Spec => []IInv`. `OnItsPort` and `AckForHead` are not inductive: they
  hold because a port command is answered or dropped before `st_init` is left
  (`PortCommandInTime`), an unread answer to it is about the head of the queue
  (`PortAnswered`), a payload on the air is the head of the queue or was given up in
  `st_join` and ends there before `Joined` (`InFlight`), and a result in the buffer
  means the uplink is over (`ResultEndsFlight`). `BatchesRise` orders the batches along
  their way. The proof has a lemma for each way a step may
  disturb it (`QuietStep`, `EnterShape`, `ResendShape`, the module's steps, a batch that
  joins the queue) and one per group of actions that cites them.
* `RightPort`, `RightAck`, `RightOrder`: `OnItsPort`, `AckForHead`, `DeliveredInOrder`.
* `Implements`: `Spec => ImplementsService`, the refinement of `UplinkService` under
  the mapping `CallOfService`, with `IInv` for the order of the deliveries.
* `CloudSender_proofs`: `TypeCorrect`; with `~TimeFails`, `RisingDays`, `QuietBootDay`
  and `OneLog`.

* `Packer_proofs`: `TypeCorrect`, `SamplesAreKept`, `BatchesFit`, `GivesUpForAReason`
  from `Inductive`, with `PackerAssumption`, `JsonAssumption` and, for `pb_buf` in
  `BatchesFit`, `LoRaLenAssumption`. `FitsBufferOfItsLength` says what `BatchFitsBuffer`
  lacks: that the 4G transport, too, allows no more than `pb_buf` has. `NothingMeansNoneFits` speaks of the queues as they were at the
  call; `NothingYet` carries it through the loops: as long as nothing is kept, the
  types already done had nothing that fits and the others begin with what they began
  with. `StageInv` says that what is being tried is the first sample of its queue.
* `RuuviScanner_proofs`: `TypeCorrect`, `TagListIsSound`, `NothingIsDropped`,
  `RoundIsReported`, `ReportedOnce` from `Inductive`. `ShellInv` keeps what a command
  has found out until it acts on it (no other thread writes the list after boot);
  `BitsInv` gives each bit that is set in a round at most one reading and each reading
  its bit, so the readings are never more than the slots.

* `Node_proofs`: `OneSampleASlot` from `SlotInv`, which says when the sleep of `main` ends,
  with `NodeAssumption` (the measuring of the voltage takes no longer than `main` wakes up
  early). `NothingIsForgotten`: `PendingIsSignalled` is inductive. `MemoryIsFreed`,
  `OffBetweenCalls`, `NoDuplicates`, `ImplementsUplink` from `CallInv` and `HeapInv`:
  which places a call may be at (`PlaceInv`), the blocks held at each (`Held`), where there
  is no token (`TokenInv`) and no power (`PowerInv`, of which `RestInv` is the part about a modem nobody
  uses), what the modem took of the request
  (`ChunkInv`), and that the batch in hand has not been delivered before the last chunk is
  written (`Undelivered`). `RowShape` and `TalkShape` say once where the rows of the
  dialogues lead; the steps on memory and the decisions come in three groups
  (`NoTokenStep`, `TokenStep`, `SendStep`).

* `MeasureCycle_proofs`: `PowerIsOff` (inductive by itself), `TypeCorrect`,
  `ValuesAreItsOwn`, with `BusAssumption` and `SensorsAssumption`. `RoundInv` says what a
  round has in hand at each place: the entry it is at, the command sent for it, a line that
  answers it. `FreshInv` says that, from the end of the scan (which switches the power
  off) and while no address is changed, what is on its way, on the line or in the
  scanner's buffer was sent by the sensor at the address its command named, or is spoilt.
  The parser only takes a whole line that answers its command, and the table has the
  sensor at that address.
  `TablesAreRight` and `RoundsAreComplete` from `UndisturbedInductive`: while the shell keeps
  away (`QuietInv`), a scan has at most one answer on its way, from the address it asked
  (`ScanInv`), and where nothing has answered nobody is (`FoundInv`). `SampleInv` says that
  in a round the line the scanner needs is the first to come or the first on the line, so
  that `wait_for` ends with it, and that the samples are those of the entries done.

* `NodeDelivery_proofs`: `TypesHold` from `TypeInv`, `DeafStaysInBoot` and `SoundCalls` from
  `DeliveryInv`, with `ModemAssumption` and `NodeAssumption`. An attempt is in order if the
  modem is healthy and `lora_sm` has ended. `ConnectGood` and `SendGood` say for each
  place what is unread: no `ERROR`, and the text the command just written waits for, which
  will be read because the last piece ends a line (`Due`). A timeout is then impossible
  where the code needs the answer, and where it happens (the two loops of
  `http_read_access_token`, the rows of `send` that lead on with and without the text) the
  code goes on. An `ERROR` left in the pipe by an earlier call is read by the first `AT`,
  and `modem_init` tries again: `tries` is 0 then (`TryInv`), as it is at the beginning of
  every call. What is on its way is nothing, since the modem had no power (`SilentInv`, with
  `RestInv`), and the interrupt is that of this transport, since somebody has set the
  clock (`DeafInv`). `SendTakes` counts the chunks: with the last the batch is delivered.

All safety invariants and action properties of the passing runs are proved. Only
model-checked are the liveness properties (`Recovers`, `NextCallFlushes`, `PendingIsTried`,
`StatsAreReported`, `RequestIsServed`, `HeardIsPublished`, `NoTypeBlocksAnother`,
`RoundEnds`, `StartsUp`, `GetsThrough`): fairness and ENABLED are out of the prover's
reach. Induction over data is not needed: where a sequence is searched for its first
element, as in `read_line`, the least number of a set is taken (`LeastOf`).

## What is left of the plan

1. End to end: `CloudSender` over `LoRaStateMachine` and `Packer` in one module.
2. `UartPipe`: the receive pipe and `lora_wait_for` on bytes, as a refinement of the
   lines of `LoRaStateMachine`; the full buffer.
3. `NvStorage`: the LoRa key and its copy in flash.
4. A clock that steps back, in `CloudSender` and in the loop of `main`.

## Not modelled, and why

* The legacy LoRa code (`network/lora.c`) is not built. `cJSON` is vendored; what `Parse`
  presumes of it is that it succeeds on what begins with the token. The SDI-12 simulator is
  a test tool for a host.
* The parity of the SDI-12 bytes, the layout of messages, the text of the token and the
  request: data no property tells apart.
* The LoRa key: `lora_statemachine.cpp` never reads what the shell stores.
* The battery voltage: `main` sets it and the log carries it, nothing depends on it.
* The lengths in the buffers of `read_line` and `at_len`, except that a body may be too
  long for a command (`TooLong`). `disconnect()` is modelled as returning, though it lacks
  the return statement its type calls for; nobody reads its result.
* The time zone the modem reports: `SystemClock::set` succeeds or not.
* The build for 4G does not compile as committed: `main.cpp` includes two of its headers
  without their directories (lines 23 and 24) and calls an `init` that `JsonSerializer`
  does not have (line 106). What is modelled is the code behind that.
