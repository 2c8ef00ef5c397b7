# A TLA+ model of aft_sdk

aft_sdk is a small C SDK for microcontrollers: device drivers, an event
scheduler, serial protocols, a boot loader, and ports to bare metal, RT-Thread
and Zephyr.  Almost everything runs in one main loop that polls protothreads and
state machines; interrupt handlers feed it through rings and queues.  What is
hard to test in it is therefore: interrupts between two accesses to a shared
index, protothreads that change places at a yield, answers that are late or
lost, timers on a clock that wraps, and power cuts between flash operations.

Paths below are relative to `src/src/`.

## 1. Inventory

| Component | State it keeps | Operations | Hard behaviour | What makes it correct |
|---|---|---|---|---|
| **nboot** (`components/nboot`) | slot A, slot B, the download state page | `boot_app`, `nboot_set/get_image_down_state` | power cut or flash error at any step; the page is erased and rewritten in place | only whole images run; an interrupted installation is repeated; an update is atomic; the device starts |
| **app_scheduler** | ring of events, start and end index | `app_sched_event_put`, `app_sched_execute` | puts from nested interrupts; slot given back before its handler runs | a bounded FIFO: every accepted event runs once, in order, with its own data |
| **apbus UART backend** | `serial_pt_data`, `ctx->msg` | `apbus_serial_read`, `check_integrity` | noise, damaged frames, timeout inside a frame, several ports | exactly the undamaged frames are delivered, in order |
| **apbus** | one answer slot per port, a timer per call | read, write, unacknowledged write; `apbus_recv_poll` | lost, late and overwritten answers; several threads | an answer reaches the call it belongs to; every call returns |
| **soft timers** (`components/drivers/sdk_soft_timer.c`) | start, timeout, stop flag | set, stop, expired | wrap of the tick; start = 0 | expires once, in time |
| **OS port "none"** | semaphore and event state machines | take/release, send/recv, critical section | empty critical section; polling timeouts | a release is taken once; a timeout is reported once |
| **UART driver** (`components/drivers/sdk_uart.c`) | receive ring | read, receive interrupt | overrun moves the reader's index; the DMA variant masks nothing | a FIFO that loses only its oldest byte, when it is full |
| **CAN driver** | open state, message ring, list of handlers by id | open, close, receive interrupt, poll, register tables | overrun; a table registered again or behind another | the list is what was registered; messages in order, each once |
| **sdk_ringbuffer** | put, get index, full flag | put, get, forced put | interrupt between two accesses of `getchar` | FIFO if the caller masks; otherwise in order until a forced put meets the read |
| **event_scheduler, sdk_dlist** | doubly linked list | put, execute | handlers put nodes, their own too, while the list is walked | list stays a list; one call executes what was queued when it began |
| **at_device** | line parser, response, command state, URC list | parser poll, two command calls, URC tables | late answers, URC between two lines of an answer, buffers at their limit, retries | a command's result is its own answer's; a call with retries ends |
| **unibus** (UART and BLE backends) | as apbus; BLE ring, subscriptions | as apbus; frames passed on to other devices; notifications in blocks | as apbus; overrun; a peer that unsubscribes between two blocks | undamaged frames in order; no answer used twice; a notified message arrives whole |
| **modbus** | none | build requests, check and classify answers | the kind of an answer is inferred from its bytes; damaged lines | a frame is taken for what it is |
| **sdk_swi2c** | the two wires | write, read | clock stretching and its timeout, retries of the address | bits framed as meant; success means acknowledged; the bus is free afterwards |
| **tm1668** | shadow of the icons, the chip's memory | print icons, speed, mode, battery; brightness; init | icons and digits share addresses; shadow and memory part ways | every icon is as it was last printed |
| others | | rtc, adc, gpio, watchdog, libc, log, errors, MCUboot port | little interaction | |

How they interact: interrupts call `sdk_uart_rx_isr` and `app_sched_event_put`; the
main loop calls `app_sched_execute` and polls apbus, unibus and the AT client; those
read the UART's ring and use soft timers; the scheduler uses the OS port's critical
section, the AT client its semaphores.  The two bus backends, the CAN driver and the
UART driver each have their own copy of one receive ring, and unibus a copy of apbus's
reader.  The application downloads an image with them and tells nboot by the state
page; nboot runs alone, before it.

`PROJECT.json` lists every component with its status and every hazard at its
line.  Vendored code (`3rdparty/`), the empty files of `components/net`, boards
and examples are left aside.

## 2. What is modelled

### NBoot - the boot loader
`NBoot.tla` has the two slots as functions from blocks to contents, the state
page as a record, and one action per flash operation: `GetDownState`,
`EraseSlotA` (block by block), `CopyBlock`, `JumpToApp` for `boot_app`;
`CheckNeedUpdate`, `EraseMeta`, `WriteMetaWord` (magic, state, size one after
the other) for `nboot_set_image_down_state`, which the application and the
loader both call.  A block is `IAP_BUF_SIZE` bytes; its content is the image it
belongs to, `ERASED` or `TORN`.

Faults: `FlashError` (any operation returns an error; the code's `goto err`) and
`PowerLoss` (everywhere; the block under the controller may be torn), then
`Reset`.  `PowerCycle` restarts a hung device.  The erasure of the state page is
atomic; its three words are programmed one at a time and each of them whole.

External, modelled from the use nboot.c makes of it: the flash driver, and the
application, which takes back a `DOWNLOAD_OK` before it overwrites slot B, stays
inside the slot, and commits when all blocks are there.  An application that did
otherwise would break the promise of any boot loader.  A size that leaves the
flash is refused by the driver (`EraseRefused`); a size between the slot's and
the flash's end, which nboot.c does not check, cannot be committed in the model.

`BootPromise.tla` is what the loader promises: the image that the next start
runs (`effective`) and the image that runs (`running`).  Only a running
application changes the first, in one step.

### AppScheduler - the event scheduler
Contexts 0 (main loop) to `Levels` preempt one another by priority.  Every
access to `m_queue_start_index`, `m_queue_end_index` and to the header and data
of a slot is a step.  `CriticalMasks` says whether the OS port's critical section
keeps interrupts out: on bare metal (`sdk_os_port_none.c`) it does not.  The
handler of an event reads its data through a pointer into a slot that
`app_sched_event_get` has already given back; `RunHandler` reads it last, and the
main loop may put events meanwhile (`MainPuts` from "call").  The indices are
`uint8_t` and `next_index` wraps with them, while `m_queue_size` has 16 bits: a
queue of more than 255 entries, for which `APP_SCHED_BUF_SIZE` reserves the room,
holds 255 events (`Capacity`).  Queues longer than 8190 are left out, whose headers
`data_start_index`, of 16 bits, does not reach past.  `SchedPromise.tla` is a bounded
FIFO queue of `Capacity` events.

### ApBusReader and BusFrame - reading a frame
`apbus_serial_read` as a protothread of each port, with the static
`serial_pt_data` as one variable for all of them; `running` is the port the main
loop is in, and others run only when it has yielded or returned.  `BusFrame.tla` is
the form of a frame: bytes carry
their value and, for the checksum, the frame and position they were sent at:
`check_integrity` accepts exactly the bytes of one undamaged frame.  Five bytes
of ids, function and index are one element, and so are two of checksum.  The
UART is an unbounded queue here (UniBus runs the same reader behind a ring that
overruns).

A length has 16 bits (`LengthAt`), and the code does not compare it with the room in
`ctx->msg` (`apbus_backend_uart.c:113`, `unibus_backend_uart.c:113`,
`unibus_backend_ble.c:398`).  When more bytes come than there is room for, the code
writes them to the memory behind; the model goes to "overrun" and stays there, for
nothing is known of the program then.  One stream of the run gets there.  A yield
waits for a timer that, set when the clock reads 0, never expires
(`sdk_soft_timer.c:16`): `Yield` may go to "stuck", from where there is no step.
`EveryFrameDelivered` leaves both out and says so; `DeliversFramesSent` holds with
them.

### ApBus - requests and answers
Threads call read, write or unacknowledged write, wait, and end with the answer
in `msg_body` or with a timeout.  The bus is two queues that lose frames.
Requests carry a number that the code does not have; no guard reads it, only
properties do.  `Prompt = TRUE` restricts the bus to frames that come in the
tick they were sent or never.  The clock wraps at `W`; it does not advance while
a thread has an expired timer it has not looked at (the main loop polls at least
once a tick).  `SoftTimer.tla` holds the timers' operators.

### RxRing, RingBuffer and LossyFifo - the rings
`RxRing.tla` is the receive ring of `sdk_uart.c`, of which `sdk_can.c` and
`unibus_backend_ble.c` hold copies: the writer preempts the reader and runs to
its end, every access of the reader to an index or the flag is a step, and so are
the load of `get_index` and the read of the slot it names, and the load and the store
of `get_index += 1` (a compiler may keep the first load for the second: both are
modelled).  `masked` chooses between
`sdk_uart_read` without DMA, which disables interrupts, and the readers that do
not (`ble_read`, a UART with DMA).  `RingBuffer.tla` does the same for
`sdk_ringbuffer.c`, which uses every slot and tells full from empty by `is_full`.
`LossyFifo.tla` is what both promise when the reader masks: a queue that, full,
forgets its oldest byte or refuses the new one.

Without the mask less is true, and that is checked.  The receive ring always holds the
newest bytes, in order (the general one may lose bytes), and bytes are taken in order
and none twice up to the first *race*: an overrun or a forced put that stores into the
slot whose index the reader has loaded and which it has not read yet.  After that the
reader has got the newest byte in place of the oldest, and gets it again.  The history
variables `rx_raced` and `rb_raced` say whether it happened; no guard reads them, and
the properties say that with the mask it does not.  `sdk_ringbuffer_peak` reads
`get_index = put_index` without `is_full` and reports a full ring as empty; it changes
nothing and is left out.

### CanDriver and ObjList - the CAN driver and the lists of handlers
`ObjList.tla` has the singly linked lists that `sdk_can.c` and `at_device.c` build
through the entries of their callers' tables: `Register` walks to the end and
skips entries that are in the list.  `CanDriver.tla` has several controllers,
open and close that may fail, the interrupt's queue (here the queue RxRing
implements: both sides mask) and the poll that hands the oldest message to the
handler of its id.  A table is registered with one controller: an entry has one
`next`, and one `can_dev` field that a later registration overwrites.

### EventList - the list scheduler
`sdk_dlist.c`'s insert and remove as functions on `next` and `prev`, and
`event_sched_execute` as a walk whose handlers may put nodes.  Nothing in
`event_scheduler.c` keeps an interrupt out, or notices that a node is in the list
already; the model assumes puts from the main loop and of nodes that are not
queued.  (`event_scheduler.h:14` has the declaration of the node's list commented
out, so the file does not compile as it is; the model is of `event_scheduler.c`.)

### OsNone and AtClient - the AT command client
`OsNone.tla` has the polled semaphores of `sdk_os_port_none.c`: a take is one
poll, and reports an expired timer one poll later.  `AtClient.tla` has the parser
and the command in turn, as a main loop polls them: `at_cmd_common`, which sends
again when it times out, and `at_cmd_common_ex`, which retries `Retry` times with
an interval.  A line is one element of the UART's queue; a "long" one does not fit
the line buffer, "ok" stands for the end sign too, "error" for FAIL.  The modem
is any that answers with one of `Answers`, or not at all, at once (`prompt`) or
whenever it likes, and sends URCs in between.  Ticks pass only while a timer
runs: nobody can tell the others apart.  The flag `lost` of the modem's record says
that the UART's ring dropped a line of an answer; only `AtResponseIsOneAnswer` looks
at it, and at `urcs`, how many events there were.  A last line that does not fit the
response clears it, and the status is OK or ERROR all the same (`at_device.c:283-300`):
an empty response is the whole answer forgotten, its end too, which the property allows
only if the answer and the events are more lines than the buffer holds.  If the lost
line was the last one, the lines before it stay in the parser and begin
the next command's response: the code has no way to know, so that property, unlike
`AtOutcomeIsOwn`, does not hold without the condition.

### UniBus - the second bus
The reader is `ApBusReader` again, by `INSTANCE`, with the bytes that came through a
ring of `FifoRoom` bytes and with pauses of any length (its timer may expire at any
yield).  The ring's reads are one step here; RxRing has their race with the bytes that
arrive.  When the ring drops a byte of a header, two other bytes are taken for the
length, and what is then read may run past `ctx->msg`: such a behaviour ends at
"overrun", and `UniDeliversFramesSent` speaks of what comes before.  A stream of the
run with a drop in its header gets there.  What a poll does with a frame is the same
poll's: an answer goes into `msg_body`, a request for this device is answered, one for
a device of the table is passed on.  On BLE the link refuses writes that are too long,
and `trx_notify` cuts a message into blocks of `TrxMaxLen` while the peer may
subscribe or unsubscribe between two of them.

### SwI2c - the I2C master on its wires
Every change of a wire is a step, and a slave pulls the wires as the bus allows
it: it acknowledges or not and holds the clock as long as it likes.  A byte has
`ByteBits` bits.  Wait loops end in a rise of the clock or in the timeout; the
error of `i2c_waitack` becomes `true` as it does in C.  The public calls send one
message with a 7-bit address, so ten-bit addresses, the repeated start and the
message flags are unreachable.  The length of a message is 16 bits wide and the public
calls take a `uint32_t` count, which is cut to it; a call of 65536 bytes or more is
outside the model.

### Tm1668, Modbus
`Tm1668.tla`: the shadow `chip->reg` and the chip's memory as sets of icons and a
digit per address, with one transfer per value.  `Modbus.tla`: requests, the
slave's answers, a line that cuts, changes or extends them, and both integrity
checks.  A CRC is a record of the bytes it covers, so two sequences share one only where
the code's loop (`modbus.c:99-105`) makes every CRC-16 do so: behind the low byte of its
own CRC a sequence has the high byte and 0, and behind both it has 0, whatever zeros
follow (`_bMBCRC16`).  Hence a 0 behind a frame is a CRC one byte further on, and the
code takes an exception with code 1, or the confirmation of a write to 0x400 to 0x4FF,
for a read when a 0 follows it; `MbTakenForWhatItIs` leaves such frames out
(`ZeroBehind`).  `MaxWrite` bounds the registers of one write: with 96 or more
`bMB_WriteRegs` writes past `bMB_SendBuff`, which it does not check.

In Tm1668 the count of bars, a `uint8_t`, wraps at 256 (`PrintBattery`), so a level of
3840 has none.  `tm1668_init` clears only `reg[0]` of the shadow: icons that were lit
before it may be lit again by a later call for another icon at their address.
`IconsAsLastPrinted` speaks of icons printed since `tm1668_init`.

### MCDrivers - many units, one run
Rings, lists, wires and codecs that do not call one another are checked in one
run: `unit` is chosen at the start, only that unit's actions are enabled and the
others stay as initialised.  No interleaving between units is lost that matters,
because they share no variable.

## 3. Runs

| Run | Result | What it shows |
|---|---|---|
| `nboot` | pass, 4186 states | Two images of 2 and 3 blocks, slots of 3: shrinking and growing updates, every fault at every step.  Whole images only; interrupted copies repeated; `BootPromise` implemented; stuck only by a half-written record. |
| `nboot_torn_record` | **violated** | A cut between the state and the size word: the loader hangs at every start. |
| `app_scheduler` | pass, 11626 states | Ring of 3 slots, 2 interrupt levels, 4 events: the ring wraps, fills and is refilled while a handler runs. |
| `app_scheduler_no_mask` | **violated** | With the bare-metal port's empty critical section two puts reserve one slot. |
| `apbus_reader` | pass, 7796 states | Streams with noise (`BC`, `BC BC`, a whole header), a wrong checksum, a wrong length, one that runs past the buffer. |
| `apbus_reader_two_ports` | **violated** | The shared static state: one port's start wipes out the other's frame. |
| `apbus` | pass, 598974 states | Two threads, two registers, losses and late answers, W = 6, timeout 2. |
| `apbus_prompt` | pass, 106720 states | One thread, three requests, prompt bus: every answer is the call's own. |
| `apbus_late_ack` | **violated** | A late `ACK_WR` confirms the next write. |
| `drivers` | pass, 903692 states | The eight units of MCDrivers: both rings (masked ones implement `LossyFifo`, unmasked ones keep order up to a race), the CAN queue and its handler lists, the event list under re-entry, I2C framing under stretching and retries, the display's icons, Modbus on a damaged line, unibus on both backends. |
| `at_client` | pass, 1044873 states | With a prompt modem every result is the command's own, and so is every response unless the UART lost a line (empty only if the last line did not fit); with any modem a call with retries sends at most `Retry + 1` times and returns. |
| `modbus_write_taken_for_read` | **violated** | The confirmation of a write to register 0x300 to 0x3FF passes as the answer to a read. |

The violated runs are the `findings` of `PROJECT.json`.  They need the bounds
they have: one torn record, one interrupt in the window, two ports, two writes.

Bounds.  NBoot: images of different sizes, the larger filling the slot, so that
an update leaves blocks of another image behind; nothing else in the loader
depends on the number of blocks, and the proofs cover all sizes.  AppScheduler:
one event more than the ring has slots makes the indices wrap; two levels give
an interrupt inside an interrupt inside the main loop's put.  ApBusReader: two or
three frames, so that the one behind a bad one is there to be lost.
`ResponseTimeout` is larger than the longest stretch of noise and frame.  ApBus:
two requests are enough for one to take what belongs to the other, W = 6 is the
smallest even clock with a timeout of 2 that wraps.

Drivers: rings of 3 (2 usable) and 2 slots with 6 bytes, so that they fill, wrap
and are overrun while the reader is at each of its steps.  CAN: two tables of one
controller that share an id, one of another, queues that are overrun.  EventList:
three nodes.  SwI2c: 2 bits a byte, up to 2 bytes, one retry.  Tm1668: speeds of
two and (out of range) three digits, percentages on both sides of the red mark and
of every kind of bar, one application icon that shares an address.  Modbus:
registers on both sides of the one ambiguous range; 1 and 2 registers.  UniBus:
four streams of two frames (answers, requests, frames for others, an undamaged one
behind a damaged one), a ring that holds one frame, BLE writes of 3 to 5 bytes
with a maximum of 4, two requests, two changes of subscription.  AtClient: one
line of response buffer, so that a second line overflows it; answers of one line,
of two, and with a line that is too long; two calls if the modem is prompt (the
second can meet what the first left behind) and one otherwise (a late answer to
an earlier try); W = 4 with a timeout of 1.

`CHECK_DEADLOCK FALSE` is set where the behaviour ends because the bound on
events, bytes, frames or calls is used up (`app_scheduler*`, `apbus_reader*`,
`drivers`, `at_client`).

Each property has a mutant: a definition changed as a bug in the code would
change it (the operators marked "Mutant" in the modules), with which TLC must
find the property violated.

## 4. Fairness

- NBoot: weak fairness of the loader's and the page's steps (the processor runs)
  and of `PowerCycle` (somebody switches a hung device off and on).  Liveness is
  stated under the assumption that faults stop.  The application may do nothing.
- AppScheduler: weak fairness of each context's steps and of
  `app_sched_execute`, which app_scheduler.h requires the main loop to call.
- ApBusReader: weak fairness of arrival (what was sent arrives) and strong
  fairness of each port's reader: it is disabled whenever another port runs, and
  the main loop polls every port again and again.
- ApBus: weak fairness of the clock and of the polls.  The device and the bus
  owe nothing.
- AtClient: weak fairness of the parser's poll and of the command's (the main loop
  goes round), strong fairness of rounds in which a tick passes: such rounds are
  disabled again and again, between polls, and the clock runs all the same.
  `AtCallEnds` excludes timers set in the tick in which the clock reads 0, which
  `swtimer_expired` takes for timers that do not run.

## 5. What is proved

`NBootProofs.tla`, checked by TLAPS, for every finite or infinite set of images,
every size of image and every slot that holds them (assumptions `SizesFit` and
`Distinct` of `NBoot.tla`):

- `TypeCorrect`: `Spec => []TypeOK`
- `RunsOnlyCompleteImages`: `Spec => []AppRunsCompleteImage`
- `RepeatsInterruptedCopy`: `Spec => []InterruptedCopyIsRepeated`
- `KeepsPromise`: `Spec => PromiseKept`, the refinement of `BootPromise`

The safety properties are not inductive: that the last `CopyBlock` leaves slot A
whole depends on what was copied so far, on slot B still being what the record
says, and on the record not having changed since.  `IInv` adds these parts:
`RecordIsRight` (a record that announces a firmware is right about it or half
written), `SlotAOrRecord` (slot A is whole or the record announces one),
`SlotAIsComplete` (wherever slot A is about to run or runs), `Installing` (the
copied prefix, under the unchanged record), `Downloading` (slot B changes only
while no record announces it), `SetIsJustified` (what the page is being written
for), `PageProgress` (how far the page is programmed), `JumpMeans` and
`InstalledMeans`.  There is one lemma per action (`CopyBlockKeepsIInv`, ...), and
the faults share `InterruptedBlockIsCovered`: a torn block of slot A is covered by
the record, and a torn block of slot B is one no record announces.  The
refinement has a lemma per group of actions: rewriting the page commits or
withdraws, the jump starts, a power loss stops, and everything else stutters.

`AppSchedulerProofs.tla`, for every ring size, every number of interrupt levels
and of events, under the assumption `CriticalMasks` (the run
`app_scheduler_no_mask` shows that it is needed):

- `TypeCorrect`: `Spec => []TypeOK`
- `RunningSlotIsSafe`: `Spec => []RunningSlotIsNotReused`
- `AllAreExecuted`: `Spec => []ExecutesAllScheduled`
- `FullMeansFull`: `Spec => RefusedOnlyWhenFull`: as many events wait as `QueueSize`
  or, in a longer queue, the 255 that its 8-bit indices can number
- `KeepsPromise`: `Spec => PromiseKept`, the refinement of `SchedPromise`

The argument counts slots round the ring (`Dist`, with four lemmas about it).
`Counted` says that as many slots lie between the indices as events wait;
`SlotsHoldQueue` that each queued slot holds its event, or that the one context
that reserved it is still writing it (`FillsOwnSlot`).  The main loop can take a
slot only when no other context is active, hence when nobody is writing any
(`TakeSlotKeepsIInv`).  The slot whose handler runs is `Capacity` steps from the
start index, and a queued slot is nearer (`RunningSlotIsFree`).  What a context has
found out in the critical region stays true in it (`Reserving`, from
`CriticalIsHighest`), which is where the mask is used.

`ApBusProofs.tla`, for any number of threads, registers and requests, any clock
width and timeout, prompt or not:

- `TypeCorrect`: `Spec => []TypeOK`
- `OneCallerPerAck`: `Spec => []AckUsedOnce`
- `ReadsItsRegister`: `Spec => []ReadAnswersItsIndex`
- `OwnAnswer`: `Spec => []AnswersItsRequest`, if the bus is prompt and the port has a
  single user (`Prompt`, `SingleUser`); the finding `apbus_late_ack` shows the first
  to be needed

Uniqueness follows from order: frames may be lost but do not overtake, so the
answers that were taken are older than the one in the slot, which is older than
those on their way, which are older than the requests not yet handled
(`OutcomeOrder`, `SlotOrder`, `HostOrder`, `DeviceOrder`).  `OwnContents` carries a
register's contents from the device to the caller.

`PromptInv` adds for `OwnAnswer` that whatever is on the bus belongs to the request that
is waited for, in the tick in which that was sent (`OwnFramesOnly`), and that a timer
set in this tick has not expired (`JustSet`), whatever the width of the clock.  So a
caller gives up only when nothing is on its way to it, and what it leaves in the slot
is its own.

`RingProofs.tla`, for every receive ring of two slots or more and any number of bytes,
of the ring alone (`RxRingSpec`):

- `KeepsNewest`: `RxRingSpec => []RxKeepsNewest`, with and without the mask: what the
  ring holds always, and the order of what is taken up to the first race
- `KeepsPromise`: `RxRingSpec => RxIsFifo`, the refinement of `LossyFifo` with the mask

A slot's age in bytes is its distance behind the put index (`Back`), so the number of
bytes that arrived fixes what every slot holds (`SlotsAreStamped`), wherever the get
index is, and what is between the indices is always the newest bytes.  Without a mask
the writer may move the get index between the reader's loads and its store; the store
then goes back to a slot that is as old as the loaded byte or was overwritten with a
newer one (`LeavesOlder`), so the reader may skip bytes and the ring may look fuller or
emptier than it is.  Up to a race the slot the reader is about to read holds nothing
newer than the oldest byte held, and something newer than all that was taken
(`SlotIsOldest`), so nothing is read twice; with the mask there is no race
(`MaskedReads`).  `HeldAfterPut` and `HeldAfterStore` say what each writer does to the
number of bytes held.

and for every size of ring buffer and number of bytes (`RingBufferSpec`):

- `TakesInOrder`: `RingBufferSpec => []RbTakesInOrder`, with and without the mask, up to
  the first race
- `RbKeepsPromise`: `RingBufferSpec => RbIsFifo`, the refinement of `LossyFifo` with
  the mask

This ring's `is_full` is cleared in a step of its own behind the store of `get_index`,
so an unmasked reader may clear the mark of a ring that a put has filled again, and
the count of its bytes falls from `BufSize` to 0.  A put refused or forced
meanwhile makes the stamps of the slots no function of the byte count, as they are in
RxRing.  What stays true is that, going round from the put index, bytes get newer
(`SlotsAreSorted`) and, up to a race, that the slot getchar is about to read holds a
byte newer than those taken and no newer than those held (`SlotIsNext`), and that the
slot it leaves has the byte it took or a newer one (`LeavesTaken`).

`ApBusReaderProofs.tla`, for one port (`OnePort`), every length of the buffer and every
timeout:

- `ReaderTypes`: `Spec => []TypeOK`, on any line, lengths past the buffer included
- `ReaderDelivers`: `Spec => []DeliversFramesSent`, on lines that are fair
  (`LinesAreFair`, below)
- `ReaderStaysInBuffer`: on such lines nothing is written behind the buffer

The reader has had the first `Had` bytes of the line, keeps the last `Kept` of them
and is done with the first `Done`.  What it delivered are the undamaged frames that
begin in those it is done with (`GoodFramesIn`), and the last of those is inside no
frame that is undamaged or in front of an undamaged one (`Outside`).  So, in front of
an undamaged frame, a header in the buffer is a frame's that is due (`HeaderOpens`)
and is kept to its end (`Unfinished`, `FrameTaken`), and a byte that is dropped is no
frame's first (`DropsNothing`).  A call never times out over a frame that is due,
because it has waited no longer than the bytes took that it had since the last frame
(`InTime`), and the line is not silent there (`NotSilent`).  `ReadEnded` is shared by
the four ways a read ends.  With more ports `serial_pt_data` is changed by another's
reader in the middle of a frame, which the finding of `apbus_reader_two_ports` is
about.

`AtClientProofs.tla`, for any clock width, timeouts, retries, sizes and table of events,
and any modem that ends an answer once (`AnswersEndOnce`, `EventsAreNoEnds`):

- `SendsAtMost`: `AtSpec => []AtSendsAtMost`
- `OutcomeIsOwn`: `AtSpec => []AtOutcomeIsOwn`
- `ResponseIsOneAnswer`: `AtSpec => []AtResponseIsOneAnswer`, if every answer is ended
  (`AnswersEnd`)

`SendsAtMost` counts sends against `trycnt` in each state of the two nested
protothreads (`TriesCounted`), also in a call that finds `at_common` where the last
one left it.  `OutcomeIsOwn` needs that of a prompt modem at most one end of an answer
is at hand, in the UART or in the parser, and that a call waits for it whose timer was
set in this tick (`EndsAreExpected`); once it is parsed, the command polls before the
parser does again, so no event can overwrite the status in between (`NoticeIsFresh`).
`ResponseIsOneAnswer` looks at all lines at hand, the response that grows, the line in
the parser and the UART's, as one sequence (`Stream`): no step but a send adds an
answer's lines to it, and events and full buffers take lines from its beginning only
(`ParserKeepsStream`), so the answer's lines in it are always an end of one answer
(`OneAnswer`).  A response that is given and empty was cleared by its last line, and
then that answer with the events counted so far was longer than the buffer.  An answer
that is not ended, or a line the UART drops, breaks that, as it does in the code.
`AnswerLines` is a recursive function; what it computes is shown by induction over the
natural numbers for a set (`Induct`), which needs no operator for a parameter.

`SwI2cProofs.tla`, for every number of bits, bytes and retries, and any slave that
keeps to the bus (`I2cSpec`):

- `BusIsFree`: `I2cSpec => []BusFreeAfterCall`
- `SuccessIsAcked`: `I2cSpec => []OkMeansAcked`
- `DataIsStable`: `I2cSpec => SdaMovesOnlyToStartOrStop`
- `BytesArrive`: `I2cSpec => []BytesAreFramed`

The invariant says of every point of a transfer which wires are held and which are high,
until a wait times out (`LetsGo`, `ClockHeldLow`, `ClockIsUp`, `SlaveIsQuiet`,
`BitIsOut`).  `SdaMoves` follows: under a high clock the master moves the data wire in two
places.  `BitsAreFramed` says how many bits of the byte the slave has behind whole
bytes of `ByteBits + 1`; `Heard` what it hears in a step, and a stretched clock may
rise in a step of the slave's (`SlaveKeepsFrame`).

`DriversProofs.tla`, a section for each of the other units, each about that unit's
specification:

- `IconsStayAsPrinted`: `TmSpec => []IconsAsLastPrinted`, for all speeds, percentages,
  brightnesses and application icons, and percentages below 3840 (`LevelsFit`).  Icons
  of one address are printed in any order; `PrintIconsHolds` and `PrintNumHolds` are
  all that the calls are built of.
- `UnibusDeliversInOrder`, `UnibusAnswersOnce`: `UniSpec => []UniDeliversFramesSent`,
  `UniSpec => []UniAnswerOnce`, for all streams whose undamaged frames differ, ring
  and buffer sizes and timeouts, the first up to an overrun of `ctx->msg`.  The frames
  had, the one whose first byte is in the buffer and those not yet read are in the
  order of the stream (`ReadsInOrder`), whatever the ring drops (`Thinned`);
  `ReaderDoes` says of all steps of the reader what that needs of them.  The answer in
  `msg_body` is one that was had and given to nobody (`AnswerWaits`).
- `UnibusNotifiesWhole`: `UniSpec => []NotifiedWhole`, for every block length: what went
  out and what waits are the two parts of the message, cut after a block (`NotesAreCut`).
- `ListStaysWellFormed`, `ExecutesInOrder`: `EventListSpec => []DlistWellFormed`,
  `EventListSpec => []ExecutesWhatWasQueued`, for every finite set of nodes.  The
  pointers link some sequence of nodes into a ring (`Linked`); the walk is at a place of it
  such that what lies ahead are the nodes still due and then those that handlers
  put (`Executes`).
- `ListsFollowRegistration`, `MessagesReachHandlers`: `CanSpec =>
  []ListIsWhatWasRegistered`, `CanSpec => []MessagesInOrder`, for any controllers,
  separate tables and length of queue.  Registering one list leaves the others alone
  because no entry is in two (`ListsAre`); the queue holds the last messages without a
  gap (`NewestQueued`).
- `AnswersTakenForWhatTheyAre`: `MbSpec => []MbTakenForWhatItIs`, for all registers
  of 16 bits and all counts whose two bytes per register one length byte can say:
  the frame is the answer, the answer and a byte, or damaged so that no further
  fault repairs it (`Damaged`).  Frames that a 0 behind them turns into a read's are
  left out (`ZeroBehind`), as the property says.

### Assumptions

Named in the modules: widths, sizes and bounds are natural numbers, most of them
positive (`SizesFit`, `ParametersAreNumbers`, `TimeoutFits`, `FifoLenIsPositive`,
`BufSizeIsPositive`, `AtNumbers`, `I2cNumbers`, `UniNumbers`, `MbRange`, `TmInputs`);
sentinels are no values (`Distinct`, `NoneIsNoId`, `NoDataIsNotData`, `ElNodes`);
streams and tables are sequences of what they should hold (`UniStreamsAreBytes`,
`UniTable`, `CanTablesAreLists`).  Beyond that:

- `TablesAreSeparate`: an entry of a CAN table is in one place of one table, for it has one
  `next` pointer.
- `UniFramesDiffer`: a frame that is sent again counts as another frame.
- `AnswersEndOnce`, `EventsAreNoEnds`: the last line of an answer, and no line of an event,
  is one that the parser takes for the end.  An event that looks like an OK is an end to it.

TLC evaluates all of these in the runs.  Hypotheses of single theorems are
`CriticalMasks`, `Prompt` with `SingleUser`, `AnswersEnd`, `LevelsFit`, and `OnePort`
with `LinesAreFair`; the runs `app_scheduler`, `apbus_prompt`, `at_client`, `drivers` and
`apbus_reader` have constants that satisfy them, but for one stream of the last.

`LinesAreFair` says what the code takes of a serial line, and what the streams of the
run satisfy except `MCLongStream`, which is there to run past the buffer
(`StreamsAreFair`, which TLC evaluates).  A length found behind BC CB fits the buffer, or
the line ends before it is filled: the code does not check it, so this is an assumption
about the line and not a result (see ApBusReader above).  In front of an undamaged
frame, BC CB begins a frame whose length field is not damaged, or is inside such a
frame: noise that spells a header, or a damaged length, makes the reader swallow the
beginning of the next frame.  In front of an undamaged frame, the line falls silent
behind whole frames only.  And a frame with the noise before it takes no longer than
`response_timeout`, at a byte a tick: the timeout counts from the start of the
call, noise included.

### Only model-checked

- All liveness (beyond this prover's reach).

## 6. What could be added

- `sdk_uart.c`'s reads that wait for a byte pattern or a timeout; events and
  mutexes of `sdk_os_port_none.c`, once something in the repository uses them.
- Compositions of apbus and of the AT client with RxRing, as UniBus has it.
- The pure functions (`vsnprintf`, `memmem`, HMAC-SHA1) against reference
  definitions.

## 7. Not modelled

- The ports to RT-Thread and Zephyr: wrappers of an RTOS that is not here.
- Events and mutexes of the bare-metal port: nothing in the repository uses them.
- Drivers that only forward to a board's function table (adc, gpio, rtc, watchdog,
  and open, close, write and control of UART and CAN).
- Advertising and connecting over Bluetooth, which belong to Zephyr's stack.
- `apbus_find_dest_dev` and frames for other hosts on apbus (UniBus has both).
- libc replacements, log, error names, the cloud client's HMAC: pure functions of
  strings, which unit tests reach.
- The MCUboot flash map port and vendored code.

See the notes in `PROJECT.json`.
