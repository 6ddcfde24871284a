# Esprit: formal models, checks and proofs

Esprit is a C++ (and Rust) support library for GD32, CH32 and RP2040/RP2350
microcontrollers on FreeRTOS: drivers, a flash key/value store, sockets and the
small synchronisation classes everything rests on. This directory models the
parts of it whose correctness depends on the order things happen in (tasks,
interrupt handlers, DMA, network, power losses), model-checks them with TLC on small
instances, and proves the main safety properties with TLAPS for all of them.

Paths below are relative to the repository. `PROJECT.json` lists runs, mutants,
hazards, findings, theorems, and the source lines every definition stands for.

## 1. Inventory

| Component | State | Operations | Interacts with | Hard part | Correct when |
|---|---|---|---|---|---|
| NeVerMind store `libraries/NeVerMind` | flash sectors; `_currentSector`, `_writeIndex` | begin, format, read, write, garbageCollection | flash driver | power loss and programming errors between any two flash steps; two active sectors; a full store | an acknowledged value is what read returns, before and after a reset |
| Flash driver `mcus/arm_gd32fx/src/lnFMC_impl.cpp` | controller registers | erase, write | store | halfword steps | (external effect only) |
| lnFastEventGroup `src/lnFreeRTOS_pp.cpp` | `_value`, `_mask`, `_waitingTask`, task notification | takeOwnership, setEvents, waitEvents, readEvents | any driver callback | notification given outside the lock, one notification slot for all groups | no wake-up lost, no flag lost or invented |
| Semaphore, mutex, task, timer, lnEventGroup (same file) | FreeRTOS handle | thin wrappers | all | lnEventGroup::readEvents in two calls | same as FreeRTOS |
| lnRingBuffer `include/lnRingBuffer.h` | `_head`, `_tail`, buffer | put, get, pointers, consume, flush | serial drivers | wrap-around in two runs, one unused place | a bounded byte queue |
| Buffered DMA transmitter `lnSerialTxOnlyDmaBuffer.cpp` | ring, `_txing`, `_inFlight`, semaphore | transmit, transmitNoBlock, DMA callback | ring, DMA | DMA reads the ring while tasks fill it; wake-ups | bytes sent once, in order; calls return |
| DMA channels `lnDma.cpp` | mutex and slot per channel, registers | beginTransfer, attachCallback, do*, cancel, end, interrupt | serial, SPI, I2C, ADC | cancel against a pending interrupt | one owner per channel, no callback after cancel |
| Serial reception `lnSerialRxTxDma.cpp` | `_rxHead`, `_rxTail`, circular DMA | enableRx, getReadPointer, consume, read, purgeRx, timer, half/full interrupts | DMA, timer task | three sources advance head, both indexes are brought down while the DMA writes | every byte read once, in order, none left behind |
| Interrupt serial `lnSerialRxTx.cpp`, `lnSerialTxOnly.cpp` | state, indices | transmit, read, interrupt | UART | off-by-one at the ring's ends | every byte once |
| RP serial `rp_common/src/rp_serial.cpp` | as above, two receive buffers | as above | Pico SDK | buffer swap by interrupt and timer | as above |
| I2C master `lnI2C_impl.cpp` | `_state`, `_session`, `_result`, semaphore, mutex of the DMA channel | multiWrite, multiRead; event, error and DMA interrupts | DMA mutexes | a task, three interrupts and a timeout on one session | the result is the truth, a call returns |
| SPI master `lnSPI_bp*.cpp` | session, semaphore | write, transfer, interrupt | DMA mutexes | as I2C | as I2C |
| Socket runner `src/lnSocketRunner.cpp` | event group, `_connected`, write buffer | socketEvent, process_events, readData, writeData, flushWrite, waitForWrite | a socket, FastEventGroup | events are handled in a fixed order, not the order they came in | no event lost, every client served |
| lwIP sockets `esprit_lwip.cpp` | pcb, fifo, `_state` | create, accept, read, freeReadData, write, disconnectClient; lwIP's callbacks | lwIP task, runner | callbacks between any two locked sections | bytes go back to their client, no call on a freed block |
| W5500 sockets `w5500/socket_w5500.cpp`, `lowlevel_w5500.cpp` | chip registers, `_state`, `sock_is_sending` | listen, read, write, disconnectClient; coordinator: dispatch, poll | chip over SPI, runner | two tasks and the chip between any two SPI transfers | as above; the socket comes back to listening |
| DHCP client `w5500/dhcp_w5500.cpp` | `g_dhcp` | DHCP_init, DHCP_run, DHCP_time_handler | coordinator, chip's UDP socket | late, repeated and lost replies; retries | the address in use was granted; an address comes |
| CH32V3 Ethernet | descriptor rings | send, receive | MAC | rings shared with hardware | in order, no leak |
| ADC, timers, pulses, WS2812B | registers, half-buffer callbacks | start, stop, interrupt | DMA | refill before underrun | every half filled in time |
| USB device driver `lnUSBD.cpp` | endpoint states | TinyUSB dcd calls, interrupt | TinyUSB (vendored) | endpoint protocol | one completion per transfer |
| Rotary encoder, I2C/SPI peripherals, GPIO, clocks | few fields | one handler or one transfer | | debounce | |
| Rust: rs_rtos, driver ports, bindings | handles | wrappers | C++ part | | |

Vendored (TinyUSB, SEGGER RTT, corrosion, SDK copies, FreeRTOS ports) and
generated code is left aside.

## 2. Modules

```
NvmStore  <== refined by ==  Nvm
                              |  EXTENDED BY
                             NvmInv (its invariant)   MCNvm
                             NvmHistory (a memory)    MCNvmHistory, Nvm_proofs (both)
FastEventGroup                                        MCFastEventGroup, FastEventGroup_proofs
ByteQueue <== refined by ==  RingBufferUse            MCRingBuffer
                                |  EXTENDS
                             RingBuffer (operators)   SerialTx_proofs (all three)
                                |  EXTENDED BY
SerialStream <== refined by == SerialTx               MCSerialTx
SerialRx                                              MCSerialRx, SerialRx_proofs
I2CMaster                                             MCI2C, I2CMaster_proofs
                SocketRunner (the application's half)
                  |  EXTENDED BY          |
            W5500Socket              LwipSocket       (the socket's half)
                  |                       |
            W5500Server              LwipServer       MCW5500, MCLwip, W5500Server_proofs,
                                                      LwipServer_proofs  (the composition)
Dhcp                                                  MCDhcp, Dhcp_proofs
```

`MC*` modules give constants their values; `*_proofs` hold theorems. Each
definition preceded by "Mutation:" is a plausible slip in the definition after
it; it takes part in no specification, and shows that a property would notice.

### Nvm: the flash store

State: `flash` (each sector's two header halfwords and its entries), the RAM
fields `currentSector` and `writeIndex`, and the call in progress (`pc`, `req`,
`scan`). Every call is cut into the steps after which flash differs, so that
`Crash` can come between any two, and inside a header or an erase
(`CutHeader`, `CutErase`). The source's calls are the action groups `Begin*`,
`Format*`, `Write*`, `Gc*`; `sanityCheck`, `findEntry` and `read` are the
operators `WalkStop`/`Sane`/`WriteIndexAfter`, `FindEntry` and `Read`. Actions
ending in `Fails` are programming errors, at the places `FailPoints` names.

Abstracted: all entries have one size, so offsets become slots, and the
threshold of a collection (9/10 of the sector) and the end of the scan (sector
size less 10) become the slots `GcAt` and `ScanEnd`. A payload is the number of
its write. The refused calls of `write()` change nothing and are no step.
`getWriteAddress` is never called; `dumpEntries` prints.
Ghosts: `acked` (last value acknowledged per id), `dirty` (a write of the id was
cut before it invalidated the old entry), `formatting` (a `format()` was begun
and none was completed since). `NvmHistory` adds the one
error that loses values, in one of the collector's copies (`GcCopyFails`), and a
ghost to say what it may do, `newest`: for each id the newest value a reset would have found so far. It is
what "nothing older comes back" has to be compared with, since the value before
may be lost for a while in between.

`NvmStore` is what an application may rely on: each id has a set of surviving
copies, a write adds one that is newer than all of them and then takes the oldest
away, and read returns the oldest (`value`). Collections, mounts and power losses
are stutters of it. This is weaker than "a dictionary" in just the way the code
is (section 5), and still strong enough to prove that no read goes back in time.
The mapping takes the copies from the sector a reset would mount.

### FastEventGroup

One action per critical section. `SetEvents` and `NotifyGive` are the two halves
of `setEvents()`; `waitEvents()` is `WaitFast`, or `WaitArm` then `WaitNotified`
/ `WaitTimeout` then `WaitRecheck`. One owner task owns several groups, which
share its notification slot `EVENT_INDEX`: `notified` is one variable.
`setter[s]` stands for a task or an interrupt handler. FreeRTOS is external: a
give makes the notified value non-zero, a take zeroes it, and
`xTaskNotifyStateClearIndexed` leaves it alone.

### RingBuffer, RingBufferUse, ByteQueue

`RingBuffer` gives each member function as an operator on a record
`[head, tail, buf]`, for any module that owns a ring. `RingBufferUse` calls them
in every order; `ByteQueue` is the bounded queue that must result.

### SerialTx, SerialStream

A turn of the loop in `transmit()` or `transmitNoBlock()` is one critical
section (`igniteTx` runs inside it) and one action: `PutSome`, `GiveUp`,
`AwaitRoom`; `TakeSem` is the semaphore wait. `DmaMove` is the hardware moving
one byte out of the ring's memory; `DmaIrq` is `dmaIrqHandler` with `txDmaCb2`,
which runs to its end between two actions of the tasks. Bytes are numbered as
they are accepted, so the wire shows order and loss. `FreshTxing` is what memory
from `operator new` may hold in `_txing`, which no code initialises.
`SerialStream` accepts bursts and sends bytes in order.

### SerialRx

`Receive` is the circular DMA cell storing a byte, at any time, and raising half
or full; `HalfInterrupt`/`FullInterrupt` are `rxDma()`, `Collect` the timer's
`checkForNewData()`, which reads the cell's counter. All three move `head`
(`Moved`, `Checked` = CHECK_OVERFLOW). An interrupt that is due (`dma.due`) may
be served at once or much later; one that is due when a critical section runs is
held off (`dma.held`): bytes go on coming, and it is served after the section
and before the tasks go on. The reader is the zero-copy loop: `Wake`,
`GetReadPointer`, `Use` (the bytes are looked at in place, later), `Consume`
(both indexes brought down). `read()` is the last three. Indexes keep a width
(`Word`). `Enable`, `Disable` and `PurgeRx` are called between two waits, by the
reader. The ghost `trouble` names what is more than the code can take: the timer
sees the cell step over the end ("lap"), a whole buffer is unread ("behind"),
`purgeRx()` was called ("purge"). The model goes on as the code does after any of
them, with wrong bytes; the properties speak of the time before, and of the time
after reception was switched off and on again.

### I2CMaster

A call of `multiWrite()` or `multiRead()` is the path of `task[t].at`: lock,
prepare, arm, wait, end, stop, leave, done - one step per place at which another
task or an interrupt can make a difference. `Tx*` and `Rx*` are the cases of the
event interrupt in each `_state`, `DmaDone` the DMA interrupt, `Error` the error
interrupt, `TimesOut` the semaphore's timeout of 100 ms, which may expire at any
time, with a transfer that goes on as well: the ghost `overran` remembers that.
`Leave` waits for STOP to clear and fails if it does not. The cell (data and shift
register, its flags), the DMA cell and the slave are external: `Addressed`,
`Shifts`, `Feeds`, `Arrives`, `GivesUp`. A slave answers, refuses its address or
falls silent, and may refuse any byte. `fault` is a failed assertion: an
interrupt without handler, session or slot, in a state that does not expect it,
or a byte received for a place beyond the end of its block.

### SocketRunner, W5500Socket, LwipSocket and the two servers

`SocketRunner` is the application task: `Wake` takes every event flag,
`Process` handles them in the fixed order of `process_events()`, and the calls
it makes are places of `app.at`; `ReadReturns`, `WriteReturns`, `WriteFails`,
`Released` say how the echo loop goes on. It is `demoProject/rp/w5500/app_echo_sr.cpp`.
FastEventGroup's promise (no flag lost) is used as an atomic set, `events`.

`W5500Socket` adds chip, coordinator task and client; `W5500Server` the calls of
`lnSocket_W5500`, each cut at its SPI transfers. `LwipSocket` adds lwIP's
callbacks, atomic under the core lock, and the client; `LwipServer` the calls of
`lnSocket_impl`, cut where the lock is released. Bytes are pairs (client,
number). The free space is measured in one locked section (`WriteSize`) and
the bytes are handed over in a later one (`WritePush`), which may find no memory
(`WriteNoMemory`) whoever the client is.

Two kinds of environment, chosen in the initial state. *Polite* clients wait
until the server has settled (`Settled`), speak once they are known, stay within
what the fifo holds and, with lwIP, leave by FIN after their echo; the others
come and go at any time. The chip may free transmit space after it reports
SENDOK (`env.lags`). Properties that hold of polite ones only say so, and
section 5 says what happens otherwise; the safety of a client's own bytes is
checked for all.

### Dhcp

`DHCP_run()` is one action per state and reply (`Begin`, `Retry`, `GiveUp`,
`Offer`, `Ack`, `Nak`, `Renew`, and the replies that leave the state as it is:
`Strange`, `NotAnOffer`, `LateOffer`). `caller` is who calls it: the coordinator
task, never again once it is ON, or a loop, as `dhcp_w5500.h` asks. The network is a set of messages, out
of which any may be taken, lost, or taken and left for a second time; the servers
offer, grant and refuse. The fields written by the parser before the type is
looked at are written in the model, too (`Offered`, `Answered`). The chip's
receive buffer is not kept apart: what it drops is a lost message.

## 3. Runs

Passing:

| Run | Instance | Distinct states | Shows |
|---|---|---|---|
| NvmCrash | 1 id, 3 sectors, `GcAt` 3, `ScanEnd` 4, 7 writes, 2 power losses | 81,461 | a reset always mounts the newest sector, nothing acknowledged is lost, reads are right but for a cut write, entries go to blank flash, a collection makes room, refinement of NvmStore |
| NvmFailure | 2 ids, 2 sectors, 5 writes, 1 power loss, 2 errors (format, sector header, entry, retire) | 424,633 | right reads and the refinement with programming errors |
| NvmGcFailure | 2 ids, 3 sectors, 2 errors in copies, 1 power loss | 302,231 | an error may lose a value, but none older than the newest ever found comes back, even after it was lost |
| FastEventGroup | 2 groups, 2 flags, 2 setters | 59,551 | no lost wake-up, no lost flag; a flag ends the wait, without the timeout |
| RingBuffer | size 4, 2 byte values, puts of up to 4 | 15,698 | a bounded queue, and usable runs |
| SerialTx | ring of 4, 2 tasks, blocking or not, 9 bytes | 20,893 | no stall, reserved runs, wake-ups, an in-order stream; calls return, bytes are sent |
| SerialRx | buffer of 4, 11 bytes, 6 once there is trouble, 1 switch-off | 85,293 | every byte read once and in order, none left behind when the line falls silent, until there is trouble |
| I2CMaster | 1 task, 3 calls, 8 writes of up to 3 blocks (a short block after one by DMA, too), 7 reads of up to 5 bytes, DMA from 3 bytes on | 657,201 | until a timeout expires while the slave answers, the result tells what happened and no assertion fails; every call returns |
| W5500Server | 2 clients of 2 bytes, transmit buffer of 1, both environments | 639,445 | a client's own bytes in order, the socket listens again, the echo comes |
| LwipServer | 2 clients of 3 bytes, fifo of 4, send buffer of 1, 1 link loss, both environments | 55,079 | the same, and no failed assertion nor call on a freed block |
| Dhcp | 2 servers, 2 tries, 3 troubles (loss, repeat, delay, refusal), both callers | 439,062 | an address in use was granted and asked for; an address comes |

One run must be violated: **I2CReentrancy**, two tasks that write a byte each.
`lnI2C_impl.cpp:312` says "lock down i2c also, deals with re-entrency", but the
mutex is given back (323) before the handler is detached (324); the second task
meets the first one's handler and the assertion at 132 fails. `findings` quotes
it. So the passing run has one task. Other disagreements that can be seen with
TLC are told in section 5, with the configuration that shows them.

**Bounds.** Nvm: `MaxWrites` 7 with `GcAt` 3 gives at least three collections,
so the current sector goes all the way round three sectors, with stale sectors
before and after it; two power losses let the second meet what the first left.
Three sectors are the least with which a stale sector need not be the current
one's neighbour. One id is enough where no run distinguishes ids; two show a
live entry next to dead ones. Rings: four places have every relative position of
head and tail, both wrap cases and the full and empty ones; calls of the
transmitter may be longer than its free room, so they take several turns. Two
setters, or two tasks, give each other every interference with a third party.
SerialRx: eleven bytes take the buffer round almost three times, so both indexes are
brought down, and more than once; with trouble six are enough to see what
follows it, and to switch reception off and on. I2C: `DmaFrom` is 3 instead of 8, so that
blocks on both sides of it, single and joined, are short; three calls let a call
meet what two others left. Servers: a transmit buffer of one byte makes two
bytes take the full-buffer path; the second client meets what the first left; a
fifo of four places (three segments) wraps and is filled. Dhcp: two servers give a REQUEST
that a second offer competes with, two tries reach giving up, three troubles let
a lost reply, a late one and a repeated one meet.

**Deadlock** is checked in the runs of Nvm, FastEventGroup and RingBuffer. The
others have a bounded supply (bytes, calls, clients, troubles), and having used
it up is a proper end; their liveness properties rule out stopping earlier.

**Fairness.** All of it is weak. FastEventGroup: a setter that decided to notify
does, and a ready owner runs, as FreeRTOS runs every ready task and a handler
runs to its end; nothing is assumed of timeouts nor of setters calling at all.
SerialTx: the UART drains, interrupts are served and tasks get their turns; a
task waiting for the semaphore can be overtaken only by calls, which are finite
in number. SerialRx: interrupts are served, the timer ticks while it runs, the
reader runs. I2CMaster: tasks and interrupts run, cell and DMA move on, the
timeout expires; nothing of the slave. Servers: both tasks run, chip or lwIP
delivers, a link that is down comes back; nothing of clients. Dhcp: task and
clock go on, a server answers what reaches it; losses are bounded, not unfair.

## 4. Proofs

All are checked by TLAPS for every value of the constants the assumptions allow.

* **Nvm_proofs**: `NothingAckedIsLost`, `ReadsReturnLastAcked`,
  `ResetFindsCurrent`, `OnlyBlankProgrammed`, `CollectionMakesRoom`,
  `TypeCorrect` and `RoomAlwaysLeft`; the refinement `StoreImplemented`, with
  `StoreInvariance` and `StoreNeverOlder` of the abstract store, and
  `NothingOlderReturns`, which follows. Described below.
* **FastEventGroup_proofs**: `TypeCorrect`, `WakeupSafety`, `FlagSafety`.
  `NoLostWakeup` alone is not inductive: a setter decides by the published
  `mask`, so the invariant needs `Published`, that a sleeping owner's mask is the
  one of its group and that it owns the group. Then a flag that becomes set
  while the owner waits always makes the setter due.
* **SerialTx_proofs**, first part: the ring. `PutAppends`: in any ring of any
  size, `put(n, data)` takes `min(n, free)` bytes, leaves the old contents alone
  and appends exactly these bytes. `GetTakes`: `get(n)` returns the oldest
  `min(n, count)` bytes and leaves the rest. The lemmas (`Wrap`, `CountValue`,
  `WriteRunValue`, `ReadRunGrows`, `StoreValue`) reduce `% Size` to a comparison on
  values below `2 * Size`. From them `RingTypeCorrect`, `RunsAlwaysFit` and
  `IsAQueue` (`RingSpec => QueueSpec`): the type invariant is inductive once it
  says that every place of the buffer holds a byte; then each call maps to the
  step of `ByteQueue` by the lemma on its operator, and `ContentsValue` gives the
  mapping itself, the sequence read from tail to head. No assumption but
  `Size >= 1`.
* **SerialTx_proofs**, second part: the transmitter. `NeverStalls`,
  `RunsStayReserved`, `WakeupsCome`, `TypeCorrect` and `IsAStream`
  (`Spec => StreamSpec`), all assuming `FreshTxing = {FALSE}` (section 5 shows
  that they fail otherwise). The inductive invariant `IInv` joins them with
  `BytesLeft` (a call in progress has bytes to put): a task about to loop will put
  at least a byte and thereby start the DMA, whose interrupt is the wake-up of the
  others. For `IsAStream` the queue of the mapping is what is in the ring beyond
  what the DMA has sent of the run in flight; `RunsStayReserved` makes the byte
  the DMA moves its head, and `PutAppends` and `ConsumeValue` give the other steps.
* **SerialRx_proofs**: `EveryByteInOrder` (`Spec => []ReadInOrder`) and
  `IndexesNeverWrap`, with bytes at any time and interrupts served at any later
  one, until there is trouble (the timer sees the cell step over the end, a whole
  buffer is unread, or `purgeRx()` is called) and again after `Enable`; the buffer
  may have any size that is a power of two. `ReadInOrder` says nothing of where the
  bytes are. In `IInv`, `Places` says that tail stands, modulo the buffer's size,
  for the bytes consumed, and head for some of those that arrived since; `Stored`
  that the last `Size` bytes are in their places; `Told` that head and cell are in
  the same lap unless the full interrupt is due. Hence the full interrupt takes
  the head to the end of its own lap and the timer takes it to where the cell is
  (`MovedValue`). The half interrupt may come late and take the head *back*:
  `ToldHalf` says that it does not go behind what the reader was given, because
  the timer that had gone further held it off, and the reader waits until it was
  served. The arithmetic is that of `%` on sums (`SumRemainder`).
* **Dhcp_proofs**: `LeasesHeld` and `AcksAreGranted`, for any servers, retry
  limit, lease and number of troubles. `LeaseHeld` is not inductive: it says
  nothing of the messages. `AcksGranted` says that an ACK on its way was
  granted; `OwnRequest` that, until a restart, no message is of a later
  transaction than the client's, and a REQUEST or ACK of the present one is for
  the address it requested, and there is none while it is discovering. A new
  transaction id (`NewTransaction`) makes every message old; offers and parsed
  replies overwrite `requested` only while there is no own REQUEST
  (`SameTransaction`, `RequestInv`); servers and network keep ids
  (`NetInv`).

* **I2CMaster_proofs**: `NoneFails`: no assertion fails while calls do not
  overlap (`[]OneCall`) and until the timeout of one expires while its slave still
  answers (`overran`), for any number of tasks, blocks of any number and length
  to write, any blocks to read as long as none is empty (`Readable`), any
  threshold of the DMA, and a slave that stops answering at any moment.
  `OneTaskNeverFails`: with one task, the overrun is the only condition.
  `AssertionsHold`, in section 5, shows that it is needed; `OneCall` is
  what I2CReentrancy shows to be needed. `~fault` says nothing of what may come
  next, hence `Expected`: with the interrupts on, what the bus can still report
  (the flag that is set, the bytes on the wire, the bytes the slave will send)
  fits the state the driver is in; `Owned`: handler, semaphore, slot and a running
  DMA belong to a task at a place in its call that will clear them, so nothing of
  one call is left when the next begins; `Calling`: what each place of a call
  has set up; `Placed`: the next byte read has a place, which is where an
  empty block would break it.
* **LwipServer_proofs**: `EchoKeepsOrder` and `NothingFails`, for any number of
  clients and bytes, fifo, send buffer and runner's buffer.
  **W5500Server_proofs**: `EchoKeepsOrder`, likewise. Described below.

### The argument for the echo servers

`EchoInOrder` looks at what the client has got; what it will get is elsewhere.
The bytes of a client stand in a line: got, on the way out, in the runner's hand,
in the fifo or in the chip's receive buffer. Every step moves a byte to the next
place, so the line does not change, but for what the client adds at its end and
what is dropped.

Over lwIP (`Ordered`) segments may be dropped anywhere, when the fifo is full or
memory runs out, so the line is only strictly increasing, each part before the
next. The part in hand is also the oldest of the fifo (`InHand`), which keeps the
fifo from being deleted, and a next client from being accepted, until the buffer
was released: that is why no byte changes clients. With polite clients nothing is dropped
(`Gapless`); `Together` says that socket, connection and client come and go
together, and `Told` where the runner must be given what it was told; these rule
out each of the assertions and each use of a freed block. Running out of memory
is no matter of the client's manners: then the socket is in error while the client
waits (`Starved`), one byte is missing behind what was sent to it, and nothing
more is written; `Gapless` says so, and the assertions hold all the same.

Over the W5500 (`InLine`) nothing is dropped inside the line, but the bytes of a
client that left may still be in hand when the next one connects, and be
written to it. So a line is bytes of earlier clients followed by the client's own
from the first on (`Follows`), and `EchoInOrder` says so for everybody, and that
a polite client sees none of the former. `Believes` ties what the driver
takes the socket to be to what the chip says, over every lag of the coordinator.

### The argument for the flash store

`NvmInv` states the inductive invariant `IInv`, in terms of the sector a reset
would mount (`IsBoot`: the lowest-numbered sector that `begin()` accepts).
`NeverLost` and the others speak of that sector's entries only, which says
nothing of how a write in progress came to be where it is. Hence:

* `Sound` and `LogSector`: an active sector is a sequence of entries followed by
  blank slots, at most one slot torn, or is the zeroed one an erase left; so what
  `begin()` accepts after any cut is known. `Position`: `_writeIndex` is where
  that sequence ends, which makes the slot written blank.
* `Newest`: the current sector is the one a reset mounts, except between the
  activation of the new sector and the erasure of the old one, when the two
  differ and either may be mounted.
* `Preparing`: what `format()` and the collector have done so far. `IsCopy` says
  the new sector's entries are the old one's live entries, in their order, by an
  increasing function from new slots to old. From it follows that a read has the
  same answer in both (`CopyReads`), which makes the moment with two active
  sectors harmless.
* `Replacing`: the entry that a write is to invalidate is the one `findEntry`
  found, still live, before the new one.
* `Kept` (`Holds`): a sector that may be mounted has an entry for each
  acknowledged id, and for an id none of whose writes was cut (`Settled`) just
  one, the acknowledged value. "Just one" is what makes invalidating the old
  entry expose the new one.

One lemma per action shows that `IInv` is kept, `Invariant` puts them together.
TLC checked `IInv` on the instances of section 3 first; MCNvm extends NvmInv, so
`INVARIANT IInv` can be added to NvmCrash.cfg.

The hypotheses, each one met by what section 5 tells of the code:

* No error in the collector's copies, which does lose values (it is a step of
  NvmHistory only, and `FailPoints` has no `"gc"`), nor of `format()`: a failed
  one leaves the `_writeIndex` of the store it destroyed. Errors of `write()`,
  when it invalidates an entry and in the collector's sector headers are
  included, as are power losses at every step.
* `RoomLeft`, no write goes past what `findEntry` scans: each theorem has it as a
  temporal hypothesis, `Spec /\ []RoomLeft => []X`, and says besides that it can
  be dropped under `Capacity`: there are more slots than ids, power losses and
  failed writes together. `RoomAlwaysLeft` proves that. Without it the store
  fills: a write cut, or failed, before it invalidates the old entry leaves a
  live entry that no later write finds and every collection copies. `Counted`
  bounds the live entries of a sector by the ids it holds plus the cuts and
  failures so far, plus one while a write replaces an entry; a collection
  therefore leaves `_writeIndex` at most at the last slot scanned. A real sector
  has over a hundred slots for a few ids. (The configuration of NvmCrash meets
  `Capacity`.)

### The refinement of the flash store

`StoreImplemented`: `Nvm` implements `NvmStore`, under the same hypotheses. The
mapping shows the live entries of the sector a reset would mount (`Shown`); the
value the abstract store reads is the oldest of them, the value the code
reads the first one `findEntry` meets. That they agree is the invariant `Aged`: in
every sector that may be mounted the live entries lie in the order of their
writing (`InOrder`), and none is newer than the last write that has validated
its entry (`Latest`). An order survives what the collector does because `IsCopy`'s
function is increasing, and survives a write because the new entry goes behind
the others.

Then every step is one of two kinds. Most are *quiet*: they touch a sector a
reset would not mount (`HiddenStep`), or a slot or header that no read looks at
(`UnreadStep`), and are stutters. The activation of a new sector is one as well:
the mounted sector changes, what it shows does not. The others are the steps of
`NvmStore`: the validation of an entry is `Commit`, the invalidation of the old
one `Retire`, whose guard (a newer copy exists) is `Replacing`; the start and the
end of `format()` are `FormatBegins` and `FormatEnds`.

`NvmStore` never goes back (`StoreNeverOlder`), since `Retire` takes the oldest
of several copies and `Commit` adds one that is newer than all.

`NothingOlderReturns` says of `HSpec`, which remembers the newest value found,
that no older one is found again, and nothing from before a `format()`: each of
its steps raises the memory to the number of the next write. The invariant is
`Floor`: the memory is never above the next write. What is found is no newer than
the last write that is in flash (`FoundSoFar`, `UpToWrites`), and a step leaves it
as it is, moves it on to a newer copy, or adds the present write where nothing
was (`FoundMoves`), which `Floor` puts above all that is remembered.

### What the proofs changed

Attempts that failed showed where a model said something the code does not do,
or could not be reasoned about: LwipServer faults when a segment comes or is read
while the socket works without a fifo, which is what the assertions of
`esprit_lwip.cpp` say (before, the step was just not possible); a byte received
beyond the end of its block, or in a state that does not expect one, is a fault
of I2CMaster, and `dmaIrqHandler` acknowledges the interrupt before the callback
starts a short block; `EchoInOrder` of the W5500 was weaker for clients that are
not polite; `NvmStore` had a queue, of which nothing could be proved, for each id.

### What is only model-checked

* Liveness is out of the prover's reach: `WakesUp`, `TransmitReturns`,
  `EverythingSent`, `AllRead`, `CallReturns`, `ServesAgain`, `EchoComes`,
  `GetsAddress`.
* `ResultTells` of I2CMaster compares what the slave got with the concatenation of
  all blocks (`Total`, a fold): that needs induction over the list of blocks.
* `NothingOlderBack` with errors in the collector's copies, and `StoreSpec` and
  `ReadsLastAcked` with errors of `format()`: outside the theorems' hypotheses, since
  `IInv` does not hold there; the runs NvmGcFailure and NvmFailure check them.

## 5. Known limits of the code

Where the code is not as good as one would wish, the model does what the code
does, and a passing property carries a condition that names the exception. Those
marked with a recipe can be seen as a counterexample by changing a configuration
as it says (leaving out its other properties).

**Nvm**
* A write cut before it invalidates the old entry leaves two live ones; the next
  write invalidates only the first (`nvmCore.cpp:335`), and read returns the
  middle value. `ReadsLastAcked` leaves such ids out. Recipe: `INVARIANT
  ReadsWhatWriteAcked` in NvmCrash.cfg.
* A torn entry header: begin() accepts the store, write() refuses for good (109).
  Recipe: `INVARIANT BegunAcceptsWrites` in NvmCrash.cfg.
* An error in a copy ends the copying (459), the old sector is erased all the
  same: values are lost. Recipe: `INVARIANT NeverLost` in NvmGcFailure.cfg.
* After a collection `write()` does not test again that the entry fits
  (294-311). With `GcAt - 1` or more live ids it writes beyond the part
  `findEntry` walks, returns true, and the entry cannot be read.
  `RoomAfterCollection` and the number of ids keep to fewer.
* `sanityCheck` keeps the old `_writeIndex` when its walk does not end on a blank
  entry (119-124), and a failed `format()` does not reset it; the next mount can
  aim `write()` at used flash. The controller refuses, and the store refuses
  writes from then on. `ProgramsBlank` is checked without errors of `format()`, and
  what `ReadsLastAcked` and the refinement say ends, by the ghost `formatting`,
  when a `format()` is begun, until one completes: a failed one promises nothing,
  so no property says what this old `_writeIndex` then does.

**FastEventGroup**: a late notification makes the next waitEvents return 0
without a timeout (`lnFreeRTOS_pp.cpp:367`). Recipe: `INVARIANT
EmptyOnlyOnTimeout` in FastEventGroup.cfg.

**SerialTx**
* With a callback set nobody gives the semaphore: transmit() on a full ring does not
  return (`lnSerialTxOnlyDmaBuffer.cpp:85`). Recipe: `WithCallback = TRUE`,
  `PROPERTY TransmitReturns`.
* `_txing` is not initialised (49): if it starts non-zero the DMA is never
  started. Recipe: `FreshTxing <- Reused`, `PROPERTY EverythingSent`.

**SerialRx** (`lnSerialRxTxDma.cpp`)
* When the cell wraps inside the timer's critical section, or an interrupt was
  held off over the end, the timer is the one to see it: the check between its
  two additions takes the difference for an overflow (264) and old bytes are
  delivered again, and the full interrupt served after it adds the whole buffer
  once more. `trouble` is "lap".
* A buffer exactly full whose tail is not 0 is given to the reader as a run past
  the end of the buffer (213-217; CHECK_OVERFLOW lets the size itself pass).
  `rust/rust_esprit/src/serial.rs:224` promises "the num of contiguous bytes
  available". Recipe: `INVARIANT RunInside` in SerialRx.cfg.
* A reader that falls further behind, or an overflow between getReadPointer() and
  consume(), leaves the indexes off; the length may come out negative, which the
  model has as a reader that failed. `trouble` is "behind".
* purgeRx() disables the DMA interrupts for good, and the cell goes on where it
  is, so purged bytes come back: "Discard any buffered received data",
  `rust/rust_esprit/src/serial.rs:183`, is not what happens. Recipe: `INVARIANT
  PurgeForgets` in SerialRx.cfg. `trouble` is "purge".

**I2CMaster** (`lnI2C_impl.cpp`)
* Reads of four bytes or more stop after three and report success: in
  `current_offset += 2 == total_bytes` (662) the comparison is added, and a
  comment at 392 says "above is buggy". `ResultTells` asks for the first three bytes
  only.
* A read with an empty block fails the assertion of `receiveNext()` (535) when a
  byte comes for it. The reads of the run have none (`Readable`).
* A short block right after a DMA block overwrites the last byte the DMA put into
  the data register (514), and the call returns true. `ResultTells` allows just that
  byte to be missing (`Overwritten`).
* `take(100)` (322, 411) is a fixed wait, whatever the length of the transfer or the
  slave's clock stretching. When it expires with the transfer going on, an
  event served after `endTransfer()` (323) and before `stopIrq()` (324) starts the
  DMA of the next block, whose interrupt finds no slot: `xAssert(la)`,
  `lnDma.cpp:538`. Recipe: `INVARIANT AssertionsHold` in I2CMaster.cfg. And a token
  given after it makes the next call return true with nothing sent. Hence
  `overran` in `ResultTells` and `NoAssertionFails`.
* Reads and writes lock different mutexes; a write without bytes sends no STOP.

**W5500**
* In Listening, poll() does not look at CLOSE_WAIT: a client that connects and
  leaves between two polls wedges the socket; after an RST it is in error for
  good. Hence `env.polite` in `ServesAgain`.
* If the chip frees space after SENDOK, a full buffer leaves the sending flag set
  with nothing to clear it (`lowlevel_w5500_helper.h:704-711`). Hence `~env.lags`.
* DataAvailable handled before Connected is dropped; the write to a client that
  left goes to the next one, which connected meanwhile.

**lwIP** (`esprit_lwip.cpp`)
* A client accepted between tcp_close() (360) and the deletion of the fifo (363)
  fails the assertion at 195; RST or a link loss with unread data makes later
  calls meet a freed block. Hence `polite` in `NoFault`.
* tcp_write() without memory (485) sets CON_ERROR and tells nobody: the byte is
  lost, no more is written, the client waits for its echo, and its FIN is
  ignored (208), so the server never serves again. `EchoComes` names this;
  `ServesAgain` speaks of clients that left, which a polite one does after its
  echo only. A segment that finds the fifo full is lost (213).
* Down and Up in one batch are handled Up first.

**DHCP**
* DHCP_init() starts over from the same transaction id, so replies of an earlier
  session are accepted; `LeaseHeld` says less after a restart.
* The coordinator never calls DHCP_run() once it is ON, so leases are not renewed
  (`dhcp_w5500.h:77` speaks of renewal).

## 6. Not modelled, and the plan

Partly modelled: DMA channels, where SerialTx, SerialRx and I2CMaster use them;
not the interrupt that is already latched when `cancelTransfer` runs
(`lnDma.cpp:275`). The RP serial port: its transmitter has SerialTx's design;
its receive path of two swapped buffers is not modelled. W5500: one socket, one
link-up; not chip initialisation, the global read-modify-write of
`sock_is_sending` by several sockets, nor the socket table.

Not modelled, in the order in which they would come next: SPI master (I2CMaster's
scheme), the interrupt-driven serial ports, the RP receive path, lnDmaTimer with
WS2812B, CH32V3 Ethernet rings, USB endpoints, rotary encoder, rs_rtos.

Never: register programming (GPIO, clocks, plain ADC, I2C speed), generated
bindings, vendored code. Their behaviour is that of hardware or of another
project, without a protocol of this one.

Proofs to come: `ResultTells` of I2CMaster for calls of one block, where no
induction is needed; `NothingOlderBack` with errors in the collector's copies,
with an invariant that lets a copy be shorter than what it was made from.
