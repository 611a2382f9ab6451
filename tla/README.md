# Sidekick-IO: a TLA+ model of the firmware

Sidekick-IO is a USB device built on a SAM D21 (one Cortex-M0+ core): a vendor
interface bridges GPIO, I2C and SPI to a host, a CDC interface bridges a UART,
and a bootloader in the lower part of the flash updates the application over
the same vendor interface.  The repository has no prose documentation; what the
modules are compared with is the code and the comments of its headers
(`src/Common/rjt_usb_bridge.h` documents the commands).

## The system

Everything runs on one core, in a main loop and in interrupt handlers.  The USB
handler has the highest priority (0); the EIC and SERCOM handlers come below it,
then the main loop.  `CRITICAL_SECTION_ENTER` disables all interrupts.  The USB
peripheral works beside the core: it serves the host's tokens by DMA, from and
into the buffers that the endpoints were armed with.

| component | code | state it keeps | operations | what makes it hard |
|---|---|---|---|---|
| byte queue | `Common/rjt_queue.c` | array, size, head, tail | push, pop, enqueue, dequeue, reset | wrap-arounds; shared by interrupts and main loop |
| vendor command channel | `Common/udi_vendor.c`, `processCmd` of `rjt_usb_bridge_app.c` and `rjt_usb_bridge_boot.c` | endpoint flags, packet and response buffers, sequence bit | packet received, response sent, abort, enable, control requests | retries, late answers, resets in any order; buffers shared with DMA |
| endpoint jobs | ASF `usb_device_udd.c`, `udc.c`, `usb.c` | one job per endpoint, EPCFG, bank ready, TRCPT | run, abort, alloc, free, interrupt | abort callbacks that re-enter `udd_ep_run`; bus reset clears hardware state first |
| firmware update and boot | bootloader `main.c`, `rjt_usb_bridge_dfu.c`; application `rjt_usb_bridge_dfu.c` | flash, DFU context, shared-memory mode, reset countdown | DFU commands, SOF callback, boot decision | power loss anywhere; mode kept over a reset in RAM |
| flash driver | ASF `nvm.c` | flash | write page, erase row | programming only clears bits; 16-bit words |
| notify endpoint | `udi_vendor.c` 183-285 | `mNotify`, two flags | set status, callback | value written around an abort |
| bridge configuration | `rjt_usb_bridge_configuration.c` | current configuration, the units' enabled flags, pin tables | set, reset | partial failures while switching |
| GPIO and pin interrupts | `rjt_usb_bridge_gpio.c`, `rjt_external_interrupt_controller.c` | interrupt status bits, enables | configure, read, set, enable, clear, EIC handler | flags raised by one handler, cleared by another |
| UART bridge | `Common/rjt_uart.c`, ASF `usart.c`, `usart_interrupt.c` | transmit queue, job of the UART, DMA ring, two cached packets | poll, transmit handler, line coding | three priority levels; ring overrun; a UART set up anew under way |
| CDC class driver | ASF `udi_cdc.c` | two double buffers, positions, transfer flags | read, write, start of frame, endpoint callbacks, enable, disable | buffers change sides between DMA and main loop |
| logger | `Common/rjt_logger.c`, `rjt_sprintf.c` | a queue, a flag that messages were dropped | print, process | print from interrupts |
| I2C, SPI masters | `sk_usb_bridge_i2c_master.c`, `rjt_usb_bridge_spi_master.c` | none of their own | transaction, transfer | lengths inside one packet; error paths |
| start-up, clock logger | `main.c`, `rjt_clock_logger.c` | none | initialisation, printing | - |

How they interact: the USB handler calls the command channel; the channel calls
the command's handler inside the same interrupt; handlers call configuration,
GPIO, I2C, SPI or DFU code; GPIO interrupts (EIC handler) set the status that the
notify endpoint carries; everything prints through the logger, which the main
loop drains into a UART (application) or a CDC port.  DFU_RESET is answered
first: the reset follows 1000 USB frames later, from the start-of-frame callback.

What makes each correct, in one line: the queue is a FIFO and its calls are
all-or-nothing; a command is executed at most once and the host gets its own
answer, whatever it retries; endpoint flags agree with jobs, so that the
device never stops listening; the flash holds the bytes sent, a started
application is all of one image, and an update that is not disturbed takes
effect; characters pass the UART bridge in order, none twice, and none is
stuck or lost in it; an edge on an enabled pin reaches the host, and no pin of
a serial unit is taken for one; a configuration owns exactly the unit that is
enabled; the bus is let go of when a transaction ends, and its response can be
taken apart; the log is whole messages, and says when some are missing.

## Modules

| module | stands for |
|---|---|
| `ByteFIFO` | abstract: a bounded FIFO of bytes |
| `RJTQueue` | `rjt_queue.c`; refines `ByteFIFO` (`ImplementsFIFO`) |
| `RJTQueue_proofs` | its theorems |
| `UddEndpoint` | operators for one endpoint job and its hardware bits |
| `CommandService` | abstract: at-most-once commands, answers matched to commands |
| `VendorChannel` | `udi_vendor.c` bulk endpoints + `processCmd` + control requests + ASF set-configuration and bus reset + the host; refines `CommandService` (`ImplementsService`) |
| `VendorChannel_proofs` | theorems about its endpoints and flags, and that it implements `CommandService` |
| `Nvm` | operators for the flash, with torn writes and erases |
| `FirmwareUpdate` | bootloader, DFU commands, delayed reset, power losses, the host |
| `FirmwareUpdate_proofs` | theorems about what is in the flash and what is started |
| `BridgeConfig` | `rjt_usb_bridge_configuration.c`: actions that the next two modules use |
| `SerialMasters` | I2CM_TRANSACTION and SPIM_TRANSFER_DATA, on top of `BridgeConfig` |
| `SerialMasters_proofs` | its theorems |
| `PinInterrupts` | EIC, `rjt_usb_bridge_gpio.c`, interrupt bits, notify endpoint and the host that polls it, on top of `BridgeConfig` and `UddEndpoint` |
| `PinInterrupts_proofs` | its theorems |
| `Logger` | `rjt_logger.c`: messages of the handlers, the main loop that sends them |
| `Logger_proofs` | its theorems |
| `CdcToUart` | the bridge from the host to the UART: bulk OUT endpoint, receive buffers of `udi_cdc.c`, `process_cdc_rx`, transmit queue (as the FIFO that `RJTQueue` implements), UART job and its handler, the host |
| `CdcToUart_proofs` | its theorems |
| `UartToCdc` | the bridge from the UART to the host: DMA ring, `process_cdc_tx`, transmit buffers of `udi_cdc.c`, bulk IN endpoint, the host |
| `UartToCdc_proofs` | its theorems |
| `MCRJTQueue`, `MCVendorChannel`, `MCFirmwareUpdate`, `MCCdcToUart`, `MCUartToCdc`, `MCSerialMasters`, `MCPinInterrupts` | model-checking instances (`Logger` is checked as it is) |

What composes what: `VendorChannel`, `PinInterrupts`, `CdcToUart` and `UartToCdc`
are each an interface of the device with its endpoints, its handlers and its host,
over `UddEndpoint`.  `SerialMasters` and `PinInterrupts` each extend
`BridgeConfig`, as the configuration is what they have in common: it lends one
the unit and the other the pins.  The command channel is not composed with the
commands: it delivers them one at a time and at most once (`ImplementsService`),
and that is what the modules of the commands take as given.

### RJTQueue

One action per function.  An operation is one step because every caller in the
repository reaches it inside a critical section or with the other side stopped.
`data` is the array; a block transfer is one or two `CopyInto`/`CopyOut`
(memcpy), chosen by the code's own comparison of the reduced index
(`rjt_queue.c:81`, `:139`).  `ret` records the last call, what it was given and
what it returned, so that the refinement compares results and not only
contents.  `Contents` is the refinement mapping.

### VendorChannel

The USB handler never preempts itself, so one handler is one step, except where
the peripheral can serve a token of the host in the middle of it and the
outcome differs: `process_write` is split at the memset, the memcpy, the re-arming
of the OUT endpoint and the response (`pc`).  The order in which a handler
serves several pending causes is that of `_usb_device_interrupt_handler`:
endpoint 0, then 1 (write), then 2 (read), then the bus reset.  A command is its
number and its sequence bit; a response is the replica of that header and its
length.  What a command does is in the modules of the commands.

The endpoint (`UddEndpoint`) keeps both the driver's `busy` and the hardware's
`enabled`, `ready` and `trcpt`: the interesting states are those in which they
disagree.  A reset on the bus clears EPCFG and EPINTFLAG at once, and is
handled by software later.

The host is external.  It configures, resets the bridge, and then has one
command at a time, with an alternating sequence bit that starts at TRUE.  It may
write a command again, ask for the answer by an empty packet (`cmd_len < 1`), or
start over by a bus reset, a SET_CONFIGURATION or a CNTRL_REQ_RESET alone.

### FirmwareUpdate

A command is one step; `erase_application` is one step per row, as power may
fail between rows.  The two torn cases leave any subset of the page's bytes
programmed, or of the row's pages erased, and the rest undefined.  A byte
remembers the image and position it belongs to.  After a power loss the shared memory
holds anything.  With `Disciplined` the host keeps to start, write, done,
verify, leave; without it any order of commands is allowed.  `Sof` counts the
frames down to the reset in both programs.

### CdcToUart and UartToCdc

Both have the USB handler's actions as single steps (it is never preempted) and
split the main loop where it is outside a critical section and something can
come between: `pc` names the place.  The two directions share no state but the
line coding and the configuration, so each is a module of its own.  Bytes are
numbered in the order of the stream, so that order and loss are visible.

In `CdcToUart` there is a third level, the SERCOM4 handler: `SercomCheck` and
`SercomSend` are separate, because the USB handler can set the UART up anew
between them.  `epBuf` is the buffer the endpoint was armed with, `rxBufSel` the
one the main loop reads.  A read is `MainTop` (`udi_cdc_is_rx_ready`),
`MainCount`, `MainSelect` and `MainCopy` (the two critical sections of
`udi_cdc_multi_read_no_block`), `MainStart` (`udi_cdc_rx_start`), `MainMark` and
`MainArm` (`udd_ep_run` inside and behind its critical section), `MainSpace` and
`MainEnqueue`.  `sent`, `discarded` and `clean` are histories.  `clean` turns
FALSE at two moments at which the code does lose or repeat data, and what is
claimed afterwards is only what still holds (the types, `Receiving`, and that a
job is never refused, the last part of `TransmitTracked`; `Forwarded` not, because
of the first of them):

* the UART is initialised (line coding, SET_CONFIGURATION) while `mTxInProgress`
  is set: `usart_init` forgets the job but leaves DRE and TXC enabled.  The bytes
  of the job are gone.  `mTxInProgress` can stay set for ever, with DRE disabled
  by a handler that finds no job, or with TXC enabled for a byte that was cut
  off: no callback comes, `enqueue_into_write_queue` starts no job, and nothing
  is transmitted any more.  If the job was caught between the handler's check and
  its send, a byte is read through NULL and the count wraps;
* SET_CONFIGURATION falls between the two critical sections of
  `udi_cdc_multi_read_no_block`, or between `udi_cdc_rx_start` and the end of
  `udd_ep_run`: the position is advanced in a buffer that is new, or the endpoint
  is armed with a buffer that the main loop reads.

In `UartToCdc` a step of the DMA writes one byte, and can fall between any two
steps of the main loop.  What takes bytes out of the ring is split accordingly:
`MainLoad` counts what is readable (`num` is `num2read`), `MainCheck` is the
assertion at `rjt_uart.c:270`, which counts anew, and `MainTake` is one turn of the
loop behind it.  `asserted` collects the assertions that failed.  `tx` holds the
`udi_cdc_tx_*` variables; the frame number of the last short packet is abstracted to whether
that frame is still on (`short`).  A SET_CONFIGURATION may fail, since the other
direction shows that it can.  The bytes of the ring survive a configuration, those
in the two buffers do not (`discarded`).  `overran` records that the ring held
all its length unread: from there on only `InOrder` is claimed.  `lapped` records
that this happened between the count and the last byte taken: then the DMA has
caught up with `mRxRingBufIndex`, and not even the order is claimed (see the
remarks below finding 3).

### BridgeConfig

`SetConfig` and `ResetConfig` are one step each: they run in the USB handler
between the arrival of a packet and its answer.  The order inside is kept where it
matters for what is left behind: the old unit is released and the pins become
inputs before the new arguments are looked at, and the pins are switched to the
unit before the baud rate is.  A request is the configuration it names and what
becomes of its arguments: `ok`, `short` (the packet ends), `parameter` (a value
out of range), `refused` (`spi_init` cannot make the baud rate), or an unknown
configuration.  `cfgAssert` records the asserts of the file.  A software reset of
a SERCOM (`spi_reset`, `i2c_master_reset`) is taken to be complete before the
next initialisation looks at it.

### SerialMasters

A transaction is one step per operation of its format string, as the slave
answers in between; `pc`, `fmt`, `k` are the loop, `cmd_len` what is left of the
packet.  `AfterByte` is CONSUME_BYTE: at the end of the packet it logs, and counts
on, so that `cmd_len` wraps around; the byte it then returns is any.  `Room` is the
check against the response's maximum, `Record` what an operation appends, and the
error it returns with decides between goto (a stop is sent) and return (none is).
`bus` says whether this master owns the bus; after a failed read either is
possible, as the driver sends the stop for some failures only.  `SpiTransfer` is
the checks of SPIM_TRANSFER_DATA; its select line is low only within the step.

### PinInterrupts

`EIC_Handler` is one critical section, so it and the USB handler never preempt
each other; edges and the host's polls fall anywhere.  Its loop is split where it
reads a flag, in the middle of the callback and at the acknowledge
(`EicCallback`, `EicWrite`, `EicAck`); `todo` is the lines it has not come to and
`AtLine` the one it is at.  `RJTUSBBridge_setInterruptStatus` is two steps,
wherever it is called from: the abort, whose callback arms the endpoint with
the old value, and the write of the new one.  The endpoint is that of `UddEndpoint`, with a
job of the one word `mNotify`.  `interrupt_status` is the one bit of it that any
code sets.  A pin is its index; its level is left out.  `owed` (pins with
an edge that the host has not cleared), `missed` (the bit changed while the
endpoint was never enabled) and `edges` are histories.

### Logger

A print is one step: handlers print, they do not preempt one another there, and the main
loop prints nothing once it runs.  `RJTLogger_process` is split at the notice,
the reset of the flag, the critical section that dequeues, and the send.  Bytes
carry the number of their message, which starts over after `Ids`: the log goes on for
ever and the state space is finite.  `unnoticed` and `silent` are histories: a
message that is dropped between the notice and the reset of the flag is lost
without one, and is left out of `DropsNoticed`.

## Runs

| run | bounds | shows |
|---|---|---|
| `MCRJTQueue` | array of 3, transfers of 0..4, 2 byte values | `RingInv`, `ImplementsFIFO` (the refinement of `ByteFIFO`).  Every pair of head and size occurs, with every transfer that fits, ends at the end of the array, wraps, or does not fit |
| `VCreopen` | 4 commands, 2 retries each, 2 re-openings by bus reset or configuration, 2 response lengths | `JobsTracked`, `Listening`, `QuietRepliesIntact`, `OldDataIsOld`, `ImplementsService`, `Served`.  Two sequence-bit periods and a re-opening inside a re-opening |
| `VCctrl` | the same, re-openings by configuration or CNTRL_REQ_RESET | `AssertsHold` |
| `FUcrash` | 2 rows of 2 pages of 4 bytes, packets of up to 3, images of 7, 8, 16 (all of the flash) and 17 (refused), 2 images, 2 power losses | `StreamStored`, `BootedUnmixed`, `VerifyPasses`, `UpdateTakesEffect`, `DfuModeReached`.  A packet ends at, before and behind a page boundary; a loss during the update that follows a loss |
| `CUstream` | buffers and queue of 3, jobs of up to 2, packets of 0, 2 and 3, 6 bytes, one upset (configuration, bus reset, line coding) | `NothingLost`, `BuffersApart`, `TransmitTracked`, `Receiving`, `Forwarded`.  A packet meets a full queue, both receive buffers are full, a job takes part of the queue (2 of 3), the upset falls anywhere |
| `UCstream` | ring of 4, buffers of 2, empty packets after 2 idle frames, 8 data bits, 6 bytes, one upset (configuration, failed configuration, bus reset, line coding) | `InOrder`, `NothingLost`, `BuffersApart`, `OngoingTracked`, `Delivered`.  The ring wraps and can overrun, before, in or behind the copy of what was counted, a packet is short, full or empty, both buffers wait to be sent |
| `SMserial` | 3 pins, of which SPI takes two and I2C one of these; all format strings of up to 2 operations and three of 3; 3 data bytes, lengths up to 2, 9 bytes of response, `cmd_len` modulo 8 | `ConfigOwns`, `ResponseParses`, `BusReleased`.  Every request in every configuration; the response is full behind, in and before the data of a record; the packet ends at a length and before an array, and `cmd_len` wraps |
| `PIedges` | 3 pins (two that SPI takes, one that shares its line with the button), 2 edges, 3 commands, 1 re-opening of any kind | `LinesOwned`, `EdgeKept`, `Announced`, `Told`.  A second edge on the same or another line at any statement of the handler, a configuration that takes an enabled pin, a status that changes while the endpoint is busy, free or reset |
| `LGdrops` | queue of 5, chunks of 2, messages of 1, 2 and 4, numbers modulo 8, no end | `WholeMessages`, `DropsNoticed`.  The queue is full to the last byte and short of one, messages span chunks, drops fall on every step of the main loop |
| `VCbusreset`, `FUpartial`, `CUtail` | small | the findings below: each expects its property to be violated |

One run of each module also checks its type invariant; that of `RJTQueue` is
only proved.

Deadlock is checked for the queue, the serial masters and the log; elsewhere the host is out of
commands, images, edges or bytes at the end, and the device then has nothing to do.  The
counters that end it (`MaxCmds`, `MaxRetries`, `MaxResets`, `MaxImages`,
`MaxLosses`, `MaxSent`, `MaxBytes`, `MaxUpsets`, `MaxEdges`) are guards of the host, the
line or the power supply, never of the device (in `UartToCdc` they also bound how
often a SET_CONFIGURATION fails).  `PosWrap`, `JobWrap` and `SizeWrap` are the
ranges of 16- and 32-bit counters made small; `Ids` is above the number of bytes
that can be on their way, so that two messages in sight never share a number.

Fairness.  `VendorChannel`: weak fairness of the device (a pending interrupt of
the highest priority is served) and of the host's steps towards its answer; none
for retries or re-openings, so `Served` does not rest on them.
`FirmwareUpdate`: weak fairness of boot, frames, erase and of a host that goes on
with the update it began; strong fairness of its leaving, as it may re-read the
flash any number of times but not for ever.  `CdcToUart` and `UartToCdc`: weak
fairness of the USB handler, the SERCOM handler, the main loop (which polls for
ever and gets the core when no handler is pending), the shift register, the
start of frame, and of a host that configures a device that is not and reads
the IN endpoint; none for sending, the line, or upsets.  `PinInterrupts`: weak
fairness of the two handlers, of the host's polls (an interrupt endpoint is polled
at its interval) and of its configuring a device that is not; none for edges or
commands.  `Logger`: weak fairness of the main loop, which handlers leave alone
some time; none for prints, so `DropsNoticed` says that even a flood of them is
noticed.  `SerialMasters` and `RJTQueue` claim no liveness.

## Findings

1. `VCbusreset`: on a bus reset of a configured device the abort callback runs an
   endpoint that is disabled already; `ASSERT(success)` (`udi_vendor.c:171`, `:65`)
   fails.  A Release build (NDEBUG) recovers: the denied job stays busy, and the next
   SET_CONFIGURATION aborts and runs it again (`Listening` in `VCreopen`).
2. `FUpartial`: an update interrupted behind the page with the magic leaves an
   image that is started although it is not complete.
3. `CUtail`: `process_cdc_rx` leaves at `udi_cdc_is_rx_ready` before it looks at
   `read_buf`.  What a full queue did not take of the last packet is sent only
   when the host sends another one.  `Forwarded` is the part of the promise that
   holds.

Read in passing and not made runs of:

* Command channel.  CNTRL_REQ_RESET alone does not take back a packet that is
  already in the OUT endpoint; it is executed after the reset, and the next new
  command is dropped as old data (`rjt_usb_bridge_app.c:187`).  With a configuration or
  bus reset in front this does not occur (`OldDataIsOld` in `VCreopen`).  A
  retrying host can take a response while `process_write` replaces it
  (`udi_vendor.c:104-121`), new bytes with the old length (`QuietRepliesIntact`
  says when not).  SET_FEATURE(ENDPOINT_HALT) on a vendor endpoint aborts its job
  after the halt; the callback's `udd_ep_run` is refused on a halted endpoint and
  the flag of the endpoint stays as it was, so that it is never armed again
  (`usb_device_udd.c:564`).  CLEAR_FEATURE calls the callback of a job through a
  pointer type without arguments (`:578-582`).
* Update.  Data is accepted without DFU_START and beyond the announced size, and
  a full page is written only when more data comes, against
  `rjt_usb_bridge.h:132-143`.  Each DFU_RESET starts the count of 1000 frames
  again.
* UART bridge.  After a bus reset between `udi_cdc_rx_start` and `udd_ep_run` the
  endpoint stays busy, the next SET_CONFIGURATION is answered with a STALL, and the
  one after it meets `Assert(udi_cdc_nb_data_enabled != 0)` (`udi_cdc.c:369`) with
  zero; `CUstream` reaches such states (`asserted = {"disable"}`), and reception
  still resumes.  `udi_cdc_multi_write_buf_no_block` doubles the length for nine
  data bits (`udi_cdc.c:1181`), which nothing refuses and `process_cdc_tx` does not know
  of: the assertion at `rjt_uart.c:337` would fail; `UCstream` has eight data bits.
  The ring is read with the DMA running.  When it fills up between the first
  count (`rjt_uart.c:302`) and the second, the assertion `num <= get_num_readable()`
  (`:270`) fails.  With one byte more before the last one is taken (`:273`), the slot
  at `mRxRingBufIndex` holds the newest byte: `write_buf` gets it before older ones,
  and the main loop reads it again a lap later.  With 1023 bytes unread one and
  two received bytes are enough, with fewer it takes a longer preemption.  `InOrder`
  without `~lapped` is violated in the model in each of these ways.
  `get_rx_ringbuf_pos` reads a register of the DMA channel that was active last
  (`rjt_uart.c:249`); only one channel is used.
* Configuration.  A baud rate that `spi_init` refuses leaves the pins switched to
  the unit while the configuration is GPIO (`PinsMatchConfig` leaves this case
  out).  The refusals of `config_i2c_master` for a parameter, and of an unknown
  configuration, leave the length of the answer at its maximum.
* I2C.  CONSUME_BYTE goes on past the end of the packet
  (`sk_usb_bridge_i2c_master.c:182`).  A read of no bytes stores one (ASF
  `i2c_master.c:594`).
* Pins.  Every change of the configuration and CNTRL_REQ_RESET disable all lines,
  that of the button too, and nothing enables it again.  GPIO_CFG of a pin that
  interrupts takes it from the EIC and leaves its line enabled.  An interrupt from
  before the first SET_CONFIGURATION is announced only with the next one.
  `parallelWrite` ignores its index mask.
* Log.  A message dropped between the notice and the reset of the flag is lost
  without one (`rjt_logger.c:43`).

## Proofs

`RJTQueue_proofs` proves for every array length, byte set and transfer bound
(`MaxLenAssumption`, `MaxXferAssumption`: positive naturals):

* `RingCorrect`: `Spec => [](TypeOK /\ RingInv)`.  The inductive invariant is the
  conjunction itself: `RingInv` (tail is size behind head, modulo the length) is what keeps
  the three counters together; `WrapOnce` turns the modulus into one
  conditional subtraction.
* `QueueImplementsFIFO`: `Spec => ImplementsFIFO`.  Every step on the ring is a
  step of `ByteFIFO` on `Contents`.  `StoredSlots` says which slots the one or two
  memcpy calls touch, `PutContents` that this appends the buffer,
  `FetchedIsPrefix` and `TakeContents` the same for removal; a single-byte
  operation is a block of one (`PushIsStore`).

`VendorChannel_proofs` proves for any number of commands, retries and
re-openings and every set of response lengths (`BoundsAssumption`,
`LensAssumption`):

* `TypeCorrect`, `FlagsAgreeWithJobs`, `NeverDeaf`: `Spec => []TypeOK`,
  `[]JobsTracked` and `[]Listening`.  The inductive invariant is
  `IInv == TypeOK /\ JobsTracked /\ Listening /\ Armed`.  `Listening` is not
  inductive alone: it needs `JobsTracked` to know that an abort finds a busy job
  and runs it again, and `Armed` (a write endpoint that is ready or has a packet
  was enabled by the driver; a configured device with no bus reset pending has its
  endpoints enabled) to know that the run reaches the hardware.  `RunBits`,
  `AbortBits`, `FreeBits` and `OtherBits` say what the operations of an endpoint
  do (each module that owns endpoints proves those it needs); `Frames` disposes of the steps that touch only one side.
* `AssertsHoldWithoutBusReset`: if `"bus" \notin ReopenWays`, `Spec =>
  []AssertsHold`.  `Steady` strengthens it: endpoints are enabled exactly while the
  device is configured, and handlers run only then.  It says of finding 1
  that a reset of the bus is its only cause.
* `QuietHostGetsWholeReplies`: `Spec => []QuietRepliesIntact`, and, if `"ctrl" \notin
  ReopenWays`, `NoCommandDropped`: `Spec => OldDataIsOld`, and
  `ChannelImplementsService`: `Spec => ImplementsService`.  All three rest on
  `Protocol`, which says what the two sides know of each other: the driver's bit is
  that of the host's command exactly when this was executed (`SeqTracked`); a
  packet that waits is empty, the host's command or a repetition of the one before
  (`PacketKnown`); the read buffer holds an answer that the host ignores by its bit
  or the one to its command (`ResponseKnown`); nothing of an abandoned command
  outlives a re-opening (`OldGone`).  It is inductive while `Orderly`: the host is quiet or
  has no CNTRL_REQ_RESET alone, after which a packet that waits is executed and the
  bits part (the first of the remarks on the command channel below finding 3).  For a quiet host `Turns`
  adds that no answer is armed while a command is handled.  `PacketJudged` and
  `ReplyJudged` are the two places where a bit is compared: that alone decides
  between new and old, and between answer and leftover.  `ServiceStep` maps every step to a step of
  `CommandService` or a stutter.

`BridgeConfig`, for any table of pins (`IndexAssumption`, `OverrideAssumption`:
the GPIO configuration takes none): `ConfigInv == ConfigTypeOK /\ ConfigOwns` holds at
the start and is kept by `SetConfig` and `ResetConfig` (`SetConfigKeeps`,
`ResetConfigKeeps`), whatever was asked.  These lemmas open the proofs of both
modules that extend it.

`SerialMasters_proofs`, for any format strings and sizes (`SerialAssumption`):

* `TypeCorrect`, `ConfigurationOwnsUnit`, `BusLetGo`: `Spec => []TypeOK`,
  `[]ConfigOwns` and `[]BusReleased`.  `BusReleased` speaks of the end of a transaction;
  `BusHeld` carries it through one: it runs in the I2C configuration only, and
  between two operations the bus is owned only after a write.
* `ResponseCanBeTakenApart`: `Spec => []ResponseParses`.  The property names, for the records
  so far, where each begins and which operation it is of; a step extends these two
  functions (`RecordAdded`) or leaves them (`ResponseKept`), so that no sum over
  the sequence has to be unfolded.

`PinInterrupts_proofs`, for any number of edges, commands and re-openings
(`PinAssumption`):

* `TypeCorrect`, `OnlyHostPinsInterrupt`, `NoEdgeLost`, `NotifyCarriesStatus`:
  `Spec =>` `[]TypeOK`, `[]LinesOwned`, `[]EdgeKept`, `[]Announced`.  The inductive
  invariant adds `LineOwners` (a line is its pin's, or the button's), `InStatus` (between
  callback and acknowledge the pin is in the status word: why the acknowledge
  loses nothing) and `Recorded` (until the endpoint is enabled every change of the bit
  is missed: why `Announced` holds when it is).  That an enabled line leads to a pin the
  handler knows (`EnabledIsKnown`) comes from `LinesOwned`.

`Logger_proofs`, for any sizes (`LogAssumption`):

* `TypeCorrect`, `LogIsWhole`: `Spec => []TypeOK`, `[]WholeMessages`.  The proof is
  about any sequence of bytes: `WholeExtended` (a message behind it keeps it
  whole), `WholeRest` (what is left when its beginning has been sent is whole, from
  the number that is due then).
* `DropsRemembered`: `Spec => []DropKnown`, the safety part of `DropsNoticed`; with
  `NoticePending`, which says that a drop before the reset of the flag is silent.

`FirmwareUpdate_proofs`, for any flash, packet size, position of the magic,
number of images and power losses (`NvmAssumption`, `UpdateAssumption`: pages of
even length, packets shorter than a page):

* `TypeCorrect`: `Spec => []TypeOK`, for commands in any order, which no run covers.  It
  has the checks that `nvm_write_buffer` makes: the address is a page's
  (`NextPage`), and the buffer holds no more than a page.
* `EveryByteStored`, `ReadsBackWhatItWrote`, `NeverBootsMixture`: if `Disciplined`,
  `Spec =>` `[]StreamStored`, `[]VerifyPasses`, `[]BootedUnmixed`.  The inductive
  invariant `UInv` adds `Phases` (how far the host is against what the device does),
  `ErasedBelow` (what an erase under way has behind it: with the last row, `RowErased`,
  all of the flash), `ReadBack` (what was sent is in the flash while it is read) and
  `OneImage` (no two images are in the flash at a time, whatever the losses: an
  image is written only over what was erased to the last row, and a torn write
  leaves bytes of its own image or junk).  `Stored` says what writing the next bytes of
  an image makes of the flash, `EnqueuedBytes` which bytes these are.  `Smaller`,
  `NextPage` and `RowDiv` are the products of row and page numbers that the provers need
  as lemmas.

`UartToCdc_proofs`, for any ring, buffers, number of bytes and upsets
(`SizesAssumption`, `LimitsAssumption`):

* `PeripheralAndMainApart`, `OngoingIsAJob`: `Spec => []BuffersApart`, `[]OngoingTracked`.
  `HandedOver` carries them: a bank handed to the host, or taken by it, is that of a
  marked and registered transfer and not of the buffer being filled; and the
  buffer that is not being filled is empty unless it is being or still to be sent,
  so that `udi_cdc_multi_get_free_tx_buffer` takes it for empty rightly.
  `Attached` says that a configured interface has its endpoint, or a bus reset is
  pending.
* `TypeCorrect`, `HostGetsInOrder`, `EveryByteAccounted`: if `9 \notin DataBits`, `Spec =>`
  `[]TypeOK`, `[]InOrder`, `[]NothingLost`.  With nine data bits the main loop reads behind
  `write_buf` (see the remarks below finding 3) and none of them holds.  The
  invariant counts with `Base`, how many bytes of the line left the ring:
  `RingHolds` (what is unread are the next ones: `ReceiveDoes`, `TakeDoes`), `InLine`
  (what left it is in order up to `Base`, from the host through both buffers to
  the rest of `write_buf`; without the buffers also while the bus is reset, because
  a configuration empties them), `Accounted` (until an overrun it is all of `1..Base`;
  what the host took and the handler has not cleared yet is counted once),
  `Within` (the copy stays in `write_buf`), `Taking` (what was counted and not
  taken yet is still readable, which is the assertion at `rjt_uart.c:270`).  The ring,
  the order and the assertions are claimed until `lapped` (`Apart`), the rest always;
  an overrun outside of the copy loses the ring's contents and no order, as
  `Readable` then starts at nothing again.  `SendKeepsOrder` is why
  `udi_cdc_tx_send` may change which buffer is which, `CopyDoes` why a copy moves
  bytes and loses none.

`CdcToUart_proofs`, for any buffers, queue, packet lengths, number of bytes and
upsets (`SizesAssumption`, `LimitsAssumption`); every one of these holds without a
further hypothesis:

* `TypeCorrect`, `EveryByteOnItsWay`, `DmaAndMainApart`, `TransmitterTracked`,
  `InterfaceListens`: `Spec =>` `[]TypeOK`, `[]NothingLost`, `[]BuffersApart`,
  `[]TransmitTracked`, `[]Receiving`.  One inductive invariant, `IInv`, carries them.
  `Transmitter` says that DRE is enabled while there is a job, that DRE and TXC are
  never enabled together, and that either means `mTxInProgress`: this is why
  `usart_write_buffer_job` never refuses, also after an initialisation that the
  handler did not expect.  `Loop` is what the local variables of `process_cdc_rx` are
  good for.  `Attached`, `Asking` and `HandedOver` are about the endpoint: a
  configured interface has it, or a bus reset is pending; a transfer that is marked
  is at the peripheral, or the main loop is about to hand it over; and, while
  `clean`, the bank is the buffer that is not being read, and what the main loop
  computed in one critical section still holds in the next.
* The stream is in `StreamStep`: most steps move bytes from one stage to the next and
  leave `Pipeline` as it is.  `TransmitterStream` (queue to job to line), `CopyStream`
  (out of the buffer), `StartStream` (the exchange of the buffers) and `OutStream` (a
  packet that landed) show this; `PacketAdded` is the step that lengthens it and
  `TailGivenUp` the ones that drop a tail, which is why order survives a
  configuration.  That `udi_cdc_rx_pos` stays below its wrap-around needs
  `RxLen < PosWrap`, the 64 of a buffer against 2^16: with a buffer as long as the
  range, a buffer read to the end would start again at 0, and `NothingLost` fails.

Model-checked only: liveness (`Served`, `UpdateTakesEffect`, `DfuModeReached`,
`Forwarded`, `Delivered`, `Told`, `DropsNoticed`), which is outside the proof
system.

## Not modelled

* Endpoint halt and suspend (see above for what halt does), multi-packet transfers
  (no interface has any) and SET_CONFIGURATION with value 0.
* Baud rates: `usart_init` is retried for ever at `rjt_uart.c:142` when it refuses one,
  in the USB handler.
* `Nvm` fails with STATUS_BUSY only; other failures of `nvm_write_buffer` are taken
  for success (`rjt_usb_bridge_dfu.c:92`), and the addresses that `TypeOK` allows
  meet none of them.
* The length of a packet on the channel, other than empty or not: the handlers'
  own checks are in the modules of the commands.  A packet shorter than
  its header wraps `cmd_len - sizeof(USBHeader)` around (`rjt_usb_bridge_app.c:84`).
* Levels of pins (read, write, parallel write, LED): they keep no state but the
  port's.
* Formatting (`rjt_sprintf.c`), the clock logger, and what commands print: the log
  keeps of a message its length.
* `main` of the application: initialisation, then the polling loop, of which each
  part is a process of its module.
* The registers of vendored drivers, clock and DMA set-up, the vendored drivers
  that the firmware links and does not call.

Every invariant that a run checks, and every action property and refinement, is
stated by a theorem.  What remains to be proved: a specification of the byte stream that both
directions of the bridge implement, with what a reset may drop.  With nine data
bits `TypeOK`, `InOrder` and `NothingLost` of `UartToCdc` are false, so their
theorems keep the hypothesis.
