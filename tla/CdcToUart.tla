----------------------------- MODULE CdcToUart -----------------------------
(***************************************************************************)
(* The serial bridge from the host to the UART: the bulk OUT endpoint of   *)
(* the CDC interface with its two receive buffers (udi_cdc.c), the polling *)
(* of process_cdc_rx in the main loop, the transmit queue, and the UART    *)
(* job that its interrupt handler works off (rjt_uart.c, ASF usart).       *)
(*                                                                         *)
(* Three levels run on the core.  The USB handler has the highest          *)
(* priority: each of its actions is one step, and one can fall between     *)
(* any two steps of the others.  The SERCOM4 handler preempts the main     *)
(* loop, which is split where it is outside a critical section and a       *)
(* handler makes a difference (pc).                                        *)
(*                                                                         *)
(* The bytes the host sends are numbered 1, 2, ...; 0 is any other byte.   *)
(* RJTQueue is used as the FIFO it implements (ByteFIFO).                  *)
(***************************************************************************)
EXTENDS Integers, Sequences, FiniteSets, UddEndpoint

CONSTANTS
  RxLen,      \* UDI_CDC_RX_BUFFERS and the size of read_buf: 64 in the code
  QueueLen,   \* size of mTxQueueBuffer: 256
  ChunkLen,   \* size of mTxInProgressBuffer: 32
  PosWrap,    \* where udi_cdc_rx_pos wraps: 2^16
  JobWrap,    \* where remaining_tx_buffer_length wraps: 2^16
  PacketLens, \* lengths of the host's packets
  MaxBytes,   \* the host sends this many bytes
  MaxUpsets   \* times it sets the configuration anew, resets the bus or
              \* changes the line coding

ASSUME SizesAssumption ==
  /\ {RxLen, QueueLen, ChunkLen, PosWrap, JobWrap} \subseteq Nat \ {0}
  /\ RxLen < PosWrap /\ PacketLens \subseteq 0..RxLen

ASSUME LimitsAssumption == {MaxBytes, MaxUpsets} \subseteq Nat

VARIABLES
  epOut, epBuf,           \* the endpoint and the buffer its job was armed with
  pktLen,                 \* byte count of the packet received last
  rxBuf, rxBufNb, rxBufSel, rxPos, rxOngoing, dataRunning, \* udi_cdc_*
  configured, mCDCEnabled,
  setup, busReset,        \* what the USB handler has pending besides packets
  pc, take, cur,          \* the main loop and its locals
  readBuf,                \* what is left in read_buf; not empty: dirty
  queue,                  \* mTxQueue
  mTxInProgress,
  job,                    \* what is left of the UART's job
  inten,                  \* INTENSET, of "DRE" and "TXC"
  line,                   \* shift register: "idle", "shifting", "complete" (TXC)
  sercom,                 \* the SERCOM4 handler: "idle", or about to "send"
  sent,                   \* the bytes given to the UART, recorded while clean
  asserted,               \* the assertions that failed
  hNext, hLast,           \* next byte of the host, first byte of its last packet
  hUpsets,
  discarded,              \* bytes given up with a configuration
  clean                   \* no reset hit a moment at which it does harm

cdcVars  == <<rxBufNb, rxBufSel, rxPos, rxOngoing, dataRunning>>
epVars   == <<epOut, epBuf>>
dmaVars  == <<rxBuf, pktLen>>
ctrlVars == <<configured, mCDCEnabled, setup, busReset>>
mainVars == <<pc, take, cur, readBuf>>
uartVars == <<queue, mTxInProgress, job, inten, line, sercom, sent>>
hostVars == <<hNext, hLast, hUpsets, discarded, clean>>
vars == <<cdcVars, epVars, dmaVars, ctrlVars, mainVars, uartVars, asserted, hostVars>>

Other(b) == 1 - b
MinOf(a, b) == IF a < b THEN a ELSE b
NoCur == [sel |-> 0, pos |-> 0, size |-> 0]

Init ==
  /\ epOut = Unused /\ epBuf = 0 /\ pktLen = 0
  /\ rxBuf = [b \in {0, 1} |-> [i \in 1..RxLen |-> 0]]
  /\ rxBufNb = [b \in {0, 1} |-> 0] /\ rxBufSel = 0 /\ rxPos = 0
  /\ rxOngoing = FALSE /\ dataRunning = FALSE
  /\ configured = FALSE /\ mCDCEnabled = FALSE /\ setup = "none" /\ busReset = FALSE
  /\ pc = "top" /\ take = 0 /\ cur = NoCur /\ readBuf = <<>>
  /\ queue = <<>> /\ mTxInProgress = FALSE /\ job = <<>> /\ inten = {}
  /\ line = "idle" /\ sercom = "idle" /\ sent = <<>>
  /\ asserted = {}
  /\ hNext = 1 /\ hLast = 1 /\ hUpsets = 0
  /\ discarded = {} /\ clean = TRUE
-----------------------------------------------------------------------------
(* The transmitter.                                                        *)

(* dequeue_and_transmit on a queue q: usart_write_buffer_job refuses a     *)
(* second job.                                                             *)
Transmit(q, ints) ==
  LET n == MinOf(Len(q), ChunkLen) IN
  /\ queue' = SubSeq(q, n + 1, Len(q))
  /\ mTxInProgress' = (n > 0)
  /\ IF n > 0 /\ job = <<>>
       THEN job' = SubSeq(q, 1, n) /\ inten' = ints \union {"DRE"}
       ELSE job' = job /\ inten' = ints
  /\ asserted' = IF n > 0 /\ job # <<>> THEN asserted \union {"transmit"} ELSE asserted

(* The handler on DRE: it looks whether bytes remain ...                   *)
SercomCheck ==
  /\ sercom = "idle" /\ "DRE" \in inten
  /\ IF job # <<>> THEN sercom' = "send" /\ inten' = inten
                   ELSE sercom' = sercom /\ inten' = inten \ {"DRE"}
  /\ UNCHANGED <<cdcVars, epVars, dmaVars, ctrlVars, mainVars, asserted, hostVars,
                 queue, mTxInProgress, job, line, sent>>

(* ... and then sends the next one.  If the UART was initialised in        *)
(* between, the pointer is NULL and the count wraps below zero.            *)
SercomSend ==
  LET left == IF job = <<>> THEN [i \in 1..(JobWrap - 1) |-> 0] ELSE Tail(job)
  IN
  /\ sercom = "send" /\ sercom' = "idle"
  /\ sent' = IF clean THEN Append(sent, Head(job)) ELSE sent
  /\ job' = left
  /\ inten' = IF left = <<>> THEN (inten \ {"DRE"}) \union {"TXC"} ELSE inten
  /\ line' = "shifting"
  /\ UNCHANGED <<cdcVars, epVars, dmaVars, ctrlVars, mainVars, asserted, hostVars,
                 queue, mTxInProgress>>

UartShifted ==
  /\ line = "shifting" /\ line' = "complete"
  /\ UNCHANGED <<cdcVars, epVars, dmaVars, ctrlVars, mainVars, asserted, hostVars,
                 queue, mTxInProgress, job, inten, sercom, sent>>

(* Mutant of SercomDone: the callback starts nothing.                      *)
SercomDoneOnly ==
  /\ sercom = "idle" /\ "TXC" \in inten /\ line = "complete"
  /\ mTxInProgress' = FALSE /\ inten' = inten \ {"TXC"}
  /\ UNCHANGED <<cdcVars, epVars, dmaVars, ctrlVars, mainVars, asserted, hostVars,
                 queue, job, line, sercom, sent>>

(* The handler on TXC: callback_transmitted.                               *)
SercomDone ==
  /\ sercom = "idle" /\ "TXC" \in inten /\ line = "complete"
  /\ Transmit(queue, inten \ {"TXC"})
  /\ UNCHANGED <<cdcVars, epVars, dmaVars, ctrlVars, mainVars, hostVars,
                 line, sercom, sent>>

Sercom == SercomCheck \/ SercomSend \/ SercomDone
-----------------------------------------------------------------------------
(* The main loop: process_cdc_rx and udi_cdc_multi_read_no_block.          *)

(* udi_cdc_multi_get_nb_received_data, as far as it is told apart: the     *)
(* difference is unsigned, so a position behind the data reads as more     *)
(* than any buffer holds.                                                  *)
Avail == IF rxPos <= rxBufNb[rxBufSel] THEN rxBufNb[rxBufSel] - rxPos ELSE RxLen

MainRuns == sercom = "idle"

MainFrame == UNCHANGED <<cdcVars, epVars, dmaVars, ctrlVars, uartVars, hostVars>>

MainTop ==
  /\ MainRuns /\ pc = "top" /\ mCDCEnabled /\ Avail > 0
  /\ pc' = IF readBuf = <<>> THEN "count" ELSE "space"
  /\ MainFrame /\ UNCHANGED <<take, cur, readBuf, asserted>>

MainCount ==
  /\ MainRuns /\ pc = "count"
  /\ IF Avail > 0 /\ dataRunning
       THEN pc' = "select" /\ take' = MinOf(Avail, RxLen)
       ELSE pc' = "top" /\ take' = take
  /\ MainFrame /\ UNCHANGED <<cur, readBuf, asserted>>

MainSelect ==
  LET size == MinOf(Avail, take) IN
  /\ MainRuns /\ pc = "select"
  /\ IF size > 0
       THEN /\ pc' = "copy" /\ UNCHANGED asserted
            /\ cur' = [sel |-> rxBufSel, pos |-> rxPos, size |-> size]
       ELSE pc' = "space" /\ asserted' = asserted \union {"num_read"} /\ cur' = cur
  /\ take' = 0
  /\ MainFrame /\ UNCHANGED readBuf

(* memcpy from the buffer; behind its end lies other memory.               *)
MainCopy ==
  /\ MainRuns /\ pc = "copy" /\ pc' = "start"
  /\ readBuf' = [i \in 1..cur.size |->
                   IF cur.pos + i <= RxLen THEN rxBuf[cur.sel][cur.pos + i] ELSE 0]
  /\ rxPos' = (rxPos + cur.size) % PosWrap
  /\ UNCHANGED <<take, cur, epVars, dmaVars, ctrlVars, uartVars, asserted, hostVars,
                 rxBufNb, rxBufSel, rxOngoing, dataRunning>>

(* Mutant of Drained: the position is not looked at.                       *)
AlwaysDrained(pos, nb) == TRUE

(* udi_cdc_rx_start refuses while the buffer being read is not empty.      *)
Drained(pos, nb) == pos >= nb

(* The critical section of udi_cdc_rx_start ...                            *)
MainStart ==
  /\ MainRuns /\ pc = "start"
  /\ IF rxOngoing \/ ~Drained(rxPos, rxBufNb[rxBufSel])
       THEN pc' = "space" /\ cur' = NoCur /\ UNCHANGED <<rxPos, rxBufSel, rxOngoing>>
       ELSE /\ pc' = "mark" /\ cur' = [NoCur EXCEPT !.sel = rxBufSel]
            /\ rxPos' = 0 /\ rxBufSel' = Other(rxBufSel) /\ rxOngoing' = TRUE
  /\ UNCHANGED <<take, readBuf, epVars, dmaVars, ctrlVars, uartVars, asserted,
                 hostVars, rxBufNb, dataRunning>>

(* ... and the udd_ep_run behind it: its critical section, and the rest.   *)
MainMark ==
  /\ MainRuns /\ pc = "mark"
  /\ IF epOut.busy THEN pc' = "space" /\ cur' = NoCur /\ epOut' = epOut
                   ELSE pc' = "arm" /\ cur' = cur /\ epOut' = [epOut EXCEPT !.busy = TRUE]
  /\ UNCHANGED <<take, readBuf, epBuf, cdcVars, dmaVars, ctrlVars, uartVars,
                 asserted, hostVars>>

MainArm ==
  /\ MainRuns /\ pc = "arm" /\ pc' = "space" /\ cur' = NoCur
  /\ IF epOut.enabled THEN epOut' = [epOut EXCEPT !.ready = TRUE] /\ epBuf' = cur.sel
                      ELSE UNCHANGED epVars
  /\ UNCHANGED <<take, readBuf, cdcVars, dmaVars, ctrlVars, uartVars, asserted, hostVars>>

(* Mutant of MainSpace: everything is enqueued.                            *)
MainSpaceAll ==
  /\ MainRuns /\ pc = "space" /\ pc' = "enqueue"
  /\ take' = Len(readBuf)
  /\ MainFrame /\ UNCHANGED <<cur, readBuf, asserted>>

MainSpace ==
  /\ MainRuns /\ pc = "space" /\ pc' = "enqueue"
  /\ take' = MinOf(Len(readBuf), QueueLen - Len(queue))
  /\ MainFrame /\ UNCHANGED <<cur, readBuf, asserted>>

(* Mutant of MainEnqueue: no job is started.                               *)
EnqueueOnly ==
  /\ MainRuns /\ pc = "enqueue" /\ pc' = "top"
  /\ readBuf' = SubSeq(readBuf, take + 1, Len(readBuf)) /\ take' = 0
  /\ queue' = queue \o SubSeq(readBuf, 1, take)
  /\ UNCHANGED <<cur, cdcVars, epVars, dmaVars, ctrlVars, hostVars, asserted,
                 mTxInProgress, job, inten, line, sercom, sent>>

(* enqueue_into_write_queue.                                               *)
MainEnqueue ==
  LET q == queue \o SubSeq(readBuf, 1, take) IN
  /\ MainRuns /\ pc = "enqueue" /\ pc' = "top"
  /\ readBuf' = SubSeq(readBuf, take + 1, Len(readBuf)) /\ take' = 0
  /\ IF mTxInProgress THEN queue' = q /\ UNCHANGED <<mTxInProgress, job, inten, asserted>>
                      ELSE Transmit(q, inten)
  /\ UNCHANGED <<cur, cdcVars, epVars, dmaVars, ctrlVars, hostVars, line, sercom, sent>>

Main == \/ MainTop \/ MainCount \/ MainSelect \/ MainCopy \/ MainStart
        \/ MainMark \/ MainArm \/ MainSpace \/ MainEnqueue
-----------------------------------------------------------------------------
(* The USB handler; endpoint 0 is served before endpoint 5, and that       *)
(* before the device's own flags.                                          *)

(* Mutants of UsbOut: an empty packet is not asked for again; the buffer   *)
(* just filled is armed.                                                   *)
UsbOutStopsAtEmpty ==
  LET b == Other(rxBufSel) IN
  /\ setup = "none" /\ epOut.trcpt
  /\ IF pktLen = 0
       THEN epOut' = Completed(epOut) /\ UNCHANGED <<epBuf, cdcVars>>
       ELSE /\ rxBufNb' = [rxBufNb EXCEPT ![b] = pktLen]
            /\ rxPos' = 0 /\ rxBufSel' = b /\ rxOngoing' = TRUE
            /\ epOut' = Run(Completed(epOut)) /\ epBuf' = rxBufSel
            /\ UNCHANGED dataRunning
  /\ UNCHANGED <<dmaVars, ctrlVars, mainVars, uartVars, asserted, hostVars>>
UsbOutSameBuffer ==
  LET b == Other(rxBufSel) IN
  /\ setup = "none" /\ epOut.trcpt
  /\ rxBufNb' = [rxBufNb EXCEPT ![b] = pktLen]
  /\ rxPos' = 0 /\ rxBufSel' = b /\ rxOngoing' = TRUE
  /\ epOut' = Run(Completed(epOut)) /\ epBuf' = b
  /\ UNCHANGED <<dataRunning, dmaVars, ctrlVars, mainVars, uartVars, asserted, hostVars>>

(* udi_cdc_data_received: an empty packet is asked for again; otherwise    *)
(* the other buffer follows, if the main loop has drained it.              *)
UsbOut ==
  LET b == Other(rxBufSel) IN
  /\ setup = "none" /\ epOut.trcpt
  /\ IF pktLen = 0
       THEN /\ epOut' = Run(Completed(epOut)) /\ epBuf' = b
            /\ UNCHANGED cdcVars
       ELSE /\ rxBufNb' = [rxBufNb EXCEPT ![b] = pktLen]
            /\ IF Drained(rxPos, rxBufNb[rxBufSel])
                 THEN /\ rxPos' = 0 /\ rxBufSel' = b /\ rxOngoing' = TRUE
                      /\ epOut' = Run(Completed(epOut)) /\ epBuf' = rxBufSel
                 ELSE /\ rxOngoing' = FALSE /\ epOut' = Completed(epOut)
                      /\ UNCHANGED <<rxPos, rxBufSel, epBuf>>
            /\ UNCHANGED dataRunning
  /\ UNCHANGED <<dmaVars, ctrlVars, mainVars, uartVars, asserted, hostVars>>

(* usart_disable, usart_init, usart_enable: the job is forgotten, a byte   *)
(* in the shift register lost; the interrupts stay enabled.                *)
InitUart ==
  /\ job' = <<>>
  /\ line' = IF line = "shifting" THEN "idle" ELSE line
  /\ UNCHANGED <<queue, mTxInProgress, inten, sercom>>

(* The histories are kept as long as nothing did harm.                     *)
Witness(harmless, dropped) ==
  /\ clean' = (clean /\ harmless)
  /\ sent' = IF clean' THEN sent ELSE <<>>
  /\ discarded' = IF clean' THEN discarded \union dropped ELSE {}

(* The moments at which that does harm: a job is under way, or its last    *)
(* byte has not left the shift register.                                   *)
UartAtWork == mTxInProgress /\ ~(job = <<>> /\ line = "complete")

(* user_callback_cdc_set_line_coding.                                      *)
UsbSetupCoding ==
  /\ setup = "coding" /\ setup' = "none"
  /\ InitUart
  /\ Witness(~UartAtWork, {})
  /\ UNCHANGED <<cdcVars, epVars, dmaVars, mainVars, asserted, configured,
                 mCDCEnabled, busReset, hNext, hLast, hUpsets>>

(* Bytes received that the main loop has not read yet, oldest first.       *)
Fresh(b, pos) == SubSeq(rxBuf[b], pos + 1, rxBufNb[b])
Landed == IF epOut.trcpt THEN SubSeq(rxBuf[epBuf], 1, pktLen) ELSE <<>>
Unread ==
  Fresh(rxBufSel, rxPos)
    \o (IF rxOngoing THEN Landed ELSE Fresh(Other(rxBufSel), 0))

Bytes(s) == {s[i] : i \in DOMAIN s}

(* udc_reset on the interface; udi_cdc_data_disable asserts that it was    *)
(* enabled.                                                                *)
Freed == IF configured THEN Free(epOut, FALSE) ELSE epOut
DisableAsserts == IF configured /\ ~dataRunning THEN asserted \union {"disable"} ELSE asserted

(* SET_CONFIGURATION: udc_reset, udi_cdc_comm_enable (which sets the line  *)
(* coding) and udi_cdc_data_enable.  It is answered with a STALL, and the  *)
(* interface stays down, if the endpoint is busy.                          *)
UsbSetupConfig ==
  /\ setup = "config" /\ setup' = "none"
  /\ asserted' = DisableAsserts
  /\ InitUart
  /\ LET e == Alloc(Freed) IN
       /\ epOut' = Run(e)
       /\ epBuf' = IF RunSucceeds(e) THEN 0 ELSE epBuf
       /\ dataRunning' = RunSucceeds(e)
  /\ rxBufNb' = [b \in {0, 1} |-> 0] /\ rxBufSel' = 1 /\ rxPos' = 0 /\ rxOngoing' = TRUE
  /\ mCDCEnabled' = TRUE /\ configured' = TRUE
  /\ Witness(~UartAtWork /\ pc \notin {"copy", "mark", "arm"}, Bytes(Unread) \ {0})
  /\ UNCHANGED <<dmaVars, mainVars, busReset, hNext, hLast, hUpsets>>

(* _usb_on_bus_reset: udc_reset.                                           *)
UsbBusReset ==
  /\ setup = "none" /\ ~epOut.trcpt /\ busReset /\ busReset' = FALSE
  /\ asserted' = DisableAsserts
  /\ epOut' = Freed
  /\ configured' = FALSE
  /\ IF configured THEN mCDCEnabled' = FALSE /\ dataRunning' = FALSE
                   ELSE UNCHANGED <<mCDCEnabled, dataRunning>>
  /\ UNCHANGED <<epBuf, rxBufNb, rxBufSel, rxPos, rxOngoing, dmaVars, mainVars,
                 uartVars, setup, hostVars>>

Usb == UsbOut \/ UsbSetupCoding \/ UsbSetupConfig \/ UsbBusReset
-----------------------------------------------------------------------------
(* The host.                                                               *)

HostReady == setup = "none" /\ ~busReset

HostFrame ==
  UNCHANGED <<cdcVars, mainVars, uartVars, asserted, configured, mCDCEnabled, clean>>

HostConfigure ==
  /\ HostReady /\ setup' = "config"
  /\ ~(configured /\ dataRunning)
  /\ HostFrame /\ UNCHANGED <<epVars, dmaVars, busReset, hNext, hLast, hUpsets, discarded>>

HostReconfigure ==
  /\ HostReady /\ setup' = "config"
  /\ configured /\ dataRunning
  /\ hUpsets < MaxUpsets /\ hUpsets' = hUpsets + 1
  /\ HostFrame /\ UNCHANGED <<epVars, dmaVars, busReset, hNext, hLast, discarded>>

HostBusReset ==
  /\ HostReady /\ configured /\ busReset' = TRUE
  /\ hUpsets < MaxUpsets /\ hUpsets' = hUpsets + 1
  /\ epOut' = BusReset(epOut)
  /\ discarded' = IF clean THEN discarded \union Bytes(Landed) ELSE {}
  /\ HostFrame /\ UNCHANGED <<epBuf, dmaVars, setup, hNext, hLast>>

HostCoding ==
  /\ HostReady /\ configured /\ setup' = "coding"
  /\ hUpsets < MaxUpsets /\ hUpsets' = hUpsets + 1
  /\ HostFrame /\ UNCHANGED <<epVars, dmaVars, busReset, hNext, hLast, discarded>>

HostSend(n) ==
  /\ HostReady /\ Transfers(epOut) /\ epOut' = Transferred(epOut)
  /\ hNext + n <= MaxBytes + 1
  /\ rxBuf' = [rxBuf EXCEPT ![epBuf] =
                 [i \in 1..RxLen |-> IF i <= n THEN hNext + i - 1 ELSE @[i]]]
  /\ pktLen' = n
  /\ hNext' = hNext + n /\ hLast' = IF n > 0 THEN hNext ELSE hLast
  /\ HostFrame /\ UNCHANGED <<epBuf, setup, busReset, hUpsets, discarded>>

Host == \/ HostConfigure \/ HostReconfigure \/ HostBusReset \/ HostCoding
        \/ \E n \in PacketLens : HostSend(n)

Next == Sercom \/ UartShifted \/ Main \/ Usb \/ Host

(* The handlers run when their interrupts are pending, the main loop polls *)
(* for ever, the UART shifts, and a host configures a device that is not.  *)
Fairness ==
  /\ WF_vars(Sercom) /\ WF_vars(UartShifted) /\ WF_vars(Main) /\ WF_vars(Usb)
  /\ WF_vars(HostConfigure)

Spec == Init /\ [][Next]_vars

LiveSpec == Spec /\ Fairness
-----------------------------------------------------------------------------
TypeOK ==
  /\ epOut \in Endpoint /\ epBuf \in {0, 1} /\ pktLen \in 0..RxLen
  /\ rxBuf \in [{0, 1} -> [1..RxLen -> 0..MaxBytes]]
  /\ rxBufNb \in [{0, 1} -> 0..RxLen] /\ rxBufSel \in {0, 1} /\ rxPos \in 0..(PosWrap - 1)
  /\ rxOngoing \in BOOLEAN /\ dataRunning \in BOOLEAN
  /\ configured \in BOOLEAN /\ mCDCEnabled \in BOOLEAN /\ busReset \in BOOLEAN
  /\ setup \in {"none", "config", "coding"}
  /\ pc \in {"top", "count", "select", "copy", "start", "mark", "arm", "space", "enqueue"}
  /\ take \in 0..RxLen
  /\ cur \in [sel : {0, 1}, pos : 0..(PosWrap - 1), size : 0..RxLen]
  /\ readBuf \in Seq(0..MaxBytes) /\ Len(readBuf) <= RxLen
  /\ queue \in Seq(0..MaxBytes) /\ Len(queue) <= QueueLen
  /\ mTxInProgress \in BOOLEAN
  /\ job \in Seq(0..MaxBytes) /\ inten \subseteq {"DRE", "TXC"}
  /\ line \in {"idle", "shifting", "complete"} /\ sercom \in {"idle", "send"}
  /\ sent \in Seq(0..MaxBytes)
  /\ asserted \subseteq {"transmit", "num_read", "disable"}
  /\ hNext \in 1..(MaxBytes + 1) /\ hLast \in 1..hNext
  /\ hUpsets \in 0..MaxUpsets
  /\ discarded \subseteq 1..MaxBytes /\ clean \in BOOLEAN

Increasing(s) == \A i, j \in DOMAIN s : i < j => s[i] < s[j]

(* Every byte the device took from the host is in exactly one place, in    *)
(* the order of the stream, from the receive buffers to the UART; only a   *)
(* configuration gives up what the main loop has not read yet.  It holds   *)
(* until a configuration falls between the two critical sections of        *)
(* udi_cdc_multi_read_no_block, or into udd_ep_run, or the UART is         *)
(* initialised with a job under way.                                       *)
Pipeline == sent \o job \o queue \o readBuf \o Unread

NothingLost ==
  clean => /\ Increasing(Pipeline)
           /\ Bytes(Pipeline) \union discarded = 1..(hNext - 1)
           /\ Bytes(Pipeline) \intersect discarded = {}

(* The DMA never writes into the buffer the main loop reads from.          *)
BuffersApart ==
  clean /\ epOut.enabled /\ (epOut.ready \/ epOut.trcpt) => epBuf # rxBufSel

(* usart_write_buffer_job is never refused.                                *)
JobAccepted == "transmit" \notin asserted

(* mTxInProgress is set exactly as long as an interrupt will clear it, so  *)
(* that the next enqueue starts a job or the callback of this one does,    *)
(* and never both.                                                         *)
TransmitTracked ==
  /\ clean => /\ mTxInProgress <=> inten # {}
              /\ job # <<>> <=> "DRE" \in inten
              /\ "TXC" \in inten => line # "idle"
              /\ queue # <<>> => mTxInProgress
  /\ JobAccepted

(* The interface takes the next packet, or the main loop will ask for it.  *)
Receiving ==
  dataRunning /\ ~busReset =>
    \/ epOut.ready \/ epOut.trcpt
    \/ ~rxOngoing /\ rxPos < rxBufNb[rxBufSel]
    \/ pc \in {"start", "mark", "arm"}

(* A byte that a later packet follows leaves the UART.                     *)
Forwarded ==
  \A n \in 1..MaxBytes :
    (n < hLast) ~> \/ n \in Bytes(sent) \/ ~clean
                   \/ \E m \in discarded : m >= n

(* "Read the data the host sent us, so we can send it (via UART tx)"       *)
(* (rjt_uart.c:358): every byte taken from the host leaves the UART.       *)
AllForwarded ==
  \A n \in 1..MaxBytes :
    (n < hNext) ~> \/ n \in Bytes(sent) \/ ~clean
                   \/ \E m \in discarded : m >= n
=============================================================================
