----------------------------- MODULE UartToCdc -----------------------------
(***************************************************************************)
(* The serial bridge from the UART to the host: the ring that a DMA        *)
(* channel fills with received bytes, the polling of process_cdc_tx in the *)
(* main loop (rjt_uart.c), and the two transmit buffers of the CDC         *)
(* interface with its bulk IN endpoint (udi_cdc.c).                        *)
(*                                                                         *)
(* Every action of the USB handler is one step and can fall between any    *)
(* two steps of the main loop, which is split between the critical         *)
(* sections of udi_cdc.c and, where it takes bytes out of the ring, at     *)
(* every access to what the DMA writes (pc).                               *)
(*                                                                         *)
(* The bytes on the line are numbered 1, 2, ...; 0 is any other byte.      *)
(***************************************************************************)
EXTENDS Integers, Sequences, FiniteSets, UddEndpoint

CONSTANTS
  RingLen,    \* size of mRxRingBuf: 1024
  TxLen,      \* UDI_CDC_TX_BUFFERS and the size of write_buf: 64
  ZlpCalls,   \* calls without data before an empty packet is sent: 100
  DataBits,   \* data bits the host selects, a subset of {8, 9}
  MaxBytes,   \* this many bytes are received on the line
  MaxUpsets   \* times the host sets the configuration anew, resets the bus or
              \* changes the line coding, or the configuration fails

ASSUME SizesAssumption ==
  {RingLen, TxLen, ZlpCalls} \subseteq Nat \ {0} /\ DataBits \subseteq {8, 9}

ASSUME LimitsAssumption == {MaxBytes, MaxUpsets} \subseteq Nat

VARIABLES
  ring, onLine,      \* mRxRingBuf, number of bytes the DMA wrote
  mRxRingBufIndex,
  writeBuf, bufPos,  \* write_buf; not empty: dirty
  num,               \* num2read of process_cdc_tx
  size,              \* the length udi_cdc_multi_write_buf_no_block works with
  pc,                \* the main loop
  txBuf,             \* what the two buffers hold
  tx,                \* udi_cdc_tx_*: sel, both, ongoing, short (a short packet
                     \* was sent in this frame), zlp (sof_zlp_counter)
  epIn, inBuf,       \* the endpoint and the buffer its job was armed with
  bits,              \* bDataBits of the line coding
  dataRunning, configured, mCDCEnabled, setup, busReset,
  overran,           \* as many bytes were unread as the ring is long
  lapped,            \* ... while the main loop was taking bytes out of it
  asserted,          \* which assertions failed: "num" (:270), "buf_pos" (:337)
  received,          \* the bytes the host took
  discarded,         \* bytes given up with a configuration
  hUpsets

ringVars == <<ring, onLine, mRxRingBufIndex, overran, lapped>>
mainVars == <<writeBuf, bufPos, num, size, pc, asserted>>
cdcVars  == <<txBuf, tx>>
epVars   == <<epIn, inBuf>>
ctrlVars == <<bits, dataRunning, configured, mCDCEnabled>>
hostVars == <<received, discarded, hUpsets>>
vars == <<ringVars, mainVars, cdcVars, epVars, ctrlVars, setup, busReset, hostVars>>

Other(b) == 1 - b
MinOf(a, b) == IF a < b THEN a ELSE b
Bytes(s) == {s[i] : i \in DOMAIN s}

Init ==
  /\ ring = [i \in 0..(RingLen - 1) |-> 0] /\ onLine = 0
  /\ mRxRingBufIndex = 0 /\ overran = FALSE /\ lapped = FALSE
  /\ writeBuf = <<>> /\ bufPos = 0 /\ num = 0 /\ size = 0 /\ pc = "top"
  /\ asserted = {}
  /\ txBuf = [b \in {0, 1} |-> <<>>]
  /\ tx = [sel |-> 0, both |-> FALSE, ongoing |-> FALSE, short |-> FALSE, zlp |-> 0]
  /\ epIn = Unused /\ inBuf = 0
  /\ bits = 8 /\ dataRunning = FALSE /\ configured = FALSE /\ mCDCEnabled = FALSE
  /\ setup = "none" /\ busReset = FALSE
  /\ received = <<>> /\ discarded = {} /\ hUpsets = 0
-----------------------------------------------------------------------------
(* The ring.                                                               *)

(* get_rx_ringbuf_pos and get_num_readable.                                *)
RingPos == onLine % RingLen
Readable == (RingPos - mRxRingBufIndex) % RingLen

(* The byte received next is the one that makes a full ring look empty.    *)
Fills == Readable = RingLen - 1

UartReceives ==
  /\ onLine < MaxBytes
  /\ ring' = [ring EXCEPT ![RingPos] = onLine + 1]
  /\ onLine' = onLine + 1
  /\ overran' = (overran \/ Fills)
  /\ lapped' = (lapped \/ (Fills /\ pc \in {"check", "take"}))
  /\ UNCHANGED <<mRxRingBufIndex, mainVars, cdcVars, epVars, ctrlVars, setup,
                 busReset, hostVars>>
-----------------------------------------------------------------------------
(* The main loop: process_cdc_tx and udi_cdc_multi_write_buf_no_block.     *)

(* Mutant of Switches: the transfer under way is not looked at.            *)
SwitchesAlways(t) == Len(txBuf[t.sel]) = TxLen /\ ~t.both

(* udi_cdc_multi_get_free_tx_buffer moves from a full buffer to the other  *)
(* one if that is not being sent ...                                       *)
Switches(t) == Len(txBuf[t.sel]) = TxLen /\ ~t.ongoing /\ ~t.both

Chosen(t) ==
  IF Switches(t) THEN [t EXCEPT !.both = TRUE, !.sel = Other(t.sel)] ELSE t

(* ... which it then takes for empty.                                      *)
FreeSpace(t) == IF Switches(t) THEN TxLen ELSE TxLen - Len(txBuf[t.sel])

MainTop ==
  /\ pc = "top" /\ mCDCEnabled
  /\ tx' = Chosen(tx)
  /\ pc' = IF FreeSpace(tx) # 0 THEN "load" ELSE "top"
  /\ UNCHANGED <<writeBuf, bufPos, num, size, asserted, txBuf, ringVars, epVars,
                 ctrlVars, setup, busReset, hostVars>>

(* What is readable is counted, unless write_buf still holds data ...      *)
MainLoad ==
  LET n == MinOf(TxLen, Readable) IN
  /\ pc = "load"
  /\ pc' = IF writeBuf # <<>> THEN "write" ELSE IF n > 0 THEN "check" ELSE "top"
  /\ num' = IF writeBuf = <<>> THEN n ELSE 0
  /\ UNCHANGED <<writeBuf, bufPos, size, asserted, ringVars, cdcVars, epVars,
                 ctrlVars, setup, busReset, hostVars>>

(* ... dequeue_from_read_queue counts anew for its assertion ...           *)
MainCheck ==
  /\ pc = "check" /\ pc' = "take"
  /\ asserted' = asserted \union (IF num <= Readable THEN {} ELSE {"num"})
  /\ UNCHANGED <<writeBuf, bufPos, num, size, ringVars, cdcVars, epVars, ctrlVars,
                 setup, busReset, hostVars>>

(* ... and takes byte after byte.                                          *)
MainTake ==
  /\ pc = "take"
  /\ writeBuf' = Append(writeBuf, ring[mRxRingBufIndex]) /\ bufPos' = 0
  /\ mRxRingBufIndex' = (mRxRingBufIndex + 1) % RingLen
  /\ IF Len(writeBuf) + 1 = num THEN pc' = "write" /\ num' = 0
                                ELSE UNCHANGED <<pc, num>>
  /\ UNCHANGED <<size, asserted, ring, onLine, overran, lapped, cdcVars, epVars,
                 ctrlVars, setup, busReset, hostVars>>

(* The length counts twice with nine data bits.                            *)
MainWrite ==
  /\ pc = "write"
  /\ IF dataRunning THEN tx' = Chosen(tx) /\ pc' = IF FreeSpace(tx) # 0 THEN "copy" ELSE "top"
                    ELSE tx' = tx /\ pc' = "top"
  /\ size' = IF pc' = "copy" THEN (Len(writeBuf) - bufPos) * (IF bits = 9 THEN 2 ELSE 1)
                             ELSE 0
  /\ UNCHANGED <<writeBuf, bufPos, num, asserted, txBuf, ringVars, epVars, ctrlVars,
                 setup, busReset, hostVars>>

(* n bytes behind the data of the current buffer; behind write_buf lies    *)
(* other memory.                                                           *)
Copied(n) ==
  LET byte(i) == IF i <= Len(writeBuf) THEN writeBuf[i] ELSE 0
  IN [txBuf EXCEPT ![tx.sel] = @ \o [k \in 1..n |-> byte(bufPos + k)]]

Consumed(n) ==
  /\ asserted' = asserted \union (IF bufPos + n <= Len(writeBuf) THEN {} ELSE {"buf_pos"})
  /\ IF bufPos + n = Len(writeBuf) THEN writeBuf' = <<>> /\ bufPos' = 0
                                   ELSE writeBuf' = writeBuf /\ bufPos' = bufPos + n

CopyFrame ==
  /\ pc = "copy" /\ pc' = "top" /\ size' = 0
  /\ UNCHANGED <<num, tx, ringVars, epVars, ctrlVars, setup, busReset, hostVars>>

(* Mutants of MainCopy: the data already there is not counted; the buffer  *)
(* counts as consumed whatever was copied.                                 *)
MainCopyOver ==
  LET n == MinOf(size, TxLen)
  IN CopyFrame /\ txBuf' = Copied(n) /\ Consumed(n)
MainCopyOnce ==
  LET n == MinOf(size, TxLen - Len(txBuf[tx.sel]))
  IN CopyFrame /\ txBuf' = Copied(n) /\ Consumed(Len(writeBuf) - bufPos)

(* What fits into the current buffer is copied.                            *)
MainCopy ==
  LET n == MinOf(size, TxLen - Len(txBuf[tx.sel]))
  IN CopyFrame /\ txBuf' = Copied(n) /\ Consumed(n)

Main == MainTop \/ MainLoad \/ MainCheck \/ MainTake \/ MainWrite \/ MainCopy
-----------------------------------------------------------------------------
(* The USB handler.                                                        *)

(* udi_cdc_tx_send waits while a packet is under way, for the next frame   *)
(* after a short packet, and, with no data, for ZlpCalls calls.            *)
Waits(t) == t.ongoing \/ t.short
Idles(t, bufs) == bufs[t.sel] = <<>> /\ t.zlp + 1 < ZlpCalls
Sends(t, bufs) == ~Waits(t) /\ ~Idles(t, bufs)

(* It sends the other buffer if both are to be sent.                       *)
Sending(t) == IF t.both THEN Other(t.sel) ELSE t.sel

TxAfter(t, bufs) ==
  IF Waits(t) THEN t
  ELSE IF Idles(t, bufs) THEN [t EXCEPT !.zlp = @ + 1]
  ELSE [t EXCEPT !.sel = IF t.both THEN t.sel ELSE Other(t.sel),
                 !.ongoing = TRUE, !.zlp = 0,
                 !.short = Len(bufs[Sending(t)]) # TxLen]

TxSend(t, bufs, e) ==
  /\ tx' = TxAfter(t, bufs)
  /\ epIn' = IF Sends(t, bufs) THEN Run(e) ELSE e
  /\ inBuf' = IF Sends(t, bufs) /\ RunSucceeds(e) THEN Sending(t) ELSE inBuf

(* Mutants of UsbIn: the data sent stays in its buffer; the transfer stays *)
(* marked as under way.                                                    *)
UsbInKeepsData ==
  /\ setup = "none" /\ epIn.trcpt
  /\ txBuf' = txBuf
  /\ TxSend([tx EXCEPT !.both = FALSE, !.ongoing = FALSE], txBuf, Completed(epIn))
  /\ UNCHANGED <<ringVars, mainVars, ctrlVars, setup, busReset, hostVars>>
UsbInStaysOngoing ==
  /\ setup = "none" /\ epIn.trcpt
  /\ txBuf' = [txBuf EXCEPT ![Other(tx.sel)] = <<>>]
  /\ tx' = [tx EXCEPT !.both = FALSE] /\ epIn' = Completed(epIn) /\ inBuf' = inBuf
  /\ UNCHANGED <<ringVars, mainVars, ctrlVars, setup, busReset, hostVars>>

(* udi_cdc_data_sent.                                                      *)
UsbIn ==
  LET sentBuf == Other(tx.sel)
      bufs == [txBuf EXCEPT ![sentBuf] = <<>>]
  IN
  /\ setup = "none" /\ epIn.trcpt
  /\ txBuf' = bufs
  /\ TxSend([tx EXCEPT !.both = FALSE, !.ongoing = FALSE], bufs, Completed(epIn))
  /\ UNCHANGED <<ringVars, mainVars, ctrlVars, setup, busReset, hostVars>>

(* Mutant of UsbSof: the short packet of the last frame is not forgotten.  *)
UsbSofStaysShort ==
  /\ setup = "none" /\ ~epIn.trcpt /\ ~busReset /\ configured
  /\ TxSend(tx, txBuf, epIn)
  /\ UNCHANGED <<txBuf, ringVars, mainVars, ctrlVars, setup, busReset, hostVars>>

(* udi_cdc_data_sof_notify, once in a frame.                               *)
UsbSof ==
  /\ setup = "none" /\ ~epIn.trcpt /\ ~busReset /\ configured
  /\ TxSend([tx EXCEPT !.short = FALSE], txBuf, epIn)
  /\ UNCHANGED <<txBuf, ringVars, mainVars, ctrlVars, setup, busReset, hostVars>>

(* user_callback_cdc_set_line_coding, with the data bits the host sent.    *)
UsbSetupCoding ==
  /\ setup = "coding" /\ setup' = "none"
  /\ \E n \in DataBits : bits' = n
  /\ UNCHANGED <<ringVars, mainVars, cdcVars, epVars, dataRunning, configured,
                 mCDCEnabled, busReset, hostVars>>

Freed == IF configured THEN Free(epIn, FALSE) ELSE epIn

(* SET_CONFIGURATION: udc_reset, the default line coding, and              *)
(* udi_cdc_data_enable, which empties both buffers; then the bulk OUT      *)
(* endpoint (CdcToUart) can refuse its job, and the interface stays down.  *)
UsbSetupConfig ==
  LET none == [b \in {0, 1} |-> <<>>] IN
  /\ setup = "config" /\ setup' = "none"
  /\ TxSend([sel |-> 0, both |-> FALSE, ongoing |-> FALSE, short |-> FALSE, zlp |-> tx.zlp],
            none, Alloc(Freed))
  /\ txBuf' = none
  /\ discarded' = discarded \union ((Bytes(txBuf[0]) \union Bytes(txBuf[1])) \ Bytes(received))
  /\ bits' = 8 /\ mCDCEnabled' = TRUE /\ configured' = TRUE
  /\ \/ dataRunning' = TRUE /\ hUpsets' = hUpsets
     \/ dataRunning' = FALSE /\ hUpsets < MaxUpsets /\ hUpsets' = hUpsets + 1
  /\ UNCHANGED <<ringVars, mainVars, busReset, received>>

(* _usb_on_bus_reset: udc_reset.                                           *)
UsbBusReset ==
  /\ setup = "none" /\ ~epIn.trcpt /\ busReset /\ busReset' = FALSE
  /\ epIn' = Freed /\ configured' = FALSE
  /\ IF configured THEN mCDCEnabled' = FALSE /\ dataRunning' = FALSE
                   ELSE UNCHANGED <<mCDCEnabled, dataRunning>>
  /\ UNCHANGED <<inBuf, bits, ringVars, mainVars, cdcVars, setup, hostVars>>

Usb == UsbIn \/ UsbSetupCoding \/ UsbSetupConfig \/ UsbBusReset
-----------------------------------------------------------------------------
(* The host.                                                               *)

HostReady == setup = "none" /\ ~busReset
HostFrame == UNCHANGED <<ringVars, mainVars, cdcVars, ctrlVars>>

HostConfigure ==
  /\ HostReady /\ ~(configured /\ dataRunning) /\ setup' = "config"
  /\ HostFrame /\ UNCHANGED <<epVars, busReset, hostVars>>

HostUpset ==
  /\ HostReady /\ configured
  /\ hUpsets < MaxUpsets /\ hUpsets' = hUpsets + 1
  /\ \/ setup' \in {"config", "coding"} /\ UNCHANGED <<busReset, epIn>>
     \/ busReset' = TRUE /\ epIn' = BusReset(epIn) /\ UNCHANGED setup
  /\ HostFrame /\ UNCHANGED <<inBuf, received, discarded>>

HostRead ==
  /\ HostReady /\ Transfers(epIn) /\ epIn' = Transferred(epIn)
  /\ received' = received \o txBuf[inBuf]
  /\ HostFrame /\ UNCHANGED <<inBuf, setup, busReset, discarded, hUpsets>>

Host == HostConfigure \/ HostUpset \/ HostRead

Next == UartReceives \/ Main \/ Usb \/ UsbSof \/ Host

(* The main loop polls for ever, the USB handler serves what is pending,   *)
(* frames follow one another, a host configures the device and reads.      *)
Fairness ==
  /\ WF_vars(Main) /\ WF_vars(Usb) /\ WF_vars(UsbSof)
  /\ WF_vars(HostConfigure) /\ WF_vars(HostRead)

Spec == Init /\ [][Next]_vars

LiveSpec == Spec /\ Fairness
-----------------------------------------------------------------------------
TypeOK ==
  /\ ring \in [0..(RingLen - 1) -> 0..MaxBytes] /\ onLine \in 0..MaxBytes
  /\ mRxRingBufIndex \in 0..(RingLen - 1) /\ overran \in BOOLEAN
  /\ lapped \in BOOLEAN
  /\ writeBuf \in Seq(0..MaxBytes) /\ Len(writeBuf) <= TxLen
  /\ bufPos \in Nat /\ num \in 0..TxLen /\ size \in Nat
  /\ pc \in {"top", "load", "check", "take", "write", "copy"}
  /\ asserted \subseteq {"num", "buf_pos"}
  /\ \A b \in {0, 1} : txBuf[b] \in Seq(0..MaxBytes) /\ Len(txBuf[b]) <= TxLen
  /\ tx \in [sel : {0, 1}, both : BOOLEAN, ongoing : BOOLEAN, short : BOOLEAN,
             zlp : 0..(ZlpCalls - 1)]
  /\ epIn \in Endpoint /\ inBuf \in {0, 1} /\ bits \in {8, 9}
  /\ dataRunning \in BOOLEAN /\ configured \in BOOLEAN /\ mCDCEnabled \in BOOLEAN
  /\ setup \in {"none", "config", "coding"} /\ busReset \in BOOLEAN
  /\ received \in Seq(0..MaxBytes) /\ discarded \subseteq 0..MaxBytes
  /\ hUpsets \in 0..MaxUpsets

Increasing(s) == \A i, j \in DOMAIN s : i < j => s[i] < s[j]

InRing == [k \in 1..Readable |-> ring[(mRxRingBufIndex + k - 1) % RingLen]]

(* The bytes on their way to the host, oldest first: the buffer being sent *)
(* or waiting to be sent, the one being filled, write_buf, the ring.       *)
OnTheWay ==
  (IF epIn.trcpt THEN <<>> ELSE txBuf[Other(tx.sel)]) \o txBuf[tx.sel]
    \o SubSeq(writeBuf, bufPos + 1, Len(writeBuf)) \o InRing

(* The host takes the bytes in the order of the line, none twice, through  *)
(* every switch of buffers, configuration and overrun of the ring, and the *)
(* assertions of process_cdc_tx hold: until the ring fills up between the  *)
(* count of what is readable and the last byte taken.                      *)
InOrder == ~lapped => Increasing(received) /\ asserted = {}

(* While the interface is up and the ring has not overrun, every byte of   *)
(* the line is with the host or on its way, in order; only a configuration *)
(* gives up what the buffers of the interface hold.                        *)
NothingLost ==
  dataRunning /\ ~busReset /\ ~overran =>
    /\ Increasing(received \o OnTheWay)
    /\ Bytes(received \o OnTheWay) \union discarded = 1..onLine

(* The USB peripheral never reads from the buffer the main loop fills.     *)
BuffersApart == epIn.ready \/ epIn.trcpt => inBuf # tx.sel

(* udi_cdc_tx_trans_ongoing is set exactly while the endpoint has a job.   *)
OngoingTracked == dataRunning /\ ~busReset => (tx.ongoing <=> epIn.busy)

(* A byte of the line reaches the host, even if it is the last one and     *)
(* fills its buffer, which no later byte then pushes out.                  *)
Delivered ==
  \A n \in 1..MaxBytes :
    (onLine = n) ~> (n \in Bytes(received) \union discarded \/ overran)
=============================================================================
