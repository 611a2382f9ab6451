-------------------------- MODULE UartToCdc_proofs --------------------------
(***************************************************************************)
(* Theorems about UartToCdc for any ring, any buffers and any number of    *)
(* bytes and upsets: the peripheral and the main loop never share a        *)
(* buffer, and the bytes of the line stay in order and accounted for.      *)
(***************************************************************************)
EXTENDS UartToCdc, SequenceTheorems, TLAPS

(* What the operations of an endpoint do to its four bits.                 *)
LEMMA RunBits ==
  ASSUME NEW e \in Endpoint
  PROVE  /\ Run(e) \in Endpoint /\ Run(e).busy /\ Run(e).enabled = e.enabled
         /\ Run(e).trcpt = e.trcpt
         /\ ~e.busy => Run(e).ready = (e.ready \/ e.enabled)
         /\ e.busy => Run(e).ready = e.ready
  BY DEF Run, Endpoint

LEMMA AbortedBits ==
  ASSUME NEW e \in Endpoint
  PROVE  /\ Aborted(e) \in Endpoint /\ ~Aborted(e).busy /\ ~Aborted(e).ready
         /\ ~Aborted(e).trcpt /\ Aborted(e).enabled = e.enabled
  BY DEF Aborted, Endpoint

LEMMA AbortBits ==
  ASSUME NEW e \in Endpoint, NEW inUse \in BOOLEAN
  PROVE  /\ Abort(e, inUse) \in Endpoint /\ Abort(e, inUse).enabled = e.enabled
         /\ Abort(e, inUse).busy <=> (e.busy /\ inUse)
         /\ Abort(e, inUse).ready <=> (e.busy /\ inUse /\ e.enabled)
         /\ ~Abort(e, inUse).trcpt
<1>1. CASE e.busy /\ inUse
  BY <1>1, AbortedBits, RunBits DEF Abort, Reruns
<1>2. CASE ~(e.busy /\ inUse)
  BY <1>2, AbortedBits DEF Abort, Reruns
<1> QED
  BY <1>1, <1>2

LEMMA FreeBits ==
  ASSUME NEW e \in Endpoint, NEW inUse \in BOOLEAN
  PROVE  /\ Free(e, inUse) \in Endpoint /\ ~Free(e, inUse).enabled
         /\ Free(e, inUse).busy <=> (e.busy /\ inUse)
         /\ Free(e, inUse).ready => inUse
         /\ ~Free(e, inUse).trcpt
<1>1. ASSUME NEW a \in Endpoint
      PROVE  /\ [a EXCEPT !.enabled = FALSE] \in Endpoint
             /\ ~[a EXCEPT !.enabled = FALSE].enabled
             /\ [a EXCEPT !.enabled = FALSE].busy = a.busy
             /\ [a EXCEPT !.enabled = FALSE].ready = a.ready
             /\ [a EXCEPT !.enabled = FALSE].trcpt = a.trcpt
  BY DEF Endpoint
<1> QED
  BY <1>1, AbortBits DEF Free

LEMMA OtherBits ==
  ASSUME NEW e \in Endpoint
  PROVE  /\ Alloc(e) \in Endpoint /\ Alloc(e).enabled /\ ~Alloc(e).ready
         /\ Alloc(e).busy = e.busy /\ Alloc(e).trcpt = e.trcpt
         /\ Completed(e) \in Endpoint /\ ~Completed(e).busy /\ ~Completed(e).trcpt
         /\ Completed(e).enabled = e.enabled /\ Completed(e).ready = e.ready
         /\ Transferred(e) \in Endpoint /\ Transferred(e).trcpt /\ ~Transferred(e).ready
         /\ Transferred(e).busy = e.busy /\ Transferred(e).enabled = e.enabled
         /\ BusReset(e) \in Endpoint /\ ~BusReset(e).enabled /\ ~BusReset(e).trcpt
         /\ BusReset(e).busy = e.busy /\ BusReset(e).ready = e.ready
  BY DEF Alloc, Completed, Transferred, BusReset, Endpoint

Transmit ==
  [sel : {0, 1}, both : BOOLEAN, ongoing : BOOLEAN, short : BOOLEAN,
   zlp : 0..(ZlpCalls - 1)]

(* The hand-over of the buffers.  A bank that is handed to the host, or    *)
(* was taken by it, means that a transfer is marked and registered and     *)
(* that its buffer is not the one being filled; while the endpoint is      *)
(* enabled mark and job go together; and the buffer that is not being      *)
(* filled is empty unless it is being or still to be sent.                 *)
Flags ==
  /\ epIn \in Endpoint /\ inBuf \in {0, 1}
  /\ tx \in Transmit
  /\ setup \in {"none", "config", "coding"}
  /\ dataRunning \in BOOLEAN /\ configured \in BOOLEAN /\ busReset \in BOOLEAN
  /\ DOMAIN txBuf = {0, 1} /\ txBuf = [b \in {0, 1} |-> txBuf[b]]

HandedOver ==
  /\ epIn.ready \/ epIn.trcpt => tx.ongoing /\ epIn.busy /\ inBuf # tx.sel
  /\ epIn.trcpt => epIn.enabled /\ ~epIn.ready
  /\ epIn.enabled => (tx.ongoing <=> epIn.busy)
  /\ ~tx.both /\ ~tx.ongoing => txBuf[Other(tx.sel)] = <<>>

Attached ==
  /\ dataRunning => configured
  /\ configured => epIn.enabled \/ busReset
  /\ ~configured => ~epIn.busy
  /\ busReset => setup = "none" /\ ~epIn.enabled

HInv == Flags /\ HandedOver /\ Attached

LEMMA OtherIndex ==
  ASSUME NEW b \in {0, 1}
  PROVE  Other(b) \in {0, 1} /\ Other(b) # b
  BY DEF Other

LEMMA InitHInv == Init => HInv
<1> SUFFICES ASSUME Init PROVE HInv
  OBVIOUS
<1>1. Unused \in Endpoint /\ ~Unused.ready /\ ~Unused.trcpt /\ ~Unused.busy /\ ~Unused.enabled
  BY DEF Unused, Endpoint
<1>2. Flags
  <2>1. 0 \in 0..(ZlpCalls - 1)
    BY SizesAssumption
  <2>2. tx \in Transmit
    BY <2>1 DEF Init, Transmit
  <2> QED
    BY <1>1, <2>2 DEF Init, Flags
<1>3. HandedOver
  BY <1>1 DEF Init, HandedOver, Other
<1>4. Attached
  BY <1>1 DEF Init, Attached
<1> QED
  BY <1>2, <1>3, <1>4 DEF HInv

LEMMA HandOverFrame ==
  ASSUME HInv, UNCHANGED <<txBuf, tx, epIn, inBuf, dataRunning, configured, setup, busReset>>
  PROVE  HInv'
<1>1. Flags'
  BY DEF HInv, Flags
<1>2. HandedOver'
  BY DEF HInv, HandedOver
<1>3. Attached'
  BY Zenon DEF HInv, Attached
<1> QED
  BY <1>1, <1>2, <1>3 DEF HInv

(* The choice of a buffer keeps away from the one being sent.              *)
LEMMA ChosenApart ==
  ASSUME HInv, tx' = Chosen(tx) \/ tx' = tx,
         UNCHANGED <<txBuf, epIn, inBuf, dataRunning, configured, setup, busReset>>
  PROVE  HInv'
<1>1. CASE tx' = tx
  BY <1>1, HandOverFrame
<1>2. CASE tx' = Chosen(tx) /\ ~Switches(tx)
  BY <1>2, HandOverFrame DEF Chosen
<1>3. CASE tx' = Chosen(tx) /\ Switches(tx)
  <2>0. tx \in Transmit /\ Other(tx.sel) \in {0, 1}
    BY OtherIndex DEF HInv, Flags, Transmit
  <2>1. ~tx.ongoing /\ ~tx.both
    BY <1>3 DEF Switches
  <2>2. /\ tx' \in Transmit /\ tx'.both /\ tx'.sel = Other(tx.sel) /\ ~tx'.ongoing
    BY <1>3, <2>0, <2>1 DEF Chosen, Transmit
  <2>3. ~epIn.ready /\ ~epIn.trcpt
    BY <2>1 DEF HInv, HandedOver
  <2>4. Flags'
    BY <2>2 DEF HInv, Flags
  <2>5. HandedOver'
    BY <2>1, <2>2, <2>3 DEF HInv, HandedOver
  <2>6. Attached'
    BY DEF HInv, Attached
  <2> QED
    BY <2>4, <2>5, <2>6 DEF HInv
<1> QED
  BY <1>1, <1>2, <1>3

(* udi_cdc_tx_send on an enabled endpoint whose transfer is marked exactly *)
(* while a job is registered: the buffer it hands over is the one the main *)
(* loop leaves.                                                            *)
LEMMA SendApart ==
  ASSUME NEW t \in Transmit, NEW bufs, NEW e \in Endpoint, inBuf \in {0, 1},
         e.enabled, ~e.trcpt, e.busy <=> t.ongoing,
         e.ready => t.ongoing /\ inBuf # t.sel,
         ~t.both /\ ~t.ongoing => bufs[Other(t.sel)] = <<>>,
         TxSend(t, bufs, e)
  PROVE  /\ tx' \in Transmit /\ epIn' \in Endpoint /\ inBuf' \in {0, 1}
         /\ epIn'.enabled /\ ~epIn'.trcpt /\ (epIn'.busy <=> tx'.ongoing)
         /\ epIn'.ready => tx'.ongoing /\ inBuf' # tx'.sel
         /\ ~tx'.both /\ ~tx'.ongoing => bufs[Other(tx'.sel)] = <<>>
<1>1. CASE Waits(t)
  <2>1. tx' = t /\ epIn' = e /\ inBuf' = inBuf
    BY <1>1 DEF TxSend, TxAfter, Sends
  <2> QED
    BY <2>1
<1>2. CASE ~Waits(t) /\ Idles(t, bufs)
  <2>1. tx' = [t EXCEPT !.zlp = @ + 1] /\ epIn' = e /\ inBuf' = inBuf
    BY <1>2 DEF TxSend, TxAfter, Sends
  <2>2. t.zlp + 1 \in 0..(ZlpCalls - 1)
    BY <1>2, SizesAssumption DEF Idles, Transmit
  <2>3. tx' \in Transmit /\ tx'.sel = t.sel /\ tx'.both = t.both /\ tx'.ongoing = t.ongoing
    BY <2>1, <2>2 DEF Transmit
  <2> QED
    BY <2>1, <2>3
<1>3. CASE ~Waits(t) /\ ~Idles(t, bufs)
  <2>1. Sends(t, bufs) /\ ~t.ongoing /\ ~e.busy /\ ~e.ready
    BY <1>3 DEF Sends, Waits
  <2>2. RunSucceeds(e)
    BY <2>1 DEF RunSucceeds
  <2>3. epIn' = Run(e) /\ inBuf' = Sending(t)
    BY <2>1, <2>2 DEF TxSend
  <2>4. tx' = [t EXCEPT !.sel = IF t.both THEN t.sel ELSE Other(t.sel),
                        !.ongoing = TRUE, !.zlp = 0,
                        !.short = Len(bufs[Sending(t)]) # TxLen]
    BY <1>3 DEF TxSend, TxAfter
  <2>5. 0 \in 0..(ZlpCalls - 1)
    BY SizesAssumption
  <2>6. (Len(bufs[Sending(t)]) # TxLen) \in BOOLEAN
    OBVIOUS
  <2>7. /\ tx' \in Transmit /\ tx'.ongoing
        /\ tx'.sel = IF t.both THEN t.sel ELSE Other(t.sel)
    BY <2>4, <2>5, <2>6, OtherIndex DEF Transmit
  <2>8. inBuf' \in {0, 1} /\ inBuf' # tx'.sel
    BY <2>3, <2>7 DEF Sending, Other, Transmit
  <2> QED
    BY <2>1, <2>3, <2>7, <2>8, RunBits
<1> QED
  BY <1>1, <1>2, <1>3

(* What SET_CONFIGURATION and a reset leave of the endpoint.               *)
LEMMA FreedBits ==
  ASSUME HInv
  PROVE  /\ Freed \in Endpoint /\ ~Freed.busy /\ ~Freed.ready /\ ~Freed.trcpt
         /\ configured \/ busReset => ~Freed.enabled
<1>1. epIn \in Endpoint /\ FALSE \in BOOLEAN
  BY DEF HInv, Flags
<1>2. CASE configured
  BY <1>1, <1>2, FreeBits DEF Freed
<1>3. CASE ~configured
  BY <1>1, <1>3 DEF Freed, HInv, HandedOver, Attached
<1> QED
  BY <1>2, <1>3

LEMMA HInvStep == HInv /\ [Next]_vars => HInv'
<1> SUFFICES ASSUME HInv, [Next]_vars PROVE HInv'
  OBVIOUS
<1> USE DEF ringVars, mainVars, cdcVars, epVars, ctrlVars, hostVars
<1>1. ASSUME UartReceives \/ MainLoad \/ MainCheck \/ MainTake \/ UNCHANGED vars
      PROVE  HInv'
  BY <1>1, HandOverFrame DEF UartReceives, MainLoad, MainCheck, MainTake, vars
<1>2. ASSUME MainTop \/ MainWrite
      PROVE  HInv'
  BY <1>2, ChosenApart DEF MainTop, MainWrite
<1>3. ASSUME MainCopy
      PROVE  HInv'
  <2>1. UNCHANGED <<tx, epIn, inBuf, dataRunning, configured, setup, busReset>>
    BY <1>3 DEF MainCopy, CopyFrame
  <2>2. PICK s : txBuf' = [txBuf EXCEPT ![tx.sel] = s]
    BY <1>3 DEF MainCopy, Copied
  <2>3. tx.sel \in {0, 1} /\ txBuf = [b \in {0, 1} |-> txBuf[b]]
    BY DEF HInv, Flags, Transmit
  <2>4. Other(tx.sel) \in {0, 1} /\ Other(tx.sel) # tx.sel
    BY <2>3, OtherIndex
  <2>5. /\ DOMAIN txBuf' = {0, 1} /\ txBuf' = [b \in {0, 1} |-> txBuf'[b]]
        /\ txBuf'[Other(tx.sel)] = txBuf[Other(tx.sel)]
    BY <2>2, <2>3, <2>4
  <2> QED
    BY <2>1, <2>5 DEF HInv, Flags, HandedOver, Attached
<1>4. ASSUME UsbIn
      PROVE  HInv'
  <2> DEFINE t == [tx EXCEPT !.both = FALSE, !.ongoing = FALSE]
  <2> DEFINE bufs == [txBuf EXCEPT ![Other(tx.sel)] = <<>>]
  <2>1. /\ epIn.trcpt /\ setup = "none" /\ txBuf' = bufs /\ TxSend(t, bufs, Completed(epIn))
        /\ UNCHANGED <<dataRunning, configured, setup, busReset>>
    BY <1>4 DEF UsbIn
  <2>2. tx \in Transmit /\ epIn \in Endpoint /\ inBuf \in {0, 1}
    BY DEF HInv, Flags
  <2>3. t \in Transmit /\ t.sel = tx.sel /\ ~t.ongoing /\ Other(tx.sel) \in {0, 1}
    BY <2>2, OtherIndex DEF Transmit
  <2>4. DOMAIN bufs = {0, 1} /\ bufs = [b \in {0, 1} |-> bufs[b]] /\ bufs[Other(tx.sel)] = <<>>
    BY <2>3 DEF HInv, Flags
  <2>5. epIn.enabled /\ ~epIn.ready /\ configured
    BY <2>1 DEF HInv, HandedOver, Attached
  <2>6. /\ Completed(epIn) \in Endpoint /\ Completed(epIn).enabled /\ ~Completed(epIn).trcpt
        /\ ~Completed(epIn).busy /\ ~Completed(epIn).ready
    BY <2>2, <2>5, OtherBits
  <2> HIDE DEF t, bufs
  <2>7. /\ tx' \in Transmit /\ epIn' \in Endpoint /\ inBuf' \in {0, 1}
        /\ epIn'.enabled /\ ~epIn'.trcpt /\ (epIn'.busy <=> tx'.ongoing)
        /\ epIn'.ready => tx'.ongoing /\ inBuf' # tx'.sel
        /\ ~tx'.both /\ ~tx'.ongoing => bufs[Other(tx'.sel)] = <<>>
    BY <2>1, <2>2, <2>3, <2>4, <2>6, SendApart
  <2>8. Flags'
    BY <2>1, <2>4, <2>7 DEF HInv, Flags
  <2>9. HandedOver'
    BY <2>1, <2>7 DEF HandedOver
  <2>10. Attached'
    BY <2>1, <2>5, <2>7 DEF HInv, Attached
  <2> QED
    BY <2>8, <2>9, <2>10 DEF HInv
<1>5. ASSUME UsbSof
      PROVE  HInv'
  <2> DEFINE t == [tx EXCEPT !.short = FALSE]
  <2>1. /\ ~epIn.trcpt /\ ~busReset /\ configured /\ txBuf' = txBuf /\ TxSend(t, txBuf, epIn)
        /\ UNCHANGED <<dataRunning, configured, setup, busReset>>
    BY <1>5 DEF UsbSof
  <2>2. tx \in Transmit /\ epIn \in Endpoint /\ inBuf \in {0, 1}
    BY DEF HInv, Flags
  <2>3. t \in Transmit /\ t.sel = tx.sel /\ t.ongoing = tx.ongoing /\ t.both = tx.both
    BY <2>2 DEF Transmit
  <2>4. epIn.enabled
    BY <2>1 DEF HInv, Attached
  <2>5. /\ epIn.busy <=> t.ongoing
        /\ epIn.ready => t.ongoing /\ inBuf # t.sel
        /\ ~t.both /\ ~t.ongoing => txBuf[Other(t.sel)] = <<>>
    BY <2>3, <2>4 DEF HInv, HandedOver
  <2> HIDE DEF t
  <2>7. /\ tx' \in Transmit /\ epIn' \in Endpoint /\ inBuf' \in {0, 1}
        /\ epIn'.enabled /\ ~epIn'.trcpt /\ (epIn'.busy <=> tx'.ongoing)
        /\ epIn'.ready => tx'.ongoing /\ inBuf' # tx'.sel
        /\ ~tx'.both /\ ~tx'.ongoing => txBuf[Other(tx'.sel)] = <<>>
    BY <2>1, <2>2, <2>3, <2>4, <2>5, SendApart
  <2>8. Flags'
    BY <2>1, <2>7 DEF HInv, Flags
  <2>9. HandedOver'
    BY <2>1, <2>7 DEF HandedOver
  <2>10. Attached'
    BY <2>1, <2>7 DEF HInv, Attached
  <2> QED
    BY <2>8, <2>9, <2>10 DEF HInv
<1>6. ASSUME UsbSetupCoding
      PROVE  HInv'
  BY <1>6 DEF UsbSetupCoding, HInv, Flags, HandedOver, Attached
<1>7. ASSUME UsbSetupConfig
      PROVE  HInv'
  <2> DEFINE none == [b \in {0, 1} |-> <<>>]
  <2> DEFINE t == [sel |-> 0, both |-> FALSE, ongoing |-> FALSE, short |-> FALSE, zlp |-> tx.zlp]
  <2>1. /\ setup = "config" /\ setup' = "none" /\ txBuf' = none
        /\ TxSend(t, none, Alloc(Freed)) /\ configured' = TRUE /\ UNCHANGED busReset
    BY <1>7 DEF UsbSetupConfig
  <2>2. dataRunning' \in BOOLEAN
    BY <1>7 DEF UsbSetupConfig
  <2>3. t \in Transmit /\ ~t.ongoing /\ inBuf \in {0, 1}
    BY DEF HInv, Flags, Transmit
  <2>4. DOMAIN none = {0, 1} /\ none = [b \in {0, 1} |-> none[b]] /\ none[Other(t.sel)] = <<>>
    BY DEF Other
  <2>5. /\ Alloc(Freed) \in Endpoint /\ Alloc(Freed).enabled /\ ~Alloc(Freed).trcpt
        /\ ~Alloc(Freed).busy /\ ~Alloc(Freed).ready
    BY FreedBits, OtherBits
  <2> HIDE DEF t, none
  <2>7. /\ tx' \in Transmit /\ epIn' \in Endpoint /\ inBuf' \in {0, 1}
        /\ epIn'.enabled /\ ~epIn'.trcpt /\ (epIn'.busy <=> tx'.ongoing)
        /\ epIn'.ready => tx'.ongoing /\ inBuf' # tx'.sel
        /\ ~tx'.both /\ ~tx'.ongoing => none[Other(tx'.sel)] = <<>>
    BY <2>1, <2>3, <2>4, <2>5, SendApart
  <2>8. Flags'
    BY <2>1, <2>2, <2>4, <2>7 DEF HInv, Flags
  <2>9. HandedOver'
    BY <2>1, <2>7 DEF HandedOver
  <2>10. Attached'
    BY <2>1, <2>7 DEF HInv, Attached
  <2> QED
    BY <2>8, <2>9, <2>10 DEF HInv
<1>8. ASSUME UsbBusReset
      PROVE  HInv'
  <2>1. /\ busReset /\ busReset' = FALSE /\ epIn' = Freed /\ configured' = FALSE
        /\ UNCHANGED <<inBuf, txBuf, tx, setup>>
    BY <1>8 DEF UsbBusReset
  <2>2. dataRunning' = FALSE
    BY <1>8 DEF UsbBusReset, HInv, Flags, Attached
  <2>3. Flags'
    BY <2>1, <2>2, FreedBits DEF HInv, Flags
  <2>4. HandedOver'
    BY <2>1, FreedBits DEF HInv, HandedOver
  <2>5. Attached'
    BY <2>1, <2>2, FreedBits DEF HInv, Attached
  <2> QED
    BY <2>3, <2>4, <2>5 DEF HInv
<1>9. ASSUME HostConfigure
      PROVE  HInv'
  BY <1>9 DEF HostConfigure, HostReady, HostFrame, HInv, Flags, HandedOver, Attached
<1>10. ASSUME HostUpset
       PROVE  HInv'
  <2>1. /\ setup = "none" /\ ~busReset /\ UNCHANGED <<txBuf, tx, inBuf, dataRunning, configured>>
    BY <1>10 DEF HostUpset, HostReady, HostFrame
  <2>2. CASE setup' \in {"config", "coding"} /\ UNCHANGED <<busReset, epIn>>
    BY <2>1, <2>2 DEF HInv, Flags, HandedOver, Attached
  <2>3. CASE busReset' = TRUE /\ epIn' = BusReset(epIn) /\ UNCHANGED setup
    <3>1. /\ BusReset(epIn) \in Endpoint /\ ~BusReset(epIn).enabled /\ ~BusReset(epIn).trcpt
          /\ BusReset(epIn).busy = epIn.busy /\ BusReset(epIn).ready = epIn.ready
      BY OtherBits DEF HInv, Flags
    <3>2. Flags'
      BY <2>1, <2>3, <3>1 DEF HInv, Flags
    <3>3. HandedOver'
      BY <2>1, <2>3, <3>1 DEF HInv, HandedOver
    <3>4. Attached'
      BY <2>1, <2>3, <3>1 DEF HInv, Attached
    <3> QED
      BY <3>2, <3>3, <3>4 DEF HInv
  <2> QED
    BY <1>10, <2>2, <2>3 DEF HostUpset
<1>11. ASSUME HostRead
       PROVE  HInv'
  <2>1. /\ epIn.enabled /\ epIn.ready /\ epIn' = Transferred(epIn)
        /\ UNCHANGED <<txBuf, tx, inBuf, dataRunning, configured, setup, busReset>>
    BY <1>11 DEF HostRead, HostFrame, Transfers
  <2>2. /\ epIn' \in Endpoint /\ epIn'.trcpt /\ ~epIn'.ready /\ epIn'.busy = epIn.busy
        /\ epIn'.enabled
    BY <2>1, OtherBits DEF HInv, Flags
  <2>3. Flags'
    BY <2>1, <2>2 DEF HInv, Flags
  <2>4. HandedOver'
    BY <2>1, <2>2 DEF HInv, HandedOver
  <2>5. Attached'
    BY <2>1, <2>2 DEF HInv, Attached
  <2> QED
    BY <2>3, <2>4, <2>5 DEF HInv
<1> QED
  BY <1>1, <1>2, <1>3, <1>4, <1>5, <1>6, <1>7, <1>8, <1>9, <1>10, <1>11
  DEF Next, Main, Usb, Host

LEMMA HandOver == Spec => []HInv
<1> QED
  BY InitHInv, HInvStep, PTL DEF Spec

(* The USB peripheral never reads from the buffer that the main loop       *)
(* fills, whatever falls between its steps: for any line coding, too.      *)
THEOREM PeripheralAndMainApart == Spec => []BuffersApart
<1>1. HInv => BuffersApart
  BY DEF HInv, HandedOver, BuffersApart
<1> QED
  BY <1>1, HandOver, PTL

(* While the interface is up, a transfer is marked as ongoing exactly      *)
(* while the endpoint has a job: the mark never holds up the sending for   *)
(* good and a job is never run twice.                                      *)
THEOREM OngoingIsAJob == Spec => []OngoingTracked
<1>1. HInv => OngoingTracked
  BY DEF HInv, HandedOver, Attached, OngoingTracked
<1> QED
  BY <1>1, HandOver, PTL
-----------------------------------------------------------------------------
(* The main loop within write_buf, while it has eight data bits.           *)
Within ==
  /\ bits = 8 /\ bufPos <= Len(writeBuf)
  /\ writeBuf = <<>> => bufPos = 0
  /\ pc = "copy" => size = Len(writeBuf) - bufPos

(* What was counted is still to be taken, and, unless the ring filled up   *)
(* meanwhile, still there.                                                 *)
Taking ==
  /\ pc = "check" => writeBuf = <<>>
  /\ pc \in {"check", "take"} =>
       /\ bufPos = 0 /\ Len(writeBuf) < num
       /\ ~lapped => num - Len(writeBuf) <= Readable

(* Of the bytes of the line, how many left the ring.                       *)
Base == onLine - Readable

(* The unread bytes of the ring are the last ones of the line.             *)
RingHolds == Readable <= onLine /\ \A k \in 1..Readable : InRing[k] = Base + k

Rest == SubSeq(writeBuf, bufPos + 1, Len(writeBuf))

Buffered(bufs, sel, taken) == (IF taken THEN <<>> ELSE bufs[Other(sel)]) \o bufs[sel]

(* What left the ring, oldest first: with the host, in the buffers of the  *)
(* interface, in write_buf; and what stays of it when these are emptied.   *)
Queue == received \o (Buffered(txBuf, tx.sel, epIn.trcpt) \o Rest)
Kept  == received \o Rest

Ordered(s, n) == Increasing(s) /\ \A v \in Bytes(s) : v <= n

Below(s, t) == \A v \in Bytes(s), w \in Bytes(t) : v < w

InLine == Ordered(Kept, Base) /\ (epIn.enabled => Ordered(Queue, Base))

Gone ==
  Bytes(received) \union Bytes(txBuf[0]) \union Bytes(txBuf[1]) \union Bytes(Rest)
    \union discarded

Accounted ==
  /\ ~overran => Gone = 1..Base
  /\ epIn.trcpt => Bytes(txBuf[Other(tx.sel)]) \subseteq Bytes(received)

(* The part of TypeOK that is not in Flags or Within.                      *)
Data ==
  /\ ring \in [0..(RingLen - 1) -> 0..MaxBytes] /\ onLine \in 0..MaxBytes
  /\ mRxRingBufIndex \in 0..(RingLen - 1)
  /\ writeBuf \in Seq(0..MaxBytes) /\ Len(writeBuf) <= TxLen
  /\ bufPos \in Nat /\ num \in 0..TxLen /\ size \in Nat
  /\ pc \in {"top", "load", "check", "take", "write", "copy"}
  /\ \A b \in {0, 1} : txBuf[b] \in Seq(0..MaxBytes) /\ Len(txBuf[b]) <= TxLen
  /\ received \in Seq(0..MaxBytes) /\ discarded \subseteq 0..MaxBytes
  /\ hUpsets \in 0..MaxUpsets
  /\ overran \in BOOLEAN /\ lapped \in BOOLEAN /\ (lapped => overran)
  /\ asserted \subseteq {"num", "buf_pos"} /\ mCDCEnabled \in BOOLEAN

(* What holds until the ring fills up while bytes are taken out of it.     *)
Apart == ~lapped => RingHolds /\ InLine /\ asserted = {}

DInv == HInv /\ Data /\ Within /\ Taking /\ Accounted /\ Apart
-----------------------------------------------------------------------------
(* Arithmetic of the ring.                                                 *)

LEMMA ModNext ==
  ASSUME NEW n \in Nat, NEW r \in Nat \ {0}
  PROVE  (n + 1) % r = IF (n % r) + 1 = r THEN 0 ELSE (n % r) + 1
<1>1. n + 1 \in Nat
  OBVIOUS
<1>2. n % r = n - r * (n \div r) /\ n % r \in 0..(r - 1) /\ n \div r \in Int
  OBVIOUS
<1>3. (n + 1) % r = (n + 1) - r * ((n + 1) \div r)
  BY <1>1
<1>4. (n + 1) % r \in 0..(r - 1) /\ (n + 1) \div r \in Int
  BY <1>1
<1>5. PICK q \in Int, u \in 0..(r - 1) : q = n \div r /\ u = n % r
  BY <1>2
<1>6. PICK q1 \in Int, w \in 0..(r - 1) : q1 = (n + 1) \div r /\ w = (n + 1) % r
  BY <1>4
<1>7. u = n - r * q /\ w = n + 1 - r * q1
  BY <1>2, <1>3, <1>5, <1>6
<1>8. r * (q1 - q) = r * q1 - r * q /\ r * q \in Int /\ r * q1 \in Int
  OBVIOUS
<1>9. r * (q1 - q) = u + 1 - w
  BY <1>7, <1>8
<1>10. q1 - q \in {0, 1}
  <2>1. PICK d \in Int : d = q1 - q
    OBVIOUS
  <2>2. r * d > -r /\ r * d <= r
    BY <1>9, <2>1
  <2>3. ASSUME d >= 2 PROVE FALSE
    <3>1. d - 2 \in Nat /\ r * d = r * (d - 2) + r + r /\ r * (d - 2) \in Nat
      BY <2>1, <2>3
    <3> QED
      BY <2>2, <3>1
  <2>4. ASSUME d <= -1 PROVE FALSE
    <3>1. -1 - d \in Nat /\ r * d = -(r * (-1 - d)) - r /\ r * (-1 - d) \in Nat
      BY <2>1, <2>4
    <3> QED
      BY <2>2, <3>1
  <2> QED
    BY <2>1, <2>3, <2>4
<1>11. r * (q1 - q) = 0 \/ r * (q1 - q) = r
  BY <1>10
<1>12. w = IF u + 1 = r THEN 0 ELSE u + 1
  BY <1>9, <1>11
<1> QED
  BY <1>5, <1>6, <1>12, Zenon

LEMMA ModSum ==
  ASSUME NEW r \in Nat \ {0}, NEW a \in 0..(r - 1), NEW b \in 0..r
  PROVE  (a + b) % r = IF a + b < r THEN a + b ELSE a + b - r
OBVIOUS

LEMMA ModStep ==
  ASSUME NEW r \in Nat \ {0}, NEW a \in 0..(r - 1)
  PROVE  (a + 1) % r = IF a + 1 = r THEN 0 ELSE a + 1
OBVIOUS

LEMMA ModDifference ==
  ASSUME NEW r \in Nat \ {0}, NEW a \in 0..(r - 1), NEW b \in 0..(r - 1)
  PROVE  (a - b) % r = IF a >= b THEN a - b ELSE a - b + r
OBVIOUS
-----------------------------------------------------------------------------
(* Sequences in order.                                                     *)

LEMMA BytesOf ==
  ASSUME NEW S, NEW s \in Seq(S)
  PROVE  Bytes(s) \subseteq S
<1> SUFFICES ASSUME NEW i \in DOMAIN s PROVE s[i] \in S
  BY DEF Bytes
<1>1. i \in 1..Len(s)
  BY LenProperties
<1> QED
  BY <1>1, ElementOfSeq

LEMMA BytesConcat ==
  ASSUME NEW S, NEW a \in Seq(S), NEW b \in Seq(S)
  PROVE  Bytes(a \o b) = Bytes(a) \union Bytes(b)
<1>1. /\ a \o b \in Seq(S) /\ Len(a) \in Nat /\ Len(b) \in Nat
      /\ DOMAIN a = 1..Len(a) /\ DOMAIN b = 1..Len(b)
      /\ DOMAIN (a \o b) = 1..(Len(a) + Len(b))
      /\ \A i \in 1..(Len(a) + Len(b)) :
           (a \o b)[i] = IF i <= Len(a) THEN a[i] ELSE b[i - Len(a)]
  BY ConcatProperties, LenProperties
<1>2. ASSUME NEW v \in Bytes(a \o b)
      PROVE  v \in Bytes(a) \union Bytes(b)
  <2>1. PICK i \in 1..(Len(a) + Len(b)) : v = (a \o b)[i]
    BY <1>1 DEF Bytes
  <2>2. CASE i <= Len(a)
    BY <1>1, <2>1, <2>2 DEF Bytes
  <2>3. CASE ~(i <= Len(a))
    <3>1. i - Len(a) \in 1..Len(b) /\ v = b[i - Len(a)]
      BY <1>1, <2>1, <2>3
    <3> QED
      BY <1>1, <3>1 DEF Bytes
  <2> QED
    BY <2>2, <2>3
<1>3. ASSUME NEW v \in Bytes(a)
      PROVE  v \in Bytes(a \o b)
  <2>1. PICK i \in 1..Len(a) : v = a[i]
    BY <1>1 DEF Bytes
  <2>2. i \in 1..(Len(a) + Len(b)) /\ v = (a \o b)[i]
    BY <1>1, <2>1
  <2> QED
    BY <1>1, <2>2 DEF Bytes
<1>4. ASSUME NEW v \in Bytes(b)
      PROVE  v \in Bytes(a \o b)
  <2>1. PICK i \in 1..Len(b) : v = b[i]
    BY <1>1 DEF Bytes
  <2>2. Len(a) + i \in 1..(Len(a) + Len(b)) /\ v = (a \o b)[Len(a) + i]
    BY <1>1, <2>1
  <2> QED
    BY <1>1, <2>2 DEF Bytes
<1> QED
  BY <1>2, <1>3, <1>4

LEMMA IncreasingConcat ==
  ASSUME NEW S \in SUBSET Int, NEW a \in Seq(S), NEW b \in Seq(S)
  PROVE  Increasing(a \o b) <=> Increasing(a) /\ Increasing(b) /\ Below(a, b)
<1>1. /\ a \o b \in Seq(S) /\ Len(a) \in Nat /\ Len(b) \in Nat
      /\ DOMAIN a = 1..Len(a) /\ DOMAIN b = 1..Len(b)
      /\ DOMAIN (a \o b) = 1..(Len(a) + Len(b))
      /\ \A i \in 1..(Len(a) + Len(b)) :
           (a \o b)[i] = IF i <= Len(a) THEN a[i] ELSE b[i - Len(a)]
  BY ConcatProperties, LenProperties
<1>2. ASSUME Increasing(a \o b)
      PROVE  Increasing(a) /\ Increasing(b) /\ Below(a, b)
  <2>1. ASSUME NEW i \in DOMAIN a, NEW j \in DOMAIN a, i < j
        PROVE  a[i] < a[j]
    <3>1. /\ i \in 1..(Len(a) + Len(b)) /\ j \in 1..(Len(a) + Len(b))
          /\ (a \o b)[i] = a[i] /\ (a \o b)[j] = a[j]
      BY <1>1, <2>1
    <3> QED
      BY <1>1, <1>2, <2>1, <3>1 DEF Increasing
  <2>2. ASSUME NEW i \in DOMAIN b, NEW j \in DOMAIN b, i < j
        PROVE  b[i] < b[j]
    <3>1. /\ Len(a) + i \in 1..(Len(a) + Len(b)) /\ Len(a) + j \in 1..(Len(a) + Len(b))
          /\ (a \o b)[Len(a) + i] = b[i] /\ (a \o b)[Len(a) + j] = b[j]
          /\ Len(a) + i < Len(a) + j
      BY <1>1, <2>2
    <3> QED
      BY <1>1, <1>2, <3>1 DEF Increasing
  <2>3. ASSUME NEW i \in DOMAIN a, NEW j \in DOMAIN b
        PROVE  a[i] < b[j]
    <3>1. /\ i \in 1..(Len(a) + Len(b)) /\ Len(a) + j \in 1..(Len(a) + Len(b))
          /\ (a \o b)[i] = a[i] /\ (a \o b)[Len(a) + j] = b[j]
          /\ i < Len(a) + j
      BY <1>1, <2>3
    <3> QED
      BY <1>1, <1>2, <3>1 DEF Increasing
  <2> QED
    BY <2>1, <2>2, <2>3 DEF Increasing, Below, Bytes
<1>3. ASSUME Increasing(a), Increasing(b), Below(a, b),
             NEW i \in 1..(Len(a) + Len(b)), NEW j \in 1..(Len(a) + Len(b)), i < j
      PROVE  (a \o b)[i] < (a \o b)[j]
  <2>1. CASE j <= Len(a)
    <3>1. i \in 1..Len(a) /\ j \in 1..Len(a) /\ (a \o b)[i] = a[i] /\ (a \o b)[j] = a[j]
      BY <1>1, <1>3, <2>1
    <3> QED
      BY <1>1, <1>3, <3>1 DEF Increasing
  <2>2. CASE i <= Len(a) /\ ~(j <= Len(a))
    <3>1. /\ i \in 1..Len(a) /\ j - Len(a) \in 1..Len(b)
          /\ (a \o b)[i] = a[i] /\ (a \o b)[j] = b[j - Len(a)]
      BY <1>1, <1>3, <2>2
    <3>2. a[i] \in Bytes(a) /\ b[j - Len(a)] \in Bytes(b)
      BY <1>1, <3>1 DEF Bytes
    <3> QED
      BY <1>3, <3>1, <3>2 DEF Below
  <2>3. CASE ~(i <= Len(a))
    <3>1. /\ i - Len(a) \in 1..Len(b) /\ j - Len(a) \in 1..Len(b) /\ i - Len(a) < j - Len(a)
          /\ (a \o b)[i] = b[i - Len(a)] /\ (a \o b)[j] = b[j - Len(a)]
      BY <1>1, <1>3, <2>3
    <3> QED
      BY <1>1, <1>3, <3>1 DEF Increasing
  <2> QED
    BY <1>1, <2>1, <2>2, <2>3
<1> QED
  BY <1>1, <1>2, <1>3 DEF Increasing

LEMMA OrderedConcat ==
  ASSUME NEW S \in SUBSET Int, NEW a \in Seq(S), NEW b \in Seq(S), NEW n \in Int
  PROVE  Ordered(a \o b, n) <=> Ordered(a, n) /\ Ordered(b, n) /\ Below(a, b)
BY BytesConcat, IncreasingConcat DEF Ordered

LEMMA BelowConcat ==
  ASSUME NEW S, NEW a \in Seq(S), NEW b \in Seq(S), NEW c
  PROVE  /\ Below(a \o b, c) <=> Below(a, c) /\ Below(b, c)
         /\ Below(c, a \o b) <=> Below(c, a) /\ Below(c, b)
BY BytesConcat DEF Below

LEMMA NothingOrdered ==
  ASSUME NEW n
  PROVE  Bytes(<<>>) = {} /\ Ordered(<<>>, n)
BY DEF Bytes, Ordered, Increasing

(* A bound that grows, and a sequence that loses its middle.               *)
LEMMA OrderedWeaken ==
  ASSUME NEW S \in SUBSET Int, NEW s \in Seq(S), NEW m \in Int, NEW n \in Int,
         m <= n, Ordered(s, m)
  PROVE  Ordered(s, n)
<1>1. Bytes(s) \subseteq Int
  BY BytesOf
<1> QED
  BY <1>1 DEF Ordered

LEMMA OrderedOuter ==
  ASSUME NEW S \in SUBSET Int, NEW a \in Seq(S), NEW b \in Seq(S), NEW c \in Seq(S),
         NEW n \in Int, Ordered(a \o (b \o c), n)
  PROVE  Ordered(a \o c, n)
<1>1. b \o c \in Seq(S)
  BY ConcatProperties
<1>2. Ordered(a, n) /\ Ordered(b \o c, n) /\ Below(a, b \o c)
  BY <1>1, OrderedConcat
<1>3. Ordered(c, n) /\ Below(a, c)
  BY <1>2, OrderedConcat, BelowConcat
<1> QED
  BY <1>2, <1>3, OrderedConcat

(* What is numbered from n + 1 on comes behind what ends at n.             *)
LEMMA OrderedAppend ==
  ASSUME NEW S \in SUBSET Int, NEW s \in Seq(S), NEW w \in Seq(S), NEW n \in Int,
         Ordered(s, n), \A k \in 1..Len(w) : w[k] = n + k
  PROVE  /\ Ordered(s \o w, n + Len(w))
         /\ Bytes(w) = (n + 1)..(n + Len(w))
<1>1. Len(w) \in Nat /\ DOMAIN w = 1..Len(w)
  BY LenProperties
<1>2. Bytes(w) = (n + 1)..(n + Len(w))
  <2>1. ASSUME NEW v \in Bytes(w) PROVE v \in (n + 1)..(n + Len(w))
    BY <1>1 DEF Bytes
  <2>2. ASSUME NEW v \in (n + 1)..(n + Len(w)) PROVE v \in Bytes(w)
    <3>1. v - n \in 1..Len(w) /\ w[v - n] = v
      BY <1>1
    <3> QED
      BY <1>1, <3>1 DEF Bytes
  <2> QED
    BY <2>1, <2>2
<1>3. Ordered(w, n + Len(w))
  BY <1>1, <1>2 DEF Ordered, Increasing
<1>4. Ordered(s, n + Len(w))
  BY <1>1, OrderedWeaken
<1>5. Bytes(s) \subseteq Int
  BY BytesOf
<1>6. Below(s, w)
  BY <1>1, <1>2, <1>5 DEF Below, Ordered
<1> QED
  BY <1>1, <1>2, <1>3, <1>4, <1>6, OrderedConcat
-----------------------------------------------------------------------------
(* The ring, one operation at a time.                                      *)

LEMMA Sizes ==
  /\ RingLen \in Nat \ {0} /\ TxLen \in Nat \ {0} /\ ZlpCalls \in Nat \ {0}
  /\ MaxBytes \in Nat /\ MaxUpsets \in Nat /\ (0..MaxBytes) \in SUBSET Int
BY SizesAssumption, LimitsAssumption

LEMMA RingFacts ==
  ASSUME Data
  PROVE  /\ RingPos \in 0..(RingLen - 1) /\ Readable \in 0..(RingLen - 1)
         /\ Readable = IF RingPos >= mRxRingBufIndex THEN RingPos - mRxRingBufIndex
                       ELSE RingPos - mRxRingBufIndex + RingLen
         /\ Base \in Int
<1>1. onLine \in Nat /\ mRxRingBufIndex \in 0..(RingLen - 1)
  BY Sizes DEF Data
<1>2. RingPos \in 0..(RingLen - 1)
  BY <1>1, Sizes DEF RingPos
<1>3. Readable = IF RingPos >= mRxRingBufIndex THEN RingPos - mRxRingBufIndex
                 ELSE RingPos - mRxRingBufIndex + RingLen
  BY <1>1, <1>2, Sizes, ModDifference DEF Readable
<1>4. Readable \in 0..(RingLen - 1)
  BY <1>1, <1>2, <1>3, Sizes
<1> QED
  BY <1>1, <1>2, <1>3, <1>4 DEF Base

LEMMA SlotOf ==
  ASSUME Data, NEW k \in 1..(Readable + 1)
  PROVE  (mRxRingBufIndex + k - 1) % RingLen =
             IF mRxRingBufIndex + (k - 1) < RingLen THEN mRxRingBufIndex + (k - 1)
             ELSE mRxRingBufIndex + (k - 1) - RingLen
<1>1. mRxRingBufIndex \in 0..(RingLen - 1)
  BY DEF Data
<1>2. k - 1 \in 0..RingLen /\ mRxRingBufIndex + k - 1 = mRxRingBufIndex + (k - 1)
  BY <1>1, RingFacts, Sizes
<1> QED
  BY <1>1, <1>2, Sizes, ModSum

(* The DMA adds a byte to the unread ones, or makes all of them forgotten. *)
LEMMA ReceiveCounts ==
  ASSUME Data, UartReceives
  PROVE  /\ Readable' = IF Readable = RingLen - 1 THEN 0 ELSE Readable + 1
         /\ ring' \in [0..(RingLen - 1) -> 0..MaxBytes] /\ onLine' \in 0..MaxBytes
         /\ overran' \in BOOLEAN /\ lapped' \in BOOLEAN /\ (lapped' => overran')
<1>0. /\ onLine < MaxBytes /\ ring' = [ring EXCEPT ![RingPos] = onLine + 1]
      /\ onLine' = onLine + 1 /\ mRxRingBufIndex' = mRxRingBufIndex
  BY DEF UartReceives
<1>1. onLine \in Nat /\ mRxRingBufIndex \in 0..(RingLen - 1)
  BY Sizes DEF Data
<1>2. RingPos' = IF RingPos + 1 = RingLen THEN 0 ELSE RingPos + 1
  BY <1>0, <1>1, Sizes, ModNext DEF RingPos
<1>3. RingPos \in 0..(RingLen - 1) /\ RingPos' \in 0..(RingLen - 1)
  BY <1>2, RingFacts, Sizes
<1>4. Readable' = IF RingPos' >= mRxRingBufIndex THEN RingPos' - mRxRingBufIndex
                  ELSE RingPos' - mRxRingBufIndex + RingLen
  BY <1>0, <1>1, <1>3, Sizes, ModDifference DEF Readable
<1>5. Readable' = IF Readable = RingLen - 1 THEN 0 ELSE Readable + 1
  BY <1>1, <1>2, <1>3, <1>4, RingFacts, Sizes
<1>6. ring' \in [0..(RingLen - 1) -> 0..MaxBytes] /\ onLine' \in 0..MaxBytes
  BY <1>0, <1>1, <1>3, Sizes DEF Data
<1>7. overran' \in BOOLEAN /\ lapped' \in BOOLEAN /\ (lapped' => overran')
  BY DEF UartReceives, Data
<1> QED
  BY <1>5, <1>6, <1>7

LEMMA ReceiveDoes ==
  ASSUME Data, RingHolds, UartReceives
  PROVE  RingHolds' /\ Base' \in Int /\ Base <= Base' /\ (~overran' => Base' = Base)
<1>0. /\ onLine < MaxBytes /\ ring' = [ring EXCEPT ![RingPos] = onLine + 1]
      /\ onLine' = onLine + 1 /\ overran' = (overran \/ Readable = RingLen - 1)
      /\ mRxRingBufIndex' = mRxRingBufIndex
  BY DEF UartReceives, Fills
<1>1. onLine \in Nat /\ mRxRingBufIndex \in 0..(RingLen - 1)
  BY Sizes DEF Data
<1>3. RingPos \in 0..(RingLen - 1)
  BY RingFacts
<1>5. Readable' = IF Readable = RingLen - 1 THEN 0 ELSE Readable + 1
  BY ReceiveCounts
<1>6. Base' = IF Readable = RingLen - 1 THEN onLine + 1 ELSE Base
  BY <1>0, <1>1, <1>5, RingFacts, Sizes DEF Base
<1>7. Base' \in Int /\ Base <= Base' /\ (~overran' => Base' = Base) /\ Readable' <= onLine'
  <2>1. ~overran' => Readable # RingLen - 1
    BY <1>0
  <2>2. Readable \in Nat /\ Readable <= onLine
    BY RingFacts, Sizes DEF RingHolds
  <2>3. Base <= onLine + 1 /\ Base \in Int
    BY <1>1, <2>2 DEF Base
  <2>4. Readable' <= onLine'
    BY <1>0, <1>1, <1>5, <2>2
  <2> QED
    BY <1>1, <1>6, <2>1, <2>3, <2>4
<1>9. ASSUME NEW k \in 1..Readable'
      PROVE  InRing'[k] = Base' + k
  <2>1. k \in 1..(Readable + 1) /\ Readable' = Readable + 1 /\ Base' = Base
    BY <1>5, <1>6, RingFacts, Sizes
  <2> DEFINE slot == (mRxRingBufIndex + k - 1) % RingLen
  <2>2. slot = IF mRxRingBufIndex + (k - 1) < RingLen THEN mRxRingBufIndex + (k - 1)
               ELSE mRxRingBufIndex + (k - 1) - RingLen
    BY <2>1, SlotOf
  <2>3. InRing'[k] = ring'[slot]
    BY <1>0, <2>1 DEF InRing
  <2> HIDE DEF slot
  <2>4. CASE k = Readable + 1
    <3>1. slot = RingPos
      BY <1>1, <1>5, <2>1, <2>2, <2>4, RingFacts, Sizes
    <3>2. ring'[slot] = onLine + 1
      BY <1>0, <1>3, <3>1 DEF Data
    <3> QED
      BY <1>1, <2>1, <2>3, <2>4, <3>2, RingFacts DEF Base
  <2>5. CASE k # Readable + 1
    <3>1. k \in 1..Readable /\ slot # RingPos /\ slot \in 0..(RingLen - 1)
      BY <1>1, <1>5, <2>1, <2>2, <2>5, RingFacts, Sizes
    <3>2. ring'[slot] = ring[slot]
      BY <1>0, <3>1 DEF Data
    <3>3. InRing[k] = ring[slot]
      BY <3>1 DEF InRing, slot
    <3> QED
      BY <2>1, <2>3, <3>1, <3>2, <3>3 DEF RingHolds
  <2> QED
    BY <2>4, <2>5
<1> QED
  BY <1>7, <1>9 DEF RingHolds

(* What is counted is there: as many bytes as fit into write_buf.          *)
LEMMA LoadCounts ==
  ASSUME Data, MainLoad
  PROVE  /\ num' \in 0..TxLen /\ pc' \in {"top", "check", "write"}
         /\ pc' = "check" => writeBuf = <<>> /\ 0 < num' /\ num' <= Readable
<1>1. Readable \in Nat /\ TxLen \in Nat
  BY RingFacts, Sizes
<1>2. MinOf(TxLen, Readable) \in 0..TxLen /\ MinOf(TxLen, Readable) <= Readable
  BY <1>1 DEF MinOf
<1> QED
  BY <1>1, <1>2 DEF MainLoad

(* A byte is taken: write_buf grows by the slot at the index.              *)
LEMMA TakeGrows ==
  ASSUME Data, Taking, MainTake
  PROVE  /\ ring[mRxRingBufIndex] \in 0..MaxBytes /\ writeBuf \in Seq(0..MaxBytes)
         /\ writeBuf' = writeBuf \o <<ring[mRxRingBufIndex]>>
         /\ writeBuf' \in Seq(0..MaxBytes) /\ writeBuf' # <<>>
         /\ Len(writeBuf) \in Nat /\ Len(writeBuf') = Len(writeBuf) + 1
         /\ Len(writeBuf') <= num /\ num <= TxLen /\ bufPos = 0 /\ bufPos' = 0
         /\ num' \in 0..TxLen /\ pc' \in {"take", "write"}
         /\ pc' = "take" => num' = num /\ Len(writeBuf') < num
         /\ mRxRingBufIndex' = IF mRxRingBufIndex + 1 = RingLen THEN 0
                               ELSE mRxRingBufIndex + 1
         /\ mRxRingBufIndex' \in 0..(RingLen - 1)
<1>1. /\ pc = "take" /\ writeBuf' = Append(writeBuf, ring[mRxRingBufIndex]) /\ bufPos' = 0
      /\ mRxRingBufIndex' = (mRxRingBufIndex + 1) % RingLen
      /\ IF Len(writeBuf) + 1 = num THEN pc' = "write" /\ num' = 0
                                    ELSE pc' = pc /\ num' = num
  BY DEF MainTake
<1>2. /\ mRxRingBufIndex \in 0..(RingLen - 1) /\ writeBuf \in Seq(0..MaxBytes)
      /\ num \in 0..TxLen /\ Len(writeBuf) < num /\ bufPos = 0
  BY <1>1 DEF Data, Taking
<1>3. ring[mRxRingBufIndex] \in 0..MaxBytes
  BY <1>2 DEF Data
<1>4. Len(writeBuf) \in Nat
  BY <1>2, LenProperties
<1>5. /\ writeBuf' \in Seq(0..MaxBytes) /\ writeBuf' # <<>>
      /\ Len(writeBuf') = Len(writeBuf) + 1
  BY <1>1, <1>2, <1>3, AppendProperties
<1>6. writeBuf' = writeBuf \o <<ring[mRxRingBufIndex]>>
  BY <1>1, <1>2, <1>3, AppendIsConcat
<1>7. mRxRingBufIndex' = IF mRxRingBufIndex + 1 = RingLen THEN 0 ELSE mRxRingBufIndex + 1
  <2>1. (mRxRingBufIndex + 1) % RingLen =
          IF mRxRingBufIndex + 1 = RingLen THEN 0 ELSE mRxRingBufIndex + 1
    BY <1>2, Sizes, ModStep
  <2> QED
    BY <1>1, <2>1
<1>8. mRxRingBufIndex' \in 0..(RingLen - 1)
  BY <1>2, <1>7, Sizes
<1>9. /\ num <= TxLen /\ Len(writeBuf') <= num /\ num' \in 0..TxLen
      /\ pc' \in {"take", "write"} /\ (pc' = "take" => num' = num /\ Len(writeBuf') < num)
  BY <1>1, <1>2, <1>4, <1>5, Sizes
<1> QED
  BY <1>1, <1>2, <1>3, <1>4, <1>5, <1>6, <1>7, <1>8, <1>9

LEMMA TakeCounts ==
  ASSUME Data, Taking, MainTake, ~lapped
  PROVE  0 < Readable /\ Readable' = Readable - 1
<1>1. /\ mRxRingBufIndex \in 0..(RingLen - 1) /\ mRxRingBufIndex' \in 0..(RingLen - 1)
      /\ mRxRingBufIndex' = IF mRxRingBufIndex + 1 = RingLen THEN 0
                            ELSE mRxRingBufIndex + 1
  BY TakeGrows DEF Data
<1>2. 0 < Readable
  <2>1. num - Len(writeBuf) <= Readable /\ Len(writeBuf) < num /\ num \in Nat
    BY Sizes DEF Taking, Data, MainTake
  <2> QED
    BY <2>1, TakeGrows, RingFacts
<1>3. RingPos' = RingPos
  BY DEF RingPos, MainTake
<1>4. Readable' = IF RingPos >= mRxRingBufIndex' THEN RingPos - mRxRingBufIndex'
                  ELSE RingPos - mRxRingBufIndex' + RingLen
  BY <1>1, <1>3, RingFacts, Sizes, ModDifference DEF Readable
<1> QED
  BY <1>1, <1>2, <1>4, RingFacts, Sizes

(* What dequeue_from_read_queue takes is the first of the unread bytes.    *)
LEMMA TakeDoes ==
  ASSUME Data, Taking, RingHolds, MainTake, ~lapped
  PROVE  /\ RingHolds'
         /\ \E w \in Seq(0..MaxBytes) :
              /\ Rest' = Rest \o w /\ Base' = Base + Len(w)
              /\ \A k \in 1..Len(w) : w[k] = Base + k
<1>0. /\ UNCHANGED <<ring, onLine>> /\ mRxRingBufIndex \in 0..(RingLen - 1) /\ onLine \in Nat
      /\ 0 < Readable /\ Readable' = Readable - 1 /\ Readable \in 0..(RingLen - 1)
  <2>1. UNCHANGED <<ring, onLine>>
    BY DEF MainTake
  <2>2. mRxRingBufIndex \in 0..(RingLen - 1) /\ onLine \in Nat
    BY Sizes DEF Data
  <2> QED
    BY <2>1, <2>2, TakeCounts, RingFacts
<1>1. Base' = Base + 1 /\ Base \in Int
  BY <1>0, RingFacts DEF Base
<1>2. ring[mRxRingBufIndex] = Base + 1
  <2>1. 1 \in 1..Readable
    BY <1>0
  <2>2. (mRxRingBufIndex + 1 - 1) % RingLen = mRxRingBufIndex
    BY <1>0, Sizes
  <2>3. InRing[1] = ring[(mRxRingBufIndex + 1 - 1) % RingLen]
    BY <2>1 DEF InRing
  <2> QED
    BY <2>1, <2>2, <2>3 DEF RingHolds
<1>3. ASSUME NEW k \in 1..Readable'
      PROVE  InRing'[k] = Base' + k
  <2>1. k + 1 \in 1..Readable /\ k \in 1..(Readable + 1) /\ k - 1 \in 0..RingLen
    BY <1>0, Sizes
  <2>2. /\ mRxRingBufIndex' \in 0..(RingLen - 1)
        /\ mRxRingBufIndex' = IF mRxRingBufIndex + 1 = RingLen THEN 0
                              ELSE mRxRingBufIndex + 1
    BY TakeGrows
  <2>3. (mRxRingBufIndex' + (k - 1)) % RingLen =
             IF mRxRingBufIndex' + (k - 1) < RingLen THEN mRxRingBufIndex' + (k - 1)
             ELSE mRxRingBufIndex' + (k - 1) - RingLen
    BY <2>1, <2>2, Sizes, ModSum
  <2>4. (mRxRingBufIndex + (k + 1) - 1) % RingLen =
             IF mRxRingBufIndex + k < RingLen THEN mRxRingBufIndex + k
             ELSE mRxRingBufIndex + k - RingLen
    <3>1. k + 1 \in 1..(Readable + 1) /\ (k + 1) - 1 = k
      BY <1>0, <2>1
    <3> QED
      BY <3>1, SlotOf
  <2>5. (mRxRingBufIndex' + (k - 1)) % RingLen = (mRxRingBufIndex + (k + 1) - 1) % RingLen
    BY <1>0, <2>1, <2>2, <2>3, <2>4, Sizes
  <2>6. mRxRingBufIndex' + k - 1 = mRxRingBufIndex' + (k - 1)
    BY <2>1, <2>2
  <2>7. InRing'[k] = ring[(mRxRingBufIndex' + k - 1) % RingLen]
    BY <1>0 DEF InRing
  <2>8. InRing[k + 1] = ring[(mRxRingBufIndex + (k + 1) - 1) % RingLen]
    BY <2>1 DEF InRing
  <2>9. InRing'[k] = Base + (k + 1)
    BY <2>1, <2>5, <2>6, <2>7, <2>8 DEF RingHolds
  <2> QED
    BY <1>1, <2>1, <2>9
<1>4. RingHolds'
  <2>1. Readable' <= onLine'
    BY <1>0 DEF RingHolds
  <2> QED
    BY <1>3, <2>1 DEF RingHolds
<1>5. Rest = writeBuf /\ Rest' = writeBuf'
  <2>1. bufPos + 1 = 1 /\ bufPos' + 1 = 1
    BY TakeGrows
  <2> QED
    BY <2>1, TakeGrows, SubSeqFull DEF Rest
<1> DEFINE w == <<ring[mRxRingBufIndex]>>
<1>6. w \in Seq(0..MaxBytes) /\ Len(w) = 1 /\ w[1] = ring[mRxRingBufIndex]
  <2>1. ring[mRxRingBufIndex] \in 0..MaxBytes
    BY TakeGrows
  <2> QED
    BY <2>1
<1>7. Rest' = Rest \o w
  BY <1>5, TakeGrows
<1>8. \A k \in 1..Len(w) : w[k] = Base + k
  BY <1>2, <1>6
<1>9. Base' = Base + Len(w)
  BY <1>1, <1>6
<1> HIDE DEF w
<1> QED
  BY <1>4, <1>6, <1>7, <1>8, <1>9
-----------------------------------------------------------------------------
(* write_buf and the two buffers, one operation at a time.                 *)

LEMMA RestFacts ==
  ASSUME Data, Within
  PROVE  Rest \in Seq(0..MaxBytes) /\ Len(writeBuf) \in Nat /\ bufPos \in Nat
<1>1. Len(writeBuf) \in Nat /\ bufPos \in Nat /\ writeBuf \in Seq(0..MaxBytes)
  BY LenProperties DEF Data
<1>2. \A i \in (bufPos + 1)..Len(writeBuf) : writeBuf[i] \in 0..MaxBytes
  <2> SUFFICES ASSUME NEW i \in (bufPos + 1)..Len(writeBuf)
               PROVE  writeBuf[i] \in 0..MaxBytes
    OBVIOUS
  <2>1. i \in 1..Len(writeBuf)
    BY <1>1
  <2> QED
    BY <1>1, <2>1, ElementOfSeq
<1>3. bufPos + 1 \in Int /\ Len(writeBuf) \in Int
  BY <1>1
<1>4. Rest \in Seq(0..MaxBytes)
  BY <1>2, <1>3, SubSeqProperties DEF Rest
<1> QED
  BY <1>1, <1>4

LEMMA CopyAmount ==
  ASSUME NEW len \in Nat, NEW pos \in Nat, NEW held \in Nat, NEW max \in Nat,
         pos <= len, held <= max
  PROVE  /\ MinOf(len - pos, max - held) \in Nat
         /\ pos + MinOf(len - pos, max - held) <= len
         /\ held + MinOf(len - pos, max - held) <= max
BY DEF MinOf

(* What is copied is the beginning of the rest of write_buf.               *)
LEMMA CopyDoes ==
  ASSUME HInv, Data, Within, MainCopy
  PROVE  \E first \in Seq(0..MaxBytes) :
           /\ txBuf' = [txBuf EXCEPT ![tx.sel] = @ \o first]
           /\ Len(txBuf[tx.sel]) + Len(first) <= TxLen
           /\ Rest = first \o Rest' /\ Rest' \in Seq(0..MaxBytes)
           /\ writeBuf' \in Seq(0..MaxBytes) /\ Len(writeBuf') <= TxLen
           /\ bufPos' \in Nat /\ bufPos' <= Len(writeBuf')
           /\ writeBuf' = <<>> => bufPos' = 0
           /\ asserted' = asserted
<1> DEFINE L == Len(writeBuf)
<1> DEFINE n == MinOf(size, TxLen - Len(txBuf[tx.sel]))
<1> DEFINE first == SubSeq(writeBuf, bufPos + 1, bufPos + n)
<1> DEFINE tail == SubSeq(writeBuf, bufPos + n + 1, L)
<1>1. /\ L \in Nat /\ bufPos \in Nat /\ bufPos <= L /\ writeBuf \in Seq(0..MaxBytes)
      /\ size = L - bufPos /\ L <= TxLen
  BY RestFacts DEF Data, Within, MainCopy, CopyFrame
<1>2. tx.sel \in {0, 1} /\ txBuf[tx.sel] \in Seq(0..MaxBytes) /\ Len(txBuf[tx.sel]) <= TxLen
  BY DEF HInv, Flags, Transmit, Data
<1>3. Len(txBuf[tx.sel]) \in Nat
  BY <1>2, LenProperties
<1>4. n \in Nat /\ bufPos + n <= L /\ Len(txBuf[tx.sel]) + n <= TxLen
  BY <1>1, <1>2, <1>3, Sizes, CopyAmount
<1>5. \A i \in 1..L : writeBuf[i] \in 0..MaxBytes
  BY <1>1, ElementOfSeq
<1>6. txBuf' = Copied(n) /\ Consumed(n)
  BY DEF MainCopy
<1> HIDE DEF n
<1>7. /\ first \in Seq(0..MaxBytes) /\ Len(first) = n
      /\ \A k \in 1..n : first[k] = writeBuf[bufPos + k]
  <2>1. /\ bufPos + 1 \in Int /\ bufPos + n \in Int /\ (bufPos + n) - (bufPos + 1) + 1 = n
        /\ \A i \in (bufPos + 1)..(bufPos + n) : writeBuf[i] \in 0..MaxBytes
    BY <1>1, <1>4, <1>5
  <2>2. /\ first \in Seq(0..MaxBytes)
        /\ Len(first) = IF bufPos + 1 <= bufPos + n
                          THEN (bufPos + n) - (bufPos + 1) + 1 ELSE 0
        /\ \A i \in 1..((bufPos + n) - (bufPos + 1) + 1) :
             first[i] = writeBuf[bufPos + 1 + i - 1]
    BY <2>1, SubSeqProperties
  <2>3. \A k \in 1..n : bufPos + 1 + k - 1 = bufPos + k
    BY <1>1, <1>4
  <2> QED
    BY <1>1, <1>4, <2>1, <2>2, <2>3
<1>8. tail \in Seq(0..MaxBytes)
  <2>1. \A i \in (bufPos + n + 1)..L : writeBuf[i] \in 0..MaxBytes
    BY <1>1, <1>4, <1>5
  <2> QED
    BY <1>1, <1>4, <2>1, SubSeqProperties
<1>9. Rest = first \o tail
  <2>1. SubSeq(writeBuf, bufPos + 1, bufPos + n) \o SubSeq(writeBuf, bufPos + n + 1, L)
          = SubSeq(writeBuf, bufPos + 1, L)
    <3>1. /\ bufPos + 1 \in 1..(Len(writeBuf) + 1)
          /\ bufPos + n \in ((bufPos + 1) - 1)..Len(writeBuf)
          /\ Len(writeBuf) \in (bufPos + n)..Len(writeBuf)
      BY <1>1, <1>4
    <3> QED
      BY <1>1, <3>1, ConcatAdjacentSubSeq
  <2> QED
    BY <2>1 DEF Rest
<1>10. txBuf' = [txBuf EXCEPT ![tx.sel] = @ \o first]
  <2>1. txBuf' = [txBuf EXCEPT ![tx.sel] =
                    @ \o [k \in 1..n |-> IF bufPos + k <= Len(writeBuf)
                                           THEN writeBuf[bufPos + k] ELSE 0]]
    BY <1>6 DEF Copied
  <2>2. \A k \in 1..n : bufPos + k <= Len(writeBuf)
    BY <1>1, <1>4
  <2>3. DOMAIN first = 1..n /\ first = [k \in DOMAIN first |-> first[k]]
    BY <1>7, LenProperties
  <2>4. [k \in 1..n |-> IF bufPos + k <= Len(writeBuf) THEN writeBuf[bufPos + k] ELSE 0]
          = first
    BY <1>7, <2>2, <2>3
  <2> QED
    BY <2>1, <2>4
<1>13. asserted' = asserted
  BY <1>4, <1>6 DEF Consumed
<1> HIDE DEF first
<1> SUFFICES /\ Rest' = tail
             /\ writeBuf' \in Seq(0..MaxBytes) /\ Len(writeBuf') <= TxLen
             /\ bufPos' \in Nat /\ bufPos' <= Len(writeBuf')
             /\ writeBuf' = <<>> => bufPos' = 0
  BY <1>4, <1>7, <1>8, <1>9, <1>10, <1>13
<1>11. CASE bufPos + n = L
  <2>1. writeBuf' = <<>> /\ bufPos' = 0
    BY <1>6, <1>11 DEF Consumed
  <2>2. tail = <<>>
    BY <1>1, <1>11, SubSeqEmpty
  <2>3. Len(<<>>) = 0 /\ <<>> \in Seq(0..MaxBytes)
    BY EmptySeq
  <2>4. Rest' = <<>>
    BY <2>1, <2>3, SubSeqEmpty DEF Rest
  <2> QED
    <3>1. Len(writeBuf') = 0 /\ writeBuf' \in Seq(0..MaxBytes)
      BY <2>1, <2>3
    <3>2. bufPos' = 0 /\ Rest' = tail
      BY <2>1, <2>2, <2>4
    <3> HIDE DEF tail
    <3> QED
      BY <3>1, <3>2, Sizes
<1>12. CASE bufPos + n # L
  <2>1. writeBuf' = writeBuf /\ bufPos' = bufPos + n
    BY <1>6, <1>12 DEF Consumed
  <2>2. Rest' = tail
    BY <2>1 DEF Rest
  <2>3. writeBuf # <<>>
    BY <1>1, <1>4, <1>12, EmptySeq
  <2> QED
    BY <1>1, <1>4, <2>1, <2>2, <2>3
<1> QED
  BY <1>11, <1>12

LEMMA BufferFacts ==
  ASSUME HInv, Data
  PROVE  /\ tx \in Transmit /\ tx.sel \in {0, 1} /\ Other(tx.sel) \in {0, 1}
         /\ txBuf[tx.sel] \in Seq(0..MaxBytes) /\ txBuf[Other(tx.sel)] \in Seq(0..MaxBytes)
         /\ received \in Seq(0..MaxBytes) /\ epIn \in Endpoint
BY OtherIndex DEF HInv, Flags, Transmit, Data

(* Appending, for sequences of bytes.                                      *)
Associates(a, b, c) == (a \o b) \o c = a \o (b \o c)

LEMMA Appending ==
  ASSUME NEW a \in Seq(0..MaxBytes), NEW b \in Seq(0..MaxBytes), NEW c \in Seq(0..MaxBytes)
  PROVE  Associates(a, b, c)
BY ConcatAssociative DEF Associates

LEMMA BufferedFacts ==
  ASSUME NEW bufs, NEW s \in {0, 1}, NEW taken \in BOOLEAN,
         \A b \in {0, 1} : bufs[b] \in Seq(0..MaxBytes)
  PROVE  /\ Buffered(bufs, s, taken) \in Seq(0..MaxBytes)
         /\ Buffered(bufs, s, TRUE) = bufs[s]
         /\ Buffered(bufs, s, FALSE) = bufs[Other(s)] \o bufs[s]
         /\ bufs[Other(s)] = <<>> =>
              /\ Buffered(bufs, s, taken) = bufs[s]
              /\ Buffered(bufs, Other(s), FALSE) = bufs[s]
<1>1. Other(s) \in {0, 1} /\ Other(Other(s)) = s
  BY DEF Other
<1>2. bufs[s] \in Seq(0..MaxBytes) /\ bufs[Other(s)] \in Seq(0..MaxBytes) /\ <<>> \in Seq(0..MaxBytes)
  BY <1>1, EmptySeq
<1>3. <<>> \o bufs[s] = bufs[s] /\ bufs[s] \o <<>> = bufs[s]
  BY <1>2, ConcatEmptySeq
<1>4. bufs[Other(s)] \o bufs[s] \in Seq(0..MaxBytes)
  BY <1>2, ConcatProperties
<1> QED
  BY <1>1, <1>2, <1>3, <1>4 DEF Buffered

(* udi_cdc_tx_send changes the roles of the buffers, not what they hold or *)
(* in which order.                                                         *)
LEMMA SendKeepsOrder ==
  ASSUME NEW t \in Transmit, NEW bufs, NEW e \in Endpoint, ~e.trcpt,
         \A b \in {0, 1} : bufs[b] \in Seq(0..MaxBytes),
         ~t.both /\ ~t.ongoing => bufs[Other(t.sel)] = <<>>,
         TxSend(t, bufs, e)
  PROVE  /\ ~epIn'.trcpt /\ epIn'.enabled = e.enabled
         /\ Buffered(bufs, tx'.sel, FALSE) = Buffered(bufs, t.sel, FALSE)
<1>1. ~epIn'.trcpt /\ epIn'.enabled = e.enabled
  BY RunBits DEF TxSend
<1>2. t.sel \in {0, 1} /\ FALSE \in BOOLEAN
  BY DEF Transmit
<1>3. CASE tx'.sel = t.sel
  BY <1>1, <1>3
<1>4. CASE tx'.sel # t.sel
  <2>1. ~Waits(t) /\ ~Idles(t, bufs)
    BY <1>4 DEF TxSend, TxAfter, Transmit
  <2>2. tx'.sel = IF t.both THEN t.sel ELSE Other(t.sel)
    BY <2>1 DEF TxSend, TxAfter, Transmit
  <2>3. ~t.both /\ ~t.ongoing /\ tx'.sel = Other(t.sel)
    BY <1>4, <2>1, <2>2 DEF Waits
  <2> QED
    BY <1>1, <1>2, <2>3, BufferedFacts
<1> QED
  BY <1>3, <1>4
-----------------------------------------------------------------------------
(* The inductive steps.                                                    *)

LEMMA InitDInv == Init => DInv
<1> SUFFICES ASSUME Init PROVE DInv
  OBVIOUS
<1>1. HInv
  BY InitHInv
<1>2. <<>> \in Seq(0..MaxBytes) /\ Len(<<>>) = 0
  BY EmptySeq
<1>3. Data
  <2>1. /\ ring \in [0..(RingLen - 1) -> 0..MaxBytes] /\ onLine \in 0..MaxBytes
        /\ mRxRingBufIndex \in 0..(RingLen - 1)
    BY Sizes DEF Init
  <2>2. \A b \in {0, 1} : txBuf[b] \in Seq(0..MaxBytes) /\ Len(txBuf[b]) <= TxLen
    BY <1>2, Sizes DEF Init
  <2>3. /\ writeBuf \in Seq(0..MaxBytes) /\ Len(writeBuf) <= TxLen
        /\ received \in Seq(0..MaxBytes) /\ discarded \subseteq 0..MaxBytes
        /\ hUpsets \in 0..MaxUpsets /\ num \in 0..TxLen
    BY <1>2, Sizes DEF Init
  <2> QED
    BY <2>1, <2>2, <2>3 DEF Init, Data
<1>4. Within /\ Taking
  BY <1>2 DEF Init, Within, Taking
<1>5. Readable = 0
  BY <1>3, RingFacts, Sizes DEF Init, RingPos
<1>6. RingHolds
  BY <1>5 DEF Init, RingHolds
<1>7. Rest = <<>> /\ received = <<>> /\ ~epIn.enabled /\ ~epIn.trcpt
  BY <1>2, SubSeqEmpty DEF Init, Rest, Unused
<1>8. Kept = <<>>
  BY <1>2, <1>7, ConcatEmptySeq DEF Kept
<1>9. InLine
  BY <1>7, <1>8, NothingOrdered DEF InLine
<1>10. Bytes(Rest) = {} /\ Bytes(received) = {}
  BY <1>7, NothingOrdered
<1>11. Bytes(txBuf[0]) = {} /\ Bytes(txBuf[1]) = {} /\ discarded = {}
  BY NothingOrdered DEF Init
<1>12. 1..Base = {}
  BY <1>5 DEF Init, Base
<1>13. Accounted
  BY <1>7, <1>10, <1>11, <1>12 DEF Accounted, Gone
<1>14. Apart
  BY <1>6, <1>9 DEF Init, Apart
<1> QED
  BY <1>1, <1>3, <1>4, <1>13, <1>14 DEF DInv

LEMMA DataStep == DInv /\ [Next]_vars => Data'
<1> SUFFICES ASSUME DInv, [Next]_vars PROVE Data'
  OBVIOUS
<1> USE DEF ringVars, mainVars, cdcVars, epVars, ctrlVars, hostVars
<1>0. HInv /\ Data /\ Within /\ Taking
  BY DEF DInv
<1>1. ASSUME UartReceives
      PROVE  Data'
  <2>1. /\ ring' \in [0..(RingLen - 1) -> 0..MaxBytes] /\ onLine' \in 0..MaxBytes
        /\ overran' \in BOOLEAN /\ lapped' \in BOOLEAN /\ (lapped' => overran')
    BY <1>0, <1>1, ReceiveCounts
  <2> QED
    BY <1>0, <1>1, <2>1 DEF UartReceives, Data
<1>2. ASSUME MainTop
      PROVE  Data'
  BY <1>0, <1>2 DEF MainTop, Data
<1>3. ASSUME MainLoad
      PROVE  Data'
  <2>1. num' \in 0..TxLen /\ pc' \in {"top", "load", "check", "take", "write", "copy"}
    BY <1>0, <1>3, LoadCounts
  <2> QED
    BY <1>0, <1>3, <2>1 DEF MainLoad, Data
<1>31. ASSUME MainCheck
       PROVE  Data'
  BY <1>0, <1>31 DEF MainCheck, Data
<1>32. ASSUME MainTake
       PROVE  Data'
  <2>0. num \in Nat /\ TxLen \in Nat
    BY <1>0, Sizes DEF Data
  <2>1. /\ mRxRingBufIndex' \in 0..(RingLen - 1) /\ writeBuf' \in Seq(0..MaxBytes)
        /\ Len(writeBuf') <= TxLen /\ bufPos' \in Nat
    BY <1>0, <1>32, <2>0, TakeGrows
  <2>2. num' \in 0..TxLen /\ pc' \in {"top", "load", "check", "take", "write", "copy"}
    BY <1>0, <1>32, TakeGrows
  <2> QED
    BY <1>0, <1>32, <2>1, <2>2 DEF MainTake, Data
<1>4. ASSUME MainWrite
      PROVE  Data'
  <2>1. Len(writeBuf) - bufPos \in Nat
    BY <1>0, RestFacts DEF Within
  <2>2. size' \in Nat
    BY <1>0, <1>4, <2>1 DEF MainWrite, Within
  <2>3. pc' \in {"top", "load", "check", "take", "write", "copy"}
    BY <1>4 DEF MainWrite
  <2> QED
    BY <1>0, <1>4, <2>2, <2>3 DEF MainWrite, Data
<1>5. ASSUME MainCopy
      PROVE  Data'
  <2>1. PICK first \in Seq(0..MaxBytes) :
          /\ txBuf' = [txBuf EXCEPT ![tx.sel] = @ \o first]
          /\ Len(txBuf[tx.sel]) + Len(first) <= TxLen
          /\ writeBuf' \in Seq(0..MaxBytes) /\ Len(writeBuf') <= TxLen /\ bufPos' \in Nat
    BY <1>0, <1>5, CopyDoes
  <2>2. tx.sel \in {0, 1} /\ txBuf = [b \in {0, 1} |-> txBuf[b]]
    BY <1>0, BufferFacts DEF HInv, Flags
  <2>3. /\ txBuf[tx.sel] \o first \in Seq(0..MaxBytes)
        /\ Len(txBuf[tx.sel] \o first) <= TxLen
    BY <1>0, <2>1, BufferFacts, ConcatProperties
  <2>4. \A b \in {0, 1} : txBuf'[b] \in Seq(0..MaxBytes) /\ Len(txBuf'[b]) <= TxLen
    BY <1>0, <2>1, <2>2, <2>3 DEF Data
  <2>5. asserted' \subseteq {"num", "buf_pos"}
    BY <1>0, <1>5 DEF MainCopy, Consumed, Data
  <2>6. /\ pc' = "top" /\ size' = 0
        /\ UNCHANGED <<ring, onLine, mRxRingBufIndex, overran, lapped, num, mCDCEnabled, received,
                       discarded, hUpsets>>
    BY <1>5 DEF MainCopy, CopyFrame
  <2> QED
    BY <1>0, <2>1, <2>4, <2>5, <2>6 DEF Data
<1>6. ASSUME UsbIn
      PROVE  Data'
  <2>1. txBuf' = [txBuf EXCEPT ![Other(tx.sel)] = <<>>]
    BY <1>6 DEF UsbIn
  <2>2. \A b \in {0, 1} : txBuf'[b] = txBuf[b] \/ txBuf'[b] = <<>>
    BY <1>0, <2>1 DEF HInv, Flags
  <2>3. \A b \in {0, 1} : txBuf'[b] \in Seq(0..MaxBytes) /\ Len(txBuf'[b]) <= TxLen
    <3>1. <<>> \in Seq(0..MaxBytes) /\ Len(<<>>) <= TxLen
      BY EmptySeq, Sizes
    <3> QED
      BY <1>0, <2>2, <3>1 DEF Data
  <2> QED
    BY <1>0, <1>6, <2>3 DEF UsbIn, Data
<1>7. ASSUME UsbSof \/ UsbSetupCoding
      PROVE  Data'
  <2>1. UNCHANGED <<txBuf, ringVars, mainVars, mCDCEnabled, hostVars>>
    BY <1>7 DEF UsbSof, UsbSetupCoding
  <2> QED
    BY <1>0, <2>1 DEF Data
<1>8. ASSUME UsbSetupConfig
      PROVE  Data'
  <2>1. txBuf' = [b \in {0, 1} |-> <<>>]
    BY <1>8 DEF UsbSetupConfig
  <2>2. \A b \in {0, 1} : txBuf'[b] \in Seq(0..MaxBytes) /\ Len(txBuf'[b]) <= TxLen
    BY <2>1, EmptySeq, Sizes
  <2>3. \A b \in {0, 1} : Bytes(txBuf[b]) \subseteq 0..MaxBytes
    BY <1>0, BytesOf DEF Data
  <2>4. discarded' \subseteq 0..MaxBytes
    BY <1>0, <1>8, <2>3 DEF UsbSetupConfig, Data
  <2>5. hUpsets' \in 0..MaxUpsets
    BY <1>0, <1>8, Sizes DEF UsbSetupConfig, Data
  <2> QED
    BY <1>0, <1>8, <2>2, <2>4, <2>5 DEF UsbSetupConfig, Data
<1>9. ASSUME UsbBusReset
      PROVE  Data'
  <2>1. mCDCEnabled' \in BOOLEAN
    BY <1>0, <1>9 DEF UsbBusReset, Data
  <2> QED
    BY <1>0, <1>9, <2>1 DEF UsbBusReset, Data
<1>10. ASSUME HostConfigure
       PROVE  Data'
  BY <1>0, <1>10 DEF HostConfigure, HostFrame, Data
<1>11. ASSUME HostUpset
       PROVE  Data'
  <2>1. hUpsets' \in 0..MaxUpsets
    BY <1>0, <1>11, Sizes DEF HostUpset, Data
  <2> QED
    BY <1>0, <1>11, <2>1 DEF HostUpset, HostFrame, Data
<1>12. ASSUME HostRead
       PROVE  Data'
  <2>1. txBuf[inBuf] \in Seq(0..MaxBytes)
    BY <1>0 DEF HInv, Flags, Data
  <2>2. received' \in Seq(0..MaxBytes)
    BY <1>0, <1>12, <2>1, ConcatProperties DEF HostRead, Data
  <2> QED
    BY <1>0, <1>12, <2>2 DEF HostRead, HostFrame, Data
<1>13. ASSUME UNCHANGED vars
       PROVE  Data'
  BY <1>0, <1>13 DEF vars, Data
<1> QED
  BY <1>1, <1>2, <1>3, <1>31, <1>32, <1>4, <1>5, <1>6, <1>7, <1>8, <1>9, <1>10,
     <1>11, <1>12, <1>13
  DEF Next, Main, Usb, Host

(* Nine data bits are the only way out of write_buf.                       *)
LEMMA WithinStep ==
  ASSUME 9 \notin DataBits, DInv, [Next]_vars
  PROVE  Within'
<1> USE DEF ringVars, mainVars, cdcVars, epVars, ctrlVars, hostVars
<1>0. HInv /\ Data /\ Within /\ Taking
  BY DEF DInv
<1>1. ASSUME UNCHANGED <<writeBuf, bufPos, size>>, bits' = 8, pc' = "copy" => pc = "copy"
      PROVE  Within'
  BY <1>0, <1>1 DEF Within
<1>2. ASSUME UNCHANGED vars \/ UartReceives \/ UsbIn \/ UsbSof \/ UsbSetupConfig \/ UsbBusReset
      PROVE  Within'
  BY <1>0, <1>1, <1>2
  DEF vars, UartReceives, UsbIn, UsbSof, UsbSetupConfig, UsbBusReset, Within
<1>3. ASSUME Host
      PROVE  Within'
  BY <1>0, <1>1, <1>3 DEF Host, HostConfigure, HostUpset, HostRead, HostFrame, Within
<1>4. ASSUME MainTop
      PROVE  Within'
  BY <1>0, <1>1, <1>4 DEF MainTop, Within
<1>5. ASSUME MainLoad \/ MainCheck
      PROVE  Within'
  BY <1>0, <1>1, <1>5 DEF MainLoad, MainCheck, Within
<1>51. ASSUME MainTake
       PROVE  Within'
  <2>1. bits' = 8 /\ pc' \in {"take", "write"}
    BY <1>0, <1>51, TakeGrows DEF MainTake, Within
  <2>2. bufPos' <= Len(writeBuf') /\ writeBuf' # <<>>
    BY <1>0, <1>51, TakeGrows
  <2> QED
    BY <2>1, <2>2 DEF Within
<1>6. ASSUME MainWrite
      PROVE  Within'
  <2>1. /\ UNCHANGED <<writeBuf, bufPos, bits>>
        /\ pc' = "copy" => size' = (Len(writeBuf) - bufPos) * 1
    BY <1>0, <1>6 DEF MainWrite, Within
  <2>2. (Len(writeBuf) - bufPos) * 1 = Len(writeBuf) - bufPos
    BY <1>0, RestFacts
  <2> QED
    BY <1>0, <2>1, <2>2 DEF Within
<1>7. ASSUME MainCopy
      PROVE  Within'
  <2>1. bits' = bits /\ pc' = "top"
    BY <1>7 DEF MainCopy, CopyFrame
  <2>2. bufPos' <= Len(writeBuf') /\ (writeBuf' = <<>> => bufPos' = 0)
    BY <1>0, <1>7, CopyDoes
  <2> QED
    BY <1>0, <2>1, <2>2 DEF Within
<1>8. ASSUME UsbSetupCoding
      PROVE  Within'
  <2>1. bits' = 8
    BY <1>8, SizesAssumption DEF UsbSetupCoding
  <2> QED
    BY <1>1, <1>8, <2>1 DEF UsbSetupCoding
<1> QED
  BY <1>2, <1>3, <1>4, <1>5, <1>51, <1>6, <1>7, <1>8 DEF Next, Main, Usb

LEMMA TakingStep == DInv /\ [Next]_vars => Taking'
<1> SUFFICES ASSUME DInv, [Next]_vars PROVE Taking'
  OBVIOUS
<1> USE DEF ringVars, mainVars, cdcVars, epVars, ctrlVars, hostVars
<1>0. Data /\ Within /\ Taking
  BY DEF DInv
<1>1. CASE UartReceives
  <2>1. UNCHANGED <<writeBuf, bufPos, num, pc>>
    BY <1>1 DEF UartReceives
  <2>2. ASSUME pc \in {"check", "take"}, ~lapped' PROVE ~lapped /\ Readable <= Readable'
    <3>1. ~lapped /\ Readable # RingLen - 1
      BY <1>1, <2>2 DEF UartReceives, Fills
    <3> QED
      BY <1>0, <1>1, <3>1, ReceiveCounts, RingFacts
  <2>3. ASSUME pc \in {"check", "take"}, ~lapped'
        PROVE  num - Len(writeBuf) <= Readable'
    <3>0. num \in Nat
      BY <1>0, Sizes DEF Data
    <3>1. Len(writeBuf) \in Nat /\ num \in Nat /\ Readable \in Nat /\ Readable' \in Nat
      BY <1>0, <1>1, <3>0, RestFacts, ReceiveCounts, RingFacts, Sizes
    <3>2. num - Len(writeBuf) <= Readable
      BY <1>0, <2>2, <2>3 DEF Taking
    <3> QED
      BY <2>2, <2>3, <3>1, <3>2
  <2> QED
    BY <1>0, <2>1, <2>3 DEF Taking
<1>2. CASE MainLoad
  <2>1. /\ pc' \in {"top", "check", "write"} /\ UNCHANGED <<writeBuf, bufPos>>
        /\ pc' = "check" => writeBuf = <<>> /\ 0 < num' /\ num' <= Readable /\ num' \in Nat
    BY <1>0, <1>2, LoadCounts, Sizes DEF MainLoad
  <2>2. Readable' = Readable
    BY <1>2 DEF MainLoad, Readable, RingPos
  <2>3. Len(<<>>) = 0
    OBVIOUS
  <2> QED
    BY <1>0, <2>1, <2>2, <2>3 DEF Within, Taking
<1>3. CASE MainCheck
  <2>1. pc = "check" /\ pc' = "take" /\ UNCHANGED <<writeBuf, bufPos, num, lapped, Readable>>
    BY <1>3 DEF MainCheck, Readable, RingPos
  <2> QED
    BY <1>0, <2>1 DEF Taking
<1>4. CASE MainTake
  <2>1. /\ bufPos' = 0 /\ pc' \in {"take", "write"} /\ lapped' = lapped /\ pc = "take"
        /\ pc' = "take" => num' = num /\ Len(writeBuf') < num
        /\ Len(writeBuf) \in Nat /\ Len(writeBuf') = Len(writeBuf) + 1
    BY <1>0, <1>4, TakeGrows DEF MainTake
  <2>2. ASSUME pc' = "take", ~lapped
        PROVE  num' - Len(writeBuf') <= Readable'
    <3>0. num \in Nat
      BY <1>0, Sizes DEF Data
    <3>1. Readable' = Readable - 1 /\ Readable \in Nat /\ num \in Nat
      BY <1>0, <1>4, <2>2, <3>0, TakeCounts, RingFacts, Sizes
    <3>2. num - Len(writeBuf) <= Readable
      BY <1>0, <2>1, <2>2 DEF Taking
    <3> QED
      BY <2>1, <2>2, <3>1, <3>2
  <2> QED
    BY <2>1, <2>2 DEF Taking
<1>5. CASE pc' \in {"top", "load", "write", "copy"}
  BY <1>5 DEF Taking
<1>6. CASE UNCHANGED <<ringVars, mainVars>>
  BY <1>0, <1>6 DEF Taking, Readable, RingPos
<1>7. MainTop \/ MainWrite \/ MainCopy => pc' \in {"top", "load", "write", "copy"}
  BY DEF MainTop, MainWrite, MainCopy, CopyFrame
<1>8. \/ UartReceives \/ Main \/ UNCHANGED <<ringVars, mainVars>>
  BY DEF Next, vars, Usb, Host, UsbIn, UsbSof, UsbSetupCoding, UsbSetupConfig, UsbBusReset,
     HostConfigure, HostUpset, HostRead, HostFrame
<1> QED
  BY <1>1, <1>2, <1>3, <1>4, <1>5, <1>6, <1>7, <1>8 DEF Main

(* The histories are never taken back.                                     *)
LEMMA LappedStays ==
  ASSUME [Next]_vars, ~lapped'
  PROVE  ~lapped
<1>1. UartReceives \/ UNCHANGED lapped
  BY DEF Next, vars, ringVars, Main, Usb, Host, MainTop, MainLoad, MainCheck, MainTake,
     MainWrite, MainCopy, CopyFrame, UsbIn, UsbSof, UsbSetupCoding, UsbSetupConfig,
     UsbBusReset, HostConfigure, HostUpset, HostRead, HostFrame
<1> QED
  BY <1>1 DEF UartReceives

LEMMA RingStep ==
  ASSUME DInv, [Next]_vars, ~lapped'
  PROVE  RingHolds'
<1>0. Data /\ Within /\ Taking /\ RingHolds /\ ~lapped
  BY LappedStays DEF DInv, Apart
<1>1. CASE UartReceives
  BY <1>0, <1>1, ReceiveDoes
<1>2. CASE MainTake
  BY <1>0, <1>2, TakeDoes
<1>3. CASE UNCHANGED ringVars
  BY <1>0, <1>3 DEF ringVars, RingHolds, Readable, RingPos, Base, InRing
<1>4. UartReceives \/ MainTake \/ UNCHANGED ringVars
  BY DEF Next, vars, Main, Usb, Host, MainTop, MainLoad, MainCheck, MainWrite, MainCopy,
     CopyFrame, UsbIn, UsbSof, UsbSetupCoding, UsbSetupConfig, UsbBusReset, HostConfigure,
     HostUpset, HostRead, HostFrame
<1> QED
  BY <1>1, <1>2, <1>3, <1>4

(* The assertions of process_cdc_tx.                                       *)
LEMMA AssertStep ==
  ASSUME DInv, [Next]_vars, ~lapped'
  PROVE  asserted' = {}
<1>0. HInv /\ Data /\ Within /\ Taking /\ asserted = {} /\ ~lapped
  BY LappedStays DEF DInv, Apart
<1>1. CASE MainCheck
  <2>1. writeBuf = <<>> /\ num - Len(writeBuf) <= Readable /\ num \in Nat
    BY <1>0, <1>1, Sizes DEF MainCheck, Taking, Data
  <2>2. num <= Readable
    <3>1. Len(writeBuf) = 0
      BY <2>1
    <3> QED
      BY <1>0, <2>1, <3>1, RingFacts
  <2> QED
    BY <1>0, <1>1, <2>2 DEF MainCheck
<1>2. CASE MainCopy
  BY <1>0, <1>2, CopyDoes
<1>3. MainCheck \/ MainCopy \/ UNCHANGED asserted
  BY DEF Next, vars, mainVars, Main, Usb, Host, UartReceives, MainTop, MainLoad, MainTake,
     MainWrite, UsbIn, UsbSof, UsbSetupCoding, UsbSetupConfig, UsbBusReset, HostConfigure,
     HostUpset, HostRead, HostFrame
<1> QED
  BY <1>0, <1>1, <1>2, <1>3

(* What the steps need of the sequences of a state.                        *)
LEMMA SequenceFacts ==
  ASSUME HInv, Data, Within
  PROVE  /\ received \in Seq(0..MaxBytes) /\ Rest \in Seq(0..MaxBytes)
         /\ Buffered(txBuf, tx.sel, epIn.trcpt) \in Seq(0..MaxBytes)
         /\ Buffered(txBuf, tx.sel, epIn.trcpt) \o Rest \in Seq(0..MaxBytes)
         /\ Kept \in Seq(0..MaxBytes) /\ Queue \in Seq(0..MaxBytes) /\ Base \in Int
<1>1. epIn.trcpt \in BOOLEAN /\ (\A b \in {0, 1} : txBuf[b] \in Seq(0..MaxBytes))
  BY DEF HInv, Flags, Endpoint, Data
<1>2. /\ received \in Seq(0..MaxBytes) /\ Rest \in Seq(0..MaxBytes)
      /\ Buffered(txBuf, tx.sel, epIn.trcpt) \in Seq(0..MaxBytes)
  BY <1>1, BufferFacts, RestFacts, BufferedFacts
<1>3. Buffered(txBuf, tx.sel, epIn.trcpt) \o Rest \in Seq(0..MaxBytes)
  BY <1>2, ConcatProperties
<1>4. Kept \in Seq(0..MaxBytes) /\ Queue \in Seq(0..MaxBytes)
  BY <1>2, <1>3, ConcatProperties DEF Kept, Queue
<1> QED
  BY <1>2, <1>3, <1>4, RingFacts

(* No step but those of the ring and the host's read changes the order or  *)
(* the extent of what left the ring, as long as the interface is up.       *)
LEMMA LineStep ==
  ASSUME DInv, [Next]_vars, ~lapped'
  PROVE  InLine'
<1> USE DEF ringVars, mainVars, cdcVars, epVars, ctrlVars, hostVars
<1>0. HInv /\ Data /\ Within /\ Taking /\ RingHolds /\ InLine /\ ~lapped
  BY LappedStays DEF DInv, Apart
<1>00. /\ received \in Seq(0..MaxBytes) /\ Rest \in Seq(0..MaxBytes)
       /\ Kept \in Seq(0..MaxBytes) /\ Queue \in Seq(0..MaxBytes)
       /\ Base \in Int /\ epIn.trcpt \in BOOLEAN /\ epIn.enabled \in BOOLEAN
       /\ \A b \in {0, 1} : txBuf[b] \in Seq(0..MaxBytes)
       /\ tx \in Transmit /\ tx.sel \in {0, 1} /\ Other(tx.sel) \in {0, 1} /\ epIn \in Endpoint
  BY <1>0, SequenceFacts, BufferFacts DEF HInv, Flags, Endpoint, Data
<1>1. ASSUME UNCHANGED <<ring, onLine, mRxRingBufIndex>>
      PROVE  Base' = Base
  BY <1>1 DEF Base, Readable, RingPos
<1>2. ASSUME UNCHANGED <<writeBuf, bufPos>>
      PROVE  Rest' = Rest
  BY <1>2 DEF Rest
<1>3. ASSUME Base' = Base, Kept' = Kept, epIn'.enabled => epIn.enabled /\ Queue' = Queue
      PROVE  InLine'
  BY <1>0, <1>3 DEF InLine, Ordered
<1>4. ASSUME UNCHANGED <<received, writeBuf, bufPos, txBuf, tx, epIn>>
      PROVE  UNCHANGED <<Kept, Queue, epIn>>
  BY <1>4 DEF Kept, Queue, Rest
<1>5. ASSUME UartReceives
      PROVE  InLine'
  <2>1. UNCHANGED <<Kept, Queue, epIn>>
    BY <1>4, <1>5 DEF UartReceives
  <2>2. Base <= Base' /\ Base' \in Int
    BY <1>0, <1>5, ReceiveDoes
  <2> QED
    BY <1>0, <1>00, <2>1, <2>2, OrderedWeaken, Sizes DEF InLine
<1>6. ASSUME MainTop \/ MainWrite
      PROVE  InLine'
  <2>1. /\ UNCHANGED <<received, writeBuf, bufPos, txBuf, epIn, ring, onLine, mRxRingBufIndex>>
        /\ tx' = Chosen(tx) \/ tx' = tx
    BY <1>6 DEF MainTop, MainWrite
  <2>2. Buffered(txBuf, tx'.sel, epIn.trcpt) = Buffered(txBuf, tx.sel, epIn.trcpt)
    <3>1. CASE tx'.sel = tx.sel
      BY <3>1
    <3>2. CASE tx'.sel # tx.sel
      <4>1. Switches(tx) /\ tx'.sel = Other(tx.sel)
        BY <1>00, <2>1, <3>2 DEF Chosen, Transmit
      <4>2. ~tx.both /\ ~tx.ongoing /\ ~epIn.trcpt /\ txBuf[Other(tx.sel)] = <<>>
        BY <1>0, <4>1 DEF Switches, HInv, HandedOver
      <4>3. epIn.trcpt = FALSE
        BY <1>00, <4>2
      <4> QED
        BY <1>00, <4>1, <4>2, <4>3, BufferedFacts
    <3> QED
      BY <3>1, <3>2
  <2>3. Kept' = Kept /\ Queue' = Queue
    BY <1>2, <2>1, <2>2 DEF Kept, Queue
  <2> QED
    BY <1>1, <1>3, <2>1, <2>3
<1>71. ASSUME MainLoad \/ MainCheck
       PROVE  InLine'
  <2>1. UNCHANGED <<received, writeBuf, bufPos, txBuf, tx, epIn, ring, onLine, mRxRingBufIndex>>
    BY <1>71 DEF MainLoad, MainCheck
  <2> QED
    BY <1>1, <1>3, <1>4, <2>1
<1>7. ASSUME MainTake
      PROVE  InLine'
  <2>1. UNCHANGED <<received, txBuf, tx, epIn>>
    BY <1>7 DEF MainTake
  <2>2. PICK w \in Seq(0..MaxBytes) :
          /\ Rest' = Rest \o w /\ Base' = Base + Len(w)
          /\ \A k \in 1..Len(w) : w[k] = Base + k
    BY <1>0, <1>7, TakeDoes
  <2>3. PICK r \in Seq(0..MaxBytes), h \in Seq(0..MaxBytes), t \in Seq(0..MaxBytes) :
          r = received /\ h = Buffered(txBuf, tx.sel, epIn.trcpt) /\ t = Rest
    BY <1>0, SequenceFacts
  <2>4. Kept' = Kept \o w
    <3>1. (r \o t) \o w = r \o (t \o w)
      <4>1. Associates(r, t, w)
        BY Appending
      <4> QED
        BY <4>1 DEF Associates
    <3> QED
      BY <2>1, <2>2, <2>3, <3>1 DEF Kept
  <2>5. Queue' = Queue \o w
    <3>1. PICK ht \in Seq(0..MaxBytes) : ht = h \o t
      BY ConcatProperties
    <3>2. h \o (t \o w) = ht \o w
      <4>1. Associates(h, t, w)
        BY Appending
      <4> QED
        BY <3>1, <4>1 DEF Associates
    <3>3. r \o (ht \o w) = (r \o ht) \o w
      <4>1. Associates(r, ht, w)
        BY Appending
      <4> QED
        BY <4>1 DEF Associates
    <3>4. Queue' = r \o (h \o (t \o w))
      BY <2>1, <2>2, <2>3 DEF Queue
    <3>5. Queue = r \o ht
      BY <2>3, <3>1 DEF Queue
    <3> QED
      BY <3>2, <3>3, <3>4, <3>5
  <2>6. Ordered(Kept', Base')
    BY <1>0, <1>00, <2>2, <2>4, OrderedAppend, Sizes DEF InLine
  <2>7. epIn.enabled => Ordered(Queue', Base')
    BY <1>0, <1>00, <2>2, <2>5, OrderedAppend, Sizes DEF InLine
  <2> QED
    BY <2>1, <2>6, <2>7 DEF InLine
<1>8. ASSUME MainCopy
      PROVE  InLine'
  <2>1. UNCHANGED <<received, tx, epIn, ring, onLine, mRxRingBufIndex>>
    BY <1>8 DEF MainCopy, CopyFrame
  <2>2. PICK first \in Seq(0..MaxBytes) :
          /\ txBuf' = [txBuf EXCEPT ![tx.sel] = @ \o first]
          /\ Rest = first \o Rest' /\ Rest' \in Seq(0..MaxBytes)
    BY <1>0, <1>8, CopyDoes
  <2>3. Kept' = received \o Rest' /\ Kept = received \o (first \o Rest')
    BY <2>1, <2>2 DEF Kept
  <2>4. Ordered(Kept', Base)
    BY <1>0, <1>00, <2>2, <2>3, OrderedOuter, Sizes DEF InLine
  <2>5. txBuf'[tx.sel] = txBuf[tx.sel] \o first /\ txBuf'[Other(tx.sel)] = txBuf[Other(tx.sel)]
    BY <1>0, <1>00, <2>2, OtherIndex DEF HInv, Flags
  <2> DEFINE held == Buffered(txBuf, tx.sel, epIn.trcpt)
  <2>6. held \in Seq(0..MaxBytes)
    BY <1>0, SequenceFacts
  <2>7. Buffered(txBuf', tx.sel, epIn.trcpt) = held \o first
    <3>1. PICK a \in Seq(0..MaxBytes), b \in Seq(0..MaxBytes) :
            b = txBuf[tx.sel] /\ a = IF epIn.trcpt THEN <<>> ELSE txBuf[Other(tx.sel)]
      <4>1. <<>> \in Seq(0..MaxBytes)
        BY EmptySeq
      <4> QED
        BY <1>00, <4>1
    <3>2. (a \o b) \o first = a \o (b \o first)
      <4>1. Associates(a, b, first)
        BY Appending
      <4> QED
        BY <4>1 DEF Associates
    <3>3. Buffered(txBuf', tx.sel, epIn.trcpt) = a \o (b \o first) /\ held = a \o b
      BY <2>5, <3>1 DEF Buffered
    <3> QED
      BY <3>2, <3>3
  <2> HIDE DEF held
  <2>8. Queue' = received \o ((held \o first) \o Rest')
    BY <2>1, <2>7 DEF Queue
  <2>9. Queue = received \o (held \o (first \o Rest'))
    BY <2>2 DEF Queue, held
  <2>10. Queue' = Queue
    <3>1. Associates(held, first, Rest')
      BY <2>2, <2>6, Appending
    <3> QED
      BY <2>8, <2>9, <3>1 DEF Associates
  <2> QED
    BY <1>0, <1>1, <2>1, <2>4, <2>10 DEF InLine
<1>9. ASSUME UsbIn
      PROVE  InLine'
  <2> DEFINE t == [tx EXCEPT !.both = FALSE, !.ongoing = FALSE]
  <2> DEFINE bufs == [txBuf EXCEPT ![Other(tx.sel)] = <<>>]
  <2>1. /\ epIn.trcpt /\ txBuf' = bufs /\ TxSend(t, bufs, Completed(epIn))
        /\ UNCHANGED <<received, writeBuf, bufPos, ring, onLine, mRxRingBufIndex>>
    BY <1>9 DEF UsbIn
  <2>2. t \in Transmit /\ t.sel = tx.sel
    BY <1>00 DEF Transmit
  <2>3. Completed(epIn) \in Endpoint /\ ~Completed(epIn).trcpt
    BY <1>00, OtherBits
  <2>4. /\ bufs[Other(tx.sel)] = <<>> /\ bufs[tx.sel] = txBuf[tx.sel]
        /\ \A b \in {0, 1} : bufs[b] \in Seq(0..MaxBytes)
    <3>1. <<>> \in Seq(0..MaxBytes)
      BY EmptySeq
    <3> QED
      BY <1>0, <1>00, <3>1, OtherIndex DEF HInv, Flags
  <2> HIDE DEF t, bufs
  <2>5. ~epIn'.trcpt /\ Buffered(bufs, tx'.sel, FALSE) = Buffered(bufs, tx.sel, FALSE)
    BY <2>1, <2>2, <2>3, <2>4, SendKeepsOrder
  <2>6. Buffered(bufs, tx.sel, FALSE) = bufs[tx.sel]
    BY <1>00, <2>4, BufferedFacts
  <2>7. Buffered(txBuf, tx.sel, epIn.trcpt) = txBuf[tx.sel]
    BY <1>00, <2>1, BufferedFacts DEF Buffered
  <2>8. Buffered(txBuf', tx'.sel, epIn'.trcpt) = Buffered(txBuf, tx.sel, epIn.trcpt)
    BY <2>1, <2>4, <2>5, <2>6, <2>7 DEF Buffered
  <2>9. Kept' = Kept /\ Queue' = Queue /\ epIn.enabled
    BY <1>0, <1>2, <2>1, <2>8 DEF Kept, Queue, HInv, HandedOver
  <2> QED
    BY <1>1, <1>3, <2>1, <2>9
<1>10. ASSUME UsbSof
       PROVE  InLine'
  <2> DEFINE t == [tx EXCEPT !.short = FALSE]
  <2>1. /\ ~epIn.trcpt /\ ~busReset /\ configured /\ txBuf' = txBuf /\ TxSend(t, txBuf, epIn)
        /\ UNCHANGED <<received, writeBuf, bufPos, ring, onLine, mRxRingBufIndex>>
    BY <1>10 DEF UsbSof
  <2>2. t \in Transmit /\ t.sel = tx.sel /\ t.both = tx.both /\ t.ongoing = tx.ongoing
    BY <1>00 DEF Transmit
  <2> HIDE DEF t
  <2>3. ~t.both /\ ~t.ongoing => txBuf[Other(t.sel)] = <<>>
    BY <1>0, <2>2 DEF HInv, HandedOver
  <2>4. ~epIn'.trcpt /\ Buffered(txBuf, tx'.sel, FALSE) = Buffered(txBuf, tx.sel, FALSE)
    BY <1>00, <2>1, <2>2, <2>3, SendKeepsOrder
  <2>5. Buffered(txBuf', tx'.sel, epIn'.trcpt) = Buffered(txBuf, tx.sel, epIn.trcpt)
    BY <2>1, <2>4 DEF Buffered
  <2>6. Kept' = Kept /\ Queue' = Queue /\ epIn.enabled
    BY <1>0, <1>2, <2>1, <2>5 DEF Kept, Queue, HInv, Attached
  <2> QED
    BY <1>1, <1>3, <2>1, <2>6
<1>11. ASSUME UsbSetupCoding \/ HostConfigure \/ UNCHANGED vars
       PROVE  InLine'
  <2>1. UNCHANGED <<received, writeBuf, bufPos, txBuf, tx, epIn, ring, onLine, mRxRingBufIndex>>
    BY <1>11 DEF UsbSetupCoding, HostConfigure, HostFrame, vars
  <2> QED
    BY <1>1, <1>3, <1>4, <2>1
<1>12. ASSUME UsbSetupConfig
       PROVE  InLine'
  <2> DEFINE none == [b \in {0, 1} |-> <<>>]
  <2> DEFINE t == [sel |-> 0, both |-> FALSE, ongoing |-> FALSE, short |-> FALSE, zlp |-> tx.zlp]
  <2>1. /\ txBuf' = none /\ TxSend(t, none, Alloc(Freed))
        /\ UNCHANGED <<received, writeBuf, bufPos, ring, onLine, mRxRingBufIndex>>
    BY <1>12 DEF UsbSetupConfig
  <2>2. t \in Transmit /\ t.sel = 0
    BY <1>00 DEF Transmit
  <2>3. <<>> \in Seq(0..MaxBytes) /\ 0 \in {0, 1} /\ Other(0) \in {0, 1}
    BY EmptySeq DEF Other
  <2>4. none[0] = <<>> /\ none[Other(0)] = <<>> /\ \A b \in {0, 1} : none[b] \in Seq(0..MaxBytes)
    BY <2>3
  <2>5. Alloc(Freed) \in Endpoint /\ ~Alloc(Freed).trcpt
    BY <1>0, FreedBits, OtherBits
  <2> HIDE DEF none, t
  <2>6. ~epIn'.trcpt /\ Buffered(none, tx'.sel, FALSE) = Buffered(none, 0, FALSE)
    BY <2>1, <2>2, <2>4, <2>5, SendKeepsOrder
  <2>7. Buffered(none, 0, FALSE) = <<>>
    BY <2>3, <2>4, BufferedFacts
  <2>8. Buffered(txBuf', tx'.sel, epIn'.trcpt) = <<>>
    BY <2>1, <2>6, <2>7 DEF Buffered
  <2>9. Kept' = Kept /\ Queue' = received \o (<<>> \o Rest)
    BY <1>2, <2>1, <2>8 DEF Kept, Queue
  <2>10. Queue' = Kept
    BY <1>00, <2>9, ConcatEmptySeq DEF Kept
  <2> QED
    BY <1>0, <1>1, <2>1, <2>9, <2>10 DEF InLine
<1>13. ASSUME UsbBusReset
       PROVE  InLine'
  <2>1. /\ busReset /\ epIn' = Freed
        /\ UNCHANGED <<received, writeBuf, bufPos, ring, onLine, mRxRingBufIndex>>
    BY <1>13 DEF UsbBusReset
  <2>2. Kept' = Kept /\ ~epIn'.enabled
    BY <1>0, <1>2, <2>1, FreedBits DEF Kept
  <2> QED
    BY <1>1, <1>3, <2>1, <2>2
<1>14. ASSUME HostUpset
       PROVE  InLine'
  <2>1. /\ UNCHANGED <<received, writeBuf, bufPos, txBuf, tx, ring, onLine, mRxRingBufIndex>>
        /\ epIn' = epIn \/ epIn' = BusReset(epIn)
    BY <1>14 DEF HostUpset, HostFrame
  <2>2. CASE epIn' = epIn
    BY <1>1, <1>3, <1>4, <2>1, <2>2
  <2>3. CASE epIn' = BusReset(epIn)
    <3>1. Kept' = Kept /\ ~epIn'.enabled
      BY <1>00, <1>2, <2>1, <2>3, OtherBits DEF Kept
    <3> QED
      BY <1>1, <1>3, <2>1, <3>1
  <2> QED
    BY <2>1, <2>2, <2>3
<1>15. ASSUME HostRead
       PROVE  InLine'
  <2>1. /\ epIn.enabled /\ epIn.ready /\ received' = received \o txBuf[inBuf]
        /\ epIn' = Transferred(epIn)
        /\ UNCHANGED <<writeBuf, bufPos, txBuf, tx, ring, onLine, mRxRingBufIndex>>
    BY <1>15 DEF HostRead, HostFrame, Transfers
  <2>2. inBuf = Other(tx.sel) /\ ~epIn.trcpt
    BY <1>0, <1>00, <2>1 DEF HInv, Flags, HandedOver, Other
  <2>3. PICK x \in Seq(0..MaxBytes), y \in Seq(0..MaxBytes) :
          x = txBuf[Other(tx.sel)] /\ y = txBuf[tx.sel]
    BY <1>00
  <2>4. epIn'.trcpt
    BY <1>00, <2>1, OtherBits
  <2>5. Rest' = Rest
    BY <1>2, <2>1
  <2>6. Queue = received \o ((x \o y) \o Rest)
    BY <2>2, <2>3 DEF Queue, Buffered
  <2>7. Queue' = (received \o x) \o ((<<>> \o y) \o Rest)
    BY <2>1, <2>2, <2>3, <2>4, <2>5 DEF Queue, Buffered
  <2>8. Kept' = (received \o x) \o Rest
    BY <2>1, <2>2, <2>3, <2>5 DEF Kept
  <2>9. /\ x \o y \in Seq(0..MaxBytes) /\ y \o Rest \in Seq(0..MaxBytes) /\ <<>> \o y = y
        /\ received \o x \in Seq(0..MaxBytes)
    BY <1>00, <2>3, ConcatProperties, ConcatEmptySeq
  <2>10. Queue = (received \o x) \o (y \o Rest)
    <3>1. Associates(x, y, Rest) /\ Associates(received, x, y \o Rest)
      BY <1>00, <2>9, Appending
    <3> QED
      BY <2>6, <3>1 DEF Associates
  <2>11. Queue' = Queue
    BY <2>7, <2>9, <2>10
  <2>12. Ordered(Kept', Base)
    BY <1>0, <1>00, <2>1, <2>3, <2>8, <2>9, <2>10, OrderedOuter, Sizes DEF InLine
  <2> QED
    BY <1>0, <1>1, <2>1, <2>11, <2>12 DEF InLine
<1> QED
  BY <1>5, <1>6, <1>7, <1>71, <1>8, <1>9, <1>10, <1>11, <1>12, <1>13, <1>14,
     <1>15
  DEF Next, Main, Usb, Host

(* A byte only moves from one place to the next; a configuration gives up  *)
(* those in the buffers that the host has not got.                         *)
LEMMA AccountStep ==
  ASSUME DInv, [Next]_vars
  PROVE  Accounted'
<1> USE DEF ringVars, mainVars, cdcVars, epVars, ctrlVars, hostVars
<1>0. HInv /\ Data /\ Within /\ Taking /\ Accounted /\ (~lapped => RingHolds)
  BY DEF DInv, Apart
<1>00. /\ received \in Seq(0..MaxBytes) /\ Rest \in Seq(0..MaxBytes)
       /\ \A b \in {0, 1} : txBuf[b] \in Seq(0..MaxBytes)
       /\ tx \in Transmit /\ tx.sel \in {0, 1} /\ Other(tx.sel) \in {0, 1} /\ epIn \in Endpoint
       /\ DOMAIN txBuf = {0, 1} /\ Other(tx.sel) # tx.sel
  BY <1>0, SequenceFacts, BufferFacts, OtherIndex DEF HInv, Flags, Data
<1>1. ASSUME UNCHANGED <<ring, onLine, mRxRingBufIndex>>
      PROVE  Base' = Base
  BY <1>1 DEF Base, Readable, RingPos
<1>2. ASSUME UNCHANGED <<writeBuf, bufPos>>
      PROVE  Rest' = Rest
  BY <1>2 DEF Rest
<1>3. ASSUME ~overran' => ~overran /\ Base' = Base, Gone' = Gone,
             epIn'.trcpt => epIn.trcpt /\ UNCHANGED <<txBuf, tx, received>>
      PROVE  Accounted'
  <2>1. ~overran' => Gone' = 1..Base'
    BY <1>0, <1>3 DEF Accounted
  <2>2. epIn'.trcpt => Bytes(txBuf'[Other(tx'.sel)]) \subseteq Bytes(received')
    BY <1>0, <1>3 DEF Accounted
  <2> QED
    BY <2>1, <2>2 DEF Accounted
<1>4. ASSUME UNCHANGED <<received, writeBuf, bufPos, txBuf, discarded>>
      PROVE  Gone' = Gone
  BY <1>2, <1>4 DEF Gone
<1>5. Bytes(txBuf[0]) \union Bytes(txBuf[1])
        = Bytes(txBuf[tx.sel]) \union Bytes(txBuf[Other(tx.sel)])
  BY <1>00
<1>6. ASSUME UartReceives
      PROVE  Accounted'
  <2>1. UNCHANGED <<received, writeBuf, bufPos, txBuf, discarded, epIn, tx>>
    BY <1>6 DEF UartReceives
  <2>2. ~overran' => ~overran /\ Base' = Base
    <3>1. ~overran' => ~overran
      BY <1>6 DEF UartReceives
    <3>2. ~overran' => Base' = Base
      BY <1>0, <1>6, <3>1, ReceiveDoes DEF Data
    <3> QED
      BY <3>1, <3>2
  <2> QED
    BY <1>3, <1>4, <2>1, <2>2
<1>7. ASSUME MainTop \/ MainWrite
      PROVE  Accounted'
  <2>1. /\ UNCHANGED <<received, writeBuf, bufPos, txBuf, discarded, epIn>>
        /\ UNCHANGED <<ring, onLine, mRxRingBufIndex, overran>>
        /\ tx' = Chosen(tx) \/ tx' = tx
    BY <1>7 DEF MainTop, MainWrite
  <2>2. epIn.trcpt => tx' = tx
    BY <1>0, <2>1 DEF Chosen, Switches, HInv, HandedOver
  <2> QED
    BY <1>1, <1>3, <1>4, <2>1, <2>2
<1>81. ASSUME MainLoad \/ MainCheck
       PROVE  Accounted'
  <2>1. UNCHANGED <<received, writeBuf, bufPos, txBuf, discarded, epIn, tx, ring, onLine,
                    mRxRingBufIndex, overran>>
    BY <1>81 DEF MainLoad, MainCheck
  <2> QED
    BY <1>1, <1>3, <1>4, <2>1
<1>8. ASSUME MainTake
      PROVE  Accounted'
  <2>1. UNCHANGED <<received, txBuf, tx, epIn, discarded, overran>>
    BY <1>8 DEF MainTake
  <2>2. ASSUME ~overran
        PROVE  Gone' = 1..Base'
    <3>1. ~lapped /\ RingHolds /\ Gone = 1..Base
      BY <1>0, <2>2 DEF Data, Accounted
    <3>2. PICK w \in Seq(0..MaxBytes) :
            /\ Rest' = Rest \o w /\ Base' = Base + Len(w)
            /\ \A k \in 1..Len(w) : w[k] = Base + k
      BY <1>0, <1>8, <3>1, TakeDoes
    <3>3. Base \in Nat /\ Len(w) \in Nat
      <4>1. Readable \in Nat /\ Readable <= onLine
        BY <1>0, <3>1, RingFacts, Sizes DEF RingHolds
      <4>2. onLine \in Nat
        BY <1>0, Sizes DEF Data
      <4> QED
        BY <3>2, <4>1, <4>2, LenProperties DEF Base
    <3>4. Bytes(w) = (Base + 1)..(Base + Len(w))
      <4>1. PICK n \in Int : n = Base
        BY <3>3
      <4>2. PICK e \in Seq(0..MaxBytes) : e = <<>>
        BY EmptySeq
      <4>3. Ordered(e, n) /\ \A k \in 1..Len(w) : w[k] = n + k
        BY <3>2, <4>1, <4>2, NothingOrdered
      <4>4. Bytes(w) = (n + 1)..(n + Len(w))
        BY <4>3, OrderedAppend, Sizes
      <4> QED
        BY <4>1, <4>4
    <3>5. Bytes(Rest') = Bytes(Rest) \union Bytes(w)
      BY <1>00, <3>2, BytesConcat
    <3>6. Gone' = Gone \union Bytes(w)
      BY <2>1, <3>5 DEF Gone
    <3>7. (1..Base) \union ((Base + 1)..(Base + Len(w))) = 1..(Base + Len(w))
      BY <3>3
    <3> QED
      BY <3>1, <3>2, <3>4, <3>6, <3>7
  <2> QED
    BY <1>0, <2>1, <2>2 DEF Accounted
<1>9. ASSUME MainCopy
      PROVE  Accounted'
  <2>1. UNCHANGED <<received, tx, epIn, ring, onLine, mRxRingBufIndex, discarded, overran>>
    BY <1>9 DEF MainCopy, CopyFrame
  <2>2. PICK first \in Seq(0..MaxBytes) :
          /\ txBuf' = [txBuf EXCEPT ![tx.sel] = @ \o first]
          /\ Rest = first \o Rest' /\ Rest' \in Seq(0..MaxBytes)
    BY <1>0, <1>9, CopyDoes
  <2>3. txBuf'[tx.sel] = txBuf[tx.sel] \o first /\ txBuf'[Other(tx.sel)] = txBuf[Other(tx.sel)]
    BY <1>00, <2>2
  <2>4. Bytes(Rest) = Bytes(first) \union Bytes(Rest')
    BY <2>2, BytesConcat
  <2>5. Bytes(txBuf'[tx.sel]) = Bytes(txBuf[tx.sel]) \union Bytes(first)
    <3>1. txBuf[tx.sel] \in Seq(0..MaxBytes)
      BY <1>00
    <3> QED
      BY <2>3, <3>1, BytesConcat
  <2>6. Bytes(txBuf'[0]) \union Bytes(txBuf'[1])
          = Bytes(txBuf'[tx.sel]) \union Bytes(txBuf'[Other(tx.sel)])
    BY <1>00
  <2>7. Gone' = Gone
    BY <1>5, <2>1, <2>3, <2>4, <2>5, <2>6 DEF Gone
  <2> QED
    BY <1>0, <1>1, <2>1, <2>3, <2>7 DEF Accounted
<1>10. ASSUME UsbIn
       PROVE  Accounted'
  <2> DEFINE t == [tx EXCEPT !.both = FALSE, !.ongoing = FALSE]
  <2> DEFINE bufs == [txBuf EXCEPT ![Other(tx.sel)] = <<>>]
  <2>1. /\ epIn.trcpt /\ txBuf' = bufs /\ TxSend(t, bufs, Completed(epIn))
        /\ UNCHANGED <<received, writeBuf, bufPos, ring, onLine, mRxRingBufIndex, discarded,
                       overran>>
    BY <1>10 DEF UsbIn
  <2>2. Completed(epIn) \in Endpoint /\ ~Completed(epIn).trcpt
    BY <1>00, OtherBits
  <2>3. ~epIn'.trcpt
    BY <2>1, <2>2, RunBits DEF TxSend
  <2>4. txBuf'[Other(tx.sel)] = <<>> /\ txBuf'[tx.sel] = txBuf[tx.sel]
    BY <1>00, <2>1
  <2>5. Bytes(txBuf'[0]) \union Bytes(txBuf'[1])
          = Bytes(txBuf'[tx.sel]) \union Bytes(txBuf'[Other(tx.sel)])
    BY <1>00
  <2>6. Bytes(txBuf'[Other(tx.sel)]) = {}
    BY <2>4, NothingOrdered
  <2>7. Bytes(txBuf[Other(tx.sel)]) \subseteq Bytes(received)
    BY <1>0, <2>1 DEF Accounted
  <2>8. Gone' = Gone
    <3>1. received' = received /\ discarded' = discarded /\ Rest' = Rest
      BY <1>2, <2>1
    <3> QED
      BY <1>5, <2>4, <2>5, <2>6, <2>7, <3>1 DEF Gone
  <2> QED
    BY <1>1, <1>3, <2>1, <2>3, <2>8
<1>11. ASSUME UsbSof
       PROVE  Accounted'
  <2>1. /\ ~epIn.trcpt /\ txBuf' = txBuf /\ TxSend([tx EXCEPT !.short = FALSE], txBuf, epIn)
        /\ UNCHANGED <<received, writeBuf, bufPos, ring, onLine, mRxRingBufIndex, discarded,
                       overran>>
    BY <1>11 DEF UsbSof
  <2>2. ~epIn'.trcpt
    BY <1>00, <2>1, RunBits DEF TxSend
  <2> QED
    BY <1>1, <1>3, <1>4, <2>1, <2>2
<1>12. ASSUME UsbSetupCoding \/ HostConfigure \/ UNCHANGED vars
       PROVE  Accounted'
  <2>1. UNCHANGED <<received, writeBuf, bufPos, txBuf, tx, epIn, ring, onLine, mRxRingBufIndex,
                    discarded, overran>>
    BY <1>12 DEF UsbSetupCoding, HostConfigure, HostFrame, vars
  <2> QED
    BY <1>1, <1>3, <1>4, <2>1
<1>13. ASSUME UsbSetupConfig
       PROVE  Accounted'
  <2> DEFINE none == [b \in {0, 1} |-> <<>>]
  <2>1. /\ txBuf' = none /\ \E t : TxSend(t, none, Alloc(Freed))
        /\ UNCHANGED <<received, writeBuf, bufPos, ring, onLine, mRxRingBufIndex, overran>>
        /\ discarded' = discarded \union
                          ((Bytes(txBuf[0]) \union Bytes(txBuf[1])) \ Bytes(received))
    BY <1>13 DEF UsbSetupConfig
  <2>2. Alloc(Freed) \in Endpoint /\ ~Alloc(Freed).trcpt
    BY <1>0, FreedBits, OtherBits
  <2>3. ~epIn'.trcpt
    BY <2>1, <2>2, RunBits DEF TxSend
  <2>4. Bytes(txBuf'[0]) = {} /\ Bytes(txBuf'[1]) = {}
    <3>1. txBuf'[0] = <<>> /\ txBuf'[1] = <<>>
      BY <2>1
    <3> QED
      BY <3>1, NothingOrdered
  <2>5. received' = received /\ Rest' = Rest
    BY <1>2, <2>1
  <2>6. Gone' = Gone
    BY <2>1, <2>4, <2>5 DEF Gone
  <2> QED
    BY <1>1, <1>3, <2>1, <2>3, <2>6
<1>14. ASSUME UsbBusReset \/ HostUpset
       PROVE  Accounted'
  <2>1. /\ epIn' = Freed \/ epIn' = epIn \/ epIn' = BusReset(epIn)
        /\ UNCHANGED <<received, writeBuf, bufPos, txBuf, tx, ring, onLine, mRxRingBufIndex,
                       discarded, overran>>
    BY <1>14 DEF UsbBusReset, HostUpset, HostFrame
  <2>2. epIn'.trcpt => epIn.trcpt
    BY <1>0, <1>00, <2>1, FreedBits, OtherBits
  <2> QED
    BY <1>1, <1>3, <1>4, <2>1, <2>2
<1>15. ASSUME HostRead
       PROVE  Accounted'
  <2>1. /\ epIn.ready /\ received' = received \o txBuf[inBuf]
        /\ UNCHANGED <<writeBuf, bufPos, txBuf, tx, ring, onLine, mRxRingBufIndex, discarded,
                       overran>>
    BY <1>15 DEF HostRead, HostFrame, Transfers
  <2>2. inBuf = Other(tx.sel)
    BY <1>0, <1>00, <2>1 DEF HInv, Flags, HandedOver, Other
  <2>3. Bytes(received') = Bytes(received) \union Bytes(txBuf[Other(tx.sel)])
    <3>1. txBuf[Other(tx.sel)] \in Seq(0..MaxBytes)
      BY <1>00
    <3> QED
      BY <1>00, <2>1, <2>2, <3>1, BytesConcat
  <2>4. Gone' = Gone
    <3>1. txBuf' = txBuf /\ discarded' = discarded /\ Rest' = Rest
      BY <1>2, <2>1
    <3> QED
      BY <1>5, <2>3, <3>1 DEF Gone
  <2>5. Bytes(txBuf'[Other(tx'.sel)]) \subseteq Bytes(received')
    BY <2>1, <2>3
  <2>6. ~overran' => Gone' = 1..Base'
    BY <1>0, <1>1, <2>1, <2>4 DEF Accounted
  <2> QED
    BY <2>5, <2>6 DEF Accounted
<1> QED
  BY <1>6, <1>7, <1>8, <1>81, <1>9, <1>10, <1>11, <1>12, <1>13, <1>14, <1>15
  DEF Next, Main, Usb, Host
-----------------------------------------------------------------------------
(* What the host gets, for eight data bits.  With nine the main loop reads *)
(* beyond write_buf, and nothing of this holds.                            *)

LEMMA Invariance == 9 \notin DataBits => (Spec => []DInv)
<1> SUFFICES ASSUME 9 \notin DataBits PROVE Spec => []DInv
  OBVIOUS
<1>1. DInv /\ [Next]_vars => DInv'
  <2> SUFFICES ASSUME DInv, [Next]_vars PROVE DInv'
    OBVIOUS
  <2>1. HInv'
    BY HInvStep DEF DInv
  <2>2. Data' /\ Taking' /\ Accounted'
    BY DataStep, TakingStep, AccountStep
  <2>3. Within'
    BY WithinStep
  <2>4. Apart'
    BY RingStep, LineStep, AssertStep DEF Apart
  <2> QED
    BY <2>1, <2>2, <2>3, <2>4 DEF DInv
<1> QED
  BY <1>1, InitDInv, PTL DEF Spec

(* Every variable keeps to its type: write_buf and the two buffers hold no *)
(* more than their size, whatever the main loop is interrupted by.         *)
THEOREM TypeCorrect == 9 \notin DataBits => (Spec => []TypeOK)
<1> SUFFICES ASSUME 9 \notin DataBits PROVE Spec => []TypeOK
  OBVIOUS
<1>1. DInv => TypeOK
  BY DEF DInv, HInv, Flags, Transmit, Data, Within, TypeOK
<1> QED
  BY <1>1, Invariance, PTL

(* The host takes the bytes in the order of the line and none twice, and   *)
(* the assertions of process_cdc_tx hold, also behind an overrun of the    *)
(* ring, until one falls into dequeue_from_read_queue.                     *)
THEOREM HostGetsInOrder == 9 \notin DataBits => (Spec => []InOrder)
<1> SUFFICES ASSUME 9 \notin DataBits PROVE Spec => []InOrder
  OBVIOUS
<1>1. DInv => InOrder
  <2> SUFFICES ASSUME DInv, ~lapped PROVE Increasing(received) /\ asserted = {}
    BY DEF InOrder
  <2>1. received \in Seq(0..MaxBytes) /\ Rest \in Seq(0..MaxBytes)
    BY SequenceFacts DEF DInv
  <2>2. Increasing(received \o Rest) /\ asserted = {}
    BY DEF DInv, Apart, InLine, Ordered, Kept
  <2> QED
    BY <2>1, <2>2, IncreasingConcat, Sizes
<1> QED
  BY <1>1, Invariance, PTL

(* While the interface is up and the ring has not overrun, every byte of   *)
(* the line is with the host, on its way to it in order, or was given up   *)
(* with a configuration.                                                   *)
THEOREM EveryByteAccounted == 9 \notin DataBits => (Spec => []NothingLost)
<1> SUFFICES ASSUME 9 \notin DataBits PROVE Spec => []NothingLost
  OBVIOUS
<1>1. DInv => NothingLost
  <2> SUFFICES ASSUME DInv, dataRunning, ~busReset, ~overran
               PROVE  /\ Increasing(received \o OnTheWay)
                      /\ Bytes(received \o OnTheWay) \union discarded = 1..onLine
    BY DEF NothingLost
  <2>0. HInv /\ Data /\ Within /\ RingHolds /\ InLine /\ Accounted
    BY DEF DInv, Data, Apart
  <2>1. PICK r \in Seq(0..MaxBytes), h \in Seq(0..MaxBytes), w \in Seq(0..MaxBytes) :
          r = received /\ h = Buffered(txBuf, tx.sel, epIn.trcpt) /\ w = Rest
    BY <2>0, SequenceFacts
  <2>2. PICK i \in Seq(0..MaxBytes) :
          i = InRing /\ Len(i) = Readable /\ \A k \in 1..Len(i) : i[k] = Base + k
    <3>1. Readable \in Nat /\ mRxRingBufIndex \in Int
      BY <2>0, RingFacts, Sizes DEF Data
    <3>2. ASSUME NEW k \in 1..Readable
          PROVE  ring[(mRxRingBufIndex + k - 1) % RingLen] \in 0..MaxBytes
      <4>1. (mRxRingBufIndex + k - 1) % RingLen \in 0..(RingLen - 1)
        BY <3>1, Sizes
      <4> QED
        BY <2>0, <4>1 DEF Data
    <3>3. InRing \in Seq(0..MaxBytes) /\ Len(InRing) = Readable
      BY <3>1, <3>2, IsASeq, LenProperties DEF InRing
    <3> QED
      BY <2>0, <3>3 DEF RingHolds
  <2>3. h \o w \in Seq(0..MaxBytes) /\ (r \o (h \o w)) \o i = r \o ((h \o w) \o i)
    <3>1. PICK hw \in Seq(0..MaxBytes) : hw = h \o w
      BY ConcatProperties
    <3>2. (r \o hw) \o i = r \o (hw \o i)
      <4>1. Associates(r, hw, i)
        BY Appending
      <4> QED
        BY <4>1 DEF Associates
    <3> QED
      BY <3>1, <3>2
  <2>4. received \o OnTheWay = Queue \o i
    <3>1. received \o OnTheWay = r \o ((h \o w) \o i)
      BY <2>1, <2>2 DEF OnTheWay, Buffered, Rest
    <3>2. Queue = r \o (h \o w)
      BY <2>1 DEF Queue
    <3> QED
      BY <2>3, <3>1, <3>2
  <2>5. Queue \in Seq(0..MaxBytes) /\ Base \in Int /\ Ordered(Queue, Base)
    BY <2>0, SequenceFacts DEF HInv, Attached, InLine
  <2>6. /\ Ordered(Queue \o i, Base + Len(i))
        /\ Bytes(i) = (Base + 1)..(Base + Len(i))
    BY <2>2, <2>5, OrderedAppend, Sizes
  <2>7. Base + Len(i) = onLine /\ Base \in Nat /\ onLine \in Nat
    <3>1. Readable \in Nat /\ Readable <= onLine
      BY <2>0, RingFacts, Sizes DEF RingHolds
    <3>2. onLine \in Nat
      BY <2>0, Sizes DEF Data
    <3>3. Len(i) = Readable
      BY <2>2
    <3> QED
      BY <3>1, <3>2, <3>3 DEF Base
  <2>8. Bytes(Queue \o i) = Bytes(Queue) \union Bytes(i)
    BY <2>2, <2>5, BytesConcat
  <2>9. Bytes(Queue) = Bytes(r) \union (Bytes(h) \union Bytes(w))
    <3>1. Bytes(h \o w) = Bytes(h) \union Bytes(w)
      BY BytesConcat
    <3>2. PICK hw \in Seq(0..MaxBytes) : hw = h \o w
      BY <2>3
    <3>3. Bytes(r \o hw) = Bytes(r) \union Bytes(hw)
      BY BytesConcat
    <3> QED
      BY <2>1, <3>1, <3>2, <3>3 DEF Queue
  <2>10. Bytes(Queue) \union discarded = Gone
    <3>0. /\ tx.sel \in {0, 1} /\ Other(tx.sel) \in {0, 1} /\ Other(tx.sel) # tx.sel
          /\ epIn.trcpt \in BOOLEAN
      BY <2>0, BufferFacts, OtherIndex DEF HInv, Flags, Endpoint
    <3>1. Bytes(txBuf[0]) \union Bytes(txBuf[1])
            = Bytes(txBuf[tx.sel]) \union Bytes(txBuf[Other(tx.sel)])
      BY <3>0
    <3>2. CASE epIn.trcpt
      <4>1. h = txBuf[tx.sel]
        <5>1. \A b \in {0, 1} : txBuf[b] \in Seq(0..MaxBytes)
          BY <2>0 DEF Data
        <5>2. h = Buffered(txBuf, tx.sel, TRUE)
          BY <2>1, <3>2 DEF Buffered
        <5> QED
          BY <3>0, <5>1, <5>2, BufferedFacts
      <4>2. Bytes(txBuf[Other(tx.sel)]) \subseteq Bytes(received)
        BY <2>0, <3>2 DEF Accounted
      <4> QED
        BY <2>1, <2>9, <3>1, <4>1, <4>2 DEF Gone
    <3>3. CASE ~epIn.trcpt
      <4>1. PICK a \in Seq(0..MaxBytes), b \in Seq(0..MaxBytes) :
              a = txBuf[Other(tx.sel)] /\ b = txBuf[tx.sel]
        BY <2>0, <3>0 DEF Data
      <4>2. h = a \o b
        BY <2>1, <3>3, <4>1 DEF Buffered
      <4>3. Bytes(a \o b) = Bytes(a) \union Bytes(b)
        BY BytesConcat
      <4> QED
        BY <2>1, <2>9, <3>1, <4>1, <4>2, <4>3 DEF Gone
    <3> QED
      BY <3>2, <3>3
  <2>11. Gone = 1..Base
    BY <2>0 DEF Accounted
  <2>12. (1..Base) \union ((Base + 1)..onLine) = 1..onLine
    <3>1. Base <= onLine
      <4>1. Len(i) \in Nat
        BY LenProperties
      <4> QED
        BY <2>7, <4>1
    <3> QED
      BY <2>7, <3>1
  <2>13. Increasing(Queue \o i)
    BY <2>6 DEF Ordered
  <2>14. Bytes(Queue \o i) \union discarded = 1..onLine
    BY <2>6, <2>7, <2>8, <2>10, <2>11, <2>12
  <2> QED
    BY <2>4, <2>13, <2>14
<1> QED
  BY <1>1, Invariance, PTL
=============================================================================
