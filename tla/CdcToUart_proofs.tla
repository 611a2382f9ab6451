-------------------------- MODULE CdcToUart_proofs --------------------------
(***************************************************************************)
(* Theorems about CdcToUart for any buffers, queue, packet lengths and     *)
(* number of upsets: no byte of the host is lost, none sent twice or out   *)
(* of order until a reset hits one of the moments that the model names;    *)
(* and, whatever a reset hits, the transmitter is never given a second job *)
(* and the interface never stops listening.                                *)
(***************************************************************************)
EXTENDS CdcToUart, SequenceTheorems, TLAPS

(* The UART's job, its interrupts and mTxInProgress, in any state: DRE is  *)
(* enabled while there is a job, one interrupt at a time, and only with    *)
(* the flag set; and, until an initialisation hits a job, exactly then.    *)
Transmitter ==
  /\ sercom = "send" \/ job # <<>> => "DRE" \in inten
  /\ ~("DRE" \in inten /\ "TXC" \in inten)
  /\ inten # {} \/ queue # <<>> => mTxInProgress
  /\ "transmit" \notin asserted
  /\ clean => /\ mTxInProgress => inten # {}
              /\ "DRE" \in inten => job # <<>>
              /\ "TXC" \in inten => line # "idle"

(* What the locals of the main loop stand for.                             *)
Loop ==
  /\ pc \in {"count", "select", "copy"} => readBuf = <<>>
  /\ pc = "enqueue" => take <= Len(readBuf) /\ Len(queue) + take <= QueueLen

(* The endpoint of a configured interface is there, or a reset is pending. *)
Attached ==
  /\ dataRunning => configured
  /\ configured <=> epOut.enabled \/ busReset
  /\ epOut.trcpt => epOut.enabled
  /\ busReset => setup = "none" /\ ~epOut.enabled

(* A transfer that the flags speak of is at the peripheral, unless the     *)
(* main loop is about to hand it over; none is spoken of while the buffer  *)
(* being read is not empty, or the main loop has just emptied it.          *)
Asking ==
  dataRunning =>
    /\ ~busReset /\ rxOngoing => epOut.ready \/ epOut.trcpt \/ pc \in {"mark", "arm"}
    /\ ~busReset /\ epOut.busy => epOut.ready \/ epOut.trcpt \/ pc = "arm"
    /\ ~rxOngoing => rxPos < rxBufNb[rxBufSel] \/ pc = "start"

(* Until a reset does harm: the bank is the buffer that is not being read, *)
(* one transfer at a time, and the main loop's locals are up to date.      *)
HandedOver ==
  clean =>
    /\ epOut.ready \/ epOut.trcpt =>
         rxOngoing /\ epBuf = Other(rxBufSel) /\ pc \notin {"mark", "arm"}
    /\ ~(epOut.ready /\ epOut.trcpt)
    /\ ~rxOngoing => ~epOut.busy
    /\ pc \in {"mark", "arm"} => rxOngoing /\ cur.sel = Other(rxBufSel)
    /\ pc = "mark" => ~epOut.busy
    /\ rxPos <= rxBufNb[rxBufSel]
    /\ pc = "copy" => /\ cur.sel = rxBufSel /\ cur.pos = rxPos /\ cur.size > 0
                      /\ rxPos + cur.size <= rxBufNb[rxBufSel]

IInv ==
  TypeOK /\ Transmitter /\ Loop /\ Attached /\ Asking /\ HandedOver /\ NothingLost
-----------------------------------------------------------------------------
(* What the operations of an endpoint do to its bits.                      *)

LEMMA EndpointBits ==
  ASSUME NEW e \in Endpoint
  PROVE  /\ Run(e) \in Endpoint /\ Run(e).busy /\ Run(e).enabled = e.enabled
         /\ Run(e).trcpt = e.trcpt
         /\ ~e.busy => Run(e).ready = (e.ready \/ e.enabled)
         /\ e.busy => Run(e).ready = e.ready
         /\ Alloc(e) \in Endpoint /\ Alloc(e).enabled /\ ~Alloc(e).ready
         /\ Alloc(e).busy = e.busy /\ Alloc(e).trcpt = e.trcpt
         /\ Completed(e) \in Endpoint /\ ~Completed(e).busy /\ ~Completed(e).trcpt
         /\ Completed(e).enabled = e.enabled /\ Completed(e).ready = e.ready
         /\ Transferred(e) \in Endpoint /\ Transferred(e).trcpt /\ ~Transferred(e).ready
         /\ Transferred(e).busy = e.busy /\ Transferred(e).enabled = e.enabled
         /\ BusReset(e) \in Endpoint /\ ~BusReset(e).enabled /\ ~BusReset(e).trcpt
         /\ BusReset(e).busy = e.busy /\ BusReset(e).ready = e.ready
         /\ RunSucceeds(e) <=> ~e.busy /\ e.enabled
<1>1. /\ Run(e) \in Endpoint /\ Run(e).busy /\ Run(e).enabled = e.enabled
      /\ Run(e).trcpt = e.trcpt
      /\ ~e.busy => Run(e).ready = (e.ready \/ e.enabled)
      /\ e.busy => Run(e).ready = e.ready
  BY DEF Run, Endpoint
<1> QED
  BY <1>1 DEF Alloc, Completed, Transferred, BusReset, RunSucceeds, Endpoint

LEMMA FreedBits ==
  ASSUME TypeOK, Attached
  PROVE  /\ Freed \in Endpoint /\ ~Freed.enabled /\ ~Freed.trcpt
         /\ configured => ~Freed.busy /\ ~Freed.ready
<1>1. epOut \in Endpoint
  BY DEF TypeOK
<1>2. CASE configured
  <2>1. Freed = [[epOut EXCEPT !.busy = FALSE, !.ready = FALSE, !.trcpt = FALSE]
                   EXCEPT !.enabled = FALSE]
    BY <1>2 DEF Freed, Free, Abort, Reruns, Aborted
  <2> QED
    BY <1>1, <2>1 DEF Endpoint
<1>3. CASE ~configured
  BY <1>1, <1>3 DEF Freed, Attached
<1> QED
  BY <1>2, <1>3
-----------------------------------------------------------------------------
(* Sequences of bytes.                                                     *)

LEMMA Appending ==
  ASSUME NEW a \in Seq(0..MaxBytes), NEW b \in Seq(0..MaxBytes), NEW c \in Seq(0..MaxBytes)
  PROVE  a \o b \in Seq(0..MaxBytes) /\ (a \o b) \o c = a \o (b \o c)
<1>1. a \o b \in Seq(0..MaxBytes)
  BY ConcatProperties
<1>2. (a \o b) \o c = a \o (b \o c)
  BY ConcatAssociative
<1> QED
  BY <1>1, <1>2

LEMMA Nothing ==
  /\ <<>> \in Seq(0..MaxBytes) /\ Len(<<>>) = 0 /\ Bytes(<<>>) = {}
  /\ \A s \in Seq(0..MaxBytes) : s \o <<>> = s /\ <<>> \o s = s
BY EmptySeq, ConcatEmptySeq DEF Bytes

(* A sequence taken apart, at n or behind its first element.               *)
LEMMA SplitAt ==
  ASSUME NEW s \in Seq(0..MaxBytes), NEW n \in 0..Len(s)
  PROVE  /\ SubSeq(s, 1, n) \in Seq(0..MaxBytes) /\ Len(SubSeq(s, 1, n)) = n
         /\ SubSeq(s, n + 1, Len(s)) \in Seq(0..MaxBytes)
         /\ Len(SubSeq(s, n + 1, Len(s))) = Len(s) - n
         /\ SubSeq(s, 1, n) \o SubSeq(s, n + 1, Len(s)) = s
<1>1. Len(s) \in Nat /\ \A i \in 1..Len(s) : s[i] \in 0..MaxBytes
  BY LenProperties, ElementOfSeq
<1>2. /\ SubSeq(s, 1, n) \in Seq(0..MaxBytes)
      /\ Len(SubSeq(s, 1, n)) = IF 1 <= n THEN n - 1 + 1 ELSE 0
  <2>1. \A i \in 1..n : s[i] \in 0..MaxBytes
    BY <1>1
  <2> QED
    BY <1>1, <2>1, SubSeqProperties
<1>3. /\ SubSeq(s, n + 1, Len(s)) \in Seq(0..MaxBytes)
      /\ Len(SubSeq(s, n + 1, Len(s))) =
           IF n + 1 <= Len(s) THEN Len(s) - (n + 1) + 1 ELSE 0
  <2>1. n + 1 \in Int /\ \A i \in (n + 1)..Len(s) : s[i] \in 0..MaxBytes
    BY <1>1
  <2> QED
    BY <1>1, <2>1, SubSeqProperties
<1>4. SubSeq(s, 1, n) \o SubSeq(s, n + 1, Len(s)) = SubSeq(s, 1, Len(s))
  <2>1. /\ 1 \in 1..(Len(s) + 1) /\ n \in (1 - 1)..Len(s) /\ Len(s) \in n..Len(s)
    BY <1>1
  <2> QED
    BY <2>1, ConcatAdjacentSubSeq
<1>5. SubSeq(s, 1, Len(s)) = s
  BY SubSeqFull
<1>6. Len(SubSeq(s, 1, n)) = n /\ Len(SubSeq(s, n + 1, Len(s))) = Len(s) - n
  BY <1>1, <1>2, <1>3
<1> QED
  BY <1>2, <1>3, <1>4, <1>5, <1>6, Zenon

LEMMA FirstMoved ==
  ASSUME NEW s \in Seq(0..MaxBytes), NEW j \in Seq(0..MaxBytes), j # <<>>
  PROVE  /\ Append(s, Head(j)) \in Seq(0..MaxBytes) /\ Tail(j) \in Seq(0..MaxBytes)
         /\ Append(s, Head(j)) \o Tail(j) = s \o j
<1>1. Len(j) \in Nat \ {0} /\ Head(j) = j[1]
  BY EmptySeq
<1>2. Head(j) \in 0..MaxBytes /\ Tail(j) \in Seq(0..MaxBytes) /\ Tail(j) = SubSeq(j, 2, Len(j))
  BY HeadTailProperties, TailIsSubSeq
<1>3. /\ Append(s, Head(j)) \in Seq(0..MaxBytes)
      /\ Append(s, Head(j)) = s \o <<Head(j)>>
  BY <1>2, AppendProperties, AppendIsConcat
<1>4. j = <<Head(j)>> \o Tail(j)
  <2>1. SubSeq(j, 1, Len(j)) = <<j[1]>> \o SubSeq(j, 1 + 1, Len(j))
    <3>1. 1 \in 1..Len(j) /\ Len(j) \in 1..Len(j)
      BY <1>1
    <3> QED
      BY <3>1, SubSeqRecursiveFirst
  <2> QED
    BY <1>1, <1>2, <2>1, SubSeqFull
<1>5. PICK h \in Seq(0..MaxBytes), t \in Seq(0..MaxBytes) : h = <<Head(j)>> /\ t = Tail(j)
  <2>1. <<Head(j)>> \in Seq(0..MaxBytes)
    BY <1>2
  <2> QED
    BY <1>2, <2>1
<1>6. (s \o h) \o t = s \o (h \o t)
  BY Appending, SMTT(30)
<1> QED
  BY <1>2, <1>3, <1>4, <1>5, <1>6

LEMMA BytesConcat ==
  ASSUME NEW a \in Seq(0..MaxBytes), NEW b \in Seq(0..MaxBytes)
  PROVE  Bytes(a \o b) = Bytes(a) \union Bytes(b)
<1>1. Range(a \o b) = Range(a) \union Range(b)
  BY RangeConcatenation
<1> QED
  BY <1>1 DEF Bytes, Range

LEMMA BytesOf ==
  ASSUME NEW s \in Seq(0..MaxBytes)
  PROVE  Bytes(s) \subseteq 0..MaxBytes
BY RangeOfSeq DEF Bytes, Range

Below(s, t) == \A v \in Bytes(s), w \in Bytes(t) : v < w

LEMMA IncreasingConcat ==
  ASSUME NEW a \in Seq(0..MaxBytes), NEW b \in Seq(0..MaxBytes)
  PROVE  Increasing(a \o b) <=> Increasing(a) /\ Increasing(b) /\ Below(a, b)
<1>1. /\ a \o b \in Seq(0..MaxBytes) /\ Len(a) \in Nat /\ Len(b) \in Nat
      /\ DOMAIN a = 1..Len(a) /\ DOMAIN b = 1..Len(b)
      /\ DOMAIN (a \o b) = 1..(Len(a) + Len(b))
      /\ \A i \in 1..(Len(a) + Len(b)) :
           (a \o b)[i] = IF i <= Len(a) THEN a[i] ELSE b[i - Len(a)]
  BY ConcatProperties, LenProperties
<1>2. ASSUME Increasing(a \o b)
      PROVE  Increasing(a) /\ Increasing(b) /\ Below(a, b)
  <2>1. ASSUME NEW i \in DOMAIN a, NEW j \in DOMAIN a, i < j
        PROVE  a[i] < a[j]
    <3>1. /\ i \in 1..(Len(a) + Len(b)) /\ j \in 1..(Len(a) + Len(b))
          /\ (a \o b)[i] = a[i] /\ (a \o b)[j] = a[j]
      BY <1>1, <2>1
    <3> QED
      BY <1>1, <1>2, <2>1, <3>1 DEF Increasing
  <2>2. ASSUME NEW i \in DOMAIN b, NEW j \in DOMAIN b, i < j
        PROVE  b[i] < b[j]
    <3>1. /\ Len(a) + i \in 1..(Len(a) + Len(b)) /\ Len(a) + j \in 1..(Len(a) + Len(b))
          /\ (a \o b)[Len(a) + i] = b[i] /\ (a \o b)[Len(a) + j] = b[j]
          /\ Len(a) + i < Len(a) + j
      BY <1>1, <2>2
    <3> QED
      BY <1>1, <1>2, <3>1 DEF Increasing
  <2>3. ASSUME NEW i \in DOMAIN a, NEW j \in DOMAIN b
        PROVE  a[i] < b[j]
    <3>1. /\ i \in 1..(Len(a) + Len(b)) /\ Len(a) + j \in 1..(Len(a) + Len(b))
          /\ (a \o b)[i] = a[i] /\ (a \o b)[Len(a) + j] = b[j]
          /\ i < Len(a) + j
      BY <1>1, <2>3
    <3> QED
      BY <1>1, <1>2, <3>1 DEF Increasing
  <2> QED
    BY <2>1, <2>2, <2>3 DEF Increasing, Below, Bytes
<1>3. ASSUME Increasing(a), Increasing(b), Below(a, b),
             NEW i \in 1..(Len(a) + Len(b)), NEW j \in 1..(Len(a) + Len(b)), i < j
      PROVE  (a \o b)[i] < (a \o b)[j]
  <2>1. CASE j <= Len(a)
    <3>1. i \in 1..Len(a) /\ j \in 1..Len(a) /\ (a \o b)[i] = a[i] /\ (a \o b)[j] = a[j]
      BY <1>1, <1>3, <2>1
    <3> QED
      BY <1>1, <1>3, <3>1 DEF Increasing
  <2>2. CASE i <= Len(a) /\ ~(j <= Len(a))
    <3>1. /\ i \in 1..Len(a) /\ j - Len(a) \in 1..Len(b)
          /\ (a \o b)[i] = a[i] /\ (a \o b)[j] = b[j - Len(a)]
      BY <1>1, <1>3, <2>2
    <3>2. a[i] \in Bytes(a) /\ b[j - Len(a)] \in Bytes(b)
      BY <1>1, <3>1 DEF Bytes
    <3> QED
      BY <1>3, <3>1, <3>2 DEF Below
  <2>3. CASE ~(i <= Len(a))
    <3>1. /\ i - Len(a) \in 1..Len(b) /\ j - Len(a) \in 1..Len(b) /\ i - Len(a) < j - Len(a)
          /\ (a \o b)[i] = b[i - Len(a)] /\ (a \o b)[j] = b[j - Len(a)]
      BY <1>1, <1>3, <2>3
    <3> QED
      BY <1>1, <1>3, <3>1 DEF Increasing
  <2> QED
    BY <1>1, <2>1, <2>2, <2>3
<1> QED
  BY <1>1, <1>2, <1>3 DEF Increasing
-----------------------------------------------------------------------------
(* The parts of the state.                                                 *)

LEMMA Sizes ==
  /\ RxLen \in Nat \ {0} /\ QueueLen \in Nat \ {0} /\ ChunkLen \in Nat \ {0}
  /\ PosWrap \in Nat \ {0} /\ JobWrap \in Nat \ {0} /\ RxLen < PosWrap
  /\ PacketLens \subseteq 0..RxLen /\ MaxBytes \in Nat /\ MaxUpsets \in Nat
BY SizesAssumption, LimitsAssumption

LEMMA OtherIndex ==
  ASSUME NEW b \in {0, 1}
  PROVE  Other(b) \in {0, 1} /\ Other(b) # b /\ Other(Other(b)) = b
BY DEF Other

LEMMA Slots ==
  ASSUME TypeOK, NEW b \in {0, 1}
  PROVE  /\ rxBuf[b] \in Seq(0..MaxBytes) /\ Len(rxBuf[b]) = RxLen
         /\ rxBufNb[b] \in 0..RxLen
<1>1. rxBuf[b] \in [1..RxLen -> 0..MaxBytes] /\ rxBufNb[b] \in 0..RxLen
  BY DEF TypeOK
<1>2. RxLen \in Nat
  BY Sizes
<1>3. rxBuf[b] \in Seq(0..MaxBytes)
  BY <1>1, <1>2, SeqDef
<1>4. DOMAIN rxBuf[b] = 1..RxLen /\ DOMAIN rxBuf[b] = 1..Len(rxBuf[b]) /\ Len(rxBuf[b]) \in Nat
  BY <1>1, <1>3, LenProperties
<1> QED
  BY <1>1, <1>2, <1>3, <1>4

(* What has not been read of a buffer.                                     *)
LEMMA FreshFacts ==
  ASSUME TypeOK, NEW b \in {0, 1}, NEW pos \in Nat
  PROVE  /\ Fresh(b, pos) \in Seq(0..MaxBytes)
         /\ pos >= rxBufNb[b] => Fresh(b, pos) = <<>>
<1>1. /\ rxBuf[b] \in Seq(0..MaxBytes) /\ Len(rxBuf[b]) = RxLen /\ rxBufNb[b] \in 0..RxLen
      /\ RxLen \in Nat
  BY Slots, Sizes
<1>2. \A i \in (pos + 1)..rxBufNb[b] : rxBuf[b][i] \in 0..MaxBytes
  <2> SUFFICES ASSUME NEW i \in (pos + 1)..rxBufNb[b] PROVE rxBuf[b][i] \in 0..MaxBytes
    OBVIOUS
  <2>1. i \in 1..Len(rxBuf[b])
    BY <1>1
  <2> QED
    BY <1>1, <2>1, ElementOfSeq
<1>3. pos + 1 \in Int /\ rxBufNb[b] \in Int
  BY <1>1
<1>4. Fresh(b, pos) \in Seq(0..MaxBytes)
  BY <1>2, <1>3, SubSeqProperties DEF Fresh
<1>5. ASSUME pos >= rxBufNb[b] PROVE Fresh(b, pos) = <<>>
  BY <1>3, <1>5, SubSeqEmpty DEF Fresh
<1> QED
  BY <1>4, <1>5

(* The pipeline in two: what the main loop took, and what it has not read. *)
Taken == sent \o job \o queue \o readBuf

Behind == IF rxOngoing THEN Landed ELSE Fresh(Other(rxBufSel), 0)

LEMMA PipelineFacts ==
  ASSUME TypeOK
  PROVE  /\ sent \in Seq(0..MaxBytes) /\ job \in Seq(0..MaxBytes)
         /\ queue \in Seq(0..MaxBytes) /\ readBuf \in Seq(0..MaxBytes)
         /\ rxBufSel \in {0, 1} /\ epBuf \in {0, 1} /\ rxPos \in Nat
         /\ Landed \in Seq(0..MaxBytes) /\ Behind \in Seq(0..MaxBytes)
         /\ Fresh(rxBufSel, rxPos) \in Seq(0..MaxBytes)
         /\ Unread = Fresh(rxBufSel, rxPos) \o Behind /\ Unread \in Seq(0..MaxBytes)
         /\ sent \o job \in Seq(0..MaxBytes) /\ sent \o job \o queue \in Seq(0..MaxBytes)
         /\ Taken \in Seq(0..MaxBytes) /\ Pipeline = Taken \o Unread
         /\ Pipeline \in Seq(0..MaxBytes)
<1>1. /\ sent \in Seq(0..MaxBytes) /\ job \in Seq(0..MaxBytes)
      /\ queue \in Seq(0..MaxBytes) /\ readBuf \in Seq(0..MaxBytes)
      /\ rxBufSel \in {0, 1} /\ epBuf \in {0, 1} /\ rxPos \in Nat /\ pktLen \in 0..RxLen
  BY Sizes DEF TypeOK
<1>2. Landed \in Seq(0..MaxBytes)
  <2>1. rxBuf[epBuf] \in Seq(0..MaxBytes) /\ pktLen \in 0..Len(rxBuf[epBuf])
    BY <1>1, Slots
  <2>2. SubSeq(rxBuf[epBuf], 1, pktLen) \in Seq(0..MaxBytes)
    BY <2>1, SplitAt
  <2> QED
    BY <2>2, Nothing DEF Landed
<1>3. /\ Fresh(rxBufSel, rxPos) \in Seq(0..MaxBytes)
      /\ Fresh(Other(rxBufSel), 0) \in Seq(0..MaxBytes)
  BY <1>1, OtherIndex, FreshFacts
<1>4. Behind \in Seq(0..MaxBytes)
  BY <1>2, <1>3 DEF Behind
<1>5. Unread = Fresh(rxBufSel, rxPos) \o Behind
  BY DEF Unread, Behind
<1>6. Unread \in Seq(0..MaxBytes)
  BY <1>3, <1>4, <1>5, ConcatProperties
<1>7. sent \o job \in Seq(0..MaxBytes)
  BY <1>1, ConcatProperties
<1>8. sent \o job \o queue \in Seq(0..MaxBytes)
  BY <1>1, <1>7, ConcatProperties
<1>9. Taken \in Seq(0..MaxBytes)
  BY <1>1, <1>8, ConcatProperties DEF Taken
<1>10. Pipeline = Taken \o Unread
  BY DEF Pipeline, Taken
<1>11. Pipeline \in Seq(0..MaxBytes)
  BY <1>6, <1>9, <1>10, ConcatProperties
<1> QED
  BY <1>1, <1>2, <1>3, <1>4, <1>5, <1>6, <1>7, <1>8, <1>9, <1>10, <1>11, Zenon

(* dequeue_and_transmit on an idle transmitter: the queue's first bytes    *)
(* become the job, and nothing is left behind of an empty one.             *)
LEMMA TransmitDoes ==
  ASSUME NEW q \in Seq(0..MaxBytes), Len(q) <= QueueLen, NEW ints, job = <<>>,
         Transmit(q, ints)
  PROVE  /\ job' \in Seq(0..MaxBytes) /\ queue' \in Seq(0..MaxBytes)
         /\ Len(queue') <= QueueLen /\ Len(queue') <= Len(q) /\ job' \o queue' = q
         /\ asserted' = asserted
         /\ mTxInProgress' = (q # <<>>)
         /\ q # <<>> => job' # <<>> /\ inten' = ints \union {"DRE"}
         /\ q = <<>> => job' = <<>> /\ queue' = <<>> /\ inten' = ints
<1>1. Len(q) \in Nat /\ (q # <<>> => Len(q) > 0) /\ ChunkLen \in Nat \ {0} /\ QueueLen \in Nat
  BY EmptySeq, LenProperties, Sizes
<1>2. PICK n \in 0..Len(q) :
        /\ n = MinOf(Len(q), ChunkLen)
        /\ q # <<>> => n > 0
        /\ q = <<>> => n = 0
  <2>1. MinOf(Len(q), ChunkLen) \in 0..Len(q) /\ (Len(q) > 0 => MinOf(Len(q), ChunkLen) > 0)
    BY <1>1 DEF MinOf
  <2>2. q = <<>> => Len(q) = 0
    BY EmptySeq
  <2> QED
    BY <1>1, <2>1, <2>2
<1>3. /\ queue' = SubSeq(q, n + 1, Len(q)) /\ mTxInProgress' = (n > 0)
      /\ n > 0 => job' = SubSeq(q, 1, n) /\ inten' = ints \union {"DRE"}
      /\ ~(n > 0) => job' = job /\ inten' = ints
      /\ asserted' = asserted
  BY <1>2 DEF Transmit
<1>4. /\ queue' \in Seq(0..MaxBytes) /\ Len(queue') = Len(q) - n
      /\ SubSeq(q, 1, n) \in Seq(0..MaxBytes) /\ Len(SubSeq(q, 1, n)) = n
      /\ SubSeq(q, 1, n) \o queue' = q
  BY <1>3, SplitAt
<1>5. Len(queue') <= QueueLen /\ Len(queue') <= Len(q)
  BY <1>1, <1>4
<1>6. CASE q # <<>>
  <2>1. n > 0 /\ job' = SubSeq(q, 1, n) /\ inten' = ints \union {"DRE"}
    BY <1>2, <1>3, <1>6
  <2>2. job' # <<>>
    <3>1. Len(job') = n /\ n # 0
      BY <1>4, <2>1
    <3> QED
      BY <3>1, Nothing
  <2> QED
    BY <1>3, <1>4, <1>5, <1>6, <2>1, <2>2
<1>7. CASE q = <<>>
  <2>1. n = 0 /\ job' = <<>> /\ inten' = ints /\ ~(n > 0)
    BY <1>2, <1>3, <1>7
  <2>2. queue' = <<>>
    <3>1. Len(queue') = 0
      BY <1>1, <1>2, <1>4, <1>7, <2>1, EmptySeq
    <3> QED
      BY <1>4, <3>1, EmptySeq
  <2>3. job' \in Seq(0..MaxBytes) /\ job' \o queue' = q
    BY <1>7, <2>1, <2>2, Nothing
  <2> QED
    BY <1>3, <1>4, <1>5, <1>7, <2>1, <2>2, <2>3
<1> QED
  BY <1>6, <1>7

LEMMA InitIInv == Init => IInv
<1> SUFFICES ASSUME Init PROVE IInv
  OBVIOUS
<1>1. Unused \in Endpoint /\ ~Unused.ready /\ ~Unused.trcpt /\ ~Unused.busy /\ ~Unused.enabled
  BY DEF Unused, Endpoint
<1>2. TypeOK
  <2>1. rxBuf \in [{0, 1} -> [1..RxLen -> 0..MaxBytes]] /\ rxBufNb \in [{0, 1} -> 0..RxLen]
    BY Sizes DEF Init
  <2>2. /\ pktLen \in 0..RxLen /\ rxPos \in 0..(PosWrap - 1) /\ take \in 0..RxLen
        /\ cur \in [sel : {0, 1}, pos : 0..(PosWrap - 1), size : 0..RxLen]
    BY Sizes DEF Init, NoCur
  <2>3. /\ readBuf \in Seq(0..MaxBytes) /\ Len(readBuf) <= RxLen
        /\ queue \in Seq(0..MaxBytes) /\ Len(queue) <= QueueLen
        /\ job \in Seq(0..MaxBytes) /\ sent \in Seq(0..MaxBytes)
    BY Nothing, Sizes DEF Init
  <2>4. hNext \in 1..(MaxBytes + 1) /\ hLast \in 1..hNext /\ hUpsets \in 0..MaxUpsets
    BY Sizes DEF Init
  <2> QED
    BY <1>1, <2>1, <2>2, <2>3, <2>4 DEF Init, TypeOK
<1>3. Transmitter /\ Loop
  BY DEF Init, Transmitter, Loop
<1>4. Attached /\ Asking
  BY <1>1 DEF Init, Attached, Asking
<1>5. HandedOver
  BY <1>1 DEF Init, HandedOver
<1>6. NothingLost
  <2>1. Unread = <<>>
    <3>1. Fresh(0, 0) = <<>> /\ Fresh(1, 0) = <<>>
      BY <1>2, FreshFacts DEF Init
    <3>2. Unread = <<>> \o <<>>
      BY <3>1 DEF Init, Unread, Other
    <3> QED
      BY <3>2, Nothing
  <2>2. Pipeline = <<>>
    BY <2>1, Nothing DEF Init, Pipeline
  <2>3. Increasing(<<>>) /\ 1..(hNext - 1) = {} /\ discarded = {}
    BY DEF Init, Increasing
  <2> QED
    BY <2>2, <2>3, Nothing DEF NothingLost
<1> QED
  BY <1>2, <1>3, <1>4, <1>5, <1>6 DEF IInv
-----------------------------------------------------------------------------
(* The types.  The job is not empty when its next byte is taken from it,   *)
(* and a packet that a bus reset discards is of the host's bytes.          *)

LEMMA HostBytes ==
  ASSUME IInv, clean
  PROVE  /\ Bytes(Pipeline) \subseteq 1..MaxBytes
         /\ Bytes(Unread) \subseteq 1..MaxBytes /\ discarded \subseteq 1..MaxBytes
         /\ epOut.trcpt => Bytes(Landed) \subseteq Bytes(Unread)
<1>1. Bytes(Pipeline) \subseteq 1..MaxBytes
  <2>1. Bytes(Pipeline) \subseteq 1..(hNext - 1) /\ hNext \in 1..(MaxBytes + 1)
    BY DEF IInv, NothingLost, TypeOK
  <2> QED
    BY <2>1, Sizes
<1>2. Bytes(Pipeline) = Bytes(Taken) \union Bytes(Unread)
  <2>1. TypeOK
    BY DEF IInv
  <2> QED
    BY <2>1, PipelineFacts, BytesConcat
<1>3. ASSUME epOut.trcpt PROVE Bytes(Landed) \subseteq Bytes(Unread)
  <2>1. TypeOK /\ Behind = Landed
    BY <1>3 DEF IInv, HandedOver, Behind
  <2>2. Bytes(Unread) = Bytes(Fresh(rxBufSel, rxPos)) \union Bytes(Landed)
    BY <2>1, PipelineFacts, BytesConcat
  <2> QED
    BY <2>2
<1> QED
  BY <1>1, <1>2, <1>3 DEF IInv, TypeOK

EpType   == epOut \in Endpoint /\ epBuf \in {0, 1}
DmaType  == pktLen \in 0..RxLen /\ rxBuf \in [{0, 1} -> [1..RxLen -> 0..MaxBytes]]
CdcType  == /\ rxBufNb \in [{0, 1} -> 0..RxLen] /\ rxBufSel \in {0, 1}
            /\ rxPos \in 0..(PosWrap - 1)
            /\ rxOngoing \in BOOLEAN /\ dataRunning \in BOOLEAN
CtrlType == /\ configured \in BOOLEAN /\ mCDCEnabled \in BOOLEAN /\ busReset \in BOOLEAN
            /\ setup \in {"none", "config", "coding"}
CurType  == cur \in [sel : {0, 1}, pos : 0..(PosWrap - 1), size : 0..RxLen]
LoopType == /\ pc \in {"top", "count", "select", "copy", "start", "mark", "arm",
                       "space", "enqueue"}
            /\ take \in 0..RxLen
ReadType == readBuf \in Seq(0..MaxBytes) /\ Len(readBuf) <= RxLen
UartType == /\ queue \in Seq(0..MaxBytes) /\ Len(queue) <= QueueLen
            /\ mTxInProgress \in BOOLEAN
            /\ job \in Seq(0..MaxBytes) /\ inten \subseteq {"DRE", "TXC"}
            /\ line \in {"idle", "shifting", "complete"} /\ sercom \in {"idle", "send"}
SentType == sent \in Seq(0..MaxBytes) /\ discarded \subseteq 1..MaxBytes /\ clean \in BOOLEAN
HostType == hNext \in 1..(MaxBytes + 1) /\ hLast \in 1..hNext /\ hUpsets \in 0..MaxUpsets
AssertType == asserted \subseteq {"transmit", "num_read", "disable"}

LEMMA TypeParts ==
  TypeOK <=> /\ EpType /\ DmaType /\ CdcType /\ CtrlType /\ CurType /\ LoopType
             /\ ReadType /\ UartType /\ SentType /\ HostType /\ AssertType
BY DEF TypeOK, EpType, DmaType, CdcType, CtrlType, CurType, LoopType, ReadType,
       UartType, SentType, HostType, AssertType

LEMMA TypePartsNext ==
  /\ EpType' /\ DmaType' /\ CdcType' /\ CtrlType' /\ CurType' /\ LoopType'
  /\ ReadType' /\ UartType' /\ SentType' /\ HostType' /\ AssertType'
  => TypeOK'
BY DEF TypeOK, EpType, DmaType, CdcType, CtrlType, CurType, LoopType, ReadType,
       UartType, SentType, HostType, AssertType

(* What a step leaves alone keeps its type.                                *)
LEMMA Kept ==
  ASSUME TypeOK
  PROVE  /\ UNCHANGED epVars => EpType'
         /\ UNCHANGED dmaVars => DmaType'
         /\ UNCHANGED cdcVars => CdcType'
         /\ UNCHANGED ctrlVars => CtrlType'
         /\ UNCHANGED cur => CurType'
         /\ UNCHANGED readBuf => ReadType'
         /\ UNCHANGED <<pc, take>> => LoopType'
         /\ UNCHANGED mainVars => CurType' /\ ReadType' /\ LoopType'
         /\ UNCHANGED <<queue, mTxInProgress, job, inten, line, sercom>> => UartType'
         /\ UNCHANGED <<sent, discarded, clean>> => SentType'
         /\ UNCHANGED uartVars /\ UNCHANGED hostVars => UartType' /\ SentType' /\ HostType'
         /\ UNCHANGED <<hNext, hLast, hUpsets>> => HostType'
         /\ UNCHANGED asserted => AssertType'
<1> USE TypeParts
<1>1. UNCHANGED epVars => EpType'
  BY DEF epVars, EpType
<1>2. UNCHANGED dmaVars => DmaType'
  BY DEF dmaVars, DmaType
<1>3. UNCHANGED cdcVars => CdcType'
  BY DEF cdcVars, CdcType
<1>4. UNCHANGED ctrlVars => CtrlType'
  BY DEF ctrlVars, CtrlType
<1>5. UNCHANGED cur => CurType'
  BY DEF CurType
<1>6. UNCHANGED readBuf => ReadType'
  BY DEF ReadType
<1>7. UNCHANGED <<pc, take>> => LoopType'
  BY DEF LoopType
<1>8. UNCHANGED mainVars => UNCHANGED cur /\ UNCHANGED readBuf /\ UNCHANGED <<pc, take>>
  BY DEF mainVars
<1>9. UNCHANGED <<queue, mTxInProgress, job, inten, line, sercom>> => UartType'
  BY DEF UartType
<1>10. UNCHANGED <<sent, discarded, clean>> => SentType'
  BY DEF SentType
<1>11. UNCHANGED <<hNext, hLast, hUpsets>> => HostType'
  BY DEF HostType
<1>12. UNCHANGED uartVars /\ UNCHANGED hostVars =>
         /\ UNCHANGED <<queue, mTxInProgress, job, inten, line, sercom>>
         /\ UNCHANGED <<sent, discarded, clean>> /\ UNCHANGED <<hNext, hLast, hUpsets>>
  BY DEF uartVars, hostVars
<1>13. UNCHANGED asserted => AssertType'
  BY DEF AssertType
<1> QED
  BY <1>1, <1>2, <1>3, <1>4, <1>5, <1>6, <1>7, <1>8, <1>9, <1>10, <1>11, <1>12, <1>13, Zenon

LEMMA InitUartTypes ==
  ASSUME TypeOK, InitUart
  PROVE  UartType'
BY TypeParts, Nothing DEF UartType, InitUart

LEMMA WitnessTypes ==
  ASSUME TypeOK, NEW h \in BOOLEAN, NEW D, Witness(h, D), clean => D \subseteq 1..MaxBytes
  PROVE  SentType'
BY TypeParts, Nothing DEF SentType, Witness

LEMMA MainTypes ==
  ASSUME IInv, Main
  PROVE  TypeOK'
<1>1. TypeOK /\ RxLen \in Nat \ {0} /\ PosWrap \in Nat \ {0} /\ RxLen < PosWrap
      /\ MaxBytes \in Nat /\ QueueLen \in Nat
  BY Sizes DEF IInv, CurType, LoopType, ReadType
<1>2. /\ EpType /\ DmaType /\ CdcType /\ CurType /\ LoopType /\ ReadType /\ UartType
  BY <1>1, TypeParts DEF CurType, LoopType, ReadType
<1>3. Avail \in 0..RxLen
  BY <1>1, <1>2 DEF Avail, CdcType, CurType, LoopType, ReadType
<1>4. ASSUME MainFrame
      PROVE  EpType' /\ DmaType' /\ CdcType' /\ CtrlType' /\ UartType' /\ SentType' /\ HostType'
  BY <1>1, <1>4, Kept DEF MainFrame
<1>5. CASE MainTop
  <2>1. MainFrame /\ UNCHANGED cur /\ UNCHANGED readBuf /\ UNCHANGED asserted /\ LoopType'
    BY <1>2, <1>5 DEF MainTop, CurType, LoopType, ReadType
  <2> QED
    BY <1>1, <1>4, <2>1, Kept, TypePartsNext, Zenon
<1>6. CASE MainCount
  <2>1. MainFrame /\ UNCHANGED cur /\ UNCHANGED readBuf /\ UNCHANGED asserted /\ LoopType'
    BY <1>1, <1>2, <1>3, <1>6 DEF MainCount, MinOf, CurType, LoopType, ReadType
  <2> QED
    BY <1>1, <1>4, <2>1, Kept, TypePartsNext, Zenon
<1>7. CASE MainSelect
  <2>1. PICK size : /\ size = MinOf(Avail, take)
                    /\ cur' = cur \/ cur' = [sel |-> rxBufSel, pos |-> rxPos, size |-> size]
    BY <1>7 DEF MainSelect, CurType, LoopType, ReadType
  <2>2. size \in 0..RxLen
    BY <1>1, <1>2, <1>3, <2>1 DEF MinOf, CurType, LoopType, ReadType
  <2>3. CurType'
    BY <1>2, <2>1, <2>2 DEF CdcType, CurType, LoopType, ReadType
  <2>4. MainFrame /\ UNCHANGED readBuf
    BY <1>7 DEF MainSelect, CurType, LoopType, ReadType
  <2>5. LoopType' /\ AssertType'
    BY <1>1, <1>7, TypeParts DEF MainSelect, AssertType, CurType, LoopType, ReadType
  <2> QED
    BY <1>1, <1>4, <2>3, <2>4, <2>5, Kept, TypePartsNext, Zenon
<1>8. CASE MainCopy
  <2>1. cur.sel \in {0, 1} /\ cur.pos \in Nat /\ cur.size \in 0..RxLen /\ cur.size \in Nat
    BY <1>1, <1>2 DEF CurType, LoopType, ReadType
  <2>2. readBuf' \in [1..cur.size -> 0..MaxBytes]
    <3>1. PICK f : f = rxBuf[cur.sel] /\ f \in [1..RxLen -> 0..MaxBytes]
      BY <1>2, <2>1 DEF DmaType, CurType, LoopType, ReadType
    <3>2. readBuf' = [i \in 1..cur.size |-> IF cur.pos + i <= RxLen THEN f[cur.pos + i] ELSE 0]
      BY <1>8, <3>1 DEF MainCopy, CurType, LoopType, ReadType
    <3>3. \A i \in 1..cur.size : cur.pos + i <= RxLen => cur.pos + i \in 1..RxLen
      BY <1>1, <2>1 DEF CurType, LoopType, ReadType
    <3> QED
      BY <1>1, <3>1, <3>2, <3>3 DEF CurType, LoopType, ReadType
  <2>3. readBuf' \in Seq(0..MaxBytes)
    BY <2>1, <2>2, SeqDef DEF CurType, LoopType, ReadType
  <2>4. ReadType'
    <3>1. DOMAIN readBuf' = 1..cur.size /\ DOMAIN readBuf' = 1..Len(readBuf') /\ Len(readBuf') \in Nat
      BY <2>2, <2>3, LenProperties DEF CurType, LoopType, ReadType
    <3> QED
      BY <1>1, <2>1, <2>3, <3>1 DEF CurType, LoopType, ReadType
  <2>5. CdcType'
    BY <1>1, <1>2, <1>8, <2>1 DEF MainCopy, CdcType, CurType, LoopType, ReadType
  <2>6. /\ UNCHANGED epVars /\ UNCHANGED dmaVars /\ UNCHANGED ctrlVars /\ UNCHANGED uartVars
        /\ UNCHANGED hostVars /\ UNCHANGED cur /\ UNCHANGED asserted
    BY <1>8 DEF MainCopy, CurType, LoopType, ReadType
  <2>7. LoopType'
    BY <1>2, <1>8 DEF MainCopy, CurType, LoopType, ReadType
  <2> QED
    BY <1>1, <2>4, <2>5, <2>6, <2>7, Kept, TypePartsNext, Zenon
<1>9. CASE MainStart
  <2>1. CdcType' /\ CurType'
    <3>1. NoCur.pos = 0 /\ 0 \in 0..(PosWrap - 1) /\ 0 \in 0..RxLen
      BY <1>1 DEF NoCur, CurType, LoopType, ReadType
    <3>2. Other(rxBufSel) \in {0, 1} /\ rxBufSel \in {0, 1}
      BY <1>2, OtherIndex DEF CdcType, CurType, LoopType, ReadType
    <3>3. CASE rxOngoing \/ ~Drained(rxPos, rxBufNb[rxBufSel])
      BY <1>2, <1>9, <3>1, <3>3 DEF MainStart, NoCur, CdcType, CurType, LoopType, ReadType
    <3>4. CASE ~(rxOngoing \/ ~Drained(rxPos, rxBufNb[rxBufSel]))
      BY <1>2, <1>9, <3>1, <3>2, <3>4 DEF MainStart, NoCur, CdcType, CurType, LoopType, ReadType
    <3> QED
      BY <3>3, <3>4 DEF CurType, LoopType, ReadType
  <2>2. LoopType'
    BY <1>2, <1>9 DEF MainStart, CurType, LoopType, ReadType
  <2>3. /\ UNCHANGED epVars /\ UNCHANGED dmaVars /\ UNCHANGED ctrlVars /\ UNCHANGED uartVars
        /\ UNCHANGED hostVars /\ UNCHANGED readBuf /\ UNCHANGED asserted
    BY <1>9 DEF MainStart, CurType, LoopType, ReadType
  <2> QED
    BY <1>1, <2>1, <2>2, <2>3, Kept, TypePartsNext, Zenon
<1>10. CASE MainMark
  <2>1. CurType' /\ LoopType' /\ EpType'
    <3>1. NoCur \in [sel : {0, 1}, pos : 0..(PosWrap - 1), size : 0..RxLen]
      BY <1>1 DEF NoCur
    <3>2. [epOut EXCEPT !.busy = TRUE] \in Endpoint
      BY <1>2 DEF EpType, Endpoint
    <3> QED
      BY <1>2, <1>10, <3>1, <3>2 DEF MainMark, EpType, CurType, LoopType
  <2>2. /\ UNCHANGED cdcVars /\ UNCHANGED dmaVars /\ UNCHANGED ctrlVars /\ UNCHANGED uartVars
        /\ UNCHANGED hostVars /\ UNCHANGED readBuf /\ UNCHANGED asserted
    BY <1>10 DEF MainMark, CurType, LoopType, ReadType
  <2> QED
    BY <1>1, <2>1, <2>2, Kept, TypePartsNext, Zenon
<1>11. CASE MainArm
  <2>1. CurType' /\ LoopType'
    BY <1>1, <1>2, <1>11 DEF MainArm, NoCur, CurType, LoopType, ReadType
  <2>2. EpType'
    BY <1>1, <1>2, <1>11 DEF MainArm, epVars, EpType, Endpoint, CurType, LoopType, ReadType
  <2>3. /\ UNCHANGED cdcVars /\ UNCHANGED dmaVars /\ UNCHANGED ctrlVars /\ UNCHANGED uartVars
        /\ UNCHANGED hostVars /\ UNCHANGED readBuf /\ UNCHANGED asserted
    BY <1>11 DEF MainArm, CurType, LoopType, ReadType
  <2> QED
    BY <1>1, <2>1, <2>2, <2>3, Kept, TypePartsNext, Zenon
<1>12. CASE MainSpace
  <2>1. LoopType'
    <3>1. Len(readBuf) \in Nat /\ Len(queue) \in Nat /\ Len(readBuf) <= RxLen
          /\ Len(queue) <= QueueLen
      BY <1>2, LenProperties DEF UartType, CurType, LoopType, ReadType
    <3>2. MinOf(Len(readBuf), QueueLen - Len(queue)) \in 0..RxLen
      BY <1>1, <3>1 DEF MinOf, CurType, LoopType, ReadType
    <3> QED
      BY <1>2, <1>12, <3>2 DEF MainSpace, CurType, LoopType, ReadType
  <2>2. MainFrame /\ UNCHANGED cur /\ UNCHANGED readBuf /\ UNCHANGED asserted
    BY <1>12 DEF MainSpace, CurType, LoopType, ReadType
  <2> QED
    BY <1>1, <1>4, <2>1, <2>2, Kept, TypePartsNext, Zenon
<1>13. CASE MainEnqueue
  <2>1. /\ readBuf \in Seq(0..MaxBytes) /\ queue \in Seq(0..MaxBytes) /\ take \in 0..Len(readBuf)
        /\ Len(readBuf) \in Nat /\ Len(queue) \in Nat /\ Len(queue) + take <= QueueLen
        /\ Len(readBuf) <= RxLen
    BY <1>1, <1>2, <1>13, LenProperties DEF MainEnqueue, IInv, Loop, UartType, CurType, LoopType, ReadType
  <2>2. PICK s \in Seq(0..MaxBytes) : s = SubSeq(readBuf, 1, take) /\ Len(s) = take
    BY <2>1, SplitAt DEF CurType, LoopType, ReadType
  <2>3. PICK q : q = queue \o s
    OBVIOUS
  <2>4. q \in Seq(0..MaxBytes) /\ Len(q) = Len(queue) + take /\ Len(q) <= QueueLen
    BY <2>1, <2>2, <2>3, ConcatProperties DEF CurType, LoopType, ReadType
  <2>5. ReadType'
    <3>1. readBuf' = SubSeq(readBuf, take + 1, Len(readBuf))
      BY <1>13 DEF MainEnqueue, CurType, LoopType, ReadType
    <3>2. readBuf' \in Seq(0..MaxBytes) /\ Len(readBuf') = Len(readBuf) - take
      BY <2>1, <3>1, SplitAt DEF CurType, LoopType, ReadType
    <3> QED
      BY <1>1, <2>1, <3>2 DEF CurType, LoopType, ReadType
  <2>6. line' = line /\ sercom' = sercom /\ sent' = sent
    BY <1>13 DEF MainEnqueue, CurType, LoopType, ReadType
  <2>7. UartType' /\ asserted' = asserted
    <3>1. CASE mTxInProgress
      BY <1>1, <1>2, <1>13, <2>2, <2>3, <2>4, <2>6, <3>1 DEF MainEnqueue, UartType, CurType, LoopType, ReadType
    <3>2. CASE ~mTxInProgress
      <4>1. job = <<>> /\ Transmit(q, inten)
        BY <1>13, <2>2, <2>3, <3>2 DEF MainEnqueue, IInv, Transmitter, CurType, LoopType, ReadType
      <4>2. /\ job' \in Seq(0..MaxBytes) /\ queue' \in Seq(0..MaxBytes)
            /\ Len(queue') <= QueueLen /\ asserted' = asserted
            /\ mTxInProgress' \in BOOLEAN
            /\ inten' = inten \/ inten' = inten \union {"DRE"}
        BY <2>4, <4>1, TransmitDoes DEF CurType, LoopType, ReadType
      <4> QED
        BY <1>2, <2>6, <4>2 DEF UartType, CurType, LoopType, ReadType
    <3> QED
      BY <3>1, <3>2 DEF CurType, LoopType, ReadType
  <2>8. LoopType'
    BY <1>1, <1>2, <1>13 DEF MainEnqueue, CurType, LoopType, ReadType
  <2>9. /\ UNCHANGED cdcVars /\ UNCHANGED epVars /\ UNCHANGED dmaVars /\ UNCHANGED ctrlVars
        /\ UNCHANGED hostVars /\ UNCHANGED cur
    BY <1>13 DEF MainEnqueue, CurType, LoopType, ReadType
  <2>10. UNCHANGED <<sent, discarded, clean>> /\ UNCHANGED <<hNext, hLast, hUpsets>>
    BY <2>6, <2>9 DEF hostVars, CurType, LoopType, ReadType
  <2> QED
    BY <1>1, <2>5, <2>7, <2>8, <2>9, <2>10, Kept, TypePartsNext, Zenon
<1> QED
  BY <1>5, <1>6, <1>7, <1>8, <1>9, <1>10, <1>11, <1>12, <1>13 DEF Main, CurType, LoopType, ReadType

LEMMA TypeStep ==
  ASSUME IInv, [Next]_vars
  PROVE  TypeOK'
<1>1. TypeOK /\ RxLen \in Nat \ {0} /\ PosWrap \in Nat \ {0} /\ RxLen < PosWrap
      /\ MaxBytes \in Nat
  BY Sizes DEF IInv
<1>2. EpType /\ DmaType /\ CdcType /\ CtrlType /\ UartType /\ SentType /\ HostType /\ AssertType
  BY <1>1, TypeParts
<1>3. CASE SercomCheck
  <2>1. UartType' /\ UNCHANGED sent
    BY <1>2, <1>3 DEF SercomCheck, UartType
  <2>2. /\ UNCHANGED cdcVars /\ UNCHANGED epVars /\ UNCHANGED dmaVars /\ UNCHANGED ctrlVars
        /\ UNCHANGED mainVars /\ UNCHANGED asserted /\ UNCHANGED hostVars
    BY <1>3 DEF SercomCheck
  <2>3. UNCHANGED <<sent, discarded, clean>> /\ UNCHANGED <<hNext, hLast, hUpsets>>
    BY <2>1, <2>2 DEF hostVars
  <2> QED
    BY <1>1, <2>1, <2>2, <2>3, Kept, TypePartsNext, Zenon
<1>4. CASE SercomSend
  <2>1. PICK left : /\ left = IF job = <<>> THEN [i \in 1..(JobWrap - 1) |-> 0] ELSE Tail(job)
                    /\ job' = left
                    /\ inten' = IF left = <<>> THEN (inten \ {"DRE"}) \union {"TXC"} ELSE inten
    BY <1>4 DEF SercomSend
  <2>2. left \in Seq(0..MaxBytes)
    <3>1. CASE job = <<>>
      <4>1. JobWrap - 1 \in Nat /\ left \in [1..(JobWrap - 1) -> 0..MaxBytes]
        BY <1>1, <2>1, <3>1, Sizes
      <4> QED
        BY <4>1, SeqDef
    <3>2. CASE job # <<>>
      BY <1>2, <2>1, <3>2, FirstMoved DEF UartType
    <3> QED
      BY <3>1, <3>2
  <2>3. sent' \in Seq(0..MaxBytes)
    <3>1. clean => job # <<>>
      BY <1>4 DEF SercomSend, IInv, Transmitter
    <3> QED
      BY <1>2, <1>4, <3>1, FirstMoved DEF SercomSend, UartType, SentType
  <2>4. UartType'
    <3>1. inten' \subseteq {"DRE", "TXC"}
      BY <1>2, <2>1 DEF UartType
    <3>2. /\ job' \in Seq(0..MaxBytes) /\ UNCHANGED <<queue, mTxInProgress>>
          /\ line' = "shifting" /\ sercom' = "idle"
      BY <1>4, <2>1, <2>2 DEF SercomSend
    <3> QED
      BY <1>2, <3>1, <3>2 DEF UartType
  <2>5. /\ UNCHANGED cdcVars /\ UNCHANGED epVars /\ UNCHANGED dmaVars /\ UNCHANGED ctrlVars
        /\ UNCHANGED mainVars /\ UNCHANGED asserted /\ UNCHANGED hostVars
    BY <1>4 DEF SercomSend
  <2>6. SentType' /\ UNCHANGED <<hNext, hLast, hUpsets>>
    BY <1>2, <2>3, <2>5 DEF hostVars, SentType
  <2> QED
    BY <1>1, <2>4, <2>5, <2>6, Kept, TypePartsNext, Zenon
<1>5. CASE UartShifted
  <2>1. UartType' /\ UNCHANGED sent
    BY <1>2, <1>5 DEF UartShifted, UartType
  <2>2. /\ UNCHANGED cdcVars /\ UNCHANGED epVars /\ UNCHANGED dmaVars /\ UNCHANGED ctrlVars
        /\ UNCHANGED mainVars /\ UNCHANGED asserted /\ UNCHANGED hostVars
    BY <1>5 DEF UartShifted
  <2>3. UNCHANGED <<sent, discarded, clean>> /\ UNCHANGED <<hNext, hLast, hUpsets>>
    BY <2>1, <2>2 DEF hostVars
  <2> QED
    BY <1>1, <2>1, <2>2, <2>3, Kept, TypePartsNext, Zenon
<1>6. CASE SercomDone
  <2>1. /\ job = <<>> /\ Transmit(queue, inten \ {"TXC"})
        /\ line' = line /\ sercom' = sercom /\ sent' = sent
    BY <1>6 DEF SercomDone, IInv, Transmitter
  <2>2. /\ job' \in Seq(0..MaxBytes) /\ queue' \in Seq(0..MaxBytes)
        /\ Len(queue') <= QueueLen /\ asserted' = asserted
        /\ mTxInProgress' \in BOOLEAN
        /\ inten' = inten \ {"TXC"} \/ inten' = (inten \ {"TXC"}) \union {"DRE"}
    <3>1. queue \in Seq(0..MaxBytes) /\ Len(queue) <= QueueLen
      BY <1>2 DEF UartType
    <3> QED
      BY <2>1, <3>1, TransmitDoes
  <2>3. UartType'
    BY <1>2, <2>1, <2>2 DEF UartType
  <2>4. /\ UNCHANGED cdcVars /\ UNCHANGED epVars /\ UNCHANGED dmaVars /\ UNCHANGED ctrlVars
        /\ UNCHANGED mainVars /\ UNCHANGED hostVars
    BY <1>6 DEF SercomDone
  <2>5. UNCHANGED <<sent, discarded, clean>> /\ UNCHANGED <<hNext, hLast, hUpsets>>
    BY <2>1, <2>4 DEF hostVars
  <2> QED
    BY <1>1, <2>2, <2>3, <2>4, <2>5, Kept, TypePartsNext, Zenon
<1>7. CASE Main
  BY <1>7, MainTypes
<1>8. CASE UsbOut
  <2>1. /\ Completed(epOut) \in Endpoint /\ Run(Completed(epOut)) \in Endpoint
        /\ Other(rxBufSel) \in {0, 1} /\ rxBufSel \in {0, 1} /\ 0 \in 0..(PosWrap - 1)
    BY <1>1, <1>2, OtherIndex, EndpointBits DEF EpType, CdcType
  <2>2. EpType'
    BY <1>2, <1>8, <2>1 DEF UsbOut, EpType
  <2>3. CdcType'
    <3>1. CASE pktLen = 0
      BY <1>2, <1>8, <3>1 DEF UsbOut, cdcVars, CdcType
    <3>2. CASE pktLen # 0
      <4>1. /\ rxBufNb' = [rxBufNb EXCEPT ![Other(rxBufSel)] = pktLen]
            /\ dataRunning' = dataRunning /\ rxOngoing' \in BOOLEAN
            /\ rxPos' = 0 \/ rxPos' = rxPos
            /\ rxBufSel' = Other(rxBufSel) \/ rxBufSel' = rxBufSel
        BY <1>8, <3>2 DEF UsbOut
      <4> QED
        BY <1>2, <2>1, <4>1 DEF DmaType, CdcType
    <3> QED
      BY <3>1, <3>2
  <2>4. /\ UNCHANGED dmaVars /\ UNCHANGED ctrlVars /\ UNCHANGED mainVars
        /\ UNCHANGED uartVars /\ UNCHANGED asserted /\ UNCHANGED hostVars
    BY <1>8 DEF UsbOut
  <2> QED
    BY <1>1, <2>2, <2>3, <2>4, Kept, TypePartsNext, Zenon
<1>9. CASE UsbSetupCoding
  <2>1. InitUart /\ SentType'
    <3>1. InitUart /\ Witness(~UartAtWork, {})
      BY <1>9 DEF UsbSetupCoding
    <3> QED
      BY <1>1, <3>1, WitnessTypes
  <2>2. CtrlType'
    BY <1>2, <1>9 DEF UsbSetupCoding, CtrlType
  <2>3. /\ UNCHANGED cdcVars /\ UNCHANGED epVars /\ UNCHANGED dmaVars /\ UNCHANGED mainVars
        /\ UNCHANGED asserted /\ UNCHANGED <<hNext, hLast, hUpsets>>
    BY <1>9 DEF UsbSetupCoding
  <2> QED
    BY <1>1, <2>1, <2>2, <2>3, InitUartTypes, Kept, TypePartsNext, Zenon
<1>10. CASE UsbSetupConfig
  <2>1. SentType'
    <3>1. clean => Bytes(Unread) \ {0} \subseteq 1..MaxBytes
      BY HostBytes
    <3>2. Witness(~UartAtWork /\ pc \notin {"copy", "mark", "arm"}, Bytes(Unread) \ {0})
      BY <1>10 DEF UsbSetupConfig
    <3> QED
      BY <1>1, <3>1, <3>2, WitnessTypes
  <2>2. InitUart
    BY <1>10 DEF UsbSetupConfig
  <2>3. EpType'
    <3>1. Freed \in Endpoint
      BY <1>1, FreedBits DEF IInv
    <3>2. Run(Alloc(Freed)) \in Endpoint
      BY <3>1, EndpointBits
    <3> QED
      BY <1>2, <1>10, <3>2 DEF UsbSetupConfig, EpType
  <2>4. CdcType'
    <3>1. dataRunning' \in BOOLEAN
      BY <1>10 DEF UsbSetupConfig, RunSucceeds
    <3> QED
      BY <1>1, <1>10, <3>1 DEF UsbSetupConfig, CdcType
  <2>5. CtrlType' /\ AssertType'
    BY <1>2, <1>10 DEF UsbSetupConfig, DisableAsserts, CtrlType, AssertType
  <2>6. /\ UNCHANGED dmaVars /\ UNCHANGED mainVars /\ UNCHANGED <<hNext, hLast, hUpsets>>
    BY <1>10 DEF UsbSetupConfig
  <2> QED
    BY <1>1, <2>1, <2>2, <2>3, <2>4, <2>5, <2>6, InitUartTypes, Kept, TypePartsNext, Zenon
<1>11. CASE UsbBusReset
  <2>1. EpType'
    <3>1. Freed \in Endpoint
      BY <1>1, FreedBits DEF IInv
    <3> QED
      BY <1>2, <1>11, <3>1 DEF UsbBusReset, EpType
  <2>2. AssertType' /\ CtrlType' /\ CdcType'
    BY <1>2, <1>11 DEF UsbBusReset, DisableAsserts, AssertType, CtrlType, CdcType
  <2>3. /\ UNCHANGED dmaVars /\ UNCHANGED mainVars /\ UNCHANGED uartVars /\ UNCHANGED hostVars
    BY <1>11 DEF UsbBusReset
  <2> QED
    BY <1>1, <2>1, <2>2, <2>3, Kept, TypePartsNext, Zenon
<1>12. ASSUME HostFrame
       PROVE  CdcType' /\ CurType' /\ ReadType' /\ LoopType' /\ UartType' /\ AssertType'
              /\ UNCHANGED <<sent, clean, configured, mCDCEnabled>>
  <2>1. /\ UNCHANGED cdcVars /\ UNCHANGED mainVars /\ UNCHANGED uartVars /\ UNCHANGED asserted
        /\ UNCHANGED <<configured, mCDCEnabled, clean>>
    BY <1>12 DEF HostFrame
  <2>2. UNCHANGED <<queue, mTxInProgress, job, inten, line, sercom>> /\ UNCHANGED sent
    BY <2>1 DEF uartVars
  <2> QED
    BY <1>1, <2>1, <2>2, Kept
<1>13. CASE HostConfigure
  <2>1. HostFrame /\ CtrlType'
    BY <1>2, <1>13 DEF HostConfigure, HostFrame, CtrlType
  <2>2. /\ UNCHANGED epVars /\ UNCHANGED dmaVars /\ UNCHANGED <<hNext, hLast, hUpsets>>
        /\ UNCHANGED discarded
    BY <1>13 DEF HostConfigure
  <2>3. SentType'
    BY <1>2, <1>12, <2>1, <2>2 DEF SentType
  <2> QED
    BY <1>1, <1>12, <2>1, <2>2, <2>3, Kept, TypePartsNext, Zenon
<1>14. ASSUME hUpsets' = hUpsets + 1, hUpsets < MaxUpsets, UNCHANGED <<hNext, hLast>>
       PROVE  HostType'
  BY <1>2, <1>14, Sizes DEF HostType
<1>15. CASE HostReconfigure
  <2>1. HostFrame /\ CtrlType' /\ HostType'
    BY <1>2, <1>14, <1>15 DEF HostReconfigure, HostFrame, CtrlType
  <2>2. UNCHANGED epVars /\ UNCHANGED dmaVars /\ UNCHANGED discarded
    BY <1>15 DEF HostReconfigure
  <2>3. SentType'
    BY <1>2, <1>12, <2>1, <2>2 DEF SentType
  <2> QED
    BY <1>1, <1>12, <2>1, <2>2, <2>3, Kept, TypePartsNext, Zenon
<1>16. CASE HostBusReset
  <2>1. HostFrame /\ CtrlType' /\ HostType'
    BY <1>2, <1>14, <1>16 DEF HostBusReset, HostFrame, CtrlType
  <2>2. EpType'
    BY <1>2, <1>16, EndpointBits DEF HostBusReset, EpType
  <2>3. SentType'
    <3>1. clean => Bytes(Landed) \subseteq 1..MaxBytes
      BY HostBytes, Nothing DEF Landed
    <3>2. discarded' = IF clean THEN discarded \union Bytes(Landed) ELSE {}
      BY <1>16 DEF HostBusReset
    <3> QED
      BY <1>2, <1>12, <2>1, <3>1, <3>2 DEF SentType
  <2>4. UNCHANGED dmaVars
    BY <1>16 DEF HostBusReset
  <2> QED
    BY <1>1, <1>12, <2>1, <2>2, <2>3, <2>4, Kept, TypePartsNext, Zenon
<1>17. CASE HostCoding
  <2>1. HostFrame /\ CtrlType' /\ HostType'
    BY <1>2, <1>14, <1>17 DEF HostCoding, HostFrame, CtrlType
  <2>2. UNCHANGED epVars /\ UNCHANGED dmaVars /\ UNCHANGED discarded
    BY <1>17 DEF HostCoding
  <2>3. SentType'
    BY <1>2, <1>12, <2>1, <2>2 DEF SentType
  <2> QED
    BY <1>1, <1>12, <2>1, <2>2, <2>3, Kept, TypePartsNext, Zenon
<1>18. ASSUME NEW n \in PacketLens, HostSend(n) PROVE TypeOK'
  <2>1. n \in 0..RxLen /\ hNext + n <= MaxBytes + 1 /\ hNext \in 1..(MaxBytes + 1)
    BY <1>2, <1>18, Sizes DEF HostSend, HostType
  <2>2. EpType'
    BY <1>2, <1>18, EndpointBits DEF HostSend, EpType
  <2>3. DmaType'
    <3>1. PICK f : /\ f = rxBuf[epBuf] /\ f \in [1..RxLen -> 0..MaxBytes]
                   /\ epBuf \in {0, 1}
      BY <1>2 DEF DmaType, EpType
    <3>2. PICK g : /\ g = [i \in 1..RxLen |-> IF i <= n THEN hNext + i - 1 ELSE f[i]]
                   /\ g \in [1..RxLen -> 0..MaxBytes]
      <4>1. \A i \in 1..RxLen : i <= n => hNext + i - 1 \in 0..MaxBytes
        BY <1>1, <2>1
      <4>2. \A i \in 1..RxLen : f[i] \in 0..MaxBytes
        BY <3>1
      <4> DEFINE h == [i \in 1..RxLen |-> IF i <= n THEN hNext + i - 1 ELSE f[i]]
      <4>3. h \in [1..RxLen -> 0..MaxBytes]
        BY <4>1, <4>2
      <4> QED
        BY <4>3
    <3>3. rxBuf' = [rxBuf EXCEPT ![epBuf] = g] /\ pktLen' = n
      BY <1>18, <3>1, <3>2 DEF HostSend
    <3> QED
      BY <1>2, <2>1, <3>1, <3>2, <3>3 DEF DmaType
  <2>4. HostType'
    BY <1>1, <1>2, <1>18, <2>1 DEF HostSend, HostType
  <2>5. HostFrame /\ CtrlType'
    BY <1>2, <1>18 DEF HostSend, HostFrame, CtrlType
  <2>6. SentType'
    <3>1. UNCHANGED discarded
      BY <1>18 DEF HostSend
    <3> QED
      BY <1>2, <1>12, <2>5, <3>1 DEF SentType
  <2> QED
    BY <1>12, <2>2, <2>3, <2>4, <2>5, <2>6, TypePartsNext, Zenon
<1>19. CASE UNCHANGED vars
  <2>1. /\ UNCHANGED cdcVars /\ UNCHANGED epVars /\ UNCHANGED dmaVars /\ UNCHANGED ctrlVars
        /\ UNCHANGED mainVars /\ UNCHANGED uartVars /\ UNCHANGED asserted /\ UNCHANGED hostVars
    BY <1>19 DEF vars
  <2> QED
    BY <1>1, <2>1, Kept, TypePartsNext, Zenon
<1> QED
  BY <1>3, <1>4, <1>5, <1>6, <1>7, <1>8, <1>9, <1>10, <1>11, <1>13, <1>15, <1>16, <1>17,
     <1>18, <1>19 DEF Next, Sercom, Usb, Host
-----------------------------------------------------------------------------
(* The transmitter.                                                        *)

LEMMA TransmitterStep ==
  ASSUME IInv, [Next]_vars
  PROVE  Transmitter'
<1>1. /\ Transmitter /\ inten \subseteq {"DRE", "TXC"}
      /\ queue \in Seq(0..MaxBytes) /\ Len(queue) <= QueueLen
  BY DEF IInv, TypeOK
<1>2. ASSUME UNCHANGED uartVars, clean' = clean,
             "transmit" \in asserted' => "transmit" \in asserted
      PROVE  Transmitter'
  BY <1>1, <1>2 DEF uartVars, Transmitter
<1>3. ASSUME UNCHANGED hostVars PROVE clean' = clean
  BY <1>3 DEF hostVars
(* A job that ended, or none: the queue is put to work.                    *)
<1>4. ASSUME NEW q \in Seq(0..MaxBytes), Len(q) <= QueueLen, job = <<>>, Transmit(q, {}),
             sercom = "idle", sercom' = sercom
      PROVE  Transmitter'
  <2>1. /\ asserted' = asserted /\ mTxInProgress' = (q # <<>>)
        /\ q # <<>> => job' # <<>> /\ inten' = {"DRE"}
        /\ q = <<>> => job' = <<>> /\ queue' = <<>> /\ inten' = {}
    <3>1. {} \union {"DRE"} = {"DRE"}
      OBVIOUS
    <3> QED
      BY <1>4, <3>1, TransmitDoes
  <2> QED
    BY <1>1, <1>4, <2>1 DEF Transmitter
<1>5. CASE SercomCheck
  <2>1. UNCHANGED hostVars
    BY <1>5 DEF SercomCheck
  <2> QED
    BY <1>1, <1>3, <1>5, <2>1 DEF SercomCheck, Transmitter
<1>6. CASE SercomSend
  <2>1. PICK left : /\ job' = left
                    /\ inten' = IF left = <<>> THEN (inten \ {"DRE"}) \union {"TXC"} ELSE inten
    BY <1>6 DEF SercomSend
  <2>2. /\ sercom = "send" /\ sercom' = "idle" /\ line' = "shifting"
        /\ UNCHANGED <<queue, mTxInProgress, asserted>> /\ UNCHANGED hostVars
    BY <1>6 DEF SercomSend
  <2> QED
    BY <1>1, <1>3, <2>1, <2>2 DEF Transmitter
<1>7. CASE UartShifted
  <2>1. UNCHANGED hostVars
    BY <1>7 DEF UartShifted
  <2> QED
    BY <1>1, <1>3, <1>7, <2>1 DEF UartShifted, Transmitter
<1>8. CASE SercomDone
  <2>1. job = <<>> /\ inten \ {"TXC"} = {}
    BY <1>1, <1>8 DEF SercomDone, Transmitter
  <2>2. Transmit(queue, {}) /\ sercom = "idle" /\ sercom' = sercom
    BY <1>8, <2>1 DEF SercomDone
  <2> QED
    BY <1>1, <1>4, <2>1, <2>2
<1>9. CASE MainEnqueue
  <2>1. /\ readBuf \in Seq(0..MaxBytes) /\ take \in 0..Len(readBuf)
        /\ Len(queue) + take <= QueueLen /\ take \in Nat /\ Len(queue) \in Nat
    BY <1>1, <1>9, Sizes, LenProperties DEF MainEnqueue, IInv, Loop, TypeOK
  <2>2. PICK s \in Seq(0..MaxBytes) : s = SubSeq(readBuf, 1, take) /\ Len(s) = take
    BY <2>1, SplitAt
  <2>3. PICK q \in Seq(0..MaxBytes) : q = queue \o s /\ Len(q) <= QueueLen
    <3>1. queue \o s \in Seq(0..MaxBytes) /\ Len(queue \o s) = Len(queue) + Len(s)
      BY <1>1, <2>2, ConcatProperties
    <3>2. Len(queue \o s) <= QueueLen
      BY <2>1, <2>2, <3>1
    <3> QED
      BY <3>1, <3>2
  <2>4. CASE mTxInProgress
    <3>1. /\ UNCHANGED <<mTxInProgress, job, inten, asserted, line, sercom>>
          /\ UNCHANGED hostVars
      BY <1>9, <2>4 DEF MainEnqueue
    <3> QED
      BY <1>1, <1>3, <2>4, <3>1 DEF Transmitter
  <2>5. CASE ~mTxInProgress
    <3>1. job = <<>> /\ inten = {} /\ sercom = "idle" /\ sercom' = sercom
      BY <1>1, <1>9, <2>5 DEF MainEnqueue, MainRuns, Transmitter
    <3>2. Transmit(q, inten)
      BY <1>9, <2>2, <2>3, <2>5 DEF MainEnqueue
    <3> QED
      BY <1>4, <2>3, <3>1, <3>2
  <2> QED
    BY <2>4, <2>5
<1>10. ASSUME InitUart, NEW h \in BOOLEAN, NEW D, Witness(h, D), h => ~UartAtWork,
              "transmit" \in asserted' => "transmit" \in asserted
       PROVE  Transmitter'
  <2>1. /\ job' = <<>> /\ UNCHANGED <<queue, mTxInProgress, inten, sercom>>
        /\ line = "complete" => line' = "complete"
        /\ clean' => clean /\ ~(mTxInProgress /\ ~(job = <<>> /\ line = "complete"))
    BY <1>10 DEF InitUart, Witness, UartAtWork
  <2> QED
    BY <1>1, <1>10, <2>1 DEF Transmitter
<1>11. CASE UsbSetupCoding
  <2>1. /\ InitUart /\ Witness(~UartAtWork, {}) /\ asserted' = asserted
    BY <1>11 DEF UsbSetupCoding
  <2> QED
    BY <1>10, <2>1
<1>12. CASE UsbSetupConfig
  <2>1. /\ InitUart /\ asserted' = DisableAsserts
        /\ Witness(~UartAtWork /\ pc \notin {"copy", "mark", "arm"}, Bytes(Unread) \ {0})
    BY <1>12 DEF UsbSetupConfig
  <2>2. "transmit" \in asserted' => "transmit" \in asserted
    BY <2>1 DEF DisableAsserts
  <2> QED
    BY <1>10, <2>1, <2>2
<1>13. ASSUME MainFrame PROVE UNCHANGED uartVars /\ clean' = clean
  BY <1>3, <1>13 DEF MainFrame
<1>14. CASE MainTop \/ MainCount \/ MainSelect \/ MainSpace
  <2>1. MainFrame /\ ("transmit" \in asserted' => "transmit" \in asserted)
    BY <1>14 DEF MainTop, MainCount, MainSelect, MainSpace
  <2> QED
    BY <1>2, <1>13, <2>1
<1>15. CASE MainCopy \/ MainStart \/ MainMark \/ MainArm
  <2>1. UNCHANGED uartVars /\ UNCHANGED hostVars /\ asserted' = asserted
    BY <1>15 DEF MainCopy, MainStart, MainMark, MainArm
  <2> QED
    BY <1>2, <1>3, <2>1
<1>16. CASE UsbOut \/ UsbBusReset
  <2>1. /\ UNCHANGED uartVars /\ UNCHANGED hostVars
        /\ "transmit" \in asserted' => "transmit" \in asserted
    BY <1>16 DEF UsbOut, UsbBusReset, DisableAsserts
  <2> QED
    BY <1>2, <1>3, <2>1
<1>17. CASE Host
  <2>1. HostFrame
    BY <1>17 DEF Host, HostConfigure, HostReconfigure, HostBusReset, HostCoding, HostSend
  <2> QED
    BY <1>2, <2>1 DEF HostFrame
<1>18. CASE UNCHANGED vars
  <2>1. UNCHANGED uartVars /\ UNCHANGED hostVars /\ asserted' = asserted
    BY <1>18 DEF vars
  <2> QED
    BY <1>2, <1>3, <2>1
<1> QED
  BY <1>5, <1>6, <1>7, <1>8, <1>9, <1>11, <1>12, <1>14, <1>15, <1>16, <1>17, <1>18
     DEF Next, Sercom, Main, Usb

LEMMA LoopStep ==
  ASSUME IInv, [Next]_vars
  PROVE  Loop'
<1>1. /\ Loop /\ take \in Nat /\ Len(queue) \in Nat /\ Len(readBuf) \in Nat
      /\ QueueLen \in Nat /\ Len(queue) <= QueueLen
  BY Sizes, LenProperties DEF IInv, TypeOK
<1>2. ASSUME UNCHANGED mainVars, queue' = queue PROVE Loop'
  BY <1>1, <1>2 DEF mainVars, Loop
<1>3. ASSUME UNCHANGED uartVars PROVE queue' = queue
  BY <1>3 DEF uartVars
<1>4. CASE SercomCheck \/ SercomSend \/ UartShifted
  <2>1. UNCHANGED mainVars /\ queue' = queue
    BY <1>4 DEF SercomCheck, SercomSend, UartShifted
  <2> QED
    BY <1>2, <2>1
<1>5. CASE SercomDone
  <2>1. UNCHANGED mainVars /\ Transmit(queue, inten \ {"TXC"}) /\ job = <<>>
    BY <1>5 DEF SercomDone, IInv, Transmitter
  <2>2. Len(queue') <= Len(queue) /\ Len(queue') \in Nat
    <3>1. queue \in Seq(0..MaxBytes)
      BY DEF IInv, TypeOK
    <3>2. Len(queue') <= Len(queue) /\ queue' \in Seq(0..MaxBytes)
      BY <1>1, <2>1, <3>1, TransmitDoes
    <3> QED
      BY <3>2, LenProperties
  <2>3. pc' = pc /\ readBuf' = readBuf /\ take' = take
    BY <2>1 DEF mainVars
  <2> QED
    BY <1>1, <2>2, <2>3 DEF Loop
<1>6. CASE MainTop \/ MainCount \/ MainSelect
  <2>1. readBuf' = readBuf /\ pc' # "enqueue"
    BY <1>6 DEF MainTop, MainCount, MainSelect
  <2>2. pc' \in {"count", "select", "copy"} => readBuf = <<>>
    BY <1>1, <1>6 DEF MainTop, MainCount, MainSelect, Loop
  <2> QED
    BY <2>1, <2>2 DEF Loop
<1>7. CASE MainSpace
  <2>1. take' = MinOf(Len(readBuf), QueueLen - Len(queue))
    BY <1>7 DEF MainSpace
  <2>2. take' <= Len(readBuf) /\ Len(queue) + take' <= QueueLen
    BY <1>1, <2>1 DEF MinOf
  <2>3. UNCHANGED uartVars /\ readBuf' = readBuf /\ pc' = "enqueue"
    BY <1>7 DEF MainSpace, MainFrame
  <2> QED
    BY <1>3, <2>2, <2>3 DEF Loop
<1>8. CASE MainCopy \/ MainStart \/ MainMark \/ MainArm \/ MainEnqueue
  <2>1. pc' \in {"start", "mark", "arm", "space", "top"}
    BY <1>8 DEF MainCopy, MainStart, MainMark, MainArm, MainEnqueue
  <2> QED
    BY <2>1 DEF Loop
<1>9. CASE Usb
  <2>1. UNCHANGED mainVars
    BY <1>9 DEF Usb, UsbOut, UsbSetupCoding, UsbSetupConfig, UsbBusReset
  <2>2. queue' = queue
    BY <1>3, <1>9 DEF Usb, UsbOut, UsbSetupCoding, UsbSetupConfig, UsbBusReset, InitUart
  <2> QED
    BY <1>2, <2>1, <2>2
<1>10. CASE Host
  <2>1. HostFrame
    BY <1>10 DEF Host, HostConfigure, HostReconfigure, HostBusReset, HostCoding, HostSend
  <2> QED
    BY <1>2, <1>3, <2>1 DEF HostFrame
<1>11. CASE UNCHANGED vars
  BY <1>2, <1>3, <1>11 DEF vars
<1> QED
  BY <1>4, <1>5, <1>6, <1>7, <1>8, <1>9, <1>10, <1>11 DEF Next, Sercom, Main
-----------------------------------------------------------------------------
(* The endpoint: it belongs to a configured interface, what the flags      *)
(* speak of is at the peripheral, and the bank is not the buffer in use.   *)

EndpointInv == Attached /\ Asking /\ HandedOver

LEMMA EndpointStep ==
  ASSUME IInv, [Next]_vars
  PROVE  EndpointInv'
<1>1. /\ TypeOK /\ Attached /\ Asking /\ HandedOver
      /\ epOut \in Endpoint /\ rxBufSel \in {0, 1} /\ epBuf \in {0, 1}
      /\ rxPos \in Nat /\ rxBufNb[0] \in 0..RxLen /\ rxBufNb[1] \in 0..RxLen
      /\ rxBufNb \in [{0, 1} -> 0..RxLen] /\ pktLen \in 0..RxLen
      /\ RxLen \in Nat /\ PosWrap \in Nat /\ RxLen < PosWrap
  <2>1. /\ TypeOK /\ Attached /\ Asking /\ HandedOver
        /\ RxLen \in Nat /\ PosWrap \in Nat /\ RxLen < PosWrap
    BY Sizes DEF IInv
  <2>2. /\ epOut \in Endpoint /\ rxBufSel \in {0, 1} /\ epBuf \in {0, 1}
        /\ rxPos \in Nat /\ rxBufNb \in [{0, 1} -> 0..RxLen] /\ pktLen \in 0..RxLen
    BY <2>1 DEF TypeOK
  <2> QED
    BY <2>1, <2>2
<1>2. /\ Other(rxBufSel) \in {0, 1} /\ Other(rxBufSel) # rxBufSel
      /\ Other(Other(rxBufSel)) = rxBufSel
  BY <1>1, OtherIndex
<1>3. rxBufNb[rxBufSel] \in 0..RxLen
  BY <1>1
<1>4. ASSUME UNCHANGED epVars, UNCHANGED cdcVars, UNCHANGED <<configured, busReset, cur>>,
             clean' => clean, pc' = pc, busReset => setup' = "none"
      PROVE  EndpointInv'
  <2>1. Attached'
    BY <1>1, <1>4 DEF epVars, cdcVars, Attached
  <2>2. Asking'
    BY <1>1, <1>4 DEF epVars, cdcVars, Asking
  <2>3. HandedOver'
    BY <1>1, <1>4 DEF epVars, cdcVars, HandedOver
  <2> QED
    BY <2>1, <2>2, <2>3 DEF EndpointInv
<1>5. ASSUME UNCHANGED hostVars PROVE clean' = clean
  BY <1>5 DEF hostVars
<1>6. ASSUME UNCHANGED ctrlVars
      PROVE  configured' = configured /\ busReset' = busReset /\ setup' = setup
  BY <1>6 DEF ctrlVars
<1>7. CASE SercomCheck \/ SercomSend \/ UartShifted \/ SercomDone \/ UNCHANGED vars
  <2>1. /\ UNCHANGED epVars /\ UNCHANGED cdcVars /\ UNCHANGED ctrlVars /\ UNCHANGED mainVars
        /\ UNCHANGED hostVars
    BY <1>7 DEF SercomCheck, SercomSend, UartShifted, SercomDone, vars
  <2>2. pc' = pc /\ cur' = cur
    BY <2>1 DEF mainVars
  <2> QED
    BY <1>1, <1>4, <1>5, <1>6, <2>1, <2>2 DEF Attached
(* The main loop between the points that the endpoint depends on.          *)
<1>8. ASSUME UNCHANGED epVars, UNCHANGED cdcVars, UNCHANGED ctrlVars, UNCHANGED hostVars,
             pc \notin {"start", "mark", "arm"}, pc' \notin {"copy", "mark", "arm"}
      PROVE  EndpointInv'
  <2>1. Attached'
    BY <1>1, <1>6, <1>8 DEF epVars, cdcVars, Attached
  <2>2. Asking'
    BY <1>1, <1>6, <1>8 DEF epVars, cdcVars, Asking
  <2>3. HandedOver'
    BY <1>1, <1>5, <1>8 DEF epVars, cdcVars, HandedOver
  <2> QED
    BY <2>1, <2>2, <2>3 DEF EndpointInv
<1>9. CASE MainTop \/ MainCount \/ MainSpace \/ MainEnqueue
  <2>1. /\ UNCHANGED epVars /\ UNCHANGED cdcVars /\ UNCHANGED ctrlVars /\ UNCHANGED hostVars
        /\ pc \notin {"start", "mark", "arm"} /\ pc' \notin {"copy", "mark", "arm"}
    BY <1>9 DEF MainTop, MainCount, MainSpace, MainEnqueue, MainFrame
  <2> QED
    BY <1>8, <2>1
<1>10. CASE MainSelect
  <2>1. /\ UNCHANGED epVars /\ UNCHANGED cdcVars /\ UNCHANGED ctrlVars /\ UNCHANGED hostVars
        /\ pc = "select"
    BY <1>10 DEF MainSelect, MainFrame
  <2>2. CASE pc' # "copy"
    <3>1. pc' \notin {"copy", "mark", "arm"}
      BY <1>10, <2>2 DEF MainSelect
    <3> QED
      BY <1>8, <2>1, <3>1
  <2>3. CASE pc' = "copy"
    <3>1. PICK size : /\ size = MinOf(Avail, take) /\ size > 0
                      /\ cur' = [sel |-> rxBufSel, pos |-> rxPos, size |-> size]
      BY <1>10, <2>3 DEF MainSelect
    <3>2. clean => /\ rxPos <= rxBufNb[rxBufSel] /\ size <= rxBufNb[rxBufSel] - rxPos
      <4>1. take \in 0..RxLen
        BY <1>1 DEF TypeOK
      <4> QED
        BY <1>1, <1>3, <3>1, <4>1 DEF HandedOver, Avail, MinOf
    <3>3. clean => rxPos + size <= rxBufNb[rxBufSel]
      <4>1. rxPos \in Nat /\ rxBufNb[rxBufSel] \in 0..RxLen /\ RxLen \in Nat /\ take \in 0..RxLen
        <5>1. take \in 0..RxLen
          BY <1>1 DEF TypeOK
        <5> QED
          BY <1>1, <1>3, <5>1
      <4>2. Avail \in 0..RxLen
        BY <4>1 DEF Avail
      <4>3. size \in 0..RxLen
        BY <3>1, <4>1, <4>2 DEF MinOf
      <4> QED
        BY <3>2, <4>1, <4>3
    <3>4. Attached' /\ Asking'
      BY <1>1, <1>6, <2>1, <2>3 DEF epVars, cdcVars, Attached, Asking
    <3>5. HandedOver'
      BY <1>1, <1>5, <2>1, <2>3, <3>1, <3>3 DEF epVars, cdcVars, HandedOver
    <3> QED
      BY <3>4, <3>5 DEF EndpointInv
  <2> QED
    BY <2>2, <2>3
<1>11. CASE MainCopy
  <2>1. /\ UNCHANGED epVars /\ UNCHANGED ctrlVars /\ UNCHANGED hostVars
        /\ UNCHANGED <<rxBufNb, rxBufSel, rxOngoing, dataRunning>>
        /\ rxPos' = (rxPos + cur.size) % PosWrap /\ pc = "copy" /\ pc' = "start"
    BY <1>11 DEF MainCopy
  <2>2. clean => rxPos' <= rxBufNb[rxBufSel]
    <3>1. cur.size \in Nat
      BY <1>1 DEF TypeOK
    <3>2. ASSUME clean PROVE rxPos + cur.size <= rxBufNb[rxBufSel]
      BY <1>1, <2>1, <3>2 DEF HandedOver
    <3>3. ASSUME clean PROVE rxPos' = rxPos + cur.size
      BY <1>1, <1>3, <2>1, <3>1, <3>2, <3>3
    <3> QED
      BY <3>2, <3>3
  <2>3. Attached' /\ Asking'
    BY <1>1, <1>6, <2>1 DEF epVars, Attached, Asking
  <2>4. HandedOver'
    BY <1>1, <1>5, <2>1, <2>2 DEF epVars, HandedOver
  <2> QED
    BY <2>3, <2>4 DEF EndpointInv
<1>12. CASE MainStart
  <2>1. /\ UNCHANGED epVars /\ UNCHANGED ctrlVars /\ UNCHANGED hostVars
        /\ UNCHANGED <<rxBufNb, dataRunning>> /\ pc = "start"
    BY <1>12 DEF MainStart
  <2>2. Attached'
    BY <1>1, <1>6, <2>1 DEF epVars, Attached
  <2>3. CASE rxOngoing \/ rxPos < rxBufNb[rxBufSel]
    <3>1. pc' = "space" /\ UNCHANGED <<rxPos, rxBufSel, rxOngoing>>
      BY <1>1, <1>3, <1>12, <2>3 DEF MainStart, Drained
    <3>2. Asking'
      BY <1>1, <1>6, <2>1, <2>3, <3>1 DEF epVars, Asking
    <3>3. HandedOver'
      BY <1>1, <1>5, <2>1, <3>1 DEF epVars, HandedOver
    <3> QED
      BY <2>2, <3>2, <3>3 DEF EndpointInv
  <2>4. CASE ~(rxOngoing \/ rxPos < rxBufNb[rxBufSel])
    <3>1. /\ pc' = "mark" /\ cur'.sel = rxBufSel
          /\ rxPos' = 0 /\ rxBufSel' = Other(rxBufSel) /\ rxOngoing' = TRUE
      BY <1>1, <1>3, <1>12, <2>4 DEF MainStart, Drained, NoCur
    <3>2. Asking'
      BY <1>1, <1>6, <2>1, <3>1 DEF epVars, Asking
    <3>3. rxPos' <= rxBufNb'[rxBufSel']
      BY <1>1, <1>2, <2>1, <3>1
    <3>4. HandedOver'
      BY <1>1, <1>2, <1>5, <2>1, <2>4, <3>1, <3>3 DEF epVars, HandedOver
    <3> QED
      BY <2>2, <3>2, <3>4 DEF EndpointInv
  <2> QED
    BY <2>3, <2>4
<1>13. CASE MainMark
  <2>1. /\ epBuf' = epBuf /\ UNCHANGED cdcVars /\ UNCHANGED ctrlVars /\ UNCHANGED hostVars
        /\ pc = "mark"
    BY <1>13 DEF MainMark
  <2>2. /\ epOut'.enabled = epOut.enabled /\ epOut'.trcpt = epOut.trcpt
        /\ epOut'.ready = epOut.ready
        /\ \/ epOut.busy /\ epOut' = epOut /\ pc' = "space"
           \/ ~epOut.busy /\ epOut'.busy /\ pc' = "arm" /\ cur' = cur
    BY <1>1, <1>13 DEF MainMark, Endpoint
  <2>3. Attached' /\ Asking'
    BY <1>1, <1>6, <2>1, <2>2 DEF cdcVars, Attached, Asking
  <2>4. HandedOver'
    BY <1>1, <1>5, <2>1, <2>2 DEF cdcVars, HandedOver
  <2> QED
    BY <2>3, <2>4 DEF EndpointInv
<1>14. CASE MainArm
  <2>1. /\ UNCHANGED cdcVars /\ UNCHANGED ctrlVars /\ UNCHANGED hostVars
        /\ pc = "arm" /\ pc' = "space"
    BY <1>14 DEF MainArm
  <2>2. /\ epOut'.enabled = epOut.enabled /\ epOut'.trcpt = epOut.trcpt
        /\ epOut'.busy = epOut.busy
        /\ epOut.enabled => epOut'.ready /\ epBuf' = cur.sel
        /\ ~epOut.enabled => epOut' = epOut /\ epBuf' = epBuf
    BY <1>1, <1>14 DEF MainArm, Endpoint, epVars
  <2>3. Attached' /\ Asking'
    BY <1>1, <1>6, <2>1, <2>2 DEF cdcVars, Attached, Asking
  <2>4. HandedOver'
    BY <1>1, <1>5, <2>1, <2>2 DEF cdcVars, HandedOver
  <2> QED
    BY <2>3, <2>4 DEF EndpointInv
<1>15. CASE UsbOut
  <2>1. /\ UNCHANGED ctrlVars /\ UNCHANGED hostVars /\ UNCHANGED mainVars
        /\ epOut.trcpt /\ dataRunning' = dataRunning
    BY <1>15 DEF UsbOut, cdcVars
  <2>2. pc' = pc /\ cur' = cur
    BY <2>1 DEF mainVars
  <2>3. PICK e : e = Completed(epOut) /\ e \in Endpoint
    BY <1>1, EndpointBits
  <2>4. /\ ~e.busy /\ ~e.trcpt /\ e.enabled = epOut.enabled /\ e.ready = epOut.ready
        /\ epOut.enabled
    BY <1>1, <2>1, <2>3, EndpointBits DEF Attached
  <2>5. /\ ~Run(e).trcpt /\ Run(e).enabled /\ Run(e).ready /\ Run(e).busy
    <3>1. /\ Run(e).busy /\ Run(e).enabled = e.enabled /\ Run(e).trcpt = e.trcpt
          /\ ~e.busy => Run(e).ready = (e.ready \/ e.enabled)
      BY <2>3, EndpointBits
    <3> QED
      BY <2>4, <3>1
  <2>6. clean => rxOngoing /\ epBuf = Other(rxBufSel) /\ pc \notin {"mark", "arm"} /\ ~epOut.ready
    BY <1>1, <2>1 DEF HandedOver
  <2>7. CASE pktLen = 0
    <3>1. epOut' = Run(e) /\ epBuf' = Other(rxBufSel) /\ UNCHANGED cdcVars
      BY <1>15, <2>3, <2>7 DEF UsbOut
    <3>2. Attached' /\ Asking'
      BY <1>1, <1>6, <2>1, <2>2, <2>4, <2>5, <3>1 DEF cdcVars, Attached, Asking
    <3>3. HandedOver'
      BY <1>1, <1>5, <2>1, <2>2, <2>5, <2>6, <3>1 DEF cdcVars, HandedOver
    <3> QED
      BY <3>2, <3>3 DEF EndpointInv
  <2>8. CASE pktLen # 0 /\ Drained(rxPos, rxBufNb[rxBufSel])
    <3>1. /\ epOut' = Run(e) /\ epBuf' = rxBufSel
          /\ rxPos' = 0 /\ rxBufSel' = Other(rxBufSel) /\ rxOngoing' = TRUE
          /\ rxBufNb' = [rxBufNb EXCEPT ![Other(rxBufSel)] = pktLen]
      BY <1>15, <2>3, <2>8 DEF UsbOut
    <3>2. rxPos' <= rxBufNb'[rxBufSel']
      BY <1>1, <1>2, <3>1
    <3>3. clean => pc # "copy"
      <4>1. cur.size \in Nat
        BY <1>1 DEF TypeOK
      <4>2. ~(rxPos < rxBufNb[rxBufSel])
        BY <1>1, <1>3, <2>8 DEF Drained
      <4> QED
        BY <1>1, <1>3, <4>1, <4>2 DEF HandedOver
    <3>4. Attached' /\ Asking'
      BY <1>1, <1>6, <2>1, <2>4, <2>5, <3>1 DEF Attached, Asking
    <3>5. HandedOver'
      BY <1>1, <1>2, <1>5, <2>1, <2>2, <2>5, <2>6, <3>1, <3>2, <3>3 DEF HandedOver
    <3> QED
      BY <3>4, <3>5 DEF EndpointInv
  <2>9. CASE pktLen # 0 /\ ~Drained(rxPos, rxBufNb[rxBufSel])
    <3>1. /\ epOut' = e /\ epBuf' = epBuf
          /\ rxPos' = rxPos /\ rxBufSel' = rxBufSel /\ rxOngoing' = FALSE
          /\ rxBufNb' = [rxBufNb EXCEPT ![Other(rxBufSel)] = pktLen]
      BY <1>15, <2>3, <2>9 DEF UsbOut
    <3>2. rxBufNb'[rxBufSel'] = rxBufNb[rxBufSel]
      BY <1>1, <1>2, <3>1
    <3>3. rxPos < rxBufNb[rxBufSel]
      BY <1>1, <1>3, <2>9 DEF Drained
    <3>4. Attached'
      <4>1. /\ epOut'.enabled /\ ~epOut'.trcpt /\ configured' = configured
            /\ busReset' = busReset /\ dataRunning' = dataRunning
        BY <1>6, <2>1, <2>4, <3>1
      <4>2. configured /\ ~busReset
        BY <1>1, <2>4 DEF Attached
      <4> QED
        BY <4>1, <4>2 DEF Attached
    <3>5. Asking'
      <4>1. rxPos' < rxBufNb'[rxBufSel'] /\ ~rxOngoing' /\ ~epOut'.busy
        BY <2>4, <3>1, <3>2, <3>3
      <4> QED
        BY <4>1 DEF Asking
    <3>6. HandedOver'
      BY <1>1, <1>5, <2>1, <2>2, <2>4, <2>6, <3>1, <3>2 DEF HandedOver
    <3> QED
      BY <3>4, <3>5, <3>6 DEF EndpointInv
  <2> QED
    BY <2>7, <2>8, <2>9
<1>16. CASE UsbSetupCoding
  <2>1. /\ UNCHANGED epVars /\ UNCHANGED cdcVars /\ UNCHANGED mainVars
        /\ UNCHANGED <<configured, busReset>> /\ setup' = "none" /\ (clean' => clean)
    BY <1>16 DEF UsbSetupCoding, Witness
  <2>2. pc' = pc /\ cur' = cur
    BY <2>1 DEF mainVars
  <2> QED
    BY <1>4, <2>1, <2>2
<1>17. CASE UsbSetupConfig
  <2>1. PICK e : e = Alloc(Freed) /\ e \in Endpoint /\ e.enabled /\ ~e.ready /\ ~e.trcpt
    BY <1>1, FreedBits, EndpointBits
  <2>2. /\ epOut' = Run(e) /\ epBuf' = IF RunSucceeds(e) THEN 0 ELSE epBuf
        /\ dataRunning' = RunSucceeds(e) /\ setup = "config" /\ setup' = "none"
        /\ rxBufNb' = [b \in {0, 1} |-> 0] /\ rxBufSel' = 1 /\ rxPos' = 0 /\ rxOngoing' = TRUE
        /\ configured' = TRUE /\ busReset' = busReset /\ UNCHANGED mainVars
        /\ clean' => clean /\ pc \notin {"copy", "mark", "arm"}
    BY <1>17, <2>1 DEF UsbSetupConfig, Witness
  <2>3. pc' = pc
    BY <2>2 DEF mainVars
  <2>4. /\ Run(e).enabled /\ ~Run(e).trcpt /\ Run(e).busy
        /\ RunSucceeds(e) <=> ~e.busy
        /\ e.busy => ~Run(e).ready
        /\ ~e.busy => Run(e).ready
    BY <2>1, EndpointBits
  <2>5. Attached' /\ Asking'
    BY <1>1, <2>2, <2>4 DEF Attached, Asking
  <2>6. Other(1) = 0 /\ rxBufNb'[1] = 0
    BY <2>2 DEF Other
  <2>7. HandedOver'
    BY <2>2, <2>3, <2>4, <2>6 DEF HandedOver
  <2> QED
    BY <2>5, <2>7 DEF EndpointInv
<1>18. CASE UsbBusReset
  <2>1. /\ epOut' = Freed /\ configured' = FALSE /\ busReset' = FALSE
        /\ dataRunning' = IF configured THEN FALSE ELSE dataRunning
        /\ UNCHANGED <<epBuf, rxBufNb, rxBufSel, rxPos, rxOngoing>>
        /\ UNCHANGED mainVars /\ UNCHANGED hostVars
    BY <1>18 DEF UsbBusReset
  <2>2. pc' = pc /\ cur' = cur
    BY <2>1 DEF mainVars
  <2>3. dataRunning' = FALSE
    BY <1>1, <2>1 DEF Attached
  <2>4. /\ ~Freed.enabled /\ ~Freed.trcpt
        /\ configured => ~Freed.busy /\ ~Freed.ready
        /\ ~configured => Freed = epOut
    BY <1>1, FreedBits DEF Freed
  <2>5. Attached' /\ Asking'
    BY <2>1, <2>3, <2>4 DEF Attached, Asking
  <2>6. HandedOver'
    BY <1>1, <1>5, <2>1, <2>2, <2>4 DEF HandedOver
  <2> QED
    BY <2>5, <2>6 DEF EndpointInv
<1>19. ASSUME HostFrame
       PROVE  UNCHANGED cdcVars /\ pc' = pc /\ cur' = cur /\ configured' = configured /\ clean' = clean
  BY <1>19 DEF HostFrame, mainVars
<1>20. CASE HostConfigure \/ HostReconfigure \/ HostCoding
  <2>1. HostFrame /\ UNCHANGED epVars /\ busReset' = busReset /\ ~busReset
    BY <1>20 DEF HostConfigure, HostReconfigure, HostCoding, HostReady
  <2> QED
    BY <1>4, <1>19, <2>1
<1>21. CASE HostBusReset
  <2>1. /\ HostFrame /\ epOut' = BusReset(epOut) /\ epBuf' = epBuf /\ busReset' = TRUE
        /\ setup = "none" /\ setup' = setup /\ configured
    BY <1>21 DEF HostBusReset, HostReady
  <2>2. /\ ~BusReset(epOut).enabled /\ ~BusReset(epOut).trcpt
        /\ BusReset(epOut).busy = epOut.busy /\ BusReset(epOut).ready = epOut.ready
    BY <1>1, EndpointBits
  <2>3. Attached' /\ Asking'
    BY <1>1, <1>19, <2>1, <2>2 DEF cdcVars, Attached, Asking
  <2>4. HandedOver'
    BY <1>1, <1>19, <2>1, <2>2 DEF cdcVars, HandedOver
  <2> QED
    BY <2>3, <2>4 DEF EndpointInv
<1>22. ASSUME NEW n \in PacketLens, HostSend(n) PROVE EndpointInv'
  <2>1. /\ HostFrame /\ epOut' = Transferred(epOut) /\ epBuf' = epBuf
        /\ UNCHANGED <<setup, busReset>> /\ epOut.enabled /\ epOut.ready
    BY <1>22 DEF HostSend, Transfers
  <2>2. /\ Transferred(epOut).trcpt /\ ~Transferred(epOut).ready
        /\ Transferred(epOut).busy = epOut.busy /\ Transferred(epOut).enabled = epOut.enabled
    BY <1>1, EndpointBits
  <2>3. Attached' /\ Asking'
    BY <1>1, <1>19, <2>1, <2>2 DEF cdcVars, Attached, Asking
  <2>4. HandedOver'
    BY <1>1, <1>19, <2>1, <2>2 DEF cdcVars, HandedOver
  <2> QED
    BY <2>3, <2>4 DEF EndpointInv
<1> QED
  BY <1>7, <1>9, <1>10, <1>11, <1>12, <1>13, <1>14, <1>15, <1>16, <1>17, <1>18, <1>20,
     <1>21, <1>22 DEF Next, Sercom, Main, Usb, Host
-----------------------------------------------------------------------------
(* The stream.  Most steps hand bytes over without changing the pipeline.  *)

Cat(a, b) == a \o b

LEMMA CatAssociates ==
  \A x, y, z \in Seq(0..MaxBytes) :
    Cat(x, y) \in Seq(0..MaxBytes) /\ Cat(Cat(x, y), z) = Cat(x, Cat(y, z))
<1> TAKE x, y, z \in Seq(0..MaxBytes)
<1>1. x \o y \in Seq(0..MaxBytes) /\ (x \o y) \o z = x \o (y \o z)
  BY Appending, ZenonT(60)
<1> QED
  BY <1>1, ZenonT(60) DEF Cat

LEMMA Rearranged ==
  ASSUME NothingLost, clean' => clean /\ Pipeline' = Pipeline /\ discarded' = discarded,
         hNext' = hNext
  PROVE  NothingLost'
BY DEF NothingLost

LEMMA TakenKept ==
  ASSUME UNCHANGED <<sent, job, queue, readBuf>>
  PROVE  Taken' = Taken
BY DEF Taken

LEMMA UnreadKept ==
  ASSUME UNCHANGED <<rxBuf, rxBufNb, rxBufSel, rxPos, rxOngoing, pktLen>>,
         epOut'.trcpt = epOut.trcpt, epOut.trcpt => epBuf' = epBuf
  PROVE  Unread' = Unread
<1>1. Landed' = Landed
  BY DEF Landed
<1>2. Fresh(rxBufSel, rxPos)' = Fresh(rxBufSel, rxPos)
  BY DEF Fresh
<1>3. Fresh(Other(rxBufSel), 0)' = Fresh(Other(rxBufSel), 0)
  BY DEF Fresh, Other
<1>4. rxOngoing' = rxOngoing
  OBVIOUS
<1> QED
  BY <1>1, <1>2, <1>3, <1>4 DEF Unread

(* A tail of the pipeline is given up.                                     *)
LEMMA TailGivenUp ==
  ASSUME NEW p \in Seq(0..MaxBytes), NEW t \in Seq(0..MaxBytes), Increasing(p \o t),
         Bytes(p \o t) \union discarded = 1..(hNext - 1), Bytes(p \o t) \intersect discarded = {}
  PROVE  /\ Increasing(p) /\ Bytes(p) \union (discarded \union Bytes(t)) = 1..(hNext - 1)
         /\ Bytes(p) \intersect (discarded \union Bytes(t)) = {}
<1>1. /\ Bytes(p \o t) = Bytes(p) \union Bytes(t)
      /\ Increasing(p) /\ Below(p, t)
  BY BytesConcat, IncreasingConcat
<1>2. Bytes(p) \intersect Bytes(t) = {}
  <2> SUFFICES ASSUME NEW v \in Bytes(p), v \in Bytes(t) PROVE FALSE
    OBVIOUS
  <2>1. v < v /\ v \in 0..MaxBytes
    BY <1>1, BytesOf DEF Below
  <2> QED
    BY <2>1, Sizes
<1> QED
  BY <1>1, <1>2

(* The host's next packet follows.                                         *)
Follows(t, m, n) == Len(t) = n /\ \A i \in 1..n : t[i] = m + i

LEMMA PacketAdded ==
  ASSUME NEW p \in Seq(0..MaxBytes), NEW t \in Seq(0..MaxBytes), NEW n \in Nat,
         hNext \in Nat \ {0}, Follows(t, hNext - 1, n),
         Increasing(p), Bytes(p) \union discarded = 1..(hNext - 1), Bytes(p) \intersect discarded = {}
  PROVE  /\ Increasing(p \o t) /\ Bytes(p \o t) \union discarded = 1..((hNext - 1) + n)
         /\ Bytes(p \o t) \intersect discarded = {}
<1> PICK m \in Nat : m = hNext - 1 /\ Len(t) = n /\ \A i \in 1..n : t[i] = m + i
  BY DEF Follows
<1>1. DOMAIN t = 1..n
  BY LenProperties
<1>2. Bytes(t) = (m + 1)..(m + n)
  <2>1. ASSUME NEW v \in Bytes(t) PROVE v \in (m + 1)..(m + n)
    BY <1>1, <2>1 DEF Bytes
  <2>2. ASSUME NEW v \in (m + 1)..(m + n) PROVE v \in Bytes(t)
    <3>1. v - m \in 1..n /\ t[v - m] = v
      BY <2>2
    <3> QED
      BY <1>1, <3>1 DEF Bytes
  <2> QED
    BY <2>1, <2>2
<1>3. Increasing(t)
  <2> SUFFICES ASSUME NEW i \in 1..n, NEW j \in 1..n, i < j PROVE t[i] < t[j]
    BY <1>1 DEF Increasing
  <2>1. t[i] = m + i /\ t[j] = m + j
    OBVIOUS
  <2> QED
    BY <2>1
<1>4. Below(p, t)
  <2> SUFFICES ASSUME NEW v \in Bytes(p), NEW w \in Bytes(t) PROVE v < w
    BY DEF Below
  <2>1. v \in 1..m /\ w \in (m + 1)..(m + n)
    BY <1>2
  <2> QED
    BY <2>1
<1>5. Increasing(p \o t) /\ Bytes(p \o t) = Bytes(p) \union Bytes(t)
  BY <1>3, <1>4, BytesConcat, IncreasingConcat
<1>6. 1..(m + n) = (1..m) \union ((m + 1)..(m + n))
  OBVIOUS
<1>7. discarded \intersect ((m + 1)..(m + n)) = {}
  <2>1. discarded \subseteq 1..m
    OBVIOUS
  <2> QED
    BY <2>1
<1> QED
  BY <1>2, <1>5, <1>6, <1>7

(* A job is started with the first bytes of w, which is what was queued.   *)
LEMMA JobStarted ==
  ASSUME NEW a \in Seq(0..MaxBytes), NEW w \in Seq(0..MaxBytes), NEW s \in Seq(0..MaxBytes),
         NEW ints, Len(w) <= QueueLen, job = <<>>, Transmit(w, ints), sent' = a, readBuf' = s
  PROVE  Taken' = (a \o w) \o s
<1>1. job' \in Seq(0..MaxBytes) /\ queue' \in Seq(0..MaxBytes) /\ job' \o queue' = w
  BY TransmitDoes
<1>2. PICK k \in Seq(0..MaxBytes) : k = job'
  BY <1>1
<1>3. PICK u \in Seq(0..MaxBytes) : u = queue'
  BY <1>1
<1>4. Taken' = ((a \o k) \o u) \o s
  BY <1>2, <1>3 DEF Taken
<1>5. ((a \o k) \o u) \o s = (a \o (k \o u)) \o s
  <2>1. Cat(Cat(Cat(a, k), u), s) = Cat(Cat(a, Cat(k, u)), s)
    BY CatAssociates
  <2> QED
    BY <2>1 DEF Cat
<1> QED
  BY <1>1, <1>2, <1>3, <1>4, <1>5

(* Into the job and out of it.                                             *)
LEMMA TransmitterStream ==
  ASSUME IInv, clean, SercomSend \/ SercomDone \/ MainEnqueue
  PROVE  Taken' = Taken
<1>1. TypeOK /\ Transmitter /\ Loop
  BY DEF IInv
<1>2. PICK a \in Seq(0..MaxBytes) : a = sent
  BY <1>1, PipelineFacts
<1>3. PICK j \in Seq(0..MaxBytes) : j = job
  BY <1>1, PipelineFacts
<1>4. PICK q \in Seq(0..MaxBytes) : q = queue
  BY <1>1, PipelineFacts
<1>5. PICK r \in Seq(0..MaxBytes) : r = readBuf
  BY <1>1, PipelineFacts
<1>6. Taken = ((a \o j) \o q) \o r /\ Len(q) <= QueueLen
  BY <1>1, <1>2, <1>3, <1>4, <1>5 DEF Taken, TypeOK
<1>7. CASE SercomSend
  <2>1. job # <<>> /\ UNCHANGED <<queue, readBuf>>
    BY <1>1, <1>7 DEF SercomSend, Transmitter, mainVars
  <2>2. sent' = Append(a, Head(j)) /\ job' = Tail(j)
    BY <1>2, <1>3, <1>7, <2>1 DEF SercomSend
  <2>3. sent' \o job' = a \o j
    BY <1>3, <2>1, <2>2, FirstMoved
  <2>4. Taken' = ((sent' \o job') \o queue') \o readBuf'
    BY DEF Taken
  <2> QED
    BY <1>4, <1>5, <1>6, <2>1, <2>3, <2>4
<1>8. CASE SercomDone
  <2>1. /\ job = <<>> /\ Transmit(queue, inten \ {"TXC"}) /\ sent' = sent /\ readBuf' = r
    BY <1>1, <1>5, <1>8 DEF SercomDone, Transmitter, mainVars
  <2>2. Taken' = (a \o q) \o r
    BY <1>2, <1>4, <1>6, <2>1, JobStarted
  <2>3. a \o j = a
    BY <1>3, <2>1, Nothing
  <2> QED
    BY <1>6, <2>2, <2>3
<1>9. CASE MainEnqueue
  <2>1. /\ take \in 0..Len(r) /\ Len(q) + take <= QueueLen /\ take \in Nat /\ Len(q) \in Nat
    BY <1>1, <1>4, <1>5, <1>9, Sizes, LenProperties DEF MainEnqueue, Loop, TypeOK
  <2>2. PICK s \in Seq(0..MaxBytes) : s = SubSeq(r, 1, take) /\ Len(s) = take
    BY <2>1, SplitAt
  <2>3. PICK u \in Seq(0..MaxBytes) : u = SubSeq(r, take + 1, Len(r))
    BY <2>1, SplitAt
  <2>4. PICK w \in Seq(0..MaxBytes) : w = q \o s /\ Len(w) <= QueueLen
    <3>1. q \o s \in Seq(0..MaxBytes) /\ Len(q \o s) = Len(q) + Len(s)
      BY ConcatProperties
    <3>2. Len(q \o s) <= QueueLen
      BY <2>1, <2>2, <3>1
    <3> QED
      BY <3>1, <3>2
  <2>5. readBuf' = u /\ sent' = sent
    BY <1>5, <1>9, <2>3 DEF MainEnqueue
  <2>6. ((a \o j) \o w) \o u = ((a \o j) \o q) \o r
    <3>1. PICK x \in Seq(0..MaxBytes) : x = a \o j
      BY Appending
    <3>2. s \o u = r
      BY <2>1, <2>2, <2>3, SplitAt
    <3>3. Cat(Cat(x, Cat(q, s)), u) = Cat(Cat(x, q), Cat(s, u))
      BY CatAssociates
    <3> QED
      BY <2>4, <3>1, <3>2, <3>3 DEF Cat
  <2>7. CASE mTxInProgress
    <3>1. queue' = w /\ job' = j
      BY <1>3, <1>4, <1>5, <1>9, <2>2, <2>4, <2>7 DEF MainEnqueue
    <3>2. Taken' = ((a \o j) \o w) \o u
      BY <1>2, <2>5, <3>1 DEF Taken
    <3> QED
      BY <1>6, <2>6, <3>2
  <2>8. CASE ~mTxInProgress
    <3>1. job = <<>>
      BY <1>1, <2>8 DEF Transmitter
    <3>2. Transmit(w, inten)
      BY <1>4, <1>5, <1>9, <2>2, <2>4, <2>8 DEF MainEnqueue
    <3>3. Taken' = (a \o w) \o u
      <4>1. sent' = a /\ readBuf' = u /\ Len(w) <= QueueLen
        BY <1>2, <2>4, <2>5
      <4> QED
        BY <3>1, <3>2, <4>1, JobStarted
    <3>4. a \o j = a
      BY <1>3, <3>1, Nothing
    <3> QED
      BY <1>6, <2>6, <3>3, <3>4
  <2> QED
    BY <2>7, <2>8
<1> QED
  BY <1>7, <1>8, <1>9

(* The main loop takes the bytes it reads from the head of what is unread. *)
LEMMA CopyStream ==
  ASSUME IInv, clean, MainCopy
  PROVE  Pipeline' = Pipeline
<1>1. /\ TypeOK /\ pc = "copy" /\ readBuf = <<>>
      /\ cur.sel = rxBufSel /\ cur.pos = rxPos /\ cur.size > 0
      /\ rxPos + cur.size <= rxBufNb[rxBufSel]
  BY DEF IInv, MainCopy, Loop, HandedOver
<1>2. rxBufSel \in {0, 1} /\ rxPos \in Nat /\ cur.size \in Nat
  BY <1>1, Sizes DEF TypeOK
<1>3. PICK f \in Seq(0..MaxBytes) : f = rxBuf[rxBufSel] /\ Len(f) = RxLen
  BY <1>1, <1>2, Slots
<1>4. PICK p \in Nat : p = rxPos
  BY <1>2
<1>5. PICK n \in Nat : n = cur.size /\ n > 0
  BY <1>1, <1>2
<1>6. PICK nb \in 0..RxLen : nb = rxBufNb[rxBufSel]
  BY <1>1, <1>2, Slots
<1>7. p + n <= nb /\ nb <= RxLen /\ nb \in Nat /\ RxLen \in Nat /\ RxLen < PosWrap /\ PosWrap \in Nat
  BY <1>1, <1>4, <1>5, <1>6, Sizes
<1>8. PICK r \in Seq(0..MaxBytes) :
        r = SubSeq(f, p + 1, p + n) /\ Len(r) = n /\ \A i \in 1..n : r[i] = f[p + i]
  <2>1. \A i \in (p + 1)..(p + n) : f[i] \in 0..MaxBytes
    <3> SUFFICES ASSUME NEW i \in (p + 1)..(p + n) PROVE f[i] \in 0..MaxBytes
      OBVIOUS
    <3>1. i \in 1..Len(f)
      BY <1>3, <1>7
    <3> QED
      BY <3>1, ElementOfSeq
  <2>8. p + 1 \in Int /\ p + n \in Int
    BY <1>3
  <2>2. /\ SubSeq(f, p + 1, p + n) \in Seq(0..MaxBytes)
        /\ Len(SubSeq(f, p + 1, p + n)) =
             IF p + 1 <= p + n THEN (p + n) - (p + 1) + 1 ELSE 0
        /\ \A i \in 1..((p + n) - (p + 1) + 1) : SubSeq(f, p + 1, p + n)[i] = f[(p + 1) + i - 1]
    BY <2>1, <2>8, SubSeqProperties, SMTT(40)
  <2>3. Len(SubSeq(f, p + 1, p + n)) = n
    <3>1. p + 1 <= p + n /\ (p + n) - (p + 1) + 1 = n
      BY <1>5
    <3>2. Len(SubSeq(f, p + 1, p + n)) =
            IF p + 1 <= p + n THEN (p + n) - (p + 1) + 1 ELSE 0
      BY <2>2, Zenon
    <3> QED
      BY <3>1, <3>2, Zenon
  <2>4. \A i \in 1..n : SubSeq(f, p + 1, p + n)[i] = f[p + i]
    <3> TAKE i \in 1..n
    <3>1. i \in 1..((p + n) - (p + 1) + 1) /\ (p + 1) + i - 1 = p + i
      OBVIOUS
    <3> QED
      BY <2>2, <3>1
  <2> QED
    BY <2>2, <2>3, <2>4
<1>9. readBuf' = r
  <2>1. readBuf' = [i \in 1..n |-> IF p + i <= RxLen THEN f[p + i] ELSE 0]
    BY <1>1, <1>3, <1>4, <1>5 DEF MainCopy
  <2>2. \A i \in 1..n : p + i <= RxLen
    BY <1>7
  <2>3. DOMAIN r = 1..n /\ r = [i \in DOMAIN r |-> r[i]]
    BY <1>8, LenProperties, SeqDef
  <2> QED
    BY <1>8, <2>1, <2>2, <2>3
<1>10. rxPos' = p + n
  <2>1. rxPos' = (p + n) % PosWrap
    BY <1>4, <1>5 DEF MainCopy
  <2>2. \A k \in 0..(PosWrap - 1) : k % PosWrap = k
    BY <1>7
  <2>3. p + n \in 0..(PosWrap - 1)
    BY <1>7
  <2> QED
    BY <2>1, <2>2, <2>3
<1>11. PICK g \in Seq(0..MaxBytes) : g = SubSeq(f, (p + n) + 1, nb)
  <2>1. SubSeq(f, (p + n) + 1, nb) = Fresh(rxBufSel, p + n)
    BY <1>3, <1>6 DEF Fresh
  <2>2. p + n \in Nat
    OBVIOUS
  <2>3. Fresh(rxBufSel, p + n) \in Seq(0..MaxBytes)
    BY <1>1, <1>2, <2>2, FreshFacts
  <2> QED
    BY <2>1, <2>3
<1>12. Fresh(rxBufSel, rxPos) = r \o g
  <2>1. /\ p + 1 \in 1..(Len(f) + 1) /\ p + n \in ((p + 1) - 1)..Len(f)
        /\ nb \in (p + n)..Len(f)
    BY <1>3, <1>7
  <2>2. SubSeq(f, p + 1, p + n) \o SubSeq(f, (p + n) + 1, nb) = SubSeq(f, p + 1, nb)
    BY <2>1, ConcatAdjacentSubSeq
  <2> QED
    BY <1>3, <1>4, <1>6, <1>8, <1>11, <2>2 DEF Fresh
<1>13. /\ UNCHANGED <<epOut, epBuf, rxBuf, pktLen, rxBufNb, rxBufSel, rxOngoing, sent, job, queue>>
  BY DEF MainCopy, epVars, dmaVars, uartVars
<1>14. Fresh(rxBufSel, rxPos)' = g
  BY <1>3, <1>6, <1>10, <1>11, <1>13 DEF Fresh
<1>15. Behind' = Behind
  <2>1. Landed' = Landed
    BY <1>13 DEF Landed
  <2>2. Fresh(Other(rxBufSel), 0)' = Fresh(Other(rxBufSel), 0)
    BY <1>13 DEF Fresh, Other
  <2>3. rxOngoing' = rxOngoing
    BY <1>13
  <2> QED
    BY <2>1, <2>2, <2>3 DEF Behind
<1>16. PICK x \in Seq(0..MaxBytes) : x = sent \o job \o queue
  BY <1>1, PipelineFacts
<1>17. PICK h \in Seq(0..MaxBytes) : h = Behind
  BY <1>1, PipelineFacts
<1>18. Pipeline = x \o ((r \o g) \o h)
  <2>1. Taken = x \o <<>> /\ Pipeline = Taken \o (Fresh(rxBufSel, rxPos) \o Behind)
    BY <1>1, <1>16, PipelineFacts DEF Taken
  <2>2. x \o <<>> = x
    BY Nothing
  <2> QED
    BY <1>12, <1>17, <2>1, <2>2
<1>19. Pipeline' = (x \o r) \o (g \o h)
  <2>1. Unread' = Fresh(rxBufSel, rxPos)' \o Behind'
    BY DEF Unread, Behind
  <2>2. Pipeline' = (((sent \o job) \o queue)' \o readBuf') \o Unread'
    BY DEF Pipeline
  <2>3. ((sent \o job) \o queue)' = x
    BY <1>13, <1>16
  <2> QED
    BY <1>9, <1>14, <1>15, <1>17, <2>1, <2>2, <2>3
<1>20. Cat(Cat(x, r), Cat(g, h)) = Cat(x, Cat(Cat(r, g), h))
  BY CatAssociates
<1> QED
  BY <1>18, <1>19, <1>20 DEF Cat

(* A buffer that the main loop has read is exchanged for the one behind it.*)
LEMMA StartStream ==
  ASSUME IInv, clean, MainStart
  PROVE  Unread' = Unread
<1>1. TypeOK /\ HandedOver
  BY DEF IInv
<1>2. rxBufSel \in {0, 1} /\ rxPos \in Nat /\ rxBufNb[rxBufSel] \in Nat
  <2>1. rxBufSel \in {0, 1} /\ rxPos \in Nat
    BY <1>1, PipelineFacts
  <2>2. rxBufNb[rxBufSel] \in 0..RxLen /\ RxLen \in Nat
    BY <1>1, <2>1, Slots, Sizes
  <2> QED
    BY <2>1, <2>2
<1>3. UNCHANGED <<epOut, epBuf, rxBuf, pktLen, rxBufNb>>
  BY DEF MainStart, epVars, dmaVars
<1>4. CASE rxOngoing \/ ~Drained(rxPos, rxBufNb[rxBufSel])
  <2>1. UNCHANGED <<rxPos, rxBufSel, rxOngoing>>
    BY <1>4 DEF MainStart
  <2> QED
    BY <1>3, <2>1, UnreadKept
<1>5. CASE ~(rxOngoing \/ ~Drained(rxPos, rxBufNb[rxBufSel]))
  <2>1. /\ ~rxOngoing /\ rxPos >= rxBufNb[rxBufSel]
        /\ rxPos' = 0 /\ rxBufSel' = Other(rxBufSel) /\ rxOngoing'
    BY <1>5 DEF MainStart, Drained
  <2>2. Fresh(rxBufSel, rxPos) = <<>>
    BY <1>1, <1>2, <2>1, FreshFacts
  <2>3. PICK s \in Seq(0..MaxBytes) : s = Fresh(Other(rxBufSel), 0)
    BY <1>1, <1>2, OtherIndex, FreshFacts
  <2>4. Unread = s
    BY <2>1, <2>2, <2>3, Nothing DEF Unread
  <2>5. ~epOut.trcpt
    BY <1>1, <2>1 DEF HandedOver
  <2>6. Landed' = <<>>
    BY <1>3, <2>5 DEF Landed
  <2>7. Fresh(rxBufSel, rxPos)' = s
    BY <1>3, <2>1, <2>3 DEF Fresh
  <2>8. Unread' = s \o <<>>
    BY <2>1, <2>6, <2>7 DEF Unread
  <2> QED
    BY <2>4, <2>8, Nothing
<1> QED
  BY <1>4, <1>5

(* A packet that landed becomes the contents of its buffer.                *)
LEMMA OutStream ==
  ASSUME IInv, clean, UsbOut
  PROVE  Unread' = Unread
<1>1. /\ TypeOK /\ epOut.trcpt /\ rxOngoing /\ epBuf = Other(rxBufSel)
  BY DEF IInv, HandedOver, UsbOut
<1>2. /\ rxBufSel \in {0, 1} /\ rxPos \in Nat /\ rxBufNb[rxBufSel] \in Nat
      /\ rxBufNb \in [{0, 1} -> 0..RxLen] /\ pktLen \in 0..RxLen /\ pktLen \in Nat
  <2>1. rxBufSel \in {0, 1} /\ rxPos \in Nat /\ rxBufNb[rxBufSel] \in 0..RxLen
    BY <1>1, Slots, PipelineFacts
  <2>2. rxBufNb \in [{0, 1} -> 0..RxLen] /\ pktLen \in 0..RxLen
    BY <1>1 DEF TypeOK
  <2> QED
    BY <2>1, <2>2, Sizes
<1>3. /\ Other(rxBufSel) \in {0, 1} /\ Other(rxBufSel) # rxBufSel
      /\ Other(Other(rxBufSel)) = rxBufSel
  BY <1>2, OtherIndex
<1>4. UNCHANGED <<rxBuf, pktLen>>
  BY DEF UsbOut, dmaVars
<1>5. ~epOut'.trcpt
  <2>1. /\ epOut \in Endpoint
    BY <1>1 DEF TypeOK
  <2>2. PICK e \in Endpoint : e = Completed(epOut) /\ ~e.trcpt
    BY <2>1, EndpointBits
  <2>3. ~Run(e).trcpt
    BY <2>2, EndpointBits
  <2>4. epOut' = e \/ epOut' = Run(e)
    BY <2>2 DEF UsbOut
  <2> QED
    BY <2>2, <2>3, <2>4
<1>6. Landed' = <<>>
  BY <1>5 DEF Landed
<1>7. PICK h \in Seq(0..MaxBytes) : h = Fresh(rxBufSel, rxPos)
  BY <1>1, PipelineFacts
<1>8. PICK t \in Seq(0..MaxBytes) : t = Landed /\ t = SubSeq(rxBuf[Other(rxBufSel)], 1, pktLen)
  BY <1>1, PipelineFacts DEF Landed
<1>9. Unread = h \o t
  BY <1>1, <1>7, <1>8 DEF Unread
<1>10. CASE pktLen = 0
  <2>1. UNCHANGED cdcVars
    BY <1>10 DEF UsbOut
  <2>2. t = <<>>
    BY <1>8, <1>10, SubSeqEmpty
  <2>3. Fresh(rxBufSel, rxPos)' = h /\ rxOngoing'
    BY <1>1, <1>4, <1>7, <2>1 DEF Fresh, cdcVars
  <2> QED
    BY <1>6, <1>9, <2>2, <2>3 DEF Unread
<1>11. CASE pktLen # 0 /\ Drained(rxPos, rxBufNb[rxBufSel])
  <2>1. /\ rxBufNb' = [rxBufNb EXCEPT ![Other(rxBufSel)] = pktLen]
        /\ rxPos' = 0 /\ rxBufSel' = Other(rxBufSel) /\ rxOngoing' = TRUE
    BY <1>11 DEF UsbOut
  <2>2. h = <<>>
    BY <1>1, <1>2, <1>7, <1>11, FreshFacts DEF Drained
  <2>3. rxBufNb'[rxBufSel'] = pktLen
    BY <1>2, <1>3, <2>1
  <2>4. Fresh(rxBufSel, rxPos)' = t
    BY <1>4, <1>8, <2>1, <2>3 DEF Fresh
  <2>5. Unread' = t \o <<>>
    BY <1>6, <2>1, <2>4 DEF Unread
  <2> QED
    BY <1>9, <2>2, <2>5, Nothing
<1>12. CASE pktLen # 0 /\ ~Drained(rxPos, rxBufNb[rxBufSel])
  <2>1. /\ rxBufNb' = [rxBufNb EXCEPT ![Other(rxBufSel)] = pktLen]
        /\ rxPos' = rxPos /\ rxBufSel' = rxBufSel /\ rxOngoing' = FALSE
    BY <1>12 DEF UsbOut
  <2>2. rxBufNb'[rxBufSel] = rxBufNb[rxBufSel] /\ rxBufNb'[Other(rxBufSel)] = pktLen
    BY <1>2, <1>3, <2>1
  <2>3. Fresh(rxBufSel, rxPos)' = h
    BY <1>4, <1>7, <2>1, <2>2 DEF Fresh
  <2>4. Other(rxBufSel)' = Other(rxBufSel)
    BY <2>1 DEF Other
  <2>5. Fresh(Other(rxBufSel), 0)' = t
    BY <1>4, <1>8, <2>2, <2>4 DEF Fresh
  <2> QED
    BY <1>9, <2>1, <2>3, <2>5 DEF Unread
<1> QED
  BY <1>10, <1>11, <1>12

LEMMA StreamStep ==
  ASSUME IInv, [Next]_vars, TypeOK'
  PROVE  NothingLost'
<1>1. TypeOK /\ Transmitter /\ Attached /\ HandedOver /\ NothingLost
  BY DEF IInv
<1>2. Pipeline = Taken \o Unread /\ Pipeline' = Taken' \o Unread'
  BY DEF Pipeline, Taken
<1>3. ASSUME clean' => clean /\ Taken' = Taken /\ Unread' = Unread /\ discarded' = discarded,
             hNext' = hNext
      PROVE  NothingLost'
  BY <1>1, <1>2, <1>3, Rearranged
<1>4. ASSUME UNCHANGED hostVars
      PROVE  clean' = clean /\ discarded' = discarded /\ hNext' = hNext
  BY <1>4 DEF hostVars
<1>5. ASSUME UNCHANGED cdcVars, UNCHANGED epVars, UNCHANGED dmaVars PROVE Unread' = Unread
  BY <1>5, UnreadKept DEF cdcVars, epVars, dmaVars
<1>6. CASE SercomCheck \/ UartShifted
  <2>1. /\ UNCHANGED cdcVars /\ UNCHANGED epVars /\ UNCHANGED dmaVars /\ UNCHANGED mainVars
        /\ UNCHANGED <<sent, job, queue>> /\ UNCHANGED hostVars
    BY <1>6 DEF SercomCheck, UartShifted
  <2>2. Taken' = Taken
    BY <2>1, TakenKept DEF mainVars
  <2> QED
    BY <1>3, <1>4, <1>5, <2>1, <2>2
<1>7. CASE SercomSend \/ SercomDone
  <2>1. /\ UNCHANGED cdcVars /\ UNCHANGED epVars /\ UNCHANGED dmaVars /\ UNCHANGED hostVars
    BY <1>7 DEF SercomSend, SercomDone
  <2>2. clean => Taken' = Taken
    BY <1>7, TransmitterStream
  <2> QED
    BY <1>3, <1>4, <1>5, <2>1, <2>2
<1>8. CASE MainEnqueue
  <2>1. /\ UNCHANGED cdcVars /\ UNCHANGED epVars /\ UNCHANGED dmaVars /\ UNCHANGED hostVars
    BY <1>8 DEF MainEnqueue
  <2>2. clean => Taken' = Taken
    BY <1>8, TransmitterStream
  <2> QED
    BY <1>3, <1>4, <1>5, <2>1, <2>2
<1>9. ASSUME UNCHANGED uartVars, UNCHANGED readBuf PROVE Taken' = Taken
  BY <1>9, TakenKept DEF uartVars
<1>10. CASE MainTop \/ MainCount \/ MainSelect \/ MainSpace
  <2>1. MainFrame /\ UNCHANGED readBuf
    BY <1>10 DEF MainTop, MainCount, MainSelect, MainSpace
  <2>2. /\ UNCHANGED cdcVars /\ UNCHANGED epVars /\ UNCHANGED dmaVars /\ UNCHANGED uartVars
        /\ UNCHANGED hostVars
    BY <2>1 DEF MainFrame
  <2> QED
    BY <1>3, <1>4, <1>5, <1>9, <2>1, <2>2
<1>11. CASE MainCopy
  <2>1. UNCHANGED hostVars /\ (clean => Pipeline' = Pipeline)
    BY <1>11, CopyStream DEF MainCopy
  <2> QED
    BY <1>1, <1>4, <2>1, Rearranged
<1>12. CASE MainStart
  <2>1. UNCHANGED uartVars /\ UNCHANGED hostVars /\ UNCHANGED readBuf
    BY <1>12 DEF MainStart
  <2>2. clean => Unread' = Unread
    BY <1>12, StartStream
  <2> QED
    BY <1>3, <1>4, <1>9, <2>1, <2>2
<1>13. CASE MainMark \/ MainArm
  <2>1. /\ UNCHANGED uartVars /\ UNCHANGED hostVars /\ UNCHANGED readBuf
        /\ UNCHANGED cdcVars /\ UNCHANGED dmaVars
    BY <1>13 DEF MainMark, MainArm
  <2>2. epOut'.trcpt = epOut.trcpt /\ (clean /\ epOut.trcpt => epBuf' = epBuf)
    <3>1. epOut \in Endpoint
      BY <1>1 DEF TypeOK
    <3>2. CASE MainMark
      BY <3>1, <3>2 DEF MainMark, Endpoint
    <3>3. CASE MainArm
      BY <1>1, <3>1, <3>3 DEF MainArm, epVars, Endpoint, HandedOver
    <3> QED
      BY <1>13, <3>2, <3>3
  <2>3. clean => Unread' = Unread
    BY <2>1, <2>2, UnreadKept DEF cdcVars, dmaVars
  <2> QED
    BY <1>3, <1>4, <1>9, <2>1, <2>3
<1>14. CASE UsbOut
  <2>1. UNCHANGED uartVars /\ UNCHANGED hostVars /\ UNCHANGED mainVars
    BY <1>14 DEF UsbOut
  <2>2. clean => Unread' = Unread
    BY <1>14, OutStream
  <2>3. Taken' = Taken
    BY <1>9, <2>1 DEF mainVars
  <2> QED
    BY <1>3, <1>4, <2>1, <2>2, <2>3
(* A UART with no job under way forgets none when it is initialised.       *)
<1>15. ASSUME InitUart, NEW h \in BOOLEAN, NEW D, Witness(h, D), h => ~UartAtWork,
              UNCHANGED mainVars, clean'
       PROVE  clean /\ Taken' = Taken /\ discarded' = discarded \union D
  <2>1. clean /\ sent' = sent /\ discarded' = discarded \union D /\ ~UartAtWork
    BY <1>15 DEF Witness
  <2>2. job = <<>>
    BY <1>1, <2>1 DEF Transmitter, UartAtWork
  <2>3. UNCHANGED <<sent, job, queue, readBuf>>
    BY <1>15, <2>1, <2>2 DEF InitUart, mainVars
  <2> QED
    BY <2>1, <2>3, TakenKept
<1>16. CASE UsbSetupCoding
  <2>1. /\ InitUart /\ Witness(~UartAtWork, {}) /\ UNCHANGED mainVars /\ hNext' = hNext
        /\ UNCHANGED cdcVars /\ UNCHANGED epVars /\ UNCHANGED dmaVars
    BY <1>16 DEF UsbSetupCoding
  <2>2. clean' => clean /\ Taken' = Taken /\ discarded' = discarded \union {}
    BY <1>15, <2>1
  <2> QED
    BY <1>3, <1>5, <2>1, <2>2
<1>17. CASE UsbSetupConfig
  <2>1. /\ InitUart /\ UNCHANGED mainVars /\ hNext' = hNext
        /\ Witness(~UartAtWork /\ pc \notin {"copy", "mark", "arm"}, Bytes(Unread) \ {0})
        /\ rxBufNb' = [b \in {0, 1} |-> 0] /\ rxBufSel' = 1 /\ rxPos' = 0 /\ rxOngoing' = TRUE
        /\ epOut' = Run(Alloc(Freed))
    BY <1>17 DEF UsbSetupConfig
  <2>2. clean' => /\ clean /\ Taken' = Taken
                  /\ discarded' = discarded \union (Bytes(Unread) \ {0})
    BY <1>15, <2>1
  <2>3. clean => Bytes(Unread) \ {0} = Bytes(Unread)
    <3>1. clean => Bytes(Unread) \subseteq 1..MaxBytes
      BY HostBytes
    <3> QED
      BY <3>1
  <2>4. Unread' = <<>>
    <3>1. ~epOut'.trcpt
      <4>1. PICK e \in Endpoint : e = Alloc(Freed) /\ ~e.trcpt
        BY <1>1, FreedBits, EndpointBits
      <4> QED
        BY <2>1, <4>1, EndpointBits
    <3>2. Landed' = <<>>
      BY <3>1 DEF Landed
    <3>3. Fresh(rxBufSel, rxPos)' = <<>>
      <4>1. rxPos' + 1 = 1 /\ rxBufNb'[rxBufSel'] = 0
        BY <2>1
      <4> QED
        BY <4>1, SubSeqEmpty DEF Fresh
    <3> QED
      BY <2>1, <3>2, <3>3, Nothing DEF Unread
  <2>5. PICK t \in Seq(0..MaxBytes) : t = Taken
    BY <1>1, PipelineFacts
  <2>6. PICK u \in Seq(0..MaxBytes) : u = Unread
    BY <1>1, PipelineFacts
  <2>7. ASSUME clean' PROVE Pipeline' = t
    BY <1>2, <2>2, <2>4, <2>5, <2>7, Nothing
  <2>8. ASSUME clean'
        PROVE  /\ Increasing(t) /\ Bytes(t) \union (discarded \union Bytes(u)) = 1..(hNext - 1)
               /\ Bytes(t) \intersect (discarded \union Bytes(u)) = {}
    <3>1. /\ Increasing(t \o u) /\ Bytes(t \o u) \union discarded = 1..(hNext - 1)
          /\ Bytes(t \o u) \intersect discarded = {}
      BY <1>1, <1>2, <2>2, <2>5, <2>6, <2>8 DEF NothingLost
    <3> QED
      BY <3>1, TailGivenUp
  <2> QED
    BY <2>1, <2>2, <2>3, <2>6, <2>7, <2>8 DEF NothingLost
<1>18. CASE UsbBusReset
  <2>1. /\ UNCHANGED <<epBuf, rxBufNb, rxBufSel, rxPos, rxOngoing>> /\ UNCHANGED dmaVars
        /\ UNCHANGED mainVars /\ UNCHANGED uartVars /\ UNCHANGED hostVars
        /\ ~epOut.trcpt /\ epOut' = Freed
    BY <1>18 DEF UsbBusReset
  <2>2. Taken' = Taken
    BY <1>9, <2>1 DEF mainVars
  <2>3. epOut'.trcpt = epOut.trcpt
    <3>1. Freed.trcpt = FALSE
      BY <1>1, FreedBits, Zenon DEF Endpoint
    <3>2. epOut.trcpt = FALSE
      BY <1>1, <2>1 DEF TypeOK, Endpoint
    <3> QED
      BY <2>1, <3>1, <3>2
  <2>4. Unread' = Unread
    BY <2>1, <2>3, UnreadKept DEF dmaVars
  <2> QED
    BY <1>3, <1>4, <2>1, <2>2, <2>4
<1>19. ASSUME HostFrame PROVE UNCHANGED cdcVars /\ Taken' = Taken /\ clean' = clean
  <2>1. UNCHANGED uartVars /\ UNCHANGED mainVars /\ UNCHANGED cdcVars /\ clean' = clean
    BY <1>19 DEF HostFrame
  <2>2. UNCHANGED readBuf
    BY <2>1 DEF mainVars
  <2> QED
    BY <1>9, <2>1, <2>2
<1>20. CASE HostConfigure \/ HostReconfigure \/ HostCoding
  <2>1. HostFrame /\ UNCHANGED epVars /\ UNCHANGED dmaVars /\ UNCHANGED <<hNext, discarded>>
    BY <1>20 DEF HostConfigure, HostReconfigure, HostCoding
  <2> QED
    BY <1>3, <1>5, <1>19, <2>1
<1>21. CASE HostBusReset
  <2>1. /\ HostFrame /\ epOut' = BusReset(epOut) /\ epBuf' = epBuf /\ UNCHANGED dmaVars
        /\ hNext' = hNext
        /\ discarded' = IF clean THEN discarded \union Bytes(Landed) ELSE {}
    BY <1>21 DEF HostBusReset
  <2>2. UNCHANGED cdcVars /\ Taken' = Taken /\ clean' = clean
    BY <1>19, <2>1
  <2>3. ~epOut'.trcpt
    <3>1. epOut \in Endpoint
      BY <1>1 DEF TypeOK
    <3> QED
      BY <2>1, <3>1, EndpointBits
  <2>4. CASE ~epOut.trcpt
    <3>1. Unread' = Unread
      <4>1. epOut'.trcpt = epOut.trcpt
        BY <1>1, <2>3, <2>4 DEF TypeOK, Endpoint
      <4> QED
        BY <2>1, <2>2, <4>1, UnreadKept DEF cdcVars, dmaVars
    <3>2. Landed = <<>>
      BY <2>4 DEF Landed
    <3>3. clean => discarded' = discarded
      BY <2>1, <3>2, Nothing
    <3> QED
      BY <1>3, <2>1, <2>2, <3>1, <3>3
  <2>5. CASE epOut.trcpt /\ clean
    <3>1. rxOngoing
      BY <1>1, <2>5 DEF HandedOver
    <3>2. PICK t \in Seq(0..MaxBytes) : t = Taken
      BY <1>1, PipelineFacts
    <3>3. PICK f \in Seq(0..MaxBytes) : f = Fresh(rxBufSel, rxPos)
      BY <1>1, PipelineFacts
    <3>4. PICK u \in Seq(0..MaxBytes) : u = Landed
      BY <1>1, PipelineFacts
    <3>5. Pipeline = t \o (f \o u)
      BY <1>2, <3>1, <3>2, <3>3, <3>4 DEF Unread
    <3>6. Pipeline' = t \o f
      <4>1. Landed' = <<>>
        BY <2>3 DEF Landed
      <4>2. Fresh(rxBufSel, rxPos)' = f /\ rxOngoing'
        BY <2>1, <2>2, <3>1, <3>3 DEF Fresh, cdcVars, dmaVars
      <4>3. Unread' = f \o <<>>
        BY <4>1, <4>2 DEF Unread
      <4> QED
        BY <1>2, <2>2, <3>2, <4>3, Nothing
    <3>7. PICK p \in Seq(0..MaxBytes) : p = t \o f
      BY Appending
    <3>8. Pipeline = p \o u
      <4>1. Cat(t, Cat(f, u)) = Cat(Cat(t, f), u)
        BY CatAssociates
      <4> QED
        BY <3>5, <3>7, <4>1 DEF Cat
    <3>9. /\ Increasing(p) /\ Bytes(p) \union (discarded \union Bytes(u)) = 1..(hNext - 1)
          /\ Bytes(p) \intersect (discarded \union Bytes(u)) = {}
      <4>1. /\ Increasing(p \o u) /\ Bytes(p \o u) \union discarded = 1..(hNext - 1)
            /\ Bytes(p \o u) \intersect discarded = {}
        BY <1>1, <2>5, <3>8 DEF NothingLost
      <4> QED
        BY <4>1, TailGivenUp
    <3> QED
      BY <2>1, <2>5, <3>4, <3>6, <3>7, <3>9 DEF NothingLost
  <2>6. CASE ~clean
    BY <2>2, <2>6 DEF NothingLost
  <2> QED
    BY <2>4, <2>5, <2>6
<1>22. ASSUME NEW n \in PacketLens, HostSend(n) PROVE NothingLost'
  <2>1. /\ HostFrame /\ epOut' = Transferred(epOut) /\ epBuf' = epBuf /\ pktLen' = n
        /\ hNext' = hNext + n /\ discarded' = discarded /\ epOut.ready
        /\ rxBuf' = [rxBuf EXCEPT ![epBuf] =
                       [i \in 1..RxLen |-> IF i <= n THEN hNext + i - 1 ELSE rxBuf[epBuf][i]]]
    BY <1>22 DEF HostSend, Transfers
  <2>2. UNCHANGED cdcVars /\ Taken' = Taken /\ clean' = clean
    BY <1>19, <2>1
  <2>3. CASE ~clean
    BY <2>2, <2>3 DEF NothingLost
  <2>4. CASE clean
    <3>1. ~epOut.trcpt /\ rxOngoing /\ epBuf = Other(rxBufSel)
      BY <1>1, <2>1, <2>4 DEF HandedOver
    <3>2. /\ rxBufSel \in {0, 1} /\ epBuf \in {0, 1} /\ epBuf # rxBufSel
          /\ n \in Nat /\ n <= RxLen /\ RxLen \in Nat /\ hNext - 1 \in Nat /\ hNext \in Nat
      <4>1. rxBufSel \in {0, 1} /\ hNext \in 1..(MaxBytes + 1)
        BY <1>1 DEF TypeOK
      <4> QED
        BY <3>1, <4>1, OtherIndex, Sizes
    <3>3. epOut'.trcpt
      BY <1>1, <2>1, EndpointBits DEF TypeOK
    <3>4. PICK g : /\ g = rxBuf'[epBuf] /\ g \in Seq(0..MaxBytes) /\ Len(g) = RxLen
                   /\ \A i \in 1..n : g[i] = (hNext - 1) + i
      <4>1. rxBuf'[epBuf] \in [1..RxLen -> 0..MaxBytes]
        BY <3>2 DEF TypeOK
      <4>2. rxBuf'[epBuf] \in Seq(0..MaxBytes)
        BY <3>2, <4>1, SeqDef
      <4>3. Len(rxBuf'[epBuf]) = RxLen
        <5>1. DOMAIN rxBuf'[epBuf] = 1..RxLen /\ DOMAIN rxBuf'[epBuf] = 1..Len(rxBuf'[epBuf])
              /\ Len(rxBuf'[epBuf]) \in Nat
          BY <4>1, <4>2, LenProperties
        <5> QED
          BY <3>2, <5>1
      <4>4. rxBuf'[epBuf] = [i \in 1..RxLen |-> IF i <= n THEN hNext + i - 1 ELSE rxBuf[epBuf][i]]
        BY <1>1, <2>1, <3>2 DEF TypeOK
      <4>5. ASSUME NEW i \in 1..n PROVE rxBuf'[epBuf][i] = (hNext - 1) + i
        BY <3>2, <4>4
      <4> QED
        BY <4>2, <4>3, <4>5
    <3>5. PICK t \in Seq(0..MaxBytes) :
            t = SubSeq(g, 1, n) /\ Len(t) = n /\ \A i \in 1..n : t[i] = (hNext - 1) + i
      <4>1. SubSeq(g, 1, n) \in Seq(0..MaxBytes) /\ Len(SubSeq(g, 1, n)) = n
        <5>1. n \in 0..Len(g)
          BY <3>2, <3>4
        <5> QED
          BY <3>4, <5>1, SplitAt
      <4>2. ASSUME NEW i \in 1..n PROVE SubSeq(g, 1, n)[i] = g[i]
        <5>1. \A k \in 1..n : g[k] \in 0..MaxBytes
          <6> TAKE k \in 1..n
          <6>1. k \in 1..Len(g)
            BY <3>2, <3>4
          <6> QED
            BY <3>4, <6>1, ElementOfSeq
        <5>2. \A k \in 1..(n - 1 + 1) : SubSeq(g, 1, n)[k] = g[1 + k - 1]
          BY <3>2, <5>1, SubSeqProperties
        <5>3. i \in 1..(n - 1 + 1) /\ 1 + i - 1 = i
          BY <3>2
        <5> QED
          BY <5>2, <5>3
      <4> QED
        BY <3>4, <4>1, <4>2
    <3>6. Landed' = t
      BY <2>1, <3>3, <3>4, <3>5 DEF Landed
    <3>7. PICK f \in Seq(0..MaxBytes) : f = Fresh(rxBufSel, rxPos)
      BY <1>1, PipelineFacts
    <3>8. PICK k \in Seq(0..MaxBytes) : k = Taken
      BY <1>1, PipelineFacts
    <3>9. PICK p \in Seq(0..MaxBytes) : p = k \o f
      BY Appending
    <3>10. Pipeline = p
      <4>1. Unread = f \o <<>>
        BY <3>1, <3>7 DEF Unread, Landed
      <4> QED
        BY <1>2, <3>8, <3>9, <4>1, Nothing
    <3>11. Pipeline' = p \o t
      <4>1. Fresh(rxBufSel, rxPos)' = f /\ rxOngoing'
        <5>1. rxBuf'[rxBufSel] = rxBuf[rxBufSel]
          BY <1>1, <2>1, <3>2 DEF TypeOK
        <5> QED
          BY <2>2, <3>1, <3>7, <5>1 DEF Fresh, cdcVars
      <4>2. Unread' = f \o t
        BY <3>6, <4>1 DEF Unread
      <4>3. Cat(k, Cat(f, t)) = Cat(Cat(k, f), t)
        BY CatAssociates
      <4> QED
        BY <1>2, <2>2, <3>8, <3>9, <4>2, <4>3 DEF Cat
    <3>12. /\ Increasing(p \o t) /\ Bytes(p \o t) \union discarded = 1..((hNext - 1) + n)
           /\ Bytes(p \o t) \intersect discarded = {}
      <4>1. /\ Increasing(p) /\ Bytes(p) \union discarded = 1..(hNext - 1)
            /\ Bytes(p) \intersect discarded = {}
        BY <1>1, <2>4, <3>10 DEF NothingLost
      <4>2. Follows(t, hNext - 1, n) /\ hNext \in Nat \ {0}
        BY <3>2, <3>5 DEF Follows
      <4> QED
        BY <3>2, <4>1, <4>2, PacketAdded
    <3>13. hNext' - 1 = (hNext - 1) + n
      BY <2>1, <3>2
    <3> QED
      BY <2>1, <3>11, <3>12, <3>13 DEF NothingLost
  <2> QED
    BY <2>3, <2>4
<1>23. CASE UNCHANGED vars
  <2>1. /\ UNCHANGED cdcVars /\ UNCHANGED epVars /\ UNCHANGED dmaVars /\ UNCHANGED mainVars
        /\ UNCHANGED uartVars /\ UNCHANGED hostVars
    BY <1>23 DEF vars
  <2>2. UNCHANGED readBuf
    BY <2>1 DEF mainVars
  <2> QED
    BY <1>3, <1>4, <1>5, <1>9, <2>1, <2>2
<1> QED
  BY <1>6, <1>7, <1>8, <1>10, <1>11, <1>12, <1>13, <1>14, <1>16, <1>17, <1>18, <1>20,
     <1>21, <1>22, <1>23 DEF Next, Sercom, Main, Usb, Host
-----------------------------------------------------------------------------
LEMMA StepKeepsIInv ==
  ASSUME IInv, [Next]_vars
  PROVE  IInv'
<1>1. TypeOK'
  BY TypeStep
<1>2. Transmitter' /\ Loop'
  BY TransmitterStep, LoopStep
<1>3. Attached' /\ Asking' /\ HandedOver'
  BY EndpointStep DEF EndpointInv
<1>4. NothingLost'
  BY <1>1, StreamStep
<1> QED
  BY <1>1, <1>2, <1>3, <1>4 DEF IInv

LEMMA Invariance == Spec => []IInv
<1>1. Init => IInv
  BY InitIInv
<1>2. IInv /\ [Next]_vars => IInv'
  BY StepKeepsIInv
<1> QED
  BY <1>1, <1>2, PTL DEF Spec

(* The variables have their types: the transmit queue and read_buf never   *)
(* hold more than their sizes, whatever interrupts process_cdc_rx.         *)
THEOREM TypeCorrect == Spec => []TypeOK
<1>1. IInv => TypeOK
  BY DEF IInv
<1> QED
  BY <1>1, Invariance, PTL

(* Every byte that the device took from the host is in the receive         *)
(* buffers, read_buf, the queue, the UART's job or already sent, once and  *)
(* in the order of the stream; what a reset of the interface drops is a    *)
(* tail of what the main loop had not read.  The exceptions are the        *)
(* moments named in NothingLost's clean.                                   *)
THEOREM EveryByteOnItsWay == Spec => []NothingLost
<1>1. IInv => NothingLost
  BY DEF IInv
<1> QED
  BY <1>1, Invariance, PTL

(* The buffer that udi_cdc_multi_read_no_block copies from is not the one  *)
(* the endpoint's job was armed with.                                      *)
THEOREM DmaAndMainApart == Spec => []BuffersApart
<1>1. IInv => BuffersApart
  <2> SUFFICES ASSUME IInv, clean, epOut.ready \/ epOut.trcpt PROVE epBuf # rxBufSel
    BY DEF BuffersApart
  <2>1. epBuf = Other(rxBufSel) /\ rxBufSel \in {0, 1}
    BY DEF IInv, HandedOver, TypeOK
  <2> QED
    BY <2>1, OtherIndex
<1> QED
  BY <1>1, Invariance, PTL

(* mTxInProgress is set exactly as long as the UART's interrupt will clear *)
(* it, until a reset hits one of the moments that clean names; and         *)
(* usart_write_buffer_job never refuses, whatever resets the UART.         *)
THEOREM TransmitterTracked == Spec => []TransmitTracked
<1>1. IInv => TransmitTracked
  <2> SUFFICES ASSUME IInv PROVE TransmitTracked
    OBVIOUS
  <2>1. Transmitter
    BY DEF IInv
  <2> QED
    BY <2>1 DEF Transmitter, TransmitTracked, JobAccepted
<1> QED
  BY <1>1, Invariance, PTL

(* An interface that is up has asked for the next packet, or the main loop *)
(* is about to, whatever the host has reset in between.                    *)
THEOREM InterfaceListens == Spec => []Receiving
<1>1. IInv => Receiving
  <2> SUFFICES ASSUME IInv, dataRunning, ~busReset,
                      ~(epOut.ready \/ epOut.trcpt), pc \notin {"start", "mark", "arm"}
               PROVE  ~rxOngoing /\ rxPos < rxBufNb[rxBufSel]
    BY DEF Receiving
  <2>1. Asking
    BY DEF IInv
  <2> QED
    BY <2>1 DEF Asking
<1> QED
  BY <1>1, Invariance, PTL
=============================================================================
