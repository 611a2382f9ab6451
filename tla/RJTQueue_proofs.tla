-------------------------- MODULE RJTQueue_proofs --------------------------
(***************************************************************************)
(* Theorems about RJTQueue for every array length, set of bytes and bound  *)
(* on the length of a transfer: the counters of the ring agree, and the    *)
(* ring implements the bounded FIFO of module ByteFIFO.                    *)
(***************************************************************************)
EXTENDS RJTQueue, SequenceTheorems, TLAPS

IInv == TypeOK /\ RingInv

(* One reduction of an index that is less than twice the length is a       *)
(* conditional subtraction: the form in which the wrap-arounds of head and *)
(* tail are reasoned about.                                                *)
LEMMA WrapOnce ==
  ASSUME NEW a \in Index, NEW b \in 0..MaxLen
  PROVE  /\ (a + b) % MaxLen = IF a + b < MaxLen THEN a + b ELSE a + b - MaxLen
         /\ (a + b) % MaxLen \in Index
<1>1. /\ a \in Nat /\ b \in Nat /\ MaxLen \in Nat \ {0}
      /\ a < MaxLen /\ b <= MaxLen
  BY MaxLenAssumption DEF Index
<1>2. (a + b) % MaxLen = IF a + b < MaxLen THEN a + b ELSE a + b - MaxLen
  BY <1>1
<1>3. (IF a + b < MaxLen THEN a + b ELSE a + b - MaxLen) \in Index
  BY <1>1 DEF Index
<1> QED
  BY <1>2, <1>3

(* A buffer of a call is a sequence of bytes.                              *)
LEMMA BufferIsSeq ==
  ASSUME NEW buf \in Buffers
  PROVE  buf \in Seq(Byte) /\ Len(buf) \in Nat
<1>1. PICK n \in 0..MaxXfer : buf \in [1..n -> Byte]
  BY DEF Buffers
<1>2. n \in Nat
  BY MaxXferAssumption
<1> QED
  BY <1>1, <1>2, SeqDef

(* memcpy into the array touches exactly the slots it covers.              *)
LEMMA CopyIntoSlots ==
  ASSUME NEW dst \in [Index -> Byte], NEW src \in Seq(Byte), NEW at \in Nat,
         at + Len(src) <= MaxLen
  PROVE  /\ CopyInto(dst, at, src) \in [Index -> Byte]
         /\ \A i \in Index : CopyInto(dst, at, src)[i]
               = IF at <= i /\ i < at + Len(src) THEN src[i - at + 1] ELSE dst[i]
<1>1. Len(src) \in Nat /\ \A k \in 1..Len(src) : src[k] \in Byte
  BY LenProperties, ElementOfSeq
<1>2. ASSUME NEW i \in Index
      PROVE  /\ CopyInto(dst, at, src)[i]
                  = IF at <= i /\ i < at + Len(src) THEN src[i - at + 1] ELSE dst[i]
             /\ CopyInto(dst, at, src)[i] \in Byte
  <2>1. CopyInto(dst, at, src)[i]
          = IF i \in at..(at + Len(src) - 1) THEN src[i - at + 1] ELSE dst[i]
    BY DEF CopyInto
  <2>2. i \in at..(at + Len(src) - 1) <=> at <= i /\ i < at + Len(src)
    BY <1>1, MaxLenAssumption DEF Index
  <2>3. i \in at..(at + Len(src) - 1) => i - at + 1 \in 1..Len(src)
    BY <1>1, MaxLenAssumption DEF Index
  <2> QED
    BY <1>1, <2>1, <2>2, <2>3
<1>3. CopyInto(dst, at, src) = [i \in Index |-> CopyInto(dst, at, src)[i]]
  BY DEF CopyInto
<1> QED
  BY <1>2, <1>3

(* How far slot i lies behind tail on the ring.                            *)
Offset(i) == IF i >= tail THEN i - tail ELSE i - tail + MaxLen

(* The two memcpy calls of RJTQueue_enqueue put byte k of the buffer k     *)
(* slots behind tail and touch no other slot, wrapped around or not.       *)
LEMMA StoredSlots ==
  ASSUME TypeOK, NEW buf \in Seq(Byte), 0 < Len(buf), Len(buf) <= MaxLen
  PROVE  /\ Stored(buf) \in [Index -> Byte]
         /\ \A i \in Index :
              Stored(buf)[i] = IF Offset(i) < Len(buf) THEN buf[Offset(i) + 1] ELSE data[i]
<1> DEFINE n == Len(buf)
           upper == MaxLen - tail
           s1 == SubSeq(buf, 1, upper)
           s2 == SubSeq(buf, upper + 1, n)
<1>1. /\ n \in Nat /\ MaxLen \in Nat /\ n <= MaxLen /\ tail \in 0..(MaxLen - 1)
      /\ \A k \in 1..n : buf[k] \in Byte
      /\ data \in [Index -> Byte]
  BY MaxLenAssumption DEF TypeOK, Index
<1>2. (tail + n) % MaxLen = IF tail + n < MaxLen THEN tail + n ELSE tail + n - MaxLen
  <2>1. tail \in Index /\ n \in 0..MaxLen
    BY <1>1 DEF Index
  <2> HIDE DEF n
  <2> QED
    BY <2>1, WrapOnce
<1>3. CASE tail + n < MaxLen
  <2>1. Stored(buf) = CopyInto(data, tail, buf)
    BY <1>1, <1>2, <1>3 DEF Stored
  <2>2. /\ CopyInto(data, tail, buf) \in [Index -> Byte]
        /\ \A i \in Index : CopyInto(data, tail, buf)[i]
              = IF tail <= i /\ i < tail + n THEN buf[i - tail + 1] ELSE data[i]
    BY <1>1, <1>3, CopyIntoSlots
  <2> HIDE DEF n
  <2>3. \A i \in Index : Offset(i) < n <=> tail <= i /\ i < tail + n
    BY <1>1, <1>3 DEF Index, Offset
  <2> QED
    BY <1>1, <2>1, <2>2, <2>3 DEF Offset, n
<1>4. CASE tail + n >= MaxLen
  <2>1. Stored(buf) = CopyInto(CopyInto(data, tail, s1), 0, s2)
    BY <1>1, <1>2, <1>4 DEF Stored
  <2>2. upper \in 1..n
    BY <1>1, <1>4
  <2>3. /\ s1 \in Seq(Byte) /\ Len(s1) = upper
        /\ \A k \in 1..upper : s1[k] = buf[k]
    <3>1. \A i \in 1..upper : buf[i] \in Byte
      BY <1>1, <2>2
    <3> QED
      BY <2>2, <3>1, SubSeqProperties
  <2>4. /\ s2 \in Seq(Byte) /\ Len(s2) = n - upper
        /\ \A k \in 1..(n - upper) : s2[k] = buf[upper + k]
    <3>1. \A i \in (upper + 1)..n : buf[i] \in Byte
      BY <1>1, <2>2
    <3>2. /\ s2 \in Seq(Byte)
          /\ Len(s2) = IF upper + 1 <= n THEN n - (upper + 1) + 1 ELSE 0
          /\ \A k \in 1..(n - (upper + 1) + 1) : s2[k] = buf[upper + 1 + k - 1]
      BY <1>1, <2>2, <3>1, SubSeqProperties
    <3> QED
      BY <1>1, <2>2, <3>2
  <2> DEFINE d1 == CopyInto(data, tail, s1)
  <2>5. /\ d1 \in [Index -> Byte]
        /\ \A i \in Index : d1[i] = IF tail <= i /\ i < tail + Len(s1)
                                     THEN s1[i - tail + 1] ELSE data[i]
    <3>1. tail \in Nat /\ tail + Len(s1) <= MaxLen
      BY <1>1, <2>2, <2>3
    <3> HIDE DEF s1
    <3> QED
      BY <1>1, <2>3, <3>1, CopyIntoSlots
  <2>6. /\ CopyInto(d1, 0, s2) \in [Index -> Byte]
        /\ \A i \in Index : CopyInto(d1, 0, s2)[i]
              = IF 0 <= i /\ i < 0 + Len(s2) THEN s2[i - 0 + 1] ELSE d1[i]
    <3>1. 0 + Len(s2) <= MaxLen
      BY <1>1, <2>2, <2>4
    <3> HIDE DEF s2, d1
    <3> QED
      BY <2>4, <2>5, <3>1, CopyIntoSlots
  <2> HIDE DEF s1, s2, d1, n
  <2>7. ASSUME NEW i \in Index
        PROVE  CopyInto(d1, 0, s2)[i]
                 = IF Offset(i) < n THEN buf[Offset(i) + 1] ELSE data[i]
    <3>1. CASE i >= tail
      <4>1. ~(i < 0 + Len(s2)) /\ i < tail + Len(s1)
        BY <1>1, <2>2, <2>3, <2>4, <3>1 DEF Index, upper
      <4>2. Offset(i) = i - tail /\ Offset(i) < n /\ i - tail + 1 \in 1..upper
        BY <1>1, <2>2, <3>1 DEF Index, Offset, upper
      <4> QED
        BY <2>3, <2>5, <2>6, <3>1, <4>1, <4>2
    <3>2. CASE i < tail
      <4>1. Offset(i) = i + upper /\ (i < 0 + Len(s2) <=> Offset(i) < n) /\ 0 <= i /\ i \in Nat
        <5>1. i \in Nat /\ 0 <= i /\ Offset(i) = i + upper
          BY <1>1, <3>2 DEF Index, Offset, upper
        <5>2. upper \in Nat /\ Len(s2) = n - upper
          BY <1>1, <2>2, <2>4
        <5> HIDE DEF upper
        <5> QED
          BY <1>1, <5>1, <5>2
      <4>2. d1[i] = data[i]
        BY <1>1, <2>5, <3>2, <4>1
      <4>3. CASE i < Len(s2)
        BY <1>1, <2>2, <2>4, <2>6, <4>1, <4>3 DEF upper
      <4>4. CASE ~(i < Len(s2))
        BY <2>4, <2>6, <4>1, <4>2, <4>4
      <4> QED
        BY <4>3, <4>4
    <3> QED
      BY <1>1, <3>1, <3>2 DEF Index
  <2>8. Stored(buf) = CopyInto(d1, 0, s2)
    BY <2>1 DEF d1, s1, s2, n
  <2> QED
    BY <2>6, <2>7, <2>8 DEF n
<1> QED
  BY <1>1, <1>3, <1>4
-----------------------------------------------------------------------------
ContentsShape ==
  /\ Contents \in Seq(Byte) /\ Len(Contents) = size
  /\ \A k \in 1..size : Contents[k] = data[(head + k - 1) % MaxLen]

(* The ring read oldest first is a sequence of `size' bytes.               *)
LEMMA ContentsIsSeq == TypeOK => ContentsShape
<1> SUFFICES ASSUME TypeOK PROVE ContentsShape
  OBVIOUS
<1>1. ASSUME NEW k \in 1..size
      PROVE  (head + k - 1) % MaxLen \in Index
  <2>1. k - 1 \in 0..MaxLen /\ head \in Index
    BY MaxLenAssumption DEF TypeOK, Index
  <2>2. (head + (k - 1)) % MaxLen \in Index
    BY <2>1, WrapOnce
  <2>3. head + (k - 1) = head + k - 1
    BY MaxLenAssumption DEF TypeOK, Index
  <2> QED
    BY <2>2, <2>3
<1>2. Contents \in [1..size -> Byte] /\ size \in Nat
  BY <1>1, MaxLenAssumption DEF Contents, TypeOK
<1> QED
  BY <1>2, SeqDef, LenProperties DEF Contents, ContentsShape

(* The slot of the k-th oldest byte, without the modulus.                  *)
LEMMA SlotOf ==
  ASSUME TypeOK, NEW k \in 1..MaxLen
  PROVE  /\ (head + k - 1) % MaxLen
               = IF head + k - 1 < MaxLen THEN head + k - 1 ELSE head + k - 1 - MaxLen
         /\ (head + k - 1) % MaxLen \in Index
<1>1. k - 1 \in 0..MaxLen /\ head \in Index /\ MaxLen \in Nat
  BY MaxLenAssumption DEF TypeOK
<1>2. /\ (head + (k - 1)) % MaxLen
            = IF head + (k - 1) < MaxLen THEN head + (k - 1) ELSE head + (k - 1) - MaxLen
      /\ (head + (k - 1)) % MaxLen \in Index
  BY <1>1, WrapOnce
<1>3. head + (k - 1) = head + k - 1
  BY <1>1 DEF Index
<1> QED
  BY <1>2, <1>3

(* memcpy out of the array delivers the slots it covers, in order.         *)
LEMMA CopyOutSlots ==
  ASSUME TypeOK, NEW at \in Nat, NEW n \in Nat, at + n <= MaxLen
  PROVE  /\ CopyOut(at, n) \in Seq(Byte) /\ Len(CopyOut(at, n)) = n
         /\ \A k \in 1..n : CopyOut(at, n)[k] = data[at + k - 1]
<1> DEFINE c == CopyOut(at, n)
<1>1. \A k \in 1..n : at + k - 1 \in Index
  BY MaxLenAssumption DEF Index
<1>2. c = [k \in 1..n |-> data[at + k - 1]]
  BY DEF CopyOut
<1>3. \A k \in 1..n : c[k] = data[at + k - 1]
  BY <1>2
<1>4. c \in [1..n -> Byte]
  BY <1>1, <1>2 DEF TypeOK
<1>5. c \in Seq(Byte)
  BY <1>4, SeqDef
<1>6. 1..Len(c) = 1..n /\ Len(c) \in Nat
  <2> HIDE DEF c
  <2> QED
    BY <1>4, <1>5, LenProperties
<1>7. Len(c) = n
  <2> HIDE DEF c
  <2> QED
    BY <1>6
<1> QED
  BY <1>3, <1>5, <1>7

(* RJTQueue_dequeue copies out the oldest `len' bytes, wrapped or not.     *)
LEMMA FetchedIsPrefix ==
  ASSUME TypeOK, NEW len \in 1..size
  PROVE  Fetched(len) = SubSeq(Contents, 1, len)
<1> DEFINE upper == MaxLen - head
           want == SubSeq(Contents, 1, len)
<1>1. /\ MaxLen \in Nat /\ head \in 0..(MaxLen - 1) /\ size \in 0..MaxLen
      /\ len \in Nat /\ 0 < len /\ len <= MaxLen /\ len <= size
      /\ data \in [Index -> Byte]
  BY MaxLenAssumption DEF TypeOK, Index
<1>2. /\ want \in Seq(Byte) /\ Len(want) = len
      /\ \A k \in 1..len : want[k] = data[(head + k - 1) % MaxLen]
  <2>1. \A k \in 1..len : Contents[k] \in Byte
    BY <1>1, ContentsIsSeq, ElementOfSeq DEF ContentsShape
  <2>2. /\ want \in Seq(Byte)
        /\ Len(want) = IF 1 <= len THEN len - 1 + 1 ELSE 0
        /\ \A k \in 1..(len - 1 + 1) : want[k] = Contents[1 + k - 1]
    BY <1>1, <2>1, SubSeqProperties
  <2> HIDE DEF want
  <2> QED
    BY <1>1, <2>2, ContentsIsSeq DEF ContentsShape
<1> HIDE DEF want
<1>3. ASSUME NEW k \in 1..len
      PROVE  /\ (head + k - 1) % MaxLen
                  = IF head + k - 1 < MaxLen THEN head + k - 1 ELSE head + k - 1 - MaxLen
             /\ (head + k - 1) % MaxLen \in Index
  <2>1. k \in 1..MaxLen
    BY <1>1
  <2> QED
    BY <2>1, SlotOf
<1>4. (head + len) % MaxLen = IF head + len < MaxLen THEN head + len ELSE head + len - MaxLen
  <2>1. head \in Index /\ len \in 0..MaxLen
    BY <1>1 DEF Index
  <2> QED
    BY <2>1, WrapOnce
<1>5. ASSUME NEW at \in Nat, NEW n \in Nat, at + n <= MaxLen
      PROVE  /\ CopyOut(at, n) \in Seq(Byte) /\ Len(CopyOut(at, n)) = n
             /\ \A k \in 1..n : CopyOut(at, n)[k] = data[at + k - 1]
  BY <1>5, CopyOutSlots
<1>6. CASE head + len < MaxLen
  <2>1. Fetched(len) = CopyOut(head, len)
    BY <1>1, <1>4, <1>6 DEF Fetched
  <2>2. /\ CopyOut(head, len) \in Seq(Byte) /\ Len(CopyOut(head, len)) = len
        /\ \A k \in 1..len : CopyOut(head, len)[k] = data[head + k - 1]
    BY <1>1, <1>5, <1>6
  <2>3. ASSUME NEW k \in 1..len
        PROVE  CopyOut(head, len)[k] = want[k]
    <3>1. (head + k - 1) % MaxLen = head + k - 1
      <4>1. head + k - 1 < MaxLen
        BY <1>1, <1>6
      <4> QED
        BY <1>3, <4>1
    <3> QED
      BY <1>2, <2>2, <3>1
  <2>4. CopyOut(head, len) = want
    BY <1>2, <2>2, <2>3, SeqEqual
  <2> QED
    BY <2>1, <2>4 DEF want
<1>7. CASE head + len >= MaxLen
  <2> DEFINE c1 == CopyOut(head, upper)
             c2 == CopyOut(0, len - upper)
  <2>1. Fetched(len) = c1 \o c2
    BY <1>1, <1>4, <1>7 DEF Fetched
  <2>2. upper \in 1..len /\ upper = MaxLen - head
    BY <1>1, <1>7
  <2> HIDE DEF upper
  <2>3. /\ c1 \in Seq(Byte) /\ Len(c1) = upper
        /\ \A k \in 1..upper : c1[k] = data[head + k - 1]
    BY <1>1, <1>5, <2>2
  <2>4. /\ c2 \in Seq(Byte) /\ Len(c2) = len - upper
        /\ \A k \in 1..(len - upper) : c2[k] = data[0 + k - 1]
    <3>1. 0 \in Nat /\ len - upper \in Nat /\ 0 + (len - upper) <= MaxLen
      BY <1>1, <2>2
    <3> QED
      BY <1>5, <3>1
  <2> HIDE DEF c1, c2
  <2>5. /\ c1 \o c2 \in Seq(Byte) /\ Len(c1 \o c2) = Len(c1) + Len(c2)
        /\ \A k \in 1..(Len(c1) + Len(c2)) : (c1 \o c2)[k] =
              IF k <= Len(c1) THEN c1[k] ELSE c2[k - Len(c1)]
    BY <2>3, <2>4, ConcatProperties
  <2>6. Len(c1) + Len(c2) = len
    BY <1>1, <2>2, <2>3, <2>4
  <2>7. ASSUME NEW k \in 1..len PROVE (c1 \o c2)[k] = want[k]
    <3>1. CASE k <= upper
      <4>1. k \in 1..upper /\ head + k - 1 < MaxLen
        BY <1>1, <2>2, <3>1
      <4>2. (head + k - 1) % MaxLen = head + k - 1
        BY <1>3, <4>1
      <4>3. (c1 \o c2)[k] = c1[k]
        BY <2>3, <2>5, <2>6, <3>1
      <4> QED
        BY <1>2, <2>3, <4>1, <4>2, <4>3
    <3>2. CASE k > upper
      <4>1. k - upper \in 1..(len - upper) /\ 0 + (k - upper) - 1 = head + k - 1 - MaxLen
        BY <1>1, <2>2, <3>2
      <4>2. (c1 \o c2)[k] = c2[k - upper]
        <5>1. k \in 1..(Len(c1) + Len(c2)) /\ Len(c1) = upper
          BY <2>3, <2>6
        <5>2. ~(k <= Len(c1))
          BY <1>1, <2>2, <3>2, <5>1
        <5> QED
          BY <2>5, <5>1, <5>2
      <4>3. (head + k - 1) % MaxLen = head + k - 1 - MaxLen
        BY <1>1, <1>3, <2>2, <3>2
      <4> QED
        BY <1>2, <2>4, <4>1, <4>2, <4>3
    <3>3. k <= upper \/ k > upper
      BY <1>1, <2>2
    <3> QED
      BY <3>1, <3>2, <3>3
  <2>8. c1 \o c2 = want
    BY <1>2, <2>5, <2>6, <2>7, SeqEqual
  <2> QED
    BY <2>1, <2>8 DEF want
<1> QED
  BY <1>1, <1>6, <1>7

(* Removing the oldest `len' bytes: what is left is the rest, in order.    *)
LEMMA TakeContents ==
  ASSUME TypeOK, TypeOK', NEW len \in 1..size,
         data' = data, size' = size - len, head' = (head + len) % MaxLen
  PROVE  Contents' = SubSeq(Contents, len + 1, Len(Contents))
<1> DEFINE rest == SubSeq(Contents, len + 1, Len(Contents))
<1>1. /\ MaxLen \in Nat /\ head \in 0..(MaxLen - 1) /\ size \in 0..MaxLen
      /\ len \in Nat /\ 0 < len /\ len <= size /\ size' = size - len
  BY MaxLenAssumption DEF TypeOK, Index
<1>2. head' = IF head + len < MaxLen THEN head + len ELSE head + len - MaxLen
  <2>1. head \in Index /\ len \in 0..MaxLen
    BY <1>1 DEF Index
  <2> QED
    BY <2>1, WrapOnce
<1>3. /\ Contents' \in Seq(Byte) /\ Len(Contents') = size'
      /\ \A k \in 1..size' : Contents'[k] = data[(head' + k - 1) % MaxLen]
  <2>1. /\ Contents' \in Seq(Byte) /\ Len(Contents') = size'
        /\ \A k \in 1..size' : Contents'[k] = data'[(head' + k - 1) % MaxLen]
    <3>1. TypeOK' => ContentsShape'
      BY ContentsIsSeq, PTL
    <3> QED
      BY <3>1 DEF ContentsShape
  <2> QED
    BY <2>1
<1>4. /\ rest \in Seq(Byte) /\ Len(rest) = size - len
      /\ \A k \in 1..(size - len) : rest[k] = Contents[len + k]
  <2>1. Len(Contents) = size /\ \A i \in (len + 1)..size : Contents[i] \in Byte
    BY <1>1, ContentsIsSeq, ElementOfSeq DEF ContentsShape
  <2>2. /\ rest \in Seq(Byte)
        /\ Len(rest) = IF len + 1 <= size THEN size - (len + 1) + 1 ELSE 0
        /\ \A k \in 1..(size - (len + 1) + 1) : rest[k] = Contents[len + 1 + k - 1]
    BY <1>1, <2>1, SubSeqProperties
  <2> HIDE DEF rest
  <2> QED
    BY <1>1, <2>2
<1> HIDE DEF rest
<1>5. ASSUME NEW k \in 1..(size - len)
      PROVE  Contents'[k] = rest[k]
  <2>1. k \in 1..MaxLen /\ len + k \in 1..MaxLen /\ len + k \in 1..size /\ k \in 1..size'
    BY <1>1
  <2>2. (head + (len + k) - 1) % MaxLen
          = IF head + (len + k) - 1 < MaxLen THEN head + (len + k) - 1
            ELSE head + (len + k) - 1 - MaxLen
    BY <2>1, SlotOf
  <2>3. (head' + k - 1) % MaxLen
          = IF head' + k - 1 < MaxLen THEN head' + k - 1 ELSE head' + k - 1 - MaxLen
    <3>1. head' \in Index /\ k - 1 \in 0..MaxLen /\ head' \in Int
      BY <1>1, <2>1 DEF TypeOK, Index
    <3>2. (head' + (k - 1)) % MaxLen = IF head' + (k - 1) < MaxLen
                                       THEN head' + (k - 1) ELSE head' + (k - 1) - MaxLen
      BY <3>1, WrapOnce
    <3>3. head' + (k - 1) = head' + k - 1
      BY <3>1
    <3> QED
      BY <3>2, <3>3
  <2>4. (head' + k - 1) % MaxLen = (head + (len + k) - 1) % MaxLen
    <3>1. (IF head' + k - 1 < MaxLen THEN head' + k - 1 ELSE head' + k - 1 - MaxLen)
            = IF head + (len + k) - 1 < MaxLen THEN head + (len + k) - 1
              ELSE head + (len + k) - 1 - MaxLen
      BY <1>1, <1>2, <2>1
    <3> QED
      BY <2>2, <2>3, <3>1
  <2>5. Contents[len + k] = data[(head + (len + k) - 1) % MaxLen]
    BY <2>1, ContentsIsSeq DEF ContentsShape
  <2> QED
    BY <1>3, <1>4, <2>1, <2>4, <2>5
<1> QED
  BY <1>1, <1>3, <1>4, <1>5, SeqEqual DEF rest

(* Storing a buffer behind tail appends it to the contents.                *)
LEMMA PutContents ==
  ASSUME IInv, TypeOK', NEW buf \in Seq(Byte), 0 < Len(buf), Len(buf) + size <= MaxLen,
         data' = Stored(buf), size' = size + Len(buf), head' = head
  PROVE  Contents' = Contents \o buf
<1> DEFINE n == Len(buf)
           both == Contents \o buf
<1>1. /\ MaxLen \in Nat /\ head \in 0..(MaxLen - 1) /\ size \in 0..MaxLen
      /\ n \in Nat /\ 0 < n /\ size + n <= MaxLen /\ size' = size + n /\ TypeOK
      /\ tail \in 0..(MaxLen - 1)
  BY MaxLenAssumption DEF TypeOK, Index, IInv
<1>2. tail = IF head + size < MaxLen THEN head + size ELSE head + size - MaxLen
  <2>1. head \in Index /\ size \in 0..MaxLen
    BY <1>1 DEF Index
  <2> QED
    BY <2>1, WrapOnce DEF IInv, RingInv
<1>3. /\ Contents' \in Seq(Byte) /\ Len(Contents') = size'
      /\ \A k \in 1..size' : Contents'[k] = Stored(buf)[(head + k - 1) % MaxLen]
  <2>1. /\ Contents' \in Seq(Byte) /\ Len(Contents') = size'
        /\ \A k \in 1..size' : Contents'[k] = data'[(head' + k - 1) % MaxLen]
    <3>1. TypeOK' => ContentsShape'
      BY ContentsIsSeq, PTL
    <3> QED
      BY <3>1 DEF ContentsShape
  <2> QED
    BY <2>1
<1>4. /\ Contents \in Seq(Byte) /\ Len(Contents) = size
      /\ \A k \in 1..size : Contents[k] = data[(head + k - 1) % MaxLen]
  BY <1>1, ContentsIsSeq DEF ContentsShape
<1>5. /\ both \in Seq(Byte) /\ Len(both) = size + n
      /\ \A k \in 1..(size + n) : both[k] = IF k <= size THEN Contents[k] ELSE buf[k - size]
  BY <1>4, ConcatProperties
<1>6. \A i \in Index :
        Stored(buf)[i] = IF Offset(i) < n THEN buf[Offset(i) + 1] ELSE data[i]
  <2>1. n <= MaxLen
    BY <1>1
  <2> QED
    BY <1>1, <2>1, StoredSlots
<1> HIDE DEF n, both
<1>7. ASSUME NEW k \in 1..(size + n)
      PROVE  Contents'[k] = both[k]
  <2> DEFINE slot == (head + k - 1) % MaxLen
  <2>1. k \in 1..MaxLen /\ k \in 1..size'
    BY <1>1
  <2>2. /\ slot = IF head + k - 1 < MaxLen THEN head + k - 1 ELSE head + k - 1 - MaxLen
        /\ slot \in Index
    BY <1>1, <2>1, SlotOf
  <2>3. Contents'[k] = Stored(buf)[slot]
    BY <1>3, <2>1
  <2>4. both[k] = IF k <= size THEN Contents[k] ELSE buf[k - size]
    BY <1>5
  <2>5. k <= size => Contents[k] = data[slot]
    <3>1. k <= size => k \in 1..size
      BY <1>1
    <3> QED
      BY <1>4, <3>1
  <2> HIDE DEF slot
  <2>6. Stored(buf)[slot] = IF Offset(slot) < n THEN buf[Offset(slot) + 1] ELSE data[slot]
    BY <1>6, <2>2
  <2>7. CASE k <= size
    <3>1. ~(Offset(slot) < n)
      BY <1>1, <1>2, <2>1, <2>2, <2>7 DEF Offset, Index
    <3> QED
      BY <2>3, <2>4, <2>5, <2>6, <2>7, <3>1
  <2>8. CASE k > size
    <3>1. Offset(slot) = k - size - 1 /\ Offset(slot) < n /\ Offset(slot) + 1 = k - size
      BY <1>1, <1>2, <2>1, <2>2, <2>8 DEF Offset, Index
    <3>2. ~(k <= size)
      BY <1>1, <2>1, <2>8
    <3> QED
      BY <2>3, <2>4, <2>6, <3>1, <3>2
  <2>9. k <= size \/ k > size
    BY <1>1
  <2> QED
    BY <2>7, <2>8, <2>9
<1> QED
  BY <1>1, <1>3, <1>5, <1>7, SeqEqual DEF both
-----------------------------------------------------------------------------
(* RJTQueue_push is a one-byte RJTQueue_enqueue.                           *)
LEMMA PushIsStore ==
  ASSUME TypeOK, NEW val \in Byte
  PROVE  /\ <<val>> \in Seq(Byte) /\ Len(<<val>>) = 1
         /\ [data EXCEPT ![tail] = val] = Stored(<<val>>)
<1>1. <<val>> \in Seq(Byte) /\ Len(<<val>>) = 1 /\ <<val>>[1] = val
  OBVIOUS
<1>2. /\ MaxLen \in Nat /\ 1 <= MaxLen /\ tail \in 0..(MaxLen - 1)
      /\ data \in [Index -> Byte]
  BY MaxLenAssumption DEF TypeOK, Index
<1> DEFINE buf == <<val>>
<1> HIDE DEF buf
<1>3. /\ Stored(buf) \in [Index -> Byte]
      /\ \A i \in Index :
           Stored(buf)[i] = IF Offset(i) < Len(buf) THEN buf[Offset(i) + 1] ELSE data[i]
  <2>1. buf \in Seq(Byte) /\ 0 < Len(buf) /\ Len(buf) <= MaxLen
    BY <1>1, <1>2 DEF buf
  <2> QED
    BY <2>1, StoredSlots
<1>4. ASSUME NEW i \in Index
      PROVE  Stored(buf)[i] = [data EXCEPT ![tail] = val][i]
  <2>1. Len(buf) = 1 /\ buf[1] = val
    BY <1>1 DEF buf
  <2>2. CASE i = tail
    <3>1. Offset(i) = 0
      BY <1>2, <2>2 DEF Index, Offset
    <3> QED
      BY <1>2, <1>3, <2>1, <2>2, <3>1
  <2>3. CASE i # tail
    <3>1. ~(Offset(i) < 1)
      BY <1>2, <2>3 DEF Index, Offset
    <3> QED
      BY <1>2, <1>3, <2>1, <2>3, <3>1
  <2> QED
    BY <2>2, <2>3
<1>5. [data EXCEPT ![tail] = val] \in [Index -> Byte]
  BY <1>2
<1>6. [data EXCEPT ![tail] = val] = Stored(buf)
  BY <1>3, <1>4, <1>5
<1> QED
  BY <1>1, <1>6 DEF buf

(* The inductive step: each operation keeps the counters in range and the  *)
(* tail `size' slots behind the head.                                      *)
LEMMA RingStep == IInv /\ [Next]_vars => IInv'
<1> SUFFICES ASSUME IInv, [Next]_vars PROVE IInv'
  OBVIOUS
<1>1. /\ MaxLen \in Nat /\ 0 < MaxLen
      /\ head \in 0..(MaxLen - 1) /\ tail \in 0..(MaxLen - 1) /\ size \in 0..MaxLen
      /\ head \in Index /\ tail \in Index /\ size \in 0..MaxLen
      /\ data \in [Index -> Byte] /\ ret.ok \in BOOLEAN /\ TypeOK
  BY MaxLenAssumption DEF IInv, TypeOK, Index
<1>2. tail = IF head + size < MaxLen THEN head + size ELSE head + size - MaxLen
  BY <1>1, WrapOnce DEF IInv, RingInv
<1>3. ASSUME NEW len \in 0..MaxLen, len <= size,
             size' = size - len, head' = (head + len) % MaxLen, tail' = tail
      PROVE  head' \in Index /\ size' \in 0..MaxLen /\ tail' \in Index /\ RingInv'
  <2>1. head' = (IF head + len < MaxLen THEN head + len ELSE head + len - MaxLen)
        /\ head' \in Index
    BY <1>1, <1>3, WrapOnce
  <2>2. size' \in 0..MaxLen /\ head' \in 0..(MaxLen - 1)
    BY <1>1, <1>3, <2>1 DEF Index
  <2>3. (head' + size') % MaxLen
          = IF head' + size' < MaxLen THEN head' + size' ELSE head' + size' - MaxLen
    BY <2>1, <2>2, WrapOnce
  <2>4. tail = IF head' + size' < MaxLen THEN head' + size' ELSE head' + size' - MaxLen
    BY <1>1, <1>2, <1>3, <2>1, <2>2
  <2> QED
    BY <1>1, <1>3, <2>1, <2>2, <2>3, <2>4 DEF RingInv
<1>4. ASSUME NEW len \in 0..MaxLen, len + size <= MaxLen,
             size' = size + len, tail' = (tail + len) % MaxLen, head' = head
      PROVE  head' \in Index /\ size' \in 0..MaxLen /\ tail' \in Index /\ RingInv'
  <2>1. tail' = (IF tail + len < MaxLen THEN tail + len ELSE tail + len - MaxLen)
        /\ tail' \in Index
    BY <1>1, <1>4, WrapOnce
  <2>2. size' \in 0..MaxLen
    BY <1>1, <1>4
  <2>3. (head + size') % MaxLen
          = IF head + size' < MaxLen THEN head + size' ELSE head + size' - MaxLen
    BY <1>1, <2>2, WrapOnce
  <2>4. tail' = IF head + size' < MaxLen THEN head + size' ELSE head + size' - MaxLen
    BY <1>1, <1>2, <1>4, <2>1, <2>2
  <2> QED
    BY <1>1, <1>4, <2>1, <2>2, <2>3, <2>4 DEF RingInv
<1>5. CASE Reset
  <2>1. (0 + 0) % MaxLen = 0
    BY <1>1
  <2> QED
    BY <1>1, <1>5, <2>1 DEF Reset, PutIn, IInv, TypeOK, RingInv, Index
<1>6. ASSUME NEW call, call.ok = FALSE, Refuse(call) PROVE IInv'
  BY <1>6, <1>1 DEF Refuse, IInv, TypeOK, RingInv, Index
<1>7. CASE Pop
  <2>1. CASE size > 0
    <3>1. /\ size' = size - 1 /\ head' = (head + 1) % MaxLen /\ tail' = tail
          /\ data' = data /\ ret' = TakenOut(1, TRUE, <<data[head]>>)
      <4>1. ~(size = 0)
        BY <1>1, <2>1
      <4> QED
        BY <1>7, <4>1 DEF Pop
    <3>2. 1 \in 0..MaxLen /\ 1 <= size /\ ret'.ok = TRUE
      BY <1>1, <2>1, <3>1 DEF TakenOut
    <3> QED
      BY <1>1, <1>3, <3>1, <3>2 DEF IInv, TypeOK
  <2>2. CASE ~(size > 0)
    BY <1>6, <1>7, <2>2 DEF Pop, TakenOut
  <2> QED
    BY <2>1, <2>2
<1>8. ASSUME NEW val \in Byte, Push(val) PROVE IInv'
  <2>1. CASE size < MaxLen
    <3>1. /\ size' = size + 1 /\ tail' = (tail + 1) % MaxLen /\ head' = head
          /\ data' = [data EXCEPT ![tail] = val] /\ ret' = PutIn(<<val>>, TRUE)
      <4>1. ~(size >= MaxLen)
        BY <1>1, <2>1
      <4> QED
        BY <1>8, <4>1 DEF Push
    <3>2. /\ 1 \in 0..MaxLen /\ 1 + size <= MaxLen
          /\ data' \in [Index -> Byte] /\ ret'.ok = TRUE
      BY <1>1, <2>1, <3>1 DEF PutIn
    <3> QED
      BY <1>1, <1>4, <3>1, <3>2 DEF IInv, TypeOK
  <2>2. CASE ~(size < MaxLen)
    BY <1>6, <1>8, <2>2 DEF Push, PutIn
  <2> QED
    BY <2>1, <2>2
<1>9. ASSUME NEW len \in 0..MaxXfer, Dequeue(len) PROVE IInv'
  <2>1. CASE len > 0 /\ len <= size
    <3>1. /\ size' = size - len /\ head' = (head + len) % MaxLen /\ tail' = tail
          /\ data' = data /\ ret' = TakenOut(len, TRUE, Fetched(len))
      BY <1>9, <2>1 DEF Dequeue
    <3>2. len \in 0..MaxLen /\ ret'.ok = TRUE
      BY <1>1, <2>1, <3>1, MaxXferAssumption DEF TakenOut
    <3> QED
      BY <1>1, <1>3, <2>1, <3>1, <3>2 DEF IInv, TypeOK
  <2>2. CASE ~(len > 0 /\ len <= size)
    BY <1>6, <1>9, <2>2 DEF Dequeue, TakenOut
  <2> QED
    BY <2>1, <2>2
<1>10. ASSUME NEW buf \in Buffers, Enqueue(buf) PROVE IInv'
  <2>1. buf \in Seq(Byte) /\ Len(buf) \in Nat
    BY BufferIsSeq
  <2>2. CASE Len(buf) = 0
    <3>1. ~(Len(buf) > 0)
      BY <2>2
    <3>2. ret' = PutIn(buf, TRUE) /\ UNCHANGED <<data, size, head, tail>>
      BY <1>10, <3>1 DEF Enqueue
    <3>3. ret'.ok \in BOOLEAN /\ UNCHANGED <<data, size, head, tail>>
      BY <3>2 DEF PutIn
    <3> QED
      BY <1>1, <3>3 DEF IInv, TypeOK, RingInv, Index
  <2>3. CASE Len(buf) > 0 /\ Len(buf) + size <= MaxLen
    <3>1. /\ size' = size + Len(buf) /\ tail' = (tail + Len(buf)) % MaxLen /\ head' = head
          /\ data' = Stored(buf) /\ ret' = PutIn(buf, TRUE)
      <4>1. ~(Len(buf) = 0) /\ ~(Len(buf) + size > MaxLen)
        BY <1>1, <2>1, <2>3
      <4> QED
        BY <1>10, <4>1 DEF Enqueue
    <3>2. Len(buf) \in 0..MaxLen /\ Len(buf) <= MaxLen /\ ret'.ok = TRUE
      BY <1>1, <2>1, <2>3, <3>1 DEF PutIn
    <3>3. Stored(buf) \in [Index -> Byte]
      BY <1>1, <2>1, <2>3, <3>2, StoredSlots
    <3> QED
      BY <1>1, <1>4, <2>3, <3>1, <3>2, <3>3 DEF IInv, TypeOK
  <2>4. CASE Len(buf) > 0 /\ Len(buf) + size > MaxLen
    <3>1. ~(Len(buf) = 0) /\ ~(Len(buf) + size <= MaxLen)
      BY <1>1, <2>1, <2>4
    <3>2. Refuse(PutIn(buf, FALSE))
      BY <1>10, <3>1 DEF Enqueue
    <3>3. PutIn(buf, FALSE).ok = FALSE
      BY DEF PutIn
    <3> QED
      BY <1>6, <3>2, <3>3
  <2> QED
    BY <1>1, <2>1, <2>2, <2>3, <2>4
<1>11. CASE UNCHANGED vars
  BY <1>1, <1>11 DEF vars, IInv, TypeOK, RingInv, Index
<1> QED
  BY <1>5, <1>7, <1>8, <1>9, <1>10, <1>11 DEF Next

(* The counters of the ring stay in range and agree in every reachable     *)
(* state, whatever sequence of operations the callers make: no operation   *)
(* of rjt_queue.c indexes outside the array or loses track of its size.    *)
THEOREM RingCorrect == Spec => [](TypeOK /\ RingInv)
<1>1. Init => IInv
  <2>1. MaxLen \in Nat \ {0} /\ (0 + 0) % MaxLen = 0
    BY MaxLenAssumption
  <2> QED
    BY <2>1 DEF Init, IInv, TypeOK, RingInv, Index, PutIn
<1> QED
  BY <1>1, RingStep, PTL DEF Spec, IInv
-----------------------------------------------------------------------------
(* Every step of the ring is a step of the FIFO on its contents.           *)
LEMMA FifoStep == IInv /\ IInv' /\ [Next]_vars => [FIFO!FifoNext]_(FIFO!fifoVars)
<1> SUFFICES ASSUME IInv, IInv', Next \/ UNCHANGED vars
             PROVE  FIFO!FifoNext \/ UNCHANGED <<Contents, ret>>
  BY DEF FIFO!fifoVars
<1>1. /\ TypeOK /\ TypeOK' /\ size \in Nat /\ MaxLen \in Nat /\ size <= MaxLen
      /\ Contents \in Seq(Byte) /\ Len(Contents) = size
      /\ \A k \in 1..size : Contents[k] = data[(head + k - 1) % MaxLen]
  BY MaxLenAssumption, ContentsIsSeq DEF IInv, TypeOK, ContentsShape
<1>2. ASSUME UNCHANGED <<data, size, head>> PROVE Contents' = Contents
  BY <1>2 DEF Contents
<1>3. CASE Reset
  <2>1. Contents' = <<>>
    <3>1. TypeOK' => ContentsShape'
      BY ContentsIsSeq, PTL
    <3>2. size' = 0
      BY <1>3 DEF Reset
    <3>3. Contents' \in Seq(Byte) /\ Len(Contents') = 0
      BY <1>1, <3>1, <3>2 DEF ContentsShape
    <3> QED
      BY <3>3, EmptySeq
  <2>2. FIFO!Clear
    BY <1>3, <2>1 DEF Reset, PutIn, FIFO!Clear, FIFO!PutIn
  <2> QED
    BY <2>2 DEF FIFO!FifoNext
<1>4. ASSUME NEW len \in 0..MaxXfer, len = 0 \/ size < len,
             Refuse(TakenOut(len, FALSE, <<>>))
      PROVE  FIFO!FifoNext
  <2>1. FIFO!Take(len)
    BY <1>1, <1>2, <1>4 DEF Refuse, TakenOut, FIFO!Take, FIFO!TakenOut
  <2> QED
    BY <2>1 DEF FIFO!FifoNext
<1>5. ASSUME NEW buf \in Buffers, Len(buf) + size > MaxLen,
             Refuse(PutIn(buf, FALSE))
      PROVE  FIFO!FifoNext
  <2>1. Len(Contents) + Len(buf) > MaxLen
    BY <1>1, <1>5, BufferIsSeq
  <2>2. FIFO!Put(buf)
    BY <1>2, <1>5, <2>1 DEF Refuse, PutIn, FIFO!Put, FIFO!PutIn
  <2> QED
    BY <2>2 DEF FIFO!FifoNext, FIFO!Buffers, Buffers
<1>6. ASSUME NEW len \in 0..MaxXfer, len \in 1..size,
             data' = data, size' = size - len, head' = (head + len) % MaxLen,
             ret' = TakenOut(len, TRUE, SubSeq(Contents, 1, len))
      PROVE  FIFO!FifoNext
  <2>1. Contents' = SubSeq(Contents, len + 1, Len(Contents))
    BY <1>1, <1>6, TakeContents
  <2>2. 0 < len /\ len <= Len(Contents)
    BY <1>1, <1>6
  <2>3. FIFO!Take(len)
    BY <1>6, <2>1, <2>2 DEF TakenOut, FIFO!Take, FIFO!TakenOut
  <2> QED
    BY <2>3 DEF FIFO!FifoNext
<1>7. ASSUME NEW buf \in Buffers, Len(buf) > 0, Len(buf) + size <= MaxLen,
             data' = Stored(buf), size' = size + Len(buf), head' = head,
             ret' = PutIn(buf, TRUE)
      PROVE  FIFO!FifoNext
  <2>1. buf \in Seq(Byte) /\ Len(buf) \in Nat /\ 0 < Len(buf)
    BY <1>7, BufferIsSeq
  <2>2. Contents' = Contents \o buf
    BY <1>1, <1>7, <2>1, PutContents
  <2>3. Len(Contents) + Len(buf) <= MaxLen
    BY <1>1, <1>7, <2>1
  <2>4. FIFO!Put(buf)
    BY <1>7, <2>2, <2>3 DEF PutIn, FIFO!Put, FIFO!PutIn
  <2> QED
    BY <2>4 DEF FIFO!FifoNext, FIFO!Buffers, Buffers
<1>8. CASE Pop
  <2>1. CASE size > 0
    <3>1. /\ ret' = TakenOut(1, TRUE, <<data[head]>>) /\ head' = (head + 1) % MaxLen
          /\ size' = size - 1 /\ data' = data
      <4>1. ~(size = 0)
        BY <1>1, <2>1
      <4> QED
        BY <1>8, <4>1 DEF Pop
    <3>2. 1 \in 0..MaxXfer /\ 1 \in 1..size
      BY <1>1, <2>1, MaxXferAssumption
    <3>3. SubSeq(Contents, 1, 1) = <<data[head]>>
      <4>1. (head + 1 - 1) % MaxLen = head
        <5>1. /\ head \in 0..(MaxLen - 1) /\ 1 \in 1..MaxLen
          BY <1>1, MaxLenAssumption DEF TypeOK, Index
        <5>2. (head + 1 - 1) % MaxLen
                = IF head + 1 - 1 < MaxLen THEN head + 1 - 1 ELSE head + 1 - 1 - MaxLen
          BY <1>1, <5>1, SlotOf
        <5> QED
          BY <1>1, <5>1, <5>2
      <4>2. Contents[1] = data[head]
        BY <1>1, <3>2, <4>1
      <4>3. \A i \in 1..1 : Contents[i] \in Byte
        BY <1>1, <3>2, ElementOfSeq
      <4> DEFINE one == SubSeq(Contents, 1, 1)
      <4>4. one \in Seq(Byte) /\ Len(one) = 1 /\ one[1] = Contents[1]
        <5>1. /\ one \in Seq(Byte)
              /\ Len(one) = IF 1 <= 1 THEN 1 - 1 + 1 ELSE 0
              /\ \A i \in 1..(1 - 1 + 1) : one[i] = Contents[1 + i - 1]
          BY <4>3, SubSeqProperties
        <5> HIDE DEF one
        <5> QED
          BY <5>1
      <4> HIDE DEF one
      <4>5. one = <<data[head]>>
        <5>1. <<data[head]>> \in Seq(Byte) /\ Len(<<data[head]>>) = 1
              /\ <<data[head]>>[1] = data[head]
          BY <1>1 DEF TypeOK
        <5>2. \A i \in 1..Len(one) : one[i] = <<data[head]>>[i]
          BY <4>2, <4>4, <5>1
        <5> QED
          BY <4>4, <5>1, <5>2, SeqEqual
      <4> QED
        BY <4>5 DEF one
    <3> QED
      BY <1>6, <3>1, <3>2, <3>3
  <2>2. CASE ~(size > 0)
    <3>1. Refuse(TakenOut(1, FALSE, <<>>))
      BY <1>8, <2>2 DEF Pop
    <3>2. 1 \in 0..MaxXfer /\ size < 1
      BY <1>1, <2>2, MaxXferAssumption
    <3> QED
      BY <1>4, <3>1, <3>2
  <2> QED
    BY <2>1, <2>2
<1>9. ASSUME NEW val \in Byte, Push(val) PROVE FIFO!FifoNext
  <2>1. <<val>> \in Buffers
    <3>1. 1 \in 0..MaxXfer /\ <<val>> \in [1..1 -> Byte]
      BY MaxXferAssumption
    <3> QED
      BY <3>1 DEF Buffers
  <2>2. /\ <<val>> \in Seq(Byte) /\ Len(<<val>>) = 1
        /\ [data EXCEPT ![tail] = val] = Stored(<<val>>)
    BY <1>1, PushIsStore
  <2>3. CASE size < MaxLen
    <3>1. /\ data' = [data EXCEPT ![tail] = val] /\ size' = size + 1 /\ head' = head
          /\ ret' = PutIn(<<val>>, TRUE)
      <4>1. ~(size >= MaxLen)
        BY <1>1, <2>3
      <4> QED
        BY <1>9, <4>1 DEF Push
    <3>2. Len(<<val>>) > 0 /\ Len(<<val>>) + size <= MaxLen /\ size' = size + Len(<<val>>)
      BY <1>1, <2>2, <2>3, <3>1
    <3> QED
      BY <1>7, <2>1, <2>2, <3>1, <3>2
  <2>4. CASE ~(size < MaxLen)
    <3>1. Refuse(PutIn(<<val>>, FALSE))
      BY <1>9, <2>4 DEF Push
    <3>2. Len(<<val>>) + size > MaxLen
      BY <1>1, <2>2, <2>4
    <3> QED
      BY <1>5, <2>1, <3>1, <3>2
  <2> QED
    BY <2>3, <2>4
<1>10. ASSUME NEW len \in 0..MaxXfer, Dequeue(len) PROVE FIFO!FifoNext
  <2>1. len \in Nat
    BY MaxXferAssumption
  <2>2. CASE len > 0 /\ len <= size
    <3>1. /\ ret' = TakenOut(len, TRUE, Fetched(len)) /\ size' = size - len
          /\ head' = (head + len) % MaxLen /\ data' = data
      BY <1>10, <2>2 DEF Dequeue
    <3>2. len \in 1..size
      BY <1>1, <2>1, <2>2
    <3>3. Fetched(len) = SubSeq(Contents, 1, len)
      BY <1>1, <3>2, FetchedIsPrefix
    <3> QED
      BY <1>6, <3>1, <3>2, <3>3
  <2>3. CASE ~(len > 0 /\ len <= size)
    <3>1. Refuse(TakenOut(len, FALSE, <<>>))
      BY <1>10, <2>3 DEF Dequeue
    <3>2. len = 0 \/ size < len
      BY <1>1, <2>1, <2>3
    <3> QED
      BY <1>4, <3>1, <3>2
  <2> QED
    BY <2>2, <2>3
<1>11. ASSUME NEW buf \in Buffers, Enqueue(buf) PROVE FIFO!FifoNext
  <2>1. buf \in Seq(Byte) /\ Len(buf) \in Nat
    BY BufferIsSeq
  <2>2. CASE Len(buf) = 0
    <3>1. ~(Len(buf) > 0)
      BY <2>2
    <3>2. ret' = PutIn(buf, TRUE) /\ UNCHANGED <<data, size, head, tail>>
      BY <1>11, <3>1 DEF Enqueue
    <3>3. Contents' = Contents /\ Contents \o buf = Contents
      BY <1>1, <1>2, <2>1, <2>2, <3>2, EmptySeq, ConcatEmptySeq
    <3>4. Len(Contents) + Len(buf) <= MaxLen
      BY <1>1, <2>2
    <3>5. FIFO!Put(buf)
      BY <3>2, <3>3, <3>4 DEF PutIn, FIFO!Put, FIFO!PutIn
    <3> QED
      BY <3>5 DEF FIFO!FifoNext, FIFO!Buffers, Buffers
  <2>3. CASE Len(buf) > 0 /\ Len(buf) + size <= MaxLen
    <3>1. /\ data' = Stored(buf) /\ size' = size + Len(buf) /\ head' = head
          /\ ret' = PutIn(buf, TRUE)
      <4>1. ~(Len(buf) = 0) /\ ~(Len(buf) + size > MaxLen)
        BY <1>1, <2>1, <2>3
      <4> QED
        BY <1>11, <4>1 DEF Enqueue
    <3> QED
      BY <1>7, <2>3, <3>1
  <2>4. CASE Len(buf) > 0 /\ Len(buf) + size > MaxLen
    <3>1. ~(Len(buf) = 0) /\ ~(Len(buf) + size <= MaxLen)
      BY <1>1, <2>1, <2>4
    <3>2. Refuse(PutIn(buf, FALSE))
      BY <1>11, <3>1 DEF Enqueue
    <3> QED
      BY <1>5, <2>4, <3>2
  <2> QED
    BY <1>1, <2>1, <2>2, <2>3, <2>4
<1>12. CASE UNCHANGED vars
  BY <1>2, <1>12 DEF vars
<1> QED
  BY <1>3, <1>8, <1>9, <1>10, <1>11, <1>12 DEF Next

(* RJTQueue implements the bounded FIFO: every byte accepted comes out     *)
(* exactly once, in order and unchanged, wherever head and tail wrap, and  *)
(* a call that is refused has no effect.                                   *)
THEOREM QueueImplementsFIFO == Spec => ImplementsFIFO
<1>1. Init => FIFO!FifoInit
  <2> SUFFICES ASSUME Init PROVE FIFO!FifoInit
    OBVIOUS
  <2>1. 0 \in 0..MaxLen /\ 0 \in Index
    BY MaxLenAssumption DEF Index
  <2>2. TypeOK
    BY <2>1 DEF Init, TypeOK, PutIn
  <2>3. Contents \in Seq(Byte) /\ Len(Contents) = 0
    BY <2>2, ContentsIsSeq DEF Init, ContentsShape
  <2> QED
    BY <2>3, EmptySeq DEF Init, PutIn, FIFO!FifoInit, FIFO!PutIn
<1>2. IInv /\ IInv' /\ [Next]_vars => [FIFO!FifoNext]_(FIFO!fifoVars)
  BY FifoStep
<1>3. Spec => []IInv
  BY RingCorrect, PTL DEF IInv
<1> QED
  BY <1>1, <1>2, <1>3, PTL DEF Spec, ImplementsFIFO, FIFO!FifoSpec
=============================================================================
