------------------------------ MODULE RJTQueue ------------------------------
(***************************************************************************)
(* The ring buffer of src/Common/rjt_queue.c.  The logger and the UART     *)
(* bridge share it between the main loop and interrupt handlers; every     *)
(* operation that changes it runs inside one critical section, so one      *)
(* operation is one step.                                                  *)
(*                                                                         *)
(* `data' is the array handed to RJTQueue_init, indexed from 0 as in C;    *)
(* `ret' is the last call: the bytes it put or the number it asked for,    *)
(* the boolean it returned and the bytes copied to the caller's buffer.    *)
(***************************************************************************)
EXTENDS Integers, Sequences

CONSTANTS Byte,     \* the values a byte takes
          MaxLen,   \* max_len: the size of the array
          MaxXfer   \* bound of the model: the longest buffer of one call

ASSUME MaxLenAssumption == MaxLen \in Nat \ {0}
ASSUME MaxXferAssumption == MaxXfer \in Nat \ {0}

VARIABLES data, size, head, tail, ret

vars == <<data, size, head, tail, ret>>

Index == 0..(MaxLen - 1)

Buffers == UNION {[1..n -> Byte] : n \in 0..MaxXfer}

PutIn(buf, ok) == [put |-> buf, take |-> 0, ok |-> ok, out |-> <<>>]
TakenOut(len, ok, bytes) == [put |-> <<>>, take |-> len, ok |-> ok, out |-> bytes]

TypeOK ==
  /\ data \in [Index -> Byte]
  /\ size \in 0..MaxLen
  /\ head \in Index
  /\ tail \in Index
  /\ ret.ok \in BOOLEAN
-----------------------------------------------------------------------------
(* memcpy(&dst[at], src, Len(src)) and memcpy(out, &data[at], len).        *)
CopyInto(dst, at, src) ==
  [i \in Index |-> IF i \in at..(at + Len(src) - 1) THEN src[i - at + 1] ELSE dst[i]]

CopyOut(at, len) == [k \in 1..len |-> data[at + k - 1]]

(* Mutant of Stored: a transfer as long as the array counts as no wrap.    *)
StoredStrictly(buf) ==
  LET upper_len == MaxLen - tail IN
  IF (tail + Len(buf)) % MaxLen < tail
  THEN CopyInto(CopyInto(data, tail, SubSeq(buf, 1, upper_len)),
                0, SubSeq(buf, upper_len + 1, Len(buf)))
  ELSE CopyInto(data, tail, buf)

(* The array after RJTQueue_enqueue copied `buf' in: in one piece, or up   *)
(* to the end of the array and then from its start.                        *)
Stored(buf) ==
  LET upper_len == MaxLen - tail IN
  IF (tail + Len(buf)) % MaxLen <= tail
  THEN CopyInto(CopyInto(data, tail, SubSeq(buf, 1, upper_len)),
                0, SubSeq(buf, upper_len + 1, Len(buf)))
  ELSE CopyInto(data, tail, buf)

(* The bytes RJTQueue_dequeue copies out, in one piece or in two.          *)
Fetched(len) ==
  LET upper_len == MaxLen - head IN
  IF (head + len) % MaxLen <= head
  THEN CopyOut(head, upper_len) \o CopyOut(0, len - upper_len)
  ELSE CopyOut(head, len)
-----------------------------------------------------------------------------
Init ==
  /\ data \in [Index -> Byte]
  /\ size = 0 /\ head = 0 /\ tail = 0
  /\ ret = PutIn(<<>>, TRUE)

ResetKeepsTail ==  \* a mutant of Reset
  /\ size' = 0 /\ head' = 0
  /\ ret' = PutIn(<<>>, TRUE)
  /\ UNCHANGED <<data, tail>>

Reset ==
  /\ size' = 0 /\ head' = 0 /\ tail' = 0
  /\ ret' = PutIn(<<>>, TRUE)
  /\ UNCHANGED data

(* A call that fails changes nothing.                                      *)
Refuse(call) ==
  /\ ret' = call
  /\ UNCHANGED <<data, size, head, tail>>

Pop ==
  \/ /\ size > 0
     /\ ret' = TakenOut(1, TRUE, <<data[head]>>)
     /\ head' = (head + 1) % MaxLen
     /\ size' = size - 1
     /\ UNCHANGED <<data, tail>>
  \/ size = 0 /\ Refuse(TakenOut(1, FALSE, <<>>))

Push(val) ==
  \/ /\ size < MaxLen
     /\ data' = [data EXCEPT ![tail] = val]
     /\ tail' = (tail + 1) % MaxLen
     /\ size' = size + 1
     /\ ret' = PutIn(<<val>>, TRUE)
     /\ UNCHANGED head
  \/ size >= MaxLen /\ Refuse(PutIn(<<val>>, FALSE))

Dequeue(len) ==
  \/ /\ len > 0 /\ len <= size
     /\ ret' = TakenOut(len, TRUE, Fetched(len))
     /\ size' = size - len
     /\ head' = (head + len) % MaxLen
     /\ UNCHANGED <<data, tail>>
  \/ ~(len > 0 /\ len <= size) /\ Refuse(TakenOut(len, FALSE, <<>>))

Enqueue(buf) ==
  \/ /\ Len(buf) = 0
     /\ ret' = PutIn(buf, TRUE)
     /\ UNCHANGED <<data, size, head, tail>>
  \/ /\ Len(buf) > 0 /\ Len(buf) + size <= MaxLen
     /\ data' = Stored(buf)
     /\ size' = size + Len(buf)
     /\ tail' = (tail + Len(buf)) % MaxLen
     /\ ret' = PutIn(buf, TRUE)
     /\ UNCHANGED head
  \/ Len(buf) > 0 /\ Len(buf) + size > MaxLen /\ Refuse(PutIn(buf, FALSE))

Next ==
  \/ Reset
  \/ Pop
  \/ \E val \in Byte : Push(val)
  \/ \E len \in 0..MaxXfer : Dequeue(len)
  \/ \E buf \in Buffers : Enqueue(buf)

Spec == Init /\ [][Next]_vars
-----------------------------------------------------------------------------
(* The three counters agree: `tail' is always `size' bytes after `head',   *)
(* so the size kept by the operations is the size the indexes span.        *)
RingInv == tail = (head + size) % MaxLen

(* The bytes the ring holds, oldest first.                                 *)
Contents == [k \in 1..size |-> data[(head + k - 1) % MaxLen]]

FIFO == INSTANCE ByteFIFO WITH Capacity <- MaxLen, q <- Contents

(* RJTQueue implements a bounded FIFO of bytes: whatever the mixture of    *)
(* single-byte and block operations and wherever the indexes wrap, bytes   *)
(* come out once, in order, and a refused call changes nothing.            *)
ImplementsFIFO == FIFO!FifoSpec
=============================================================================
