------------------------------ MODULE ByteFIFO ------------------------------
(***************************************************************************)
(* What RJTQueue (src/Common/rjt_queue.c) promises its callers: a bounded  *)
(* first-in first-out queue of bytes whose operations are all-or-nothing.  *)
(* `ret' is the last call: the bytes it put or the number it asked for,    *)
(* the boolean it returned and the bytes it copied to the caller.          *)
(***************************************************************************)
EXTENDS Integers, Sequences

CONSTANTS Byte,     \* the values a byte takes
          Capacity, \* how many bytes the queue holds
          MaxXfer   \* bound of the model: the longest transfer of one call

VARIABLES q, ret

fifoVars == <<q, ret>>

Buffers == UNION {[1..n -> Byte] : n \in 0..MaxXfer}

PutIn(buf, ok) == [put |-> buf, take |-> 0, ok |-> ok, out |-> <<>>]
TakenOut(len, ok, bytes) == [put |-> <<>>, take |-> len, ok |-> ok, out |-> bytes]

FifoInit == q = <<>> /\ ret = PutIn(<<>>, TRUE)

Clear == q' = <<>> /\ ret' = PutIn(<<>>, TRUE)

Put(buf) ==
  \/ /\ Len(q) + Len(buf) <= Capacity
     /\ q' = q \o buf
     /\ ret' = PutIn(buf, TRUE)
  \/ /\ Len(q) + Len(buf) > Capacity
     /\ q' = q
     /\ ret' = PutIn(buf, FALSE)

Take(len) ==
  \/ /\ 0 < len /\ len <= Len(q)
     /\ q' = SubSeq(q, len + 1, Len(q))
     /\ ret' = TakenOut(len, TRUE, SubSeq(q, 1, len))
  \/ /\ len = 0 \/ Len(q) < len
     /\ q' = q
     /\ ret' = TakenOut(len, FALSE, <<>>)

FifoNext ==
  \/ Clear
  \/ \E buf \in Buffers : Put(buf)
  \/ \E len \in 0..MaxXfer : Take(len)

FifoSpec == FifoInit /\ [][FifoNext]_fifoVars
=============================================================================
