------------------------------- MODULE Logger -------------------------------
(***************************************************************************)
(* The log (rjt_logger.c): handlers print messages into a queue of bytes,  *)
(* the main loop sends them out on a serial line.  A message that does not *)
(* fit is dropped, and nothing is printed until the main loop has sent a   *)
(* notice of that.                                                         *)
(*                                                                         *)
(* Messages are printed by handlers that preempt the main loop but not one *)
(* another, so a print is one step; the main loop cannot be preempted in   *)
(* its critical sections, and can be between any two others of its steps.  *)
(* The queue is the FIFO that RJTQueue is shown to be.                     *)
(*                                                                         *)
(* A byte is the number of its message and whether it is the message's     *)
(* last; numbers start over, so the log goes on for ever.                  *)
(***************************************************************************)
EXTENDS Integers, Sequences

CONSTANTS
  Capacity, \* size of mLogBuffer
  Chunk,    \* size of the buffer of RJTLogger_process
  Lens,     \* lengths of a formatted message, its newline included
  Ids       \* messages are numbered 0 .. Ids - 1 in turn

ASSUME LogAssumption ==
  /\ Capacity \in Nat \ {0} /\ Chunk \in Nat \ {0}
  /\ Lens \subseteq 1..Capacity
  /\ Ids \in Nat /\ Ids > Capacity + Chunk

VARIABLES
  mLogQueue, mDroppedMsg,
  pc,        \* what RJTLogger_process does next
  buf,       \* what it has dequeued and not sent yet
  next,      \* number of the next message that is queued
  due,       \* number of the next message to come out
  unnoticed, \* a message was dropped since the last notice went out
  silent     \* one was dropped between a notice and the reset of the flag

vars == <<mLogQueue, mDroppedMsg, pc, buf, next, due, unnoticed, silent>>

Init ==
  /\ mLogQueue = <<>> /\ mDroppedMsg = FALSE
  /\ pc = "notice" /\ buf = <<>>
  /\ next = 0 /\ due = 0 /\ unnoticed = FALSE /\ silent = FALSE

-----------------------------------------------------------------------------
Message(n) == [i \in 1..n |-> <<next, i = n>>]

(* Mutants of LoggerPrint: it goes on printing after a drop; it does not   *)
(* look for space.                                                         *)
PrintAfterDrop(n) ==
  /\ IF Capacity - Len(mLogQueue) < n
       THEN /\ mDroppedMsg' = TRUE
            /\ unnoticed' = TRUE /\ silent' = (silent \/ pc = "reset")
            /\ UNCHANGED <<mLogQueue, next>>
       ELSE /\ mLogQueue' = mLogQueue \o Message(n) /\ next' = (next + 1) % Ids
            /\ UNCHANGED <<mDroppedMsg, unnoticed, silent>>
  /\ UNCHANGED <<pc, buf, due>>
PrintUnchecked(n) ==
  /\ ~mDroppedMsg
  /\ mLogQueue' = mLogQueue \o Message(n) /\ next' = (next + 1) % Ids
  /\ UNCHANGED <<mDroppedMsg, pc, buf, due, unnoticed, silent>>

(* RJTLogger_print.                                                        *)
LoggerPrint(n) ==
  /\ IF mDroppedMsg \/ Capacity - Len(mLogQueue) < n
       THEN /\ mDroppedMsg' = TRUE
            /\ unnoticed' = TRUE /\ silent' = (silent \/ pc = "reset")
            /\ UNCHANGED <<mLogQueue, next>>
       ELSE /\ mLogQueue' = mLogQueue \o Message(n) /\ next' = (next + 1) % Ids
            /\ UNCHANGED <<mDroppedMsg, unnoticed, silent>>
  /\ UNCHANGED <<pc, buf, due>>

-----------------------------------------------------------------------------
(* RJTLogger_process, which the main loop calls again and again.           *)

SendNotice ==
  /\ pc = "notice" /\ mDroppedMsg /\ pc' = "reset"
  /\ unnoticed' = FALSE /\ silent' = FALSE
  /\ UNCHANGED <<mLogQueue, mDroppedMsg, buf, next, due>>

NoNotice ==
  /\ pc = "notice" /\ ~mDroppedMsg /\ pc' = "drain"
  /\ UNCHANGED <<mLogQueue, mDroppedMsg, buf, next, due, unnoticed, silent>>

ResetDropped ==
  /\ pc = "reset" /\ pc' = "drain" /\ mDroppedMsg' = FALSE
  /\ UNCHANGED <<mLogQueue, buf, next, due, unnoticed, silent>>

TakenLen == IF Len(mLogQueue) < Chunk THEN Len(mLogQueue) ELSE Chunk

(* Mutant of LeftBehind: the queue is emptied, whatever fits the buffer.   *)
NothingLeft == <<>>
LeftBehind == SubSeq(mLogQueue, TakenLen + 1, Len(mLogQueue))

Drain ==
  /\ pc = "drain"
  /\ buf' = SubSeq(mLogQueue, 1, TakenLen) /\ mLogQueue' = LeftBehind
  /\ pc' = IF TakenLen = 0 THEN "notice" ELSE "send"
  /\ UNCHANGED <<mDroppedMsg, next, due, unnoticed, silent>>

(* Messages that came to their end with these bytes are not due any more.  *)
Send ==
  /\ pc = "send" /\ pc' = "drain" /\ buf' = <<>>
  /\ due' = LET b == buf[Len(buf)] IN IF b[2] THEN (b[1] + 1) % Ids ELSE b[1]
  /\ UNCHANGED <<mLogQueue, mDroppedMsg, next, unnoticed, silent>>

Process == SendNotice \/ NoNotice \/ ResetDropped \/ Drain \/ Send

Next == Process \/ \E n \in Lens : LoggerPrint(n)

(* The handlers leave the main loop some time.                             *)
Spec == Init /\ [][Next]_vars

LiveSpec == Spec /\ WF_vars(Process)

-----------------------------------------------------------------------------
Bytes == (0..(Ids - 1)) \X BOOLEAN

(* Every variable holds a value of its type; the queue keeps within its    *)
(* memory and the main loop within its buffer.                             *)
TypeOK ==
  /\ mLogQueue \in Seq(Bytes) /\ Len(mLogQueue) <= Capacity
  /\ buf \in Seq(Bytes) /\ Len(buf) <= Chunk /\ (buf # <<>> <=> pc = "send")
  /\ mDroppedMsg \in BOOLEAN /\ unnoticed \in BOOLEAN /\ silent \in BOOLEAN
  /\ pc \in {"notice", "reset", "drain", "send"}
  /\ next \in 0..(Ids - 1) /\ due \in 0..(Ids - 1)

(* What is still to come out is whole messages (but for the beginning of   *)
(* the first, sent already), each complete and each once, in the order     *)
(* they were printed, down to the newest: a drop never cuts a message, and *)
(* the chunks of the main loop lose nothing between them.                  *)
Coming == buf \o mLogQueue

WholeMessages ==
  IF Coming = <<>>
    THEN due = next
    ELSE /\ Coming[1][1] = due
         /\ \A i \in 1..(Len(Coming) - 1) :
              Coming[i + 1][1] = (IF Coming[i][2] THEN (Coming[i][1] + 1) % Ids
                                                  ELSE Coming[i][1])
         /\ LET b == Coming[Len(Coming)] IN b[2] /\ next = (b[1] + 1) % Ids

(* The main loop still knows of every drop it has not sent a notice of,    *)
(* but for those of the moment between a notice and the reset of the flag: *)
(* the safety part of DropsNoticed.                                        *)
DropKnown == unnoticed /\ ~silent => mDroppedMsg

(* A drop is noticed: however much is printed, the main loop comes round   *)
(* to the notice, because nothing is queued meanwhile; and the log goes on *)
(* after it.                                                               *)
DropsNoticed ==
  /\ (unnoticed /\ ~silent) ~> ~unnoticed
  /\ mDroppedMsg ~> ~mDroppedMsg
=============================================================================
