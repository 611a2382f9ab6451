---------------------------- MODULE Logger_proofs ----------------------------
(***************************************************************************)
(* Theorems about Logger for queues, chunks and messages of any length.    *)
(***************************************************************************)
EXTENDS Logger, SequenceTheorems, TLAPS

(* The number of the message that the byte behind b belongs to.            *)
After(b) == IF b[2] THEN (b[1] + 1) % Ids ELSE b[1]

(* Neighbours in a sequence of bytes are of one message, or the end of one *)
(* and the beginning of the next.                                          *)
Chained(s) == \A i \in 1..(Len(s) - 1) : s[i + 1][1] = After(s[i])

(* Between the notice and the reset of the flag every drop is a silent one.*)
NoticePending == pc = "reset" /\ unnoticed => silent

LEMMA Pair ==
  ASSUME NEW a, NEW b \in BOOLEAN
  PROVE  <<a, b>>[1] = a /\ (<<a, b>>[2] <=> b)
  OBVIOUS

LEMMA Joined ==
  ASSUME NEW s \in Seq(Bytes), NEW t \in Seq(Bytes)
  PROVE  /\ s \o t \in Seq(Bytes) /\ Len(s \o t) = Len(s) + Len(t)
         /\ Len(s) \in Nat /\ Len(t) \in Nat
         /\ \A i \in 1..Len(s) : (s \o t)[i] = s[i]
         /\ \A i \in 1..Len(t) : (s \o t)[Len(s) + i] = t[i]
  OBVIOUS

LEMMA MessageBytes ==
  ASSUME TypeOK, NEW n \in Lens
  PROVE  /\ Message(n) \in Seq(Bytes) /\ Len(Message(n)) = n /\ n \in Nat /\ n >= 1
         /\ \A i \in 1..n : /\ Message(n)[i][1] = next
                            /\ Message(n)[i][2] <=> i = n
<1>1. n \in Nat /\ n >= 1
  BY LogAssumption
<1>2. \A i \in 1..n : <<next, i = n>> \in Bytes
  BY DEF TypeOK, Bytes
<1>3. /\ Message(n) \in Seq(Bytes) /\ Len(Message(n)) = n
      /\ \A i \in 1..n : Message(n)[i] = <<next, i = n>>
  BY <1>1, <1>2 DEF Message
<1>4. ASSUME NEW i \in 1..n
      PROVE  Message(n)[i][1] = next /\ (Message(n)[i][2] <=> i = n)
  <2>1. (i = n) \in BOOLEAN
    OBVIOUS
  <2> QED
    BY <1>3, <2>1, Pair
<1> QED
  BY <1>1, <1>3, <1>4

LEMMA NextNumber ==
  ASSUME NEW b \in Bytes
  PROVE  /\ After(b) \in 0..(Ids - 1) /\ (b[1] + 1) % Ids \in 0..(Ids - 1)
  BY LogAssumption DEF After, Bytes

LEMMA TakenLenType ==
  ASSUME TypeOK
  PROVE  /\ TakenLen \in 0..Chunk /\ TakenLen <= Len(mLogQueue)
         /\ TakenLen = 0 <=> mLogQueue = <<>>
  BY LogAssumption DEF TypeOK, TakenLen

-----------------------------------------------------------------------------
LEMMA TypeInit == Init => TypeOK
<1>1. <<>> \in Seq(Bytes) /\ Len(<<>>) = 0
  BY EmptySeq
<1>2. 0 <= Capacity /\ 0 <= Chunk /\ 0 \in 0..(Ids - 1)
  BY LogAssumption
<1> QED
  BY <1>1, <1>2 DEF Init, TypeOK

LEMMA TypeStep == TypeOK /\ [Next]_vars => TypeOK'
<1> SUFFICES ASSUME TypeOK, [Next]_vars PROVE TypeOK'
  OBVIOUS
<1>1. ASSUME NEW n \in Lens, LoggerPrint(n)
      PROVE  TypeOK'
  <2>1. CASE mDroppedMsg \/ Capacity - Len(mLogQueue) < n
    BY <1>1, <2>1 DEF LoggerPrint, TypeOK
  <2>2. CASE ~(mDroppedMsg \/ Capacity - Len(mLogQueue) < n)
    <3>1. mLogQueue' = mLogQueue \o Message(n) /\ next' = (next + 1) % Ids
      BY <1>1, <2>2 DEF LoggerPrint
    <3>2. mLogQueue' \in Seq(Bytes) /\ Len(mLogQueue') <= Capacity
      BY <2>2, <3>1, MessageBytes, LogAssumption DEF TypeOK
    <3>3. next' \in 0..(Ids - 1)
      BY <3>1, LogAssumption DEF TypeOK
    <3> QED
      BY <1>1, <2>2, <3>2, <3>3 DEF LoggerPrint, TypeOK
  <2> QED
    BY <2>1, <2>2
<1>2. CASE SendNotice \/ NoNotice \/ ResetDropped
  BY <1>2 DEF SendNotice, NoNotice, ResetDropped, TypeOK
<1>3. CASE Drain
  <2>1. buf' \in Seq(Bytes) /\ Len(buf') = TakenLen /\ (buf' # <<>> <=> TakenLen # 0)
    BY <1>3, TakenLenType DEF Drain, TypeOK
  <2>2. mLogQueue' \in Seq(Bytes) /\ Len(mLogQueue') <= Capacity
    BY <1>3, TakenLenType, LogAssumption DEF Drain, LeftBehind, TypeOK
  <2> QED
    BY <1>3, <2>1, <2>2, TakenLenType DEF Drain, TypeOK
<1>4. CASE Send
  <2>1. buf[Len(buf)] \in Bytes
    BY <1>4 DEF Send, TypeOK
  <2>2. due' \in 0..(Ids - 1)
    BY <1>4, <2>1, NextNumber DEF Send, After
  <2>3. <<>> \in Seq(Bytes) /\ Len(<<>>) <= Chunk
    BY EmptySeq, LogAssumption
  <2> QED
    BY <1>4, <2>2, <2>3 DEF Send, TypeOK
<1>5. CASE UNCHANGED vars
  BY <1>5 DEF vars, TypeOK
<1> QED
  BY <1>1, <1>2, <1>3, <1>4, <1>5 DEF Next, Process

(* The queue keeps within its memory and the main loop within its buffer,  *)
(* for every length of queue, chunk and message.                           *)
THEOREM TypeCorrect == Spec => []TypeOK
  BY TypeInit, TypeStep, PTL DEF Spec

-----------------------------------------------------------------------------
(* A sequence of whole messages (but for the beginning of the first) from  *)
(* number d on, before number x.                                           *)
Whole(s, d, x) ==
  IF s = <<>>
    THEN d = x
    ELSE s[1][1] = d /\ Chained(s) /\ s[Len(s)][2] /\ x = (s[Len(s)][1] + 1) % Ids

LEMMA WholeMeans == WholeMessages <=> Whole(Coming, due, next)
  BY DEF WholeMessages, Whole, Chained, After

(* Behind whole messages comes the one that is printed next.               *)
LEMMA WholeExtended ==
  ASSUME NEW s \in Seq(Bytes), NEW m \in Seq(Bytes), NEW d, NEW x,
         Whole(s, d, x), Len(m) >= 1,
         \A i \in 1..Len(m) : m[i][1] = x /\ (m[i][2] <=> i = Len(m))
  PROVE  Whole(s \o m, d, (x + 1) % Ids)
<1> DEFINE t == s \o m
<1>1. /\ Len(t) = Len(s) + Len(m) /\ Len(s) \in Nat /\ Len(m) \in Nat
      /\ \A i \in 1..Len(s) : t[i] = s[i]
      /\ \A i \in 1..Len(m) : t[Len(s) + i] = m[i]
      /\ t \in Seq(Bytes)
  BY Joined
<1> HIDE DEF t
<1>2. \A i \in 1..Len(m) : t[Len(s) + i][1] = x /\ (t[Len(s) + i][2] <=> i = Len(m))
  BY <1>1
<1>3. s # <<>> => Len(s) >= 1
  BY <1>1
<1>4. t # <<>>
  BY <1>1
<1>5. t[1][1] = d
  <2>1. CASE s = <<>>
    <3>1. Len(s) = 0 /\ 1 \in 1..Len(m)
      BY <1>1, <2>1
    <3>2. t[0 + 1][1] = x
      BY <1>2, <3>1
    <3> QED
      BY <2>1, <3>2 DEF Whole
  <2>2. CASE s # <<>>
    <3>1. t[1] = s[1]
      BY <1>1, <1>3, <2>2
    <3> QED
      BY <2>2, <3>1 DEF Whole
  <2> QED
    BY <2>1, <2>2
<1>6. ASSUME NEW i \in 1..(Len(t) - 1)
      PROVE  t[i + 1][1] = After(t[i])
  <2>1. CASE i < Len(s)
    <3>1. t[i] = s[i] /\ t[i + 1] = s[i + 1] /\ i \in 1..(Len(s) - 1)
      BY <1>1, <2>1
    <3>2. Chained(s)
      BY <1>1, <2>1 DEF Whole
    <3> QED
      BY <3>1, <3>2 DEF Chained
  <2>2. CASE i = Len(s)
    <3>1. s # <<>> /\ t[i] = s[Len(s)]
      BY <1>1, <2>2
    <3>2. 1 \in 1..Len(m)
      BY <1>1
    <3>3. t[i + 1][1] = x
      BY <1>2, <2>2, <3>2
    <3> QED
      BY <3>1, <3>3 DEF After, Whole
  <2>3. CASE i > Len(s)
    <3> DEFINE j == i - Len(s)
    <3>1. j \in 1..Len(m) /\ j + 1 \in 1..Len(m) /\ j # Len(m)
      BY <1>1, <2>3
    <3>2. i = Len(s) + j /\ i + 1 = Len(s) + (j + 1)
      BY <1>1
    <3> HIDE DEF j
    <3>3. t[i][1] = x /\ ~t[i][2] /\ t[i + 1][1] = x
      BY <1>2, <3>1, <3>2
    <3> QED
      BY <3>3 DEF After
  <2> QED
    BY <1>1, <2>1, <2>2, <2>3
<1>7. t[Len(t)][1] = x /\ t[Len(t)][2]
  BY <1>1, <1>2
<1>8. Whole(t, d, (x + 1) % Ids)
  BY <1>4, <1>5, <1>6, <1>7 DEF Whole, Chained
<1> QED
  BY <1>8 DEF t

(* What is left when the first bytes are sent.                             *)
LEMMA WholeRest ==
  ASSUME NEW l \in Seq(Bytes), NEW q \in Seq(Bytes), NEW d, NEW x,
         Whole(l \o q, d, x), l # <<>>
  PROVE  Whole(q, After(l[Len(l)]), x)
<1> DEFINE t == l \o q
<1>1. /\ Len(t) = Len(l) + Len(q) /\ Len(l) \in Nat /\ Len(q) \in Nat
      /\ \A i \in 1..Len(l) : t[i] = l[i]
      /\ \A i \in 1..Len(q) : t[Len(l) + i] = q[i]
      /\ t \in Seq(Bytes)
  BY Joined
<1>2. Whole(t, d, x)
  OBVIOUS
<1> HIDE DEF t
<1>3. Len(l) >= 1
  BY <1>1
<1>4. /\ t # <<>> /\ t[Len(l)] = l[Len(l)] /\ Chained(t)
      /\ t[Len(t)][2] /\ x = (t[Len(t)][1] + 1) % Ids
  <2>1. t # <<>> /\ t[Len(l)] = l[Len(l)]
    BY <1>1, <1>3
  <2> QED
    BY <1>2, <2>1 DEF Whole
<1>5. CASE q = <<>>
  <2>1. Len(t) = Len(l)
    BY <1>1, <1>5
  <2> QED
    BY <1>4, <1>5, <2>1 DEF Whole, After
<1>6. CASE q # <<>>
  <2>1. Len(q) >= 1
    BY <1>1, <1>6
  <2>2. q[1][1] = After(l[Len(l)])
    <3>1. Len(l) \in 1..(Len(t) - 1) /\ 1 \in 1..Len(q)
      BY <1>1, <1>3, <2>1
    <3>2. t[Len(l) + 1][1] = After(t[Len(l)])
      BY <1>4, <3>1 DEF Chained
    <3> QED
      BY <1>1, <1>4, <3>1, <3>2
  <2>3. ASSUME NEW i \in 1..(Len(q) - 1)
        PROVE  q[i + 1][1] = After(q[i])
    <3>1. Len(l) + i \in 1..(Len(t) - 1) /\ (Len(l) + i) + 1 = Len(l) + (i + 1)
      BY <1>1
    <3>2. t[(Len(l) + i) + 1][1] = After(t[Len(l) + i])
      BY <1>4, <3>1 DEF Chained
    <3>3. t[Len(l) + i] = q[i] /\ t[Len(l) + (i + 1)] = q[i + 1]
      BY <1>1
    <3> QED
      BY <3>1, <3>2, <3>3
  <2>4. t[Len(t)] = q[Len(q)]
    BY <1>1, <2>1
  <2> QED
    BY <1>4, <1>6, <2>2, <2>3, <2>4 DEF Whole, Chained
<1> QED
  BY <1>5, <1>6

LEMMA WholeStep == TypeOK /\ WholeMessages /\ [Next]_vars => WholeMessages'
<1> SUFFICES ASSUME TypeOK, WholeMessages, [Next]_vars PROVE WholeMessages'
  OBVIOUS
<1>0. buf \in Seq(Bytes) /\ mLogQueue \in Seq(Bytes) /\ Whole(Coming, due, next)
  BY WholeMeans DEF TypeOK
<1>p. Whole(Coming', due', next') => WholeMessages'
  BY DEF WholeMessages, Whole, Chained, After
<1>1. ASSUME UNCHANGED <<Coming, due, next>>
      PROVE  WholeMessages'
  BY <1>1 DEF WholeMessages
<1>2. ASSUME NEW n \in Lens, LoggerPrint(n)
      PROVE  WholeMessages'
  <2>1. CASE UNCHANGED <<mLogQueue, next>>
    BY <1>1, <1>2, <2>1 DEF LoggerPrint, Coming
  <2>2. CASE mLogQueue' = mLogQueue \o Message(n) /\ next' = (next + 1) % Ids
    <3>1. PICK m \in Seq(Bytes) :
            /\ m = Message(n) /\ Len(m) >= 1
            /\ \A i \in 1..Len(m) : m[i][1] = next /\ (m[i][2] <=> i = Len(m))
      BY MessageBytes
    <3>2. Coming' = Coming \o m
      <4>1. (buf \o mLogQueue) \o m = buf \o (mLogQueue \o m)
        BY <1>0, ConcatAssociative
      <4> QED
        BY <1>2, <2>2, <3>1, <4>1 DEF LoggerPrint, Coming
    <3>3. Coming \in Seq(Bytes)
      BY <1>0 DEF Coming
    <3>4. Whole(Coming \o m, due, (next + 1) % Ids)
      BY <1>0, <3>1, <3>3, WholeExtended
    <3> QED
      BY <1>2, <1>p, <2>2, <3>2, <3>4 DEF LoggerPrint
  <2> QED
    BY <1>2, <2>1, <2>2 DEF LoggerPrint
<1>3. CASE SendNotice \/ NoNotice \/ ResetDropped \/ UNCHANGED vars
  BY <1>1, <1>3 DEF SendNotice, NoNotice, ResetDropped, vars, Coming
<1>4. CASE Drain
  <2>1. buf = <<>>
    BY <1>4 DEF Drain, TypeOK
  <2>2. SubSeq(mLogQueue, 1, TakenLen) \o LeftBehind = mLogQueue
    <3>1. TakenLen \in 0..Len(mLogQueue) /\ Len(mLogQueue) \in Nat
      BY <1>0, TakenLenType
    <3>2. ASSUME NEW k \in 0..Len(mLogQueue)
          PROVE  SubSeq(mLogQueue, 1, k) \o SubSeq(mLogQueue, k + 1, Len(mLogQueue))
                   = mLogQueue
      <4>1. 1 \in 1..(Len(mLogQueue) + 1) /\ k \in 1 - 1..Len(mLogQueue)
            /\ Len(mLogQueue) \in k..Len(mLogQueue)
        BY <3>1
      <4> QED
        BY <1>0, <4>1, ConcatAdjacentSubSeq, SubSeqFull
    <3> QED
      BY <3>1, <3>2 DEF LeftBehind
  <2>3. <<>> \o mLogQueue = mLogQueue
    BY <1>0, ConcatEmptySeq
  <2> QED
    BY <1>1, <1>4, <2>1, <2>2, <2>3 DEF Drain, Coming
<1>5. CASE Send
  <2>1. /\ buf # <<>> /\ due' = After(buf[Len(buf)])
        /\ buf' = <<>> /\ UNCHANGED <<mLogQueue, next>>
    BY <1>5 DEF Send, After, TypeOK
  <2>2. Coming' = mLogQueue
    BY <1>0, <2>1, ConcatEmptySeq DEF Coming
  <2>3. Whole(mLogQueue, After(buf[Len(buf)]), next)
    BY <1>0, <2>1, WholeRest DEF Coming
  <2> QED
    BY <1>p, <2>1, <2>2, <2>3
<1> QED
  BY <1>2, <1>3, <1>4, <1>5 DEF Next, Process

(* The log consists of whole messages in the order they were printed.      *)
THEOREM LogIsWhole == Spec => []WholeMessages
<1>1. Init => WholeMessages
  BY DEF Init, WholeMessages, Coming
<1> QED
  BY <1>1, WholeStep, TypeCorrect, PTL DEF Spec

-----------------------------------------------------------------------------
(* The main loop still knows of every drop it has not sent a notice of,    *)
(* but for those between a notice and the reset of the flag: a drop is     *)
(* never forgotten before it is noticed.                                   *)
THEOREM DropsRemembered == Spec => []DropKnown
<1>1. Init => DropKnown /\ NoticePending
  BY DEF Init, DropKnown, NoticePending
<1>2. DropKnown /\ NoticePending /\ [Next]_vars => DropKnown' /\ NoticePending'
  <2> SUFFICES ASSUME DropKnown, NoticePending, [Next]_vars
               PROVE  DropKnown' /\ NoticePending'
    OBVIOUS
  <2>1. ASSUME NEW n \in Lens, LoggerPrint(n)
        PROVE  DropKnown' /\ NoticePending'
    BY <2>1 DEF LoggerPrint, DropKnown, NoticePending
  <2>2. CASE SendNotice \/ NoNotice \/ ResetDropped
    BY <2>2 DEF SendNotice, NoNotice, ResetDropped, DropKnown, NoticePending
  <2>3. CASE Drain \/ Send \/ UNCHANGED vars
    BY <2>3 DEF Drain, Send, vars, DropKnown, NoticePending
  <2> QED
    BY <2>1, <2>2, <2>3 DEF Next, Process
<1> QED
  BY <1>1, <1>2, PTL DEF Spec
=============================================================================
