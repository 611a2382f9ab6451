----------------------- MODULE VendorChannel_proofs -----------------------
(***************************************************************************)
(* Theorems about VendorChannel for every number of commands, retries and  *)
(* re-openings: the flags of the driver agree with the endpoint jobs, a    *)
(* configured device listens, and the channel implements CommandService.   *)
(***************************************************************************)
EXTENDS VendorChannel, TLAPS

(* What the operations of an endpoint do to its four bits.                 *)
LEMMA RunBits ==
  ASSUME NEW e \in Endpoint
  PROVE  /\ Run(e) \in Endpoint /\ Run(e).busy /\ Run(e).enabled = e.enabled
         /\ Run(e).trcpt = e.trcpt
         /\ ~e.busy => Run(e).ready = (e.ready \/ e.enabled)
         /\ e.busy => Run(e).ready = e.ready
  BY DEF Run, Endpoint

LEMMA AbortedBits ==
  ASSUME NEW e \in Endpoint
  PROVE  /\ Aborted(e) \in Endpoint /\ ~Aborted(e).busy /\ ~Aborted(e).ready
         /\ ~Aborted(e).trcpt /\ Aborted(e).enabled = e.enabled
  BY DEF Aborted, Endpoint

LEMMA AbortBits ==
  ASSUME NEW e \in Endpoint, NEW inUse \in BOOLEAN
  PROVE  /\ Abort(e, inUse) \in Endpoint /\ Abort(e, inUse).enabled = e.enabled
         /\ Abort(e, inUse).busy <=> (e.busy /\ inUse)
         /\ Abort(e, inUse).ready <=> (e.busy /\ inUse /\ e.enabled)
         /\ ~Abort(e, inUse).trcpt
<1>1. CASE e.busy /\ inUse
  BY <1>1, AbortedBits, RunBits DEF Abort, Reruns
<1>2. CASE ~(e.busy /\ inUse)
  BY <1>2, AbortedBits DEF Abort, Reruns
<1> QED
  BY <1>1, <1>2

LEMMA FreeBits ==
  ASSUME NEW e \in Endpoint, NEW inUse \in BOOLEAN
  PROVE  /\ Free(e, inUse) \in Endpoint /\ ~Free(e, inUse).enabled
         /\ Free(e, inUse).busy <=> (e.busy /\ inUse)
         /\ Free(e, inUse).ready => inUse
         /\ ~Free(e, inUse).trcpt
<1>1. ASSUME NEW a \in Endpoint
      PROVE  /\ [a EXCEPT !.enabled = FALSE] \in Endpoint
             /\ ~[a EXCEPT !.enabled = FALSE].enabled
             /\ [a EXCEPT !.enabled = FALSE].busy = a.busy
             /\ [a EXCEPT !.enabled = FALSE].ready = a.ready
             /\ [a EXCEPT !.enabled = FALSE].trcpt = a.trcpt
  BY DEF Endpoint
<1> QED
  BY <1>1, AbortBits DEF Free

LEMMA OtherBits ==
  ASSUME NEW e \in Endpoint
  PROVE  /\ Alloc(e) \in Endpoint /\ Alloc(e).enabled /\ ~Alloc(e).ready
         /\ Alloc(e).busy = e.busy /\ Alloc(e).trcpt = e.trcpt
         /\ Completed(e) \in Endpoint /\ ~Completed(e).busy /\ ~Completed(e).trcpt
         /\ Completed(e).enabled = e.enabled /\ Completed(e).ready = e.ready
         /\ Transferred(e) \in Endpoint /\ Transferred(e).trcpt /\ ~Transferred(e).ready
         /\ Transferred(e).busy = e.busy /\ Transferred(e).enabled = e.enabled
         /\ BusReset(e) \in Endpoint /\ ~BusReset(e).enabled /\ ~BusReset(e).trcpt
         /\ BusReset(e).busy = e.busy /\ BusReset(e).ready = e.ready
  BY DEF Alloc, Completed, Transferred, BusReset, Endpoint

(* The write endpoint is handed to the hardware only after it was enabled, *)
(* and a device that is configured, with no reset of the bus pending, has  *)
(* its endpoints enabled.                                                  *)
Armed ==
  /\ epWrite.ready \/ epWrite.trcpt \/ InRearm => mWriteEPEnabled
  /\ configured /\ ~busReset => epWrite.enabled

IInv == TypeOK /\ JobsTracked /\ Listening /\ Armed

(* TypeOK in two parts, for the provers: the booleans, and the others.     *)
FlagsOK ==
  /\ mReadEPEnabled \in BOOLEAN /\ mWriteEPEnabled \in BOOLEAN
  /\ mSeqNo \in BOOLEAN /\ configured \in BOOLEAN
  /\ busReset \in BOOLEAN /\ assertFailed \in BOOLEAN
  /\ hSeq \in BOOLEAN /\ hQuiet \in BOOLEAN

ValuesOK ==
  /\ epWrite \in Endpoint /\ epRead \in Endpoint /\ inLen \in Nat
  /\ written \in Packet \union {NoCmd}
  /\ mReadBuf \in Response \union {Blank} /\ rsp \in Response \union {Blank}
  /\ mReadBufLen \in Nat
  /\ pc \in {"idle", "clear", "copy", "rearm", "respond"}
  /\ setup \in {"none", "reset", "config"}
  /\ executed \in Seq(Nat \ {0})
  /\ hPhase \in {"config", "open", "send", "wait"}
  /\ hCmd \in Nat \ {0} /\ hTries \in Nat /\ hResets \in Nat
  /\ replies \in Seq([cmd : Nat, rsp : Nat, intact : BOOLEAN])

LEMMA TypeParts == TypeOK <=> FlagsOK /\ ValuesOK
BY DEF TypeOK, FlagsOK, ValuesOK

LEMMA FlagsStep == TypeOK /\ [Next]_vars => FlagsOK'
<1> SUFFICES ASSUME FlagsOK, ValuesOK, Next \/ UNCHANGED vars PROVE FlagsOK'
  BY TypeParts
<1> USE DEF FlagsOK
<1>1. CASE UsbOut
  <2>1. written.seq \in BOOLEAN
    <3>1. CASE written \in Packet
      BY <3>1 DEF Packet
    <3>2. CASE written = NoCmd
      <4>1. NoCmd.seq = FALSE
        BY DEF NoCmd
      <4> QED
        BY <3>2, <4>1
    <3> QED
      BY <3>1, <3>2 DEF ValuesOK
  <2>2. mSeqNo' = written.seq \/ mSeqNo' = mSeqNo
    BY <1>1 DEF UsbOut
  <2>3. UNCHANGED <<mReadEPEnabled, mWriteEPEnabled, configured, busReset,
                    assertFailed, hSeq, hQuiet>>
    BY <1>1 DEF UsbOut, driverVars, hostVars
  <2> QED
    BY <2>1, <2>2, <2>3
<1>2. CASE RearmWrite
  BY <1>2 DEF RearmWrite, driverVars, hostVars
<1>3. CASE RunRead
  BY <1>3 DEF RunRead, hostVars
<1>4. CASE UsbSetupConfig
  BY <1>4 DEF UsbSetupConfig, hostVars
<1>5. CASE UsbBusReset
  BY <1>5 DEF UsbBusReset, hostVars
<1>6. CASE ClearReadBuf \/ CopyReadBuf \/ UsbIn \/ UsbSetupReset
  BY <1>6 DEF ClearReadBuf, CopyReadBuf, UsbIn, UsbSetupReset, driverVars, hostVars
<1>7. CASE HostConfigure \/ HostOpen \/ HostWrite \/ HostTimeout \/ HostNudge
  <2>1. hQuiet' = hQuiet \/ hQuiet' = FALSE
    BY <1>7 DEF HostConfigure, HostOpen, HostWrite, HostTimeout, HostNudge
  <2>2. UNCHANGED <<mReadEPEnabled, mWriteEPEnabled, mSeqNo, configured, busReset,
                    assertFailed, hSeq>>
    BY <1>7 DEF HostConfigure, HostOpen, HostWrite, HostTimeout, HostNudge,
                deviceVars, driverVars
  <2> QED
    BY <2>1, <2>2
<1>8. CASE HostRead
  <2>1. hSeq' = ~hSeq \/ hSeq' = hSeq
    BY <1>8 DEF HostRead
  <2>2. UNCHANGED <<mReadEPEnabled, mWriteEPEnabled, mSeqNo, configured, busReset,
                    assertFailed, hQuiet>>
    BY <1>8 DEF HostRead, deviceVars, driverVars
  <2> QED
    BY <2>1, <2>2
<1>9. ASSUME NEW way \in ReopenWays, HostReopen(way) PROVE FlagsOK'
  <2>1. busReset' = TRUE \/ busReset' = busReset
    BY <1>9 DEF HostReopen
  <2>2. hSeq' = TRUE /\ hQuiet' \in BOOLEAN
    BY <1>9 DEF HostReopen
  <2>3. UNCHANGED <<mReadEPEnabled, mWriteEPEnabled, mSeqNo, configured, assertFailed>>
    BY <1>9 DEF HostReopen, deviceVars, driverVars
  <2> QED
    BY <2>1, <2>2, <2>3
<1>10. CASE UNCHANGED vars
  BY <1>10 DEF vars, driverVars, hostVars
<1> QED
  BY <1>1, <1>2, <1>3, <1>4, <1>5, <1>6, <1>7, <1>8, <1>9, <1>10 DEF Next, Device, Host

LEMMA ValuesStep == TypeOK /\ [Next]_vars => ValuesOK'
<1> SUFFICES ASSUME FlagsOK, ValuesOK, Next \/ UNCHANGED vars PROVE ValuesOK'
  BY TypeParts
<1> USE DEF ValuesOK
<1>1. RspLens \subseteq Nat
  BY LensAssumption
<1>2. CASE UsbOut
  <2>1. epWrite' \in Endpoint /\ pc' \in {"clear", "rearm"}
    BY <1>2, OtherBits DEF UsbOut
  <2>2. CASE IsNew(written)
    <3>1. written \in Packet
      BY <2>2 DEF IsNew
    <3>2. executed' = Append(executed, written.id) /\ written.id \in Nat \ {0}
      BY <1>2, <2>2, <3>1 DEF UsbOut, Packet
    <3>3. executed' \in Seq(Nat \ {0})
      BY <3>2
    <3>4. PICK n \in RspLens :
            rsp' = [id |-> written.id, seq |-> written.seq, len |-> n]
      BY <1>2, <2>2 DEF UsbOut
    <3>5. rsp' \in Response
      BY <3>1, <3>4 DEF Packet, Response
    <3>6. UNCHANGED <<epRead, inLen, written, setup, mReadBuf, mReadBufLen, hostVars>>
      BY <1>2 DEF UsbOut
    <3> QED
      BY <2>1, <3>3, <3>5, <3>6 DEF hostVars
  <2>3. CASE ~IsNew(written)
    <3>1. UNCHANGED <<epRead, inLen, written, setup, mReadBuf, mReadBufLen, hostVars,
                      executed, rsp>>
      BY <1>2, <2>3 DEF UsbOut
    <3> QED
      BY <2>1, <3>1 DEF hostVars
  <2> QED
    BY <2>2, <2>3
<1>3. CASE ClearReadBuf
  BY <1>3 DEF ClearReadBuf, hostVars
<1>4. CASE CopyReadBuf
  BY <1>1, <1>4 DEF CopyReadBuf, hostVars, Response, Blank
<1>5. CASE RearmWrite
  BY <1>5, RunBits DEF RearmWrite, dataVars, hostVars
<1>6. CASE RunRead
  <2>1. Abort(epRead, TRUE) \in Endpoint /\ Run(epRead) \in Endpoint
    <3>1. TRUE \in BOOLEAN
      OBVIOUS
    <3> QED
      BY <3>1, RunBits, AbortBits
  <2>2. epRead' \in Endpoint
    BY <1>6, <2>1 DEF RunRead
  <2> QED
    BY <1>6, <2>2 DEF RunRead, dataVars, hostVars
<1>7. CASE UsbIn
  BY <1>7, OtherBits DEF UsbIn, dataVars, hostVars
<1>8. CASE UsbSetupReset
  BY <1>8 DEF UsbSetupReset, dataVars, hostVars
<1>9. FreedWrite \in Endpoint /\ FreedRead \in Endpoint /\ FreedInLen \in Nat
  BY FreeBits DEF FreedWrite, FreedRead, FreedInLen, FlagsOK
<1>10. CASE UsbSetupConfig
  <2>1. epWrite' \in Endpoint /\ epRead' \in Endpoint
    BY <1>9, <1>10, OtherBits, RunBits, AbortBits DEF UsbSetupConfig
  <2> QED
    BY <1>9, <1>10, <2>1 DEF UsbSetupConfig, dataVars, hostVars
<1>11. CASE UsbBusReset
  BY <1>9, <1>11 DEF UsbBusReset, dataVars, hostVars
<1>12. CASE HostConfigure \/ HostOpen
  BY <1>12 DEF HostConfigure, HostOpen, deviceVars, dataVars
<1>13. CASE HostWrite
  BY <1>13, OtherBits DEF HostWrite, deviceVars, dataVars, Packet, FlagsOK
<1>14. CASE HostTimeout
  BY <1>14 DEF HostTimeout, deviceVars, dataVars
<1>15. CASE HostNudge
  BY <1>15, OtherBits DEF HostNudge, deviceVars, dataVars
<1>16. CASE HostRead
  <2>1. epRead' \in Endpoint
    BY <1>16, OtherBits DEF HostRead
  <2>2. UNCHANGED <<epWrite, inLen, written, mReadBuf, rsp, mReadBufLen, pc, setup,
                    executed, hResets>>
    BY <1>16 DEF HostRead, deviceVars, dataVars
  <2>3. CASE inLen > 0 /\ mReadBuf # Blank /\ mReadBuf.seq = hSeq
    <3>1. mReadBuf.id \in Nat
      BY <2>3 DEF Response
    <3>2. [cmd |-> hCmd, rsp |-> mReadBuf.id, intact |-> inLen = mReadBuf.len]
             \in [cmd : Nat, rsp : Nat, intact : BOOLEAN]
      <4>1. (inLen = mReadBuf.len) \in BOOLEAN
        OBVIOUS
      <4>2. \A c, r \in Nat, b \in BOOLEAN :
              [cmd |-> c, rsp |-> r, intact |-> b] \in [cmd : Nat, rsp : Nat, intact : BOOLEAN]
        OBVIOUS
      <4>3. hCmd \in Nat
        OBVIOUS
      <4> QED
        BY <3>1, <4>1, <4>2, <4>3, Zenon
    <3>3. replies' \in Seq([cmd : Nat, rsp : Nat, intact : BOOLEAN])
      <4> DEFINE r == [cmd |-> hCmd, rsp |-> mReadBuf.id, intact |-> inLen = mReadBuf.len]
                 R == [cmd : Nat, rsp : Nat, intact : BOOLEAN]
      <4>1. replies' = Append(replies, r)
        BY <1>16, <2>3 DEF HostRead
      <4>2. r \in R /\ replies \in Seq(R)
        BY <3>2
      <4> HIDE DEF r, R
      <4>3. replies' \in Seq(R)
        BY <4>1, <4>2
      <4> QED
        BY <4>3 DEF R
    <3>4. hCmd' \in Nat \ {0} /\ hTries' \in Nat /\ hPhase' = "send"
      BY <1>16, <2>3 DEF HostRead
    <3> QED
      BY <2>1, <2>2, <3>3, <3>4
  <2>4. CASE ~(inLen > 0 /\ mReadBuf # Blank /\ mReadBuf.seq = hSeq)
    <3>1. UNCHANGED <<replies, hPhase, hCmd, hTries>>
      BY <1>16, <2>4 DEF HostRead
    <3> QED
      BY <2>1, <2>2, <3>1
  <2> QED
    BY <2>3, <2>4
<1>17. ASSUME NEW way \in ReopenWays, HostReopen(way) PROVE ValuesOK'
  <2>1. epWrite' \in Endpoint /\ epRead' \in Endpoint
    BY <1>17, OtherBits DEF HostReopen
  <2>2. setup' \in {"none", "reset", "config"} /\ hPhase' \in {"config", "open", "send"}
    BY <1>17 DEF HostReopen
  <2>3. hCmd' \in Nat \ {0} /\ hTries' \in Nat /\ hResets' \in Nat
    BY <1>17 DEF HostReopen
  <2> QED
    BY <1>17, <2>1, <2>2, <2>3 DEF HostReopen, deviceVars, dataVars
<1>18. CASE UNCHANGED vars
  BY <1>18 DEF vars, dataVars, hostVars
<1> QED
  BY <1>2, <1>3, <1>4, <1>5, <1>6, <1>7, <1>8, <1>10, <1>11, <1>12, <1>13, <1>14,
     <1>15, <1>16, <1>17, <1>18 DEF Next, Device, Host
-----------------------------------------------------------------------------
(* The invariant holds when the device starts.                             *)
LEMMA InitIInv == Init => IInv
<1> SUFFICES ASSUME Init PROVE IInv
  OBVIOUS
<1>1. FlagsOK
  BY DEF Init, FlagsOK
<1>2. ValuesOK
  BY DEF Init, ValuesOK, Endpoint, Unused, NoCmd, Blank
<1>3. JobsTracked /\ Armed /\ Listening
  BY DEF Init, JobsTracked, Armed, Listening, InRearm, Unused
<1> QED
  BY <1>1, <1>2, <1>3, TypeParts DEF IInv

(* The steps that leave the write endpoint, its flag, the state of the     *)
(* device and the listening part of the handler alone.                     *)
WriteFrame ==
  /\ UNCHANGED <<epWrite, mWriteEPEnabled, configured, busReset>>
  /\ InRearm' = InRearm

ReadFrame == UNCHANGED <<epRead, mReadEPEnabled>>

LEMMA Frames ==
  ASSUME TypeOK
  PROVE  /\ ClearReadBuf \/ CopyReadBuf \/ RunRead \/ UsbIn \/ UsbSetupReset \/ HostConfigure
              \/ HostOpen \/ HostTimeout \/ HostRead \/ UNCHANGED vars => WriteFrame
         /\ UsbOut \/ ClearReadBuf \/ CopyReadBuf \/ RearmWrite \/ UsbSetupReset
              \/ HostConfigure \/ HostOpen \/ HostWrite \/ HostTimeout \/ HostNudge
              \/ UNCHANGED vars => ReadFrame
<1>1. ClearReadBuf \/ CopyReadBuf => WriteFrame /\ ReadFrame
  BY DEF ClearReadBuf, CopyReadBuf, WriteFrame, ReadFrame, driverVars, InRearm
<1>2. RunRead => WriteFrame
  BY DEF RunRead, WriteFrame, InRearm
<1>3. UsbIn => WriteFrame
  BY DEF UsbIn, WriteFrame, InRearm
<1>4. UsbSetupReset => WriteFrame /\ ReadFrame
  BY DEF UsbSetupReset, WriteFrame, ReadFrame, driverVars, InRearm
<1>5. HostConfigure \/ HostOpen \/ HostTimeout => WriteFrame /\ ReadFrame
  BY DEF HostConfigure, HostOpen, HostTimeout, WriteFrame, ReadFrame, deviceVars,
         driverVars, InRearm
<1>6. HostRead => WriteFrame
  BY DEF HostRead, WriteFrame, deviceVars, driverVars, InRearm
<1>7. HostWrite \/ HostNudge => ReadFrame
  BY DEF HostWrite, HostNudge, ReadFrame, deviceVars, driverVars
<1>8. UsbOut \/ RearmWrite => ReadFrame
  BY DEF UsbOut, RearmWrite, ReadFrame, driverVars
<1>9. UNCHANGED vars => WriteFrame /\ ReadFrame
  BY DEF vars, WriteFrame, ReadFrame, driverVars, InRearm
<1> QED
  BY <1>1, <1>2, <1>3, <1>4, <1>5, <1>6, <1>7, <1>8, <1>9

(* The write side of the invariant.                                        *)
WriteSide ==
  /\ epWrite.busy <=> (mWriteEPEnabled /\ ~InRearm)
  /\ Listening /\ Armed

LEMMA WriteStep == IInv /\ [Next]_vars => WriteSide'
<1> SUFFICES ASSUME IInv, Next \/ UNCHANGED vars PROVE WriteSide'
  OBVIOUS
<1>1. /\ TypeOK /\ epWrite \in Endpoint /\ mWriteEPEnabled \in BOOLEAN
      /\ (epWrite.busy <=> (mWriteEPEnabled /\ ~InRearm)) /\ Listening /\ Armed
  BY DEF IInv, TypeOK, JobsTracked
<1>2. ASSUME WriteFrame PROVE WriteSide'
  BY <1>1, <1>2 DEF WriteFrame, WriteSide, Listening, Armed
<1>3. CASE UsbOut
  <2>1. /\ epWrite' = Completed(epWrite) /\ InRearm' /\ epWrite.trcpt
        /\ UNCHANGED <<mWriteEPEnabled, configured, busReset>>
    BY <1>3 DEF UsbOut, InRearm, driverVars
  <2>2. ~epWrite'.busy /\ ~epWrite'.trcpt /\ epWrite'.enabled = epWrite.enabled
    BY <1>1, <2>1, OtherBits
  <2> QED
    BY <1>1, <2>1, <2>2 DEF WriteSide, Listening, Armed
<1>4. CASE RearmWrite
  <2>1. /\ epWrite' = Run(epWrite) /\ InRearm /\ ~InRearm'
        /\ UNCHANGED <<mWriteEPEnabled, configured, busReset>>
    BY <1>4 DEF RearmWrite, InRearm, driverVars
  <2>2. ~epWrite.busy /\ mWriteEPEnabled
    BY <1>1, <2>1 DEF Armed
  <2>3. /\ epWrite'.busy /\ epWrite'.enabled = epWrite.enabled
        /\ epWrite'.ready = (epWrite.ready \/ epWrite.enabled)
    BY <1>1, <2>1, <2>2, RunBits
  <2> QED
    BY <1>1, <2>1, <2>2, <2>3 DEF WriteSide, Listening, Armed
<1>5. CASE HostWrite \/ HostNudge
  <2>1. /\ epWrite' = Transferred(epWrite) /\ epWrite.ready /\ InRearm' = InRearm
        /\ UNCHANGED <<mWriteEPEnabled, configured, busReset>>
    BY <1>5 DEF HostWrite, HostNudge, Transfers, InRearm, deviceVars, driverVars
  <2>2. /\ epWrite'.busy = epWrite.busy /\ epWrite'.enabled = epWrite.enabled
        /\ epWrite'.trcpt
    BY <1>1, <2>1, OtherBits
  <2> QED
    BY <1>1, <2>1, <2>2 DEF WriteSide, Listening, Armed
<1>6. ASSUME NEW way \in ReopenWays, HostReopen(way) PROVE WriteSide'
  <2>1. UNCHANGED <<mWriteEPEnabled, configured>> /\ InRearm' = InRearm
    BY <1>6 DEF HostReopen, deviceVars, driverVars, InRearm
  <2>2. CASE way = "bus"
    <3>1. epWrite' = BusReset(epWrite) /\ busReset' = TRUE
      BY <1>6, <2>2 DEF HostReopen
    <3>2. /\ epWrite'.busy = epWrite.busy /\ epWrite'.ready = epWrite.ready
          /\ ~epWrite'.trcpt
      BY <1>1, <3>1, OtherBits
    <3> QED
      BY <1>1, <2>1, <3>1, <3>2 DEF WriteSide, Listening, Armed
  <2>3. CASE way # "bus"
    <3>1. UNCHANGED <<epWrite, busReset>>
      BY <1>6, <2>3 DEF HostReopen
    <3> QED
      BY <1>2, <2>1, <3>1 DEF WriteFrame
  <2> QED
    BY <2>2, <2>3
<1>7. ASSUME ~InRearm
      PROVE  /\ FreedWrite \in Endpoint /\ (FreedWrite.busy <=> mWriteEPEnabled)
             /\ FreedWrite.ready \/ FreedWrite.trcpt => mWriteEPEnabled
  <2>1. CASE configured
    BY <1>1, <1>7, <2>1, FreeBits DEF FreedWrite
  <2>2. CASE ~configured
    BY <1>1, <1>7, <2>2 DEF FreedWrite, Armed
  <2> QED
    BY <2>1, <2>2
<1>8. CASE UsbSetupConfig
  <2> DEFINE write == Alloc(FreedWrite)
  <2>1. /\ epWrite' = (IF mWriteEPEnabled THEN Abort(write, TRUE) ELSE Run(write))
        /\ mWriteEPEnabled' = TRUE /\ ~InRearm /\ ~InRearm'
    BY <1>8 DEF UsbSetupConfig, IsrIdle, InRearm
  <2>2. write \in Endpoint /\ write.enabled /\ (write.busy <=> mWriteEPEnabled)
    BY <1>7, <2>1, OtherBits
  <2> HIDE DEF write
  <2>3. epWrite'.busy /\ epWrite'.enabled /\ epWrite'.ready
    <3>1. CASE mWriteEPEnabled
      <4>1. TRUE \in BOOLEAN
        OBVIOUS
      <4> QED
        BY <2>1, <2>2, <3>1, <4>1, AbortBits
    <3>2. CASE ~mWriteEPEnabled
      BY <2>1, <2>2, <3>2, RunBits
    <3> QED
      BY <3>1, <3>2
  <2> QED
    BY <2>1, <2>3 DEF WriteSide, Listening, Armed
<1>9. CASE UsbBusReset
  <2>1. /\ epWrite' = FreedWrite /\ configured' = FALSE /\ ~InRearm /\ ~InRearm'
        /\ UNCHANGED mWriteEPEnabled
    BY <1>9 DEF UsbBusReset, IsrIdle, InRearm
  <2> QED
    BY <1>7, <2>1 DEF WriteSide, Listening, Armed
<1> QED
  BY <1>1, <1>2, <1>3, <1>4, <1>5, <1>6, <1>8, <1>9, Frames DEF Next, Device, Host

(* The read side: the flag and the job change together.                    *)
ReadSide == mReadEPEnabled <=> epRead.busy

LEMMA ReadStep == IInv /\ [Next]_vars => ReadSide'
<1> SUFFICES ASSUME IInv, Next \/ UNCHANGED vars PROVE ReadSide'
  OBVIOUS
<1>1. /\ TypeOK /\ epRead \in Endpoint /\ mReadEPEnabled \in BOOLEAN
      /\ (mReadEPEnabled <=> epRead.busy)
  BY DEF IInv, TypeOK, JobsTracked
<1>2. ASSUME ReadFrame PROVE ReadSide'
  BY <1>1, <1>2 DEF ReadFrame, ReadSide
<1>3. CASE RunRead
  <2>1. /\ epRead' = (IF mReadEPEnabled THEN Abort(epRead, TRUE) ELSE Run(epRead))
        /\ mReadEPEnabled' = TRUE
    BY <1>3 DEF RunRead
  <2>2. CASE mReadEPEnabled
    <3>1. TRUE \in BOOLEAN
      OBVIOUS
    <3>2. epRead'.busy
      BY <1>1, <2>1, <2>2, <3>1, AbortBits
    <3> QED
      BY <2>1, <3>2 DEF ReadSide
  <2>3. CASE ~mReadEPEnabled
    BY <1>1, <2>1, <2>3, RunBits DEF ReadSide
  <2> QED
    BY <2>2, <2>3
<1>4. CASE UsbIn
  <2>1. epRead' = Completed(epRead) /\ mReadEPEnabled' = FALSE
    BY <1>4 DEF UsbIn
  <2> QED
    BY <1>1, <2>1, OtherBits DEF ReadSide
<1>5. FreedRead \in Endpoint /\ (FreedRead.busy <=> mReadEPEnabled)
  BY <1>1, FreeBits DEF FreedRead
<1>6. CASE UsbSetupConfig
  <2>1. epRead' = Alloc(FreedRead) /\ UNCHANGED mReadEPEnabled
    BY <1>6 DEF UsbSetupConfig
  <2> QED
    BY <1>5, <2>1, OtherBits DEF ReadSide
<1>7. CASE UsbBusReset
  <2>1. epRead' = FreedRead /\ UNCHANGED mReadEPEnabled
    BY <1>7 DEF UsbBusReset
  <2> QED
    BY <1>5, <2>1 DEF ReadSide
<1>8. CASE HostRead
  <2>1. epRead' = Transferred(epRead) /\ UNCHANGED mReadEPEnabled
    BY <1>8 DEF HostRead, deviceVars, driverVars
  <2> QED
    BY <1>1, <2>1, OtherBits DEF ReadSide
<1>9. ASSUME NEW way \in ReopenWays, HostReopen(way) PROVE ReadSide'
  <2>1. /\ epRead' = BusReset(epRead) \/ epRead' = epRead
        /\ UNCHANGED mReadEPEnabled
    BY <1>9 DEF HostReopen, deviceVars, driverVars
  <2> QED
    BY <1>1, <2>1, OtherBits DEF ReadSide
<1> QED
  BY <1>1, <1>2, <1>3, <1>4, <1>6, <1>7, <1>8, <1>9, Frames DEF Next, Device, Host

LEMMA IInvStep == IInv /\ [Next]_vars => IInv'
<1> SUFFICES ASSUME IInv, [Next]_vars PROVE IInv'
  OBVIOUS
<1>1. TypeOK'
  <2>1. FlagsOK' /\ ValuesOK'
    BY FlagsStep, ValuesStep DEF IInv
  <2> QED
    BY <2>1 DEF FlagsOK, ValuesOK, TypeOK
<1>2. WriteSide' /\ ReadSide'
  BY WriteStep, ReadStep
<1> QED
  BY <1>1, <1>2 DEF WriteSide, ReadSide, IInv, JobsTracked

LEMMA Invariance == Spec => []IInv
BY InitIInv, IInvStep, PTL DEF Spec

(* In every reachable state every variable holds a value of its type.      *)
THEOREM TypeCorrect == Spec => []TypeOK
<1>1. IInv => TypeOK
  BY DEF IInv
<1> QED
  BY <1>1, Invariance, PTL

(* The driver's flags agree with the endpoint jobs of ASF after any order  *)
(* of packets, retries, configurations and resets: an abort always finds   *)
(* the job it is meant for, and a run is never refused for a stale one.    *)
THEOREM FlagsAgreeWithJobs == Spec => []JobsTracked
<1>1. IInv => JobsTracked
  BY DEF IInv
<1> QED
  BY <1>1, Invariance, PTL

(* However the host starts over and however often, a configured device has *)
(* its OUT endpoint ready or a packet pending whenever no command is being *)
(* handled: the channel cannot go deaf.                                    *)
THEOREM NeverDeaf == Spec => []Listening
<1>1. IInv => Listening
  BY DEF IInv
<1> QED
  BY <1>1, Invariance, PTL
-----------------------------------------------------------------------------
(* Without resets of the bus: the endpoints are enabled exactly while the  *)
(* device is configured, and a handler runs on a configured device only.   *)
Steady ==
  /\ ~assertFailed /\ ~busReset
  /\ epWrite.enabled <=> configured
  /\ configured => epRead.enabled
  /\ pc # "idle" \/ epWrite.trcpt => configured

LEMMA SteadyStep ==
  ASSUME "bus" \notin ReopenWays
  PROVE  IInv /\ Steady /\ [Next]_vars => Steady'
<1> SUFFICES ASSUME IInv, Steady, Next \/ UNCHANGED vars PROVE Steady'
  OBVIOUS
<1>1. /\ TypeOK /\ epWrite \in Endpoint /\ epRead \in Endpoint
      /\ mWriteEPEnabled \in BOOLEAN /\ mReadEPEnabled \in BOOLEAN
      /\ (mReadEPEnabled <=> epRead.busy)
      /\ (epWrite.busy <=> (mWriteEPEnabled /\ ~InRearm))
      /\ ~assertFailed /\ ~busReset /\ (epWrite.enabled <=> configured)
      /\ (configured => epRead.enabled)
      /\ (pc # "idle" \/ epWrite.trcpt => configured)
  BY DEF IInv, TypeOK, JobsTracked, Steady
<1>2. ASSUME UNCHANGED <<assertFailed, busReset, configured>>,
             epWrite'.enabled = epWrite.enabled, epRead'.enabled = epRead.enabled,
             pc' # "idle" \/ epWrite'.trcpt => configured
      PROVE  Steady'
  BY <1>1, <1>2 DEF Steady
<1>3. CASE UsbOut
  <2>1. /\ epWrite' = Completed(epWrite) /\ epWrite.trcpt
        /\ UNCHANGED <<assertFailed, busReset, configured, epRead>>
    BY <1>3 DEF UsbOut, driverVars
  <2> QED
    BY <1>1, <1>2, <2>1, OtherBits
<1>4. CASE ClearReadBuf \/ CopyReadBuf
  BY <1>1, <1>2, <1>4 DEF ClearReadBuf, CopyReadBuf, driverVars
<1>5. CASE RearmWrite
  <2>1. /\ epWrite' = Run(epWrite) /\ pc = "rearm"
        /\ assertFailed' = (assertFailed \/ ~RunSucceeds(epWrite))
        /\ UNCHANGED <<busReset, configured, epRead>>
    BY <1>5 DEF RearmWrite, driverVars
  <2>2. configured /\ RunSucceeds(epWrite)
    BY <1>1, <2>1 DEF InRearm, RunSucceeds
  <2>3. ~assertFailed'
    BY <1>1, <2>1, <2>2
  <2>4. epWrite'.enabled = epWrite.enabled
    BY <1>1, <2>1, RunBits
  <2> QED
    BY <1>1, <2>1, <2>2, <2>3, <2>4 DEF Steady
<1>6. CASE RunRead
  <2>1. /\ pc = "respond" /\ pc' = "idle"
        /\ UNCHANGED <<busReset, configured, epWrite>>
    BY <1>6 DEF RunRead
  <2>2. configured /\ epRead.enabled
    BY <1>1, <2>1
  <2>3. CASE mReadEPEnabled
    <3>1. /\ epRead' = Abort(epRead, TRUE)
          /\ assertFailed' = (assertFailed \/ ~AbortSucceeds(epRead, TRUE))
      BY <1>6, <2>3 DEF RunRead
    <3>2. AbortSucceeds(epRead, TRUE)
      BY <1>1, <2>2, AbortedBits DEF AbortSucceeds, RunSucceeds
    <3>3. TRUE \in BOOLEAN
      OBVIOUS
    <3>4. epRead'.enabled
      BY <1>1, <2>2, <3>1, <3>3, AbortBits
    <3>5. ~assertFailed'
      BY <1>1, <3>1, <3>2
    <3> QED
      BY <1>1, <2>1, <2>2, <3>4, <3>5 DEF Steady
  <2>4. CASE ~mReadEPEnabled
    <3>1. /\ epRead' = Run(epRead)
          /\ assertFailed' = (assertFailed \/ ~RunSucceeds(epRead))
      BY <1>6, <2>4 DEF RunRead
    <3>2. RunSucceeds(epRead)
      BY <1>1, <2>2, <2>4 DEF RunSucceeds
    <3>3. ~assertFailed'
      BY <1>1, <3>1, <3>2
    <3> QED
      BY <1>1, <2>1, <2>2, <3>1, <3>3, RunBits DEF Steady
  <2> QED
    BY <2>3, <2>4
<1>7. CASE UsbIn
  <2>1. /\ epRead' = Completed(epRead)
        /\ UNCHANGED <<assertFailed, busReset, configured, epWrite, pc>>
    BY <1>7 DEF UsbIn
  <2> QED
    BY <1>1, <1>2, <2>1, OtherBits
<1>8. CASE UsbSetupReset
  BY <1>1, <1>2, <1>8 DEF UsbSetupReset, driverVars
<1>9. CASE UsbSetupConfig
  <2> DEFINE write == Alloc(FreedWrite)
  <2>1. /\ pc = "idle" /\ pc' = pc /\ configured' = TRUE /\ UNCHANGED busReset
        /\ epWrite' = (IF mWriteEPEnabled THEN Abort(write, TRUE) ELSE Run(write))
        /\ epRead' = Alloc(FreedRead)
        /\ assertFailed' =
             (assertFailed \/ ~FreeSucceeds
               \/ ~(IF mWriteEPEnabled THEN AbortSucceeds(write, TRUE)
                                       ELSE RunSucceeds(write)))
    BY <1>9 DEF UsbSetupConfig, IsrIdle
  <2>2. FreeSucceeds
    BY <1>1, AbortedBits DEF FreeSucceeds, AbortSucceeds, Reruns, RunSucceeds
  <2>3. FreedWrite \in Endpoint /\ FreedRead \in Endpoint
        /\ (FreedWrite.busy <=> mWriteEPEnabled)
    BY <1>1, <2>1, FreeBits DEF FreedWrite, FreedRead, InRearm
  <2>4. /\ write \in Endpoint /\ write.enabled /\ (write.busy <=> mWriteEPEnabled)
        /\ epRead'.enabled
    BY <2>1, <2>3, OtherBits
  <2> HIDE DEF write
  <2>5. epWrite'.enabled
    <3>1. TRUE \in BOOLEAN
      OBVIOUS
    <3> QED
      BY <2>1, <2>4, <3>1, AbortBits, RunBits
  <2>6. CASE mWriteEPEnabled
    <3>1. AbortSucceeds(write, TRUE)
      BY <2>4, AbortedBits DEF AbortSucceeds, RunSucceeds
    <3>2. ~assertFailed'
      BY <1>1, <2>1, <2>2, <2>6, <3>1
    <3> QED
      BY <1>1, <2>1, <2>4, <2>5, <3>2 DEF Steady
  <2>7. CASE ~mWriteEPEnabled
    <3>1. RunSucceeds(write)
      BY <2>4, <2>7 DEF RunSucceeds
    <3>2. ~assertFailed'
      BY <1>1, <2>1, <2>2, <2>7, <3>1
    <3> QED
      BY <1>1, <2>1, <2>4, <2>5, <3>2 DEF Steady
  <2> QED
    BY <2>6, <2>7
<1>10. CASE UsbBusReset
  BY <1>1, <1>10 DEF UsbBusReset
<1>11. CASE HostConfigure \/ HostOpen \/ HostTimeout
  BY <1>1, <1>2, <1>11 DEF HostConfigure, HostOpen, HostTimeout, deviceVars, driverVars
<1>12. CASE HostWrite \/ HostNudge
  <2>1. /\ epWrite' = Transferred(epWrite) /\ epWrite.enabled
        /\ UNCHANGED <<assertFailed, busReset, configured, epRead, pc>>
    BY <1>12 DEF HostWrite, HostNudge, Transfers, deviceVars, driverVars
  <2> QED
    BY <1>1, <1>2, <2>1, OtherBits
<1>13. CASE HostRead
  <2>1. /\ epRead' = Transferred(epRead)
        /\ UNCHANGED <<assertFailed, busReset, configured, epWrite, pc>>
    BY <1>13 DEF HostRead, deviceVars, driverVars
  <2> QED
    BY <1>1, <1>2, <2>1, OtherBits
<1>14. ASSUME NEW way \in ReopenWays, HostReopen(way) PROVE Steady'
  <2>1. way # "bus"
    OBVIOUS
  <2>2. UNCHANGED <<assertFailed, busReset, configured, epWrite, epRead, pc>>
    BY <1>14, <2>1 DEF HostReopen, deviceVars, driverVars
  <2> QED
    BY <1>1, <1>2, <2>2
<1>15. CASE UNCHANGED vars
  BY <1>1, <1>2, <1>15 DEF vars, driverVars
<1> QED
  BY <1>3, <1>4, <1>5, <1>6, <1>7, <1>8, <1>9, <1>10, <1>11, <1>12, <1>13, <1>14,
     <1>15 DEF Next, Device, Host

(* As long as the bus is not reset, no ASSERT(success) of udi_vendor.c     *)
(* fails, whatever the host retries and however else it starts over: a bus *)
(* reset is the only way to the failure that the runs exhibit.             *)
THEOREM AssertsHoldWithoutBusReset ==
  ASSUME "bus" \notin ReopenWays
  PROVE  Spec => []AssertsHold
<1>1. Init => Steady
  BY DEF Init, Steady, Unused
<1>2. IInv /\ Steady /\ [Next]_vars => Steady'
  BY SteadyStep
<1>3. Steady => AssertsHold
  BY DEF Steady, AssertsHold
<1> QED
  BY <1>1, <1>2, <1>3, Invariance, PTL DEF Spec
-----------------------------------------------------------------------------
(* The protocol between the host and the driver, as an invariant.  It      *)
(* holds for a host that never resets the bridge alone in the middle of a  *)
(* configuration; one that does may have it from before its first such     *)
(* reset, which takes hQuiet down.                                         *)
Orderly == hQuiet \/ "ctrl" \notin ReopenWays

Exchange == hPhase \in {"send", "wait"}

CmdDone     == \E i \in DOMAIN executed : executed[i] = hCmd
WrittenDone == \E i \in DOMAIN executed : executed[i] = written.id

WrittenCurrent == written # NoCmd /\ written.id = hCmd /\ written.seq = hSeq
WrittenOld     == written # NoCmd /\ written.seq # hSeq /\ ~CmdDone /\ WrittenDone

(* Where the host is while a request or a reset is pending.                *)
Requests ==
  /\ setup = "config" => hPhase = "open"
  /\ setup = "reset" => hPhase = "send"
  /\ busReset => hPhase = "config"

(* Nothing of an abandoned command is left once the configuration is set.  *)
OldGone ==
  /\ hPhase = "config" => ~epWrite.trcpt
  /\ (hPhase = "open" /\ setup = "none") \/ setup = "reset" =>
       ~epWrite.trcpt /\ ~epRead.ready /\ pc = "idle"
  /\ hPhase \in {"config", "open"} \/ setup = "reset" => ~CmdDone /\ hSeq

(* The driver's sequence bit is that of the host's command exactly when    *)
(* the command was executed.                                               *)
SeqTracked ==
  /\ \A i \in DOMAIN executed : executed[i] <= hCmd
  /\ Exchange /\ setup = "none" => (mSeqNo = hSeq <=> CmdDone)

(* The write endpoint holds one packet, none while a command is handled.   *)
Serial ==
  /\ ~(epWrite.ready /\ epWrite.trcpt)
  /\ InRearm => ~epWrite.ready /\ ~epWrite.trcpt

(* What a packet that waits for the handler can be: an empty one, the      *)
(* host's command, or a repetition of the one before.                      *)
PacketKnown ==
  /\ Exchange /\ epWrite.trcpt => written = NoCmd \/ WrittenCurrent \/ WrittenOld
  /\ hPhase = "wait" /\ ~CmdDone => epWrite.trcpt /\ WrittenCurrent

(* What the read buffer holds: nothing, a response the host ignores, or    *)
(* the one to its command.  Before the first command since the reset is    *)
(* answered it may hold anything, but is not armed.                        *)
ReadBufOK ==
  mReadBuf # Blank => mReadBuf.seq # hSeq \/ (mReadBuf.id = hCmd /\ CmdDone)

First ==
  /\ ~epRead.ready
  /\ \/ pc = "idle" /\ ~CmdDone /\ (epWrite.trcpt => WrittenCurrent)
     \/ pc = "clear" /\ CmdDone

ResponseKnown ==
  /\ Exchange => ReadBufOK \/ First
  /\ Exchange /\ pc \in {"clear", "copy"} =>
       /\ rsp.id = hCmd /\ rsp.seq = hSeq /\ CmdDone
       /\ mReadBuf = Blank \/ mReadBuf.seq # hSeq \/ ~epRead.ready

(* With a quiet host the two sides take turns: no response is armed while  *)
(* a command is handled, so none is overwritten.                           *)
Turns ==
  /\ hPhase = "send" => pc = "idle" /\ ~epWrite.trcpt /\ ~epRead.ready /\ ~CmdDone
  /\ hPhase = "wait" /\ epWrite.trcpt => pc = "idle" /\ ~epRead.ready /\ IsNew(written)
  /\ hPhase = "wait" /\ pc # "idle" => ~epRead.ready
  /\ hPhase = "wait" /\ pc \in {"rearm", "respond"} => mReadBufLen = mReadBuf.len
  /\ hPhase = "wait" /\ epRead.ready => inLen = mReadBuf.len

Intact == \A i \in DOMAIN replies : replies[i].intact

Protocol ==
  /\ Requests /\ OldGone /\ SeqTracked /\ Serial /\ PacketKnown /\ ResponseKnown
  /\ hQuiet => Turns /\ Intact

PInv == Orderly => Protocol

(* The types the steps below rely on.                                      *)
LEMMA Types ==
  ASSUME IInv
  PROVE  /\ epWrite \in Endpoint /\ epRead \in Endpoint
         /\ mSeqNo \in BOOLEAN /\ hSeq \in BOOLEAN /\ hQuiet \in BOOLEAN
         /\ mReadEPEnabled \in BOOLEAN /\ mWriteEPEnabled \in BOOLEAN
         /\ executed \in Seq(Nat \ {0}) /\ hCmd \in Nat \ {0}
         /\ written \in Packet \union {NoCmd}
         /\ mReadEPEnabled = epRead.busy
BY DEF IInv, TypeOK, JobsTracked, Endpoint

(* What the execution of the host's command does to the record of those    *)
(* executed.                                                               *)
LEMMA ExecuteAppends ==
  ASSUME NEW s \in Seq(Nat \ {0}), NEW c \in Nat \ {0}
  PROVE  /\ \E i \in DOMAIN Append(s, c) : Append(s, c)[i] = c
         /\ (\A i \in DOMAIN s : s[i] <= c) =>
              \A i \in DOMAIN Append(s, c) : Append(s, c)[i] <= c
<1> DEFINE t == Append(s, c)
<1>1. DOMAIN t = 1..Len(s) + 1 /\ DOMAIN s = 1..Len(s) /\ Len(s) \in Nat
  OBVIOUS
<1>2. t[Len(s) + 1] = c /\ \A i \in 1..Len(s) : t[i] = s[i]
  OBVIOUS
<1>3. c <= c
  OBVIOUS
<1>4. \A i \in 1..Len(s) + 1 : i \in 1..Len(s) \/ i = Len(s) + 1
  BY <1>1
<1>5. Len(s) + 1 \in 1..Len(s) + 1
  BY <1>1
<1> HIDE DEF t
<1> QED
  BY <1>1, <1>2, <1>3, <1>4, <1>5 DEF t

(* A new packet is the host's command, not executed yet; one that is not   *)
(* new is empty or was executed.                                           *)
LEMMA PacketJudged ==
  ASSUME IInv, Protocol, IsrIdle, setup = "none", epWrite.trcpt
  PROVE  /\ Exchange
         /\ IsNew(written) => WrittenCurrent /\ ~CmdDone /\ mSeqNo # hSeq
         /\ ~IsNew(written) => /\ written # NoCmd => WrittenDone
                               /\ ~(WrittenCurrent /\ ~CmdDone)
<1>1. hPhase \in {"config", "open", "send", "wait"} /\ mSeqNo \in BOOLEAN /\ hSeq \in BOOLEAN
  BY DEF IInv, TypeOK
<1>2. Exchange
  BY <1>1 DEF Protocol, Requests, OldGone, Exchange
<1>3. mSeqNo = hSeq <=> CmdDone
  BY <1>2 DEF Protocol, SeqTracked
<1>4. written = NoCmd \/ WrittenCurrent \/ WrittenOld
  BY <1>2 DEF Protocol, PacketKnown
<1>5. ASSUME written # NoCmd PROVE written.seq \in BOOLEAN
  BY <1>5 DEF IInv, TypeOK, Packet
<1>6. WrittenCurrent /\ CmdDone => WrittenDone
  BY DEF WrittenCurrent, CmdDone, WrittenDone
<1> QED
  BY <1>1, <1>2, <1>3, <1>4, <1>5, <1>6 DEF IsNew, WrittenCurrent, WrittenOld

(* The steps of the driver.                                                *)
LEMMA UsbOutKeeps ==
  ASSUME IInv, Protocol, UsbOut
  PROVE  Protocol'
<1>1. /\ IsrIdle /\ setup = "none" /\ epWrite.trcpt /\ pc = "idle"
      /\ UNCHANGED <<epRead, inLen, written, setup, busReset, mReadBuf, mReadBufLen>>
      /\ UNCHANGED <<hPhase, hCmd, hSeq, hQuiet, replies>>
  BY DEF UsbOut, IsrIdle, hostVars
<1>2. ~epWrite.ready /\ ~epWrite'.trcpt /\ ~epWrite'.ready
  <2>1. epWrite' = Completed(epWrite)
    BY DEF UsbOut
  <2> QED
    BY <1>1, <2>1, Types, OtherBits DEF Protocol, Serial
<1>3. /\ Exchange
      /\ IsNew(written) => WrittenCurrent /\ ~CmdDone /\ mSeqNo # hSeq
      /\ ~IsNew(written) => ~(WrittenCurrent /\ ~CmdDone)
  BY <1>1, PacketJudged
<1>4. /\ hPhase \in {"send", "wait"} /\ hPhase # "config" /\ hPhase # "open"
      /\ setup # "reset" /\ setup # "config"
  BY <1>1, <1>3 DEF Exchange
<1>5. Requests' /\ OldGone'
  BY <1>1, <1>2, <1>4 DEF Protocol, Requests, OldGone
<1>6. ReadBufOK \/ First
  BY <1>3 DEF Protocol, ResponseKnown
<1>7. CASE IsNew(written)
  <2>1. /\ WrittenCurrent /\ ~CmdDone /\ mSeqNo # hSeq
        /\ written.id = hCmd /\ written.seq = hSeq
    BY <1>3, <1>7 DEF WrittenCurrent
  <2>2. /\ mSeqNo' = hSeq /\ pc' = "clear" /\ executed' = Append(executed, hCmd)
        /\ rsp'.id = hCmd /\ rsp'.seq = hSeq
    <3>1. /\ mSeqNo' = written.seq /\ pc' = "clear"
          /\ executed' = Append(executed, written.id)
          /\ \E n \in RspLens :
               rsp' = [id |-> written.id, seq |-> written.seq, len |-> n]
      BY <1>7 DEF UsbOut
    <3>2. rsp'.id = written.id /\ rsp'.seq = written.seq
      BY <3>1
    <3> QED
      BY <2>1, <3>1, <3>2
  <2>3. CmdDone' /\ SeqTracked'
    <3>1. executed \in Seq(Nat \ {0}) /\ hCmd \in Nat \ {0}
      BY Types
    <3>2. \A i \in DOMAIN executed : executed[i] <= hCmd
      BY DEF Protocol, SeqTracked
    <3>3. /\ \E i \in DOMAIN executed' : executed'[i] = hCmd
          /\ \A i \in DOMAIN executed' : executed'[i] <= hCmd
      BY <2>2, <3>1, <3>2, ExecuteAppends, Zenon
    <3>4. CmdDone'
      BY <1>1, <3>3 DEF CmdDone
    <3> QED
      BY <1>1, <2>2, <3>3, <3>4 DEF SeqTracked
  <2>4. Serial' /\ PacketKnown'
    BY <1>1, <1>2, <2>3 DEF Serial, PacketKnown
  <2>5. ResponseKnown'
    <3>1. ReadBufOK => ReadBufOK' /\ (mReadBuf = Blank \/ mReadBuf.seq # hSeq)
      BY <1>1, <2>1 DEF ReadBufOK
    <3>2. First => First' /\ ~epRead.ready
      BY <1>1, <2>2, <2>3 DEF First
    <3> QED
      BY <1>1, <1>6, <2>2, <2>3, <3>1, <3>2 DEF ResponseKnown
  <2>6. hQuiet => Turns' /\ Intact'
    BY <1>1, <1>2, <1>4, <2>2 DEF Protocol, Turns, Intact
  <2> QED
    BY <1>1, <1>5, <2>3, <2>4, <2>5, <2>6 DEF Protocol
<1>8. CASE ~IsNew(written)
  <2>1. UNCHANGED <<mSeqNo, executed, rsp>> /\ pc' = "rearm"
    BY <1>8 DEF UsbOut
  <2>2. CmdDone' = CmdDone /\ SeqTracked'
    BY <1>1, <2>1 DEF Protocol, SeqTracked, CmdDone, Exchange
  <2>3. hPhase = "wait" => CmdDone
    BY <1>3, <1>8 DEF Protocol, PacketKnown
  <2>4. Serial' /\ PacketKnown'
    BY <1>1, <1>2, <2>2, <2>3 DEF Serial, PacketKnown
  <2>5. ResponseKnown'
    <3>1. ~First
      BY <1>1, <1>3, <1>8 DEF First
    <3>2. ReadBufOK'
      BY <1>1, <1>6, <2>2, <3>1 DEF ReadBufOK
    <3> QED
      BY <2>1, <3>2 DEF ResponseKnown
  <2>6. ~hQuiet
    BY <1>1, <1>4, <1>8 DEF Protocol, Turns
  <2> QED
    BY <1>1, <1>5, <2>2, <2>4, <2>5, <2>6 DEF Protocol
<1> QED
  BY <1>7, <1>8

LEMMA CopyKeeps ==
  ASSUME IInv, Protocol, ClearReadBuf \/ CopyReadBuf
  PROVE  Protocol'
<1>1. /\ pc \in {"clear", "copy"} /\ pc' \in {"copy", "rearm"}
      /\ UNCHANGED <<epWrite, epRead, inLen, written, mSeqNo, setup, busReset,
                     executed, rsp, hPhase, hCmd, hSeq, hQuiet, replies>>
  BY DEF ClearReadBuf, CopyReadBuf, hostVars
<1>2. CmdDone' = CmdDone /\ WrittenDone' = WrittenDone /\ InRearm /\ InRearm'
  BY <1>1 DEF CmdDone, WrittenDone, InRearm
<1>3. Requests' /\ OldGone' /\ SeqTracked' /\ Serial' /\ PacketKnown'
  <2>1. Requests' /\ OldGone'
    BY <1>1, <1>2 DEF Protocol, Requests, OldGone
  <2>2. SeqTracked' /\ Serial'
    BY <1>1, <1>2 DEF Protocol, SeqTracked, Serial, Exchange
  <2>3. PacketKnown'
    BY <1>1, <1>2 DEF Protocol, PacketKnown, Exchange, WrittenCurrent, WrittenOld
  <2> QED
    BY <2>1, <2>2, <2>3
<1>4. Exchange => rsp.id = hCmd /\ rsp.seq = hSeq /\ CmdDone
  BY <1>1 DEF Protocol, ResponseKnown
<1>5. \/ mReadBuf' = Blank /\ pc' = "copy"
      \/ mReadBuf' = rsp /\ mReadBufLen' = rsp.len /\ pc' = "rearm"
  BY DEF ClearReadBuf, CopyReadBuf
<1>6. ResponseKnown'
  BY <1>1, <1>2, <1>4, <1>5 DEF ResponseKnown, ReadBufOK, Exchange
<1>7. ASSUME hQuiet PROVE Turns' /\ Intact'
  <2>1. hPhase = "wait" => ~epRead.ready /\ ~epWrite.trcpt
    BY <1>1, <1>7 DEF Protocol, Turns
  <2>2. hPhase # "send"
    BY <1>1, <1>7 DEF Protocol, Turns
  <2> QED
    BY <1>1, <1>5, <1>7, <2>1, <2>2 DEF Protocol, Turns, Intact
<1> QED
  BY <1>1, <1>3, <1>6, <1>7 DEF Protocol

LEMMA RearmKeeps ==
  ASSUME IInv, Protocol, RearmWrite
  PROVE  Protocol'
<1>1. /\ pc = "rearm" /\ pc' = "respond"
      /\ UNCHANGED <<epRead, inLen, written, mSeqNo, setup, busReset, executed, rsp,
                     mReadBuf, mReadBufLen, hPhase, hCmd, hSeq, hQuiet, replies>>
  BY DEF RearmWrite, dataVars, hostVars
<1>2. ~epWrite.trcpt /\ ~epWrite'.trcpt
  <2>1. epWrite' = Run(epWrite)
    BY DEF RearmWrite
  <2>2. ~epWrite.trcpt
    BY <1>1 DEF Protocol, Serial, InRearm
  <2> QED
    BY <2>1, <2>2, Types, RunBits
<1>3. CmdDone' = CmdDone
  BY <1>1 DEF CmdDone
<1>4. Requests' /\ OldGone' /\ SeqTracked' /\ Serial' /\ PacketKnown'
  BY <1>1, <1>2, <1>3
     DEF Protocol, Requests, OldGone, SeqTracked, Serial, PacketKnown, Exchange, InRearm
<1>5. ResponseKnown'
  BY <1>1, <1>3 DEF Protocol, ResponseKnown, ReadBufOK, First, Exchange
<1>6. hQuiet => Turns' /\ Intact'
  BY <1>1, <1>2 DEF Protocol, Turns, Intact
<1> QED
  BY <1>1, <1>4, <1>5, <1>6 DEF Protocol

LEMMA RunReadKeeps ==
  ASSUME IInv, Protocol, RunRead
  PROVE  Protocol'
<1>1. /\ pc = "respond" /\ pc' = "idle"
      /\ UNCHANGED <<epWrite, written, mSeqNo, setup, busReset, executed, rsp,
                     mReadBuf, mReadBufLen, hPhase, hCmd, hSeq, hQuiet, replies>>
  BY DEF RunRead, dataVars, hostVars
<1>2. inLen' = mReadBufLen
  BY Types DEF RunRead
<1>3. CmdDone' = CmdDone /\ WrittenDone' = WrittenDone
  BY <1>1 DEF CmdDone, WrittenDone
<1>4. Requests' /\ OldGone' /\ SeqTracked' /\ Serial'
  BY <1>1, <1>3 DEF Protocol, Requests, OldGone, SeqTracked, Serial, Exchange, InRearm
<1>5. PacketKnown'
  BY <1>1, <1>3 DEF Protocol, PacketKnown, Exchange, WrittenCurrent, WrittenOld
<1>6. ResponseKnown'
  BY <1>1, <1>3 DEF Protocol, ResponseKnown, ReadBufOK, First, Exchange
<1>7. hQuiet => Turns' /\ Intact'
  BY <1>1, <1>2 DEF Protocol, Turns, Intact
<1> QED
  BY <1>1, <1>4, <1>5, <1>6, <1>7 DEF Protocol

(* The completion of a read, and steps of neither side.                    *)
LEMMA UsbInKeeps ==
  ASSUME IInv, Protocol, UsbIn \/ UNCHANGED vars
  PROVE  Protocol'
<1>1. UNCHANGED <<epWrite, inLen, written, mSeqNo, pc, setup, busReset, executed, rsp,
                  mReadBuf, mReadBufLen, hPhase, hCmd, hSeq, hQuiet, replies>>
  BY DEF UsbIn, vars, dataVars, hostVars
<1>2. epRead'.ready = epRead.ready
  <2>1. epRead' = Completed(epRead) \/ epRead' = epRead
    BY DEF UsbIn, vars
  <2> QED
    BY <2>1, Types, OtherBits
<1>3. CmdDone' = CmdDone /\ WrittenDone' = WrittenDone
  BY <1>1 DEF CmdDone, WrittenDone
<1>4. Requests' /\ OldGone' /\ SeqTracked' /\ Serial'
  BY <1>1, <1>2, <1>3 DEF Protocol, Requests, OldGone, SeqTracked, Serial, Exchange, InRearm
<1>5. PacketKnown'
  BY <1>1, <1>3 DEF Protocol, PacketKnown, Exchange, WrittenCurrent, WrittenOld
<1>6. ResponseKnown'
  BY <1>1, <1>2, <1>3
     DEF Protocol, ResponseKnown, ReadBufOK, First, Exchange, WrittenCurrent
<1>7. hQuiet => Turns' /\ Intact'
  BY <1>1, <1>2, <1>3 DEF Protocol, Turns, Intact, IsNew
<1> QED
  BY <1>1, <1>4, <1>5, <1>6, <1>7 DEF Protocol

LEMMA SetupResetKeeps ==
  ASSUME IInv, Protocol, UsbSetupReset
  PROVE  Protocol'
<1>1. /\ setup = "reset" /\ setup' = "none" /\ mSeqNo' = FALSE
      /\ UNCHANGED <<epWrite, epRead, inLen, written, pc, busReset, executed, rsp,
                     mReadBuf, mReadBufLen, hPhase, hCmd, hSeq, hQuiet, replies>>
  BY DEF UsbSetupReset, dataVars, hostVars
<1>2. CmdDone' = CmdDone /\ WrittenDone' = WrittenDone
  BY <1>1 DEF CmdDone, WrittenDone
<1>3. /\ hPhase = "send" /\ ~CmdDone /\ hSeq /\ ~epWrite.trcpt /\ ~epRead.ready
      /\ pc = "idle"
  BY <1>1 DEF Protocol, Requests, OldGone
<1>4. Requests' /\ OldGone' /\ SeqTracked' /\ Serial'
  BY <1>1, <1>2, <1>3 DEF Protocol, Requests, OldGone, SeqTracked, Serial, InRearm
<1>5. PacketKnown' /\ ResponseKnown'
  BY <1>1, <1>2, <1>3 DEF PacketKnown, ResponseKnown, First
<1>6. hQuiet => Turns' /\ Intact'
  BY <1>1, <1>2, <1>3 DEF Protocol, Turns, Intact
<1> QED
  BY <1>1, <1>4, <1>5, <1>6 DEF Protocol

(* Taking the configuration back and setting it leaves no packet pending   *)
(* and no response armed.                                                  *)
LEMMA NothingPending ==
  ASSUME IInv, UsbSetupConfig \/ UsbBusReset, ~epWrite.trcpt \/ UsbSetupConfig
  PROVE  /\ ~epWrite'.trcpt
         /\ UsbSetupConfig => ~epRead'.ready
<1>1. /\ epWrite \in Endpoint /\ epRead \in Endpoint
      /\ mWriteEPEnabled \in BOOLEAN /\ mReadEPEnabled \in BOOLEAN
  BY Types
<1>2. FreedWrite \in Endpoint /\ (FreedWrite.trcpt => epWrite.trcpt /\ ~configured)
  BY <1>1, FreeBits DEF FreedWrite
<1>3. FreedRead \in Endpoint
  BY <1>1, FreeBits DEF FreedRead
<1>4. CASE UsbBusReset
  <2>1. epWrite' = FreedWrite /\ ~epWrite.trcpt
    BY <1>4 DEF UsbBusReset
  <2>2. ~UsbSetupConfig
    BY <1>4 DEF UsbBusReset, UsbSetupConfig
  <2> QED
    BY <1>2, <2>1, <2>2
<1>5. CASE UsbSetupConfig
  <2> DEFINE write == Alloc(FreedWrite)
  <2>1. /\ epWrite' = (IF mWriteEPEnabled THEN Abort(write, TRUE) ELSE Run(write))
        /\ epRead' = Alloc(FreedRead)
    BY <1>5 DEF UsbSetupConfig
  <2>2. write \in Endpoint /\ write.trcpt = FreedWrite.trcpt /\ ~epRead'.ready
    BY <1>2, <1>3, <2>1, OtherBits
  <2> HIDE DEF write
  <2>3. CASE mWriteEPEnabled
    <3>1. TRUE \in BOOLEAN
      OBVIOUS
    <3> QED
      BY <2>1, <2>2, <2>3, <3>1, AbortBits
  <2>4. CASE ~mWriteEPEnabled
    <3>1. ~epWrite.trcpt
      BY <2>4 DEF IInv, Armed
    <3> QED
      BY <1>2, <2>1, <2>2, <2>4, <3>1, RunBits
  <2> QED
    BY <2>2, <2>3, <2>4
<1> QED
  BY <1>4, <1>5

LEMMA ConfigKeeps ==
  ASSUME IInv, Protocol, UsbSetupConfig \/ UsbBusReset
  PROVE  Protocol'
<1>1. /\ pc = "idle" /\ setup' = "none"
      /\ UNCHANGED <<written, mSeqNo, pc, executed, rsp, mReadBuf, mReadBufLen,
                     hPhase, hCmd, hSeq, hQuiet, replies>>
  BY DEF UsbSetupConfig, UsbBusReset, IsrIdle, dataVars, hostVars
<1>2. CmdDone' = CmdDone
  BY <1>1 DEF CmdDone
<1>3. /\ UsbSetupConfig => hPhase = "open" /\ setup = "config"
      /\ UsbBusReset => hPhase = "config" /\ setup = "none"
  BY DEF UsbSetupConfig, UsbBusReset, Protocol, Requests
<1>4. ~epWrite'.trcpt /\ (UsbSetupConfig => ~epRead'.ready)
  BY <1>3, NothingPending DEF Protocol, OldGone
<1>5. hPhase \in {"open", "config"} /\ (hPhase = "open" => ~epRead'.ready)
  BY <1>3, <1>4
<1>6. Requests' /\ OldGone' /\ SeqTracked'
  <2>1. ~CmdDone /\ hSeq
    BY <1>5 DEF Protocol, OldGone
  <2>2. busReset' => hPhase = "config"
    <3>1. CASE UsbSetupConfig
      BY <3>1 DEF UsbSetupConfig, Protocol, Requests
    <3>2. CASE UsbBusReset
      BY <1>3, <3>2
    <3> QED
      BY <3>1, <3>2
  <2> QED
    BY <1>1, <1>2, <1>3, <1>4, <1>5, <2>1, <2>2
       DEF Protocol, Requests, OldGone, SeqTracked, Exchange
<1>7. Serial' /\ PacketKnown' /\ ResponseKnown'
  BY <1>1, <1>4, <1>5 DEF Serial, PacketKnown, ResponseKnown, Exchange, InRearm
<1>8. hQuiet => Turns' /\ Intact'
  BY <1>1, <1>5 DEF Protocol, Turns, Intact
<1> QED
  BY <1>1, <1>6, <1>7, <1>8 DEF Protocol

(* The steps of the host.                                                  *)
LEMMA HostOpensKeeps ==
  ASSUME IInv, Protocol, HostConfigure \/ HostOpen
  PROVE  Protocol'
<1>1. /\ setup = "none" /\ ~busReset
      /\ UNCHANGED <<epWrite, epRead, inLen, written, mSeqNo, pc, busReset, executed,
                     rsp, mReadBuf, mReadBufLen, hCmd, hSeq, hQuiet, replies>>
  BY DEF HostConfigure, HostOpen, HostReady, deviceVars, dataVars
<1>2. \/ hPhase = "config" /\ hPhase' = "open" /\ setup' = "config"
      \/ hPhase = "open" /\ hPhase' = "send" /\ setup' = "reset"
  BY DEF HostConfigure, HostOpen
<1>3. CmdDone' = CmdDone
  BY <1>1 DEF CmdDone
<1>4. ~CmdDone /\ hSeq
  BY <1>2 DEF Protocol, OldGone
<1>5. hPhase = "open" => ~epWrite.trcpt /\ ~epRead.ready /\ pc = "idle"
  BY <1>1 DEF Protocol, OldGone
<1>6. Requests' /\ OldGone' /\ SeqTracked' /\ Serial'
  BY <1>1, <1>2, <1>3, <1>4, <1>5
     DEF Protocol, Requests, OldGone, SeqTracked, Serial, InRearm
<1>7. PacketKnown' /\ ResponseKnown'
  BY <1>1, <1>2, <1>3, <1>4, <1>5 DEF PacketKnown, ResponseKnown, First, Exchange
<1>8. hQuiet => Turns' /\ Intact'
  BY <1>1, <1>2, <1>3, <1>4, <1>5 DEF Protocol, Turns, Intact
<1> QED
  BY <1>1, <1>6, <1>7, <1>8 DEF Protocol

LEMMA HostWriteKeeps ==
  ASSUME IInv, Protocol, HostWrite
  PROVE  Protocol'
<1>1. /\ setup = "none" /\ ~busReset /\ hPhase = "send" /\ hPhase' = "wait"
      /\ epWrite.ready /\ epWrite' = Transferred(epWrite)
      /\ written' = [id |-> hCmd, seq |-> hSeq]
      /\ UNCHANGED <<epRead, inLen, setup, mSeqNo, pc, busReset, executed, rsp,
                     mReadBuf, mReadBufLen, hCmd, hSeq, hQuiet, replies>>
  BY DEF HostWrite, HostReady, Transfers, deviceVars, dataVars
<1>2. ~epWrite'.ready /\ epWrite'.trcpt /\ ~epWrite.trcpt /\ ~InRearm
  BY <1>1, Types, OtherBits DEF Protocol, Serial
<1>3. CmdDone' = CmdDone
  BY <1>1 DEF CmdDone
<1>4. WrittenCurrent'
  <2>1. hCmd # 0
    BY Types
  <2> QED
    BY <1>1, <2>1 DEF WrittenCurrent, NoCmd
<1>5. Requests' /\ OldGone' /\ SeqTracked' /\ Serial'
  BY <1>1, <1>2, <1>3
     DEF Protocol, Requests, OldGone, SeqTracked, Serial, Exchange, InRearm
<1>6. PacketKnown'
  BY <1>2, <1>4 DEF PacketKnown
<1>7. ResponseKnown'
  BY <1>1, <1>2, <1>3, <1>4
     DEF Protocol, ResponseKnown, ReadBufOK, First, Exchange, InRearm
<1>8. ASSUME hQuiet PROVE Turns' /\ Intact'
  <2>1. pc = "idle" /\ ~epRead.ready /\ ~CmdDone
    BY <1>1, <1>8 DEF Protocol, Turns
  <2>2. mSeqNo # hSeq
    BY <1>1, <2>1 DEF Protocol, SeqTracked, Exchange
  <2>3. written' # NoCmd /\ written'.seq # mSeqNo'
    BY <1>1, <1>4, <2>2 DEF WrittenCurrent
  <2> QED
    BY <1>1, <1>2, <1>8, <2>1, <2>3 DEF Protocol, Turns, Intact, IsNew
<1> QED
  BY <1>1, <1>5, <1>6, <1>7, <1>8 DEF Protocol

LEMMA HostRepeatsKeeps ==
  ASSUME IInv, Protocol, HostTimeout \/ HostNudge
  PROVE  Protocol'
<1>1. /\ setup = "none" /\ ~busReset /\ hPhase = "wait" /\ hPhase' \in {"send", "wait"}
      /\ ~hQuiet'
      /\ UNCHANGED <<epRead, inLen, setup, mSeqNo, pc, busReset, executed, rsp,
                     mReadBuf, mReadBufLen, hCmd, hSeq, replies>>
  BY DEF HostTimeout, HostNudge, HostReady, deviceVars, dataVars
<1>2. CmdDone' = CmdDone
  BY <1>1 DEF CmdDone
<1>3. CASE HostTimeout
  <2>1. UNCHANGED <<epWrite, written>> /\ hPhase' = "send"
    BY <1>3 DEF HostTimeout
  <2>2. WrittenDone' = WrittenDone
    BY <1>1, <2>1 DEF WrittenDone
  <2>3. Requests' /\ OldGone' /\ SeqTracked' /\ Serial'
    BY <1>1, <1>2, <2>1
       DEF Protocol, Requests, OldGone, SeqTracked, Serial, Exchange, InRearm
  <2>4. PacketKnown'
    BY <1>1, <1>2, <2>1, <2>2
       DEF Protocol, PacketKnown, Exchange, WrittenCurrent, WrittenOld
  <2>5. ResponseKnown'
    BY <1>1, <1>2, <2>1
       DEF Protocol, ResponseKnown, ReadBufOK, First, Exchange, WrittenCurrent
  <2> QED
    BY <1>1, <2>3, <2>4, <2>5 DEF Protocol
<1>4. CASE HostNudge
  <2>1. /\ epWrite.ready /\ epWrite' = Transferred(epWrite) /\ written' = NoCmd
        /\ hPhase' = "wait"
    BY <1>1, <1>4 DEF HostNudge, Transfers
  <2>2. ~epWrite'.ready /\ ~epWrite.trcpt /\ ~InRearm
    BY <2>1, Types, OtherBits DEF Protocol, Serial
  <2>3. CmdDone
    BY <1>1, <2>2 DEF Protocol, PacketKnown
  <2>4. Requests' /\ OldGone' /\ SeqTracked' /\ Serial'
    BY <1>1, <1>2, <2>1, <2>2
       DEF Protocol, Requests, OldGone, SeqTracked, Serial, Exchange, InRearm
  <2>5. PacketKnown' /\ ResponseKnown'
    BY <1>1, <1>2, <2>1, <2>2, <2>3
       DEF Protocol, PacketKnown, ResponseKnown, ReadBufOK, First, Exchange, InRearm
  <2> QED
    BY <1>1, <2>4, <2>5 DEF Protocol
<1> QED
  BY <1>3, <1>4

(* A response that the host takes is the one to its command, which was     *)
(* executed; the driver is done with it.                                   *)
LEMMA ReplyJudged ==
  ASSUME IInv, Protocol, HostRead, mReadBuf # Blank, mReadBuf.seq = hSeq
  PROVE  /\ mReadBuf.id = hCmd /\ CmdDone /\ mSeqNo = hSeq /\ pc \notin {"clear", "copy"}
         /\ hQuiet => inLen = mReadBuf.len
<1>1. setup = "none" /\ hPhase = "wait" /\ Exchange /\ epRead.ready
  BY DEF HostRead, HostReady, Transfers, Exchange
<1>2. ReadBufOK
  BY <1>1 DEF Protocol, ResponseKnown, First
<1>3. mReadBuf.id = hCmd /\ CmdDone
  BY <1>2 DEF ReadBufOK
<1> QED
  BY <1>1, <1>3 DEF Protocol, SeqTracked, ResponseKnown, Turns

LEMMA HostReadKeeps ==
  ASSUME IInv, Protocol, HostRead
  PROVE  Protocol'
<1>1. /\ setup = "none" /\ ~busReset /\ hPhase = "wait" /\ Exchange
      /\ epRead.ready /\ epRead' = Transferred(epRead)
      /\ UNCHANGED <<epWrite, inLen, written, setup, mSeqNo, pc, busReset, executed, rsp,
                     mReadBuf, mReadBufLen, hQuiet>>
  BY DEF HostRead, HostReady, Transfers, Exchange, deviceVars, dataVars
<1>2. ~epRead'.ready
  BY <1>1, Types, OtherBits
<1>3. /\ hCmd \in Nat \ {0} /\ hSeq \in BOOLEAN /\ executed \in Seq(Nat \ {0})
  BY Types
<1>4. CASE inLen > 0 /\ mReadBuf # Blank /\ mReadBuf.seq = hSeq
  <2>1. /\ replies' = Append(replies, [cmd |-> hCmd, rsp |-> mReadBuf.id,
                                       intact |-> inLen = mReadBuf.len])
        /\ hPhase' = "send" /\ hCmd' = hCmd + 1 /\ hSeq' = ~hSeq
    BY <1>4 DEF HostRead
  <2>2. /\ mReadBuf.id = hCmd /\ CmdDone /\ mSeqNo = hSeq /\ pc \notin {"clear", "copy"}
        /\ hQuiet => inLen = mReadBuf.len
    BY <1>4, ReplyJudged
  <2>3. ~CmdDone' /\ \A i \in DOMAIN executed : executed[i] <= hCmd'
    <3>1. \A i \in DOMAIN executed : executed[i] <= hCmd /\ executed[i] \in Nat
      BY <1>3 DEF Protocol, SeqTracked
    <3> QED
      BY <1>1, <1>3, <2>1, <3>1 DEF CmdDone
  <2>4. Requests' /\ OldGone' /\ SeqTracked' /\ Serial'
    BY <1>1, <1>3, <2>1, <2>2, <2>3
       DEF Protocol, Requests, OldGone, SeqTracked, Serial, Exchange, InRearm
  <2>5. PacketKnown'
    <3>1. epWrite.trcpt => written = NoCmd \/ WrittenCurrent
      BY <1>1, <2>2 DEF Protocol, PacketKnown, WrittenOld
    <3>2. WrittenCurrent => WrittenOld'
      BY <1>1, <1>3, <2>1, <2>2, <2>3
         DEF WrittenCurrent, WrittenOld, WrittenDone, CmdDone
    <3> QED
      BY <1>1, <2>1, <3>1, <3>2 DEF PacketKnown
  <2>6. ResponseKnown'
    BY <1>1, <1>3, <1>4, <2>1, <2>2 DEF ResponseKnown, ReadBufOK
  <2>7. ASSUME hQuiet PROVE Turns' /\ Intact'
    <3>1. pc = "idle" /\ ~epWrite.trcpt
      BY <1>1, <2>7 DEF Protocol, Turns
    <3>2. Turns'
      BY <1>1, <1>2, <2>1, <2>3, <3>1 DEF Turns
    <3>3. Intact'
      <4> DEFINE r == [cmd |-> hCmd, rsp |-> mReadBuf.id, intact |-> inLen = mReadBuf.len]
                 R == [cmd : Nat, rsp : Nat, intact : BOOLEAN]
      <4>1. r.intact = (inLen = mReadBuf.len)
        OBVIOUS
      <4>2. r.intact
        BY <2>2, <2>7, <4>1
      <4>3. replies \in Seq(R) /\ replies' = Append(replies, r)
        BY <2>1 DEF IInv, TypeOK
      <4>4. \A i \in DOMAIN replies : replies[i].intact
        BY <2>7 DEF Protocol, Intact
      <4> HIDE DEF r, R
      <4> QED
        BY <4>2, <4>3, <4>4 DEF Intact
    <3> QED
      BY <3>2, <3>3
  <2> QED
    BY <1>1, <2>4, <2>5, <2>6, <2>7 DEF Protocol
<1>5. CASE ~(inLen > 0 /\ mReadBuf # Blank /\ mReadBuf.seq = hSeq)
  <2>1. UNCHANGED <<replies, hPhase, hCmd, hSeq>>
    BY <1>5 DEF HostRead
  <2>2. CmdDone' = CmdDone /\ WrittenDone' = WrittenDone
    BY <1>1, <2>1 DEF CmdDone, WrittenDone
  <2>3. Requests' /\ OldGone' /\ SeqTracked' /\ Serial'
    BY <1>1, <1>2, <2>1, <2>2
       DEF Protocol, Requests, OldGone, SeqTracked, Serial, Exchange, InRearm
  <2>4. PacketKnown'
    BY <1>1, <2>1, <2>2 DEF Protocol, PacketKnown, Exchange, WrittenCurrent, WrittenOld
  <2>5. ResponseKnown'
    BY <1>1, <1>2, <2>1, <2>2 DEF Protocol, ResponseKnown, ReadBufOK, First, Exchange
  <2>6. hQuiet => Turns' /\ Intact'
    BY <1>1, <1>2, <2>1, <2>2 DEF Protocol, Turns, Intact, IsNew
  <2> QED
    BY <1>1, <2>3, <2>4, <2>5, <2>6 DEF Protocol
<1> QED
  BY <1>4, <1>5

LEMMA HostReopenKeeps ==
  ASSUME IInv, Protocol, NEW way \in ReopenWays, HostReopen(way)
  PROVE  PInv'
<1>1. /\ setup = "none" /\ ~busReset /\ hCmd' = hCmd + 1 /\ hSeq' = TRUE
      /\ UNCHANGED <<inLen, written, mSeqNo, pc, executed, rsp, mReadBuf, mReadBufLen,
                     replies>>
  BY DEF HostReopen, HostReady, deviceVars, dataVars
<1>2. CASE way = "ctrl"
  BY <1>2 DEF HostReopen, PInv, Orderly
<1>3. CASE way # "ctrl"
  <2>1. hQuiet' = hQuiet
    BY <1>3, Types DEF HostReopen
  <2>2. /\ ~CmdDone' /\ \A i \in DOMAIN executed : executed[i] <= hCmd'
    <3>1. \A i \in DOMAIN executed : executed[i] <= hCmd /\ executed[i] \in Nat /\ hCmd \in Nat
      BY Types DEF Protocol, SeqTracked
    <3> QED
      BY <1>1, <3>1, Types DEF CmdDone
  <2>3. \/ /\ hPhase' = "config" /\ ~epWrite'.trcpt /\ UNCHANGED setup
        \/ /\ hPhase' = "open" /\ setup' = "config" /\ UNCHANGED <<epWrite, busReset>>
    BY <1>3, Types, OtherBits DEF HostReopen
  <2>4. epWrite'.ready = epWrite.ready /\ (epWrite'.trcpt => epWrite.trcpt)
    BY <1>3, Types, OtherBits DEF HostReopen
  <2>5. Requests'
    BY <1>1, <2>3 DEF Requests
  <2>6. OldGone'
    BY <1>1, <2>2, <2>3 DEF OldGone
  <2>7. SeqTracked'
    BY <1>1, <2>2, <2>3 DEF SeqTracked, Exchange
  <2>8. Serial' /\ PacketKnown' /\ ResponseKnown'
    BY <1>1, <2>3, <2>4
       DEF Protocol, Serial, PacketKnown, ResponseKnown, Exchange, InRearm
  <2>9. hQuiet => Turns' /\ Intact'
    BY <1>1, <2>3 DEF Protocol, Turns, Intact
  <2> QED
    BY <2>1, <2>5, <2>6, <2>7, <2>8, <2>9 DEF PInv, Protocol
<1> QED
  BY <1>2, <1>3

LEMMA PInvStep == IInv /\ PInv /\ [Next]_vars => PInv'
<1> SUFFICES ASSUME IInv, PInv, Next \/ UNCHANGED vars PROVE PInv'
  OBVIOUS
<1>1. Orderly' => Orderly
  <2>1. hQuiet' => hQuiet
    <3>1. CASE Device
      BY <3>1 DEF Device, UsbOut, ClearReadBuf, CopyReadBuf, RearmWrite, RunRead, UsbIn,
                  UsbSetupReset, UsbSetupConfig, UsbBusReset, hostVars
    <3>2. CASE Host
      BY <3>2, Types DEF Host, HostConfigure, HostOpen, HostWrite, HostTimeout, HostNudge,
                         HostRead, HostReopen
    <3>3. CASE UNCHANGED vars
      BY <3>3 DEF vars, hostVars
    <3> QED
      BY <3>1, <3>2, <3>3 DEF Next
  <2> QED
    BY <2>1 DEF Orderly
<1>2. CASE ~Orderly
  BY <1>1, <1>2 DEF PInv
<1>3. CASE Orderly
  <2>1. Protocol
    BY <1>3 DEF PInv
  <2>2. Device \/ UNCHANGED vars => Protocol'
    BY <2>1, UsbOutKeeps, CopyKeeps, RearmKeeps, RunReadKeeps, UsbInKeeps, SetupResetKeeps,
       ConfigKeeps DEF Device
  <2>3. HostConfigure \/ HostOpen \/ HostWrite \/ HostTimeout \/ HostNudge \/ HostRead
          => Protocol'
    BY <2>1, HostOpensKeeps, HostWriteKeeps, HostRepeatsKeeps, HostReadKeeps
  <2>4. ASSUME NEW way \in ReopenWays, HostReopen(way) PROVE PInv'
    BY <2>1, <2>4, HostReopenKeeps
  <2> QED
    BY <2>2, <2>3, <2>4 DEF Next, Host, PInv
<1> QED
  BY <1>2, <1>3

LEMMA ProtocolInvariance == Spec => []PInv
<1>1. Init => PInv
  BY DEF Init, PInv, Protocol, Requests, OldGone, SeqTracked, Serial, PacketKnown,
         ResponseKnown, Turns, Intact, Exchange, CmdDone, InRearm, Unused
<1> QED
  BY <1>1, PInvStep, Invariance, PTL DEF Spec

(* As long as the host writes every command once and starts over only      *)
(* together with the configuration, every response it takes is complete,   *)
(* whatever the order of its tokens and the steps of the handler.          *)
THEOREM QuietHostGetsWholeReplies == Spec => []QuietRepliesIntact
<1>1. PInv => QuietRepliesIntact
  BY DEF PInv, Orderly, Protocol, Intact, QuietRepliesIntact
<1> QED
  BY <1>1, ProtocolInvariance, PTL

(* Unless the host resets the bridge alone, the command of a packet that   *)
(* is dropped as old data was executed: the test of one bit never loses a  *)
(* command.                                                                *)
THEOREM NoCommandDropped ==
  ASSUME "ctrl" \notin ReopenWays
  PROVE  Spec => OldDataIsOld
<1>1. ASSUME IInv, PInv, UsbOut, pc' = "rearm", written # NoCmd
      PROVE  \E i \in DOMAIN executed : executed[i] = written.id
  <2>1. Protocol
    BY <1>1 DEF PInv, Orderly
  <2>2. IsrIdle /\ setup = "none" /\ epWrite.trcpt /\ ~IsNew(written)
    BY <1>1 DEF UsbOut
  <2> QED
    BY <1>1, <2>1, <2>2, PacketJudged DEF WrittenDone
<1>2. IInv /\ PInv /\ [Next]_vars =>
        [UsbOut /\ pc' = "rearm" /\ written # NoCmd =>
           \E i \in DOMAIN executed : executed[i] = written.id]_vars
  BY <1>1
<1> QED
  BY <1>2, Invariance, ProtocolInvariance, PTL DEF Spec, OldDataIsOld

(* One more reply is one more answer of the abstract service.              *)
LEMMA AppendMaps ==
  ASSUME NEW R, NEW s \in Seq(R), NEW r
  PROVE  [i \in DOMAIN Append(s, r) |-> Append(s, r)[i].rsp]
           = Append([i \in DOMAIN s |-> s[i].rsp], r.rsp)
<1> DEFINE m == [i \in DOMAIN s |-> s[i].rsp]
           t == Append(s, r)
           n == Len(s)
<1>1. n \in Nat /\ DOMAIN s = 1..n /\ DOMAIN t = 1..n + 1
  OBVIOUS
<1>2. t[n + 1] = r /\ \A i \in 1..n : t[i] = s[i]
  OBVIOUS
<1>3. m = [i \in 1..n |-> s[i].rsp] /\ Len(m) = n
  BY <1>1
<1> HIDE DEF t
<1> QED
  BY <1>1, <1>2, <1>3 DEF t

Answered == [i \in DOMAIN replies |-> replies[i].rsp]

LEMMA ServiceStep ==
  ASSUME "ctrl" \notin ReopenWays
  PROVE  IInv /\ PInv /\ [Next]_vars => [Service!ServiceNext]_(Service!serviceVars)
<1> SUFFICES ASSUME IInv, PInv, Next \/ UNCHANGED vars
             PROVE  Service!ServiceNext \/ UNCHANGED <<hCmd, executed, Answered>>
  BY DEF Service!serviceVars, Answered
<1>1. Protocol
  BY DEF PInv, Orderly
<1>2. ASSUME UNCHANGED <<hCmd, executed, replies>>
      PROVE  UNCHANGED <<hCmd, executed, Answered>>
  BY <1>2 DEF Answered
<1>3. Service!Done(hCmd) <=> CmdDone
  BY DEF Service!Done, CmdDone
<1>4. CASE UsbOut
  <2>1. UNCHANGED <<hCmd, replies>>
    BY <1>4 DEF UsbOut, hostVars
  <2>2. CASE IsNew(written)
    <3>1. WrittenCurrent /\ ~CmdDone
      BY <1>1, <1>4, <2>2, PacketJudged DEF UsbOut
    <3>2. executed' = Append(executed, hCmd)
      BY <1>4, <2>2, <3>1 DEF UsbOut, WrittenCurrent
    <3>3. Service!Execute
      BY <1>2, <1>3, <2>1, <3>1, <3>2 DEF Service!Execute, Answered
    <3> QED
      BY <3>3 DEF Service!ServiceNext
  <2>3. CASE ~IsNew(written)
    <3>1. UNCHANGED executed
      BY <1>4, <2>3 DEF UsbOut
    <3> QED
      BY <1>2, <2>1, <3>1
  <2> QED
    BY <2>2, <2>3
<1>5. CASE HostRead
  <2>1. UNCHANGED executed
    BY <1>5 DEF HostRead, deviceVars
  <2>2. CASE inLen > 0 /\ mReadBuf # Blank /\ mReadBuf.seq = hSeq
    <3> DEFINE r == [cmd |-> hCmd, rsp |-> mReadBuf.id, intact |-> inLen = mReadBuf.len]
               R == [cmd : Nat, rsp : Nat, intact : BOOLEAN]
    <3>1. mReadBuf.id = hCmd /\ CmdDone
      BY <1>1, <1>5, <2>2, ReplyJudged
    <3>2. replies' = Append(replies, r) /\ hCmd' = hCmd + 1 /\ replies \in Seq(R)
      BY <1>5, <2>2 DEF HostRead, IInv, TypeOK
    <3>3. r.rsp = hCmd
      BY <3>1
    <3> HIDE DEF r, R
    <3>4. Answered' = Append(Answered, hCmd)
      BY <3>2, <3>3, AppendMaps DEF Answered
    <3>5. Service!Answer
      BY <1>3, <2>1, <3>1, <3>2, <3>4 DEF Service!Answer, Answered
    <3> QED
      BY <3>5 DEF Service!ServiceNext
  <2>3. CASE ~(inLen > 0 /\ mReadBuf # Blank /\ mReadBuf.seq = hSeq)
    <3>1. UNCHANGED <<hCmd, replies>>
      BY <1>5, <2>3 DEF HostRead
    <3> QED
      BY <1>2, <2>1, <3>1
  <2> QED
    BY <2>2, <2>3
<1>6. ASSUME NEW way \in ReopenWays, HostReopen(way)
      PROVE  Service!ServiceNext
  <2>1. hCmd' = hCmd + 1 /\ UNCHANGED <<executed, replies>>
    BY <1>6 DEF HostReopen, deviceVars
  <2>2. Service!Abandon
    BY <2>1 DEF Service!Abandon
  <2> QED
    BY <2>2 DEF Service!ServiceNext
<1>7. CASE ClearReadBuf \/ CopyReadBuf \/ RearmWrite \/ RunRead \/ UsbIn
             \/ UsbSetupReset \/ UsbSetupConfig \/ UsbBusReset
  <2>1. UNCHANGED <<hCmd, executed, replies>>
    BY <1>7 DEF ClearReadBuf, CopyReadBuf, RearmWrite, RunRead, UsbIn, UsbSetupReset,
                UsbSetupConfig, UsbBusReset, hostVars
  <2> QED
    BY <1>2, <2>1
<1>8. CASE HostConfigure \/ HostOpen \/ HostWrite \/ HostTimeout \/ HostNudge
  <2>1. UNCHANGED <<hCmd, executed, replies>>
    BY <1>8 DEF HostConfigure, HostOpen, HostWrite, HostTimeout, HostNudge, deviceVars
  <2> QED
    BY <1>2, <2>1
<1>9. CASE UNCHANGED vars
  BY <1>2, <1>9 DEF vars, hostVars
<1> QED
  BY <1>4, <1>5, <1>6, <1>7, <1>8, <1>9 DEF Next, Device, Host

(* The command channel implements the abstract service: a command is       *)
(* executed at most once and only while it is the host's current one, and  *)
(* the host takes an answer only to its current command, after it was      *)
(* executed; whatever is repeated, lost in a reset of the bus or left over *)
(* from before it.                                                         *)
THEOREM ChannelImplementsService ==
  ASSUME "ctrl" \notin ReopenWays
  PROVE  Spec => ImplementsService
<1>1. Init => Service!ServiceInit
  BY DEF Init, Service!ServiceInit
<1>2. IInv /\ PInv /\ [Next]_vars => [Service!ServiceNext]_(Service!serviceVars)
  BY ServiceStep
<1> QED
  BY <1>1, <1>2, Invariance, ProtocolInvariance, PTL
     DEF Spec, ImplementsService, Service!ServiceSpec
=============================================================================
