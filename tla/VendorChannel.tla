--------------------------- MODULE VendorChannel ---------------------------
(***************************************************************************)
(* The vendor interface's command channel: the bulk OUT endpoint a host    *)
(* writes commands to, the bulk IN endpoint it reads responses from, and   *)
(* the driver between them (udi_vendor.c, the sequence check of            *)
(* RJTUSBBridge_processCmd, the ASF endpoint jobs of UddEndpoint).         *)
(*                                                                         *)
(* The device side is one interrupt service routine at the highest         *)
(* priority, so its handlers never preempt one another; the host's tokens  *)
(* are served by the USB peripheral, which reads and writes the buffers    *)
(* over DMA between any two statements of a handler.  A handler is split   *)
(* where such a token makes a difference: pc names the rest of the one     *)
(* that runs.                                                              *)
(*                                                                         *)
(* A command is its number, in the order the host issues them, and the     *)
(* sequence bit of its packet; a response is the replica of that header    *)
(* and its length.                                                         *)
(***************************************************************************)
EXTENDS Integers, Sequences, UddEndpoint

CONSTANTS
  MaxCmds,    \* the host issues this many commands, abandoned ones included
  MaxRetries, \* times it writes again for one command
  MaxResets,  \* times it starts over
  ReopenWays, \* how it starts over, a subset of {"bus", "config", "ctrl"}
  RspLens     \* lengths of a response

ASSUME BoundsAssumption ==
  MaxCmds \in Nat /\ MaxRetries \in Nat /\ MaxResets \in Nat

ASSUME WaysAssumption == ReopenWays \subseteq {"bus", "config", "ctrl"}

ASSUME LensAssumption == RspLens \subseteq 1..64

VARIABLES
  epWrite, epRead,  \* the endpoints
  inLen,            \* byte count the IN endpoint was armed with
  written,          \* mWriteBuf: the packet last received
  mReadBuf, mReadBufLen, mReadEPEnabled, mWriteEPEnabled,
  mSeqNo,           \* sequence bit of the last command
  rsp,              \* buf and buflen of process_write
  pc,               \* what is left of process_write
  configured,       \* udc_num_configuration # 0
  setup,            \* the SETUP request pending on endpoint 0
  busReset,         \* INTFLAG.EORST: a reset on the bus is not handled yet
  assertFailed,     \* some ASSERT(success) saw FALSE
  executed,         \* the commands executed, in order
  hPhase, hCmd, hSeq, hTries, hResets, \* the host
  hQuiet,           \* it never wrote twice for a command, nor reset the bridge alone
  replies           \* the responses the host took

driverVars == <<mReadEPEnabled, mWriteEPEnabled, configured>>
dataVars   == <<mReadBuf, mReadBufLen, rsp>>
hostVars   == <<hPhase, hCmd, hSeq, hTries, hResets, hQuiet, replies>>
vars == <<epWrite, epRead, inLen, written, mSeqNo, pc, setup, busReset,
          assertFailed, executed, driverVars, dataVars, hostVars>>

Packet   == [id : Nat \ {0}, seq : BOOLEAN]
NoCmd    == [id |-> 0, seq |-> FALSE]   \* a zero-length packet
Response == [id : Nat \ {0}, seq : BOOLEAN, len : RspLens]
Blank    == [id |-> 0, seq |-> FALSE, len |-> 0]

Init ==
  /\ epWrite = Unused /\ epRead = Unused /\ inLen = 0
  /\ written = NoCmd
  /\ mReadBuf = Blank /\ mReadBufLen = 0 /\ rsp = Blank
  /\ mReadEPEnabled = FALSE /\ mWriteEPEnabled = FALSE /\ mSeqNo = FALSE
  /\ pc = "idle" /\ configured = FALSE
  /\ setup = "none" /\ busReset = FALSE /\ assertFailed = FALSE
  /\ executed = <<>>
  /\ hPhase = "config" /\ hCmd = 1 /\ hSeq = TRUE /\ hTries = 0 /\ hResets = 0
  /\ hQuiet = TRUE
  /\ replies = <<>>

-----------------------------------------------------------------------------
(* The device.  Endpoint 0 is served before endpoint 1 (write), that       *)
(* before endpoint 2 (read), the device's own flags last.                  *)

IsrIdle == pc = "idle"

(* Mutants of IsNew: the length check dropped, the sequence check dropped. *)
EmptyIsNew(packet) == packet.seq # mSeqNo
RepeatIsNew(packet) == packet # NoCmd

(* RJTUSBBridge_processCmd tells a new command by its sequence bit.        *)
IsNew(packet) == packet # NoCmd /\ packet.seq # mSeqNo

(* write_transfer_callback, up to the return of processCmd: a new command  *)
(* is executed, for anything else the cached response is sent again.       *)
UsbOut ==
  /\ IsrIdle /\ setup = "none" /\ epWrite.trcpt
  /\ epWrite' = Completed(epWrite)
  /\ IF IsNew(written)
       THEN /\ mSeqNo' = written.seq
            /\ executed' = Append(executed, written.id)
            /\ \E n \in RspLens :
                 rsp' = [id |-> written.id, seq |-> written.seq, len |-> n]
            /\ pc' = "clear"
       ELSE pc' = "rearm" /\ UNCHANGED <<mSeqNo, executed, rsp>>
  /\ UNCHANGED <<epRead, inLen, written, setup, busReset, assertFailed,
                 mReadBuf, mReadBufLen, driverVars, hostVars>>

ClearReadBuf ==
  /\ pc = "clear" /\ pc' = "copy"
  /\ mReadBuf' = Blank
  /\ UNCHANGED <<epWrite, epRead, inLen, written, mSeqNo, setup, busReset,
                 assertFailed, executed, mReadBufLen, rsp, driverVars, hostVars>>

(* Mutant of CopyReadBuf: the length stays that of the whole buffer.       *)
CopyWithFullLength ==
  /\ pc = "copy" /\ pc' = "rearm"
  /\ mReadBuf' = rsp /\ mReadBufLen' = 64
  /\ UNCHANGED <<epWrite, epRead, inLen, written, mSeqNo, setup, busReset,
                 assertFailed, executed, rsp, driverVars, hostVars>>

CopyReadBuf ==
  /\ pc = "copy" /\ pc' = "rearm"
  /\ mReadBuf' = rsp /\ mReadBufLen' = rsp.len
  /\ UNCHANGED <<epWrite, epRead, inLen, written, mSeqNo, setup, busReset,
                 assertFailed, executed, rsp, driverVars, hostVars>>

RearmWrite ==
  /\ pc = "rearm" /\ pc' = "respond"
  /\ epWrite' = Run(epWrite)
  /\ assertFailed' = (assertFailed \/ ~RunSucceeds(epWrite))
  /\ UNCHANGED <<epRead, inLen, written, mSeqNo, setup, busReset, executed,
                 driverVars, dataVars, hostVars>>

(* Mutants of RunRead: an armed response is not taken back first; the      *)
(* endpoint is run but not marked.                                         *)
RunReadAlways ==
  /\ pc = "respond" /\ pc' = "idle"
  /\ epRead' = Run(epRead)
  /\ assertFailed' = (assertFailed \/ ~RunSucceeds(epRead))
  /\ inLen' = IF epRead.busy THEN inLen ELSE mReadBufLen
  /\ mReadEPEnabled' = TRUE
  /\ UNCHANGED <<epWrite, written, mSeqNo, setup, busReset, executed,
                 mWriteEPEnabled, configured, dataVars, hostVars>>
RunReadUnmarked ==
  /\ pc = "respond" /\ pc' = "idle"
  /\ epRead' = IF mReadEPEnabled THEN Abort(epRead, TRUE) ELSE Run(epRead)
  /\ inLen' = IF mReadEPEnabled = epRead.busy THEN mReadBufLen ELSE inLen
  /\ UNCHANGED <<epWrite, written, mSeqNo, setup, busReset, executed,
                 assertFailed, driverVars, dataVars, hostVars>>

(* An armed response is taken back and armed again by the callback of the  *)
(* abort; otherwise the endpoint is run and marked.                        *)
RunRead ==
  /\ pc = "respond" /\ pc' = "idle"
  /\ IF mReadEPEnabled
       THEN /\ epRead' = Abort(epRead, TRUE)
            /\ assertFailed' = (assertFailed \/ ~AbortSucceeds(epRead, TRUE))
       ELSE /\ epRead' = Run(epRead)
            /\ assertFailed' = (assertFailed \/ ~RunSucceeds(epRead))
  /\ inLen' = IF mReadEPEnabled = epRead.busy THEN mReadBufLen ELSE inLen
  /\ mReadEPEnabled' = TRUE
  /\ UNCHANGED <<epWrite, written, mSeqNo, setup, busReset, executed,
                 mWriteEPEnabled, configured, dataVars, hostVars>>

(* Mutant of UsbIn: the flag is not taken down.                            *)
UsbInKeepsFlag ==
  /\ IsrIdle /\ setup = "none" /\ ~epWrite.trcpt /\ epRead.trcpt
  /\ epRead' = Completed(epRead)
  /\ UNCHANGED <<epWrite, inLen, written, mSeqNo, pc, setup, busReset,
                 assertFailed, executed, driverVars, dataVars, hostVars>>

(* read_transfer_callback, UDD_EP_TRANSFER_OK.                             *)
UsbIn ==
  /\ IsrIdle /\ setup = "none" /\ ~epWrite.trcpt /\ epRead.trcpt
  /\ epRead' = Completed(epRead)
  /\ mReadEPEnabled' = FALSE
  /\ UNCHANGED <<epWrite, inLen, written, mSeqNo, pc, setup, busReset,
                 assertFailed, executed, mWriteEPEnabled, configured,
                 dataVars, hostVars>>

(* Mutant of UsbSetupReset: the sequence bit survives the reset.           *)
ResetKeepsSeqNo ==
  /\ IsrIdle /\ setup = "reset" /\ setup' = "none"
  /\ UNCHANGED <<epWrite, epRead, inLen, written, mSeqNo, pc, busReset,
                 assertFailed, executed, driverVars, dataVars, hostVars>>

(* CNTRL_REQ_RESET.                                                        *)
UsbSetupReset ==
  /\ IsrIdle /\ setup = "reset" /\ setup' = "none"
  /\ mSeqNo' = FALSE
  /\ UNCHANGED <<epWrite, epRead, inLen, written, pc, busReset, assertFailed,
                 executed, driverVars, dataVars, hostVars>>

(* udc_reset: every endpoint of the current configuration is freed.        *)
FreedWrite == IF configured THEN Free(epWrite, mWriteEPEnabled) ELSE epWrite
FreedRead  == IF configured THEN Free(epRead, mReadEPEnabled) ELSE epRead

FreeSucceeds ==
  configured => /\ AbortSucceeds(epWrite, mWriteEPEnabled)
                /\ AbortSucceeds(epRead, mReadEPEnabled)

FreedInLen ==
  IF configured /\ Reruns(epRead, mReadEPEnabled) THEN mReadBufLen ELSE inLen

(* SET_CONFIGURATION: udc_reset, the endpoints allocated again, and        *)
(* udi_vendor_enable, which leaves the read endpoint as it finds it.       *)
UsbSetupConfig ==
  /\ IsrIdle /\ setup = "config" /\ setup' = "none"
  /\ LET write == Alloc(FreedWrite)
     IN /\ epWrite' = IF mWriteEPEnabled THEN Abort(write, TRUE) ELSE Run(write)
        /\ assertFailed' =
             (assertFailed \/ ~FreeSucceeds
               \/ ~(IF mWriteEPEnabled THEN AbortSucceeds(write, TRUE)
                                       ELSE RunSucceeds(write)))
  /\ epRead' = Alloc(FreedRead) /\ inLen' = FreedInLen
  /\ mWriteEPEnabled' = TRUE /\ configured' = TRUE
  /\ UNCHANGED <<written, mSeqNo, pc, busReset, executed, mReadEPEnabled,
                 dataVars, hostVars>>

(* _usb_on_bus_reset.                                                      *)
UsbBusReset ==
  /\ IsrIdle /\ setup = "none" /\ ~epWrite.trcpt /\ ~epRead.trcpt
  /\ busReset /\ busReset' = FALSE
  /\ epWrite' = FreedWrite /\ epRead' = FreedRead /\ inLen' = FreedInLen
  /\ assertFailed' = (assertFailed \/ ~FreeSucceeds)
  /\ configured' = FALSE
  /\ UNCHANGED <<written, mSeqNo, pc, setup, executed, mReadEPEnabled,
                 mWriteEPEnabled, dataVars, hostVars>>

Device == \/ UsbOut \/ ClearReadBuf \/ CopyReadBuf \/ RearmWrite \/ RunRead
          \/ UsbIn \/ UsbSetupReset \/ UsbSetupConfig \/ UsbBusReset

deviceVars == <<mSeqNo, pc, assertFailed, executed, driverVars, dataVars>>

-----------------------------------------------------------------------------
(* The host, as the device code expects it: it configures the device,      *)
(* resets the bridge, then has one command at a time, whose sequence bit   *)
(* alternates from TRUE, and waits for the response with that bit.  It     *)
(* does nothing else while a request of its own is pending on endpoint 0.  *)

HostReady == setup = "none" /\ ~busReset /\ hCmd <= MaxCmds

HostConfigure ==
  /\ HostReady /\ hPhase = "config" /\ hPhase' = "open"
  /\ setup' = "config"
  /\ UNCHANGED <<epWrite, epRead, inLen, written, busReset, hCmd, hSeq, hTries,
                 hResets, hQuiet, replies, deviceVars>>

HostOpen ==
  /\ HostReady /\ hPhase = "open" /\ hPhase' = "send"
  /\ setup' = "reset"
  /\ UNCHANGED <<epWrite, epRead, inLen, written, busReset, hCmd, hSeq, hTries,
                 hResets, hQuiet, replies, deviceVars>>

HostWrite ==
  /\ HostReady /\ hPhase = "send" /\ hPhase' = "wait"
  /\ Transfers(epWrite) /\ epWrite' = Transferred(epWrite)
  /\ written' = [id |-> hCmd, seq |-> hSeq]
  /\ UNCHANGED <<epRead, inLen, setup, busReset, hCmd, hSeq, hTries, hResets,
                 hQuiet, replies, deviceVars>>

(* No answer in time: the host writes the command again ...                *)
HostTimeout ==
  /\ HostReady /\ hPhase = "wait" /\ hPhase' = "send"
  /\ hTries < MaxRetries /\ hTries' = hTries + 1
  /\ hQuiet' = FALSE
  /\ UNCHANGED <<epWrite, epRead, inLen, written, setup, busReset, hCmd, hSeq,
                 hResets, replies, deviceVars>>

(* ... or asks for the response with an empty packet.                      *)
HostNudge ==
  /\ HostReady /\ hPhase = "wait"
  /\ hTries < MaxRetries /\ hTries' = hTries + 1
  /\ hQuiet' = FALSE
  /\ Transfers(epWrite) /\ epWrite' = Transferred(epWrite)
  /\ written' = NoCmd
  /\ UNCHANGED <<epRead, inLen, setup, busReset, hPhase, hCmd, hSeq, hResets,
                 replies, deviceVars>>

(* A packet that does not replicate the header of the command is ignored.  *)
HostRead ==
  /\ HostReady /\ hPhase = "wait"
  /\ Transfers(epRead) /\ epRead' = Transferred(epRead)
  /\ IF inLen > 0 /\ mReadBuf # Blank /\ mReadBuf.seq = hSeq
       THEN /\ replies' = Append(replies,
                 [cmd |-> hCmd, rsp |-> mReadBuf.id, intact |-> inLen = mReadBuf.len])
            /\ hPhase' = "send" /\ hCmd' = hCmd + 1 /\ hSeq' = ~hSeq /\ hTries' = 0
       ELSE UNCHANGED <<replies, hPhase, hCmd, hSeq, hTries>>
  /\ UNCHANGED <<epWrite, inLen, written, setup, busReset, hResets, hQuiet, deviceVars>>

(* The host gives up its command and starts over: by a reset on the bus,   *)
(* by setting the configuration again, or by the bridge's own reset alone. *)
HostReopen(way) ==
  /\ HostReady /\ hPhase \in {"send", "wait"}
  /\ hResets < MaxResets /\ hResets' = hResets + 1
  /\ hCmd' = hCmd + 1 /\ hSeq' = TRUE /\ hTries' = 0
  /\ hQuiet' = (hQuiet /\ way # "ctrl")
  /\ \/ /\ way = "bus"
        /\ busReset' = TRUE /\ hPhase' = "config"
        /\ epWrite' = BusReset(epWrite) /\ epRead' = BusReset(epRead)
        /\ UNCHANGED setup
     \/ /\ way = "config"
        /\ setup' = "config" /\ hPhase' = "open"
        /\ UNCHANGED <<epWrite, epRead, busReset>>
     \/ /\ way = "ctrl"
        /\ setup' = "reset" /\ hPhase' = "send"
        /\ UNCHANGED <<epWrite, epRead, busReset>>
  /\ UNCHANGED <<inLen, written, replies, deviceVars>>

Host == \/ HostConfigure \/ HostOpen \/ HostWrite \/ HostTimeout \/ HostNudge
        \/ HostRead \/ \E way \in ReopenWays : HostReopen(way)

Next == Device \/ Host

(* The service routine runs whenever an interrupt is pending; a host that  *)
(* stays with its command keeps writing and reading until it has the       *)
(* answer.  Nothing obliges it to retry or to start over.                  *)
Fairness ==
  /\ WF_vars(Device)
  /\ WF_vars(HostConfigure) /\ WF_vars(HostOpen)
  /\ WF_vars(HostWrite) /\ WF_vars(HostRead)

Spec == Init /\ [][Next]_vars

LiveSpec == Spec /\ Fairness

-----------------------------------------------------------------------------
(* Every variable holds a value of its C type or of the model's sets.      *)
TypeOK ==
  /\ epWrite \in Endpoint /\ epRead \in Endpoint /\ inLen \in Nat
  /\ written \in Packet \union {NoCmd}
  /\ mReadBuf \in Response \union {Blank} /\ rsp \in Response \union {Blank}
  /\ mReadBufLen \in Nat
  /\ mReadEPEnabled \in BOOLEAN /\ mWriteEPEnabled \in BOOLEAN
  /\ mSeqNo \in BOOLEAN /\ configured \in BOOLEAN
  /\ busReset \in BOOLEAN /\ assertFailed \in BOOLEAN
  /\ pc \in {"idle", "clear", "copy", "rearm", "respond"}
  /\ setup \in {"none", "reset", "config"}
  /\ executed \in Seq(Nat \ {0})
  /\ hPhase \in {"config", "open", "send", "wait"}
  /\ hCmd \in Nat \ {0} /\ hSeq \in BOOLEAN /\ hTries \in Nat /\ hResets \in Nat
  /\ hQuiet \in BOOLEAN
  /\ replies \in Seq([cmd : Nat, rsp : Nat, intact : BOOLEAN])

(* The driver's flags agree with the jobs of udd_ep_run.  Were the read    *)
(* flag set without a job, every later abort would return before the       *)
(* callback and no response would be armed again; were a job registered    *)
(* without the flag, udd_ep_run would refuse the next one.                 *)
InRearm == pc \in {"clear", "copy", "rearm"}

JobsTracked ==
  /\ mReadEPEnabled <=> epRead.busy
  /\ epWrite.busy <=> (mWriteEPEnabled /\ ~InRearm)

(* Between commands a configured device listens: the write endpoint takes  *)
(* the host's next packet or has one pending.                              *)
Listening ==
  configured /\ ~busReset /\ ~InRearm =>
    epWrite.enabled /\ (epWrite.ready \/ epWrite.trcpt)

(* No ASSERT(success) of udi_vendor.c fails.                               *)
AssertsHold == ~assertFailed

(* Every response the host takes is complete: the byte count it was armed  *)
(* with is the length of the response in the buffer.  It is so as long as  *)
(* the host writes every command once and gives one up only together with  *)
(* the configuration: then no earlier response is armed while              *)
(* process_write copies the next one.                                      *)
QuietRepliesIntact == hQuiet => \A i \in DOMAIN replies : replies[i].intact

(* The command of a packet dropped as old data was executed before.        *)
OldDataIsOld ==
  [][UsbOut /\ pc' = "rearm" /\ written # NoCmd =>
       \E i \in DOMAIN executed : executed[i] = written.id]_vars

(* Every command is executed at most once and only while it is the host's  *)
(* current one, and the host only takes the response to its own command,   *)
(* after that command was executed.                                        *)
Service == INSTANCE CommandService WITH
  current <- hCmd, executed <- executed,
  answered <- [i \in DOMAIN replies |-> replies[i].rsp]

ImplementsService == Service!ServiceSpec

(* A command the host stays with is answered: no order of retries, resets  *)
(* and late answers leaves the two sides waiting for one another.          *)
Served == \A c \in 1..MaxCmds : (hCmd = c) ~> (hCmd > c)
=============================================================================
