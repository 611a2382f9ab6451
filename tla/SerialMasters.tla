---------------------------- MODULE SerialMasters ----------------------------
(***************************************************************************)
(* The commands that use the serial unit: I2CM_TRANSACTION, which runs a   *)
(* format string of bus operations over the data of one packet and gathers *)
(* one record per operation in the response, and SPIM_TRANSFER_DATA; with  *)
(* the configuration that lends them the unit.  A command runs to its end  *)
(* in the USB handler; a transaction is one step per operation because the *)
(* slave answers in between.                                               *)
(*                                                                         *)
(* An operation is the letter of the format string: "W" write a byte, "w"  *)
(* write an array, "r" read, "." stop; "?" stands for any other.  Of a     *)
(* data byte only the value matters that is taken as a length.             *)
(***************************************************************************)
EXTENDS BridgeConfig, Sequences, SequencesExt

CONSTANTS
  Fmts,      \* format strings
  MaxData,   \* bytes of a packet behind the format string
  MaxLength, \* largest length byte
  MaxRsp,    \* room for the response's data
  SizeWrap   \* 2^32: cmd_len is a size_t

ASSUME SerialAssumption ==
  /\ \A f \in Fmts : f \in Seq({"W", "w", "r", ".", "?"})
  /\ MaxData \in Nat /\ MaxLength \in Nat /\ MaxRsp \in Nat
  /\ SizeWrap \in Nat /\ SizeWrap > MaxData /\ SizeWrap > MaxLength

VARIABLES
  pc,       \* "idle", or "run" within a transaction
  fmt, k,   \* fmt_str and the operation it is at
  cmd_len,  \* bytes of the packet not consumed yet
  rsp,      \* the response: records [type, len, ok]
  rsp_len,  \* *rsp_len
  err,      \* what the last transaction returned
  bus,      \* "owned" between a start and the stop of this master
  spiErr    \* what the last SPI transfer returned

i2cVars == <<pc, fmt, k, cmd_len, rsp, rsp_len, err, bus>>
vars == <<configVars, i2cVars, spiErr>>

Init ==
  /\ ConfigInit({})
  /\ pc = "idle" /\ fmt = <<>> /\ k = 1 /\ cmd_len = 0
  /\ rsp = <<>> /\ rsp_len = 0 /\ err = "NONE"
  /\ bus = "idle" /\ spiErr = "NONE"

-----------------------------------------------------------------------------
(* Configuration.  A reset of the unit lets go of the bus.                 *)

ReleasedBus == bus' = IF config = "i2c" THEN "idle" ELSE bus

UsbSetConfig(c, args) ==
  /\ pc = "idle" /\ SetConfig(c, args) /\ ReleasedBus
  /\ UNCHANGED <<pc, fmt, k, cmd_len, rsp, rsp_len, err, spiErr>>

UsbReset ==
  /\ pc = "idle" /\ ResetConfig /\ ReleasedBus
  /\ UNCHANGED <<pc, fmt, k, cmd_len, rsp, rsp_len, err, spiErr>>

-----------------------------------------------------------------------------
(* SPIM_TRANSFER_DATA with n bytes, chip select on pin ss or none (0xff).  *)
(* The select is driven low and high again, so nothing of it remains.      *)
NoSelect == -1

SpiTransfer(n, ss) ==
  /\ pc = "idle"
  /\ spiErr' =
       CASE n > MaxRsp -> "PARAMETER"
         [] n <= MaxRsp /\ config # "spi" -> "STATE"
         [] n <= MaxRsp /\ config = "spi" /\ ~(ss = NoSelect \/ Available(ss)) -> "PARAMETER"
         [] n = 0 /\ config = "spi" /\ (ss = NoSelect \/ Available(ss)) -> "RESOURCE_BUSY"
         [] OTHER -> "NONE"
  /\ UNCHANGED <<configVars, i2cVars>>

-----------------------------------------------------------------------------
(* I2CM_TRANSACTION.                                                       *)

RecordSize == 4   \* sizeof(rsp): len, type, sk_error, asf_error

Running(op) == pc = "run" /\ k <= Len(fmt) /\ fmt[k] = op

Return(e) == pc' = "idle" /\ err' = e
GoOn      == pc' = "run" /\ k' = k + 1 /\ UNCHANGED err

(* The header and the format string: a packet of n data bytes.             *)
I2CBegin(f, n) ==
  /\ pc = "idle"
  /\ fmt' = f /\ k' = 1 /\ cmd_len' = n
  /\ rsp' = <<>> /\ rsp_len' = 0
  /\ IF config = "i2c" THEN pc' = "run" /\ UNCHANGED err ELSE Return("STATE")
  /\ UNCHANGED <<configVars, bus, spiErr>>

(* A packet that ends inside the header, or inside the format string.      *)
I2CBeginShort(inHeader) ==
  /\ pc = "idle"
  /\ Return(IF inHeader \/ config = "i2c" THEN "MALFORMED_PACKET" ELSE "STATE")
  /\ fmt' = <<>> /\ k' = 1 /\ cmd_len' = 0
  /\ rsp' = <<>> /\ rsp_len' = 0
  /\ UNCHANGED <<configVars, bus, spiErr>>

(* CONSUME_BYTE: at the end of the packet it logs that no byte is left and *)
(* counts one all the same, so cmd_len wraps around.                       *)
AfterByte == (cmd_len + SizeWrap - 1) % SizeWrap

(* Mutant of Room: the header is forgotten.                                *)
RoomForData(n) == rsp_len + n <= MaxRsp

(* The check of write_i2c_data and read_i2c_data.                          *)
Room(n) == rsp_len + RecordSize + n <= MaxRsp

(* Mutant of Record: the response grows by the header only.                *)
RecordHeaderOnly(type, n, ok) ==
  /\ rsp' = Append(rsp, [type |-> type, len |-> RecordSize - 1 + n, ok |-> ok])
  /\ rsp_len' = rsp_len + RecordSize

(* One record: its length byte does not count itself.                      *)
Record(type, n, ok) ==
  /\ rsp' = Append(rsp, [type |-> type, len |-> RecordSize - 1 + n, ok |-> ok])
  /\ rsp_len' = rsp_len + RecordSize + n

(* i2c_master_send_stop.                                                   *)
StopSent == bus' = "idle"

(* Mutant of Write: no stop after an error.                                *)
WriteWithoutStop(left) ==
  /\ cmd_len' = left
  /\ \/ /\ ~Room(0)
        /\ Return("NO_MEMORY") /\ UNCHANGED <<k, rsp, rsp_len, bus>>
     \/ /\ Room(0)
        /\ \/ /\ Record("w", 0, TRUE) /\ GoOn /\ bus' = "owned"
           \/ /\ Record("w", 0, FALSE) /\ Return("OPERATION_FAILED")
              /\ bus' \in {"idle", "owned"} /\ UNCHANGED k

(* write_i2c_data and what its callers do with the result.  The slave      *)
(* acknowledges, and the bus is kept; or it does not, or arbitration is    *)
(* lost or it times out, and a stop is sent.                               *)
Write(left) ==
  /\ cmd_len' = left
  /\ \/ /\ ~Room(0)
        /\ Return("NO_MEMORY") /\ StopSent /\ UNCHANGED <<k, rsp, rsp_len>>
     \/ /\ Room(0)
        /\ \/ /\ Record("w", 0, TRUE) /\ GoOn /\ bus' = "owned"
           \/ /\ Record("w", 0, FALSE) /\ Return("OPERATION_FAILED")
              /\ StopSent /\ UNCHANGED k

I2CWriteByte ==
  /\ Running("W") /\ Write(AfterByte)
  /\ UNCHANGED <<configVars, fmt, spiErr>>

(* CONSUME_ARRAY returns from the transaction when the packet is too short *)
(* for the array; no stop is sent.                                         *)
I2CWriteData(n) ==
  /\ Running("w")
  /\ \/ /\ AfterByte < n
        /\ Return("MALFORMED_PACKET") /\ cmd_len' = AfterByte
        /\ UNCHANGED <<k, rsp, rsp_len, bus>>
     \/ /\ AfterByte >= n
        /\ Write(AfterByte - n)
  /\ UNCHANGED <<configVars, fmt, spiErr>>

(* What a failed read of the driver leaves: it sends the stop after a      *)
(* refused address and after an error within the data; not when the        *)
(* address is never answered.                                              *)
BusAfterFailedRead == {"idle", "owned"}

(* read_i2c_data: the driver sends the stop at the end, its caller never   *)
(* does.  The record of a failed read still spans the data.                *)
I2CRead(n) ==
  /\ Running("r") /\ cmd_len' = AfterByte
  /\ \/ /\ ~Room(n)
        /\ Return("NO_MEMORY") /\ UNCHANGED <<k, rsp, rsp_len, bus>>
     \/ /\ Room(n)
        /\ \/ /\ Record("r", n, TRUE) /\ GoOn /\ bus' = "idle"
           \/ /\ Record("r", n, FALSE) /\ Return("OPERATION_FAILED")
              /\ bus' \in BusAfterFailedRead /\ UNCHANGED k
  /\ UNCHANGED <<configVars, fmt, spiErr>>

I2CStop ==
  /\ Running(".") /\ GoOn /\ StopSent
  /\ UNCHANGED <<configVars, fmt, cmd_len, rsp, rsp_len, spiErr>>

I2CUnknown ==
  /\ Running("?") /\ Return("PARAMETER")
  /\ UNCHANGED <<configVars, fmt, k, cmd_len, rsp, rsp_len, bus, spiErr>>

I2CEnd ==
  /\ pc = "run" /\ k > Len(fmt) /\ Return("NONE")
  /\ UNCHANGED <<configVars, fmt, k, cmd_len, rsp, rsp_len, bus, spiErr>>

Next ==
  \/ \E c \in Configs \union {"unknown"}, args \in {"ok", "short", "parameter", "refused"} :
       UsbSetConfig(c, args)
  \/ UsbReset
  \/ \E n \in {0, 1, MaxRsp + 1}, ss \in Index \union {NoSelect} : SpiTransfer(n, ss)
  \/ \E f \in Fmts, n \in 0..MaxData : I2CBegin(f, n)
  \/ \E inHeader \in BOOLEAN : I2CBeginShort(inHeader)
  \/ I2CWriteByte \/ I2CStop \/ I2CUnknown \/ I2CEnd
  \/ \E n \in 0..MaxLength : I2CWriteData(n) \/ I2CRead(n)

Spec == Init /\ [][Next]_vars

-----------------------------------------------------------------------------
(* Every variable holds a value of its type.                               *)
TypeOK ==
  /\ ConfigTypeOK
  /\ pc \in {"idle", "run"} /\ fmt \in Fmts \union {<<>>} /\ k \in 1..(Len(fmt) + 1)
  /\ cmd_len \in 0..(SizeWrap - 1)
  /\ rsp \in Seq([type : {"w", "r"}, len : Nat, ok : BOOLEAN])
  /\ rsp_len \in 0..MaxRsp
  /\ err \in {"NONE", "STATE", "MALFORMED_PACKET", "NO_MEMORY", "PARAMETER", "OPERATION_FAILED"}
  /\ bus \in {"idle", "owned"}
  /\ spiErr \in {"NONE", "STATE", "PARAMETER", "RESOURCE_BUSY"}

(* A host can take a response apart: its records are those of the          *)
(* operations done so far, stops left out, in their order; each starts     *)
(* where the one before ends, the last one ends with the response, which   *)
(* fits; and only the last one failed, exactly if OPERATION_FAILED is      *)
(* returned.                                                               *)
Failed == pc = "idle" /\ err = "OPERATION_FAILED"

DoneOps ==
  {i \in 1..Len(fmt) : fmt[i] # "." /\ (i < k \/ (i = k /\ Failed))}

RecordsEnd(start) ==
  /\ start[1] = 0 /\ start[Len(rsp) + 1] = rsp_len
  /\ \A i \in DOMAIN rsp : start[i + 1] = start[i] + 1 + rsp[i].len

RecordsMatch(op) ==
  /\ \A i, j \in DOMAIN rsp : i < j => op[i] < op[j]
  /\ \A d \in DoneOps : \E i \in DOMAIN rsp : op[i] = d
  /\ \A i \in DOMAIN rsp : rsp[i].type = "r" <=> fmt[op[i]] = "r"

ResponseParses ==
  /\ \E start \in [1..(Len(rsp) + 1) -> 0..MaxRsp] : RecordsEnd(start)
  /\ \E op \in [DOMAIN rsp -> DoneOps] : RecordsMatch(op)
  /\ \A i \in DOMAIN rsp : ~rsp[i].ok <=> i = Len(rsp) /\ Failed

(* The bus stays with this master only when the transaction ended in the   *)
(* middle: behind writes without a stop, at an operation that is not one,  *)
(* at a packet that is too short, or at a read.  No failed write leaves a  *)
(* slave waiting, and without the I2C configuration nothing holds the bus. *)
BusReleased ==
  bus = "owned" =>
    /\ config = "i2c" /\ sercom = "i2c"
    /\ pc = "idle" /\ err \in {"OPERATION_FAILED", "NO_MEMORY"} => fmt[k] = "r"
    /\ pc = "idle" /\ err = "NONE" /\ fmt # <<>> => Last(fmt) \in {"W", "w"}
=============================================================================
