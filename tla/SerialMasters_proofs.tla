------------------------ MODULE SerialMasters_proofs ------------------------
(***************************************************************************)
(* Theorems about SerialMasters for any pins, format strings, packet and   *)
(* response sizes: the configuration owns the serial unit, a transaction   *)
(* leaves the bus the way BusReleased says, and its response can be taken  *)
(* apart.                                                                  *)
(***************************************************************************)
EXTENDS SerialMasters, TLAPS

(* The configuration: ConfigOwns is inductive together with the types.     *)
ConfigInv == ConfigTypeOK /\ ConfigOwns

LEMMA ConfigInitInv ==
  ASSUME NEW lines \in SUBSET Index, ConfigInit(lines)
  PROVE  ConfigInv
<1>1. ConfigTypeOK
  BY DEF ConfigInit, ConfigTypeOK, Configs
<1>2. ConfigOwns
  BY OverrideAssumption
  DEF ConfigInit, ConfigOwns, UnitsMatchConfig, PinsMatchConfig, ConfigAssertsHold
<1> QED
  BY <1>1, <1>2 DEF ConfigInv

(* What uninit_current_config leaves.                                      *)
LEMMA Uninitialised ==
  ASSUME ConfigInv
  PROVE  /\ SpiAfterUninit = FALSE /\ I2cAfterUninit = FALSE
         /\ SercomAfterUninit = "off" /\ ~Denied /\ UninitAsserts
  BY DEF ConfigInv, ConfigTypeOK, Configs, ConfigOwns, UnitsMatchConfig,
         SpiAfterUninit, I2cAfterUninit, SercomAfterUninit, Denied, UninitAsserts

LEMMA MuxWithPins ==
  ASSUME NEW taken \in SUBSET Index
  PROVE  /\ MuxWith(taken) \in [Index -> {"port", "eic", "sercom"}]
         /\ \A i \in Index : MuxWith(taken)[i] = "sercom" <=> i \in taken
  BY DEF MuxWith

LEMMA SetConfigKeeps ==
  ASSUME ConfigInv, NEW c, NEW args, SetConfig(c, args)
  PROVE  ConfigInv'
<1> DEFINE taken == TakesPins(c, args)
<1>1. taken \in SUBSET Index
  BY OverrideAssumption DEF TakesPins, Configs
<1>2. /\ mux' \in [Index -> {"port", "eic", "sercom"}]
      /\ \A i \in Index : mux'[i] = "sercom" <=> i \in taken
  BY <1>1, MuxWithPins DEF SetConfig
<1>3. ConfigTypeOK'
  <2>1. mSpiEnabled' \in BOOLEAN /\ mI2cEnabled' \in BOOLEAN
    BY DEF SetConfig
  <2>2. cfgAssert' \in BOOLEAN
    BY DEF SetConfig
  <2>3. config' \in Configs /\ sercom' \in {"off", "spi", "i2c"}
    BY Uninitialised DEF SetConfig, Accepted, Configs
  <2>4. inten' \subseteq Index
    BY DEF SetConfig, LinesAfterGpio, ConfigInv, ConfigTypeOK
  <2>5. cfgErr' \in {"NONE", "PARAMETER", "MALFORMED_PACKET", "OPERATION_FAILED"}
    BY DEF SetConfig, ConfigError
  <2> QED
    BY <1>2, <2>1, <2>2, <2>3, <2>4, <2>5 DEF ConfigTypeOK
<1>4. UnitsMatchConfig'
  <2>1. sercom' = IF config' = "gpio" THEN "off" ELSE config'
    BY Uninitialised DEF SetConfig, Accepted
  <2>2. /\ mSpiEnabled' <=> config' = "spi"
        /\ mI2cEnabled' <=> config' = "i2c"
    BY Uninitialised DEF SetConfig, Accepted
  <2> QED
    BY <2>1, <2>2 DEF UnitsMatchConfig
<1>5. PinsMatchConfig'
  <2>1. cfgErr' # "OPERATION_FAILED" => taken = Override[config']
    BY Uninitialised, OverrideAssumption
    DEF SetConfig, Accepted, Requests, TakesPins, ConfigError
  <2> QED
    BY <1>2, <2>1 DEF PinsMatchConfig
<1>6. ConfigAssertsHold'
  BY Uninitialised DEF SetConfig, ConfigAssertsHold, ConfigInv, ConfigOwns
<1> QED
  BY <1>3, <1>4, <1>5, <1>6 DEF ConfigInv, ConfigOwns

LEMMA ResetConfigKeeps ==
  ASSUME ConfigInv, ResetConfig
  PROVE  ConfigInv'
<1>1. /\ mux' \in [Index -> {"port", "eic", "sercom"}]
      /\ \A i \in Index : mux'[i] # "sercom"
  BY MuxWithPins DEF ResetConfig
<1>2. ConfigTypeOK'
  BY <1>1, Uninitialised
  DEF ResetConfig, ConfigTypeOK, Configs, LinesAfterGpio, ConfigInv, ConfigOwns,
      ConfigAssertsHold
<1>3. UnitsMatchConfig' /\ ConfigAssertsHold'
  BY Uninitialised
  DEF ResetConfig, UnitsMatchConfig, ConfigAssertsHold, ConfigInv, ConfigOwns
<1>4. PinsMatchConfig'
  BY <1>1, OverrideAssumption DEF ResetConfig, PinsMatchConfig
<1> QED
  BY <1>2, <1>3, <1>4 DEF ConfigInv, ConfigOwns

LEMMA ConfigStutter ==
  ASSUME ConfigInv, UNCHANGED configVars
  PROVE  ConfigInv'
  BY DEF configVars, ConfigInv, ConfigTypeOK, ConfigOwns, UnitsMatchConfig,
         PinsMatchConfig, ConfigAssertsHold
-----------------------------------------------------------------------------
Ops == {"W", "w", "r", ".", "?"}

(* Only the I2C configuration runs transactions, and in the middle of one  *)
(* the bus is held only behind a write.                                    *)
BusHeld ==
  /\ pc = "run" => config = "i2c"
  /\ pc = "run" /\ bus = "owned" /\ k > 1 => fmt[k - 1] \in {"W", "w"}

(* TypeOK without the configuration.                                       *)
I2CTypeOK ==
  /\ pc \in {"idle", "run"} /\ fmt \in Fmts \union {<<>>} /\ k \in 1..(Len(fmt) + 1)
  /\ cmd_len \in 0..(SizeWrap - 1)
  /\ rsp \in Seq([type : {"w", "r"}, len : Nat, ok : BOOLEAN])
  /\ rsp_len \in 0..MaxRsp
  /\ err \in {"NONE", "STATE", "MALFORMED_PACKET", "NO_MEMORY", "PARAMETER", "OPERATION_FAILED"}
  /\ bus \in {"idle", "owned"}
  /\ spiErr \in {"NONE", "STATE", "PARAMETER", "RESOURCE_BUSY"}

IInv == I2CTypeOK /\ ConfigInv /\ BusReleased /\ BusHeld

LEMMA FmtIsSeq ==
  ASSUME fmt \in Fmts \union {<<>>}
  PROVE  fmt \in Seq(Ops) /\ Len(fmt) \in Nat
<1>1. CASE fmt \in Fmts
  BY <1>1, SerialAssumption DEF Ops
<1>2. CASE fmt = <<>>
  BY <1>2
<1> QED
  BY <1>1, <1>2

-----------------------------------------------------------------------------
LEMMA InitIInv == Init => IInv
<1> SUFFICES ASSUME Init PROVE IInv
  OBVIOUS
<1>1. ConfigInv
  BY ConfigInitInv DEF Init
<1>2. I2CTypeOK
  BY SerialAssumption DEF Init, I2CTypeOK
<1>3. BusReleased /\ BusHeld
  BY DEF Init, BusReleased, BusHeld
<1> QED
  BY <1>1, <1>2, <1>3 DEF IInv

(* CONSUME_BYTE leaves a size_t.                                           *)
LEMMA AfterByteType ==
  ASSUME I2CTypeOK
  PROVE  AfterByte \in 0..(SizeWrap - 1)
  BY SerialAssumption DEF I2CTypeOK, AfterByte

LEMMA RecordType ==
  ASSUME I2CTypeOK, NEW type \in {"w", "r"}, NEW n \in Nat, NEW ok \in BOOLEAN,
         Room(n), Record(type, n, ok)
  PROVE  /\ rsp' \in Seq([type : {"w", "r"}, len : Nat, ok : BOOLEAN])
         /\ rsp_len' \in 0..MaxRsp
  BY SerialAssumption DEF I2CTypeOK, Room, Record, RecordSize

LEMMA WriteType ==
  ASSUME I2CTypeOK, NEW left \in 0..(SizeWrap - 1), Write(left),
         pc = "run", k <= Len(fmt), UNCHANGED <<fmt, spiErr>>
  PROVE  I2CTypeOK'
<1>1. fmt \in Seq(Ops) /\ Len(fmt) \in Nat /\ k \in Nat /\ k >= 1
  BY FmtIsSeq DEF I2CTypeOK
<1>2. CASE ~Room(0)
  BY <1>1, <1>2 DEF Write, Return, StopSent, I2CTypeOK
<1>3. CASE Room(0)
  <2>1. ASSUME NEW ok \in BOOLEAN, Record("w", 0, ok)
        PROVE  /\ rsp' \in Seq([type : {"w", "r"}, len : Nat, ok : BOOLEAN])
               /\ rsp_len' \in 0..MaxRsp
    BY <1>3, <2>1, RecordType
  <2>2. CASE Record("w", 0, TRUE) /\ GoOn /\ bus' = "owned"
    <3>1. cmd_len' = left
      BY DEF Write
    <3>2. k' \in 1..(Len(fmt') + 1)
      BY <1>1, <2>2 DEF GoOn
    <3>3. /\ rsp' \in Seq([type : {"w", "r"}, len : Nat, ok : BOOLEAN])
          /\ rsp_len' \in 0..MaxRsp
      BY <2>1, <2>2
    <3> QED
      BY <2>2, <3>1, <3>2, <3>3 DEF GoOn, I2CTypeOK
  <2>3. CASE Record("w", 0, FALSE) /\ Return("OPERATION_FAILED") /\ StopSent /\ UNCHANGED k
    BY <1>1, <2>1, <2>3 DEF Write, Return, StopSent, I2CTypeOK
  <2> QED
    BY <1>3, <2>2, <2>3 DEF Write
<1> QED
  BY <1>2, <1>3

LEMMA TypeStep == IInv /\ [Next]_vars => I2CTypeOK'
<1> SUFFICES ASSUME IInv, [Next]_vars PROVE I2CTypeOK'
  OBVIOUS
<1>0. I2CTypeOK
  BY DEF IInv
<1>1. fmt \in Seq(Ops) /\ Len(fmt) \in Nat /\ k \in Nat /\ k >= 1
  BY <1>0, FmtIsSeq DEF I2CTypeOK
<1>2. ASSUME NEW c, NEW args, UsbSetConfig(c, args)
      PROVE  I2CTypeOK'
  BY <1>0, <1>2 DEF UsbSetConfig, ReleasedBus, I2CTypeOK
<1>3. CASE UsbReset
  BY <1>0, <1>3 DEF UsbReset, ReleasedBus, I2CTypeOK
<1>4. ASSUME NEW n, NEW ss, SpiTransfer(n, ss)
      PROVE  I2CTypeOK'
  <2>1. spiErr' \in {"NONE", "STATE", "PARAMETER", "RESOURCE_BUSY"}
    BY <1>4 DEF SpiTransfer
  <2> QED
    BY <1>0, <1>4, <2>1 DEF SpiTransfer, i2cVars, I2CTypeOK
<1>5. ASSUME NEW f \in Fmts, NEW n \in 0..MaxData, I2CBegin(f, n)
      PROVE  I2CTypeOK'
  <2>1. f \in Seq(Ops) /\ Len(f) \in Nat /\ n \in 0..(SizeWrap - 1)
    BY SerialAssumption DEF Ops
  <2>2. 1 \in 1..(Len(f) + 1) /\ 0 \in 0..MaxRsp
    BY <2>1, SerialAssumption
  <2> QED
    BY <1>0, <1>5, <2>1, <2>2 DEF I2CBegin, Return, I2CTypeOK
<1>6. ASSUME NEW inHeader \in BOOLEAN, I2CBeginShort(inHeader)
      PROVE  I2CTypeOK'
  BY <1>0, <1>6, SerialAssumption DEF I2CBeginShort, Return, I2CTypeOK
<1>7. CASE I2CWriteByte
  BY <1>0, <1>7, AfterByteType, WriteType DEF I2CWriteByte, Running
<1>8. ASSUME NEW n \in 0..MaxLength, I2CWriteData(n)
      PROVE  I2CTypeOK'
  <2>1. CASE AfterByte < n
    BY <1>0, <1>1, <1>8, <2>1, AfterByteType, SerialAssumption
    DEF I2CWriteData, Return, I2CTypeOK
  <2>2. CASE AfterByte >= n
    <3>1. AfterByte - n \in 0..(SizeWrap - 1)
      BY <1>0, <2>2, AfterByteType, SerialAssumption
    <3>2. Write(AfterByte - n)
      BY <1>0, <1>8, <2>2, AfterByteType, SerialAssumption DEF I2CWriteData
    <3> QED
      BY <1>0, <1>8, <3>1, <3>2, WriteType DEF I2CWriteData, Running
  <2> QED
    BY <1>0, <2>1, <2>2, AfterByteType, SerialAssumption
<1>9. ASSUME NEW n \in 0..MaxLength, I2CRead(n)
      PROVE  I2CTypeOK'
  <2>0. n \in Nat /\ cmd_len' \in 0..(SizeWrap - 1) /\ k <= Len(fmt)
    BY <1>0, <1>9, AfterByteType, SerialAssumption DEF I2CRead, Running
  <2>1. CASE ~Room(n)
    BY <1>0, <1>1, <1>9, <2>0, <2>1 DEF I2CRead, Return, I2CTypeOK
  <2>2. CASE Room(n)
    <3>1. ASSUME NEW ok \in BOOLEAN, Record("r", n, ok)
          PROVE  /\ rsp' \in Seq([type : {"w", "r"}, len : Nat, ok : BOOLEAN])
                 /\ rsp_len' \in 0..MaxRsp
      BY <1>0, <2>0, <2>2, <3>1, RecordType
    <3>2. CASE Record("r", n, TRUE) /\ GoOn /\ bus' = "idle"
      <4>1. UNCHANGED <<fmt, spiErr>>
        BY <1>9 DEF I2CRead
      <4>2. k' \in 1..(Len(fmt') + 1)
        BY <1>1, <2>0, <3>2, <4>1 DEF GoOn
      <4>3. /\ rsp' \in Seq([type : {"w", "r"}, len : Nat, ok : BOOLEAN])
            /\ rsp_len' \in 0..MaxRsp
        BY <3>1, <3>2
      <4> QED
        BY <1>0, <2>0, <3>2, <4>1, <4>2, <4>3 DEF GoOn, I2CTypeOK
    <3>3. CASE /\ Record("r", n, FALSE) /\ Return("OPERATION_FAILED")
               /\ bus' \in BusAfterFailedRead /\ UNCHANGED k
      BY <1>0, <1>1, <1>9, <2>0, <3>1, <3>3
      DEF I2CRead, Return, BusAfterFailedRead, I2CTypeOK
    <3> QED
      BY <1>9, <2>2, <3>2, <3>3 DEF I2CRead
  <2> QED
    BY <2>1, <2>2
<1>10. CASE I2CStop \/ I2CUnknown \/ I2CEnd
  BY <1>0, <1>1, <1>10
  DEF I2CStop, I2CUnknown, I2CEnd, Running, GoOn, Return, StopSent, I2CTypeOK
<1>11. CASE UNCHANGED vars
  BY <1>0, <1>11 DEF vars, i2cVars, I2CTypeOK
<1> QED
  BY <1>2, <1>3, <1>4, <1>5, <1>6, <1>7, <1>8, <1>9, <1>10, <1>11 DEF Next

-----------------------------------------------------------------------------
LEMMA ConfigStep == IInv /\ [Next]_vars => ConfigInv'
<1> SUFFICES ASSUME IInv, [Next]_vars PROVE ConfigInv'
  OBVIOUS
<1>0. ConfigInv
  BY DEF IInv
<1>1. ASSUME NEW c, NEW args, UsbSetConfig(c, args)
      PROVE  ConfigInv'
  BY <1>0, <1>1, SetConfigKeeps DEF UsbSetConfig
<1>2. CASE UsbReset
  BY <1>0, <1>2, ResetConfigKeeps DEF UsbReset
<1>3. CASE UNCHANGED configVars
  BY <1>0, <1>3, ConfigStutter
<1> QED
  BY <1>1, <1>2, <1>3
  DEF Next, SpiTransfer, I2CBegin, I2CBeginShort, I2CWriteByte, I2CWriteData, I2CRead,
      I2CStop, I2CUnknown, I2CEnd, vars

(* A new configuration finds the bus idle, or lets go of it.               *)
LEMMA ReconfiguredBus ==
  ASSUME IInv, ReleasedBus
  PROVE  bus' = "idle"
  BY DEF IInv, I2CTypeOK, BusReleased, ReleasedBus

LEMMA BusStep == IInv /\ [Next]_vars => BusReleased' /\ BusHeld'
<1> SUFFICES ASSUME IInv, [Next]_vars PROVE BusReleased' /\ BusHeld'
  OBVIOUS
<1>0. BusReleased /\ BusHeld /\ I2CTypeOK /\ UnitsMatchConfig
  BY DEF IInv, ConfigInv, ConfigOwns
<1>1. fmt \in Seq(Ops) /\ Len(fmt) \in Nat /\ k \in Nat /\ k >= 1 /\ k <= Len(fmt) + 1
  BY <1>0, FmtIsSeq DEF I2CTypeOK
<1>u. config = "i2c" => sercom = "i2c"
  BY <1>0 DEF UnitsMatchConfig
<1>2. ASSUME NEW c, NEW args, UsbSetConfig(c, args)
      PROVE  BusReleased' /\ BusHeld'
  BY <1>2, ReconfiguredBus DEF UsbSetConfig, BusReleased, BusHeld
<1>3. CASE UsbReset
  BY <1>3, ReconfiguredBus DEF UsbReset, BusReleased, BusHeld
<1>4. ASSUME NEW n, NEW ss, SpiTransfer(n, ss)
      PROVE  BusReleased' /\ BusHeld'
  BY <1>0, <1>4 DEF SpiTransfer, configVars, i2cVars, BusReleased, BusHeld
<1>5. ASSUME NEW f, NEW n, I2CBegin(f, n)
      PROVE  BusReleased' /\ BusHeld'
  BY <1>0, <1>5, <1>u DEF I2CBegin, Return, configVars, BusReleased, BusHeld
<1>6. ASSUME NEW inHeader, I2CBeginShort(inHeader)
      PROVE  BusReleased' /\ BusHeld'
  BY <1>0, <1>6 DEF I2CBeginShort, Return, configVars, BusReleased, BusHeld
<1>7. ASSUME NEW left, NEW op \in {"W", "w"}, Running(op), Write(left),
             UNCHANGED <<configVars, fmt>>
      PROVE  BusReleased' /\ BusHeld'
  <2>1. CASE GoOn /\ bus' = "owned"
    BY <1>0, <1>1, <1>7, <1>u, <2>1 DEF Running, GoOn, configVars, BusReleased, BusHeld
  <2>2. CASE \E e : Return(e) /\ StopSent
    BY <1>7, <2>2 DEF Return, StopSent, BusReleased, BusHeld
  <2> QED
    BY <1>7, <2>1, <2>2 DEF Write
<1>8. CASE I2CWriteByte
  BY <1>7, <1>8 DEF I2CWriteByte
<1>9. ASSUME NEW n \in 0..MaxLength, I2CWriteData(n)
      PROVE  BusReleased' /\ BusHeld'
  <2>1. CASE AfterByte < n /\ Return("MALFORMED_PACKET") /\ UNCHANGED bus
    BY <1>0, <1>9, <2>1 DEF I2CWriteData, Running, Return, configVars, BusReleased, BusHeld
  <2>2. CASE Write(AfterByte - n)
    BY <1>7, <1>9, <2>2 DEF I2CWriteData
  <2> QED
    BY <1>9, <2>1, <2>2 DEF I2CWriteData
<1>10. ASSUME NEW n \in 0..MaxLength, I2CRead(n)
       PROVE  BusReleased' /\ BusHeld'
  <2>1. CASE GoOn /\ bus' = "idle"
    BY <1>0, <1>10, <2>1 DEF I2CRead, Running, GoOn, configVars, BusReleased, BusHeld
  <2>2. CASE /\ UNCHANGED k
             /\ Return("NO_MEMORY") \/ Return("OPERATION_FAILED")
    BY <1>0, <1>10, <1>u, <2>2 DEF I2CRead, Running, Return, configVars, BusReleased, BusHeld
  <2> QED
    BY <1>10, <2>1, <2>2 DEF I2CRead
<1>11. CASE I2CStop
  BY <1>0, <1>11 DEF I2CStop, Running, GoOn, StopSent, configVars, BusReleased, BusHeld
<1>12. CASE I2CUnknown
  BY <1>0, <1>12 DEF I2CUnknown, Running, Return, configVars, BusReleased, BusHeld
<1>13. CASE I2CEnd
  <2>1. k = Len(fmt) + 1 /\ (fmt # <<>> => k > 1 /\ Last(fmt) = fmt[k - 1])
    BY <1>1, <1>13 DEF I2CEnd, Last
  <2> QED
    BY <1>0, <1>13, <2>1 DEF I2CEnd, Return, configVars, BusReleased, BusHeld
<1>14. CASE UNCHANGED vars
  BY <1>0, <1>14 DEF vars, configVars, i2cVars, BusReleased, BusHeld
<1> QED
  BY <1>2, <1>3, <1>4, <1>5, <1>6, <1>8, <1>9, <1>10, <1>11, <1>12, <1>13, <1>14 DEF Next

-----------------------------------------------------------------------------
(* The response: a step adds one record for the operation it ends, or      *)
(* leaves the records and the operations done as they are.                 *)
Rec == [type : {"w", "r"}, len : Nat, ok : BOOLEAN]

LEMMA ResponseKept ==
  ASSUME ResponseParses, UNCHANGED <<fmt, rsp, rsp_len>>, DoneOps' = DoneOps,
         Failed' <=> Failed
  PROVE  ResponseParses'
<1>1. PICK start \in [1..(Len(rsp) + 1) -> 0..MaxRsp] : RecordsEnd(start)
  BY DEF ResponseParses
<1>2. PICK op \in [DOMAIN rsp -> DoneOps] : RecordsMatch(op)
  BY DEF ResponseParses
<1>3. \E x \in [1..(Len(rsp') + 1) -> 0..MaxRsp] : RecordsEnd(x)'
  BY <1>1 DEF RecordsEnd
<1>4. \E x \in [DOMAIN rsp' -> DoneOps'] : RecordsMatch(x)'
  BY <1>2 DEF RecordsMatch
<1>5. \A i \in DOMAIN rsp' : ~rsp'[i].ok <=> i = Len(rsp') /\ Failed'
  BY DEF ResponseParses
<1> QED
  BY <1>3, <1>4, <1>5 DEF ResponseParses

LEMMA RecordAdded ==
  ASSUME I2CTypeOK, ResponseParses, pc = "run", k <= Len(fmt), fmt[k] # ".",
         NEW type \in {"w", "r"}, type = "r" <=> fmt[k] = "r",
         NEW n \in Nat, NEW ok \in BOOLEAN, Room(n), Record(type, n, ok), UNCHANGED fmt,
         \/ ok /\ GoOn
         \/ ~ok /\ Return("OPERATION_FAILED") /\ UNCHANGED k
  PROVE  ResponseParses'
<1> DEFINE r == [type |-> type, len |-> RecordSize - 1 + n, ok |-> ok]
           m == Len(rsp)
<1>1. /\ fmt \in Seq(Ops) /\ Len(fmt) \in Nat /\ k \in 1..Len(fmt)
      /\ rsp \in Seq(Rec) /\ m \in Nat /\ DOMAIN rsp = 1..m
      /\ rsp_len \in 0..MaxRsp /\ MaxRsp \in Nat
  BY FmtIsSeq, SerialAssumption DEF I2CTypeOK, Rec
<1>2. /\ r \in Rec /\ r.type = type /\ r.len = 3 + n /\ r.ok = ok
      /\ rsp' = Append(rsp, r)
      /\ rsp_len' = rsp_len + 4 + n /\ rsp_len' \in 0..MaxRsp
  BY <1>1 DEF Rec, Record, RecordSize, Room
<1> HIDE DEF r
<1>3. /\ Len(rsp') = m + 1 /\ DOMAIN rsp' = 1..m + 1 /\ rsp'[m + 1] = r
      /\ \A i \in 1..m : rsp'[i] = rsp[i]
  BY <1>1, <1>2
<1> HIDE DEF m
<1>4. ~Failed /\ (Failed' <=> ~ok)
  BY DEF Failed, GoOn, Return
<1>5. DoneOps' = DoneOps \union {k} /\ \A d \in DoneOps : d < k
  <2>1. DoneOps = {i \in 1..Len(fmt) : fmt[i] # "." /\ i < k}
    BY <1>1, <1>4 DEF DoneOps
  <2>2. CASE ok /\ GoOn
    <3>1. DoneOps' = {i \in 1..Len(fmt) : fmt[i] # "." /\ i < k + 1}
      BY <1>1, <1>4, <2>2 DEF DoneOps, GoOn
    <3> QED
      BY <1>1, <2>1, <3>1
  <2>3. CASE ~ok /\ UNCHANGED k
    <3>1. DoneOps' = {i \in 1..Len(fmt) : fmt[i] # "." /\ (i < k \/ i = k)}
      BY <1>1, <1>4, <2>3 DEF DoneOps
    <3> QED
      BY <1>1, <2>1, <3>1
  <2> QED
    BY <2>2, <2>3
<1>6. \E x \in [1..(Len(rsp') + 1) -> 0..MaxRsp] : RecordsEnd(x)'
  <2>1. PICK start \in [1..(m + 1) -> 0..MaxRsp] : RecordsEnd(start)
    BY DEF ResponseParses, m
  <2>2. PICK x \in [1..(m + 1 + 1) -> 0..MaxRsp] :
          x[m + 1 + 1] = rsp_len' /\ \A i \in 1..m + 1 : x[i] = start[i]
    <3> DEFINE y == [i \in 1..(m + 1 + 1) |-> IF i = m + 1 + 1 THEN rsp_len' ELSE start[i]]
    <3>1. \A i \in 1..(m + 1 + 1) : i # m + 1 + 1 => i \in 1..m + 1
      BY <1>1
    <3>2. y \in [1..(m + 1 + 1) -> 0..MaxRsp]
      BY <1>2, <2>1, <3>1
    <3>3. y[m + 1 + 1] = rsp_len' /\ \A i \in 1..m + 1 : y[i] = start[i]
      BY <1>1
    <3> HIDE DEF y
    <3> QED
      BY <3>2, <3>3
  <2>3. x[1] = 0 /\ x[m + 1] = rsp_len
    BY <1>1, <2>1, <2>2 DEF RecordsEnd, m
  <2>4. \A i \in 1..m : x[i + 1] = x[i] + 1 + rsp'[i].len
    <3>1. \A i \in 1..m : i \in 1..m + 1 /\ i + 1 \in 1..m + 1
      BY <1>1
    <3> QED
      BY <1>1, <1>3, <2>1, <2>2, <3>1 DEF RecordsEnd
  <2>5. x[m + 1 + 1] = x[m + 1] + 1 + rsp'[m + 1].len
    BY <1>1, <1>2, <1>3, <2>2, <2>3
  <2>6. \A i \in 1..m + 1 : x[i + 1] = x[i] + 1 + rsp'[i].len
    <3>1. \A i \in 1..m + 1 : i \in 1..m \/ i = m + 1
      BY <1>1
    <3> QED
      BY <2>4, <2>5, <3>1
  <2>7. x[Len(rsp') + 1] = rsp_len'
    BY <1>3, <2>2
  <2>8. \A i \in DOMAIN rsp' : x[i + 1] = x[i] + 1 + rsp'[i].len
    BY <1>3, <2>6
  <2>9. RecordsEnd(x)'
    BY <2>3, <2>7, <2>8 DEF RecordsEnd
  <2>10. x \in [1..(Len(rsp') + 1) -> 0..MaxRsp]
    BY <1>3
  <2> QED
    BY <2>9, <2>10
<1>7. \E x \in [DOMAIN rsp' -> DoneOps'] : RecordsMatch(x)'
  <2>1. PICK op \in [1..m -> DoneOps] : RecordsMatch(op)
    BY <1>1 DEF ResponseParses
  <2>2. PICK x \in [1..m + 1 -> DoneOps'] :
          x[m + 1] = k /\ \A i \in 1..m : x[i] = op[i]
    <3> DEFINE y == [i \in 1..m + 1 |-> IF i = m + 1 THEN k ELSE op[i]]
    <3>1. \A i \in 1..m + 1 : i # m + 1 => i \in 1..m
      BY <1>1
    <3>2. y \in [1..m + 1 -> DoneOps']
      BY <1>5, <2>1, <3>1
    <3>3. y[m + 1] = k /\ \A i \in 1..m : y[i] = op[i]
      BY <1>1
    <3> HIDE DEF y
    <3> QED
      BY <3>2, <3>3
  <2>3. x[m + 1] = k /\ \A i \in 1..m : x[i] = op[i] /\ x[i] \in DoneOps
    BY <1>1, <2>1, <2>2
  <2>4. \A i \in 1..m + 1 : i \in 1..m \/ i = m + 1
    BY <1>1
  <2>5. \A i, j \in 1..m + 1 : i < j => x[i] < x[j]
    <3>1. \A i, j \in 1..m : i < j => x[i] < x[j]
      BY <1>1, <2>1, <2>3 DEF RecordsMatch
    <3>2. \A i \in 1..m : x[i] < x[m + 1]
      BY <1>5, <2>3
    <3>3. \A i, j \in 1..m + 1 : i < j => i \in 1..m
      BY <1>1
    <3> QED
      BY <2>4, <3>1, <3>2, <3>3
  <2>6. \A d \in DoneOps' : \E i \in 1..m + 1 : x[i] = d
    <3>1. \A d \in DoneOps : \E i \in 1..m : x[i] = d
      BY <1>1, <2>1, <2>3 DEF RecordsMatch
    <3>2. m + 1 \in 1..m + 1 /\ \A i \in 1..m : i \in 1..m + 1
      BY <1>1
    <3> QED
      BY <1>5, <2>3, <3>1, <3>2
  <2>7. \A i \in 1..m + 1 : rsp'[i].type = "r" <=> fmt'[x[i]] = "r"
    <3>1. \A i \in 1..m : rsp'[i].type = "r" <=> fmt'[x[i]] = "r"
      BY <1>1, <1>3, <2>1, <2>3 DEF RecordsMatch
    <3>2. rsp'[m + 1].type = "r" <=> fmt'[x[m + 1]] = "r"
      BY <1>2, <1>3, <2>3
    <3> QED
      BY <2>4, <3>1, <3>2
  <2>8. RecordsMatch(x)'
    BY <1>3, <2>5, <2>6, <2>7 DEF RecordsMatch
  <2> QED
    BY <1>3, <2>2, <2>8
<1>8. \A i \in DOMAIN rsp' : ~rsp'[i].ok <=> i = Len(rsp') /\ Failed'
  <2>1. \A i \in 1..m : rsp'[i].ok
    BY <1>1, <1>3, <1>4 DEF ResponseParses
  <2> QED
    BY <1>1, <1>2, <1>3, <1>4, <2>1
<1> QED
  BY <1>6, <1>7, <1>8 DEF ResponseParses

LEMMA WriteResponse ==
  ASSUME I2CTypeOK, ResponseParses, NEW left, NEW op \in {"W", "w"}, Running(op),
         Write(left), UNCHANGED fmt
  PROVE  ResponseParses'
<1>1. /\ pc = "run" /\ k <= Len(fmt) /\ fmt[k] # "." /\ fmt[k] # "r" /\ ~Failed
  BY DEF Running, Failed
<1>2. CASE Return("NO_MEMORY") /\ UNCHANGED <<k, rsp, rsp_len>>
  <2>1. ~Failed'
    BY <1>2 DEF Return, Failed
  <2> QED
    BY <1>1, <1>2, <2>1, ResponseKept DEF DoneOps
<1>3. ASSUME Room(0), NEW ok \in BOOLEAN, Record("w", 0, ok),
             \/ ok /\ GoOn
             \/ ~ok /\ Return("OPERATION_FAILED") /\ UNCHANGED k
      PROVE  ResponseParses'
  <2>1. "w" \in {"w", "r"} /\ ("w" = "r" <=> fmt[k] = "r") /\ 0 \in Nat
    BY <1>1
  <2> QED
    BY <1>1, <1>3, <2>1, RecordAdded
<1>4. CASE Room(0) /\ Record("w", 0, TRUE) /\ GoOn
  BY <1>3, <1>4
<1>5. CASE Room(0) /\ Record("w", 0, FALSE) /\ Return("OPERATION_FAILED") /\ UNCHANGED k
  BY <1>3, <1>5
<1> QED
  BY <1>2, <1>4, <1>5 DEF Write

LEMMA ResponseStep == IInv /\ ResponseParses /\ [Next]_vars => ResponseParses'
<1> SUFFICES ASSUME I2CTypeOK, ResponseParses, [Next]_vars PROVE ResponseParses'
  BY DEF IInv
<1>1. fmt \in Seq(Ops) /\ Len(fmt) \in Nat /\ k \in 1..(Len(fmt) + 1)
  BY FmtIsSeq DEF I2CTypeOK
<1>2. ASSUME UNCHANGED <<pc, fmt, k, rsp, rsp_len, err>> PROVE ResponseParses'
  <2>1. DoneOps' = DoneOps /\ (Failed' <=> Failed)
    BY <1>2 DEF DoneOps, Failed
  <2> QED
    BY <1>2, <2>1, ResponseKept
<1>3. ASSUME pc = "run", NEW e, e # "OPERATION_FAILED", Return(e),
             UNCHANGED <<fmt, k, rsp, rsp_len>>
      PROVE  ResponseParses'
  <2>1. ~Failed /\ ~Failed'
    BY <1>3 DEF Failed, Return
  <2>2. DoneOps' = DoneOps
    BY <1>3, <2>1 DEF DoneOps
  <2> QED
    BY <1>3, <2>1, <2>2, ResponseKept
<1>4. ASSUME rsp' = <<>>, rsp_len' = 0, k' = 1, ~Failed', fmt' \in Seq(Ops)
      PROVE  ResponseParses'
  <2>1. DoneOps' = {}
    BY <1>4 DEF DoneOps
  <2>2. PICK start \in [1..1 -> 0..MaxRsp] : start[1] = 0
    <3>1. [i \in 1..1 |-> 0] \in [1..1 -> 0..MaxRsp] /\ [i \in 1..1 |-> 0][1] = 0
      BY SerialAssumption
    <3> QED
      BY <3>1
  <2>3. PICK op \in [{} -> {}] : TRUE
    <3>1. [i \in {} |-> 0] \in [{} -> {}]
      OBVIOUS
    <3> QED
      BY <3>1
  <2>4. Len(rsp') = 0 /\ DOMAIN rsp' = {} /\ 1..(Len(rsp') + 1) = 1..1
    BY <1>4
  <2>5. RecordsEnd(start)' /\ RecordsMatch(op)'
    BY <1>4, <2>1, <2>2, <2>4 DEF RecordsEnd, RecordsMatch
  <2> QED
    BY <2>1, <2>2, <2>3, <2>4, <2>5 DEF ResponseParses
<1>5. ASSUME NEW f \in Fmts, NEW n, I2CBegin(f, n) PROVE ResponseParses'
  <2>1. ~Failed'
    BY <1>5 DEF I2CBegin, Return, Failed
  <2>2. f \in Seq(Ops)
    BY SerialAssumption DEF Ops
  <2> QED
    BY <1>4, <1>5, <2>1, <2>2 DEF I2CBegin
<1>6. ASSUME NEW inHeader, I2CBeginShort(inHeader) PROVE ResponseParses'
  <2>1. ~Failed'
    BY <1>6 DEF I2CBeginShort, Return, Failed
  <2> QED
    BY <1>4, <1>6, <2>1 DEF I2CBeginShort
<1>7. CASE I2CWriteByte
  BY <1>7, WriteResponse DEF I2CWriteByte
<1>8. ASSUME NEW n, I2CWriteData(n) PROVE ResponseParses'
  <2>1. CASE Return("MALFORMED_PACKET") /\ UNCHANGED <<k, rsp, rsp_len>>
    BY <1>3, <1>8, <2>1 DEF I2CWriteData, Running
  <2>2. CASE Write(AfterByte - n)
    BY <1>8, <2>2, WriteResponse DEF I2CWriteData
  <2> QED
    BY <1>8, <2>1, <2>2 DEF I2CWriteData
<1>9. ASSUME NEW n \in 0..MaxLength, I2CRead(n) PROVE ResponseParses'
  <2>1. pc = "run" /\ k <= Len(fmt) /\ fmt[k] = "r" /\ fmt[k] # "." /\ UNCHANGED fmt
    BY <1>9 DEF I2CRead, Running
  <2>2. ASSUME Room(n), NEW ok \in BOOLEAN, Record("r", n, ok),
               \/ ok /\ GoOn
               \/ ~ok /\ Return("OPERATION_FAILED") /\ UNCHANGED k
        PROVE  ResponseParses'
    <3>1. "r" \in {"w", "r"} /\ ("r" = "r" <=> fmt[k] = "r") /\ n \in Nat
      BY <2>1, SerialAssumption
    <3> QED
      BY <2>1, <2>2, <3>1, RecordAdded
  <2>3. CASE Return("NO_MEMORY") /\ UNCHANGED <<k, rsp, rsp_len>>
    BY <1>3, <2>1, <2>3
  <2>4. CASE Room(n) /\ Record("r", n, TRUE) /\ GoOn
    BY <2>2, <2>4
  <2>5. CASE Room(n) /\ Record("r", n, FALSE) /\ Return("OPERATION_FAILED") /\ UNCHANGED k
    BY <2>2, <2>5
  <2> QED
    BY <1>9, <2>3, <2>4, <2>5 DEF I2CRead
<1>10. CASE I2CStop
  <2>1. pc = "run" /\ fmt[k] = "." /\ pc' = "run" /\ k' = k + 1
        /\ UNCHANGED <<fmt, rsp, rsp_len>>
    BY <1>10 DEF I2CStop, Running, GoOn
  <2>2. ~Failed /\ ~Failed'
    BY <2>1 DEF Failed
  <2>3. DoneOps' = DoneOps
    BY <1>1, <2>1, <2>2 DEF DoneOps
  <2> QED
    BY <2>1, <2>2, <2>3, ResponseKept
<1>11. CASE I2CUnknown \/ I2CEnd
  BY <1>3, <1>11 DEF I2CUnknown, I2CEnd, Running
<1>12. ASSUME NEW c, NEW args, UsbSetConfig(c, args) PROVE ResponseParses'
  BY <1>2, <1>12 DEF UsbSetConfig
<1>13. CASE UsbReset
  BY <1>2, <1>13 DEF UsbReset
<1>14. ASSUME NEW n, NEW ss, SpiTransfer(n, ss) PROVE ResponseParses'
  BY <1>2, <1>14 DEF SpiTransfer, i2cVars
<1>15. CASE UNCHANGED vars
  BY <1>2, <1>15 DEF vars, i2cVars
<1> QED
  BY <1>5, <1>6, <1>7, <1>8, <1>9, <1>10, <1>11, <1>12, <1>13, <1>14, <1>15 DEF Next

LEMMA ResponseInit == Init => ResponseParses
<1> SUFFICES ASSUME Init PROVE ResponseParses
  OBVIOUS
<1>1. DoneOps = {} /\ ~Failed /\ rsp = <<>> /\ rsp_len = 0 /\ Len(rsp) = 0 /\ DOMAIN rsp = {}
  BY DEF Init, DoneOps, Failed
<1>2. /\ [i \in 1..1 |-> 0] \in [1..1 -> 0..MaxRsp] /\ [i \in {} |-> 0] \in [{} -> {}]
      /\ [i \in 1..1 |-> 0][1] = 0
  BY SerialAssumption
<1>3. RecordsEnd([i \in 1..1 |-> 0]) /\ RecordsMatch([i \in {} |-> 0])
  BY <1>1, <1>2 DEF RecordsEnd, RecordsMatch
<1>4. 1..(Len(rsp) + 1) = 1..1
  BY <1>1
<1> QED
  BY <1>1, <1>2, <1>3, <1>4 DEF ResponseParses

-----------------------------------------------------------------------------
LEMMA Invariance == Spec => []IInv
<1>1. IInv /\ [Next]_vars => IInv'
  BY TypeStep, ConfigStep, BusStep DEF IInv
<1> QED
  BY InitIInv, <1>1, PTL DEF Spec

(* Every reachable state is well typed; in particular no response outgrows *)
(* its room.                                                               *)
THEOREM TypeCorrect == Spec => []TypeOK
<1>1. IInv => TypeOK
  BY DEF IInv, I2CTypeOK, ConfigInv, TypeOK
<1> QED
  BY Invariance, <1>1, PTL

(* The serial unit, its flags and its pins follow the configuration, and   *)
(* no ASSERT of the configuration code fails.                              *)
THEOREM ConfigurationOwnsUnit == Spec => []ConfigOwns
<1>1. IInv => ConfigOwns
  BY DEF IInv, ConfigInv
<1> QED
  BY Invariance, <1>1, PTL

(* No failed write leaves a slave waiting, whatever the format string.     *)
THEOREM BusLetGo == Spec => []BusReleased
<1>1. IInv => BusReleased
  BY DEF IInv
<1> QED
  BY Invariance, <1>1, PTL

(* Whatever the format string, the data and the answers of the slaves, the *)
(* host can take the response apart: one record for each operation done,   *)
(* in their order, end to end up to the length of the response.            *)
THEOREM ResponseCanBeTakenApart == Spec => []ResponseParses
BY Invariance, ResponseInit, ResponseStep, PTL DEF Spec
=============================================================================
