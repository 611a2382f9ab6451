------------------------ MODULE FirmwareUpdate_proofs ------------------------
(***************************************************************************)
(* Theorems about FirmwareUpdate for any page, row and flash size, any     *)
(* sizes of images, and any number of updates and power losses.  Whatever  *)
(* the order of the commands, the driver gets addresses of pages; a host   *)
(* that keeps to the order has its image stored, read back and booted      *)
(* unmixed.                                                                *)
(***************************************************************************)
EXTENDS FirmwareUpdate, SequenceTheorems, TLAPS

Pages == RowPages * Rows

LEMMA FlashSizes ==
  /\ RowSize \in Nat \ {0} /\ AppSize \in Nat \ {0} /\ Pages \in Nat
  /\ AppSize = Pages * PageSize /\ PageSize \in Nat /\ PageSize >= 2
  /\ MaxSent \in Nat /\ MaxSent >= AppSize + 4
  /\ MaxPacket \in Nat /\ MaxPacket < PageSize /\ MagicAt \in Nat
<1>1. PageSize \in Nat /\ PageSize >= 2
  BY NvmAssumption
<1>2. RowSize \in Nat \ {0}
  BY NvmAssumption DEF RowSize
<1>3. AppSize \in Nat \ {0}
  BY <1>2, NvmAssumption DEF AppSize
<1>4. Pages \in Nat
  BY NvmAssumption DEF Pages
<1>5. AppSize = Pages * PageSize
  BY NvmAssumption DEF AppSize, RowSize, Pages
<1>6. MaxPacket \in Nat /\ MaxPacket < PageSize /\ MagicAt \in Nat
  BY <1>1, <1>2, UpdateAssumption
<1>7. MaxSent \in Nat /\ MaxSent >= AppSize + 4
  BY <1>1, <1>3 DEF MaxSent
<1> QED
  BY <1>1, <1>2, <1>3, <1>4, <1>5, <1>6, <1>7

LEMMA Smaller ==
  ASSUME NEW p \in Nat, NEW q \in Nat, NEW s \in Nat, p * s < q * s
  PROVE  p < q
<1> SUFFICES ASSUME p >= q PROVE FALSE
  OBVIOUS
<1>1. p = q + (p - q) /\ p - q \in Nat
  OBVIOUS
<1>2. p * s = q * s + (p - q) * s /\ (p - q) * s \in Nat /\ q * s \in Nat
  BY <1>1
<1> QED
  BY <1>2

LEMMA NextPage ==
  ASSUME NEW addr \in PageStarts, addr < AppSize
  PROVE  addr + PageSize \in PageStarts
<1>1. PICK p \in 0..Pages : addr = p * PageSize
  BY DEF PageStarts, Pages
<1>2. p < Pages
  BY <1>1, FlashSizes, Smaller
<1>3. p + 1 \in 0..Pages /\ addr + PageSize = (p + 1) * PageSize
  BY <1>1, <1>2, FlashSizes
<1> QED
  BY <1>3 DEF PageStarts, Pages

LEMMA PageStartsNat == PageStarts \subseteq Nat /\ 0 \in PageStarts
BY FlashSizes DEF PageStarts, Pages

-----------------------------------------------------------------------------
(* The flash driver keeps the flash a function to bytes.                   *)
LEMMA Bytes ==
  /\ Erased \in Byte /\ Zero \in Byte /\ Junk \in Byte
  /\ \A img \in 0..MaxImages, k \in 0..MaxSent : ByteOf(img, k) \in Byte
BY FlashSizes, UpdateAssumption DEF Byte, Erased, Zero, Junk, ByteOf

LEMMA WordsType ==
  ASSUME NEW data \in Seq(Byte)
  PROVE  /\ Words(data) \in Seq(Byte) /\ Len(Words(data)) \in Nat
         /\ Len(Words(data)) >= Len(data)
         /\ \A i \in 1..Len(data) : Words(data)[i] = data[i]
         /\ \A i \in 1..Len(Words(data)) :
              Words(data)[i] \in Byte /\ (i > Len(data) => Words(data)[i] = Zero)
         /\ Len(data) % 2 = 0 => Words(data) = data
<1>1. CASE Len(data) % 2 = 1
  <2>1. Words(data) = Append(data, Zero)
    BY <1>1 DEF Words
  <2> QED
    BY <1>1, <2>1, Bytes
<1>2. CASE Len(data) % 2 # 1
  <2>1. Words(data) = data
    BY <1>2 DEF Words
  <2> QED
    BY <2>1
<1> QED
  BY <1>1, <1>2

LEMMA WriteType ==
  ASSUME NEW f \in [Addr -> Byte], NEW addr \in Nat, NEW data \in Seq(Byte)
  PROVE  WriteBuffer(f, addr, data) \in [Addr -> Byte]
<1> DEFINE words == Words(data)
<1>1. words \in Seq(Byte) /\ Len(words) \in Nat /\ \A i \in 1..Len(words) : words[i] \in Byte
  BY WordsType
<1> HIDE DEF words
<1>2. ASSUME NEW a \in Addr, addr <= a, a < addr + Len(words)
      PROVE  Programmed(f[a], words[a - addr + 1]) \in Byte
  <2>1. a - addr + 1 \in 1..Len(words)
    BY <1>1, <1>2, FlashSizes DEF Addr
  <2> QED
    BY <1>1, <2>1, Bytes DEF Programmed
<1> QED
  BY <1>2 DEF WriteBuffer, words

LEMMA EraseType ==
  ASSUME NEW f \in [Addr -> Byte], NEW r, NEW kept
  PROVE  EraseRow(f, r) \in [Addr -> Byte] /\ TornErase(f, r, kept) \in [Addr -> Byte]
BY Bytes DEF EraseRow, TornErase

LEMMA TornType ==
  ASSUME NEW f \in [Addr -> Byte], NEW addr \in Nat, NEW data \in Seq(Byte), NEW done
  PROVE  TornWrite(f, addr, data, done) \in [Addr -> Byte]
BY WriteType, Bytes DEF TornWrite

-----------------------------------------------------------------------------
DFUContext == [current_write_addr : PageStarts, buffer : Seq(Byte),
               current_read_addr : 0..AppSize]

TInv == TypeOK /\ mDFU \in DFUContext

LEMMA FreshType ==
  /\ FreshDFU \in DFUContext /\ FreshDFU.current_write_addr = 0
  /\ FreshDFU.buffer = <<>> /\ FreshDFU.current_read_addr = 0
  /\ Len(FreshDFU.buffer) <= PageSize
BY FlashSizes, PageStartsNat DEF FreshDFU, DFUContext

(* What enqueue_dfu_data puts together.                                    *)
LEMMA EnqueuedType ==
  ASSUME TInv, NEW n \in 1..MaxPacket, HostSends(n)
  PROVE  /\ Data(n) \in Seq(Byte) /\ Len(Data(n)) = n
         /\ Enqueued(n) \in Seq(Byte)
         /\ Len(Enqueued(n)) = Len(mDFU.buffer) + n
         /\ Flushes(n) => /\ FlushedPage(n) \in Seq(Byte) /\ Len(FlushedPage(n)) = PageSize
                          /\ Remainder(n) \in Seq(Byte)
                          /\ Len(Remainder(n)) = Len(Enqueued(n)) - PageSize
                          /\ Len(Remainder(n)) <= PageSize
         /\ ~Flushes(n) => Len(Enqueued(n)) <= PageSize
<1>0. /\ n \in Nat /\ n <= MaxPacket /\ sent \in Nat /\ sent + n <= MaxSent
      /\ mDFU.buffer \in Seq(Byte) /\ Len(mDFU.buffer) \in Nat /\ Len(mDFU.buffer) <= PageSize
      /\ image \in 0..MaxImages
  BY FlashSizes DEF TInv, TypeOK, HostSends
<1>1. \A i \in 1..n : sent + i - 1 \in 0..MaxSent
  BY <1>0, FlashSizes
<1>2. \A i \in 1..n : ByteOf(image, sent + i - 1) \in Byte
  BY <1>0, <1>1, Bytes
<1>3. Data(n) \in Seq(Byte) /\ Len(Data(n)) = n
  BY <1>0, <1>2 DEF Data
<1>4. Enqueued(n) \in Seq(Byte) /\ Len(Enqueued(n)) = Len(mDFU.buffer) + n
  BY <1>0, <1>3 DEF Enqueued
<1>5. CASE Flushes(n)
  <2>1. Len(Enqueued(n)) > PageSize
    BY <1>5 DEF Flushes
  <2>2. FlushedPage(n) \in Seq(Byte) /\ Len(FlushedPage(n)) = PageSize
    BY <1>0, <1>4, <2>1, FlashSizes DEF FlushedPage
  <2>3. Remainder(n) \in Seq(Byte) /\ Len(Remainder(n)) = Len(Enqueued(n)) - PageSize
    BY <1>0, <1>4, <2>1, FlashSizes DEF Remainder
  <2> QED
    BY <1>0, <1>3, <1>4, <1>5, <2>2, <2>3, FlashSizes
<1>6. CASE ~Flushes(n)
  BY <1>0, <1>3, <1>4, <1>6, FlashSizes DEF Flushes
<1> QED
  BY <1>5, <1>6

LEMMA TypeInit == Init => TInv
<1> SUFFICES ASSUME Init PROVE TInv
  OBVIOUS
<1>1. \A a \in Addr : a \in 0..MaxSent
  BY FlashSizes DEF Addr
<1>2. flash \in [Addr -> Byte]
  <2>1. CASE flash = [a \in Addr |-> Erased]
    BY <2>1, Bytes
  <2>2. CASE flash = [a \in Addr |-> ByteOf(0, a)]
    <3>1. 0 \in 0..MaxImages
      BY UpdateAssumption
    <3> QED
      BY <1>1, <2>2, <3>1, Bytes
  <2> QED
    BY <2>1, <2>2 DEF Init
<1>3. mDFU = FreshDFU
  BY DEF Init
<1>4. mDFU \in DFUContext /\ mDFU.buffer \in Seq(Byte) /\ Len(mDFU.buffer) <= PageSize
      /\ mDFU.current_write_addr \in PageStarts /\ mDFU.current_read_addr \in 0..AppSize
  BY <1>3, FreshType DEF DFUContext
<1>5. /\ -1 \in -1..(Rows - 1) /\ -1 \in -1..CountDown /\ 0 \in 0..MaxImages
      /\ 0 \in 0..AppSize /\ 0 \in 0..MaxLosses
  BY FlashSizes, NvmAssumption, UpdateAssumption
<1> QED
  BY <1>2, <1>4, <1>5 DEF Init, TInv, TypeOK, NoRow, Off

(* TypeOK in two parts: what the flash and the DFU context hold, and the   *)
(* rest.                                                                   *)
StoreOK ==
  /\ flash \in [Addr -> Byte]
  /\ mDFU \in DFUContext /\ Len(mDFU.buffer) <= PageSize

RestOK ==
  /\ eraseRow \in -1..(Rows - 1)
  /\ fw_mode \in {"APP", "DFU", "invalid"} /\ countdown \in -1..CountDown
  /\ mode \in {"reset", "dfu", "app"} /\ cause \in {"syst", "other"}
  /\ pin \in BOOLEAN /\ err \in {"NONE", "NO_MEMORY", "PARAMETER"}
  /\ hPhase \in {"start", "write", "done", "verify", "leave", "wait"}
  /\ image \in 0..MaxImages /\ size \in 0..AppSize
  /\ sent \in Nat /\ checked \in Nat
  /\ mismatch \in BOOLEAN /\ losses \in 0..MaxLosses

LEMMA TypeParts == TInv <=> StoreOK /\ RestOK
BY DEF TInv, TypeOK, DFUContext, StoreOK, RestOK

LEMMA RestoreType ==
  ASSUME StoreOK, NEW why, Restart(why)
  PROVE  mDFU' \in DFUContext /\ Len(mDFU'.buffer) <= PageSize
BY FreshType DEF Restart

LEMMA StoreStep == TInv /\ [Next]_vars => StoreOK'
<1> SUFFICES ASSUME TInv, [Next]_vars PROVE StoreOK'
  OBVIOUS
<1>0. /\ StoreOK /\ flash \in [Addr -> Byte] /\ mDFU \in DFUContext
      /\ mDFU.current_write_addr \in PageStarts /\ mDFU.current_write_addr \in Nat
      /\ mDFU.buffer \in Seq(Byte)
      /\ mDFU.current_read_addr \in 0..AppSize
  BY TypeParts, PageStartsNat DEF StoreOK, DFUContext
<1>1. CASE UNCHANGED <<flash, mDFU>>
  BY <1>0, <1>1 DEF StoreOK
<1>2. CASE Sof
  BY <1>0, <1>1, <1>2, RestoreType DEF Sof, StoreOK
<1>3. CASE DfuStart
  BY <1>0, <1>3, FreshType DEF DfuStart, StoreOK
<1>4. CASE EraseNextRow
  BY <1>0, <1>4, EraseType DEF EraseNextRow, StoreOK
<1>5. ASSUME NEW n \in 1..MaxPacket, DfuWriteData(n) PROVE StoreOK'
  <2>1. HostSends(n)
    BY <1>5 DEF DfuWriteData
  <2>2. CASE ~Accepts(n)
    BY <1>1, <1>5, <2>2 DEF DfuWriteData
  <2>3. CASE Accepts(n) /\ Flushes(n)
    <3>1. flash' = WriteBuffer(flash, mDFU.current_write_addr, FlushedPage(n))
      BY <1>5, <2>3 DEF DfuWriteData
    <3>2. mDFU' = [mDFU EXCEPT !.current_write_addr = @ + PageSize, !.buffer = Remainder(n)]
      BY <1>5, <2>3 DEF DfuWriteData
    <3>3. flash' \in [Addr -> Byte]
      BY <1>0, <2>1, <2>3, <3>1, EnqueuedType, WriteType
    <3>4. mDFU.current_write_addr < AppSize
      BY <1>0, <2>3, FlashSizes DEF Accepts
    <3>5. mDFU.current_write_addr + PageSize \in PageStarts
      BY <1>0, <3>4, NextPage
    <3>6. Remainder(n) \in Seq(Byte) /\ Len(Remainder(n)) <= PageSize
      BY <2>1, <2>3, EnqueuedType
    <3> QED
      BY <1>0, <3>2, <3>3, <3>5, <3>6 DEF StoreOK, DFUContext
  <2>4. CASE Accepts(n) /\ ~Flushes(n)
    <3>1. mDFU' = [mDFU EXCEPT !.buffer = Enqueued(n)] /\ flash' = flash
      BY <1>5, <2>4 DEF DfuWriteData
    <3>2. Enqueued(n) \in Seq(Byte) /\ Len(Enqueued(n)) <= PageSize
      BY <2>1, <2>4, EnqueuedType
    <3> QED
      BY <1>0, <3>1, <3>2 DEF StoreOK, DFUContext
  <2> QED
    BY <2>2, <2>3, <2>4
<1>6. CASE DfuDoneWriting
  BY <1>0, <1>6, WriteType, FreshType DEF DfuDoneWriting, StoreOK
<1>7. ASSUME NEW n \in 1..MaxPacket, DfuReadData(n) PROVE StoreOK'
  <2>1. mDFU' = [mDFU EXCEPT !.current_read_addr = mDFU.current_read_addr + NumToRead(n)]
        /\ flash' = flash
    BY <1>7 DEF DfuReadData
  <2>2. mDFU.current_read_addr + NumToRead(n) \in 0..AppSize
    BY <1>0, FlashSizes DEF NumToRead
  <2> QED
    BY <1>0, <2>1, <2>2 DEF StoreOK, DFUContext
<1>8. CASE DfuResetReadPtr
  <2>1. mDFU' = [mDFU EXCEPT !.current_read_addr = 0] /\ flash' = flash
    BY <1>8 DEF DfuResetReadPtr
  <2>2. 0 \in 0..AppSize
    BY FlashSizes
  <2> QED
    BY <1>0, <2>1, <2>2 DEF StoreOK, DFUContext
<1>9. CASE PowerLoss
  BY <1>0, <1>9, RestoreType DEF PowerLoss, PowerFails, StoreOK
<1>10. CASE PowerLossErasing
  BY <1>0, <1>10, RestoreType, EraseType DEF PowerLossErasing, PowerFails, StoreOK
<1>11. CASE PowerLossWriting
  <2>1. mDFU' \in DFUContext /\ Len(mDFU'.buffer) <= PageSize
    BY <1>0, <1>11, RestoreType DEF PowerLossWriting, PowerFails
  <2>2. ASSUME NEW done, NEW n \in 1..MaxPacket, HostSends(n), Flushes(n)
        PROVE  TornWrite(flash, mDFU.current_write_addr, FlushedPage(n), done)
                 \in [Addr -> Byte]
    BY <1>0, <2>2, EnqueuedType, TornType
  <2>3. ASSUME NEW done
        PROVE  TornWrite(flash, mDFU.current_write_addr, mDFU.buffer, done)
                 \in [Addr -> Byte]
    BY <1>0, TornType
  <2>4. flash' \in [Addr -> Byte]
    BY <1>11, <2>2, <2>3 DEF PowerLossWriting
  <2> QED
    BY <2>1, <2>4 DEF StoreOK
<1> QED
  BY <1>1, <1>2, <1>3, <1>4, <1>5, <1>6, <1>7, <1>8, <1>9, <1>10, <1>11
  DEF Next, Boot, DfuStartRefused, HostGoesOn, DfuReset, vars, deviceVars

LEMMA RestStep == TInv /\ [Next]_vars => RestOK'
<1> SUFFICES ASSUME RestOK, [Next]_vars PROVE RestOK'
  BY TypeParts
<1>a. /\ CountDown \in Nat /\ CountDown >= 0 /\ Rows \in Nat /\ Rows >= 1
      /\ MaxImages \in Nat /\ MaxLosses \in Nat /\ AppSize \in Nat
  BY UpdateAssumption, NvmAssumption, FlashSizes
<1> USE <1>a DEF RestOK, NoRow, Off
<1>1. ASSUME NEW why \in {"syst", "other"}, Restart(why),
             fw_mode' \in {"APP", "DFU", "invalid"}, losses' \in 0..MaxLosses
      PROVE  RestOK'
  BY <1>1 DEF Restart
<1>2. CASE Boot
  BY <1>2 DEF Boot, KeptMode, hostVars
<1>3. CASE Sof
  BY <1>1, <1>3 DEF Sof, hostVars
<1>4. CASE DfuStart
  <2>1. size' \in 0..AppSize
    BY <1>4, UpdateAssumption DEF DfuStart
  <2> QED
    BY <1>4, <2>1 DEF DfuStart
<1>5. CASE EraseNextRow \/ DfuStartRefused
  BY <1>5 DEF EraseNextRow, DfuStartRefused, deviceVars, hostVars
<1>6. ASSUME NEW n \in 1..MaxPacket, DfuWriteData(n) PROVE RestOK'
  <2>1. n \in Nat
    BY FlashSizes
  <2>2. sent' \in Nat /\ hPhase' \in {"start", "write", "done", "verify", "leave", "wait"}
        /\ err' \in {"NONE", "NO_MEMORY", "PARAMETER"}
    BY <1>6, <2>1 DEF DfuWriteData
  <2> QED
    BY <1>6, <2>2 DEF DfuWriteData
<1>7. CASE DfuDoneWriting \/ DfuResetReadPtr
  BY <1>7 DEF DfuDoneWriting, DfuResetReadPtr
<1>8. ASSUME NEW n \in 1..MaxPacket, DfuReadData(n) PROVE RestOK'
  <2>1. n \in Nat
    BY FlashSizes
  <2>2. /\ checked' = checked + n \/ checked' = checked
        /\ hPhase' = "leave" \/ hPhase' = hPhase
    BY <1>8, Zenon DEF DfuReadData
  <2>3. mismatch' \in BOOLEAN
    BY <1>8, Zenon DEF DfuReadData
  <2>4. UNCHANGED <<eraseRow, fw_mode, countdown, mode, cause, pin, image, size, sent, losses>>
        /\ err' = "NONE"
    BY <1>8, Zenon DEF DfuReadData
  <2> QED
    BY <2>1, <2>2, <2>3, <2>4
<1>9. ASSUME NEW m, DfuReset(m) PROVE RestOK'
  BY <1>9 DEF DfuReset
<1>10. CASE PowerLoss \/ PowerLossErasing \/ PowerLossWriting
  BY <1>1, <1>10 DEF PowerLoss, PowerLossErasing, PowerLossWriting, PowerFails
<1>11. CASE UNCHANGED vars
  BY <1>11 DEF vars, deviceVars, hostVars
<1> QED
  BY <1>2, <1>3, <1>4, <1>5, <1>6, <1>7, <1>8, <1>9, <1>10, <1>11 DEF Next, HostGoesOn

LEMMA TypeStep == TInv /\ [Next]_vars => TInv'
<1>1. TInv' <=> StoreOK' /\ RestOK'
  BY TypeParts, PTL
<1> QED
  BY StoreStep, RestStep, <1>1

(* Whatever the order in which a host sends the commands, for any flash    *)
(* and packet size: nvm_write_buffer is given the address of a page or the *)
(* end of the flash and never more than a page, and no read leaves the     *)
(* flash.                                                                  *)
THEOREM TypeCorrect == Spec => []TypeOK
<1>1. TInv => TypeOK
  BY DEF TInv
<1> QED
  BY TypeInit, TypeStep, <1>1, PTL DEF Spec

-----------------------------------------------------------------------------
(* From here on the host keeps to the order of the commands.  Where it is, *)
(* and what the device is doing.                                           *)
Updating == hPhase \in {"write", "done", "verify", "leave"}

Phases ==
  /\ Updating => mode = "dfu"
  /\ eraseRow # NoRow => hPhase = "write" /\ sent = 0 /\ mDFU = FreshDFU
  /\ hPhase = "write" => sent <= size
  /\ hPhase = "done" => sent = size

(* The rows below eraseRow are erased.                                     *)
ErasedBelow ==
  eraseRow # NoRow => \A a \in Addr : a < eraseRow * RowSize => flash[a] = Erased

(* What was sent is in the flash, and the host has come as far with its    *)
(* reading as the device.                                                  *)
ReadBack ==
  hPhase \in {"verify", "leave"} =>
    /\ \A a \in Addr : a < size => flash[a] = ByteOf(image, a)
    /\ checked = mDFU.current_read_addr /\ checked <= size

(* No two images are in the flash at the same time, running or not: an     *)
(* image is written only over what was erased to the last row.             *)
OneImage ==
  \A a, b \in Addr : IsImageByte(flash[a]) /\ IsImageByte(flash[b]) =>
    flash[a].img = flash[b].img

UInv == TInv /\ Phases /\ ErasedBelow /\ StreamStored /\ ReadBack /\ OneImage /\ VerifyPasses

Within(f, img) == \A a \in Addr : f[a].img \in {img, -1}

LEMMA WithinOne ==
  ASSUME NEW f, NEW img, Within(f, img)
  PROVE  \A a, b \in Addr : IsImageByte(f[a]) /\ IsImageByte(f[b]) => f[a].img = f[b].img
BY DEF Within, IsImageByte

LEMMA ByteFacts ==
  /\ \A img, k : ByteOf(img, k).img = img
  /\ Erased.img = -1 /\ Zero.img = -1 /\ Junk.img = -1
  /\ \A img \in Nat : \A k : ByteOf(img, k) # Erased
BY DEF ByteOf, Erased, Zero, Junk

-----------------------------------------------------------------------------
(* The flash while an image is being written, and what writing the next    *)
(* bytes of it makes of it.                                                *)
Prefix(f, img, addr) ==
  \A a \in Addr : f[a] = IF a < addr THEN ByteOf(img, a) ELSE Erased

Follows(data, img, addr) == \A i \in 1..Len(data) : data[i] = ByteOf(img, addr + i - 1)

LEMMA Stored ==
  ASSUME NEW f \in [Addr -> Byte], NEW img \in 0..MaxImages, NEW addr \in Nat,
         NEW data \in Seq(Byte), Prefix(f, img, addr), Follows(data, img, addr)
  PROVE  /\ Within(WriteBuffer(f, addr, data), img)
         /\ \A a \in Addr : a < addr + Len(data) =>
              WriteBuffer(f, addr, data)[a] = ByteOf(img, a)
         /\ Len(data) % 2 = 0 => Prefix(WriteBuffer(f, addr, data), img, addr + Len(data))
<1> DEFINE words == Words(data)
           g == WriteBuffer(f, addr, data)
<1>0. /\ words \in Seq(Byte) /\ Len(words) \in Nat /\ Len(words) >= Len(data)
      /\ \A i \in 1..Len(data) : words[i] = data[i]
      /\ \A i \in 1..Len(words) : i > Len(data) => words[i] = Zero
      /\ Len(data) % 2 = 0 => words = data
  BY WordsType, Zenon
<1>len. Len(data) \in Nat
  OBVIOUS
<1>1. \A a \in Addr : g[a] = IF addr <= a /\ a < addr + Len(words)
                               THEN Programmed(f[a], words[a - addr + 1]) ELSE f[a]
  BY DEF WriteBuffer
<1>2. Addr \subseteq Nat /\ img \in Nat
  BY FlashSizes, UpdateAssumption DEF Addr
<1> HIDE DEF words, g
<1>3. ASSUME NEW a \in Addr, a < addr
      PROVE  g[a] = ByteOf(img, a)
  BY <1>1, <1>2, <1>3 DEF Prefix
<1>4. ASSUME NEW a \in Addr, addr <= a, a < addr + Len(data)
      PROVE  g[a] = ByteOf(img, a)
  <2>1. a - addr + 1 \in 1..Len(data) /\ a < addr + Len(words) /\ ~(a < addr)
    BY <1>0, <1>len, <1>2, <1>4
  <2>2. words[a - addr + 1] = ByteOf(img, addr + (a - addr + 1) - 1)
    BY <1>0, <1>len, <2>1 DEF Follows
  <2>3. addr + (a - addr + 1) - 1 = a
    BY <1>2
  <2>4. f[a] = Erased
    BY <2>1 DEF Prefix
  <2>5. ByteOf(img, a) # Erased
    BY <1>2, ByteFacts
  <2>6. Programmed(Erased, ByteOf(img, a)) = ByteOf(img, a)
    BY <2>5 DEF Programmed
  <2> QED
    BY <1>1, <1>4, <2>1, <2>2, <2>3, <2>4, <2>6
<1>5. ASSUME NEW a \in Addr, a >= addr + Len(data)
      PROVE  g[a] = Erased \/ (a < addr + Len(words) /\ g[a] = Zero)
  <2>0. ~(a < addr) /\ addr <= a
    BY <1>0, <1>len, <1>2, <1>5
  <2>1. f[a] = Erased
    BY <2>0 DEF Prefix
  <2>2. CASE a < addr + Len(words)
    <3>1. a - addr + 1 \in 1..Len(words) /\ a - addr + 1 > Len(data)
      BY <1>0, <1>len, <1>2, <1>5, <2>0, <2>2
    <3>2. words[a - addr + 1] = Zero
      BY <1>0, <1>len, <3>1
    <3>3. Programmed(Erased, Zero) = Zero
      BY DEF Programmed, Erased, Zero
    <3> QED
      BY <1>1, <2>0, <2>1, <2>2, <3>2, <3>3
  <2>3. CASE ~(a < addr + Len(words))
    BY <1>1, <2>1, <2>3
  <2> QED
    BY <2>2, <2>3
<1>6. \A a \in Addr : a < addr + Len(data) => g[a] = ByteOf(img, a)
  BY <1>0, <1>len, <1>2, <1>3, <1>4
<1>7. Within(g, img)
  <2> SUFFICES ASSUME NEW a \in Addr PROVE g[a].img \in {img, -1}
    BY DEF Within
  <2>1. a < addr + Len(data) \/ a >= addr + Len(data)
    BY <1>0, <1>len, <1>2
  <2> QED
    BY <1>5, <1>6, <2>1, ByteFacts
<1>8. ASSUME Len(data) % 2 = 0 PROVE Prefix(g, img, addr + Len(data))
  <2> SUFFICES ASSUME NEW a \in Addr
               PROVE  g[a] = IF a < addr + Len(data) THEN ByteOf(img, a) ELSE Erased
    BY DEF Prefix
  <2>1. CASE a < addr + Len(data)
    BY <1>6, <2>1
  <2>2. CASE ~(a < addr + Len(data))
    <3>1. a >= addr + Len(data) /\ words = data
      BY <1>0, <1>len, <1>2, <1>8, <2>2
    <3> QED
      BY <1>5, <2>2, <3>1
  <2> QED
    BY <2>1, <2>2
<1> QED
  BY <1>6, <1>7, <1>8 DEF g

(* StreamStored in these words.                                            *)
LEMMA Streaming ==
  ASSUME UInv, InDfu, hPhase \in {"write", "done"}
  PROVE  /\ flash \in [Addr -> Byte] /\ image \in 0..MaxImages
         /\ mDFU.current_write_addr \in Nat /\ mDFU.current_write_addr \in PageStarts
         /\ mDFU.buffer \in Seq(Byte) /\ Len(mDFU.buffer) \in Nat
         /\ sent = mDFU.current_write_addr + Len(mDFU.buffer)
         /\ Prefix(flash, image, mDFU.current_write_addr)
         /\ Follows(mDFU.buffer, image, mDFU.current_write_addr)
<1>1. TypeOK /\ StreamStored
  BY DEF UInv, TInv
<1>2. /\ flash \in [Addr -> Byte] /\ image \in 0..MaxImages
      /\ mDFU.current_write_addr \in PageStarts /\ mDFU.buffer \in Seq(Byte)
  BY <1>1 DEF TypeOK
<1>3. Len(mDFU.buffer) \in Nat /\ DOMAIN mDFU.buffer = 1..Len(mDFU.buffer)
  BY <1>2
<1>4. /\ sent = mDFU.current_write_addr + Len(mDFU.buffer)
      /\ Prefix(flash, image, mDFU.current_write_addr)
  BY <1>1 DEF StreamStored, Prefix
<1>5. Follows(mDFU.buffer, image, mDFU.current_write_addr)
  BY <1>1, <1>3 DEF StreamStored, Follows
<1> QED
  BY <1>2, <1>3, <1>4, <1>5, PageStartsNat

LEMMA EnqueuedBytes ==
  ASSUME UInv, Disciplined = TRUE, NEW n \in 1..MaxPacket, HostSends(n)
  PROVE  /\ Follows(Enqueued(n), image, mDFU.current_write_addr)
         /\ Flushes(n) =>
              /\ Follows(FlushedPage(n), image, mDFU.current_write_addr)
              /\ Follows(Remainder(n), image, mDFU.current_write_addr + PageSize)
<1> DEFINE addr == mDFU.current_write_addr
           buf == mDFU.buffer
           data == Data(n)
           all == Enqueued(n)
<1>0. InDfu /\ hPhase = "write"
  BY DEF HostSends, Turn
<1>1. /\ addr \in Nat /\ buf \in Seq(Byte) /\ Len(buf) \in Nat /\ sent = addr + Len(buf)
      /\ Follows(buf, image, addr)
  BY <1>0, Streaming
<1>2. /\ data \in Seq(Byte) /\ Len(data) = n /\ all = buf \o data
      /\ all \in Seq(Byte) /\ Len(all) = Len(buf) + n
  BY EnqueuedType DEF UInv, Enqueued
<1>3. \A i \in 1..n : data[i] = ByteOf(image, sent + i - 1)
  BY DEF Data
<1>4. n \in Nat /\ PageSize \in Nat
  BY FlashSizes
<1> HIDE DEF addr, buf, data, all
<1>5. ASSUME NEW i \in 1..Len(all)
      PROVE  all[i] = ByteOf(image, addr + i - 1)
  <2>1. CASE i <= Len(buf)
    <3>1. i \in 1..Len(buf) /\ all[i] = buf[i]
      BY <1>1, <1>2, <1>4, <2>1
    <3> QED
      BY <1>1, <3>1 DEF Follows
  <2>2. CASE i > Len(buf)
    <3>1. i - Len(buf) \in 1..n /\ all[i] = data[i - Len(buf)]
      BY <1>1, <1>2, <1>4, <2>2
    <3>2. sent + (i - Len(buf)) - 1 = addr + i - 1
      BY <1>1, <1>4
    <3> QED
      BY <1>3, <3>1, <3>2
  <2> QED
    BY <1>1, <2>1, <2>2
<1>6. Follows(all, image, addr)
  BY <1>5 DEF Follows
<1>7. ASSUME Flushes(n)
      PROVE  /\ Follows(FlushedPage(n), image, addr)
             /\ Follows(Remainder(n), image, addr + PageSize)
  <2>1. Len(all) > PageSize
    BY <1>7 DEF Flushes, all
  <2>2. /\ FlushedPage(n) = SubSeq(all, 1, PageSize)
        /\ Remainder(n) = SubSeq(all, PageSize + 1, Len(all))
    BY DEF FlushedPage, Remainder, all
  <2>3. /\ Len(FlushedPage(n)) = PageSize
        /\ \A i \in 1..PageSize : FlushedPage(n)[i] = all[i] /\ i \in 1..Len(all)
    BY <1>1, <1>2, <1>4, <2>1, <2>2
  <2>len. Len(all) \in Nat
    BY <1>2
  <2>rest. Len(Remainder(n)) = Len(all) - PageSize
    BY <1>2, <1>4, <2>1, <2>2, <2>len
  <2>each. ASSUME NEW i \in 1..(Len(all) - PageSize)
         PROVE  Remainder(n)[i] = all[PageSize + i] /\ PageSize + i \in 1..Len(all)
    BY <1>2, <1>4, <2>1, <2>2, <2>len
  <2>4. /\ Len(Remainder(n)) = Len(all) - PageSize
        /\ \A i \in 1..(Len(all) - PageSize) :
             Remainder(n)[i] = all[PageSize + i] /\ PageSize + i \in 1..Len(all)
    BY <2>rest, <2>each
  <2>5. Follows(FlushedPage(n), image, addr)
    BY <1>5, <2>3 DEF Follows
  <2>6. ASSUME NEW i \in 1..Len(Remainder(n))
        PROVE  Remainder(n)[i] = ByteOf(image, (addr + PageSize) + i - 1)
    <3>1. Remainder(n)[i] = ByteOf(image, addr + (PageSize + i) - 1)
      BY <1>5, <2>4
    <3>2. addr + (PageSize + i) - 1 = (addr + PageSize) + i - 1
      BY <1>1, <1>4
    <3> QED
      BY <3>1, <3>2
  <2>7. Follows(Remainder(n), image, addr + PageSize)
    BY <2>6 DEF Follows
  <2> QED
    BY <2>5, <2>7
<1> QED
  BY <1>6, <1>7 DEF addr, all

-----------------------------------------------------------------------------
LEMMA UpdateInit == Init => UInv
<1> SUFFICES ASSUME Init PROVE UInv
  OBVIOUS
<1>1. TInv
  BY TypeInit
<1>2. Phases /\ ErasedBelow /\ StreamStored /\ ReadBack /\ VerifyPasses
  BY DEF Init, Phases, Updating, ErasedBelow, StreamStored, ReadBack, VerifyPasses, NoRow
<1>3. Within(flash, 0)
  BY ByteFacts DEF Init, Within
<1> QED
  BY <1>1, <1>2, <1>3, WithinOne DEF UInv, OneImage

LEMMA PhasesStep == Disciplined = TRUE /\ UInv /\ [Next]_vars => Phases'
<1> SUFFICES ASSUME Disciplined = TRUE, UInv, [Next]_vars PROVE Phases'
  OBVIOUS
<1>0. /\ Phases /\ sent \in Nat /\ size \in Nat /\ eraseRow \in Int
      /\ hPhase \in {"start", "write", "done", "verify", "leave", "wait"}
  BY FlashSizes, NvmAssumption DEF UInv, TInv, TypeOK
<1> USE DEF Updating, NoRow
<1>1. ASSUME NEW why, Restart(why) PROVE Phases'
  BY <1>1 DEF Restart, Phases
<1>2. CASE Boot
  BY <1>0, <1>2 DEF Boot, Phases, hostVars
<1>3. CASE Sof
  BY <1>0, <1>1, <1>3 DEF Sof, Phases, hostVars
<1>4. CASE DfuStartRefused
  BY <1>0, <1>4 DEF DfuStartRefused, Phases, deviceVars, hostVars
<1>5. CASE DfuStart
  <2>1. size' \in Nat
    BY <1>5, UpdateAssumption DEF DfuStart
  <2> QED
    BY <1>5, <2>1 DEF DfuStart, InDfu, Phases
<1>6. CASE EraseNextRow
  BY <1>0, <1>6 DEF EraseNextRow, Phases, hostVars
<1>7. ASSUME NEW n \in 1..MaxPacket, DfuWriteData(n) PROVE Phases'
  BY <1>0, <1>7, FlashSizes DEF DfuWriteData, HostSends, InDfu, Turn, Phases
<1>8. CASE DfuDoneWriting
  BY <1>0, <1>8 DEF DfuDoneWriting, InDfu, Phases
<1>9. ASSUME NEW n \in 1..MaxPacket, DfuReadData(n) PROVE Phases'
  <2>1. hPhase = "verify" /\ hPhase' \in {"verify", "leave"} /\ eraseRow = NoRow
        /\ UNCHANGED <<eraseRow, mode>>
    BY <1>9, Zenon DEF DfuReadData, InDfu, Turn
  <2> QED
    BY <1>0, <2>1 DEF Phases
<1>10. CASE DfuResetReadPtr
  BY <1>0, <1>10 DEF DfuResetReadPtr, InDfu, Turn, Phases
<1>11. ASSUME NEW m, DfuReset(m) PROVE Phases'
  BY <1>0, <1>11 DEF DfuReset, InDfu, Turn, Phases
<1>12. CASE PowerLoss \/ PowerLossErasing \/ PowerLossWriting
  BY <1>1, <1>12 DEF PowerLoss, PowerLossErasing, PowerLossWriting, PowerFails
<1>13. CASE UNCHANGED vars
  BY <1>0, <1>13 DEF vars, deviceVars, hostVars, Phases
<1> QED
  BY <1>2, <1>3, <1>4, <1>5, <1>6, <1>7, <1>8, <1>9, <1>10, <1>11, <1>12, <1>13
  DEF Next, HostGoesOn

-----------------------------------------------------------------------------
(* Rows are erased one after the other, and after the last one all is.     *)
LEMMA RowDiv ==
  ASSUME NEW a \in Nat, NEW r \in Nat, NEW s \in Nat \ {0},
         r * s <= a, a < (r + 1) * s
  PROVE  a \div s = r
<1>1. (r + 1) * s = r * s + s
  OBVIOUS
<1>2. PICK q \in Int : q = a \div s
  OBVIOUS
<1>3. q * s <= a /\ a < q * s + s /\ q \in Nat
  BY <1>2
<1>4. q * s < (r + 1) * s /\ r * s < (q + 1) * s
  BY <1>1, <1>3
<1>5. q < r + 1 /\ r < q + 1
  BY <1>3, <1>4, Smaller
<1> QED
  BY <1>2, <1>3, <1>5

LEMMA RowErased ==
  ASSUME UInv, eraseRow # NoRow
  PROVE  \A a \in Addr : a < (eraseRow + 1) * RowSize =>
           EraseRow(flash, eraseRow)[a] = Erased
<1> SUFFICES ASSUME NEW a \in Addr, a < (eraseRow + 1) * RowSize
             PROVE  EraseRow(flash, eraseRow)[a] = Erased
  OBVIOUS
<1>1. eraseRow \in Nat /\ RowSize \in Nat \ {0} /\ a \in Nat
  BY FlashSizes, NvmAssumption DEF UInv, TInv, TypeOK, NoRow, Addr
<1>2. eraseRow * RowSize \in Nat
  BY <1>1
<1>3. CASE a < eraseRow * RowSize
  BY <1>3 DEF UInv, ErasedBelow, EraseRow
<1>4. CASE eraseRow * RowSize <= a
  <2>1. a \div RowSize = eraseRow
    BY <1>1, <1>4, RowDiv
  <2> QED
    BY <2>1 DEF EraseRow, RowOf
<1> QED
  BY <1>1, <1>2, <1>3, <1>4

LEMMA ErasedStep == UInv /\ [Next]_vars => ErasedBelow'
<1> SUFFICES ASSUME UInv, [Next]_vars PROVE ErasedBelow'
  OBVIOUS
<1>0. ErasedBelow /\ flash \in [Addr -> Byte]
  BY DEF UInv, TInv, TypeOK
<1>1. CASE eraseRow' = NoRow
  BY <1>1 DEF ErasedBelow, NoRow
<1>2. CASE UNCHANGED <<flash, eraseRow>>
  BY <1>0, <1>2 DEF ErasedBelow, NoRow
<1>3. CASE DfuStart
  <2>1. \A a \in Addr : ~(a < 0 * RowSize)
    BY FlashSizes DEF Addr
  <2> QED
    BY <1>3, <2>1 DEF DfuStart, ErasedBelow
<1>4. CASE EraseNextRow
  <2>1. CASE eraseRow' = eraseRow + 1
    BY <1>0, <1>4, <2>1, RowErased DEF EraseNextRow, ErasedBelow
  <2> QED
    BY <1>1, <1>4, <2>1 DEF EraseNextRow
<1>5. CASE Sof \/ PowerLoss \/ PowerLossErasing \/ PowerLossWriting
  BY <1>1, <1>2, <1>5
  DEF Sof, PowerLoss, PowerLossErasing, PowerLossWriting, PowerFails, Restart
<1>6. ASSUME NEW n \in 1..MaxPacket, DfuWriteData(n) PROVE ErasedBelow'
  BY <1>1, <1>6 DEF DfuWriteData, HostSends, InDfu
<1>7. ASSUME NEW n \in 1..MaxPacket, DfuReadData(n) PROVE ErasedBelow'
  BY <1>2, <1>7 DEF DfuReadData
<1>8. CASE DfuDoneWriting
  BY <1>1, <1>8 DEF DfuDoneWriting, InDfu
<1> QED
  BY <1>2, <1>3, <1>4, <1>5, <1>6, <1>7, <1>8
  DEF Next, Boot, DfuStartRefused, HostGoesOn, DfuResetReadPtr, DfuReset, vars, deviceVars

-----------------------------------------------------------------------------
(* The state of an image being sent, from what Streaming is told of.       *)
LEMMA StreamedNow ==
  ASSUME mDFU' \in DFUContext,
         sent' = mDFU'.current_write_addr + Len(mDFU'.buffer),
         Prefix(flash', image', mDFU'.current_write_addr),
         Follows(mDFU'.buffer, image', mDFU'.current_write_addr)
  PROVE  StreamStored'
<1>1. DOMAIN mDFU'.buffer = 1..Len(mDFU'.buffer)
  BY DEF DFUContext
<1> QED
  BY <1>1 DEF StreamStored, Prefix, Follows

LEMMA StreamStep == Disciplined = TRUE /\ UInv /\ [Next]_vars => StreamStored'
<1> SUFFICES ASSUME Disciplined = TRUE, UInv, [Next]_vars PROVE StreamStored'
  OBVIOUS
<1>0. /\ TInv /\ TInv' /\ StreamStored /\ Phases /\ mDFU \in DFUContext /\ mDFU' \in DFUContext
      /\ flash' \in [Addr -> Byte]
  BY TypeStep, TypeParts DEF UInv, TInv, TypeOK
<1>1. CASE hPhase' \notin {"write", "done"}
  BY <1>1 DEF StreamStored
<1>2. CASE UNCHANGED <<flash, mDFU, eraseRow, mode, hPhase, image, sent>>
  BY <1>0, <1>2 DEF StreamStored, InDfu
<1>3. CASE eraseRow' # NoRow
  BY <1>3 DEF StreamStored, InDfu, NoRow
<1>4. CASE Boot
  <2>1. hPhase' = hPhase /\ mode = "reset"
    BY <1>4 DEF Boot, hostVars
  <2> QED
    BY <1>0, <1>1, <2>1 DEF Phases, Updating
<1>5. CASE Sof
  BY <1>1, <1>2, <1>5 DEF Sof, Restart, hostVars
<1>6. CASE DfuStart
  BY <1>3, <1>6 DEF DfuStart, NoRow
<1>7. CASE EraseNextRow
  <2>1. CASE eraseRow + 1 < Rows
    <3>1. eraseRow' = eraseRow + 1 /\ eraseRow \in Nat
      BY <1>0, <1>7, <2>1, NvmAssumption DEF EraseNextRow, TInv, TypeOK, NoRow
    <3> QED
      BY <1>3, <3>1 DEF NoRow
  <2>2. CASE ~(eraseRow + 1 < Rows)
    <3>1. eraseRow \in Nat /\ eraseRow + 1 = Rows /\ eraseRow # NoRow
      BY <1>0, <1>7, <2>2, NvmAssumption DEF EraseNextRow, TInv, TypeOK, NoRow
    <3>2. (eraseRow + 1) * RowSize = AppSize
      BY <3>1, FlashSizes, NvmAssumption DEF AppSize
    <3>3. \A a \in Addr : a < (eraseRow + 1) * RowSize
      BY <3>2, FlashSizes DEF Addr
    <3>4. \A a \in Addr : flash'[a] = Erased
      BY <1>7, <3>1, <3>3, RowErased DEF EraseNextRow
    <3>5. sent = 0 /\ mDFU = FreshDFU /\ UNCHANGED <<sent, image, mDFU>>
      BY <1>0, <1>7, <3>1 DEF Phases, EraseNextRow, hostVars
    <3>6. /\ mDFU'.current_write_addr = 0 /\ Len(mDFU'.buffer) = 0
      BY <3>5, FreshType
    <3>7. Prefix(flash', image', 0)
      <4>1. \A a \in Addr : ~(a < 0)
        BY FlashSizes DEF Addr
      <4> QED
        BY <3>4, <4>1 DEF Prefix
    <3>8. Follows(mDFU'.buffer, image', 0)
      BY <3>6 DEF Follows
    <3> QED
      BY <1>0, <3>5, <3>6, <3>7, <3>8, StreamedNow
  <2> QED
    BY <2>1, <2>2
<1>8. ASSUME NEW n \in 1..MaxPacket, DfuWriteData(n) PROVE StreamStored'
  <2>0. HostSends(n) /\ InDfu /\ hPhase \in {"write", "done"}
    BY <1>8 DEF DfuWriteData, HostSends, Turn
  <2>1. /\ flash \in [Addr -> Byte] /\ image \in 0..MaxImages /\ image' = image
        /\ mDFU.current_write_addr \in Nat
        /\ mDFU.buffer \in Seq(Byte) /\ Len(mDFU.buffer) \in Nat
        /\ sent = mDFU.current_write_addr + Len(mDFU.buffer)
        /\ Prefix(flash, image, mDFU.current_write_addr)
        /\ n \in Nat /\ PageSize \in Nat
    <3>1. image' = image
      BY <1>8 DEF DfuWriteData
    <3>2. n \in Nat /\ PageSize \in Nat
      BY FlashSizes
    <3> QED
      BY <2>0, <3>1, <3>2, Streaming, Zenon
  <2>2. CASE ~Accepts(n)
    <3>1. UNCHANGED <<flash, mDFU, hPhase, sent>>
      BY <1>8, <2>2 DEF DfuWriteData
    <3>2. UNCHANGED <<eraseRow, mode, image>>
      BY <1>8 DEF DfuWriteData
    <3> QED
      BY <1>2, <3>1, <3>2
  <2>3. CASE Accepts(n) /\ Flushes(n)
    <3>1. /\ flash' = WriteBuffer(flash, mDFU.current_write_addr, FlushedPage(n))
          /\ mDFU' = [mDFU EXCEPT !.current_write_addr = @ + PageSize, !.buffer = Remainder(n)]
          /\ sent' = sent + n
      BY <1>8, <2>3 DEF DfuWriteData
    <3>2. /\ FlushedPage(n) \in Seq(Byte) /\ Len(FlushedPage(n)) = PageSize
          /\ Len(Remainder(n)) = Len(Enqueued(n)) - PageSize
          /\ Len(Enqueued(n)) = Len(mDFU.buffer) + n
      BY <1>0, <2>0, <2>3, EnqueuedType
    <3>3. /\ Follows(FlushedPage(n), image, mDFU.current_write_addr)
          /\ Follows(Remainder(n), image, mDFU.current_write_addr + PageSize)
      BY <2>0, <2>3, EnqueuedBytes
    <3>4. PageSize % 2 = 0
      BY NvmAssumption
    <3>5. Prefix(flash', image, mDFU.current_write_addr + PageSize)
      BY <2>1, <3>1, <3>2, <3>3, <3>4, Stored
    <3>6. /\ mDFU'.current_write_addr = mDFU.current_write_addr + PageSize
          /\ mDFU'.buffer = Remainder(n)
      BY <1>0, <3>1 DEF DFUContext
    <3>7. sent' = mDFU'.current_write_addr + Len(mDFU'.buffer)
      BY <2>1, <3>1, <3>2, <3>6
    <3> QED
      BY <1>0, <2>1, <3>3, <3>5, <3>6, <3>7, StreamedNow
  <2>4. CASE Accepts(n) /\ ~Flushes(n)
    <3>1. /\ flash' = flash /\ mDFU' = [mDFU EXCEPT !.buffer = Enqueued(n)]
          /\ sent' = sent + n
      BY <1>8, <2>4 DEF DfuWriteData
    <3>2. /\ mDFU'.current_write_addr = mDFU.current_write_addr
          /\ mDFU'.buffer = Enqueued(n)
      BY <1>0, <3>1 DEF DFUContext
    <3>3. /\ Len(Enqueued(n)) = Len(mDFU.buffer) + n
          /\ Follows(Enqueued(n), image, mDFU.current_write_addr)
      BY <2>0, EnqueuedType, EnqueuedBytes DEF UInv
    <3>4. sent' = mDFU'.current_write_addr + Len(mDFU'.buffer)
      BY <2>1, <3>1, <3>2, <3>3
    <3> QED
      BY <1>0, <2>1, <3>1, <3>2, <3>3, <3>4, StreamedNow
  <2> QED
    BY <2>2, <2>3, <2>4
<1>9. CASE DfuDoneWriting \/ DfuResetReadPtr
  BY <1>1, <1>9 DEF DfuDoneWriting, DfuResetReadPtr
<1>10. ASSUME NEW n \in 1..MaxPacket, DfuReadData(n) PROVE StreamStored'
  <2>1. hPhase = "verify" /\ hPhase' \in {"verify", "leave"}
    BY <1>10, Zenon DEF DfuReadData, InDfu, Turn
  <2> QED
    BY <1>1, <2>1
<1>11. ASSUME NEW m, DfuReset(m) PROVE StreamStored'
  BY <1>1, <1>2, <1>11 DEF DfuReset
<1>12. CASE PowerLoss \/ PowerLossErasing \/ PowerLossWriting
  BY <1>1, <1>12 DEF PowerLoss, PowerLossErasing, PowerLossWriting, PowerFails, Restart
<1>13. CASE DfuStartRefused \/ UNCHANGED vars
  BY <1>2, <1>13 DEF DfuStartRefused, vars, deviceVars, hostVars
<1> QED
  BY <1>4, <1>5, <1>6, <1>7, <1>8, <1>9, <1>10, <1>11, <1>12, <1>13 DEF Next, HostGoesOn

-----------------------------------------------------------------------------
LEMMA ReadStep == Disciplined = TRUE /\ UInv /\ [Next]_vars => ReadBack' /\ VerifyPasses'
<1> SUFFICES ASSUME Disciplined = TRUE, UInv, [Next]_vars PROVE ReadBack' /\ VerifyPasses'
  OBVIOUS
<1>0. /\ ReadBack /\ VerifyPasses /\ Phases
      /\ mDFU \in DFUContext /\ mDFU.current_read_addr \in 0..AppSize
      /\ checked \in Nat /\ size \in 0..AppSize /\ flash \in [Addr -> Byte]
      /\ AppSize \in Nat
  BY FlashSizes DEF UInv, TInv, TypeOK
<1>1. CASE hPhase' \notin {"verify", "leave"} /\ mismatch' = mismatch
  BY <1>0, <1>1 DEF ReadBack, VerifyPasses
<1>2. CASE UNCHANGED <<flash, mDFU, hPhase, image, size, checked, mismatch>>
  BY <1>0, <1>2 DEF ReadBack, VerifyPasses
<1>3. CASE Boot \/ DfuStartRefused
  BY <1>2, <1>3 DEF Boot, DfuStartRefused, deviceVars, hostVars
<1>4. CASE Sof
  BY <1>1, <1>2, <1>4 DEF Sof, Restart, hostVars
<1>5. CASE DfuStart
  BY <1>1, <1>5 DEF DfuStart
<1>6. CASE EraseNextRow
  <2>1. hPhase' = hPhase /\ mismatch' = mismatch /\ hPhase = "write"
    BY <1>0, <1>6 DEF EraseNextRow, hostVars, Phases
  <2> QED
    BY <1>1, <2>1
<1>7. ASSUME NEW n \in 1..MaxPacket, DfuWriteData(n) PROVE ReadBack' /\ VerifyPasses'
  <2>1. /\ hPhase = "write" /\ mismatch' = mismatch
        /\ hPhase' = "done" \/ hPhase' = hPhase
    BY <1>7, Zenon DEF DfuWriteData, HostSends, Turn
  <2> QED
    BY <1>1, <2>1
<1>8. CASE DfuDoneWriting
  <2>0. InDfu /\ hPhase = "done"
    BY <1>8 DEF DfuDoneWriting, Turn
  <2>1. /\ flash' = WriteBuffer(flash, mDFU.current_write_addr, mDFU.buffer)
        /\ mDFU' = FreshDFU /\ checked' = 0 /\ UNCHANGED <<image, size, mismatch>>
    BY <1>8 DEF DfuDoneWriting
  <2>2. size = mDFU.current_write_addr + Len(mDFU.buffer)
    BY <1>0, <2>0, Streaming DEF Phases
  <2>3. \A a \in Addr : a < size => flash'[a] = ByteOf(image, a)
    BY <2>0, <2>1, <2>2, Streaming, Stored
  <2> QED
    BY <1>0, <2>1, <2>3, FreshType DEF ReadBack, VerifyPasses
<1>9. ASSUME NEW n \in 1..MaxPacket, DfuReadData(n) PROVE ReadBack' /\ VerifyPasses'
  <2> DEFINE from == mDFU.current_read_addr
  <2>0. /\ hPhase = "verify" /\ checked + n <= size /\ n \in Nat
        /\ \A a \in Addr : a < size => flash[a] = ByteOf(image, a)
        /\ checked = from
    BY <1>0, <1>9, FlashSizes DEF DfuReadData, Turn, ReadBack
  <2>1. NumToRead(n) = n
    BY <1>0, <2>0 DEF NumToRead
  <2>2. /\ checked' = checked + n
        /\ mDFU' = [mDFU EXCEPT !.current_read_addr = from + n]
        /\ UNCHANGED <<flash, image, size>>
    BY <1>9, <2>0, <2>1, Zenon DEF DfuReadData
  <2>3. mismatch' = (mismatch \/ [i \in 1..n |-> flash[from + i - 1]]
                                   # [i \in 1..n |-> ByteOf(image, checked + i - 1)])
    BY <1>9, <2>0, <2>1, Zenon DEF DfuReadData
  <2>4. ASSUME NEW i \in 1..n
        PROVE  flash[from + i - 1] = ByteOf(image, checked + i - 1)
    <3>1. from + i - 1 \in Addr /\ from + i - 1 < size
      BY <1>0, <2>0 DEF Addr
    <3> QED
      BY <2>0, <3>1
  <2>5. [i \in 1..n |-> flash[from + i - 1]] = [i \in 1..n |-> ByteOf(image, checked + i - 1)]
    BY <2>4
  <2>6. VerifyPasses'
    BY <1>0, <2>3, <2>5, Zenon DEF VerifyPasses
  <2>7. mDFU'.current_read_addr = from + n
    BY <1>0, <2>2 DEF DFUContext
  <2>8. ReadBack'
    BY <2>0, <2>2, <2>7 DEF ReadBack
  <2> QED
    BY <2>6, <2>8
<1>10. CASE DfuResetReadPtr
  <2>1. /\ mDFU' = [mDFU EXCEPT !.current_read_addr = 0] /\ checked' = 0
        /\ UNCHANGED <<flash, image, size, mismatch>> /\ hPhase = "leave"
    BY <1>10 DEF DfuResetReadPtr, Turn
  <2>2. mDFU'.current_read_addr = 0
    BY <1>0, <2>1 DEF DFUContext
  <2> QED
    BY <1>0, <2>1, <2>2 DEF ReadBack, VerifyPasses
<1>11. ASSUME NEW m, DfuReset(m) PROVE ReadBack' /\ VerifyPasses'
  BY <1>1, <1>2, <1>11 DEF DfuReset
<1>12. CASE PowerLoss \/ PowerLossErasing \/ PowerLossWriting
  BY <1>1, <1>12 DEF PowerLoss, PowerLossErasing, PowerLossWriting, PowerFails, Restart
<1>13. CASE UNCHANGED vars
  BY <1>2, <1>13 DEF vars, deviceVars, hostVars
<1> QED
  BY <1>3, <1>4, <1>5, <1>6, <1>7, <1>8, <1>9, <1>10, <1>11, <1>12, <1>13
  DEF Next, HostGoesOn

-----------------------------------------------------------------------------
(* While an image is sent, a write, whole or torn, leaves only its bytes.  *)
LEMMA WrittenWithin ==
  ASSUME UInv, InDfu, hPhase \in {"write", "done"}, NEW data \in Seq(Byte),
         Follows(data, image, mDFU.current_write_addr)
  PROVE  /\ Within(WriteBuffer(flash, mDFU.current_write_addr, data), image)
         /\ \A done : Within(TornWrite(flash, mDFU.current_write_addr, data, done), image)
<1>1. Within(WriteBuffer(flash, mDFU.current_write_addr, data), image)
  BY Streaming, Stored
<1>2. ASSUME NEW done
      PROVE  Within(TornWrite(flash, mDFU.current_write_addr, data, done), image)
  BY <1>1, ByteFacts DEF Within, TornWrite
<1> QED
  BY <1>1, <1>2

LEMMA OneStep == Disciplined = TRUE /\ UInv /\ [Next]_vars => OneImage'
<1> SUFFICES ASSUME Disciplined = TRUE, UInv, [Next]_vars PROVE OneImage'
  OBVIOUS
<1>0. OneImage
  BY DEF UInv
<1>1. CASE UNCHANGED flash
  BY <1>0, <1>1 DEF OneImage
<1>2. CASE Within(flash', image)
  BY <1>2, WithinOne DEF OneImage
<1>3. ASSUME \A a \in Addr : flash'[a] = flash[a] \/ ~IsImageByte(flash'[a])
      PROVE  OneImage'
  BY <1>0, <1>3 DEF OneImage
<1>4. ~IsImageByte(Erased) /\ ~IsImageByte(Junk)
  BY ByteFacts DEF IsImageByte
<1>5. CASE EraseNextRow
  BY <1>3, <1>4, <1>5 DEF EraseNextRow, EraseRow
<1>6. CASE PowerLossErasing
  BY <1>3, <1>4, <1>6 DEF PowerLossErasing, TornErase
<1>7. ASSUME NEW n \in 1..MaxPacket, HostSends(n), Flushes(n)
      PROVE  /\ InDfu /\ hPhase \in {"write", "done"} /\ FlushedPage(n) \in Seq(Byte)
             /\ Follows(FlushedPage(n), image, mDFU.current_write_addr)
  <2>1. InDfu /\ hPhase \in {"write", "done"}
    BY <1>7 DEF HostSends, Turn
  <2>2. FlushedPage(n) \in Seq(Byte)
    BY <1>7, EnqueuedType DEF UInv
  <2> QED
    BY <1>7, <2>1, <2>2, EnqueuedBytes
<1>8. ASSUME InDfu, Turn("done")
      PROVE  /\ hPhase \in {"write", "done"} /\ mDFU.buffer \in Seq(Byte)
             /\ Follows(mDFU.buffer, image, mDFU.current_write_addr)
  BY <1>8, Streaming DEF Turn
<1>9. ASSUME NEW n \in 1..MaxPacket, DfuWriteData(n) PROVE OneImage'
  <2>1. HostSends(n)
    BY <1>9 DEF DfuWriteData
  <2>2. \/ flash' = flash
        \/ Flushes(n) /\ flash' = WriteBuffer(flash, mDFU.current_write_addr, FlushedPage(n))
    BY <1>9 DEF DfuWriteData
  <2> QED
    BY <1>1, <1>2, <1>7, <2>1, <2>2, WrittenWithin
<1>10. CASE DfuDoneWriting
  <2>1. /\ InDfu /\ Turn("done")
        /\ flash' = WriteBuffer(flash, mDFU.current_write_addr, mDFU.buffer)
    BY <1>10 DEF DfuDoneWriting
  <2> QED
    BY <1>2, <1>8, <2>1, WrittenWithin
<1>11. CASE PowerLossWriting
  <2>1. PICK done :
          \/ \E n \in 1..MaxPacket :
               /\ HostSends(n) /\ Flushes(n)
               /\ flash' = TornWrite(flash, mDFU.current_write_addr, FlushedPage(n), done)
          \/ /\ InDfu /\ Turn("done")
             /\ flash' = TornWrite(flash, mDFU.current_write_addr, mDFU.buffer, done)
    BY <1>11 DEF PowerLossWriting
  <2>2. ASSUME NEW n \in 1..MaxPacket, HostSends(n), Flushes(n)
        PROVE  Within(TornWrite(flash, mDFU.current_write_addr, FlushedPage(n), done), image)
    BY <1>7, <2>2, WrittenWithin
  <2>3. ASSUME InDfu, Turn("done")
        PROVE  Within(TornWrite(flash, mDFU.current_write_addr, mDFU.buffer, done), image)
    BY <1>8, <2>3, WrittenWithin
  <2>4. Within(flash', image)
    BY <2>1, <2>2, <2>3
  <2> QED
    BY <1>2, <2>4
<1>12. ASSUME NEW n \in 1..MaxPacket, DfuReadData(n) PROVE OneImage'
  BY <1>1, <1>12 DEF DfuReadData
<1> QED
  BY <1>1, <1>5, <1>6, <1>9, <1>10, <1>11, <1>12
  DEF Next, Boot, Sof, DfuStart, DfuStartRefused, HostGoesOn, DfuResetReadPtr, DfuReset,
      PowerLoss, vars, deviceVars

LEMMA UpdateStep == Disciplined = TRUE /\ UInv /\ [Next]_vars => UInv'
<1> SUFFICES ASSUME Disciplined = TRUE, UInv, [Next]_vars PROVE UInv'
  OBVIOUS
<1>1. TInv'
  BY TypeStep DEF UInv
<1> QED
  BY <1>1, PhasesStep, ErasedStep, StreamStep, ReadStep, OneStep DEF UInv

-----------------------------------------------------------------------------
(* For any flash and packet size and any image, a host that keeps to the   *)
(* order has every byte it sent exactly once in the flash or the page      *)
(* buffer, however its packets fall on the pages.                          *)
THEOREM EveryByteStored == ASSUME Disciplined = TRUE PROVE Spec => []StreamStored
<1>1. UInv => StreamStored
  BY DEF UInv
<1>2. UInv /\ [Next]_vars => UInv'
  BY UpdateStep
<1> QED
  BY UpdateInit, <1>1, <1>2, PTL DEF Spec

(* What it reads back after DFU_DONE_WRITING is what it wrote.             *)
THEOREM ReadsBackWhatItWrote == ASSUME Disciplined = TRUE PROVE Spec => []VerifyPasses
<1>1. UInv => VerifyPasses
  BY DEF UInv
<1>2. UInv /\ [Next]_vars => UInv'
  BY UpdateStep
<1> QED
  BY UpdateInit, <1>1, <1>2, PTL DEF Spec

(* Wherever in an erase, a page write or between two commands the power    *)
(* fails, and however many updates are begun, no mixture of two images     *)
(* is ever booted.                                                         *)
THEOREM NeverBootsMixture == ASSUME Disciplined = TRUE PROVE Spec => []BootedUnmixed
<1>1. UInv => BootedUnmixed
  BY DEF UInv, OneImage, BootedUnmixed
<1>2. UInv /\ [Next]_vars => UInv'
  BY UpdateStep
<1> QED
  BY UpdateInit, <1>1, <1>2, PTL DEF Spec
=============================================================================
