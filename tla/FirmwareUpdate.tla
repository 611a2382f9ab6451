--------------------------- MODULE FirmwareUpdate ---------------------------
(***************************************************************************)
(* The life of the firmware: the bootloader decides after a reset whether  *)
(* to start the application; without one, or when told to, it offers the   *)
(* DFU commands that erase, write, read back and leave; the application    *)
(* can ask for the bootloader.  Power may fail at any moment, in the       *)
(* middle of an erase or of a page write too.                              *)
(*                                                                         *)
(* Commands and start-of-frame interrupts are handled by the same service  *)
(* routine, so a command is one step, except for the erase, which is one   *)
(* step per row.  The host numbers the images it sends; image 0 is the one *)
(* in the flash at first, if any.                                          *)
(***************************************************************************)
EXTENDS Nvm

CONSTANTS
  MagicAt,     \* address of the magic in the application's header
  MaxPacket,   \* data bytes of one command: UDI_VENDOR_EP_SIZE - sizeof(USBHeader)
  CountDown,   \* frames from DFU_RESET to the reset
  Sizes,       \* sizes of the images
  MaxImages, MaxLosses, \* bounds: images sent, power losses
  Disciplined  \* the host keeps to the order of the commands

ASSUME UpdateAssumption ==
  /\ MagicAt \in 0..(RowSize - 1)
  /\ MaxPacket \in 1..(PageSize - 1)
  /\ CountDown \in Nat /\ MaxImages \in Nat /\ MaxLosses \in Nat
  /\ \A n \in Sizes : n \in Nat /\ n > MagicAt
  /\ Disciplined \in BOOLEAN

VARIABLES
  flash,     \* the application area
  mDFU,      \* struct DFUContext
  eraseRow,  \* the row erase_application is at, or NoRow
  fw_mode,   \* SK_SHARED_MEMORY_OBJ->fw_mode
  countdown, \* mResetCountDown, or Off when not enabled
  mode,      \* what runs: "reset", "dfu" (the bootloader's main loop) or "app"
  cause,     \* PM->RCAUSE of the last reset: "syst" or "other"
  pin,       \* level of the DFU pin at the last boot
  err,       \* error code of the last command
  hPhase, image, size, sent, checked, \* the host
  mismatch,  \* it read back something else than it wrote
  losses

deviceVars == <<flash, mDFU, eraseRow, fw_mode, countdown, mode, cause, pin>>
hostVars   == <<hPhase, image, size, sent, checked, mismatch>>
vars       == <<deviceVars, hostVars, err, losses>>

NoRow == -1
Off   == -1

FreshDFU == [current_write_addr |-> 0, buffer |-> <<>>, current_read_addr |-> 0]

Init ==
  /\ \/ flash = [a \in Addr |-> Erased]
     \/ flash = [a \in Addr |-> ByteOf(0, a)]
  /\ mDFU = FreshDFU /\ eraseRow = NoRow
  /\ fw_mode = "APP" /\ countdown = Off
  /\ mode = "reset" /\ cause = "other" /\ pin = TRUE
  /\ err = "NONE"
  /\ hPhase = "start" /\ image = 0 /\ size = 0 /\ sent = 0 /\ checked = 0
  /\ mismatch = FALSE
  /\ losses = 0

-----------------------------------------------------------------------------
(* Reset and boot.                                                         *)

HasMagic == IsImageByte(flash[MagicAt]) /\ flash[MagicAt].pos = MagicAt

(* RAM but the shared memory starts over.                                  *)
Restart(why) ==
  /\ mode' = "reset" /\ cause' = why
  /\ mDFU' = FreshDFU /\ eraseRow' = NoRow /\ countdown' = Off
  /\ hPhase' = "start"
  /\ UNCHANGED <<pin, err, image, size, sent, checked, mismatch>>

(* Mutant of KeptMode: the test of the reset cause inverted.               *)
KeptModeInverted ==
  IF cause # "syst" /\ fw_mode \in {"APP", "DFU"} THEN fw_mode ELSE "APP"

(* init_shared_memory: only a system reset preserves a valid mode.         *)
KeptMode == IF cause = "syst" /\ fw_mode \in {"APP", "DFU"} THEN fw_mode ELSE "APP"

(* main of the bootloader, up to its loop or into the application.         *)
Boot ==
  /\ mode = "reset"
  /\ \E level \in BOOLEAN :
       /\ pin' = level
       /\ mode' = IF level /\ KeptMode = "APP" /\ HasMagic THEN "app" ELSE "dfu"
       /\ fw_mode' = IF level THEN "APP" ELSE KeptMode
  /\ UNCHANGED <<flash, mDFU, eraseRow, countdown, cause, err, losses, hostVars>>

(* my_sof_callback, the same in both programs.                             *)
Sof ==
  /\ mode \in {"dfu", "app"} /\ eraseRow = NoRow /\ countdown # Off
  /\ IF countdown = 0
       THEN Restart("syst") /\ UNCHANGED <<flash, fw_mode, losses>>
       ELSE /\ countdown' = countdown - 1
            /\ UNCHANGED <<flash, mDFU, eraseRow, fw_mode, mode, cause, pin, err,
                           losses, hostVars>>

-----------------------------------------------------------------------------
(* The DFU commands.                                                       *)

InDfu == mode = "dfu" /\ eraseRow = NoRow
Turn(phase) == Disciplined => hPhase = phase

(* DFU_START of an image that does not fit leaves everything as it is.     *)
DfuStartRefused ==
  /\ InDfu /\ Turn("start")
  /\ \E n \in Sizes : n > AppSize
  /\ err' = "NO_MEMORY"
  /\ UNCHANGED <<deviceVars, hostVars, losses>>

(* DFU_START: the context is reset and the erase begun.                    *)
DfuStart ==
  /\ InDfu /\ Turn("start") /\ image < MaxImages
  /\ \E n \in Sizes : n <= AppSize /\ size' = n
  /\ image' = image + 1 /\ sent' = 0 /\ checked' = 0
  /\ hPhase' = "write"
  /\ mDFU' = FreshDFU /\ eraseRow' = 0 /\ err' = "NONE"
  /\ UNCHANGED <<flash, fw_mode, countdown, mode, cause, pin, mismatch, losses>>

(* Mutant of EraseNextRow: the loop ends a row early.                      *)
EraseAllButLast ==
  /\ eraseRow # NoRow
  /\ flash' = EraseRow(flash, eraseRow)
  /\ eraseRow' = IF eraseRow + 2 < Rows THEN eraseRow + 1 ELSE NoRow
  /\ UNCHANGED <<mDFU, fw_mode, countdown, mode, cause, pin, err, losses, hostVars>>

(* One turn of the loop of erase_application.                              *)
EraseNextRow ==
  /\ eraseRow # NoRow
  /\ flash' = EraseRow(flash, eraseRow)
  /\ eraseRow' = IF eraseRow + 1 < Rows THEN eraseRow + 1 ELSE NoRow
  /\ UNCHANGED <<mDFU, fw_mode, countdown, mode, cause, pin, err, losses, hostVars>>

(* enqueue_dfu_data: a full buffer is written when more data comes.        *)
Data(n)     == [i \in 1..n |-> ByteOf(image, sent + i - 1)]
Enqueued(n) == mDFU.buffer \o Data(n)

FlushesLate(n)    == Len(Enqueued(n)) > PageSize + 1             \* a mutant
Flushes(n)        == Len(Enqueued(n)) > PageSize
FlushedPage(n)    == SubSeq(Enqueued(n), 1, PageSize)
RepeatedByte(n)   == SubSeq(Enqueued(n), PageSize, Len(Enqueued(n))) \* a mutant
Remainder(n)      == SubSeq(Enqueued(n), PageSize + 1, Len(Enqueued(n)))
Accepts(n)        == mDFU.current_write_addr + n < AppSize

MaxSent == AppSize + 2 * PageSize \* bound on the bytes of one image

HostSends(n) ==
  /\ InDfu /\ Turn("write") /\ sent + n <= MaxSent
  /\ Disciplined => sent + n <= size

DfuWriteData(n) ==
  /\ HostSends(n)
  /\ IF Accepts(n)
       THEN /\ err' = "NONE"
            /\ sent' = sent + n
            /\ IF Flushes(n)
                 THEN /\ flash' = WriteBuffer(flash, mDFU.current_write_addr,
                                              FlushedPage(n))
                      /\ mDFU' = [mDFU EXCEPT
                           !.current_write_addr = @ + PageSize,
                           !.buffer = Remainder(n)]
                 ELSE mDFU' = [mDFU EXCEPT !.buffer = Enqueued(n)] /\ UNCHANGED flash
            /\ hPhase' = IF sent + n = size THEN "done" ELSE hPhase
       ELSE err' = "NO_MEMORY" /\ UNCHANGED <<sent, flash, mDFU, hPhase>>
  /\ UNCHANGED <<eraseRow, fw_mode, countdown, mode, cause, pin, image, size,
                 checked, mismatch, losses>>

(* Mutant of DfuDoneWriting: the rest in the buffer is not written.        *)
DfuDoneDropsRest ==
  /\ InDfu /\ Turn("done")
  /\ mDFU' = FreshDFU /\ err' = "NONE" /\ hPhase' = "verify" /\ checked' = 0
  /\ UNCHANGED <<flash, eraseRow, fw_mode, countdown, mode, cause, pin, image,
                 size, sent, mismatch, losses>>

(* finalize_dfu: what is buffered is written, the context reset.           *)
DfuDoneWriting ==
  /\ InDfu /\ Turn("done")
  /\ flash' = WriteBuffer(flash, mDFU.current_write_addr, mDFU.buffer)
  /\ mDFU' = FreshDFU /\ err' = "NONE" /\ hPhase' = "verify" /\ checked' = 0
  /\ UNCHANGED <<eraseRow, fw_mode, countdown, mode, cause, pin, image, size,
                 sent, mismatch, losses>>

(* DFU_READ_DATA, at most up to the end of the flash; the host compares.   *)
NumToRead(n) == IF mDFU.current_read_addr + n < AppSize
                  THEN n ELSE AppSize - mDFU.current_read_addr

DfuReadData(n) ==
  /\ InDfu /\ Turn("verify") /\ err' = "NONE"
  /\ Disciplined => checked + n <= size
  /\ LET from == mDFU.current_read_addr
         got == [i \in 1..NumToRead(n) |-> flash[from + i - 1]]
     IN /\ mDFU' = [mDFU EXCEPT !.current_read_addr = from + NumToRead(n)]
        /\ IF hPhase = "verify"
             THEN /\ mismatch' = (mismatch \/
                       got # [i \in 1..n |-> ByteOf(image, checked + i - 1)])
                  /\ checked' = checked + n
                  /\ hPhase' = IF checked + n >= size THEN "leave" ELSE hPhase
             ELSE UNCHANGED <<mismatch, checked, hPhase>>
  /\ UNCHANGED <<flash, eraseRow, fw_mode, countdown, mode, cause, pin, image,
                 size, sent, losses>>

(* DFU_RESET_READ_PTR: the host reads everything once more.                *)
DfuResetReadPtr ==
  /\ InDfu /\ Turn("leave")
  /\ mDFU' = [mDFU EXCEPT !.current_read_addr = 0]
  /\ checked' = 0 /\ hPhase' = "verify" /\ err' = "NONE"
  /\ UNCHANGED <<flash, eraseRow, fw_mode, countdown, mode, cause, pin,
                 image, size, sent, mismatch, losses>>

(* Mutant of DfuReset: the countdown is not enabled.                       *)
DfuResetNotEnabled(m) ==
  /\ \/ mode = "app" /\ (Disciplined => hPhase # "wait")
     \/ InDfu /\ Turn("leave") /\ (Disciplined => m = "APP")
  /\ IF m \in {"APP", "DFU"}
       THEN fw_mode' = m /\ err' = "NONE" /\ hPhase' = "wait"
       ELSE err' = "PARAMETER" /\ UNCHANGED <<fw_mode, hPhase>>
  /\ UNCHANGED <<flash, mDFU, eraseRow, countdown, mode, cause, pin, image, size,
                 sent, checked, mismatch, losses>>

(* DFU_RESET, the same in both programs.  A second one restarts the        *)
(* countdown; a disciplined host waits for the first.                      *)
DfuReset(m) ==
  /\ \/ mode = "app" /\ (Disciplined => hPhase # "wait")
     \/ InDfu /\ Turn("leave") /\ (Disciplined => m = "APP")
  /\ IF m \in {"APP", "DFU"}
       THEN /\ fw_mode' = m /\ countdown' = CountDown /\ err' = "NONE"
            /\ hPhase' = "wait"
       ELSE err' = "PARAMETER" /\ UNCHANGED <<fw_mode, countdown, hPhase>>
  /\ UNCHANGED <<flash, mDFU, eraseRow, mode, cause, pin, image, size, sent,
                 checked, mismatch, losses>>

-----------------------------------------------------------------------------
(* Power fails: the shared memory holds anything; a page being written or  *)
(* a row being erased is left half done.                                   *)

PowerFails ==
  /\ losses < MaxLosses /\ losses' = losses + 1
  /\ mode # "reset" /\ Restart("other")
  /\ fw_mode' \in {"APP", "DFU", "invalid"}

PowerLoss == PowerFails /\ UNCHANGED flash

PowerLossErasing ==
  /\ PowerFails /\ eraseRow # NoRow
  /\ \E kept \in SUBSET {a \div PageSize : a \in RowOf(eraseRow)} :
       flash' = TornErase(flash, eraseRow, kept)

PowerLossWriting ==
  /\ PowerFails
  /\ \E done \in SUBSET PageAt(mDFU.current_write_addr) :
       \/ \E n \in 1..MaxPacket :
            /\ HostSends(n) /\ Accepts(n) /\ Flushes(n)
            /\ flash' = TornWrite(flash, mDFU.current_write_addr, FlushedPage(n), done)
       \/ /\ InDfu /\ Turn("done")
          /\ flash' = TornWrite(flash, mDFU.current_write_addr, mDFU.buffer, done)

HostGoesOn ==
  DfuDoneWriting \/ \E n \in 1..MaxPacket : DfuWriteData(n) \/ DfuReadData(n)

HostLeaves == InDfu /\ DfuReset("APP")

Next ==
  \/ Boot \/ Sof \/ EraseNextRow \/ DfuStart \/ DfuStartRefused \/ HostGoesOn \/ DfuResetReadPtr
  \/ \E m \in {"APP", "DFU", "invalid"} : DfuReset(m)
  \/ PowerLoss \/ PowerLossErasing \/ PowerLossWriting

Spec == Init /\ [][Next]_vars

(* The device runs and receives its frames; a host that began an update    *)
(* goes on with it, and does not verify it for ever.                       *)
Fairness ==
  /\ WF_vars(Boot) /\ WF_vars(Sof) /\ WF_vars(EraseNextRow)
  /\ WF_vars(HostGoesOn) /\ SF_vars(HostLeaves)

LiveSpec == Spec /\ Fairness

-----------------------------------------------------------------------------
(* Every variable holds a value of its type.  The address nvm_write_buffer *)
(* gets is that of a page, or the end of the flash, where nothing is       *)
(* stored; the buffer never holds more than a page and reads stay inside   *)
(* the flash: whatever the order of the commands, so the bound on the      *)
(* address that forgets what is buffered does no harm.                     *)
PageStarts == {p * PageSize : p \in 0..(RowPages * Rows)}

Byte == [img : -1..MaxImages, pos : 0..MaxSent]

TypeOK ==
  /\ flash \in [Addr -> Byte]
  /\ mDFU.current_write_addr \in PageStarts
  /\ mDFU.current_read_addr \in 0..AppSize
  /\ mDFU.buffer \in Seq(Byte) /\ Len(mDFU.buffer) <= PageSize
  /\ eraseRow \in -1..(Rows - 1)
  /\ fw_mode \in {"APP", "DFU", "invalid"} /\ countdown \in -1..CountDown
  /\ mode \in {"reset", "dfu", "app"} /\ cause \in {"syst", "other"}
  /\ pin \in BOOLEAN /\ err \in {"NONE", "NO_MEMORY", "PARAMETER"}
  /\ hPhase \in {"start", "write", "done", "verify", "leave", "wait"}
  /\ image \in 0..MaxImages /\ size \in 0..AppSize
  /\ sent \in Nat /\ checked \in Nat
  /\ mismatch \in BOOLEAN /\ losses \in 0..MaxLosses

(* While an image is being sent, the flash below the write address and the *)
(* buffer hold exactly the bytes sent so far, in order, and everything     *)
(* above is erased: no byte is skipped, repeated or written over another.  *)
StreamStored ==
  InDfu /\ hPhase \in {"write", "done"} =>
    /\ sent = mDFU.current_write_addr + Len(mDFU.buffer)
    /\ \A a \in Addr :
         flash[a] = IF a < mDFU.current_write_addr THEN ByteOf(image, a) ELSE Erased
    /\ \A i \in DOMAIN mDFU.buffer :
         mDFU.buffer[i] = ByteOf(image, mDFU.current_write_addr + i - 1)

(* The application never runs from a mixture of two images, whatever step  *)
(* of whichever update the power failed in.                                *)
BootedUnmixed ==
  mode = "app" =>
    \A a, b \in Addr : IsImageByte(flash[a]) /\ IsImageByte(flash[b]) =>
      flash[a].img = flash[b].img

(* What the host reads back after DFU_DONE_WRITING is what it wrote.       *)
VerifyPasses == ~mismatch

(* An update that is not interrupted ends in the new application running,  *)
(* complete, unless the DFU pin is held.                                   *)
Complete(img, n) == \A a \in 0..(n - 1) : flash[a] = ByteOf(img, a)

UpdateTakesEffect ==
  \A i \in 1..MaxImages, l \in 0..MaxLosses :
    (image = i /\ losses = l /\ hPhase = "write") ~>
      \/ mode = "app" /\ Complete(image, size)
      \/ ~pin \/ losses > l

(* An application told to leave for the bootloader ends up there, whether  *)
(* or not the flash holds an application, and not in a loop of resets.     *)
DfuModeReached ==
  \A l \in 0..MaxLosses :
    (countdown # Off /\ fw_mode = "DFU" /\ losses = l) ~>
      (mode = "dfu" /\ countdown = Off) \/ losses > l

(* The image that was sent last runs only when it is all there.            *)
BootedWhole ==
  mode = "app" /\ flash[MagicAt].img = image /\ image > 0 => Complete(image, size)
=============================================================================
