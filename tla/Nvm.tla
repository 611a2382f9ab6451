-------------------------------- MODULE Nvm --------------------------------
(***************************************************************************)
(* The application area of the flash as the bootloader's DFU code uses it: *)
(* programmed page by page, erased row by row, through nvm.c.  Addresses   *)
(* are relative to SK_APP_ADDR.                                            *)
(*                                                                         *)
(* A byte is that of position pos of image img, or one of three others:    *)
(* erased, zero, or undefined.                                             *)
(***************************************************************************)
EXTENDS Integers, Sequences

CONSTANTS
  PageSize,  \* NVMCTRL_PAGE_SIZE
  RowPages,  \* NVMCTRL_ROW_PAGES
  Rows       \* rows between SK_APP_ADDR and SK_NVM_SIZE_BYTES

ASSUME NvmAssumption ==
  /\ PageSize \in Nat \ {0} /\ PageSize % 2 = 0
  /\ RowPages \in Nat \ {0} /\ Rows \in Nat \ {0}

RowSize == PageSize * RowPages
AppSize == RowSize * Rows
Addr    == 0..(AppSize - 1)

Erased == [img |-> -1, pos |-> 0]
Zero   == [img |-> -1, pos |-> 1]
Junk   == [img |-> -1, pos |-> 2]
ByteOf(img, k) == [img |-> img, pos |-> k]
IsImageByte(b) == b.img >= 0

RowOf(r) == {a \in Addr : a \div RowSize = r}
PageAt(addr) == {a \in Addr : addr <= a /\ a < addr + PageSize}

(* Programming clears bits: it stores a byte only over an erased one.      *)
Programmed(old, new) ==
  CASE new \in {Erased, old} -> old
    [] new # old /\ old = Erased -> new
    [] OTHER -> Junk

(* Data goes to the page buffer as 16-bit words, an odd last byte with a   *)
(* zero above it; what of the page is not written stays as it is.          *)
Words(data) == IF Len(data) % 2 = 1 THEN Append(data, Zero) ELSE data

(* nvm_write_buffer on a page, repeated while STATUS_BUSY.  The address    *)
(* just past the flash passes its check, and nothing is stored there.      *)
WriteBuffer(flash, addr, data) ==
  LET words == Words(data)
  IN [a \in Addr |-> IF addr <= a /\ a < addr + Len(words)
                       THEN Programmed(flash[a], words[a - addr + 1])
                       ELSE flash[a]]

(* nvm_erase_row.                                                          *)
EraseRow(flash, r) == [a \in Addr |-> IF a \in RowOf(r) THEN Erased ELSE flash[a]]

(* What a power loss leaves of a page being written: some bytes are        *)
(* programmed, the others undefined.                                       *)
TornWrite(flash, addr, data, done) ==
  [a \in Addr |->
     IF a \in PageAt(addr) \ done THEN Junk ELSE WriteBuffer(flash, addr, data)[a]]

(* And of a row being erased: some pages are still there.                  *)
TornErase(flash, r, kept) ==
  [a \in Addr |-> IF a \in RowOf(r) /\ a \div PageSize \notin kept
                    THEN Junk ELSE flash[a]]
=============================================================================
