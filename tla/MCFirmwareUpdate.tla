-------------------------- MODULE MCFirmwareUpdate --------------------------
(* FirmwareUpdate on a flash of two rows of two pages of four bytes, with  *)
(* the magic in the second page.                                           *)
EXTENDS FirmwareUpdate
=============================================================================
