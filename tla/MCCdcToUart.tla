---------------------------- MODULE MCCdcToUart ----------------------------
(* CdcToUart with a queue that a packet fills and a job takes part of, or, *)
(* for the end of the last packet, with buffers and a queue of two bytes.  *)
EXTENDS CdcToUart
=============================================================================
