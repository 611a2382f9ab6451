---------------------------- MODULE MCUartToCdc ----------------------------
(* UartToCdc with a ring of four bytes and buffers of two.                 *)
EXTENDS UartToCdc
=============================================================================
