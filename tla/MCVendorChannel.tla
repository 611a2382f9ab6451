-------------------------- MODULE MCVendorChannel --------------------------
(* VendorChannel with small bounds: the configurations differ in how the   *)
(* host starts over and how often it retries.                              *)
EXTENDS VendorChannel
=============================================================================
