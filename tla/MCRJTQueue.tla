----------------------------- MODULE MCRJTQueue -----------------------------
(* RJTQueue on an array of three bytes, with transfers from empty to one    *)
(* byte too long: every wrap-around of head and tail occurs.               *)
EXTENDS RJTQueue
=============================================================================
