---------------------------- MODULE UddEndpoint ----------------------------
(***************************************************************************)
(* One bulk or interrupt endpoint of the USB device: the job that the ASF  *)
(* driver keeps for it (udd_ep_job_t in usb_device_udd.c) and the part of  *)
(* the USB peripheral's state the driver and the host act on.              *)
(*                                                                         *)
(*   busy     a job is registered on the endpoint                          *)
(*   enabled  EPCFG.EPTYPE: the endpoint is configured                     *)
(*   ready    the bank is handed to the hardware: an OUT packet is         *)
(*            accepted, or an IN packet is sent, at the host's next token  *)
(*   trcpt    EPINTFLAG.TRCPT: a transfer completed, its interrupt is      *)
(*            pending                                                      *)
(*                                                                         *)
(* All of it is pure operators: the modules that own endpoints apply them. *)
(***************************************************************************)

Endpoint == [busy : BOOLEAN, enabled : BOOLEAN, ready : BOOLEAN, trcpt : BOOLEAN]

Unused == [busy |-> FALSE, enabled |-> FALSE, ready |-> FALSE, trcpt |-> FALSE]

(* udd_ep_run: refuses a busy endpoint, otherwise registers the job and    *)
(* hands the buffer to the hardware, which denies it on an endpoint that   *)
(* is not configured; the job then stays registered.                       *)
RunSucceeds(e) == ~e.busy /\ e.enabled

Run(e) ==
  IF e.busy THEN e
            ELSE [e EXCEPT !.busy = TRUE, !.ready = e.ready \/ e.enabled]

(* Mutant of Aborted: the job stays registered.                            *)
AbortedStillBusy(e) == [e EXCEPT !.ready = FALSE, !.trcpt = FALSE]

(* udd_ep_abort up to the callback: take the bank back, acknowledge a      *)
(* transfer that completed meanwhile, unregister the job.                  *)
Aborted(e) == [e EXCEPT !.busy = FALSE, !.ready = FALSE, !.trcpt = FALSE]

(* udd_ep_abort of a job whose callback runs the endpoint again when the   *)
(* driver's flag says it is in use; nothing is called back when no job was *)
(* registered.                                                             *)
Reruns(e, inUse) == e.busy /\ inUse

Abort(e, inUse) == IF Reruns(e, inUse) THEN Run(Aborted(e)) ELSE Aborted(e)

AbortSucceeds(e, inUse) == Reruns(e, inUse) => RunSucceeds(Aborted(e))

(* udd_ep_free: abort, then EPTYPE = disabled.                             *)
Free(e, inUse) == [Abort(e, inUse) EXCEPT !.enabled = FALSE]

(* udd_ep_alloc: denied on an endpoint that is configured already.         *)
AllocSucceeds(e) == ~e.enabled

Alloc(e) == [e EXCEPT !.enabled = TRUE, !.ready = FALSE]

(* udd_ep_trans_in_next and udd_ep_trans_out_next when the one packet of   *)
(* the job is through: the interrupt is acknowledged, the job unregistered.*)
Completed(e) == [e EXCEPT !.busy = FALSE, !.trcpt = FALSE]

(* The host's token on a ready bank.                                       *)
Transfers(e) == e.enabled /\ e.ready

Transferred(e) == [e EXCEPT !.ready = FALSE, !.trcpt = TRUE]

(* A reset on the bus: the peripheral clears EPCFG and EPINTFLAG.          *)
BusReset(e) == [e EXCEPT !.enabled = FALSE, !.trcpt = FALSE]
=============================================================================
