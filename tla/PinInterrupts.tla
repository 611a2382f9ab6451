---------------------------- MODULE PinInterrupts ----------------------------
(***************************************************************************)
(* Pin interrupts, from the edge to the host: the external interrupt       *)
(* controller (rjt_external_interrupt_controller.c), the status word and   *)
(* the commands on it (rjt_usb_bridge_gpio.c), the interrupt bits of       *)
(* rjt_usb_bridge_app.c and the notify endpoint (udi_vendor.c) that tells  *)
(* the host; with the configuration, which lends the pins.                 *)
(*                                                                         *)
(* EIC_Handler is one critical section, so neither it nor a USB handler    *)
(* preempts the other, whatever their priorities; edges and the host's     *)
(* polls of the notify endpoint fall between any two of their statements.  *)
(* pc names the rest of the handler that runs.                             *)
(*                                                                         *)
(* Index i's pin has line i; the board's button is wired to the line       *)
(* ButtonLine as well and is bit 31 of the status word.                    *)
(***************************************************************************)
EXTENDS BridgeConfig, UddEndpoint

LOCAL INSTANCE FiniteSetsExt

CONSTANTS
  ButtonLine,  \* RJT_EIC_EXT_INT15
  MaxEdges, MaxCmds, MaxResets, \* how much the pins and the host do
  ReopenWays   \* how the host starts over, a subset of {"bus", "config", "ctrl"}

ASSUME PinAssumption ==
  /\ ButtonLine \in Index
  /\ MaxEdges \in Nat /\ MaxCmds \in Nat /\ MaxResets \in Nat
  /\ ReopenWays \subseteq {"bus", "config", "ctrl"}

Button == 31
Pins   == Index \union {Button}

VARIABLES
  intflag,     \* EIC->INTFLAG
  intno2gpio,  \* the pin of each line that was configured, by its index
  mPinInterruptStatus,
  interrupt_status, \* the one bit of it that is used, RJT_USB_INTERRUPT_BIT_GPIO
  pc, todo,    \* the handler that runs; lines EIC_Handler has not looked at
  epNotify, mNotify, mNotifyEPEnabled, mNotifyEPAborting,
  configured, setup, busReset, \* as in VendorChannel
  hPhase, hCmds, hResets,      \* the host
  hSaw,        \* the value it last read from the notify endpoint
  edges,       \* number of edges so far
  owed,        \* pins with an edge the host has not been able to clear
  missed       \* the bit changed while there was no notify endpoint to tell

eicVars    == <<intflag, intno2gpio, mPinInterruptStatus, interrupt_status, owed>>
notifyVars == <<epNotify, mNotify, mNotifyEPEnabled, mNotifyEPAborting, missed>>
usbVars    == <<configured, setup, busReset>>
hostVars   == <<hPhase, hCmds, hResets, hSaw>>
vars == <<configVars, eicVars, notifyVars, usbVars, hostVars, pc, todo, edges>>

(* RJTUSBBridge_init: the button's line is the one that is configured.     *)
Init ==
  /\ ConfigInit({ButtonLine})
  /\ intflag = {} /\ intno2gpio = [l \in {ButtonLine} |-> Button]
  /\ mPinInterruptStatus = {} /\ interrupt_status = FALSE
  /\ pc = "idle" /\ todo = {}
  /\ epNotify = Unused /\ mNotify = FALSE
  /\ mNotifyEPEnabled = FALSE /\ mNotifyEPAborting = FALSE
  /\ configured = FALSE /\ setup = "none" /\ busReset = FALSE
  /\ hPhase = "config" /\ hCmds = 0 /\ hResets = 0 /\ hSaw = FALSE
  /\ edges = 0 /\ owed = {} /\ missed = FALSE

-----------------------------------------------------------------------------
(* The pins.  A line senses once it was configured, whether it interrupts  *)
(* or not, as long as a pin is switched to it; the button always is.       *)

Sensing(l) == l \in DOMAIN intno2gpio /\ (mux[l] = "eic" \/ l = ButtonLine)

Edge(l) ==
  /\ edges < MaxEdges /\ edges' = edges + 1
  /\ Sensing(l) /\ intflag' = intflag \union {l}
  /\ owed' = IF l \in inten THEN owed \union {intno2gpio[l]} ELSE owed
  /\ UNCHANGED <<configVars, intno2gpio, mPinInterruptStatus, interrupt_status,
                 notifyVars, usbVars, hostVars, pc, todo>>

-----------------------------------------------------------------------------
(* RJTUSBBridge_setInterruptStatus, in two steps: the job is taken back    *)
(* and its callback arms the endpoint again with mNotify as it was; then   *)
(* mNotify gets its value.  An endpoint that was never enabled is not told.*)

(* Mutant of NotifyAbort: the callback does not run the job again.         *)
NotifyNotRerun ==
  IF mNotifyEPEnabled
    THEN /\ epNotify' = Aborted(epNotify)
         /\ UNCHANGED <<mNotifyEPAborting, missed>>
    ELSE missed' = TRUE /\ UNCHANGED <<epNotify, mNotifyEPAborting>>

NotifyAbort ==
  IF mNotifyEPEnabled
    THEN /\ epNotify' = IF mNotifyEPAborting THEN epNotify ELSE Abort(epNotify, TRUE)
         /\ mNotifyEPAborting' = (mNotifyEPAborting \/ ~epNotify.busy)
         /\ UNCHANGED missed
    ELSE missed' = TRUE /\ UNCHANGED <<epNotify, mNotifyEPAborting>>

NotifyWrite ==
  IF mNotifyEPEnabled THEN mNotify' = interrupt_status /\ missed' = FALSE
                      ELSE UNCHANGED <<mNotify, missed>>

-----------------------------------------------------------------------------
(* EIC_Handler: looks at every line in turn, and at its flag only when it  *)
(* gets there; the flag is acknowledged after the callback.                *)

AtLine == Min(todo)

EicEnter ==
  /\ pc = "idle" /\ intflag \intersect inten # {}
  /\ pc' = "look" /\ todo' = Index
  /\ UNCHANGED <<configVars, eicVars, notifyVars, usbVars, hostVars, edges>>

(* gpio2index: the button, or a pin the configuration has not taken.       *)
Known(pin) == pin = Button \/ Available(pin)

(* ext_interrupt_callback, up to the abort.                                *)
EicCallback ==
  /\ pc = "look" /\ todo # {} /\ AtLine \in intflag
  /\ LET pin == intno2gpio[AtLine]
     IN IF Known(pin)
          THEN /\ mPinInterruptStatus' = mPinInterruptStatus \union {pin}
               /\ interrupt_status' = TRUE
               /\ NotifyAbort
               /\ pc' = "write"
          ELSE /\ pc' = "ack"
               /\ UNCHANGED <<mPinInterruptStatus, interrupt_status, epNotify,
                              mNotifyEPAborting, missed>>
  /\ UNCHANGED <<configVars, intflag, intno2gpio, owed, mNotify, mNotifyEPEnabled,
                 usbVars, hostVars, todo, edges>>

EicWrite ==
  /\ pc = "write" /\ pc' = "ack" /\ NotifyWrite
  /\ UNCHANGED <<configVars, eicVars, epNotify, mNotifyEPEnabled, mNotifyEPAborting,
                 usbVars, hostVars, todo, edges>>

(* Mutant of Acknowledged: all flags, as the line 118 that is commented    *)
(* out would.                                                              *)
AllAcknowledged(l) == {}

(* INTFLAG once line l's flag is written back.                             *)
Acknowledged(l) == intflag \ {l}

EicAck ==
  /\ pc = "ack" /\ pc' = "look"
  /\ intflag' = Acknowledged(AtLine) /\ todo' = todo \ {AtLine}
  /\ UNCHANGED <<configVars, intno2gpio, mPinInterruptStatus, interrupt_status, owed,
                 notifyVars, usbVars, hostVars, edges>>

EicSkip ==
  /\ pc = "look" /\ todo # {} /\ AtLine \notin intflag
  /\ todo' = todo \ {AtLine}
  /\ UNCHANGED <<configVars, eicVars, notifyVars, usbVars, hostVars, pc, edges>>

EicLeave ==
  /\ pc = "look" /\ todo = {} /\ pc' = "idle"
  /\ UNCHANGED <<configVars, eicVars, notifyVars, usbVars, hostVars, todo, edges>>

Eic == EicEnter \/ EicCallback \/ EicWrite \/ EicAck \/ EicSkip \/ EicLeave

-----------------------------------------------------------------------------
(* Commands of the host.  Those that name a pin the configuration has      *)
(* taken, or a value out of range, change nothing and are left out, and so *)
(* are those on a pin's level.                                             *)

Command == pc = "idle" /\ hPhase = "open" /\ configured /\ setup = "none" /\ ~busReset
             /\ hCmds < MaxCmds /\ hCmds' = hCmds + 1

(* Pins whose line does not interrupt any more owe nothing.                *)
StillOwed(lines) == {p \in owed : \E l \in lines : intno2gpio[l] = p}

(* Mutant of Configured: the line is enabled but not configured.           *)
NotConfigured(i) == intno2gpio

(* RJTEIC_configure notes whose line it is.                                *)
Configured(i) == [l \in DOMAIN intno2gpio \union {i} |->
                    IF l = i THEN i ELSE intno2gpio[l]]

(* enablePinInterrupt: RJTEIC_configure and RJTEIC_enableInterrupt.        *)
EnablePin(i) ==
  /\ Command /\ Available(i)
  /\ intflag' = intflag \ {i}
  /\ intno2gpio' = Configured(i)
  /\ mux' = [mux EXCEPT ![i] = "eic"]
  /\ inten' = inten \union {i}
  /\ owed' = StillOwed(inten \ {i})
  /\ UNCHANGED <<config, mSpiEnabled, mI2cEnabled, sercom, cfgErr, cfgAssert,
                 mPinInterruptStatus, interrupt_status, notifyVars, usbVars,
                 hPhase, hResets, hSaw, pc, todo, edges>>

DisablePin(i) ==
  /\ Command /\ Available(i)
  /\ inten' = inten \ {i}
  /\ owed' = StillOwed(inten \ {i})
  /\ UNCHANGED <<config, mSpiEnabled, mI2cEnabled, sercom, mux, cfgErr, cfgAssert,
                 intflag, intno2gpio, mPinInterruptStatus, interrupt_status,
                 notifyVars, usbVars, hPhase, hResets, hSaw, pc, todo, edges>>

(* configureIndex switches the pin to the port; its line stays enabled.    *)
ConfigurePin(i) ==
  /\ Command /\ Available(i)
  /\ mux' = [mux EXCEPT ![i] = "port"]
  /\ UNCHANGED <<config, mSpiEnabled, mI2cEnabled, sercom, inten, cfgErr, cfgAssert,
                 eicVars, notifyVars, usbVars, hPhase, hResets, hSaw, pc, todo, edges>>

(* Mutant of StillUp: the bit goes down with any pin that is cleared.      *)
DownWithAny(left) == FALSE

(* clearInterruptStatus takes the bit down when no pin is left.            *)
StillUp(left) == left # {}

ClearStatus(mask) ==
  /\ Command
  /\ mPinInterruptStatus' = mPinInterruptStatus \ mask
  /\ owed' = owed \ (mask \intersect mPinInterruptStatus)
  /\ IF StillUp(mPinInterruptStatus \ mask)
       THEN UNCHANGED <<interrupt_status, epNotify, mNotifyEPAborting, missed, pc>>
       ELSE interrupt_status' = FALSE /\ NotifyAbort /\ pc' = "cleared"
  /\ UNCHANGED <<configVars, intflag, intno2gpio, mNotify, mNotifyEPEnabled, usbVars,
                 hPhase, hResets, hSaw, todo, edges>>

ClearWrite ==
  /\ pc = "cleared" /\ pc' = "idle" /\ NotifyWrite
  /\ UNCHANGED <<configVars, eicVars, epNotify, mNotifyEPEnabled, mNotifyEPAborting,
                 usbVars, hostVars, todo, edges>>

UsbSetConfig(c, args) ==
  /\ Command /\ SetConfig(c, args)
  /\ owed' = StillOwed(inten')
  /\ UNCHANGED <<intflag, intno2gpio, mPinInterruptStatus, interrupt_status,
                 notifyVars, usbVars, hPhase, hResets, hSaw, pc, todo, edges>>

-----------------------------------------------------------------------------
(* The rest of the USB handler.                                            *)

UsbCtrlReset ==
  /\ pc = "idle" /\ setup = "reset" /\ setup' = "none"
  /\ ResetConfig /\ owed' = StillOwed(inten')
  /\ UNCHANGED <<intflag, intno2gpio, mPinInterruptStatus, interrupt_status,
                 notifyVars, configured, busReset, hostVars, pc, todo, edges>>

(* interrupt_transfer_callback, UDD_EP_TRANSFER_OK.                        *)
UsbNotified ==
  /\ pc = "idle" /\ setup = "none" /\ epNotify.trcpt
  /\ epNotify' = Run(Completed(epNotify))
  /\ UNCHANGED <<configVars, eicVars, mNotify, mNotifyEPEnabled, mNotifyEPAborting, missed,
                 usbVars, hostVars, pc, todo, edges>>

(* udc_reset frees the endpoint; the callback of its abort takes the flag  *)
(* down and runs the job, which the freed endpoint keeps.                  *)
Freed == IF configured THEN Free(epNotify, mNotifyEPEnabled) ELSE epNotify
AbortingAfterFree == mNotifyEPAborting /\ ~(configured /\ epNotify.busy)

(* SET_CONFIGURATION, with udi_vendor_enable.                              *)
UsbSetConfiguration ==
  /\ pc = "idle" /\ setup = "config" /\ setup' = "none"
  /\ LET notify == Alloc(Freed)
     IN IF mNotifyEPEnabled
          THEN epNotify' = Abort(notify, TRUE) /\ mNotifyEPAborting' = ~notify.busy
          ELSE epNotify' = Run(notify) /\ mNotifyEPAborting' = AbortingAfterFree
  /\ mNotifyEPEnabled' = TRUE /\ configured' = TRUE
  /\ UNCHANGED <<configVars, eicVars, mNotify, missed, busReset, hostVars, pc, todo, edges>>

(* _usb_on_bus_reset.                                                      *)
UsbBusReset ==
  /\ pc = "idle" /\ setup = "none" /\ ~epNotify.trcpt
  /\ busReset /\ busReset' = FALSE
  /\ epNotify' = Freed /\ mNotifyEPAborting' = AbortingAfterFree
  /\ configured' = FALSE
  /\ UNCHANGED <<configVars, eicVars, mNotify, mNotifyEPEnabled, missed, setup,
                 hostVars, pc, todo, edges>>

Usb == ClearWrite \/ UsbCtrlReset \/ UsbNotified \/ UsbSetConfiguration \/ UsbBusReset

-----------------------------------------------------------------------------
(* The host polls the notify endpoint, of which the peripheral sends what  *)
(* mNotify holds at that moment.                                           *)

HostPoll ==
  /\ hPhase = "open" /\ Transfers(epNotify)
  /\ epNotify' = Transferred(epNotify) /\ hSaw' = mNotify
  /\ UNCHANGED <<configVars, eicVars, mNotify, mNotifyEPEnabled, mNotifyEPAborting, missed,
                 usbVars, hPhase, hCmds, hResets, pc, todo, edges>>

HostConfigure ==
  /\ hPhase = "config" /\ hPhase' = "open"
  /\ setup = "none" /\ setup' = "config" /\ ~busReset
  /\ UNCHANGED <<configVars, eicVars, notifyVars, configured, busReset, hCmds, hResets, hSaw,
                 pc, todo, edges>>

HostReopen(way) ==
  /\ hPhase = "open" /\ setup = "none" /\ ~busReset
  /\ hResets < MaxResets /\ hResets' = hResets + 1
  /\ \/ /\ way = "bus" /\ busReset' = TRUE /\ hPhase' = "config"
        /\ epNotify' = BusReset(epNotify)
        /\ UNCHANGED setup
     \/ /\ way = "config" /\ setup' = "config"
        /\ UNCHANGED <<epNotify, busReset, hPhase>>
     \/ /\ way = "ctrl" /\ setup' = "reset"
        /\ UNCHANGED <<epNotify, busReset, hPhase>>
  /\ UNCHANGED <<configVars, eicVars, mNotify, mNotifyEPEnabled, mNotifyEPAborting, missed,
                 configured, hCmds, hSaw, pc, todo, edges>>

Next ==
  \/ \E l \in Index : Edge(l)
  \/ Eic \/ Usb
  \/ \E i \in Index : EnablePin(i) \/ DisablePin(i) \/ ConfigurePin(i)
  \/ \E mask \in SUBSET Pins : ClearStatus(mask)
  \/ \E c \in Configs \union {"unknown"}, args \in {"ok", "short", "parameter", "refused"} :
       UsbSetConfig(c, args)
  \/ HostPoll \/ HostConfigure \/ \E way \in ReopenWays : HostReopen(way)

(* Handlers run when their interrupt is pending, and the host polls an     *)
(* interrupt endpoint at the interval of its descriptor.                   *)
Fairness == WF_vars(Eic) /\ WF_vars(Usb) /\ WF_vars(HostPoll) /\ WF_vars(HostConfigure)

Spec == Init /\ [][Next]_vars

LiveSpec == Spec /\ Fairness

-----------------------------------------------------------------------------
(* Every variable holds a value of its type, and only lines that have a    *)
(* callback raise flags.                                                   *)
TypeOK ==
  /\ ConfigTypeOK
  /\ DOMAIN intno2gpio \subseteq Index /\ \A l \in DOMAIN intno2gpio : intno2gpio[l] \in Pins
  /\ intflag \subseteq DOMAIN intno2gpio /\ inten \subseteq DOMAIN intno2gpio
  /\ mPinInterruptStatus \subseteq Pins /\ owed \subseteq Pins
  /\ interrupt_status \in BOOLEAN /\ mNotify \in BOOLEAN /\ hSaw \in BOOLEAN
  /\ pc \in {"idle", "look", "write", "ack", "cleared"} /\ todo \subseteq Index
  /\ pc \in {"write", "ack"} => todo # {}
  /\ epNotify \in Endpoint
  /\ mNotifyEPEnabled \in BOOLEAN /\ mNotifyEPAborting \in BOOLEAN /\ missed \in BOOLEAN
  /\ configured \in BOOLEAN /\ busReset \in BOOLEAN
  /\ setup \in {"none", "reset", "config"} /\ hPhase \in {"config", "open"}
  /\ hCmds \in Nat /\ hResets \in Nat /\ edges \in Nat

(* A pin that interrupts is one the configuration leaves to the host: no   *)
(* serial traffic is ever reported as a pin interrupt, and no enabled line *)
(* leads EIC_Handler to a pin it does not know.                            *)
LinesOwned ==
  \A l \in inten : intno2gpio[l] = Button \/ (Available(l) /\ mux[l] # "sercom")

(* No edge is lost: until the host clears it, or disables its line, an     *)
(* edge on an enabled line is in the status word or still in INTFLAG,      *)
(* whatever comes between the callback and the acknowledge.                *)
EdgeKept ==
  owed \subseteq mPinInterruptStatus
                   \union {intno2gpio[l] : l \in intflag \intersect inten}

(* Outside of the handlers the notify endpoint carries 1 exactly if some   *)
(* pin's interrupt is not cleared; except that an interrupt from before    *)
(* the first SET_CONFIGURATION is kept from the host until the next one.   *)
Announced ==
  /\ interrupt_status <=> mPinInterruptStatus # {}
  /\ mNotifyEPEnabled /\ ~missed /\ pc \notin {"write", "cleared"} =>
       mNotify = interrupt_status

(* The host learns of it: it sees every value of the bit that stays.       *)
Told ==
  \A b \in BOOLEAN :
    (interrupt_status = b /\ ~missed) ~> (hSaw = b \/ interrupt_status # b \/ missed)
=============================================================================
