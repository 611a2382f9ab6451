------------------------ MODULE PinInterrupts_proofs ------------------------
(***************************************************************************)
(* Theorems about PinInterrupts for any pins, any assignment of them to    *)
(* the configurations and any number of edges, commands and re-openings:   *)
(* only pins of the host interrupt, no edge is lost, and the notify        *)
(* endpoint carries the truth.                                             *)
(***************************************************************************)
EXTENDS PinInterrupts, TLAPS

(* What the operations of an endpoint do to its four bits.                 *)
LEMMA RunBits ==
  ASSUME NEW e \in Endpoint
  PROVE  /\ Run(e) \in Endpoint /\ Run(e).busy /\ Run(e).enabled = e.enabled
         /\ Run(e).trcpt = e.trcpt
         /\ ~e.busy => Run(e).ready = (e.ready \/ e.enabled)
         /\ e.busy => Run(e).ready = e.ready
  BY DEF Run, Endpoint

LEMMA AbortedBits ==
  ASSUME NEW e \in Endpoint
  PROVE  /\ Aborted(e) \in Endpoint /\ ~Aborted(e).busy /\ ~Aborted(e).ready
         /\ ~Aborted(e).trcpt /\ Aborted(e).enabled = e.enabled
  BY DEF Aborted, Endpoint

LEMMA AbortBits ==
  ASSUME NEW e \in Endpoint, NEW inUse \in BOOLEAN
  PROVE  /\ Abort(e, inUse) \in Endpoint /\ Abort(e, inUse).enabled = e.enabled
         /\ Abort(e, inUse).busy <=> (e.busy /\ inUse)
         /\ Abort(e, inUse).ready <=> (e.busy /\ inUse /\ e.enabled)
         /\ ~Abort(e, inUse).trcpt
<1>1. CASE e.busy /\ inUse
  BY <1>1, AbortedBits, RunBits DEF Abort, Reruns
<1>2. CASE ~(e.busy /\ inUse)
  BY <1>2, AbortedBits DEF Abort, Reruns
<1> QED
  BY <1>1, <1>2

LEMMA FreeBits ==
  ASSUME NEW e \in Endpoint, NEW inUse \in BOOLEAN
  PROVE  /\ Free(e, inUse) \in Endpoint /\ ~Free(e, inUse).enabled
         /\ Free(e, inUse).busy <=> (e.busy /\ inUse)
         /\ Free(e, inUse).ready => inUse
         /\ ~Free(e, inUse).trcpt
<1>1. ASSUME NEW a \in Endpoint
      PROVE  /\ [a EXCEPT !.enabled = FALSE] \in Endpoint
             /\ ~[a EXCEPT !.enabled = FALSE].enabled
             /\ [a EXCEPT !.enabled = FALSE].busy = a.busy
             /\ [a EXCEPT !.enabled = FALSE].ready = a.ready
             /\ [a EXCEPT !.enabled = FALSE].trcpt = a.trcpt
  BY DEF Endpoint
<1> QED
  BY <1>1, AbortBits DEF Free

LEMMA OtherBits ==
  ASSUME NEW e \in Endpoint
  PROVE  /\ Alloc(e) \in Endpoint /\ Alloc(e).enabled /\ ~Alloc(e).ready
         /\ Alloc(e).busy = e.busy /\ Alloc(e).trcpt = e.trcpt
         /\ Completed(e) \in Endpoint /\ ~Completed(e).busy /\ ~Completed(e).trcpt
         /\ Completed(e).enabled = e.enabled /\ Completed(e).ready = e.ready
         /\ Transferred(e) \in Endpoint /\ Transferred(e).trcpt /\ ~Transferred(e).ready
         /\ Transferred(e).busy = e.busy /\ Transferred(e).enabled = e.enabled
         /\ BusReset(e) \in Endpoint /\ ~BusReset(e).enabled /\ ~BusReset(e).trcpt
         /\ BusReset(e).busy = e.busy /\ BusReset(e).ready = e.ready
  BY DEF Alloc, Completed, Transferred, BusReset, Endpoint

(* The configuration: ConfigOwns is inductive together with the types.     *)
ConfigInv == ConfigTypeOK /\ ConfigOwns

LEMMA ConfigInitInv ==
  ASSUME NEW lines \in SUBSET Index, ConfigInit(lines)
  PROVE  ConfigInv
<1>1. ConfigTypeOK
  BY DEF ConfigInit, ConfigTypeOK, Configs
<1>2. ConfigOwns
  BY OverrideAssumption
  DEF ConfigInit, ConfigOwns, UnitsMatchConfig, PinsMatchConfig, ConfigAssertsHold
<1> QED
  BY <1>1, <1>2 DEF ConfigInv

(* What uninit_current_config leaves.                                      *)
LEMMA Uninitialised ==
  ASSUME ConfigInv
  PROVE  /\ SpiAfterUninit = FALSE /\ I2cAfterUninit = FALSE
         /\ SercomAfterUninit = "off" /\ ~Denied /\ UninitAsserts
  BY DEF ConfigInv, ConfigTypeOK, Configs, ConfigOwns, UnitsMatchConfig,
         SpiAfterUninit, I2cAfterUninit, SercomAfterUninit, Denied, UninitAsserts

LEMMA MuxWithPins ==
  ASSUME NEW taken \in SUBSET Index
  PROVE  /\ MuxWith(taken) \in [Index -> {"port", "eic", "sercom"}]
         /\ \A i \in Index : MuxWith(taken)[i] = "sercom" <=> i \in taken
  BY DEF MuxWith

LEMMA SetConfigKeeps ==
  ASSUME ConfigInv, NEW c, NEW args, SetConfig(c, args)
  PROVE  ConfigInv'
<1> DEFINE taken == TakesPins(c, args)
<1>1. taken \in SUBSET Index
  BY OverrideAssumption DEF TakesPins, Configs
<1>2. /\ mux' \in [Index -> {"port", "eic", "sercom"}]
      /\ \A i \in Index : mux'[i] = "sercom" <=> i \in taken
  BY <1>1, MuxWithPins DEF SetConfig
<1>3. ConfigTypeOK'
  <2>1. mSpiEnabled' \in BOOLEAN /\ mI2cEnabled' \in BOOLEAN
    BY DEF SetConfig
  <2>2. cfgAssert' \in BOOLEAN
    BY DEF SetConfig
  <2>3. config' \in Configs /\ sercom' \in {"off", "spi", "i2c"}
    BY Uninitialised DEF SetConfig, Accepted, Configs
  <2>4. inten' \subseteq Index
    BY DEF SetConfig, LinesAfterGpio, ConfigInv, ConfigTypeOK
  <2>5. cfgErr' \in {"NONE", "PARAMETER", "MALFORMED_PACKET", "OPERATION_FAILED"}
    BY DEF SetConfig, ConfigError
  <2> QED
    BY <1>2, <2>1, <2>2, <2>3, <2>4, <2>5 DEF ConfigTypeOK
<1>4. UnitsMatchConfig'
  <2>1. sercom' = IF config' = "gpio" THEN "off" ELSE config'
    BY Uninitialised DEF SetConfig, Accepted
  <2>2. /\ mSpiEnabled' <=> config' = "spi"
        /\ mI2cEnabled' <=> config' = "i2c"
    BY Uninitialised DEF SetConfig, Accepted
  <2> QED
    BY <2>1, <2>2 DEF UnitsMatchConfig
<1>5. PinsMatchConfig'
  <2>1. cfgErr' # "OPERATION_FAILED" => taken = Override[config']
    BY Uninitialised, OverrideAssumption
    DEF SetConfig, Accepted, Requests, TakesPins, ConfigError
  <2> QED
    BY <1>2, <2>1 DEF PinsMatchConfig
<1>6. ConfigAssertsHold'
  BY Uninitialised DEF SetConfig, ConfigAssertsHold, ConfigInv, ConfigOwns
<1> QED
  BY <1>3, <1>4, <1>5, <1>6 DEF ConfigInv, ConfigOwns

LEMMA ResetConfigKeeps ==
  ASSUME ConfigInv, ResetConfig
  PROVE  ConfigInv'
<1>1. /\ mux' \in [Index -> {"port", "eic", "sercom"}]
      /\ \A i \in Index : mux'[i] # "sercom"
  BY MuxWithPins DEF ResetConfig
<1>2. ConfigTypeOK'
  BY <1>1, Uninitialised
  DEF ResetConfig, ConfigTypeOK, Configs, LinesAfterGpio, ConfigInv, ConfigOwns,
      ConfigAssertsHold
<1>3. UnitsMatchConfig' /\ ConfigAssertsHold'
  BY Uninitialised
  DEF ResetConfig, UnitsMatchConfig, ConfigAssertsHold, ConfigInv, ConfigOwns
<1>4. PinsMatchConfig'
  BY <1>1, OverrideAssumption DEF ResetConfig, PinsMatchConfig
<1> QED
  BY <1>2, <1>3, <1>4 DEF ConfigInv, ConfigOwns

LEMMA ConfigStutter ==
  ASSUME ConfigInv, UNCHANGED configVars
  PROVE  ConfigInv'
  BY DEF configVars, ConfigInv, ConfigTypeOK, ConfigOwns, UnitsMatchConfig,
         PinsMatchConfig, ConfigAssertsHold
-----------------------------------------------------------------------------
(* A line's pin is its own, or the button.                                 *)
LineOwners ==
  \A l \in DOMAIN intno2gpio :
    intno2gpio[l] = l \/ (l = ButtonLine /\ intno2gpio[l] = Button)

(* Between the callback and the acknowledge the pin is in the status word. *)
InStatus ==
  pc \in {"write", "ack"} /\ AtLine \in inten =>
    intno2gpio[AtLine] \in mPinInterruptStatus

(* Announced, and why it holds when the endpoint is enabled: until then,   *)
(* every change of the bit is missed.                                      *)
Recorded ==
  /\ interrupt_status <=> mPinInterruptStatus # {}
  /\ pc \in {"write", "cleared"} /\ ~mNotifyEPEnabled => missed
  /\ ~missed /\ pc \notin {"write", "cleared"} => mNotify = interrupt_status

(* TypeOK in three parts, for the provers: the configuration, the          *)
(* booleans, and the others.                                               *)
FlagsOK ==
  /\ interrupt_status \in BOOLEAN /\ mNotify \in BOOLEAN /\ hSaw \in BOOLEAN
  /\ mNotifyEPEnabled \in BOOLEAN /\ mNotifyEPAborting \in BOOLEAN /\ missed \in BOOLEAN
  /\ configured \in BOOLEAN /\ busReset \in BOOLEAN

ValuesOK ==
  /\ DOMAIN intno2gpio \subseteq Index /\ \A l \in DOMAIN intno2gpio : intno2gpio[l] \in Pins
  /\ intflag \subseteq DOMAIN intno2gpio /\ inten \subseteq DOMAIN intno2gpio
  /\ mPinInterruptStatus \subseteq Pins /\ owed \subseteq Pins
  /\ pc \in {"idle", "look", "write", "ack", "cleared"} /\ todo \subseteq Index
  /\ pc \in {"write", "ack"} => todo # {}
  /\ epNotify \in Endpoint
  /\ setup \in {"none", "reset", "config"} /\ hPhase \in {"config", "open"}
  /\ hCmds \in Nat /\ hResets \in Nat /\ edges \in Nat

IInv ==
  /\ ConfigInv /\ FlagsOK /\ ValuesOK
  /\ LineOwners /\ InStatus /\ LinesOwned /\ EdgeKept /\ Recorded

LEMMA TypeParts == TypeOK <=> ConfigTypeOK /\ FlagsOK /\ ValuesOK
BY DEF TypeOK, FlagsOK, ValuesOK

LEMMA InitIInv == Init => IInv
<1> SUFFICES ASSUME Init PROVE IInv
  OBVIOUS
<1>0. {ButtonLine} \subseteq Index
  BY PinAssumption
<1>1. ConfigInv
  BY <1>0, ConfigInitInv DEF Init
<1>2. FlagsOK
  BY DEF Init, FlagsOK
<1>3. ValuesOK
  BY <1>0 DEF Init, ConfigInit, ValuesOK, Pins, Endpoint, Unused
<1>4. LineOwners /\ InStatus /\ LinesOwned
  BY DEF Init, ConfigInit, LineOwners, InStatus, LinesOwned
<1>5. EdgeKept /\ Recorded
  BY DEF Init, EdgeKept, Recorded
<1> QED
  BY <1>1, <1>2, <1>3, <1>4, <1>5 DEF IInv

-----------------------------------------------------------------------------
LEMMA ConfigStep == IInv /\ [Next]_vars => ConfigInv'
<1> SUFFICES ASSUME IInv, [Next]_vars PROVE ConfigInv'
  OBVIOUS
<1>0. ConfigInv
  BY DEF IInv
<1>1. ASSUME NEW c, NEW args, UsbSetConfig(c, args)
      PROVE  ConfigInv'
  BY <1>0, <1>1, SetConfigKeeps DEF UsbSetConfig
<1>2. CASE UsbCtrlReset
  BY <1>0, <1>2, ResetConfigKeeps DEF UsbCtrlReset
<1>3. ASSUME NEW i \in Index, EnablePin(i)
      PROVE  ConfigInv'
  <2>1. ConfigTypeOK'
    BY <1>0, <1>3 DEF EnablePin, ConfigInv, ConfigTypeOK
  <2>2. UnitsMatchConfig' /\ ConfigAssertsHold'
    BY <1>0, <1>3
    DEF EnablePin, ConfigInv, ConfigOwns, UnitsMatchConfig, ConfigAssertsHold
  <2>3. PinsMatchConfig'
    BY <1>0, <1>3
    DEF EnablePin, Available, ConfigInv, ConfigTypeOK, ConfigOwns, PinsMatchConfig
  <2> QED
    BY <2>1, <2>2, <2>3 DEF ConfigInv, ConfigOwns
<1>4. ASSUME NEW i \in Index, DisablePin(i)
      PROVE  ConfigInv'
  <2>1. ConfigTypeOK'
    BY <1>0, <1>4 DEF DisablePin, ConfigInv, ConfigTypeOK
  <2>2. ConfigOwns'
    BY <1>0, <1>4
    DEF DisablePin, ConfigInv, ConfigOwns, UnitsMatchConfig, PinsMatchConfig,
        ConfigAssertsHold
  <2> QED
    BY <2>1, <2>2 DEF ConfigInv
<1>5. ASSUME NEW i \in Index, ConfigurePin(i)
      PROVE  ConfigInv'
  <2>1. ConfigTypeOK'
    BY <1>0, <1>5 DEF ConfigurePin, ConfigInv, ConfigTypeOK
  <2>2. UnitsMatchConfig' /\ ConfigAssertsHold'
    BY <1>0, <1>5
    DEF ConfigurePin, ConfigInv, ConfigOwns, UnitsMatchConfig, ConfigAssertsHold
  <2>3. PinsMatchConfig'
    BY <1>0, <1>5
    DEF ConfigurePin, Available, ConfigInv, ConfigTypeOK, ConfigOwns, PinsMatchConfig
  <2> QED
    BY <2>1, <2>2, <2>3 DEF ConfigInv, ConfigOwns
<1>6. CASE UNCHANGED configVars
  BY <1>0, <1>6, ConfigStutter
<1> QED
  BY <1>1, <1>2, <1>3, <1>4, <1>5, <1>6
  DEF Next, Edge, Eic, EicEnter, EicCallback, EicWrite, EicAck, EicSkip, EicLeave,
      ClearStatus, Usb, ClearWrite, UsbNotified, UsbSetConfiguration, UsbBusReset,
      HostPoll, HostConfigure, HostReopen, vars

-----------------------------------------------------------------------------
LEMMA FlagsStep == IInv /\ [Next]_vars => FlagsOK'
<1> SUFFICES ASSUME FlagsOK, ValuesOK, Next \/ UNCHANGED vars PROVE FlagsOK'
  BY DEF IInv
<1> USE DEF FlagsOK
<1>1. ASSUME NEW l \in Index, Edge(l) PROVE FlagsOK'
  BY <1>1 DEF Edge, notifyVars, usbVars, hostVars
<1>2. CASE EicEnter \/ EicSkip \/ EicLeave \/ EicAck
  BY <1>2 DEF EicEnter, EicSkip, EicLeave, EicAck, eicVars, notifyVars, usbVars, hostVars
<1>3. CASE EicWrite \/ ClearWrite
  BY <1>3 DEF EicWrite, ClearWrite, NotifyWrite, eicVars, usbVars, hostVars
<1>4. epNotify.busy \in BOOLEAN
  BY DEF ValuesOK, Endpoint
<1>5. CASE EicCallback
  BY <1>4, <1>5 DEF EicCallback, NotifyAbort, usbVars, hostVars
<1>6. ASSUME NEW mask \in SUBSET Pins, ClearStatus(mask) PROVE FlagsOK'
  BY <1>4, <1>6 DEF ClearStatus, NotifyAbort, usbVars
<1>7. ASSUME NEW i \in Index, EnablePin(i) \/ DisablePin(i) \/ ConfigurePin(i)
      PROVE  FlagsOK'
  BY <1>7 DEF EnablePin, DisablePin, ConfigurePin, eicVars, notifyVars, usbVars
<1>8. ASSUME NEW c, NEW args, UsbSetConfig(c, args) PROVE FlagsOK'
  BY <1>8 DEF UsbSetConfig, notifyVars, usbVars
<1>9. CASE UsbCtrlReset
  BY <1>9 DEF UsbCtrlReset, notifyVars, hostVars
<1>10. CASE UsbNotified
  BY <1>10 DEF UsbNotified, eicVars, usbVars, hostVars
<1>11. CASE UsbSetConfiguration
  <2>1. AbortingAfterFree \in BOOLEAN
    BY <1>4 DEF AbortingAfterFree
  <2>2. mNotifyEPAborting' = ~Alloc(Freed).busy \/ mNotifyEPAborting' = AbortingAfterFree
    BY <1>11 DEF UsbSetConfiguration
  <2>3. mNotifyEPAborting' \in BOOLEAN
    BY <2>1, <2>2
  <2> QED
    BY <1>11, <2>3 DEF UsbSetConfiguration, eicVars, hostVars
<1>12. CASE UsbBusReset
  BY <1>4, <1>12 DEF UsbBusReset, AbortingAfterFree, eicVars, hostVars
<1>13. CASE HostPoll \/ HostConfigure
  BY <1>13 DEF HostPoll, HostConfigure, eicVars, notifyVars, usbVars
<1>14. ASSUME NEW way \in ReopenWays, HostReopen(way) PROVE FlagsOK'
  BY <1>14 DEF HostReopen, eicVars
<1>15. CASE UNCHANGED vars
  BY <1>15 DEF vars, eicVars, notifyVars, usbVars, hostVars
<1> QED
  BY <1>1, <1>2, <1>3, <1>5, <1>6, <1>7, <1>8, <1>9, <1>10, <1>11, <1>12, <1>13,
     <1>14, <1>15 DEF Next, Eic, Usb

LEMMA EndpointStays ==
  ASSUME FlagsOK, ValuesOK
  PROVE  /\ NotifyAbort => epNotify' \in Endpoint
         /\ Freed \in Endpoint
<1>1. epNotify \in Endpoint /\ mNotifyEPEnabled \in BOOLEAN
  BY DEF FlagsOK, ValuesOK
<1>2. NotifyAbort => epNotify' \in Endpoint
  <2>1. Abort(epNotify, TRUE) \in Endpoint
    BY <1>1, AbortBits
  <2>2. NotifyAbort => epNotify' \in {epNotify, Abort(epNotify, TRUE)}
    BY DEF NotifyAbort
  <2> QED
    BY <1>1, <2>1, <2>2
<1>3. Freed \in Endpoint
  BY <1>1, FreeBits DEF Freed
<1> QED
  BY <1>2, <1>3

LEMMA ValuesStep == IInv /\ [Next]_vars => ValuesOK'
<1> SUFFICES ASSUME FlagsOK, ValuesOK, ConfigInv, Next \/ UNCHANGED vars PROVE ValuesOK'
  BY DEF IInv
<1>0. inten \subseteq Index /\ ButtonLine \in Index
  BY PinAssumption DEF ConfigInv, ConfigTypeOK
<1>00. epNotify \in Endpoint
  BY DEF ValuesOK
<1>1. ASSUME NEW l \in Index, Edge(l) PROVE ValuesOK'
  <2>1. owed' \subseteq Pins
    BY <1>1 DEF Edge, Sensing, ValuesOK
  <2> QED
    BY <1>1, <2>1 DEF Edge, Sensing, ValuesOK, configVars, notifyVars, usbVars, hostVars
<1>2. CASE EicEnter \/ EicSkip \/ EicLeave
  BY <1>2 DEF EicEnter, EicSkip, EicLeave, ValuesOK, configVars, eicVars, notifyVars,
              usbVars, hostVars
<1>3. CASE EicAck
  BY <1>3 DEF EicAck, Acknowledged, ValuesOK, configVars, notifyVars, usbVars, hostVars
<1>4. CASE EicWrite \/ ClearWrite
  BY <1>4 DEF EicWrite, ClearWrite, ValuesOK, configVars, eicVars, usbVars, hostVars
<1>5. CASE EicCallback
  <2>1. intno2gpio[AtLine] \in Pins
    BY <1>5 DEF EicCallback, ValuesOK
  <2>2. mPinInterruptStatus' \subseteq Pins /\ epNotify' \in Endpoint
        /\ pc' \in {"write", "ack"} /\ todo' = todo /\ todo # {}
    BY <1>5, <2>1, EndpointStays DEF EicCallback, ValuesOK
  <2> QED
    BY <1>5, <2>2 DEF EicCallback, ValuesOK, configVars, usbVars, hostVars
<1>6. ASSUME NEW mask \in SUBSET Pins, ClearStatus(mask) PROVE ValuesOK'
  <2>1. epNotify' \in Endpoint /\ pc' \in {"idle", "cleared"}
    BY <1>6, <1>00, EndpointStays DEF ClearStatus, Command
  <2> QED
    BY <1>6, <2>1 DEF ClearStatus, Command, ValuesOK, configVars, usbVars
<1>7. ASSUME NEW i \in Index, EnablePin(i) PROVE ValuesOK'
  <2>1. /\ DOMAIN intno2gpio' = DOMAIN intno2gpio \union {i}
        /\ \A l \in DOMAIN intno2gpio' : intno2gpio'[l] \in Pins
    BY <1>7 DEF EnablePin, Configured, ValuesOK, Pins
  <2>2. owed' \subseteq Pins
    BY <1>7 DEF EnablePin, StillOwed, ValuesOK
  <2> QED
    BY <1>7, <2>1, <2>2 DEF EnablePin, Command, ValuesOK, notifyVars, usbVars
<1>8. ASSUME NEW i \in Index, DisablePin(i) \/ ConfigurePin(i) PROVE ValuesOK'
  BY <1>8 DEF DisablePin, ConfigurePin, StillOwed, Command, ValuesOK, eicVars, notifyVars,
              usbVars
<1>9. ASSUME NEW c, NEW args, UsbSetConfig(c, args) PROVE ValuesOK'
  BY <1>9 DEF UsbSetConfig, SetConfig, LinesAfterGpio, StillOwed, Command, ValuesOK,
              notifyVars, usbVars
<1>10. CASE UsbCtrlReset
  BY <1>10 DEF UsbCtrlReset, ResetConfig, LinesAfterGpio, StillOwed, ValuesOK,
               notifyVars, hostVars
<1>11. CASE UsbNotified
  <2>1. epNotify' \in Endpoint
    BY <1>11, <1>00, OtherBits, RunBits DEF UsbNotified
  <2> QED
    BY <1>11, <2>1 DEF UsbNotified, ValuesOK, configVars, eicVars, usbVars, hostVars
<1>12. CASE UsbSetConfiguration
  <2>1. Alloc(Freed) \in Endpoint
    BY EndpointStays, OtherBits
  <2>2. Abort(Alloc(Freed), TRUE) \in Endpoint /\ Run(Alloc(Freed)) \in Endpoint
    BY <2>1, AbortBits, RunBits
  <2>3. epNotify' \in {Abort(Alloc(Freed), TRUE), Run(Alloc(Freed))}
    BY <1>12 DEF UsbSetConfiguration
  <2>4. epNotify' \in Endpoint
    BY <2>2, <2>3
  <2> QED
    BY <1>12, <2>4 DEF UsbSetConfiguration, ValuesOK, configVars, eicVars, hostVars
<1>13. CASE UsbBusReset
  BY <1>13, EndpointStays DEF UsbBusReset, ValuesOK, configVars, eicVars, hostVars
<1>14. CASE HostPoll
  <2>1. epNotify' \in Endpoint
    BY <1>14, <1>00, OtherBits DEF HostPoll
  <2> QED
    BY <1>14, <2>1 DEF HostPoll, ValuesOK, configVars, eicVars, usbVars
<1>15. CASE HostConfigure
  BY <1>15 DEF HostConfigure, ValuesOK, configVars, eicVars, notifyVars
<1>16. ASSUME NEW way \in ReopenWays, HostReopen(way) PROVE ValuesOK'
  <2>1. epNotify' \in Endpoint
    BY <1>16, <1>00, OtherBits DEF HostReopen
  <2> QED
    BY <1>16, <2>1 DEF HostReopen, ValuesOK, configVars, eicVars
<1>17. CASE UNCHANGED vars
  BY <1>17 DEF vars, ValuesOK, configVars, eicVars, notifyVars, usbVars, hostVars
<1> QED
  BY <1>1, <1>2, <1>3, <1>4, <1>5, <1>6, <1>7, <1>8, <1>9, <1>10, <1>11, <1>12, <1>13,
     <1>14, <1>15, <1>16, <1>17 DEF Next, Eic, Usb

-----------------------------------------------------------------------------
(* The lines and their pins: what EnablePin changes of them, and all that  *)
(* leaves them alone.                                                      *)
LinesUnchanged == UNCHANGED <<intno2gpio, inten, mux, config>>

LEMMA OwnersStep == IInv /\ [Next]_vars => LineOwners' /\ LinesOwned'
<1> SUFFICES ASSUME IInv, [Next]_vars PROVE LineOwners' /\ LinesOwned'
  OBVIOUS
<1>0. /\ ConfigTypeOK /\ ValuesOK /\ LineOwners /\ LinesOwned
      /\ inten \subseteq Index /\ inten \subseteq DOMAIN intno2gpio
  BY DEF IInv, ConfigInv, ConfigTypeOK, ValuesOK
<1>1. ASSUME NEW i \in Index, EnablePin(i) PROVE LineOwners' /\ LinesOwned'
  <2>1. /\ DOMAIN intno2gpio' = DOMAIN intno2gpio \union {i} /\ intno2gpio'[i] = i
        /\ \A l \in DOMAIN intno2gpio \ {i} : intno2gpio'[l] = intno2gpio[l]
    BY <1>1 DEF EnablePin, Configured
  <2>2. LineOwners'
    BY <1>0, <2>1 DEF LineOwners
  <2>3. /\ mux'[i] = "eic" /\ inten' = inten \union {i} /\ Available(i)
        /\ \A l \in Index \ {i} : mux'[l] = mux[l]
        /\ config' = config
    BY <1>0, <1>1 DEF EnablePin, ConfigTypeOK
  <2>4. \A l \in Index : Available(l)' <=> Available(l)
    BY <2>3 DEF Available
  <2>5. ASSUME NEW l \in inten'
        PROVE  intno2gpio'[l] = Button \/ (Available(l)' /\ mux'[l] # "sercom")
    BY <1>0, <2>1, <2>3, <2>4, <2>5 DEF LinesOwned
  <2> QED
    BY <2>2, <2>5 DEF LinesOwned
<1>2. ASSUME NEW i \in Index, DisablePin(i) PROVE LineOwners' /\ LinesOwned'
  BY <1>0, <1>2 DEF DisablePin, LineOwners, LinesOwned, Available
<1>3. ASSUME NEW i \in Index, ConfigurePin(i) PROVE LineOwners' /\ LinesOwned'
  <2>1. UNCHANGED <<intno2gpio, inten, config>>
    BY <1>3 DEF ConfigurePin, eicVars
  <2>2. \A l \in Index : mux'[l] # "sercom" \/ mux'[l] = mux[l]
    BY <1>0, <1>3 DEF ConfigurePin, ConfigTypeOK
  <2>3. \A l \in Index : Available(l)' <=> Available(l)
    BY <2>1 DEF Available
  <2> QED
    BY <1>0, <2>1, <2>2, <2>3 DEF LineOwners, LinesOwned
<1>4. CASE inten' = inten \ Index /\ UNCHANGED intno2gpio
  BY <1>0, <1>4 DEF LineOwners, LinesOwned
<1>5. CASE LinesUnchanged
  BY <1>0, <1>5 DEF LinesUnchanged, LineOwners, LinesOwned, Available
<1>6. ASSUME NEW c, NEW args, UsbSetConfig(c, args) PROVE LineOwners' /\ LinesOwned'
  BY <1>4, <1>6 DEF UsbSetConfig, SetConfig, LinesAfterGpio
<1>7. CASE UsbCtrlReset
  BY <1>4, <1>7 DEF UsbCtrlReset, ResetConfig, LinesAfterGpio
<1> QED
  BY <1>1, <1>2, <1>3, <1>5, <1>6, <1>7
  DEF LinesUnchanged, Next, Edge, Eic, EicEnter, EicCallback, EicWrite, EicAck, EicSkip,
      EicLeave, ClearStatus, Usb, ClearWrite, UsbNotified, UsbSetConfiguration,
      UsbBusReset, HostPoll, HostConfigure, HostReopen, vars, configVars, eicVars

-----------------------------------------------------------------------------
(* An enabled line's pin is one EIC_Handler knows, so the callback puts it *)
(* into the status word.                                                   *)
LEMMA EnabledIsKnown ==
  ASSUME IInv, NEW l \in inten
  PROVE  Known(intno2gpio[l])
<1>1. l \in DOMAIN intno2gpio
  BY DEF IInv, ValuesOK
<1>2. CASE intno2gpio[l] = Button
  BY <1>2 DEF Known
<1>3. CASE intno2gpio[l] = l /\ intno2gpio[l] # Button
  BY <1>3 DEF IInv, LinesOwned, Known
<1> QED
  BY <1>1, <1>2, <1>3 DEF IInv, LineOwners

LEMMA InStatusStep == IInv /\ [Next]_vars => InStatus'
<1> SUFFICES ASSUME IInv, [Next]_vars PROVE InStatus'
  OBVIOUS
<1>0. InStatus /\ ValuesOK
  BY DEF IInv
<1>1. CASE EicCallback
  <2>1. CASE Known(intno2gpio[AtLine])
    BY <1>1, <2>1 DEF EicCallback, InStatus, AtLine, configVars
  <2>2. CASE ~Known(intno2gpio[AtLine])
    <3>1. AtLine \notin inten
      BY <2>2, EnabledIsKnown
    <3> QED
      BY <1>1, <3>1 DEF EicCallback, InStatus, AtLine, configVars
  <2> QED
    BY <2>1, <2>2
<1>2. CASE UNCHANGED <<pc, todo, inten, intno2gpio, mPinInterruptStatus>>
  BY <1>0, <1>2 DEF InStatus, AtLine
<1>3. CASE pc' \notin {"write", "ack"}
  BY <1>3 DEF InStatus, AtLine
<1>4. CASE EicWrite
  BY <1>0, <1>4 DEF EicWrite, InStatus, AtLine, configVars, eicVars
<1>5. ASSUME NEW i \in Index, EnablePin(i) \/ DisablePin(i) \/ ConfigurePin(i)
      PROVE  InStatus'
  BY <1>3, <1>5 DEF EnablePin, DisablePin, ConfigurePin, Command
<1>6. ASSUME NEW c, NEW args, UsbSetConfig(c, args) PROVE InStatus'
  BY <1>3, <1>6 DEF UsbSetConfig, Command
<1>7. ASSUME NEW mask \in SUBSET Pins, ClearStatus(mask) PROVE InStatus'
  BY <1>3, <1>7 DEF ClearStatus, Command
<1>8. CASE EicEnter \/ EicAck \/ EicSkip \/ EicLeave \/ ClearWrite \/ UsbCtrlReset
  BY <1>3, <1>8 DEF EicEnter, EicAck, EicSkip, EicLeave, ClearWrite, UsbCtrlReset
<1> QED
  BY <1>1, <1>2, <1>4, <1>5, <1>6, <1>7, <1>8
  DEF Next, Edge, Eic, Usb, UsbNotified, UsbSetConfiguration,
      UsbBusReset, HostPoll, HostConfigure, HostReopen, vars, configVars, eicVars

-----------------------------------------------------------------------------
(* What is still owed when some lines stop: pins of the lines that stay,   *)
(* whose flags stay.                                                       *)
LEMMA StillKept ==
  ASSUME IInv, NEW lines \in SUBSET inten
  PROVE  StillOwed(lines) \subseteq
           mPinInterruptStatus \union {intno2gpio[l] : l \in intflag \intersect lines}
<1> SUFFICES ASSUME NEW p \in owed, NEW l \in lines, intno2gpio[l] = p,
                    p \notin mPinInterruptStatus
             PROVE  \E m \in intflag \intersect lines : intno2gpio[m] = p
  BY DEF StillOwed
<1>1. PICK m \in intflag \intersect inten : intno2gpio[m] = p
  BY DEF IInv, EdgeKept
<1>2. m \in DOMAIN intno2gpio /\ l \in DOMAIN intno2gpio
      /\ m \in 0..15 /\ l \in 0..15
  BY <1>1, IndexAssumption DEF IInv, ValuesOK
<1>3. m = l
  BY <1>1, <1>2 DEF IInv, LineOwners, Button
<1> QED
  BY <1>1, <1>3

LEMMA EdgeKeptStep == IInv /\ [Next]_vars => EdgeKept'
<1> SUFFICES ASSUME IInv, [Next]_vars PROVE EdgeKept'
  OBVIOUS
<1>0. EdgeKept /\ inten \subseteq Index /\ inten \subseteq DOMAIN intno2gpio
      /\ intflag \subseteq DOMAIN intno2gpio
  BY DEF IInv, ConfigInv, ConfigTypeOK, ValuesOK
<1>1. ASSUME NEW l \in Index, Edge(l) PROVE EdgeKept'
  BY <1>0, <1>1 DEF Edge, EdgeKept, configVars
<1>2. CASE EicCallback
  BY <1>0, <1>2 DEF EicCallback, EdgeKept, configVars
<1>3. CASE EicAck
  <2>1. AtLine \in inten => intno2gpio[AtLine] \in mPinInterruptStatus
    BY <1>3 DEF EicAck, IInv, InStatus
  <2> QED
    BY <1>0, <1>3, <2>1 DEF EicAck, Acknowledged, EdgeKept, configVars
<1>4. ASSUME NEW i \in Index, EnablePin(i) PROVE EdgeKept'
  <2>1. owed' \subseteq mPinInterruptStatus
          \union {intno2gpio[l] : l \in intflag \intersect (inten \ {i})}
    BY <1>4, StillKept DEF EnablePin
  <2>2. \A l \in intflag \intersect (inten \ {i}) :
          intno2gpio'[l] = intno2gpio[l] /\ l \in intflag' \intersect inten'
    BY <1>0, <1>4 DEF EnablePin, Configured
  <2>3. mPinInterruptStatus' = mPinInterruptStatus
    BY <1>4 DEF EnablePin
  <2> QED
    BY <2>1, <2>2, <2>3 DEF EdgeKept
<1>5. ASSUME NEW i \in Index, DisablePin(i) PROVE EdgeKept'
  <2>1. owed' \subseteq mPinInterruptStatus
          \union {intno2gpio[l] : l \in intflag \intersect (inten \ {i})}
    BY <1>5, StillKept DEF DisablePin
  <2> QED
    BY <1>5, <2>1 DEF DisablePin, EdgeKept
<1>6. CASE /\ inten' = inten \ Index /\ owed' = StillOwed(inten')
           /\ UNCHANGED <<intflag, intno2gpio, mPinInterruptStatus>>
  BY <1>0, <1>6, StillKept DEF EdgeKept
<1>7. ASSUME NEW mask \in SUBSET Pins, ClearStatus(mask) PROVE EdgeKept'
  BY <1>0, <1>7 DEF ClearStatus, EdgeKept, configVars
<1>8. CASE UNCHANGED <<intflag, inten, intno2gpio, mPinInterruptStatus, owed>>
  BY <1>0, <1>8 DEF EdgeKept
<1>9. ASSUME NEW c, NEW args, UsbSetConfig(c, args) PROVE EdgeKept'
  BY <1>6, <1>9 DEF UsbSetConfig, SetConfig, LinesAfterGpio
<1>10. CASE UsbCtrlReset
  BY <1>6, <1>10 DEF UsbCtrlReset, ResetConfig, LinesAfterGpio
<1> QED
  BY <1>1, <1>2, <1>3, <1>4, <1>5, <1>7, <1>8, <1>9, <1>10
  DEF Next, Eic, EicEnter, EicWrite, EicSkip, EicLeave, Usb, ClearWrite, ConfigurePin,
      UsbNotified, UsbSetConfiguration, UsbBusReset, HostPoll, HostConfigure, HostReopen,
      vars, configVars, eicVars

-----------------------------------------------------------------------------
LEMMA RecordedStep == IInv /\ [Next]_vars => Recorded'
<1> SUFFICES ASSUME FlagsOK, Recorded, [Next]_vars PROVE Recorded'
  BY DEF IInv
<1> USE DEF Recorded, FlagsOK
<1>1. CASE UNCHANGED <<interrupt_status, mPinInterruptStatus, pc, missed, mNotify,
                       mNotifyEPEnabled>>
  BY <1>1
<1>2. CASE EicCallback
  BY <1>2 DEF EicCallback, NotifyAbort
<1>3. ASSUME NEW mask \in SUBSET Pins, ClearStatus(mask) PROVE Recorded'
  <2>1. CASE mPinInterruptStatus \ mask # {}
    BY <1>3, <2>1 DEF ClearStatus, Command, StillUp
  <2>2. CASE mPinInterruptStatus \ mask = {}
    BY <1>3, <2>2 DEF ClearStatus, Command, StillUp, NotifyAbort
  <2> QED
    BY <2>1, <2>2
<1>4. CASE EicWrite \/ ClearWrite
  BY <1>4 DEF EicWrite, ClearWrite, NotifyWrite, eicVars
<1>5. CASE EicEnter \/ EicAck \/ EicSkip \/ EicLeave
  BY <1>5 DEF EicEnter, EicAck, EicSkip, EicLeave, eicVars, notifyVars
<1>6. CASE UsbSetConfiguration
  BY <1>6 DEF UsbSetConfiguration, eicVars
<1> QED
  BY <1>1, <1>2, <1>3, <1>4, <1>5, <1>6
  DEF Next, Edge, Eic, Usb, UsbCtrlReset, UsbNotified, UsbBusReset, EnablePin, DisablePin,
      ConfigurePin, UsbSetConfig, HostPoll, HostConfigure, HostReopen, vars, eicVars,
      notifyVars

LEMMA IInvStep == IInv /\ [Next]_vars => IInv'
BY ConfigStep, FlagsStep, ValuesStep, OwnersStep, InStatusStep, EdgeKeptStep, RecordedStep
DEF IInv

-----------------------------------------------------------------------------
(* Every reachable state is well typed, and no line raises a flag that has *)
(* no callback to go to.                                                   *)
THEOREM TypeCorrect == Spec => []TypeOK
<1>1. IInv => TypeOK
  BY TypeParts DEF IInv, ConfigInv
<1> QED
  BY InitIInv, IInvStep, <1>1, PTL DEF Spec

(* Whatever pins each configuration takes, and however configurations,     *)
(* resets and pin commands follow each other, a line that interrupts       *)
(* belongs to the button or to a pin the host may use, so serial traffic   *)
(* raises no interrupt and EIC_Handler knows every pin it is called for.   *)
THEOREM OnlyHostPinsInterrupt == Spec => []LinesOwned
<1>1. IInv => LinesOwned
  BY DEF IInv
<1> QED
  BY InitIInv, IInvStep, <1>1, PTL DEF Spec

(* However edges fall between the statements of EIC_Handler, each is in    *)
(* the status word or in INTFLAG until the host clears or disables it.     *)
THEOREM NoEdgeLost == Spec => []EdgeKept
<1>1. IInv => EdgeKept
  BY DEF IInv
<1> QED
  BY InitIInv, IInvStep, <1>1, PTL DEF Spec

(* Outside of the handlers the notify endpoint carries the state of the    *)
(* status word, through aborts, configurations and resets of the bus,      *)
(* unless a change fell into the time before the endpoint was there.       *)
THEOREM NotifyCarriesStatus == Spec => []Announced
<1>1. IInv => Announced
  BY DEF IInv, Recorded, Announced
<1> QED
  BY InitIInv, IInvStep, <1>1, PTL DEF Spec
=============================================================================
