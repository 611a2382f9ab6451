---------------------------- MODULE BridgeConfig ----------------------------
(***************************************************************************)
(* The configuration of the bridge: which function the pins and the one    *)
(* serial unit (SERCOM5) serve (rjt_usb_bridge_configuration.c).  Every    *)
(* change runs in the USB handler, which nothing preempts, so it is one    *)
(* step.                                                                   *)
(*                                                                         *)
(* A pin is its index, 0..15 in the code.  Its line of the external        *)
(* interrupt controller has the same number, and setting a configuration   *)
(* disables all of them.                                                   *)
(***************************************************************************)
EXTENDS Integers, FiniteSets

CONSTANTS
  Index,    \* indexes of the pins
  Override  \* mConfig2Override: the indexes each configuration takes

Configs == {"gpio", "spi", "i2c"}

ASSUME IndexAssumption == IsFiniteSet(Index) /\ Index \subseteq 0..15

ASSUME OverrideAssumption ==
  /\ Override \in [Configs -> SUBSET Index]
  /\ Override["gpio"] = {}

VARIABLES
  config,       \* __mCurrentConfig
  mSpiEnabled, mI2cEnabled, \* mSpi.enabled, mI2c.enabled
  sercom,       \* the mode SERCOM5 is enabled in, or "off"
  mux,          \* what each pin is switched to
  inten,        \* EIC->INTENSET: the lines that interrupt
  cfgErr,       \* error code of the last SET_CONFIG
  cfgAssert     \* an ASSERT of the configuration code saw FALSE

configVars == <<config, mSpiEnabled, mI2cEnabled, sercom, mux, inten, cfgErr, cfgAssert>>

(* RJTUSBBridgeConfig_init, and the lines GPIO_init enables then.          *)
ConfigInit(lines) ==
  /\ config = "gpio" /\ mSpiEnabled = FALSE /\ mI2cEnabled = FALSE
  /\ sercom = "off" /\ mux = [i \in Index |-> "port"] /\ inten = lines
  /\ cfgErr = "NONE" /\ cfgAssert = FALSE

(* config2gpio: what the current configuration takes is not available.     *)
Available(i) == i \in Index \ Override[config]

(* Mutant of SpiAfterUninit: the flag is kept.                             *)
SpiKeptByUninit == mSpiEnabled

(* uninit_current_config: the unit of the configuration in force is reset  *)
(* and its flag taken down.                                                *)
SpiAfterUninit == mSpiEnabled /\ config # "spi"
I2cAfterUninit == mI2cEnabled /\ config # "i2c"
SercomAfterUninit == IF config = "gpio" THEN sercom ELSE "off"

UninitAsserts ==
  (config = "spi" => mSpiEnabled) /\ (config = "i2c" => mI2cEnabled)

(* Mutant of LinesAfterGpio: the lines stay enabled.                       *)
LinesKept == inten

(* config_gpio: all pins become inputs, no line interrupts any more; the   *)
(* unit then takes its pins.                                               *)
MuxWith(taken) == [i \in Index |-> IF i \in taken THEN "sercom" ELSE "port"]
LinesAfterGpio == inten \ Index

(* config_spi_master and config_i2c_master: the pins are taken before the  *)
(* baud rate is looked at, so that "refused" (spi_init cannot make it)     *)
(* leaves them with the unit, which is not enabled.  A unit that is in use *)
(* is denied.                                                              *)
Denied == SercomAfterUninit # "off"

Accepted(c, args) == c \in {"spi", "i2c"} /\ args = "ok" /\ ~(c = "spi" /\ Denied)

TakesPins(c, args) ==
  CASE c = "spi" /\ args \in {"ok", "refused"} /\ ~Denied -> Override["spi"]
    [] c = "i2c" /\ args = "ok" /\ ~Denied -> Override["i2c"]
    [] OTHER -> {}

ConfigError(c, args) ==
  CASE c = "unknown" \/ args = "parameter" -> "PARAMETER"
    [] args = "short" -> "MALFORMED_PACKET"
    [] args = "refused" \/ (c = "spi" /\ Denied) -> "OPERATION_FAILED"
    [] OTHER -> "NONE"

(* What can be asked for: a packet too short, a value out of range, a baud *)
(* rate the unit cannot make (SPI only, the I2C ones are fixed).           *)
Requests ==
  {<<"gpio", "ok">>, <<"unknown", "ok">>}
    \union ({"spi", "i2c"} \X {"ok", "short", "parameter"})
    \union {<<"spi", "refused">>}

(* RJTUSBBridgeConfig_setConfig.  The old configuration is gone before the *)
(* new one is looked at.  (A packet without the byte that names one leaves *)
(* everything as it is and is not modelled.)                               *)
SetConfig(c, args) ==
  /\ <<c, args>> \in Requests
  /\ config' = IF Accepted(c, args) THEN c ELSE "gpio"
  /\ mSpiEnabled' = (SpiAfterUninit \/ (c = "spi" /\ Accepted(c, args)))
  /\ mI2cEnabled' = (I2cAfterUninit \/ (c = "i2c" /\ Accepted(c, args)))
  /\ sercom' = IF Accepted(c, args) THEN c ELSE SercomAfterUninit
  /\ mux' = MuxWith(TakesPins(c, args))
  /\ inten' = LinesAfterGpio
  /\ cfgErr' = ConfigError(c, args)
  /\ cfgAssert' = (cfgAssert \/ ~UninitAsserts
                     \/ (c = "spi" /\ args # "short" /\ SpiAfterUninit)
                     \/ (c = "i2c" /\ args = "ok" /\ Denied))

(* CNTRL_REQ_RESET: RJTUSBBridgeConfig_reset.                              *)
ResetConfig ==
  /\ config' = "gpio"
  /\ mSpiEnabled' = SpiAfterUninit /\ mI2cEnabled' = I2cAfterUninit
  /\ sercom' = SercomAfterUninit
  /\ mux' = MuxWith({}) /\ inten' = LinesAfterGpio
  /\ cfgErr' = "NONE"
  /\ cfgAssert' = (cfgAssert \/ ~UninitAsserts)

-----------------------------------------------------------------------------
ConfigTypeOK ==
  /\ config \in Configs /\ sercom \in {"off", "spi", "i2c"}
  /\ mSpiEnabled \in BOOLEAN /\ mI2cEnabled \in BOOLEAN
  /\ mux \in [Index -> {"port", "eic", "sercom"}] /\ inten \subseteq Index
  /\ cfgErr \in {"NONE", "PARAMETER", "MALFORMED_PACKET", "OPERATION_FAILED"}
  /\ cfgAssert \in BOOLEAN

(* The unit that is enabled is the one the configuration names, and only   *)
(* its flag is set.                                                        *)
UnitsMatchConfig ==
  /\ sercom = IF config = "gpio" THEN "off" ELSE config
  /\ mSpiEnabled <=> config = "spi"
  /\ mI2cEnabled <=> config = "i2c"

(* A pin is with the serial unit exactly when the configuration takes it,  *)
(* so a pin a GPIO command is let through for is one it can drive.  It is  *)
(* not so after spi_init has refused a baud rate: its pins stay with it.   *)
PinsMatchConfig ==
  cfgErr # "OPERATION_FAILED" =>
    \A i \in Index : mux[i] = "sercom" <=> i \in Override[config]

(* No ASSERT of rjt_usb_bridge_configuration.c fails.                      *)
ConfigAssertsHold == ~cfgAssert

(* Whatever sequence of configurations, refused ones and resets came       *)
(* before, no unit is left running, none runs unknown to the configuration *)
(* module, the pins are with the unit that has them and no ASSERT about    *)
(* any of it fails.                                                        *)
ConfigOwns == UnitsMatchConfig /\ PinsMatchConfig /\ ConfigAssertsHold
=============================================================================
