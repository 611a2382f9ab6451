-------------------------- MODULE MCPinInterrupts --------------------------
(* PinInterrupts with three pins, of which SPI takes two and I2C one of    *)
(* those; the button shares the line of the third.                         *)
EXTENDS PinInterrupts

MCOverride == [c \in Configs |->
  CASE c = "gpio" -> {} [] c = "spi" -> {0, 2} [] c = "i2c" -> {2}]
=============================================================================
