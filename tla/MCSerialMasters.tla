-------------------------- MODULE MCSerialMasters --------------------------
(* SerialMasters with three pins, of which SPI takes two and I2C one of    *)
(* those, every format string of up to two operations, and register reads  *)
(* of three.                                                               *)
EXTENDS SerialMasters

MCOverride == [c \in Configs |->
  CASE c = "gpio" -> {} [] c = "spi" -> {0, 2} [] c = "i2c" -> {2}]

MCFmts ==
  UNION {[1..n -> {"W", "w", "r", ".", "?"}] : n \in 0..2}
    \union {<<"W", "w", "r">>, <<"w", "r", ".">>, <<"W", "r", "r">>}
=============================================================================
