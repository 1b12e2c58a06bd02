----------------------------- MODULE MCLoopRead -----------------------------
(* LoopRead for TLC: digits are binary, a byte is a digit and its          *)
(* continuation bit, and the type of a command byte is its value: one type *)
(* is reserved, one has a parser and two have none.                        *)
EXTENDS LoopRead

AllBytes == Byte
Known == {1}
=============================================================================
