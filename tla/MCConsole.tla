------------------------------ MODULE MCConsole -------------------------------
(* Model-checking instance of UartConsole. *)
EXTENDS UartConsole

CONSTANT other

TwoPrinters == {cli, other}
=============================================================================
