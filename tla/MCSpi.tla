------------------------------- MODULE MCSpi --------------------------------
(* Instances of the SPI driver for TLC. *)
EXTENDS SpiSched, TLC

CONSTANTS cli, lwip, f1, f2

TwoSenders == {cli, lwip}
OneSender == {lwip}
TwoHostFrames == {f1, f2}
OneHostFrame == {f1}
OneSerial == <<"serial">>
\* After its reset the slave sends INIT first.
InitThenNet == <<"priv_init", "net">>
InitThenSerial == <<"priv_init", "serial">>

Symmetry == Permutations(Senders) \cup Permutations(HostFrames)
=============================================================================
