------------------------------ MODULE MCNetDev ------------------------------
(* An instance of the network path for TLC. *)
EXTENDS NetDev

\* The softAP sends too, although nothing opens its interface.
StaApSta == <<"sta", "ap", "sta", "sta">>
=============================================================================
