------------------------------- MODULE MCTools --------------------------------
(* Model-checking instances of Tools. *)
EXTENDS Tools

AllModes == {"udp_client", "udp_server", "tcp_client", "tcp_server"}
=============================================================================
