------------------------------- MODULE MCRing --------------------------------
(* Model-checking instances of RingBuffer. *)
EXTENDS RingBuffer
=============================================================================
