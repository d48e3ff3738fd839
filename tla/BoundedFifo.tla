----------------------------- MODULE BoundedFifo -----------------------------
(***************************************************************************)
(* What the ring buffer promises: a first-in first-out queue of bytes that *)
(* never holds more than Capacity of them.  The bytes are numbered in the  *)
(* order they were written.  RingBuffer implements it (RingBuffer!Fifo).   *)
(***************************************************************************)
EXTENDS Naturals, Sequences

CONSTANT Capacity

VARIABLES queue,    \* the bytes that wait, oldest first
          got       \* the bytes that were read, in the order they were read

vars == <<queue, got>>

Init == queue = <<>> /\ got = <<>>

\* n more bytes enter together.
Put(n) == /\ Len(queue) + n <= Capacity
          /\ queue' = queue \o [i \in 1..n |-> Len(got) + Len(queue) + i]
          /\ UNCHANGED got

\* The n oldest bytes leave together.
Take(n) == /\ n <= Len(queue)
           /\ got' = got \o SubSeq(queue, 1, n)
           /\ queue' = SubSeq(queue, n + 1, Len(queue))

Next == \E n \in 1..Capacity : Put(n) \/ Take(n)

Spec == Init /\ [][Next]_vars
=============================================================================
