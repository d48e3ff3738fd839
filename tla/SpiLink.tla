------------------------------- MODULE SpiLink -------------------------------
(***************************************************************************)
(* What the SPI driver promises its users, with no queue, task or mutex in *)
(* it: a frame accepted by send_to_slave reaches the slave at most once or *)
(* is lost, and a frame the slave hands out reaches its upper layer at     *)
(* most once, in the order the slave handed them out, or is dropped.       *)
(* SpiDriver implements it (SpiDriver!Link).                               *)
(***************************************************************************)
EXTENDS Naturals, Sequences

CONSTANT HostFrames

VARIABLES accepted,     \* host frames, in the order the driver accepted them
          wire,         \* host frames, in the order the slave received them
          lost,         \* host frames that left the driver and never arrive
          slave_sent,   \* how many frames the slave has queued: 1, 2, ...
          delivered,    \* slave frames the upper layers got
          dropped       \* slave frames the driver discarded

vars == <<accepted, wire, lost, slave_sent, delivered, dropped>>

Elems(s) == {s[i] : i \in 1..Len(s)}

InTransit == Elems(accepted) \ (Elems(wire) \cup lost)
Pending == (1..slave_sent) \ (delivered \cup dropped)

Init == /\ accepted = <<>> /\ wire = <<>> /\ lost = {}
        /\ slave_sent = 0 /\ delivered = {} /\ dropped = {}

Accept(f) == /\ f \notin Elems(accepted)
             /\ accepted' = Append(accepted, f)
             /\ UNCHANGED <<wire, lost, slave_sent, delivered, dropped>>

\* At most one host frame arrives or is lost.
Outgoing == \/ UNCHANGED <<wire, lost>>
            \/ \E f \in InTransit : wire' = Append(wire, f) /\ UNCHANGED lost
            \/ \E f \in InTransit : lost' = lost \cup {f} /\ UNCHANGED wire

\* At most one slave frame is dropped.
Incoming == \/ UNCHANGED dropped
            \/ \E r \in Pending : dropped' = dropped \cup {r}

\* A transaction is full duplex: it settles a frame in each direction.
Exchange == Outgoing /\ Incoming /\ UNCHANGED <<accepted, slave_sent, delivered>>

SlaveSends == /\ slave_sent' = slave_sent + 1
              /\ UNCHANGED <<accepted, wire, lost, delivered, dropped>>

\* No frame is delivered after one that the slave sent later.
Deliver(r) == /\ r \in Pending
              /\ \A d \in delivered : d < r
              /\ delivered' = delivered \cup {r}
              /\ UNCHANGED <<accepted, wire, lost, slave_sent, dropped>>

Next == \/ \E f \in HostFrames : Accept(f)
        \/ Exchange
        \/ SlaveSends
        \/ \E r \in Pending : Deliver(r)

Spec == Init /\ [][Next]_vars
=============================================================================
