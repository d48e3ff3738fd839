------------------------------ MODULE LwipSockets ------------------------------
(* What iperf and ping share: lwIP's pool of sockets and the CLI task, which   *)
(* starts them and waits for the end of iperf.                                 *)
EXTENDS Naturals

CONSTANT MEMP_NUM_NETCONN   \* sockets lwIP has; 4 in the code

ASSUME PoolAssumption == MEMP_NUM_NETCONN \in Nat \ {0}

VARIABLES netconns,         \* how many are taken
          cli               \* "idle", or "stopping" in iperf_stop

HasSocket == netconns < MEMP_NUM_NETCONN

SocketsInit == netconns = 0 /\ cli = "idle"
SocketsTypeOK == netconns \in 0..MEMP_NUM_NETCONN /\ cli \in {"idle", "stopping"}
=============================================================================
