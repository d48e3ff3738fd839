------------------------------- MODULE NetDev --------------------------------
(***************************************************************************)
(* The network path above the SPI driver: netdev_stub.c, netdev_api.c and  *)
(* lwip_startup.c, from a frame in the hands of process_rx_task to lwIP,   *)
(* and from lwIP to send_to_slave, while the CLI task runs start_lwip.     *)
(*                                                                         *)
(* process_rx_task and lwIP's thread run above the CLI: the CLI takes a    *)
(* step only while the other sleeps or has nothing to do, and is preempted *)
(* between any two statements.  A call through a null pointer and a failed *)
(* assertion of lwIP stop the board.                                       *)
(***************************************************************************)
EXTENDS Naturals, Sequences

CONSTANTS IfType,       \* the interface of each frame of the slave, in order
          NumPackets,   \* packets lwIP sends
          RX_QUEUE_SIZE, TO_SLAVE_QUEUE_SIZE

Frames == 1..Len(IfType)
Packets == 1..NumPackets

\* Interfaces of init_netdev.  The firmware opens only the station's.
Interfaces == {"sta", "ap"}

ASSUME IfTypeAssumption == IfType \in Seq(Interfaces)
ASSUME NumPacketsAssumption == NumPackets \in Nat
ASSUME QueueAssumption == RX_QUEUE_SIZE \in Nat \ {0} /\ TO_SLAVE_QUEUE_SIZE \in Nat \ {0}

VARIABLES state,        \* netdev.state of each interface
          rx_q,         \* netdev.rx_q
          net_handle,   \* whether netdev.net_handle is assigned
          sta_handle,   \* whether the handle lwIP sends with is assigned
          gnetif,       \* the fields of lwIP's interface that are set: input, flags
          cli,          \* the statement of start_lwip the CLI is at
          rx,           \* process_rx_task: its place and its frame
          out,          \* myif_link_output: its place and its packet, per task
          to_slave_queue,
          board,        \* "runs", or why it stopped
          fate,         \* of each frame of the slave
          sent,         \* of each packet: whether send_to_slave queued it
          heap, double_free  \* as in SpiDriver

start == <<state, net_handle, sta_handle, gnetif, cli>>
mem == <<heap, double_free>>
vars == <<start, rx_q, rx, out, to_slave_queue, board, fate, sent, mem>>

\* The handle is never stored; netif_add clears flags that are already set.
Mutant_Steps == <<"idle", "netdev_open", "set_sta_handle", "netif_add", "set_flags",
                  "dhcp_start", "started">>
MutantFlags_Steps == <<"idle", "netdev_open", "set_net_handle", "set_sta_handle",
                       "set_flags", "netif_add", "dhcp_start", "started">>
\* start_lwip, in the order of lwip_startup and of the functions it calls
Steps == <<"idle", "netdev_open", "set_net_handle", "set_sta_handle", "netif_add",
           "set_flags", "dhcp_start", "started">>
RxPlaces == {"receive", "netdev_rx", "callback", "network_read", "input", "free_copy",
             "free_net_buf", "delay", "free_handle"}
OutPlaces == {"idle", "write", "send", "free"}
\* The tasks lwIP sends from: its own thread, and the CLI, whose dhcp_start and
\* socket calls run under the core lock in the caller.
Tasks == {"tcpip", "cli"}

\* The buffers of a frame: the driver's handle, netdev_rx's esp_pbuf, the
\* payload, and the esp_pbuf of network_read; and of a packet: its esp_pbuf and
\* its payload.  A pbuf belongs to lwIP.
Handle(f) == <<"handle", f>>
NetBuf(f) == <<"net_buf", f>>
Payload(f) == <<"payload", f>>
Copy(f) == <<"copy", f>>
SndBuffer(p) == <<"snd_buffer", p>>
SndPayload(p) == <<"snd_payload", p>>
Buffers == {"handle", "net_buf", "payload", "copy"} \X Frames
           \cup {"snd_buffer", "snd_payload"} \X Packets

TypeOK ==
    /\ state \in [Interfaces -> {"DOWN", "UP"}]
    /\ rx_q \in [Interfaces -> Seq(Frames)]
    /\ \A i \in Interfaces : Len(rx_q[i]) <= RX_QUEUE_SIZE
    /\ net_handle \in [Interfaces -> BOOLEAN]
    /\ sta_handle \in BOOLEAN
    /\ gnetif \subseteq {"input", "flags"}
    /\ cli \in {Steps[k] : k \in 1..Len(Steps)}
    /\ rx \in [pc : RxPlaces, frame : Frames \cup {0}]
    /\ out \in [Tasks -> [pc : OutPlaces, packet : Packets \cup {0}]]
    /\ to_slave_queue \in Seq(Packets) /\ Len(to_slave_queue) <= TO_SLAVE_QUEUE_SIZE
    /\ board \in {"runs", "null_call", "uninitialized", "null_pbuf", "lwip_assert"}
    /\ fate \in [Frames -> {"none", "down", "refused", "ip_input", "ethernet_input"}]
    /\ sent \in [Packets -> {"none", "given", "queued", "rejected"}]
    /\ heap \subseteq Buffers /\ double_free \subseteq Buffers

\* network_init, init_netdev: both interfaces registered, closed.
Init ==
    /\ state = [i \in Interfaces |-> "DOWN"]
    /\ rx_q = [i \in Interfaces |-> <<>>]
    /\ net_handle = [i \in Interfaces |-> FALSE]
    /\ sta_handle = FALSE
    /\ gnetif = {}
    /\ cli = "idle"
    /\ rx = [pc |-> "receive", frame |-> 0]
    /\ out = [t \in Tasks |-> [pc |-> "idle", packet |-> 0]]
    /\ to_slave_queue = <<>>
    /\ board = "runs"
    /\ fate = [f \in Frames |-> "none"]
    /\ sent = [p \in Packets |-> "none"]
    /\ heap = {} /\ double_free = {}

Allocate(X) == heap' = heap \cup X /\ UNCHANGED double_free
Free(X) == heap' = heap \ X /\ double_free' = double_free \cup (X \ heap)

Index(step) == CHOOSE k \in 1..Len(Steps) : Steps[k] = step
NextStep == Steps[Index(cli) + 1]

Device == IfType[rx.frame]
HasRoom(queue, size) == Len(queue) < size

\* process_rx_task waits for a frame, in osDelay, or for room in rx_q.
RxWaits == \/ rx.pc \in {"receive", "delay"}
           \/ /\ rx.pc = "netdev_rx" /\ state[Device] = "UP"
              /\ ~HasRoom(rx_q[Device], RX_QUEUE_SIZE)

\* The CLI's priority is the lowest.
CliMayRun == RxWaits /\ out["tcpip"].pc \in {"idle", "send"}

--------------------------------------------------------------------------------
\* start_lwip, in the CLI task

CliAt(step) == board = "runs" /\ CliMayRun /\ cli = step /\ cli' = NextStep

StartLwip ==
    /\ CliAt("idle")
    /\ UNCHANGED <<state, net_handle, sta_handle, gnetif, rx_q, rx, out, to_slave_queue,
                   board, fate, sent, mem>>

\* netdev_open: the queue is created before the interface goes up.
NetdevOpen ==
    /\ CliAt("netdev_open")
    /\ rx_q' = [rx_q EXCEPT !["sta"] = <<>>]
    /\ state' = [state EXCEPT !["sta"] = "UP"]
    /\ UNCHANGED <<net_handle, sta_handle, gnetif, rx, out, to_slave_queue, board, fate, sent, mem>>

SetNetHandle ==
    /\ CliAt("set_net_handle")
    /\ net_handle' = [net_handle EXCEPT !["sta"] = TRUE]
    /\ UNCHANGED <<state, sta_handle, gnetif, rx_q, rx, out, to_slave_queue, board, fate, sent, mem>>

SetStaHandle ==
    /\ CliAt("set_sta_handle")
    /\ sta_handle' = TRUE
    /\ UNCHANGED <<state, net_handle, gnetif, rx_q, rx, out, to_slave_queue, board, fate, sent, mem>>

\* netif_add sets input and clears the flags.
NetifAdd ==
    /\ CliAt("netif_add")
    /\ gnetif' = {"input"}
    /\ UNCHANGED <<state, net_handle, sta_handle, rx_q, rx, out, to_slave_queue, board, fate, sent, mem>>

SetFlags ==
    /\ CliAt("set_flags")
    /\ gnetif' = gnetif \cup {"flags"}
    /\ UNCHANGED <<state, net_handle, sta_handle, rx_q, rx, out, to_slave_queue, board, fate, sent, mem>>

DhcpStart ==
    /\ CliAt("dhcp_start") /\ out["cli"].pc = "idle"
    /\ UNCHANGED <<state, net_handle, sta_handle, gnetif, rx_q, rx, out, to_slave_queue,
                   board, fate, sent, mem>>

\* A second start_lwip fails an assertion of lwIP in tcpip_init: its loopback
\* interface was added before.
StartAgain ==
    /\ board = "runs" /\ CliMayRun /\ cli = "started" /\ out["cli"].pc = "idle"
    /\ board' = "lwip_assert"
    /\ UNCHANGED <<start, rx_q, rx, out, to_slave_queue, fate, sent, mem>>

Cli == \/ StartLwip \/ NetdevOpen \/ SetNetHandle \/ SetStaHandle
       \/ NetifAdd \/ SetFlags \/ DhcpStart \/ StartAgain

--------------------------------------------------------------------------------
\* A frame, in process_rx_task

RxAt(place) == board = "runs" /\ rx.pc = place
RxGoto(place) == rx' = [rx EXCEPT !.pc = place]

\* The next frame of the driver, copied for the interface it came on
RxReceive ==
    /\ RxAt("receive") /\ rx.frame + 1 \in Frames
    /\ rx' = [pc |-> "netdev_rx", frame |-> rx.frame + 1]
    /\ Allocate({Handle(rx.frame + 1), NetBuf(rx.frame + 1), Payload(rx.frame + 1)})
    /\ UNCHANGED <<start, rx_q, out, to_slave_queue, board, fate, sent>>

\* netdev_rx: an interface that is down drops the frame and sleeps.
NetdevRx ==
    /\ RxAt("netdev_rx")
    /\ \/ /\ state[Device] = "UP"
          /\ HasRoom(rx_q[Device], RX_QUEUE_SIZE)
          /\ rx_q' = [rx_q EXCEPT ![Device] = Append(@, rx.frame)]
          /\ RxGoto("callback")
          /\ UNCHANGED <<fate, mem>>
       \/ /\ state[Device] = "DOWN"
          /\ fate' = [fate EXCEPT ![rx.frame] = "down"]
          /\ Free({Payload(rx.frame), NetBuf(rx.frame)})
          /\ RxGoto("delay")
          /\ UNCHANGED rx_q
    /\ UNCHANGED <<start, out, to_slave_queue, board, sent>>

Delay ==
    /\ RxAt("delay")
    /\ RxGoto("free_handle")
    /\ UNCHANGED <<start, rx_q, out, to_slave_queue, board, fate, sent, mem>>

\* The callback is read through net_handle, which may not be assigned yet.
Callback ==
    /\ RxAt("callback")
    /\ IF net_handle[Device] THEN RxGoto("network_read") /\ UNCHANGED board
                             ELSE board' = "null_call" /\ UNCHANGED rx
    /\ UNCHANGED <<start, rx_q, out, to_slave_queue, fate, sent, mem>>

\* The frame stays in the queue.
Mutant_Received(queue) == queue
Received(queue) == Tail(queue)

\* network_read does not look at the result of xQueueReceive: from an empty
\* queue it returns an uninitialized buffer.
NetworkRead ==
    /\ RxAt("network_read")
    /\ Allocate({Copy(rx.frame)})
    /\ IF rx_q[Device] # <<>>
       THEN /\ rx_q' = [rx_q EXCEPT ![Device] = Received(@)]
            /\ RxGoto("input") /\ UNCHANGED board
       ELSE /\ board' = "uninitialized" /\ UNCHANGED <<rx_q, rx>>
    /\ UNCHANGED <<start, out, to_slave_queue, fate, sent>>

\* sta_rx_callback: the frame goes to gnetif.input in a pbuf.  tcpip_input
\* refuses it when the mailbox of lwIP is full, and hands it to ip_input as
\* long as the Ethernet flag is not set.  No pbuf in the pool: input gets NULL.
Input ==
    /\ RxAt("input")
    /\ \/ /\ "input" \notin gnetif
          /\ board' = "null_call" /\ UNCHANGED <<rx, fate>>
       \/ /\ "input" \in gnetif
          /\ board' = "null_pbuf" /\ UNCHANGED <<rx, fate>>
       \/ /\ "input" \in gnetif
          /\ \E f \in {"refused", IF "flags" \in gnetif THEN "ethernet_input" ELSE "ip_input"} :
                 fate' = [fate EXCEPT ![rx.frame] = f]
          /\ RxGoto("free_copy") /\ UNCHANGED board
    /\ UNCHANGED <<start, rx_q, out, to_slave_queue, sent, mem>>

FreeCopy ==
    /\ RxAt("free_copy")
    /\ Free({Payload(rx.frame), Copy(rx.frame)})
    /\ RxGoto("free_net_buf")
    /\ UNCHANGED <<start, rx_q, out, to_slave_queue, board, fate, sent>>

FreeNetBuf ==
    /\ RxAt("free_net_buf")
    /\ Free({NetBuf(rx.frame)})
    /\ RxGoto("free_handle")
    /\ UNCHANGED <<start, rx_q, out, to_slave_queue, board, fate, sent>>

FreeHandle ==
    /\ RxAt("free_handle")
    /\ Free({Handle(rx.frame)})
    /\ RxGoto("receive")
    /\ UNCHANGED <<start, rx_q, out, to_slave_queue, board, fate, sent>>

RxTask == \/ RxReceive \/ NetdevRx \/ Delay \/ Callback \/ NetworkRead
          \/ Input \/ FreeCopy \/ FreeNetBuf \/ FreeHandle

--------------------------------------------------------------------------------
\* A packet of lwIP: myif_link_output, network_write, esp_netdev_xmit

OutAt(t, place) == board = "runs" /\ out[t].pc = place /\ (t = "cli" => CliMayRun)
OutGoto(t, place) == out' = [out EXCEPT ![t].pc = place]

\* lwIP sends once its interface is up.
LinkOutput(t, p) ==
    /\ OutAt(t, "idle") /\ cli \in {"dhcp_start", "started"}
    /\ sent[p] = "none" /\ sent' = [sent EXCEPT ![p] = "given"]
    /\ out' = [out EXCEPT ![t] = [pc |-> "write", packet |-> p]]
    /\ Allocate({SndBuffer(p), SndPayload(p)})
    /\ UNCHANGED <<start, rx_q, rx, to_slave_queue, board, fate>>

MaySend == sta_handle /\ state["sta"] = "UP"

\* network_write does nothing, and frees nothing, while the interface is down.
NetworkWrite(t) ==
    /\ OutAt(t, "write")
    /\ OutGoto(t, IF MaySend THEN "send" ELSE "idle")
    /\ UNCHANGED <<start, rx_q, rx, to_slave_queue, board, fate, sent, mem>>

\* send_to_slave frees a payload of a wrong length, or queues it; it waits
\* while the queue is full.
SendToSlave(t) ==
    /\ OutAt(t, "send")
    /\ LET p == out[t].packet
       IN  \/ /\ sent' = [sent EXCEPT ![p] = "rejected"]
              /\ Free({SndPayload(p)}) /\ UNCHANGED to_slave_queue
           \/ /\ HasRoom(to_slave_queue, TO_SLAVE_QUEUE_SIZE)
              /\ to_slave_queue' = Append(to_slave_queue, p)
              /\ sent' = [sent EXCEPT ![p] = "queued"] /\ UNCHANGED mem
    /\ OutGoto(t, "free")
    /\ UNCHANGED <<start, rx_q, rx, board, fate>>

\* esp_netdev_xmit: the payload now belongs to the SPI driver.
Mutant_FreedByXmit(p) == {SndBuffer(p), SndPayload(p)}
FreedByXmit(p) == {SndBuffer(p)}

FreeSndBuffer(t) ==
    /\ OutAt(t, "free")
    /\ Free(FreedByXmit(out[t].packet))
    /\ OutGoto(t, "idle")
    /\ UNCHANGED <<start, rx_q, rx, to_slave_queue, board, fate, sent>>

Output(t) == \/ \E p \in Packets : LinkOutput(t, p)
             \/ NetworkWrite(t) \/ SendToSlave(t) \/ FreeSndBuffer(t)

\* The SPI driver copies the oldest packet into its own buffer.
Transmit ==
    /\ board = "runs" /\ to_slave_queue # <<>>
    /\ to_slave_queue' = Tail(to_slave_queue)
    /\ Free({SndPayload(Head(to_slave_queue))})
    /\ UNCHANGED <<start, rx_q, rx, out, board, fate, sent>>

\* The board stopped, or waits for the next command, frame or packet.
Idle == /\ board # "runs" \/ (cli \in {"idle", "started"} /\ RxWaits)
        /\ UNCHANGED vars

Next == Cli \/ RxTask \/ (\E t \in Tasks : Output(t)) \/ Transmit \/ Idle

Spec == Init /\ [][Next]_vars

\* The scheduler runs each task whose turn it is; nobody has to type a command.
FairSpec ==
    /\ Spec
    /\ WF_vars(RxTask)
    /\ WF_vars(NetdevOpen \/ SetNetHandle \/ SetStaHandle \/ NetifAdd \/ SetFlags \/ DhcpStart)
    /\ \A t \in Tasks : WF_vars(NetworkWrite(t) \/ SendToSlave(t) \/ FreeSndBuffer(t))
    /\ WF_vars(Transmit)

--------------------------------------------------------------------------------
Elems(queue) == {queue[k] : k \in 1..Len(queue)}
RxIn(places) == IF rx.pc \in places THEN {rx.frame} ELSE {}
OutIn(places) == {out[t].packet : t \in {u \in Tasks : out[u].pc \in places}}

\* The buffers a local variable or a queue still names.  A payload goes from
\* netdev_rx's buffer through the queue to the copy of network_read.
Owned ==
    {Handle(f) : f \in RxIn(RxPlaces \ {"receive"})}
    \cup {NetBuf(f) : f \in RxIn({"netdev_rx", "callback", "network_read", "input",
                                  "free_copy", "free_net_buf"})}
    \cup {Payload(f) : f \in RxIn({"netdev_rx", "input", "free_copy"})
                             \cup UNION {Elems(rx_q[i]) : i \in Interfaces}}
    \cup {Copy(f) : f \in RxIn({"input", "free_copy"})}
    \cup {SndBuffer(p) : p \in OutIn({"write", "send", "free"})}
    \cup {SndPayload(p) : p \in OutIn({"write", "send"}) \cup Elems(to_slave_queue)}

\* Although payloads are handed over by copying the structure that points to
\* them, and network_write frees nothing when it refuses a packet, no buffer of
\* the network path leaks, is freed twice, or is used after it was freed.
BuffersOwned == double_free = {} /\ heap = Owned

\* network_read never meets an empty queue, nor another frame than the one
\* whose callback it is: the result it ignores is never a failure.
ReadFindsFrame == /\ board # "uninitialized"
                  /\ rx.pc = "network_read" => rx_q[Device] = <<rx.frame>>

\* A frame makes the rx task call a null pointer only in the window in which
\* start_lwip has the station interface up and lwIP's interface not yet added.
NullCallOnlyWhileOpening ==
    board = "null_call" => /\ Device = "sta"
                           /\ cli \in {"set_net_handle", "set_sta_handle", "netif_add"}

\* Once start_lwip has run, lwIP gets every frame of the station as Ethernet
\* or refuses it: no statement of the start can undo an earlier one.
StartedDelivers ==
    [][\A f \in Frames :
          cli = "started" /\ IfType[f] = "sta" /\ fate'[f] # fate[f]
          => fate'[f] \in {"ethernet_input", "refused"}]_vars

\* process_rx_task decides about every frame it takes - neither the send to rx_q,
\* which may wait for ever, nor the sleep of 50 ms keeps it - and every packet
\* lwIP hands over reaches the queue of the SPI driver or is rejected there,
\* although network_write reports neither.
TrafficSettled ==
    /\ \A f \in Frames : rx.frame = f ~> fate[f] # "none" \/ board # "runs"
    /\ \A p \in Packets : sent[p] = "given" ~> sent[p] \in {"queued", "rejected"} \/ board # "runs"
=============================================================================
