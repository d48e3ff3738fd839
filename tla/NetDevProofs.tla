---------------------------- MODULE NetDevProofs -----------------------------
(***************************************************************************)
(* Proofs about NetDev, for every sequence of frames, number of packets    *)
(* and queue sizes.  The inductive invariant NetInv says how far start_lwip *)
(* has got by the fields it assigned, that rx_q holds the frame whose       *)
(* callback runs and nothing else, and which task holds which packet.       *)
(***************************************************************************)
EXTENDS NetDev, TLAPS


\* What start_lwip assigned so far; nobody opens the softAP.
Opening ==
    /\ state["ap"] = "DOWN" /\ rx_q["ap"] = <<>>
    /\ state["sta"] = "UP" <=> cli \notin {"idle", "netdev_open"}
    /\ net_handle["sta"] <=> cli \in {"set_sta_handle", "netif_add", "set_flags", "dhcp_start", "started"}
    /\ sta_handle <=> cli \in {"netif_add", "set_flags", "dhcp_start", "started"}
    /\ "input" \in gnetif <=> cli \in {"set_flags", "dhcp_start", "started"}
    /\ "flags" \in gnetif <=> cli \in {"dhcp_start", "started"}

\* A frame goes through the station's queue alone.
Receiving ==
    /\ rx.pc # "receive" => rx.frame \in Frames
    /\ rx.pc \in {"callback", "network_read", "input", "free_copy", "free_net_buf"}
       => Device = "sta" /\ state["sta"] = "UP"
    /\ rx.pc \in {"network_read", "input"} => net_handle["sta"]
    /\ rx_q["sta"] = IF rx.pc \in {"callback", "network_read"} THEN <<rx.frame>> ELSE <<>>
    /\ board # "uninitialized"

\* A packet is in the hands of one task, or in the queue once.
Sending ==
    /\ \A t \in Tasks : out[t].pc # "idle" =>
          /\ out[t].packet \in Packets /\ sent[out[t].packet] # "none"
          /\ cli \in {"dhcp_start", "started"}
    /\ \A t \in Tasks : out[t].pc \in {"write", "send"} => sent[out[t].packet] = "given"
    /\ \A t, u \in Tasks : t # u /\ out[t].pc # "idle" /\ out[u].pc # "idle"
                           => out[t].packet # out[u].packet
    /\ \A k \in 1..Len(to_slave_queue) : sent[to_slave_queue[k]] = "queued"
    /\ \A j, k \in 1..Len(to_slave_queue) : to_slave_queue[j] = to_slave_queue[k] => j = k

\* Which buffers are allocated, kind by kind.
RxHeap ==
    /\ \A f \in Frames :
          /\ Handle(f) \in heap <=> rx.pc # "receive" /\ rx.frame = f
          /\ NetBuf(f) \in heap <=> rx.pc \notin {"receive", "delay", "free_handle"} /\ rx.frame = f
          /\ Payload(f) \in heap <=> /\ rx.pc \in {"netdev_rx", "callback", "network_read", "input", "free_copy"}
                                    /\ rx.frame = f
          /\ Copy(f) \in heap <=> rx.pc \in {"input", "free_copy"} /\ rx.frame = f
    /\ double_free = {}

SndHeap ==
    \A p \in Packets :
        /\ SndBuffer(p) \in heap <=> \E t \in Tasks : out[t].pc # "idle" /\ out[t].packet = p
        /\ SndPayload(p) \in heap
           <=> \/ \E t \in Tasks : out[t].pc \in {"write", "send"} /\ out[t].packet = p
               \/ p \in Elems(to_slave_queue)

NetInv == TypeOK /\ Opening /\ Receiving /\ Sending /\ RxHeap /\ SndHeap /\ NullCallOnlyWhileOpening

--------------------------------------------------------------------------------
(* The statements of start_lwip. *)

CliPlaces == {"idle", "netdev_open", "set_net_handle", "set_sta_handle", "netif_add",
              "set_flags", "dhcp_start", "started"}

LEMMA StepsAre == {Steps[k] : k \in 1..Len(Steps)} = CliPlaces
  <1>1. 1..Len(Steps) = {1, 2, 3, 4, 5, 6, 7, 8}
    BY DEF Steps
  <1>2. QED
    BY <1>1 DEF Steps, CliPlaces

LEMMA IndexIs ==
    ASSUME NEW k \in 1..7, NEW step, Steps[k] = step
    PROVE  Index(step) = k
  <1>1. k \in 1..Len(Steps)
    BY DEF Steps
  <1>2. \A j \in 1..Len(Steps) : Steps[j] = step <=> j = k
    <2>1. 1..Len(Steps) = {1, 2, 3, 4, 5, 6, 7, 8} /\ k \in {1, 2, 3, 4, 5, 6, 7}
      BY DEF Steps
    <2>2. QED
      BY <2>1 DEF Steps
  <1>3. QED
    BY <1>1, <1>2 DEF Index

LEMMA NextSteps ==
    /\ cli = "idle" => NextStep = "netdev_open"
    /\ cli = "netdev_open" => NextStep = "set_net_handle"
    /\ cli = "set_net_handle" => NextStep = "set_sta_handle"
    /\ cli = "set_sta_handle" => NextStep = "netif_add"
    /\ cli = "netif_add" => NextStep = "set_flags"
    /\ cli = "set_flags" => NextStep = "dhcp_start"
    /\ cli = "dhcp_start" => NextStep = "started"
  <1>1. /\ Index("idle") = 1 /\ Index("netdev_open") = 2 /\ Index("set_net_handle") = 3
        /\ Index("set_sta_handle") = 4 /\ Index("netif_add") = 5 /\ Index("set_flags") = 6
        /\ Index("dhcp_start") = 7
    BY IndexIs DEF Steps
  <1>2. QED
    BY <1>1 DEF NextStep, Steps

LEMMA DeviceType == ASSUME rx.frame \in Frames PROVE Device \in Interfaces
  BY IfTypeAssumption DEF Device, Frames

--------------------------------------------------------------------------------
(* Types. *)

LEMMA TypeInit == Init => TypeOK
  <1> SUFFICES ASSUME Init PROVE TypeOK
    OBVIOUS
  <1>1. rx_q \in [Interfaces -> Seq(Frames)] /\ \A i \in Interfaces : Len(rx_q[i]) <= RX_QUEUE_SIZE
    <2>1. <<>> \in Seq(Frames) /\ Len(<<>>) <= RX_QUEUE_SIZE
      BY QueueAssumption
    <2>2. QED
      BY <2>1 DEF Init
  <1>2. to_slave_queue \in Seq(Packets) /\ Len(to_slave_queue) <= TO_SLAVE_QUEUE_SIZE
    BY QueueAssumption DEF Init
  <1>3. /\ state \in [Interfaces -> {"DOWN", "UP"}] /\ net_handle \in [Interfaces -> BOOLEAN]
        /\ sta_handle \in BOOLEAN /\ gnetif \subseteq {"input", "flags"}
    BY DEF Init
  <1>4. cli \in {Steps[k] : k \in 1..Len(Steps)}
    BY StepsAre DEF Init, CliPlaces
  <1>5. /\ rx \in [pc : RxPlaces, frame : Frames \cup {0}]
        /\ out \in [Tasks -> [pc : OutPlaces, packet : Packets \cup {0}]]
    BY DEF Init, RxPlaces, OutPlaces
  <1>6. QED
    BY <1>1, <1>2, <1>3, <1>4, <1>5 DEF Init, TypeOK

LEMMA FrameBuffers ==
    ASSUME NEW f \in Frames
    PROVE  {Handle(f), NetBuf(f), Payload(f), Copy(f)} \subseteq Buffers
  BY DEF Handle, NetBuf, Payload, Copy, Buffers

LEMMA PacketBuffers ==
    ASSUME NEW p \in Packets
    PROVE  {SndBuffer(p), SndPayload(p)} \subseteq Buffers
  BY DEF SndBuffer, SndPayload, Buffers

LEMMA AllocateType ==
    ASSUME NEW X, X \subseteq Buffers, heap \subseteq Buffers, double_free \subseteq Buffers, Allocate(X)
    PROVE  heap' \subseteq Buffers /\ double_free' \subseteq Buffers
  BY DEF Allocate

LEMMA FreeType ==
    ASSUME NEW X, X \subseteq Buffers, heap \subseteq Buffers, double_free \subseteq Buffers, Free(X)
    PROVE  heap' \subseteq Buffers /\ double_free' \subseteq Buffers
  BY DEF Free

\* The steps of start_lwip change neither frames nor packets.
LEMMA TypeCli == TypeOK /\ Receiving /\ Cli => TypeOK'
  <1> SUFFICES ASSUME TypeOK, Receiving, Cli PROVE TypeOK'
    OBVIOUS
  <1>1. /\ UNCHANGED <<rx, out, to_slave_queue, fate, sent, heap, double_free>>
        /\ board' \in {board, "lwip_assert"}
    BY DEF Cli, StartLwip, NetdevOpen, SetNetHandle, SetStaHandle, NetifAdd, SetFlags, DhcpStart,
           StartAgain, mem
  <1>2. cli' \in CliPlaces
    BY NextSteps, StepsAre
       DEF TypeOK, CliPlaces, Cli, StartLwip, NetdevOpen, SetNetHandle, SetStaHandle, NetifAdd,
           SetFlags, DhcpStart, StartAgain, CliAt, start
  <1>3. /\ state' = state \/ state' = [state EXCEPT !["sta"] = "UP"]
        /\ net_handle' = net_handle \/ net_handle' = [net_handle EXCEPT !["sta"] = TRUE]
        /\ sta_handle' \in {sta_handle, TRUE}
        /\ \/ gnetif' = gnetif
           \/ gnetif' = {"input"}
           \/ gnetif' = gnetif \cup {"flags"}
    BY DEF Cli, StartLwip, NetdevOpen, SetNetHandle, SetStaHandle, NetifAdd, SetFlags, DhcpStart,
           StartAgain, start
  <1>4. rx_q' \in [Interfaces -> Seq(Frames)] /\ \A i \in Interfaces : Len(rx_q'[i]) <= RX_QUEUE_SIZE
    <2>1. rx_q' = rx_q \/ rx_q' = [rx_q EXCEPT !["sta"] = <<>>]
      BY DEF Cli, StartLwip, NetdevOpen, SetNetHandle, SetStaHandle, NetifAdd, SetFlags,
             DhcpStart, StartAgain
    <2>2. Len(<<>>) <= RX_QUEUE_SIZE /\ <<>> \in Seq(Frames)
      BY QueueAssumption
    <2>3. rx_q \in [Interfaces -> Seq(Frames)] /\ \A i \in Interfaces : Len(rx_q[i]) <= RX_QUEUE_SIZE
      BY DEF TypeOK
    <2>4. QED
      BY <2>1, <2>2, <2>3
  <1>5. /\ state' \in [Interfaces -> {"DOWN", "UP"}] /\ net_handle' \in [Interfaces -> BOOLEAN]
        /\ sta_handle' \in BOOLEAN /\ gnetif' \subseteq {"input", "flags"}
    <2>1. state \in [Interfaces -> {"DOWN", "UP"}] /\ net_handle \in [Interfaces -> BOOLEAN]
      BY DEF TypeOK
    <2>2. gnetif \subseteq {"input", "flags"} /\ sta_handle \in BOOLEAN
      BY DEF TypeOK
    <2>3. state' \in [Interfaces -> {"DOWN", "UP"}]
      BY <1>3, <2>1
    <2>4. net_handle' \in [Interfaces -> BOOLEAN]
      BY <1>3, <2>1
    <2>5. gnetif' \subseteq {"input", "flags"}
      BY <1>3, <2>2
    <2>6. sta_handle' \in BOOLEAN
      BY <1>3, <2>2
    <2>7. QED
      BY <2>3, <2>4, <2>5, <2>6
  <1>6. QED
    BY <1>1, <1>2, <1>4, <1>5, StepsAre DEF TypeOK

LEMMA TypeRx == TypeOK /\ Receiving /\ RxTask => TypeOK'
  <1> SUFFICES ASSUME TypeOK, Receiving, RxTask PROVE TypeOK'
    OBVIOUS
  <1> USE DEF RxAt, RxGoto
  <1>1. UNCHANGED <<start, out, to_slave_queue, sent>>
    BY DEF RxTask, RxReceive, NetdevRx, Delay, Callback, NetworkRead, Input, FreeCopy, FreeNetBuf,
           FreeHandle
  <1>2. rx' \in [pc : RxPlaces, frame : Frames \cup {0}]
    <2>1. \/ rx' = rx
          \/ \E place \in RxPlaces : rx' = [rx EXCEPT !.pc = place]
          \/ \E f \in Frames : rx' = [pc |-> "netdev_rx", frame |-> f]
      BY DEF RxPlaces, RxTask, RxReceive, NetdevRx, Delay, Callback, NetworkRead, Input,
           FreeCopy, FreeNetBuf, FreeHandle
    <2>2. rx \in [pc : RxPlaces, frame : Frames \cup {0}]
      BY DEF TypeOK
    <2>3. ASSUME NEW place \in RxPlaces
          PROVE  [rx EXCEPT !.pc = place] \in [pc : RxPlaces, frame : Frames \cup {0}]
      BY <2>2
    <2>4. ASSUME NEW f \in Frames
          PROVE  [pc |-> "netdev_rx", frame |-> f] \in [pc : RxPlaces, frame : Frames \cup {0}]
      BY DEF RxPlaces
    <2>5. QED
      BY <2>1, <2>2, <2>3, <2>4
  <1>3. board' \in {"runs", "null_call", "uninitialized", "null_pbuf", "lwip_assert"}
    BY DEF TypeOK, RxTask, RxReceive, NetdevRx, Delay, Callback, NetworkRead, Input, FreeCopy,
           FreeNetBuf, FreeHandle
  <1>4. fate' \in [Frames -> {"none", "down", "refused", "ip_input", "ethernet_input"}]
    <2>1. \/ fate' = fate
          \/ \E v \in {"down", "refused", "ip_input", "ethernet_input"} :
                 fate' = [fate EXCEPT ![rx.frame] = v]
      BY DEF RxTask, RxReceive, NetdevRx, Delay, Callback, NetworkRead, Input, FreeCopy, FreeNetBuf,
             FreeHandle
    <2>2. QED
      BY <2>1 DEF TypeOK
  <1>5. heap' \subseteq Buffers /\ double_free' \subseteq Buffers
    <2>1. rx.pc # "receive" => {Handle(rx.frame), NetBuf(rx.frame), Payload(rx.frame), Copy(rx.frame)}
                               \subseteq Buffers
      BY FrameBuffers DEF Receiving
    <2>2. CASE RxReceive
      <3>1. {Handle(rx.frame + 1), NetBuf(rx.frame + 1), Payload(rx.frame + 1)} \subseteq Buffers
        BY <2>2, FrameBuffers DEF RxReceive
      <3>2. QED
        BY <2>2, <3>1, AllocateType DEF RxReceive, TypeOK
    <2>3. CASE NetworkRead
      <3>1. {Copy(rx.frame)} \subseteq Buffers
        BY <2>1, <2>3 DEF NetworkRead
      <3>2. QED
        BY <2>3, <3>1, AllocateType DEF NetworkRead, TypeOK
    <2>4. CASE NetdevRx
      <3>1. {Payload(rx.frame), NetBuf(rx.frame)} \subseteq Buffers
        BY <2>1, <2>4 DEF NetdevRx
      <3>2. QED
        BY <2>4, <3>1, FreeType DEF NetdevRx, TypeOK, mem
    <2>5. CASE FreeCopy \/ FreeNetBuf \/ FreeHandle
      <3>1. /\ {Payload(rx.frame), Copy(rx.frame)} \subseteq Buffers
            /\ {NetBuf(rx.frame)} \subseteq Buffers /\ {Handle(rx.frame)} \subseteq Buffers
        BY <2>1, <2>5 DEF FreeCopy, FreeNetBuf, FreeHandle
      <3>2. QED
        BY <2>5, <3>1, FreeType DEF FreeCopy, FreeNetBuf, FreeHandle, TypeOK
    <2>6. CASE Delay \/ Callback \/ Input
      BY <2>6 DEF Delay, Callback, Input, mem, TypeOK
    <2>7. QED
      BY <2>2, <2>3, <2>4, <2>5, <2>6 DEF RxTask
  <1>6. rx_q' \in [Interfaces -> Seq(Frames)] /\ \A i \in Interfaces : Len(rx_q'[i]) <= RX_QUEUE_SIZE
    <2>1. CASE NetdevRx
      <3>1. CASE UNCHANGED rx_q
        BY <3>1 DEF TypeOK
      <3>2. CASE /\ HasRoom(rx_q[Device], RX_QUEUE_SIZE)
                 /\ rx_q' = [rx_q EXCEPT ![Device] = Append(@, rx.frame)]
        <4>1. rx.frame \in Frames /\ Device \in Interfaces
          BY <2>1, DeviceType DEF NetdevRx, Receiving
        <4>2. /\ Append(rx_q[Device], rx.frame) \in Seq(Frames)
              /\ Len(Append(rx_q[Device], rx.frame)) <= RX_QUEUE_SIZE
          BY <3>2, <4>1, QueueAssumption DEF HasRoom, TypeOK
        <4>3. QED
          BY <3>2, <4>1, <4>2 DEF TypeOK
      <3>3. QED
        BY <2>1, <3>1, <3>2 DEF NetdevRx
    <2>2. CASE NetworkRead
      <3>1. CASE UNCHANGED rx_q
        BY <3>1 DEF TypeOK
      <3>2. CASE rx_q[Device] # <<>> /\ rx_q' = [rx_q EXCEPT ![Device] = Tail(@)]
        <4>1. Device \in Interfaces
          BY <2>2, DeviceType DEF NetworkRead, Receiving
        <4>2. Tail(rx_q[Device]) \in Seq(Frames) /\ Len(Tail(rx_q[Device])) <= RX_QUEUE_SIZE
          BY <3>2, <4>1, QueueAssumption DEF TypeOK
        <4>3. QED
          BY <3>2, <4>1, <4>2 DEF TypeOK
      <3>3. QED
        BY <2>2, <3>1, <3>2 DEF NetworkRead, Received
    <2>3. CASE UNCHANGED rx_q
      BY <2>3 DEF TypeOK
    <2>4. QED
      BY <2>1, <2>2, <2>3 DEF RxTask, RxReceive, Delay, Callback, Input, FreeCopy, FreeNetBuf, FreeHandle
  <1>7. QED
    BY <1>1, <1>2, <1>3, <1>4, <1>5, <1>6 DEF TypeOK, start

\* A step of a packet changes nothing of start_lwip or of the frames.
LEMMA OutputLeaves ==
    ASSUME NEW t \in Tasks, Output(t)
    PROVE  UNCHANGED <<state, rx_q, net_handle, sta_handle, gnetif, cli, rx, board, fate>>
  BY DEF Output, LinkOutput, NetworkWrite, SendToSlave, FreeSndBuffer, start

LEMMA TypeOutput ==
    ASSUME TypeOK, Sending, NEW t \in Tasks, Output(t)
    PROVE  TypeOK'
  <1> USE DEF OutAt, OutGoto
  <1>1. out \in [Tasks -> [pc : OutPlaces, packet : Packets \cup {0}]] /\ out[t].packet \in Packets \cup {0}
    BY DEF TypeOK
  <1>2. out[t].pc # "idle" => out[t].packet \in Packets
    BY DEF Sending
  <1>3. out' \in [Tasks -> [pc : OutPlaces, packet : Packets \cup {0}]]
    <2>1. \/ \E place \in OutPlaces : out' = [out EXCEPT ![t].pc = place]
          \/ \E p \in Packets : out' = [out EXCEPT ![t] = [pc |-> "write", packet |-> p]]
      BY DEF Output, LinkOutput, NetworkWrite, SendToSlave, FreeSndBuffer, OutPlaces
    <2>2. ASSUME NEW place \in OutPlaces
          PROVE  [out EXCEPT ![t].pc = place] \in [Tasks -> [pc : OutPlaces, packet : Packets \cup {0}]]
      BY <1>1
    <2>3. ASSUME NEW p \in Packets
          PROVE  [out EXCEPT ![t] = [pc |-> "write", packet |-> p]]
                 \in [Tasks -> [pc : OutPlaces, packet : Packets \cup {0}]]
      BY <1>1 DEF OutPlaces
    <2>4. QED
      BY <2>1, <2>2, <2>3
  <1>4. sent' \in [Packets -> {"none", "given", "queued", "rejected"}]
    <2>1. \/ sent' = sent
          \/ \E p \in Packets, v \in {"given", "queued", "rejected"} : sent' = [sent EXCEPT ![p] = v]
      BY <1>2 DEF Output, LinkOutput, NetworkWrite, SendToSlave, FreeSndBuffer
    <2>2. QED
      BY <2>1 DEF TypeOK
  <1>5. to_slave_queue' \in Seq(Packets) /\ Len(to_slave_queue') <= TO_SLAVE_QUEUE_SIZE
    <2>1. \/ to_slave_queue' = to_slave_queue
          \/ /\ HasRoom(to_slave_queue, TO_SLAVE_QUEUE_SIZE)
             /\ \E p \in Packets : to_slave_queue' = Append(to_slave_queue, p)
      BY <1>2 DEF Output, LinkOutput, NetworkWrite, SendToSlave, FreeSndBuffer
    <2>2. to_slave_queue \in Seq(Packets) /\ Len(to_slave_queue) <= TO_SLAVE_QUEUE_SIZE
      BY DEF TypeOK
    <2>3. QED
      BY <2>1, <2>2, QueueAssumption DEF HasRoom
  <1>6. heap' \subseteq Buffers /\ double_free' \subseteq Buffers
    <2>1. CASE \E p \in Packets : LinkOutput(t, p)
      BY <2>1, PacketBuffers, AllocateType DEF LinkOutput, TypeOK
    <2>2. CASE NetworkWrite(t)
      BY <2>2 DEF NetworkWrite, TypeOK, mem
    <2>3. CASE SendToSlave(t)
      <3>1. {SndPayload(out[t].packet)} \subseteq Buffers
        BY <1>2, <2>3, PacketBuffers DEF SendToSlave
      <3>2. QED
        BY <2>3, <3>1, FreeType DEF SendToSlave, TypeOK, mem
    <2>4. CASE FreeSndBuffer(t)
      <3>1. FreedByXmit(out[t].packet) \subseteq Buffers
        BY <1>2, <2>4, PacketBuffers DEF FreeSndBuffer, FreedByXmit
      <3>2. QED
        BY <2>4, <3>1, FreeType DEF FreeSndBuffer, TypeOK
    <2>5. QED
      BY <2>1, <2>2, <2>3, <2>4 DEF Output
  <1>7. QED
    BY <1>3, <1>4, <1>5, <1>6, OutputLeaves DEF TypeOK

LEMMA TypeTransmit == TypeOK /\ Transmit => TypeOK'
  <1> SUFFICES ASSUME TypeOK, Transmit PROVE TypeOK'
    OBVIOUS
  <1>1. to_slave_queue \in Seq(Packets) /\ to_slave_queue # <<>>
    BY DEF TypeOK, Transmit
  <1>2. /\ Head(to_slave_queue) \in Packets /\ Tail(to_slave_queue) \in Seq(Packets)
        /\ Len(Tail(to_slave_queue)) = Len(to_slave_queue) - 1 /\ Len(to_slave_queue) \in Nat
    BY <1>1
  <1>3. to_slave_queue' \in Seq(Packets) /\ Len(to_slave_queue') <= TO_SLAVE_QUEUE_SIZE
    BY <1>2, QueueAssumption DEF TypeOK, Transmit
  <1>4. {SndPayload(Head(to_slave_queue))} \subseteq Buffers
    BY <1>2, PacketBuffers
  <1>5. heap' \subseteq Buffers /\ double_free' \subseteq Buffers
    BY <1>4, FreeType DEF Transmit, TypeOK
  <1>6. UNCHANGED <<state, rx_q, net_handle, sta_handle, gnetif, cli, rx, out, board, fate, sent>>
    BY DEF Transmit, start
  <1>7. QED
    BY <1>3, <1>5, <1>6 DEF TypeOK

LEMMA TypeIdle == TypeOK /\ UNCHANGED vars => TypeOK'
  BY DEF TypeOK, vars, start, mem

--------------------------------------------------------------------------------
(* How far start_lwip has got, and the frame in the station's queue. *)

LEMMA OpeningCli == TypeOK /\ Opening /\ Cli => Opening'
  <1> SUFFICES ASSUME TypeOK, Opening, Cli PROVE Opening'
    OBVIOUS
  <1> USE DEF CliAt
  <1>1. /\ state \in [Interfaces -> {"DOWN", "UP"}] /\ rx_q \in [Interfaces -> Seq(Frames)]
        /\ net_handle \in [Interfaces -> BOOLEAN] /\ "sta" \in Interfaces /\ "ap" \in Interfaces
    BY DEF TypeOK, Interfaces
  <1>2. CASE StartLwip \/ DhcpStart
    BY <1>2, NextSteps DEF StartLwip, DhcpStart, Opening
  <1>3. CASE NetdevOpen
    <2>1. cli = "netdev_open" /\ cli' = "set_net_handle" /\ UNCHANGED <<net_handle, sta_handle, gnetif>>
      BY <1>3, NextSteps DEF NetdevOpen
    <2>2. /\ state'["ap"] = "DOWN" /\ rx_q'["ap"] = <<>> /\ state'["sta"] = "UP"
      BY <1>1, <1>3 DEF NetdevOpen, Opening
    <2>3. QED
      BY <2>1, <2>2 DEF Opening
  <1>4. CASE SetNetHandle
    <2>1. cli = "set_net_handle" /\ cli' = "set_sta_handle" /\ UNCHANGED <<state, rx_q, sta_handle, gnetif>>
      BY <1>4, NextSteps DEF SetNetHandle
    <2>2. net_handle'["sta"]
      BY <1>1, <1>4 DEF SetNetHandle
    <2>3. QED
      BY <2>1, <2>2 DEF Opening
  <1>5. CASE SetStaHandle
    BY <1>5, NextSteps DEF SetStaHandle, Opening
  <1>6. CASE NetifAdd
    <2>1. /\ cli = "netif_add" /\ cli' = "set_flags" /\ gnetif' = {"input"}
          /\ UNCHANGED <<state, rx_q, net_handle, sta_handle>>
      BY <1>6, NextSteps DEF NetifAdd
    <2>2. QED
      BY <2>1 DEF Opening
  <1>7. CASE SetFlags
    <2>1. /\ cli = "set_flags" /\ cli' = "dhcp_start" /\ gnetif' = gnetif \cup {"flags"}
          /\ UNCHANGED <<state, rx_q, net_handle, sta_handle>>
      BY <1>7, NextSteps DEF SetFlags
    <2>2. QED
      BY <2>1 DEF Opening
  <1>8. CASE StartAgain
    BY <1>8 DEF StartAgain, start, Opening
  <1>9. QED
    BY <1>2, <1>3, <1>4, <1>5, <1>6, <1>7, <1>8 DEF Cli

\* netdev_open replaces the queue, but only while no frame is in it.
LEMMA ReceivingCli == TypeOK /\ Opening /\ Receiving /\ Cli => Receiving'
  <1> SUFFICES ASSUME TypeOK, Opening, Receiving, Cli PROVE Receiving'
    OBVIOUS
  <1>1. UNCHANGED rx /\ board = "runs" /\ board' \in {"runs", "lwip_assert"}
    BY DEF Cli, StartLwip, NetdevOpen, SetNetHandle, SetStaHandle, NetifAdd, SetFlags, DhcpStart,
           StartAgain, CliAt
  <1>2. state'["sta"] = state["sta"] \/ state'["sta"] = "UP"
    BY DEF Cli, StartLwip, NetdevOpen, SetNetHandle, SetStaHandle, NetifAdd, SetFlags, DhcpStart,
           StartAgain, start, TypeOK, Interfaces
  <1>3. net_handle["sta"] => net_handle'["sta"]
    <2>1. net_handle' = net_handle \/ net_handle' = [net_handle EXCEPT !["sta"] = TRUE]
      BY DEF Cli, StartLwip, NetdevOpen, SetNetHandle, SetStaHandle, NetifAdd, SetFlags, DhcpStart,
             StartAgain, start
    <2>2. net_handle \in [Interfaces -> BOOLEAN] /\ "sta" \in Interfaces
      BY DEF TypeOK, Interfaces
    <2>3. QED
      BY <2>1, <2>2
  <1>4. rx_q'["sta"] = rx_q["sta"]
    <2>1. CASE NetdevOpen
      <3>1. rx_q["sta"] = <<>>
        BY <2>1 DEF NetdevOpen, CliAt, Opening, Receiving
      <3>2. rx_q'["sta"] = <<>>
        BY <2>1 DEF NetdevOpen, TypeOK, Interfaces
      <3>3. QED
        BY <3>1, <3>2
    <2>2. QED
      BY <2>1 DEF Cli, StartLwip, SetNetHandle, SetStaHandle, NetifAdd, SetFlags, DhcpStart, StartAgain
  <1>5. QED
    BY <1>1, <1>2, <1>3, <1>4 DEF Receiving, Device

LEMMA OpeningRx == TypeOK /\ Opening /\ Receiving /\ RxTask => Opening'
  <1> SUFFICES ASSUME TypeOK, Opening, Receiving, RxTask PROVE Opening'
    OBVIOUS
  <1>1. UNCHANGED <<state, net_handle, sta_handle, gnetif, cli>>
    BY DEF RxTask, RxReceive, NetdevRx, Delay, Callback, NetworkRead, Input, FreeCopy, FreeNetBuf,
           FreeHandle, start
  <1>2. rx_q'["ap"] = rx_q["ap"]
    <2>1. CASE NetdevRx
      <3>1. \/ rx_q' = rx_q
            \/ state[Device] = "UP" /\ rx_q' = [rx_q EXCEPT ![Device] = Append(@, rx.frame)]
        BY <2>1 DEF NetdevRx
      <3>2. QED
        BY <3>1 DEF Opening, TypeOK, Interfaces
    <2>2. CASE NetworkRead
      <3>1. Device = "sta"
        BY <2>2 DEF NetworkRead, RxAt, Receiving
      <3>2. QED
        BY <2>2, <3>1 DEF NetworkRead, TypeOK, Interfaces
    <2>3. QED
      BY <2>1, <2>2 DEF RxTask, RxReceive, Delay, Callback, Input, FreeCopy, FreeNetBuf, FreeHandle
  <1>3. QED
    BY <1>1, <1>2 DEF Opening

\* What a frame of process_rx_task meets
LEMMA ReceivingRx == TypeOK /\ Opening /\ Receiving /\ RxTask => Receiving'
  <1> SUFFICES ASSUME TypeOK, Opening, Receiving, RxTask PROVE Receiving'
    OBVIOUS
  <1> USE DEF RxAt, RxGoto
  <1>0. /\ rx \in [pc : RxPlaces, frame : Frames \cup {0}]
        /\ rx_q \in [Interfaces -> Seq(Frames)] /\ Interfaces = {"sta", "ap"}
    BY DEF TypeOK, Interfaces
  <1>1. UNCHANGED <<state, net_handle>>
    BY DEF RxTask, RxReceive, NetdevRx, Delay, Callback, NetworkRead, Input, FreeCopy, FreeNetBuf,
           FreeHandle, start
  <1>2. CASE RxReceive
    <2>1. /\ rx.pc = "receive" /\ rx'.pc = "netdev_rx" /\ rx'.frame \in Frames
          /\ UNCHANGED <<rx_q, board>>
      BY <1>2 DEF RxReceive
    <2>2. QED
      BY <1>1, <2>1 DEF Receiving
  <1>3. CASE NetdevRx
    <2>1. rx.pc = "netdev_rx" /\ rx'.frame = rx.frame /\ UNCHANGED board
      BY <1>0, <1>3 DEF NetdevRx
    <2>2. CASE /\ state[Device] = "UP" /\ rx_q' = [rx_q EXCEPT ![Device] = Append(@, rx.frame)]
               /\ rx' = [rx EXCEPT !.pc = "callback"]
      <3>1. rx.frame \in Frames /\ Device = "sta" /\ Device' = "sta"
        BY <1>0, <2>1, <2>2, DeviceType DEF Receiving, Opening, Device
      <3>2. rx_q["sta"] = <<>>
        BY <2>1 DEF Receiving
      <3>3. rx_q'["sta"] = <<rx.frame>>
        BY <1>0, <2>2, <3>1, <3>2
      <3>4. rx'.pc = "callback"
        BY <1>0, <2>2
      <3>5. QED
        BY <1>1, <2>1, <2>2, <3>1, <3>3, <3>4 DEF Receiving
    <2>3. CASE rx' = [rx EXCEPT !.pc = "delay"] /\ UNCHANGED rx_q
      <3>1. rx'.pc = "delay"
        BY <1>0, <2>3
      <3>2. QED
        BY <1>1, <2>1, <2>3, <3>1 DEF Receiving
    <2>4. QED
      BY <1>3, <2>2, <2>3 DEF NetdevRx
  <1>4. CASE Callback
    <2>1. rx.pc = "callback" /\ rx'.frame = rx.frame /\ UNCHANGED rx_q /\ Device' = Device
      BY <1>0, <1>4 DEF Callback, Device
    <2>2. \/ rx'.pc = "network_read" /\ net_handle[Device] /\ board' = board
          \/ rx'.pc = "callback" /\ board' = "null_call"
      BY <1>0, <1>4 DEF Callback
    <2>3. QED
      BY <1>1, <2>1, <2>2 DEF Receiving
  <1>5. CASE NetworkRead
    <2>1. /\ rx.pc = "network_read" /\ Device = "sta" /\ rx_q["sta"] = <<rx.frame>>
          /\ state["sta"] = "UP" /\ net_handle["sta"] /\ rx.frame \in Frames
      BY <1>5 DEF NetworkRead, Receiving
    <2>2. /\ rx_q' = [rx_q EXCEPT !["sta"] = Tail(@)] /\ rx' = [rx EXCEPT !.pc = "input"]
          /\ UNCHANGED board
      BY <1>5, <2>1 DEF NetworkRead, Received
    <2>3. rx'.pc = "input" /\ rx'.frame = rx.frame /\ Device' = "sta"
      BY <1>0, <2>1, <2>2 DEF Device
    <2>4. rx_q'["sta"] = <<>>
      BY <1>0, <2>1, <2>2
    <2>5. QED
      BY <1>1, <2>1, <2>2, <2>3, <2>4 DEF Receiving
  <1>6. CASE Input
    <2>1. /\ rx.pc = "input" /\ rx'.frame = rx.frame /\ rx'.pc \in {"input", "free_copy"}
          /\ UNCHANGED rx_q /\ Device' = Device /\ board' # "uninitialized"
      BY <1>0, <1>6 DEF Input, Device
    <2>2. QED
      BY <1>1, <2>1 DEF Receiving
  <1>7. CASE FreeCopy \/ FreeNetBuf
    <2>1. /\ rx.pc \in {"free_copy", "free_net_buf"} /\ rx'.frame = rx.frame
          /\ rx'.pc \in {"free_net_buf", "free_handle"}
          /\ UNCHANGED <<rx_q, board>> /\ Device' = Device
      BY <1>0, <1>7 DEF FreeCopy, FreeNetBuf, Device
    <2>2. QED
      BY <1>1, <2>1 DEF Receiving
  <1>8. CASE Delay \/ FreeHandle
    <2>1. /\ rx.pc \in {"delay", "free_handle"} /\ rx'.frame = rx.frame
          /\ rx'.pc \in {"free_handle", "receive"} /\ UNCHANGED <<rx_q, board>>
      BY <1>0, <1>8 DEF Delay, FreeHandle
    <2>2. QED
      BY <1>1, <2>1 DEF Receiving
  <1>9. QED
    BY <1>2, <1>3, <1>4, <1>5, <1>6, <1>7, <1>8 DEF RxTask

--------------------------------------------------------------------------------
(* The packets: one holder each. *)

LEMMA SendingOutput ==
    ASSUME TypeOK, Opening, Sending, NEW t \in Tasks, Output(t)
    PROVE  Sending'
  <1> USE DEF OutAt, OutGoto
  <1>0. /\ out \in [Tasks -> [pc : OutPlaces, packet : Packets \cup {0}]]
        /\ sent \in [Packets -> {"none", "given", "queued", "rejected"}]
        /\ to_slave_queue \in Seq(Packets)
        /\ \A k \in 1..Len(to_slave_queue) : to_slave_queue[k] \in Packets
    BY DEF TypeOK
  <1>1. UNCHANGED cli
    BY OutputLeaves
  <1>2. ASSUME NEW p \in Packets, LinkOutput(t, p) PROVE Sending'
    <2>1. /\ out[t].pc = "idle" /\ sent[p] = "none" /\ cli \in {"dhcp_start", "started"}
          /\ sent' = [sent EXCEPT ![p] = "given"] /\ UNCHANGED to_slave_queue
          /\ out' = [out EXCEPT ![t] = [pc |-> "write", packet |-> p]]
      BY <1>2 DEF LinkOutput
    <2>2. /\ out'[t].pc = "write" /\ out'[t].packet = p
          /\ \A u \in Tasks : u # t => out'[u] = out[u]
      BY <1>0, <2>1
    <2>3. sent'[p] = "given" /\ \A q \in Packets : q # p => sent'[q] = sent[q]
      BY <1>0, <2>1
    <2>4. QED
      BY <1>0, <1>1, <2>1, <2>2, <2>3 DEF Sending
  <1>3. CASE NetworkWrite(t)
    <2>1. /\ out[t].pc = "write" /\ UNCHANGED <<sent, to_slave_queue>>
          /\ out'[t].pc \in {"send", "idle"} /\ out'[t].packet = out[t].packet
          /\ \A u \in Tasks : u # t => out'[u] = out[u]
      BY <1>0, <1>3 DEF NetworkWrite
    <2>2. QED
      BY <1>1, <2>1 DEF Sending
  <1>4. CASE SendToSlave(t)
    <2>1. /\ out[t].pc = "send" /\ out'[t].pc = "free" /\ out'[t].packet = out[t].packet
          /\ \A u \in Tasks : u # t => out'[u] = out[u]
      BY <1>0, <1>4 DEF SendToSlave
    <2>2. PICK p \in Packets : p = out[t].packet
      BY <2>1 DEF Sending
    <2>3. /\ sent[p] = "given"
          /\ \A k \in 1..Len(to_slave_queue) : to_slave_queue[k] # p
          /\ \A u \in Tasks : u # t /\ out[u].pc # "idle" => out[u].packet # p
      BY <2>1, <2>2 DEF Sending
    <2>4. /\ sent'[p] \in {"queued", "rejected"}
          /\ \A q \in Packets : q # p => sent'[q] = sent[q]
      BY <1>0, <1>4, <2>2 DEF SendToSlave
    <2>5. /\ \A k \in 1..Len(to_slave_queue') : sent'[to_slave_queue'[k]] = "queued"
          /\ \A j, k \in 1..Len(to_slave_queue') : to_slave_queue'[j] = to_slave_queue'[k] => j = k
      <3>1. CASE UNCHANGED to_slave_queue
        BY <1>0, <2>3, <2>4, <3>1 DEF Sending
      <3>2. CASE to_slave_queue' = Append(to_slave_queue, p) /\ sent' = [sent EXCEPT ![p] = "queued"]
        <4>1. /\ Len(to_slave_queue') = Len(to_slave_queue) + 1 /\ Len(to_slave_queue) \in Nat
              /\ \A k \in 1..Len(to_slave_queue') :
                    to_slave_queue'[k] = IF k = Len(to_slave_queue) + 1 THEN p ELSE to_slave_queue[k]
          BY <1>0, <3>2
        <4>2. sent'[p] = "queued"
          BY <1>0, <3>2
        <4>3. QED
          BY <1>0, <2>3, <2>4, <4>1, <4>2 DEF Sending
      <3>3. QED
        BY <1>4, <2>2, <3>1, <3>2 DEF SendToSlave
    <2>6. QED
      BY <1>0, <1>1, <2>1, <2>2, <2>3, <2>4, <2>5 DEF Sending
  <1>5. CASE FreeSndBuffer(t)
    <2>1. /\ UNCHANGED <<sent, to_slave_queue>> /\ out'[t].pc = "idle"
          /\ \A u \in Tasks : u # t => out'[u] = out[u]
      BY <1>0, <1>5 DEF FreeSndBuffer
    <2>2. QED
      BY <1>1, <2>1 DEF Sending
  <1>6. QED
    BY <1>2, <1>3, <1>4, <1>5 DEF Output

LEMMA SendingTransmit == TypeOK /\ Sending /\ Transmit => Sending'
  <1> SUFFICES ASSUME TypeOK, Sending, Transmit PROVE Sending'
    OBVIOUS
  <1>1. /\ UNCHANGED <<out, sent, cli>> /\ to_slave_queue' = Tail(to_slave_queue)
        /\ to_slave_queue \in Seq(Packets) /\ to_slave_queue # <<>>
    BY DEF Transmit, TypeOK, start
  <1>2. /\ Len(to_slave_queue) \in Nat /\ Len(to_slave_queue') = Len(to_slave_queue) - 1
        /\ \A k \in 1..Len(to_slave_queue') :
              to_slave_queue'[k] = to_slave_queue[k + 1] /\ k + 1 \in 1..Len(to_slave_queue)
    BY <1>1
  <1>3. \A k \in 1..Len(to_slave_queue') : sent'[to_slave_queue'[k]] = "queued"
    BY <1>1, <1>2 DEF Sending
  <1>4. \A j, k \in 1..Len(to_slave_queue') : to_slave_queue'[j] = to_slave_queue'[k] => j = k
    <2>1. TAKE j, k \in 1..Len(to_slave_queue')
    <2>2. HAVE to_slave_queue'[j] = to_slave_queue'[k]
    <2>3. j + 1 = k + 1
      BY <1>2, <2>2 DEF Sending
    <2>4. QED
      BY <1>2, <2>3
  <1>5. QED
    BY <1>1, <1>3, <1>4 DEF Sending

\* start_lwip leaves dhcp_start, which sends, only when nothing is being sent.
LEMMA SendingCli == TypeOK /\ Sending /\ Cli => Sending'
  <1> SUFFICES ASSUME TypeOK, Sending, Cli PROVE Sending'
    OBVIOUS
  <1>1. UNCHANGED <<out, sent, to_slave_queue>>
    BY DEF Cli, StartLwip, NetdevOpen, SetNetHandle, SetStaHandle, NetifAdd, SetFlags, DhcpStart,
           StartAgain
  <1>2. cli \in {"dhcp_start", "started"} => cli' \in {"dhcp_start", "started"}
    BY NextSteps
       DEF Cli, StartLwip, NetdevOpen, SetNetHandle, SetStaHandle, NetifAdd, SetFlags, DhcpStart,
           StartAgain, CliAt, start
  <1>3. QED
    BY <1>1, <1>2 DEF Sending

LEMMA SendingRx == Sending /\ RxTask => Sending'
  <1> SUFFICES ASSUME Sending, RxTask PROVE Sending'
    OBVIOUS
  <1>1. UNCHANGED <<out, sent, to_slave_queue, cli>>
    BY DEF RxTask, RxReceive, NetdevRx, Delay, Callback, NetworkRead, Input, FreeCopy, FreeNetBuf,
           FreeHandle, start
  <1>2. QED
    BY <1>1 DEF Sending

--------------------------------------------------------------------------------
(* The buffers. *)

LEMMA BufferDistinct ==
    /\ \A x, y : Handle(x) = Handle(y) => x = y
    /\ \A x, y : NetBuf(x) = NetBuf(y) => x = y
    /\ \A x, y : Payload(x) = Payload(y) => x = y
    /\ \A x, y : Copy(x) = Copy(y) => x = y
    /\ \A x, y : SndBuffer(x) = SndBuffer(y) => x = y
    /\ \A x, y : SndPayload(x) = SndPayload(y) => x = y
    /\ \A x, y : Handle(x) # NetBuf(y) /\ Handle(x) # Payload(y) /\ Handle(x) # Copy(y)
    /\ \A x, y : NetBuf(x) # Payload(y) /\ NetBuf(x) # Copy(y) /\ Payload(x) # Copy(y)
    /\ \A x, y : /\ SndBuffer(x) \notin {Handle(y), NetBuf(y), Payload(y), Copy(y)}
                 /\ SndPayload(x) \notin {Handle(y), NetBuf(y), Payload(y), Copy(y), SndBuffer(y)}
  BY DEF Handle, NetBuf, Payload, Copy, SndBuffer, SndPayload

\* What keeps the two halves of the heap when other buffers come and go
LEMMA RxHeapKept ==
    ASSUME RxHeap, UNCHANGED rx, UNCHANGED double_free,
           NEW p, heap \ {SndBuffer(p), SndPayload(p)} = heap' \ {SndBuffer(p), SndPayload(p)}
    PROVE  RxHeap'
  <1>1. ASSUME NEW f \in Frames, NEW b \in {Handle(f), NetBuf(f), Payload(f), Copy(f)}
        PROVE  b \in heap' <=> b \in heap
    <2>1. b # SndBuffer(p) /\ b # SndPayload(p)
      BY BufferDistinct
    <2>2. QED
      BY <2>1
  <1>2. \A f \in Frames :
          /\ Handle(f) \in heap' <=> Handle(f) \in heap
          /\ NetBuf(f) \in heap' <=> NetBuf(f) \in heap
          /\ Payload(f) \in heap' <=> Payload(f) \in heap
          /\ Copy(f) \in heap' <=> Copy(f) \in heap
    BY <1>1
  <1>3. QED
    BY <1>2 DEF RxHeap

LEMMA RxHeapRx == TypeOK /\ Opening /\ Receiving /\ RxHeap /\ RxTask => RxHeap'
  <1> SUFFICES ASSUME TypeOK, Opening, Receiving, RxHeap, RxTask PROVE RxHeap'
    OBVIOUS
  <1> USE BufferDistinct DEF RxAt, RxGoto, Allocate, Free
  <1>0. rx \in [pc : RxPlaces, frame : Frames \cup {0}]
    BY DEF TypeOK
  <1>1. CASE RxReceive
    <2>1. PICK f \in Frames : /\ f = rx.frame + 1
                              /\ heap' = heap \cup {Handle(f), NetBuf(f), Payload(f)}
      BY <1>1 DEF RxReceive
    <2>2. /\ rx.pc = "receive" /\ rx'.pc = "netdev_rx" /\ rx'.frame = f /\ UNCHANGED double_free
      BY <1>1, <2>1 DEF RxReceive
    <2>3. QED
      BY <2>1, <2>2 DEF RxHeap
  <1>2. CASE NetdevRx
    <2>1. /\ rx.pc = "netdev_rx" /\ rx'.frame = rx.frame /\ rx.frame \in Frames
      BY <1>0, <1>2 DEF NetdevRx, Receiving
    <2>2. CASE rx'.pc = "callback" /\ UNCHANGED <<heap, double_free>>
      BY <2>1, <2>2 DEF RxHeap
    <2>3. CASE /\ rx'.pc = "delay" /\ heap' = heap \ {Payload(rx.frame), NetBuf(rx.frame)}
               /\ double_free' = double_free \cup ({Payload(rx.frame), NetBuf(rx.frame)} \ heap)
      BY <2>1, <2>3 DEF RxHeap
    <2>4. QED
      BY <1>0, <1>2, <2>2, <2>3 DEF NetdevRx, mem
  <1>3. CASE Delay
    <2>1. /\ rx.pc = "delay" /\ rx'.pc = "free_handle" /\ rx'.frame = rx.frame
          /\ UNCHANGED <<heap, double_free>>
      BY <1>0, <1>3 DEF Delay, mem
    <2>2. QED
      BY <2>1 DEF RxHeap
  <1>4. CASE Callback
    <2>1. /\ rx.pc = "callback" /\ rx'.pc \in {"callback", "network_read"} /\ rx'.frame = rx.frame
          /\ UNCHANGED <<heap, double_free>>
      BY <1>0, <1>4 DEF Callback, mem
    <2>2. QED
      BY <2>1 DEF RxHeap
  <1>5. CASE NetworkRead
    <2>1. /\ rx.pc = "network_read" /\ rx.frame \in Frames /\ rx_q[Device] # <<>>
      BY <1>5 DEF NetworkRead, Receiving
    <2>2. /\ rx'.pc = "input" /\ rx'.frame = rx.frame
          /\ heap' = heap \cup {Copy(rx.frame)} /\ UNCHANGED double_free
      BY <1>0, <1>5, <2>1 DEF NetworkRead
    <2>3. QED
      BY <2>1, <2>2 DEF RxHeap
  <1>6. CASE Input
    <2>1. /\ rx.pc = "input" /\ rx'.pc \in {"input", "free_copy"} /\ rx'.frame = rx.frame
          /\ UNCHANGED <<heap, double_free>>
      BY <1>0, <1>6 DEF Input, mem
    <2>2. QED
      BY <2>1 DEF RxHeap
  <1>7. CASE FreeCopy
    <2>1. /\ rx.pc = "free_copy" /\ rx'.pc = "free_net_buf" /\ rx'.frame = rx.frame
          /\ rx.frame \in Frames /\ heap' = heap \ {Payload(rx.frame), Copy(rx.frame)}
          /\ double_free' = double_free \cup ({Payload(rx.frame), Copy(rx.frame)} \ heap)
      BY <1>0, <1>7 DEF FreeCopy, Receiving
    <2>2. QED
      BY <2>1 DEF RxHeap
  <1>8. CASE FreeNetBuf
    <2>1. /\ rx.pc = "free_net_buf" /\ rx'.pc = "free_handle" /\ rx'.frame = rx.frame
          /\ rx.frame \in Frames /\ heap' = heap \ {NetBuf(rx.frame)}
          /\ double_free' = double_free \cup ({NetBuf(rx.frame)} \ heap)
      BY <1>0, <1>8 DEF FreeNetBuf, Receiving
    <2>2. QED
      BY <2>1 DEF RxHeap
  <1>9. CASE FreeHandle
    <2>1. /\ rx.pc = "free_handle" /\ rx'.pc = "receive" /\ rx'.frame = rx.frame
          /\ rx.frame \in Frames /\ heap' = heap \ {Handle(rx.frame)}
          /\ double_free' = double_free \cup ({Handle(rx.frame)} \ heap)
      BY <1>0, <1>9 DEF FreeHandle, Receiving
    <2>2. QED
      BY <2>1 DEF RxHeap
  <1>10. QED
    BY <1>1, <1>2, <1>3, <1>4, <1>5, <1>6, <1>7, <1>8, <1>9 DEF RxTask

\* A frame's step allocates and frees the buffers of frames only.
LEMMA SndHeapRx == SndHeap /\ RxTask => SndHeap'
  <1> SUFFICES ASSUME SndHeap, RxTask PROVE SndHeap'
    OBVIOUS
  <1>1. out' = out /\ to_slave_queue' = to_slave_queue
    BY DEF RxTask, RxReceive, NetdevRx, Delay, Callback, NetworkRead, Input, FreeCopy, FreeNetBuf,
           FreeHandle
  <1>2. \A p \in Packets : /\ SndBuffer(p) \in heap' <=> SndBuffer(p) \in heap
                           /\ SndPayload(p) \in heap' <=> SndPayload(p) \in heap
    <2>1. CASE RxReceive \/ NetworkRead
      BY <2>1, BufferDistinct, SMTT(30) DEF RxReceive, NetworkRead, Allocate
    <2>2. CASE NetdevRx \/ FreeCopy \/ FreeNetBuf \/ FreeHandle
      BY <2>2, BufferDistinct DEF NetdevRx, FreeCopy, FreeNetBuf, FreeHandle, Free, mem
    <2>3. CASE Delay \/ Callback \/ Input
      BY <2>3 DEF Delay, Callback, Input, mem
    <2>4. QED
      BY <2>1, <2>2, <2>3 DEF RxTask
  <1>3. Elems(to_slave_queue)' = Elems(to_slave_queue)
    BY <1>1 DEF Elems
  <1>4. SUFFICES ASSUME NEW p \in Packets
                 PROVE  /\ SndBuffer(p) \in heap' <=> \E t \in Tasks : out[t].pc # "idle" /\ out[t].packet = p
                        /\ SndPayload(p) \in heap'
                           <=> \/ \E t \in Tasks : out[t].pc \in {"write", "send"} /\ out[t].packet = p
                               \/ p \in Elems(to_slave_queue)
    BY <1>1, <1>3 DEF SndHeap
  <1>5. /\ SndBuffer(p) \in heap' <=> SndBuffer(p) \in heap
        /\ SndPayload(p) \in heap' <=> SndPayload(p) \in heap
    BY <1>2
  <1>6. QED
    BY <1>5 DEF SndHeap

LEMMA HeapCli == RxHeap /\ SndHeap /\ Cli => RxHeap' /\ SndHeap'
  <1> SUFFICES ASSUME RxHeap, SndHeap, Cli PROVE RxHeap' /\ SndHeap'
    OBVIOUS
  <1>1. UNCHANGED <<rx, out, to_slave_queue, heap, double_free>>
    BY DEF Cli, StartLwip, NetdevOpen, SetNetHandle, SetStaHandle, NetifAdd, SetFlags, DhcpStart,
           StartAgain, mem
  <1>2. QED
    BY <1>1 DEF RxHeap, SndHeap, Elems

LEMMA ElemsAppend ==
    ASSUME NEW S, NEW q \in Seq(S), NEW x \in S
    PROVE  Elems(Append(q, x)) = Elems(q) \cup {x}
  <1>1. /\ Len(Append(q, x)) = Len(q) + 1 /\ Len(q) \in Nat
        /\ \A k \in 1..(Len(q) + 1) : Append(q, x)[k] = IF k = Len(q) + 1 THEN x ELSE q[k]
    OBVIOUS
  <1>2. QED
    BY <1>1 DEF Elems

\* Without repetition, the tail holds everything but the head.
LEMMA ElemsTail ==
    ASSUME NEW S, NEW q \in Seq(S), q # <<>>,
           \A j, k \in 1..Len(q) : q[j] = q[k] => j = k
    PROVE  Elems(Tail(q)) = Elems(q) \ {Head(q)} /\ Head(q) \in Elems(q)
  <1>1. /\ Len(q) \in Nat /\ Len(q) >= 1 /\ Len(Tail(q)) = Len(q) - 1 /\ Head(q) = q[1]
        /\ \A k \in 1..(Len(q) - 1) : Tail(q)[k] = q[k + 1]
    OBVIOUS
  <1>2. Head(q) \in Elems(q)
    BY <1>1 DEF Elems
  <1>3. Elems(Tail(q)) \subseteq Elems(q) \ {Head(q)}
    <2>1. SUFFICES ASSUME NEW k \in 1..(Len(q) - 1) PROVE q[k + 1] \in Elems(q) /\ q[k + 1] # q[1]
      BY <1>1 DEF Elems
    <2>2. k + 1 \in 1..Len(q) /\ 1 \in 1..Len(q) /\ k + 1 # 1
      BY <1>1
    <2>3. QED
      BY <2>2 DEF Elems
  <1>4. Elems(q) \ {Head(q)} \subseteq Elems(Tail(q))
    <2>1. SUFFICES ASSUME NEW k \in 1..Len(q), q[k] # q[1] PROVE q[k] \in Elems(Tail(q))
      BY <1>1 DEF Elems
    <2>2. k - 1 \in 1..(Len(q) - 1) /\ Tail(q)[k - 1] = q[k]
      BY <1>1, <2>1
    <2>3. QED
      BY <1>1, <2>2 DEF Elems
  <1>5. QED
    BY <1>2, <1>3, <1>4

LEMMA HeapOutput ==
    ASSUME TypeOK, Opening, Sending, RxHeap, SndHeap, NEW t \in Tasks, Output(t)
    PROVE  RxHeap' /\ SndHeap'
  <1> USE BufferDistinct DEF OutAt, OutGoto, Allocate, Free
  <1>0. /\ out \in [Tasks -> [pc : OutPlaces, packet : Packets \cup {0}]]
        /\ to_slave_queue \in Seq(Packets)
    BY DEF TypeOK
  <1>1. UNCHANGED rx
    BY OutputLeaves
  <1>2. ASSUME NEW p \in Packets, LinkOutput(t, p) PROVE RxHeap' /\ SndHeap'
    <2>1. /\ out[t].pc = "idle" /\ out'[t].pc = "write" /\ out'[t].packet = p
          /\ \A u \in Tasks : u # t => out'[u] = out[u]
          /\ heap' = heap \cup {SndBuffer(p), SndPayload(p)}
          /\ UNCHANGED <<to_slave_queue, double_free>>
      BY <1>0, <1>2 DEF LinkOutput
    <2>2. RxHeap'
      BY <1>1, <2>1 DEF RxHeap
    <2>3. Elems(to_slave_queue)' = Elems(to_slave_queue)
      BY <2>1 DEF Elems
    <2>4. SndHeap'
      <3>1. SUFFICES ASSUME NEW q \in Packets
                     PROVE  /\ SndBuffer(q) \in heap' <=> \E u \in Tasks : out'[u].pc # "idle" /\ out'[u].packet = q
                            /\ SndPayload(q) \in heap'
                               <=> \/ \E u \in Tasks : out'[u].pc \in {"write", "send"} /\ out'[u].packet = q
                                   \/ q \in Elems(to_slave_queue)
        BY <2>3 DEF SndHeap
      <3>2. CASE q = p
        BY <2>1, <3>2
      <3>3. CASE q # p
        <4>1. /\ SndBuffer(q) \in heap' <=> SndBuffer(q) \in heap
              /\ SndPayload(q) \in heap' <=> SndPayload(q) \in heap
          BY <2>1, <3>3
        <4>2. QED
          BY <2>1, <3>3, <4>1 DEF SndHeap
      <3>4. QED
        BY <3>2, <3>3
    <2>5. QED
      BY <2>2, <2>4
  <1>3. CASE NetworkWrite(t)
    <2>1. MaySend
      BY <1>3 DEF NetworkWrite, Sending, Opening, MaySend
    <2>2. /\ out[t].pc = "write" /\ out'[t].pc = "send" /\ out'[t].packet = out[t].packet
          /\ \A u \in Tasks : u # t => out'[u] = out[u]
          /\ UNCHANGED <<to_slave_queue, heap, double_free>>
      BY <1>0, <1>3, <2>1 DEF NetworkWrite, mem
    <2>3. RxHeap'
      BY <1>1, <2>2 DEF RxHeap
    <2>4. Elems(to_slave_queue)' = Elems(to_slave_queue)
      BY <2>2 DEF Elems
    <2>5. SndHeap'
      BY <2>2, <2>4 DEF SndHeap
    <2>6. QED
      BY <2>3, <2>5
  <1>4. CASE SendToSlave(t)
    <2>1. /\ out[t].pc = "send" /\ out'[t].pc = "free" /\ out'[t].packet = out[t].packet
          /\ \A u \in Tasks : u # t => out'[u] = out[u]
      BY <1>0, <1>4 DEF SendToSlave
    <2>2. PICK p \in Packets : p = out[t].packet
      BY <2>1 DEF Sending
    <2>3. /\ \A u \in Tasks : u # t /\ out[u].pc # "idle" => out[u].packet # p
          /\ p \notin Elems(to_slave_queue) /\ SndPayload(p) \in heap
      BY <2>1, <2>2 DEF Sending, SndHeap, Elems
    <2>4. CASE /\ heap' = heap \ {SndPayload(p)} /\ double_free' = double_free \cup ({SndPayload(p)} \ heap)
               /\ UNCHANGED to_slave_queue
      <3>1. RxHeap'
        BY <1>1, <2>3, <2>4, RxHeapKept DEF RxHeap
      <3>2. Elems(to_slave_queue)' = Elems(to_slave_queue)
        BY <2>4 DEF Elems
      <3>3. SndHeap'
        <4>1. SUFFICES ASSUME NEW q \in Packets
                       PROVE  /\ SndBuffer(q) \in heap' <=> \E u \in Tasks : out'[u].pc # "idle" /\ out'[u].packet = q
                              /\ SndPayload(q) \in heap'
                                 <=> \/ \E u \in Tasks : out'[u].pc \in {"write", "send"} /\ out'[u].packet = q
                                     \/ q \in Elems(to_slave_queue)
          BY <3>2 DEF SndHeap
        <4>2. /\ SndBuffer(q) \in heap' <=> SndBuffer(q) \in heap
              /\ SndPayload(q) \in heap' <=> SndPayload(q) \in heap /\ q # p
          BY <2>4
        <4>3. QED
          BY <2>1, <2>2, <2>3, <4>2 DEF SndHeap
      <3>4. QED
        BY <3>1, <3>3
    <2>5. CASE UNCHANGED <<heap, double_free>> /\ to_slave_queue' = Append(to_slave_queue, p)
      <3>1. RxHeap'
        BY <1>1, <2>5 DEF RxHeap
      <3>2. Elems(to_slave_queue)' = Elems(to_slave_queue) \cup {p}
        BY <1>0, <2>5, ElemsAppend
      <3>3. SndHeap'
        BY <2>1, <2>2, <2>3, <2>5, <3>2 DEF SndHeap
      <3>4. QED
        BY <3>1, <3>3
    <2>6. QED
      BY <1>4, <2>2, <2>4, <2>5 DEF SendToSlave, mem
  <1>5. CASE FreeSndBuffer(t)
    <2>1. /\ out[t].pc = "free" /\ out'[t].pc = "idle"
          /\ \A u \in Tasks : u # t => out'[u] = out[u]
          /\ UNCHANGED to_slave_queue
      BY <1>0, <1>5 DEF FreeSndBuffer
    <2>2. PICK p \in Packets : p = out[t].packet
      BY <2>1 DEF Sending
    <2>3. /\ heap' = heap \ {SndBuffer(p)} /\ double_free' = double_free \cup ({SndBuffer(p)} \ heap)
          /\ SndBuffer(p) \in heap
          /\ \A u \in Tasks : u # t /\ out[u].pc # "idle" => out[u].packet # p
      BY <1>5, <2>1, <2>2 DEF FreeSndBuffer, FreedByXmit, SndHeap, Sending
    <2>4. RxHeap'
      BY <1>1, <2>3 DEF RxHeap
    <2>5. Elems(to_slave_queue)' = Elems(to_slave_queue)
      BY <2>1 DEF Elems
    <2>6. SndHeap'
      BY <2>1, <2>2, <2>3, <2>5, SMTT(30) DEF SndHeap
    <2>7. QED
      BY <2>4, <2>6
  <1>6. QED
    BY <1>2, <1>3, <1>4, <1>5 DEF Output

LEMMA HeapTransmit ==
    ASSUME TypeOK, Sending, RxHeap, SndHeap, Transmit
    PROVE  RxHeap' /\ SndHeap'
  <1> USE BufferDistinct DEF Free
  <1> DEFINE p == Head(to_slave_queue)
  <1>1. /\ UNCHANGED <<rx, out>> /\ to_slave_queue' = Tail(to_slave_queue)
        /\ heap' = heap \ {SndPayload(p)} /\ double_free' = double_free \cup ({SndPayload(p)} \ heap)
        /\ to_slave_queue \in Seq(Packets) /\ to_slave_queue # <<>>
    BY DEF Transmit, TypeOK
  <1>2. p \in Packets
    BY <1>1
  <1>3. Elems(to_slave_queue)' = Elems(to_slave_queue) \ {p} /\ p \in Elems(to_slave_queue)
    BY <1>1, ElemsTail DEF Sending
  <1>4. \A t \in Tasks : out[t].pc \in {"write", "send"} => out[t].packet # p
    BY <1>3 DEF Sending, Elems
  <1> HIDE DEF p
  <1>5. SndPayload(p) \in heap
    BY <1>2, <1>3 DEF SndHeap
  <1>6. RxHeap'
    BY <1>1, <1>5, RxHeapKept DEF RxHeap
  <1>7. SndHeap'
    BY <1>1, <1>3, <1>4 DEF SndHeap
  <1>8. QED
    BY <1>6, <1>7

--------------------------------------------------------------------------------
(* The invariant. *)

LEMMA NullCallStep ==
    TypeOK /\ Opening /\ Receiving /\ NullCallOnlyWhileOpening /\ [Next]_vars
    => NullCallOnlyWhileOpening'
  <1> SUFFICES ASSUME TypeOK, Opening, Receiving, NullCallOnlyWhileOpening, [Next]_vars
               PROVE NullCallOnlyWhileOpening'
    OBVIOUS
  <1>0. cli \in CliPlaces
    BY StepsAre DEF TypeOK
  <1>1. CASE Cli
    <2>1. board' \in {"runs", "lwip_assert"}
      BY <1>1 DEF Cli, StartLwip, NetdevOpen, SetNetHandle, SetStaHandle, NetifAdd, SetFlags,
                  DhcpStart, StartAgain, CliAt
    <2>2. QED
      BY <2>1 DEF NullCallOnlyWhileOpening
  <1>2. CASE Callback
    <2>1. CASE net_handle[Device]
      <3>1. board' = "runs"
        BY <1>2, <2>1 DEF Callback, RxAt
      <3>2. QED
        BY <3>1 DEF NullCallOnlyWhileOpening
    <2>2. CASE ~net_handle[Device]
      <3>1. /\ Device = "sta" /\ state["sta"] = "UP" /\ UNCHANGED <<rx, cli>>
        BY <1>2, <2>2 DEF Callback, RxAt, Receiving, start
      <3>2. cli = "set_net_handle"
        BY <1>0, <2>2, <3>1 DEF Opening, CliPlaces
      <3>3. QED
        BY <3>1, <3>2 DEF NullCallOnlyWhileOpening, Device
    <2>3. QED
      BY <2>1, <2>2
  <1>3. CASE Input
    <2>1. CASE "input" \in gnetif
      <3>1. board' \in {"runs", "null_pbuf"}
        BY <1>3, <2>1 DEF Input, RxAt
      <3>2. QED
        BY <3>1 DEF NullCallOnlyWhileOpening
    <2>2. CASE "input" \notin gnetif
      <3>1. /\ Device = "sta" /\ net_handle["sta"] /\ UNCHANGED <<rx, cli>>
        BY <1>3, <2>2 DEF Input, RxAt, Receiving, start
      <3>2. cli \in {"set_sta_handle", "netif_add"}
        BY <1>0, <2>2, <3>1 DEF Opening, CliPlaces
      <3>3. QED
        BY <3>1, <3>2 DEF NullCallOnlyWhileOpening, Device
    <2>3. QED
      BY <2>1, <2>2
  <1>4. CASE RxReceive \/ NetdevRx \/ Delay \/ NetworkRead \/ FreeCopy \/ FreeNetBuf \/ FreeHandle
    <2>1. board' \in {"runs", "uninitialized"}
      BY <1>4 DEF RxReceive, NetdevRx, Delay, NetworkRead, FreeCopy, FreeNetBuf, FreeHandle, RxAt
    <2>2. QED
      BY <2>1 DEF NullCallOnlyWhileOpening
  <1>5. ASSUME NEW t \in Tasks, Output(t) PROVE NullCallOnlyWhileOpening'
    BY <1>5, OutputLeaves DEF NullCallOnlyWhileOpening, Device
  <1>6. CASE Transmit \/ UNCHANGED vars
    <2>1. UNCHANGED <<rx, board, cli>>
      BY <1>6 DEF Transmit, vars, start
    <2>2. QED
      BY <2>1 DEF NullCallOnlyWhileOpening, Device
  <1>7. QED
    BY <1>1, <1>2, <1>3, <1>4, <1>5, <1>6 DEF Next, RxTask, Idle

LEMMA NetInvInit == Init => NetInv
  <1> SUFFICES ASSUME Init PROVE NetInv
    OBVIOUS
  <1>1. TypeOK
    BY TypeInit
  <1>2. Opening /\ Receiving
    BY DEF Init, Opening, Receiving, Interfaces
  <1>3. Sending
    BY DEF Init, Sending
  <1>4. RxHeap
    BY DEF Init, RxHeap
  <1>5. SndHeap
    BY DEF Init, SndHeap, Elems
  <1>6. NullCallOnlyWhileOpening
    BY DEF Init, NullCallOnlyWhileOpening
  <1>7. QED
    BY <1>1, <1>2, <1>3, <1>4, <1>5, <1>6 DEF NetInv

LEMMA NetInvStep == NetInv /\ [Next]_vars => NetInv'
  <1> SUFFICES ASSUME NetInv, [Next]_vars PROVE NetInv'
    OBVIOUS
  <1>0. TypeOK /\ Opening /\ Receiving /\ Sending /\ RxHeap /\ SndHeap /\ NullCallOnlyWhileOpening
    BY DEF NetInv
  <1>1. NullCallOnlyWhileOpening'
    BY <1>0, NullCallStep
  <1>2. CASE Cli
    BY <1>0, <1>1, <1>2, TypeCli, OpeningCli, ReceivingCli, SendingCli, HeapCli DEF NetInv
  <1>3. CASE RxTask
    BY <1>0, <1>1, <1>3, TypeRx, OpeningRx, ReceivingRx, SendingRx, RxHeapRx, SndHeapRx DEF NetInv
  <1>4. ASSUME NEW t \in Tasks, Output(t) PROVE NetInv'
    <2>1. TypeOK' /\ Sending' /\ RxHeap' /\ SndHeap'
      BY <1>0, <1>4, TypeOutput, SendingOutput, HeapOutput
    <2>2. Opening' /\ Receiving'
      BY <1>0, <1>4, OutputLeaves DEF Opening, Receiving, Device
    <2>3. QED
      BY <1>1, <2>1, <2>2 DEF NetInv
  <1>5. CASE Transmit
    <2>1. TypeOK' /\ Sending' /\ RxHeap' /\ SndHeap'
      BY <1>0, <1>5, TypeTransmit, SendingTransmit, HeapTransmit
    <2>2. Opening' /\ Receiving'
      BY <1>0, <1>5 DEF Transmit, start, Opening, Receiving, Device
    <2>3. QED
      BY <1>1, <2>1, <2>2 DEF NetInv
  <1>6. CASE UNCHANGED vars
    <2>1. TypeOK'
      BY <1>0, <1>6, TypeIdle
    <2>2. Opening' /\ Receiving' /\ Sending'
      BY <1>0, <1>6 DEF vars, start, Opening, Receiving, Device, Sending
    <2>3. RxHeap' /\ SndHeap'
      BY <1>0, <1>6 DEF vars, mem, RxHeap, SndHeap, Elems
    <2>4. QED
      BY <1>1, <2>1, <2>2, <2>3 DEF NetInv
  <1>7. QED
    BY <1>2, <1>3, <1>4, <1>5, <1>6 DEF Next, Idle

LEMMA NetInvAlways == Spec => []NetInv
  BY NetInvInit, NetInvStep, PTL DEF Spec

--------------------------------------------------------------------------------
(* What the invariant means. *)

\* The two queues of rx_q hold the payload of the frame in callback or
\* network_read, and no other.
LEMMA QueuedPayload ==
    ASSUME Opening, Receiving
    PROVE  UNION {Elems(rx_q[i]) : i \in Interfaces} = RxIn({"callback", "network_read"})
  <1>1. Elems(<<>>) = {} /\ \A f : Elems(<<f>>) = {f}
    BY DEF Elems
  <1>2. UNION {Elems(rx_q[i]) : i \in Interfaces} = Elems(rx_q["sta"]) \cup Elems(rx_q["ap"])
    BY DEF Interfaces
  <1>3. QED
    BY <1>1, <1>2 DEF Opening, Receiving, RxIn

LEMMA OwnedFrames ==
    ASSUME NetInv, NEW f \in Frames
    PROVE  /\ Handle(f) \in heap <=> Handle(f) \in Owned
           /\ NetBuf(f) \in heap <=> NetBuf(f) \in Owned
           /\ Payload(f) \in heap <=> Payload(f) \in Owned
           /\ Copy(f) \in heap <=> Copy(f) \in Owned
  <1> USE BufferDistinct
  <1>1. rx.pc \in RxPlaces
    BY DEF NetInv, TypeOK
  <1>2. Handle(f) \in Owned <=> rx.pc # "receive" /\ rx.frame = f
    BY <1>1 DEF Owned, RxIn
  <1>3. NetBuf(f) \in Owned <=> rx.pc \notin {"receive", "delay", "free_handle"} /\ rx.frame = f
    BY <1>1 DEF Owned, RxIn, RxPlaces
  <1>4. Copy(f) \in Owned <=> rx.pc \in {"input", "free_copy"} /\ rx.frame = f
    BY DEF Owned, RxIn
  <1>5. Payload(f) \in Owned <=> /\ rx.pc \in {"netdev_rx", "callback", "network_read", "input", "free_copy"}
                                /\ rx.frame = f
    <2>1. UNION {Elems(rx_q[i]) : i \in Interfaces} = RxIn({"callback", "network_read"})
      BY QueuedPayload DEF NetInv
    <2>2. Payload(f) \in Owned <=> f \in RxIn({"netdev_rx", "input", "free_copy"})
                                          \cup RxIn({"callback", "network_read"})
      BY <2>1 DEF Owned
    <2>3. QED
      BY <2>2 DEF RxIn
  <1>6. QED
    BY <1>2, <1>3, <1>4, <1>5 DEF NetInv, RxHeap

LEMMA OwnedPackets ==
    ASSUME NetInv, NEW p \in Packets
    PROVE  /\ SndBuffer(p) \in heap <=> SndBuffer(p) \in Owned
           /\ SndPayload(p) \in heap <=> SndPayload(p) \in Owned
  <1> USE BufferDistinct
  <1>1. \A t \in Tasks : out[t].pc \in OutPlaces
    BY DEF NetInv, TypeOK
  <1>2. SndBuffer(p) \in Owned <=> p \in OutIn({"write", "send", "free"})
    BY DEF Owned
  <1>3. SndPayload(p) \in Owned <=> p \in OutIn({"write", "send"}) \cup Elems(to_slave_queue)
    BY DEF Owned
  <1>4. QED
    BY <1>1, <1>2, <1>3 DEF NetInv, SndHeap, OutIn, OutPlaces

LEMMA OwnedTyped == NetInv => Owned \subseteq Buffers
  <1> SUFFICES ASSUME NetInv PROVE Owned \subseteq Buffers
    OBVIOUS
  <1>1. rx.pc # "receive" => rx.frame \in Frames
    BY DEF NetInv, Receiving
  <1>2. \A places : "receive" \notin places => RxIn(places) \subseteq Frames
    BY <1>1 DEF RxIn
  <1>3. \A places : "idle" \notin places => OutIn(places) \subseteq Packets
    BY DEF NetInv, Sending, OutIn
  <1>4. Elems(to_slave_queue) \subseteq Packets
    BY DEF NetInv, TypeOK, Elems
  <1>5. UNION {Elems(rx_q[i]) : i \in Interfaces} \subseteq Frames
    BY <1>2, QueuedPayload DEF NetInv
  <1>6. /\ \A f \in Frames : {Handle(f), NetBuf(f), Payload(f), Copy(f)} \subseteq Buffers
        /\ \A p \in Packets : {SndBuffer(p), SndPayload(p)} \subseteq Buffers
    BY FrameBuffers, PacketBuffers
  <1>7. QED
    BY <1>2, <1>3, <1>4, <1>5, <1>6 DEF Owned

LEMMA BuffersAre ==
    ASSUME NEW b \in Buffers
    PROVE  \/ \E f \in Frames : b \in {Handle(f), NetBuf(f), Payload(f), Copy(f)}
           \/ \E p \in Packets : b \in {SndBuffer(p), SndPayload(p)}
  BY DEF Buffers, Handle, NetBuf, Payload, Copy, SndBuffer, SndPayload

LEMMA NetInvOwned == NetInv => BuffersOwned
  <1> SUFFICES ASSUME NetInv PROVE BuffersOwned
    OBVIOUS
  <1>1. heap \subseteq Buffers /\ Owned \subseteq Buffers
    BY OwnedTyped DEF NetInv, TypeOK
  <1>2. \A b \in Buffers : b \in heap <=> b \in Owned
    BY BuffersAre, OwnedFrames, OwnedPackets
  <1>3. double_free = {}
    BY DEF NetInv, RxHeap
  <1>4. QED
    BY <1>1, <1>2, <1>3 DEF BuffersOwned

LEMMA DeliversStep == NetInv /\ [Next]_vars =>
    \A f \in Frames : cli = "started" /\ IfType[f] = "sta" /\ fate'[f] # fate[f]
                     => fate'[f] \in {"ethernet_input", "refused"}
  <1> SUFFICES ASSUME NetInv, [Next]_vars, NEW f \in Frames, cli = "started",
                      IfType[f] = "sta", fate'[f] # fate[f]
               PROVE  fate'[f] \in {"ethernet_input", "refused"}
    OBVIOUS
  <1>1. /\ "flags" \in gnetif /\ state["sta"] = "UP"
        /\ fate \in [Frames -> {"none", "down", "refused", "ip_input", "ethernet_input"}]
    BY DEF NetInv, Opening, TypeOK
  <1>2. CASE NetdevRx
    <2>1. fate' = [fate EXCEPT ![rx.frame] = "down"] /\ state[Device] = "DOWN"
      BY <1>2 DEF NetdevRx
    <2>2. f = rx.frame
      BY <1>1, <2>1
    <2>3. QED
      BY <1>1, <2>1, <2>2 DEF Device
  <1>3. CASE Input
    <2>1. PICK v \in {"refused", "ethernet_input"} : fate' = [fate EXCEPT ![rx.frame] = v]
      BY <1>1, <1>3 DEF Input
    <2>2. f = rx.frame
      BY <1>1, <2>1
    <2>3. QED
      BY <1>1, <2>1, <2>2
  <1>4. UNCHANGED fate \/ NetdevRx \/ Input
    BY OutputLeaves DEF Next, RxTask, RxReceive, Delay, Callback, NetworkRead, FreeCopy, FreeNetBuf,
       FreeHandle, Cli, StartLwip, NetdevOpen, SetNetHandle, SetStaHandle, NetifAdd, SetFlags,
       DhcpStart, StartAgain, Transmit, Idle, vars
  <1>5. QED
    BY <1>2, <1>3, <1>4

--------------------------------------------------------------------------------
\* The variables of the network path keep their types, for every sequence of
\* frames, every number of packets and every size of the two queues.
THEOREM NetDevTypeCorrect == Spec => []TypeOK
  <1>1. NetInv => TypeOK
    BY DEF NetInv
  <1>2. QED
    BY <1>1, NetInvAlways, PTL

\* Every buffer of netdev_stub.c, netdev_api.c and lwip_startup.c always has
\* exactly the owner its free is written for: none leaks, none is freed twice.
THEOREM EveryBufferOwned == Spec => []BuffersOwned
  BY NetInvOwned, NetInvAlways, PTL

\* The result of xQueueReceive that network_read ignores is never a failure,
\* and the frame it reads is the one whose callback runs.
THEOREM ReadsFindFrames == Spec => []ReadFindsFrame
  <1>1. NetInv => ReadFindsFrame
    BY DEF NetInv, Receiving, ReadFindsFrame
  <1>2. QED
    BY <1>1, NetInvAlways, PTL

\* Calls through the null pointers of net_handle and gnetif are confined to
\* the statements of start_lwip between netdev_open and netif_add.
THEOREM NullCallsConfined == Spec => []NullCallOnlyWhileOpening
  <1>1. NetInv => NullCallOnlyWhileOpening
    BY DEF NetInv
  <1>2. QED
    BY <1>1, NetInvAlways, PTL

\* After start_lwip no frame of the station is dropped for an interface that
\* is down, or read as a bare IP packet.
THEOREM StartedInterfaceDelivers == Spec => StartedDelivers
  <1>1. NetInv /\ [Next]_vars =>
        [\A f \in Frames : cli = "started" /\ IfType[f] = "sta" /\ fate'[f] # fate[f]
                          => fate'[f] \in {"ethernet_input", "refused"}]_vars
    BY DeliversStep
  <1>2. QED
    BY <1>1, NetInvAlways, PTL DEF Spec, StartedDelivers
=============================================================================
