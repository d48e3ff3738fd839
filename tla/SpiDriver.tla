------------------------------ MODULE SpiDriver ------------------------------
(***************************************************************************)
(* The SPI host driver, Core/esphosted/driver/spi/spi_drv.c: the tasks     *)
(* that call send_to_slave, transaction_task, process_rx_task, the GPIO    *)
(* interrupt, the two queues, the semaphore and the mutex they share, and  *)
(* every heap buffer from malloc to free.  The slave (ESP32) is modelled   *)
(* from how the driver uses its two lines.                                 *)
(*                                                                         *)
(* Any task may run next: what holds here holds for every scheduler        *)
(* setting.  SpiSched restricts the interleavings to FreeRTOS priorities.  *)
(***************************************************************************)
EXTENDS Naturals, Sequences, FiniteSets

CONSTANTS Senders,                \* tasks that call send_to_slave
          HostFrames,             \* payloads they send
          IfType,                 \* interface type of the slave's frames 1, 2, ...
          TO_SLAVE_QUEUE_SIZE,
          FROM_SLAVE_QUEUE_SIZE,
          transaction_task,       \* the driver's own task
          None                    \* a NULL buffer pointer, no owner, a dummy frame

ASSUME SpiAssumption ==
    /\ TO_SLAVE_QUEUE_SIZE \in Nat \ {0}
    /\ FROM_SLAVE_QUEUE_SIZE \in Nat \ {0}
    /\ IfType \in Seq({"serial", "net", "priv_init"})
    /\ transaction_task \notin Senders
    /\ None \notin HostFrames \cup Nat \cup Senders \cup {transaction_task}

SlaveFrames == 1..Len(IfType)
Procs == Senders \cup {transaction_task}

VARIABLES
    to_slave_queue,     \* host frames waiting for a transaction
    from_slave_queue,   \* slave frames waiting for process_rx_task
    osSemaphore,        \* TRUE: given
    mutex_spi_trans,    \* the process that holds it, or None
    pc,                 \* where each process is
    buf,                \* host frame a process holds: wbuffer, then txbuff
    rx_ready,           \* local gpio_rx_data_ready of a process
    rxbuff,             \* slave frame a process has received, or None
    rx_pc, rx_handle,   \* process_rx_task and its local buf_handle
    serial_active,      \* a serial handler is registered (set up by INIT)
    heap,               \* buffers allocated and not freed
    double_free,        \* buffers freed while not allocated
    handshake, data_ready,      \* the slave's two lines
    exti,               \* lines with a pending EXTI interrupt
    slave_queue,        \* frames the slave has queued
    slave_armed,        \* frame loaded for the next transaction, or None
    accepted, wire, lost, slave_sent, delivered, dropped   \* history, see SpiLink

hist  == <<accepted, wire, lost, slave_sent, delivered, dropped>>
slave == <<handshake, data_ready, exti, slave_queue, slave_armed>>
rx    == <<rx_pc, rx_handle, serial_active>>
local == <<pc, buf, rx_ready, rxbuff>>
mem   == <<heap, double_free>>
vars  == <<to_slave_queue, from_slave_queue, osSemaphore, mutex_spi_trans,
           local, rx, mem, slave, hist>>

Elems(s) == {s[i] : i \in 1..Len(s)}

\* Buffer identities.  A process holds at most one txbuff at a time.
Wbuffer(f)   == <<"wbuffer", f>>
Txbuff(p)    == <<"txbuff", p>>
Rxbuff(r)    == <<"rxbuff", r>>
SerialBuf(r) == <<"serial_buf", r>>

Optional(S, x) == IF x = None THEN {} ELSE S

\* The heap after the buffers A are allocated and then the buffers F freed.
AllocFree(A, F) == /\ heap' = (heap \cup A) \ F
                   /\ double_free' = double_free \cup (F \ (heap \cup A))

At(p, l)   == pc[p] = l
Goto(p, l) == pc' = [pc EXCEPT ![p] = l]
Set(f, p, v) == [f EXCEPT ![p] = v]

\* Where check_and_execute_spi_transaction returns to.
Returned(p) == IF p = transaction_task THEN "wait" ELSE "idle"

\* Definitions named Mutant_... are plausible mistakes in the definition that
\* follows them; no specification uses them.

\* xQueueSend(.., portMAX_DELAY) waits until the queue has room.
HasRoom(q, size) == Len(q) < size

\* What xQueueReceive leaves in the queue.
Mutant_Received(q) == q
Received(q) == Tail(q)
-----------------------------------------------------------------------------
Init ==
    /\ to_slave_queue = <<>> /\ from_slave_queue = <<>>
    /\ osSemaphore = TRUE                   \* osSemaphoreCreate(.., 1)
    /\ mutex_spi_trans = None
    /\ pc = [p \in Procs |-> Returned(p)]
    /\ buf = [p \in Procs |-> None]
    /\ rx_ready = [p \in Procs |-> FALSE]
    /\ rxbuff = [p \in Procs |-> None]
    /\ rx_pc = "receive" /\ rx_handle = None /\ serial_active = FALSE
    /\ heap = {} /\ double_free = {}
    /\ handshake = FALSE /\ data_ready = FALSE /\ exti = {}
    /\ slave_queue = <<>> /\ slave_armed = None
    /\ accepted = <<>> /\ wire = <<>> /\ lost = {}
    /\ slave_sent = 0 /\ delivered = {} /\ dropped = {}

\* A task calls send_to_slave with a buffer it allocated; the arguments pass
\* the length check or they do not.
Call(s, f) ==
    /\ At(s, "idle")
    /\ f \notin Elems(accepted) /\ \A p \in Procs : buf[p] # f
    /\ buf' = Set(buf, s, f)
    /\ AllocFree({Wbuffer(f)}, {})
    /\ Goto(s, "enqueue") \/ Goto(s, "reject")
    /\ UNCHANGED <<to_slave_queue, from_slave_queue, osSemaphore, mutex_spi_trans,
                   rx_ready, rxbuff, rx, slave, hist>>

\* The length check failed: wbuffer is freed and STM_FAIL returned.
Reject(s) ==
    /\ At(s, "reject")
    /\ AllocFree({}, {Wbuffer(buf[s])})
    /\ buf' = Set(buf, s, None)
    /\ Goto(s, "idle")
    /\ UNCHANGED <<to_slave_queue, from_slave_queue, osSemaphore, mutex_spi_trans,
                   rx_ready, rxbuff, rx, slave, hist>>

\* xQueueSendToFront instead
Mutant_Enqueue(s) ==
    /\ At(s, "enqueue")
    /\ HasRoom(to_slave_queue, TO_SLAVE_QUEUE_SIZE)
    /\ to_slave_queue' = <<buf[s]>> \o to_slave_queue
    /\ accepted' = Append(accepted, buf[s])
    /\ buf' = Set(buf, s, None)
    /\ Goto(s, "read_handshake")
    /\ UNCHANGED <<from_slave_queue, osSemaphore, mutex_spi_trans, rx_ready, rxbuff,
                   rx, mem, slave, wire, lost, slave_sent, delivered, dropped>>

\* xQueueSend(to_slave_queue, .., portMAX_DELAY): waits while the queue is full.
Enqueue(s) ==
    /\ At(s, "enqueue")
    /\ HasRoom(to_slave_queue, TO_SLAVE_QUEUE_SIZE)
    /\ to_slave_queue' = Append(to_slave_queue, buf[s])
    /\ accepted' = Append(accepted, buf[s])
    /\ buf' = Set(buf, s, None)
    /\ Goto(s, "read_handshake")
    /\ UNCHANGED <<from_slave_queue, osSemaphore, mutex_spi_trans, rx_ready, rxbuff,
                   rx, mem, slave, wire, lost, slave_sent, delivered, dropped>>

\* transaction_task: osSemaphoreWait(osSemaphore, osWaitForever).
WaitSemaphore ==
    /\ At(transaction_task, "wait")
    /\ osSemaphore
    /\ osSemaphore' = FALSE
    /\ Goto(transaction_task, "read_handshake")
    /\ UNCHANGED <<to_slave_queue, from_slave_queue, mutex_spi_trans,
                   buf, rx_ready, rxbuff, rx, mem, slave, hist>>
-----------------------------------------------------------------------------
(* check_and_execute_spi_transaction, run by senders and transaction_task. *)

ReadHandshake(p) ==
    /\ At(p, "read_handshake")
    /\ Goto(p, IF handshake THEN "read_data_ready" ELSE Returned(p))
    /\ UNCHANGED <<to_slave_queue, from_slave_queue, osSemaphore, mutex_spi_trans,
                   buf, rx_ready, rxbuff, rx, mem, slave, hist>>

ReadDataReady(p) ==
    /\ At(p, "read_data_ready")
    /\ rx_ready' = Set(rx_ready, p, data_ready)
    /\ Goto(p, "get_tx_buffer")
    /\ UNCHANGED <<to_slave_queue, from_slave_queue, osSemaphore, mutex_spi_trans,
                   buf, rxbuff, rx, mem, slave, hist>>

\* Without a frame of its own the host still runs a transaction if ...
Mutant_SlaveHasData(p) == FALSE
SlaveHasData(p) == rx_ready[p]

\* get_tx_buffer: a queued frame moves to a new sendbuf and its wbuffer is
\* freed; an empty queue ends the call unless the slave has data.
GetTxBuffer(p) ==
    /\ At(p, "get_tx_buffer")
    /\ \/ /\ to_slave_queue # <<>>
          /\ LET f == Head(to_slave_queue) IN
                /\ buf' = Set(buf, p, f)
                /\ AllocFree({Txbuff(p)}, {Wbuffer(f)})
          /\ to_slave_queue' = Received(to_slave_queue)
          /\ Goto(p, "take_mutex")
       \/ /\ to_slave_queue = <<>>
          /\ Goto(p, IF SlaveHasData(p) THEN "take_mutex" ELSE Returned(p))
          /\ UNCHANGED <<to_slave_queue, buf, mem>>
    /\ rx_ready' = Set(rx_ready, p, FALSE)         \* not read again
    /\ UNCHANGED <<from_slave_queue, osSemaphore, mutex_spi_trans, rxbuff, rx, slave, hist>>

Mutant_MutexAvailable == TRUE
MutexAvailable == mutex_spi_trans = None

TakeMutex(p) ==
    /\ At(p, "take_mutex")
    /\ MutexAvailable
    /\ mutex_spi_trans' = p
    /\ Goto(p, "transfer")
    /\ UNCHANGED <<to_slave_queue, from_slave_queue, osSemaphore,
                   buf, rx_ready, rxbuff, rx, mem, slave, hist>>

\* The slave's side of a transaction: an armed slave hands over the frame it
\* loaded and lowers its handshake; one that is not armed takes no part.
SlaveClocked ==
    /\ handshake' = FALSE /\ slave_armed' = None
    /\ UNCHANGED <<data_ready, exti, slave_queue>>

\* What becomes of the host frame: a slave that is not armed misses it, an
\* armed one may still find its checksum wrong.
HostFrameOutcome(f) ==
    \/ /\ f # None /\ handshake
       /\ wire' = Append(wire, f) /\ UNCHANGED lost
    \/ /\ lost' = lost \cup Optional({f}, f) /\ UNCHANGED wire

\* What a transaction frees when it has nothing to push, and after a push.
Mutant_FreedWithoutPush(p) == {}
FreedWithoutPush(p) == {Txbuff(p)}
Mutant_FreedAfterPush(p) == {Txbuff(p), Rxbuff(rxbuff[p])}
FreedAfterPush(p) == {Txbuff(p)}

\* spi_transaction_esp32s2 up to the push: rxbuff, and a zeroed txbuff if there
\* is none, are allocated and the transfer runs.  A transfer that fails, a
\* dummy or malformed frame and a wrong checksum end with both buffers freed.
Transfer(p) ==
    /\ At(p, "transfer")
    /\ HostFrameOutcome(buf[p])
    /\ SlaveClocked
    /\ buf' = Set(buf, p, None)
    /\ \/ /\ slave_armed # None
          /\ rxbuff' = Set(rxbuff, p, slave_armed)
          /\ AllocFree({Rxbuff(slave_armed), Txbuff(p)}, {})
          /\ Goto(p, "push")
          /\ UNCHANGED dropped
       \/ /\ dropped' = dropped \cup Optional({slave_armed}, slave_armed)
          /\ AllocFree({Txbuff(p)}, FreedWithoutPush(p))
          /\ Goto(p, "give_mutex")
          /\ UNCHANGED rxbuff
    /\ UNCHANGED <<to_slave_queue, from_slave_queue, osSemaphore, mutex_spi_trans,
                   rx_ready, rx, accepted, slave_sent, delivered>>

\* xQueueSend(from_slave_queue, .., portMAX_DELAY) with the mutex held: waits
\* while the queue is full.  rxbuff now belongs to the queue; txbuff is freed.
Push(p) ==
    /\ At(p, "push")
    /\ HasRoom(from_slave_queue, FROM_SLAVE_QUEUE_SIZE)
    /\ from_slave_queue' = Append(from_slave_queue, rxbuff[p])
    /\ rxbuff' = Set(rxbuff, p, None)
    /\ AllocFree({}, FreedAfterPush(p))
    /\ Goto(p, "give_mutex")
    /\ UNCHANGED <<to_slave_queue, osSemaphore, mutex_spi_trans, buf, rx_ready,
                   rx, slave, hist>>

Mutant_OwnerAfterGive == mutex_spi_trans
OwnerAfterGive == None

GiveMutex(p) ==
    /\ At(p, "give_mutex")
    /\ mutex_spi_trans' = OwnerAfterGive
    /\ Goto(p, Returned(p))
    /\ UNCHANGED <<to_slave_queue, from_slave_queue, osSemaphore,
                   buf, rx_ready, rxbuff, rx, mem, slave, hist>>
-----------------------------------------------------------------------------
(* process_rx_task *)

RxReceive ==
    /\ rx_pc = "receive"
    /\ from_slave_queue # <<>>
    /\ rx_handle' = Head(from_slave_queue)
    /\ from_slave_queue' = Received(from_slave_queue)
    /\ rx_pc' = "process"
    /\ UNCHANGED <<to_slave_queue, osSemaphore, mutex_spi_trans, local,
                   serial_active, mem, slave, hist>>

Delivers == delivered' = delivered \cup {rx_handle} /\ UNCHANGED dropped
Drops    == dropped' = dropped \cup {rx_handle} /\ UNCHANGED delivered

\* serial_rx_handler gets a copy; when it has no handler for it the copy is
\* never freed.
RxSerial ==
    /\ IfType[rx_handle] = "serial"
    /\ IF serial_active THEN Delivers /\ UNCHANGED mem
                        ELSE Drops /\ AllocFree({SerialBuf(rx_handle)}, {})
    /\ UNCHANGED serial_active

\* netdev_rx owns the copy whether the interface is up or down; a frame for an
\* interface that get_priv does not know is skipped.
RxNet ==
    /\ IfType[rx_handle] = "net"
    /\ Delivers \/ Drops
    /\ UNCHANGED <<serial_active, mem>>

\* The INIT event: after the delay the application registers its serial handler.
RxPrivInit ==
    /\ IfType[rx_handle] = "priv_init"
    /\ serial_active' = TRUE
    /\ Delivers
    /\ UNCHANGED mem

RxProcess ==
    /\ rx_pc = "process"
    /\ RxSerial \/ RxNet \/ RxPrivInit
    /\ rx_pc' = "free"
    /\ UNCHANGED <<to_slave_queue, from_slave_queue, osSemaphore, mutex_spi_trans,
                   local, rx_handle, slave, accepted, wire, lost, slave_sent>>

RxFree ==
    /\ rx_pc = "free"
    /\ AllocFree({}, {Rxbuff(rx_handle)})
    /\ rx_pc' = "receive" /\ rx_handle' = None
    /\ UNCHANGED <<to_slave_queue, from_slave_queue, osSemaphore, mutex_spi_trans,
                   local, serial_active, slave, hist>>
-----------------------------------------------------------------------------
(* The interrupt, and the slave. *)

\* HAL_GPIO_EXTI_Callback
Mutant_GivesSemaphore(line) == line = "data_ready"
GivesSemaphore(line) == line \in {"data_ready", "handshake"}

Isr ==
    \E line \in exti :
        /\ exti' = exti \ {line}
        /\ osSemaphore' = (osSemaphore \/ GivesSemaphore(line))
        /\ UNCHANGED <<to_slave_queue, from_slave_queue, mutex_spi_trans, local, rx, mem,
                       handshake, data_ready, slave_queue, slave_armed, hist>>

SlaveSend ==
    /\ slave_sent < Len(IfType)
    /\ slave_sent' = slave_sent + 1
    /\ slave_queue' = Append(slave_queue, slave_sent + 1)
    /\ data_ready' = TRUE
    /\ exti' = IF data_ready THEN exti ELSE exti \cup {"data_ready"}
    /\ UNCHANGED <<to_slave_queue, from_slave_queue, osSemaphore, mutex_spi_trans, local, rx,
                   mem, handshake, slave_armed, accepted, wire, lost, delivered, dropped>>

\* The slave loads its next frame, or a dummy when it has none, and raises its
\* handshake.
SlaveArm ==
    /\ ~handshake
    /\ handshake' = TRUE
    /\ exti' = exti \cup {"handshake"}
    /\ \/ /\ slave_queue # <<>>
          /\ slave_armed' = Head(slave_queue)
          /\ slave_queue' = Tail(slave_queue)
          /\ UNCHANGED data_ready
       \/ /\ slave_queue = <<>>
          /\ data_ready' = FALSE
          /\ UNCHANGED <<slave_armed, slave_queue>>
    /\ UNCHANGED <<to_slave_queue, from_slave_queue, osSemaphore, mutex_spi_trans, local, rx,
                   mem, hist>>
-----------------------------------------------------------------------------
CheckAndExecute(p) == \/ ReadHandshake(p) \/ ReadDataReady(p) \/ GetTxBuffer(p)
                      \/ TakeMutex(p) \/ Transfer(p) \/ Push(p) \/ GiveMutex(p)
SendToSlave(s) == Reject(s) \/ Enqueue(s) \/ CheckAndExecute(s)
TransactionTask == WaitSemaphore \/ CheckAndExecute(transaction_task)
RxTask == RxReceive \/ RxProcess \/ RxFree

\* Every frame has been sent and everyone waits: the processor idles.
Idle ==
    /\ Elems(accepted) = HostFrames /\ slave_sent = Len(IfType)
    /\ \A p \in Procs : pc[p] = Returned(p)
    /\ ~osSemaphore /\ exti = {} /\ handshake
    /\ rx_pc = "receive" /\ from_slave_queue = <<>>
    /\ UNCHANGED vars

Next == \/ \E s \in Senders : SendToSlave(s) \/ \E f \in HostFrames : Call(s, f)
        \/ TransactionTask
        \/ RxTask
        \/ Isr
        \/ SlaveSend \/ SlaveArm
        \/ Idle

Spec == Init /\ [][Next]_vars
-----------------------------------------------------------------------------
(* Properties *)

Labels == {"idle", "wait", "enqueue", "reject", "read_handshake", "read_data_ready",
           "get_tx_buffer", "take_mutex", "transfer", "push", "give_mutex"}
Buffers == (({"wbuffer"} \X HostFrames) \cup ({"txbuff"} \X Procs)
            \cup ({"rxbuff", "serial_buf"} \X SlaveFrames))

TypeQueues ==
    /\ to_slave_queue \in Seq(HostFrames) /\ Len(to_slave_queue) <= TO_SLAVE_QUEUE_SIZE
    /\ from_slave_queue \in Seq(SlaveFrames) /\ Len(from_slave_queue) <= FROM_SLAVE_QUEUE_SIZE

TypeTasks ==
    /\ osSemaphore \in BOOLEAN
    /\ mutex_spi_trans \in Procs \cup {None}
    /\ pc \in [Procs -> Labels]
    /\ buf \in [Procs -> HostFrames \cup {None}]
    /\ rx_ready \in [Procs -> BOOLEAN]
    /\ rxbuff \in [Procs -> SlaveFrames \cup {None}]
    /\ rx_pc \in {"receive", "process", "free"}
    /\ rx_handle \in SlaveFrames \cup {None}
    /\ serial_active \in BOOLEAN

TypeHeap == heap \subseteq Buffers /\ double_free \subseteq Buffers

TypeSlave ==
    /\ handshake \in BOOLEAN /\ data_ready \in BOOLEAN
    /\ exti \subseteq {"handshake", "data_ready"}
    /\ slave_queue \in Seq(SlaveFrames)
    /\ slave_armed \in SlaveFrames \cup {None}

TypeHistory ==
    /\ accepted \in Seq(HostFrames) /\ wire \in Seq(HostFrames) /\ lost \subseteq HostFrames
    /\ slave_sent \in 0..Len(IfType)
    /\ delivered \subseteq SlaveFrames /\ dropped \subseteq SlaveFrames

TypeOK == TypeQueues /\ TypeTasks /\ TypeHeap /\ TypeSlave /\ TypeHistory

OnBus(p) == pc[p] \in {"transfer", "push", "give_mutex"}

\* Between mutex take and give (spi_drv.c:378-380), and only there, a process
\* owns the bus: two transactions never overlap.
BusExclusive == \A p \in Procs : OnBus(p) <=> mutex_spi_trans = p

\* The buffers that a queue or a local variable of the code still points to.
\* A call that has no txbuff yet at "transfer" allocates it there.
HoldsTxbuff(p) == pc[p] = "push" \/ (pc[p] \in {"take_mutex", "transfer"} /\ buf[p] # None)
Owned ==
    {Wbuffer(f) : f \in Elems(to_slave_queue)}
    \cup {Wbuffer(buf[p]) : p \in {q \in Procs : pc[q] \in {"enqueue", "reject"}}}
    \cup {Txbuff(p) : p \in {q \in Procs : HoldsTxbuff(q)}}
    \cup {Rxbuff(rxbuff[p]) : p \in {q \in Procs : pc[q] = "push"}}
    \cup {Rxbuff(r) : r \in Elems(from_slave_queue)}
    \cup {Rxbuff(r) : r \in {rx_handle} \ {None}}

\* Memory safety of the hand-overs: no buffer is freed twice, and none that a
\* queue or a local still points to has been freed.
NoDanglingBuffer == double_free = {} /\ Owned \subseteq heap

\* spi_drv.c:828-829, "When buffer offloaded to other module, that module is
\* responsible for freeing buffer": every allocated buffer is still referenced,
\* but for the copy of a serial frame that serial_rx_handler refuses, which
\* neither it nor process_rx_task frees.
OnlySerialCopiesLeak == heap \ Owned \subseteq {SerialBuf(r) : r \in dropped}

InHand == {buf[p] : p \in {q \in Procs : pc[q] \in {"take_mutex", "transfer"}}} \ {None}
Distinct(s) == \A i, j \in 1..Len(s) : s[i] = s[j] => i = j

\* A frame send_to_slave accepted is in the queue, in the hands of one process,
\* received by the slave, or lost - never in two of these places, never in none.
HostFramesConserved ==
    /\ Distinct(accepted) /\ Distinct(wire) /\ Distinct(to_slave_queue)
    /\ Elems(accepted) = Elems(to_slave_queue) \cup InHand \cup Elems(wire) \cup lost
    /\ Elems(to_slave_queue) \cap (InHand \cup Elems(wire) \cup lost) = {}
    /\ InHand \cap (Elems(wire) \cup lost) = {}
    /\ Elems(wire) \cap lost = {}

\* Where the slave's frames are on their way up.
HandleSet == {rx_handle} \ {None}
RxbuffSet == {rxbuff[p] : p \in Procs} \ {None}
ArmedSet  == {slave_armed} \ {None}
BehindHandle == Elems(from_slave_queue) \cup RxbuffSet \cup ArmedSet \cup Elems(slave_queue)
Undecided == IF rx_pc = "process" THEN HandleSet ELSE {}

\* Every frame the slave has queued is still with the slave, received and not yet
\* queued, in from_slave_queue, with process_rx_task, delivered, or counted as
\* dropped - never in two of these places, never in none.
SlaveFramesConserved ==
    /\ 1..slave_sent = delivered \cup dropped \cup Undecided \cup BehindHandle
    /\ delivered \cap dropped = {}
    /\ (delivered \cup dropped) \cap (Undecided \cup BehindHandle) = {}
    /\ Undecided \cap BehindHandle = {}
    /\ Elems(from_slave_queue) \cap (RxbuffSet \cup ArmedSet \cup Elems(slave_queue)) = {}
    /\ RxbuffSet \cap (ArmedSet \cup Elems(slave_queue)) = {}
    /\ ArmedSet \cap Elems(slave_queue) = {}

\* No wake-up is lost: when everyone has gone back to waiting while the slave
\* holds its handshake up, no frame is left in the queue and the slave has none.
NoStrandedFrame ==
    (/\ handshake /\ exti = {} /\ ~osSemaphore
     /\ \A p \in Procs : pc[p] \in {"idle", "wait", "reject", "enqueue"})
    => to_slave_queue = <<>> /\ ~data_ready /\ slave_armed = None /\ slave_queue = <<>>

\* The driver implements the promise of SpiLink.
Link == INSTANCE SpiLink
ImplementsLink == Link!Spec

\* spi_drv.c:358, "handshake line SET -> slave ready for next transaction": no
\* transfer starts while the slave is not ready.
TransferOnlyWhenReady ==
    [][\A p \in Procs : At(p, "transfer") /\ pc'[p] # "transfer" => handshake]_vars

\* The queue is first-in first-out up to the frames that a process has taken
\* off it and not transferred yet: only these are ever overtaken on the wire.
OnlyFramesInHandOvertaken ==
    \A i, j \in 1..Len(accepted) :
        i < j /\ accepted[j] \in Elems(wire) \cup lost \cup InHand
        => accepted[i] \in Elems(wire) \cup lost \cup InHand
=============================================================================
