----------------------------- MODULE UartConsole ------------------------------
(***************************************************************************)
(* usart.c: the console.  Tasks print into tx_buffer, which DMA sends in   *)
(* chunks; DMA receives what is typed, an interrupt moves it to rx_buffer, *)
(* and the CLI task reads it byte by byte and echoes it.                   *)
(*                                                                         *)
(* A read or write of a ring buffer is one step here (RingBuffer takes it  *)
(* apart).  The three interrupts of the UART have the same priority and do *)
(* not interrupt each other: a handler is one step.  Tasks of equal        *)
(* priority print, so any of them may be preempted anywhere.  A failed     *)
(* assertion stops the board.                                              *)
(***************************************************************************)
EXTENDS Naturals, Sequences

CONSTANTS Printers,         \* the tasks that print, the CLI's among them
          cli, None,
          TxSize, RxSize,   \* bytes the ring buffers hold; 254 in the code
          TX_DMA_BUFFER_SIZE,
          Half,             \* half of RX_DMA_BUFFER_SIZE
          Retries,          \* attempts of put_tx_data_with_wait; 1000 in the code
          PrintLengths,     \* lengths of what is printed
          MaxPrinted, MaxTyped  \* bounds on the bytes printed and typed

ASSUME TaskAssumption == cli \in Printers /\ None \notin Printers
ASSUME SizeAssumption ==
    /\ TxSize \in Nat \ {0} /\ RxSize \in Nat \ {0}
    /\ TX_DMA_BUFFER_SIZE \in Nat \ {0} /\ Half \in Nat \ {0}
    /\ Retries \in Nat \ {0}
    /\ PrintLengths \subseteq Nat \ {0}
    /\ MaxPrinted \in Nat /\ MaxTyped \in Nat

VARIABLES tx,               \* put_tx_data_with_wait of each task: its place and locals
          writeSemaphore,   \* the task that holds it, or None
          tx_buffer,
          TX_DMA_buffer,    \* the bytes DMA sends from
          gState, Lock,     \* of huart2: the transmitter's state; who holds the HAL's lock
          dma,              \* bytes of TX_DMA_buffer that are sent, and that are to be sent
          wire,             \* what was sent
          printed,          \* how many bytes entered tx_buffer; each is named by its number
          overlapped        \* whether two tasks were ever starting a transfer at once

VARIABLES RxState,          \* whether a reception runs
          RX_DMA_buffer,    \* the bytes this reception received
          ht,               \* whether the half-transfer interrupt is enabled
          rx_buffer, readSemaphore,
          reader,           \* get_rx_data in the CLI task
          got,              \* what the CLI task read
          typed,            \* how many bytes were typed; each is named by its number
          dropped,          \* typed bytes that found rx_buffer full
          line_error        \* whether the line ever had a framing, noise or overrun error

VARIABLE board

txvars == <<tx, writeSemaphore, tx_buffer, TX_DMA_buffer, gState, Lock, dma, wire, printed,
            overlapped>>
ring == <<rx_buffer, readSemaphore, dropped>>
reception == <<RxState, RX_DMA_buffer, ht>>
rxvars == <<reception, ring, reader, got, typed, line_error>>
vars == <<txvars, rxvars, board>>

Places == {"idle", "take", "write", "check", "read", "gState", "lock", "start", "ht", "delay"}

Idle == [pc |-> "idle", left |-> 0, retries |-> 0, n |-> 0]

TypeOK ==
    /\ tx \in [Printers -> [pc : Places, left : Nat, retries : 0..Retries, n : Nat]]
    /\ writeSemaphore \in Printers \cup {None}
    /\ tx_buffer \in Seq(Nat) /\ Len(tx_buffer) <= TxSize
    /\ TX_DMA_buffer \in [1..TX_DMA_BUFFER_SIZE -> Nat]
    /\ gState \in {"READY", "BUSY_TX"}
    /\ Lock \in Printers \cup {None}
    /\ dma \in [sent : 0..TX_DMA_BUFFER_SIZE, size : 0..TX_DMA_BUFFER_SIZE]
    /\ wire \in Seq(Nat) /\ printed \in Nat
    /\ overlapped \in BOOLEAN
    /\ RxState \in {"READY", "BUSY_RX"}
    /\ RX_DMA_buffer \in Seq(Nat) /\ Len(RX_DMA_buffer) < 2 * Half
    /\ ht \in BOOLEAN
    /\ rx_buffer \in Seq(Nat) /\ Len(rx_buffer) <= RxSize
    /\ readSemaphore \in {0, 1}
    /\ reader \in {"take", "read", "echo"}
    /\ got \in Seq(Nat) /\ typed \in Nat /\ dropped \subseteq Nat
    /\ line_error \in BOOLEAN
    /\ board \in {"runs", "assert"}

Init ==
    /\ tx = [p \in Printers |-> Idle]
    /\ writeSemaphore = None
    /\ tx_buffer = <<>>
    /\ TX_DMA_buffer = [k \in 1..TX_DMA_BUFFER_SIZE |-> 0]
    /\ gState = "READY" /\ Lock = None
    /\ dma = [sent |-> 0, size |-> 0]
    /\ wire = <<>> /\ printed = 0 /\ overlapped = FALSE
    /\ RxState = "BUSY_RX" /\ RX_DMA_buffer = <<>> /\ ht = FALSE
    /\ rx_buffer = <<>> /\ readSemaphore = 1
    /\ reader = "take" /\ got = <<>>
    /\ typed = 0 /\ dropped = {} /\ line_error = FALSE
    /\ board = "runs"

Smaller(a, b) == IF a < b THEN a ELSE b

--------------------------------------------------------------------------------
\* Printing, in a task

TxAt(p, place) == board = "runs" /\ tx[p].pc = place
TxGoto(p, place) == tx' = [tx EXCEPT ![p].pc = place, ![p].n = 0]

PutTxDataWithWait(p, length) ==
    tx' = [tx EXCEPT ![p] = [pc |-> "take", left |-> length, retries |-> Retries, n |-> 0]]

\* Another task than the CLI's prints.
PrintBytes(p) ==
    /\ TxAt(p, "idle") /\ p # cli
    /\ \E length \in PrintLengths :
          /\ printed + length <= MaxPrinted
          /\ PutTxDataWithWait(p, length)
    /\ UNCHANGED <<writeSemaphore, tx_buffer, TX_DMA_buffer, gState, Lock, dma, wire, printed,
                   overlapped, rxvars, board>>

MayWrite(p) == writeSemaphore = None

\* put_tx_data takes the semaphore; TM_BUFFER_Write measures the room.
Take(p) ==
    /\ TxAt(p, "take") /\ MayWrite(p)
    /\ writeSemaphore' = p
    /\ tx' = [tx EXCEPT ![p].pc = "write",
                        ![p].n = Smaller(tx[p].left, TxSize - Len(tx_buffer))]
    /\ UNCHANGED <<tx_buffer, TX_DMA_buffer, gState, Lock, dma, wire, printed, overlapped,
                   rxvars, board>>

Write(p) ==
    /\ TxAt(p, "write")
    /\ tx_buffer' = tx_buffer \o [k \in 1..tx[p].n |-> printed + k]
    /\ printed' = printed + tx[p].n
    /\ writeSemaphore' = None
    /\ tx' = [tx EXCEPT ![p].pc = "check", ![p].left = @ - tx[p].n, ![p].n = 0]
    /\ UNCHANGED <<TX_DMA_buffer, gState, Lock, dma, wire, overlapped, rxvars, board>>

\* put_tx_data returns.
Return(p) == tx' = [tx EXCEPT ![p] = IF @.left = 0 THEN Idle ELSE [@ EXCEPT !.pc = "delay", !.n = 0]]

\* The tasks between the test of gState and the start of the transfer.
Starting == {p \in Printers : tx[p].pc \in {"read", "gState", "lock", "start"}}

Mutant_Ready(p) == TRUE
Mutant_ReadyAtEnd(p) == gState = "READY" /\ tx[p].left = 0
Ready(p) == gState = "READY"

\* Outside the semaphore
Check(p) ==
    /\ TxAt(p, "check")
    /\ IF Ready(p)
       THEN TxGoto(p, "read") /\ overlapped' = (overlapped \/ Starting # {})
       ELSE Return(p) /\ UNCHANGED overlapped
    /\ UNCHANGED <<writeSemaphore, tx_buffer, TX_DMA_buffer, gState, Lock, dma, wire, printed,
                   rxvars, board>>

ChunkSize == Smaller(TX_DMA_BUFFER_SIZE, Len(tx_buffer))

\* TM_BUFFER_Read of tx_next_chunk
Mutant_TakeChunk ==
    /\ TX_DMA_buffer' = [k \in 1..TX_DMA_BUFFER_SIZE |->
                             IF k <= ChunkSize THEN tx_buffer[k] ELSE TX_DMA_buffer[k]]
    /\ tx_buffer' = tx_buffer
TakeChunk ==
    /\ TX_DMA_buffer' = [k \in 1..TX_DMA_BUFFER_SIZE |->
                             IF k <= ChunkSize THEN tx_buffer[k] ELSE TX_DMA_buffer[k]]
    /\ tx_buffer' = SubSeq(tx_buffer, ChunkSize + 1, Len(tx_buffer))

ReadChunk(p) ==
    /\ TxAt(p, "read")
    /\ TakeChunk
    /\ IF ChunkSize > 0 THEN tx' = [tx EXCEPT ![p].pc = "gState", ![p].n = ChunkSize]
                        ELSE Return(p)
    /\ UNCHANGED <<writeSemaphore, gState, Lock, dma, wire, printed, overlapped, rxvars, board>>

\* HAL_UART_Transmit_DMA is busy unless gState is READY and Lock is free; its
\* caller asserts that it is not.
TestState(p) ==
    /\ TxAt(p, "gState")
    /\ IF gState = "READY" THEN tx' = [tx EXCEPT ![p].pc = "lock"] /\ UNCHANGED board
                           ELSE board' = "assert" /\ UNCHANGED tx
    /\ UNCHANGED <<writeSemaphore, tx_buffer, TX_DMA_buffer, gState, Lock, dma, wire, printed,
                   overlapped, rxvars>>

TakeLock(p) ==
    /\ TxAt(p, "lock")
    /\ IF Lock = None THEN Lock' = p /\ tx' = [tx EXCEPT ![p].pc = "start"] /\ UNCHANGED board
                      ELSE board' = "assert" /\ UNCHANGED <<Lock, tx>>
    /\ UNCHANGED <<writeSemaphore, tx_buffer, TX_DMA_buffer, gState, dma, wire, printed,
                   overlapped, rxvars>>

\* A running stream refuses a second start, unnoticed.
StartStream(n) == dma' = IF dma.size = 0 THEN [sent |-> 0, size |-> n] ELSE dma

StartTransfer(p) ==
    /\ TxAt(p, "start")
    /\ gState' = "BUSY_TX"
    /\ StartStream(tx[p].n)
    /\ Lock' = None
    /\ TxGoto(p, "ht")
    /\ UNCHANGED <<writeSemaphore, tx_buffer, TX_DMA_buffer, wire, printed, overlapped,
                   rxvars, board>>

DisableHalf(p) ==
    /\ TxAt(p, "ht")
    /\ ht' = FALSE
    /\ Return(p)
    /\ UNCHANGED <<writeSemaphore, tx_buffer, TX_DMA_buffer, gState, Lock, dma, wire, printed,
                   overlapped, RxState, RX_DMA_buffer, ring, reader, got, typed, line_error,
                   board>>

Mutant_Attempts(p) == tx[p].retries
Attempts(p) == tx[p].retries - 1

\* After the last attempt the rest is dropped.
Delay(p) ==
    /\ TxAt(p, "delay")
    /\ tx' = [tx EXCEPT ![p] = IF Attempts(p) = 0 THEN Idle
                               ELSE [@ EXCEPT !.pc = "take", !.retries = Attempts(p)]]
    /\ UNCHANGED <<writeSemaphore, tx_buffer, TX_DMA_buffer, gState, Lock, dma, wire, printed,
                   overlapped, rxvars, board>>

PutTxData(p) == \/ Take(p) \/ Write(p) \/ Check(p) \/ ReadChunk(p) \/ TestState(p)
                \/ TakeLock(p) \/ StartTransfer(p) \/ DisableHalf(p) \/ Delay(p)

--------------------------------------------------------------------------------
\* The transmitter

SendByte ==
    /\ board = "runs" /\ dma.sent < dma.size
    /\ wire' = Append(wire, TX_DMA_buffer[dma.sent + 1])
    /\ dma' = [dma EXCEPT !.sent = @ + 1]
    /\ UNCHANGED <<tx, writeSemaphore, tx_buffer, TX_DMA_buffer, gState, Lock, printed,
                   overlapped, rxvars, board>>

\* HAL_UART_TxCpltCallback, with tx_next_chunk
TxCplt ==
    /\ board = "runs" /\ dma.size > 0 /\ dma.sent = dma.size
    /\ TakeChunk
    /\ IF ChunkSize = 0
       THEN /\ gState' = "READY" /\ dma' = [sent |-> 0, size |-> 0]
            /\ UNCHANGED <<ht, board>>
       ELSE IF Lock = None
       THEN /\ gState' = "BUSY_TX" /\ dma' = [sent |-> 0, size |-> ChunkSize]
            /\ ht' = FALSE /\ UNCHANGED board
       ELSE /\ gState' = "READY" /\ dma' = [sent |-> 0, size |-> 0]
            /\ board' = "assert" /\ UNCHANGED ht
    /\ UNCHANGED <<tx, writeSemaphore, Lock, wire, printed, overlapped, RxState, RX_DMA_buffer,
                   ring, reader, got, typed, line_error>>

Transmitter == SendByte \/ TxCplt

--------------------------------------------------------------------------------
\* The receiver

\* TM_BUFFER_Write of HAL_UARTEx_RxEventCallback; what does not fit is dropped.
Received(bytes) ==
    LET n == Smaller(Len(bytes), RxSize - Len(rx_buffer))
    IN  /\ rx_buffer' = rx_buffer \o SubSeq(bytes, 1, n)
        /\ dropped' = dropped \cup {bytes[k] : k \in (n + 1)..Len(bytes)}
        /\ readSemaphore' = 1

\* HAL_UARTEx_ReceiveToIdle_DMA: the result of a restart is not looked at.
Mutant_Restart == /\ RX_DMA_buffer' = <<>>
                  /\ RxState' = "READY" /\ UNCHANGED ht
Mutant_RestartKeeps ==
    /\ RX_DMA_buffer' = RX_DMA_buffer
    /\ IF Lock = None THEN RxState' = "BUSY_RX" /\ ht' = TRUE
                      ELSE RxState' = "READY" /\ UNCHANGED ht
Restart ==
    /\ RX_DMA_buffer' = <<>>
    /\ IF Lock = None THEN RxState' = "BUSY_RX" /\ ht' = TRUE
                      ELSE RxState' = "READY" /\ UNCHANGED ht

\* A byte arrives.  It completes the reception, or its first half: then the
\* callback gets that half and cannot restart a reception that still runs.
ReceiveByte ==
    /\ board = "runs" /\ typed < MaxTyped
    /\ typed' = typed + 1
    /\ LET bytes == Append(RX_DMA_buffer, typed + 1)
       IN  IF RxState # "BUSY_RX"
           THEN UNCHANGED <<reception, ring>>
           ELSE IF Len(bytes) = 2 * Half
           THEN Received(bytes) /\ Restart
           ELSE /\ RX_DMA_buffer' = bytes /\ UNCHANGED <<RxState, ht>>
                /\ IF Len(bytes) = Half /\ ht THEN Received(bytes) ELSE UNCHANGED ring
    /\ UNCHANGED <<txvars, reader, got, line_error, board>>

\* The line falls idle.
ReceiveIdle ==
    /\ board = "runs" /\ RxState = "BUSY_RX" /\ RX_DMA_buffer # <<>>
    /\ Received(RX_DMA_buffer) /\ Restart
    /\ UNCHANGED <<txvars, reader, got, typed, line_error, board>>

\* The HAL aborts the reception and calls HAL_UART_ErrorCallback, which usart.c
\* leaves empty.
ReceiveError ==
    /\ board = "runs" /\ RxState = "BUSY_RX" /\ typed < MaxTyped
    /\ typed' = typed + 1 /\ line_error' = TRUE
    /\ RxState' = "READY" /\ RX_DMA_buffer' = <<>>
    /\ UNCHANGED <<txvars, ht, ring, reader, got, board>>

--------------------------------------------------------------------------------
\* get_rx_data and its caller, cli_thread

\* The result of the wait, the semaphore or a time-out, is not looked at.
Mutant_AfterWait == IF readSemaphore = 1 THEN "read" ELSE "take"
AfterWait == "read"

TakeRead ==
    /\ board = "runs" /\ reader = "take"
    /\ readSemaphore' = 0
    /\ reader' = AfterWait
    /\ UNCHANGED <<txvars, reception, rx_buffer, dropped, got, typed, line_error, board>>

\* One byte is read; it may be echoed.
ReadByte ==
    /\ board = "runs" /\ reader = "read"
    /\ IF rx_buffer = <<>>
       THEN /\ reader' = "take"
            /\ UNCHANGED <<tx, rx_buffer, got>>
       ELSE /\ rx_buffer' = Tail(rx_buffer)
            /\ got' = Append(got, Head(rx_buffer))
            /\ \/ reader' = "take" /\ UNCHANGED tx
               \/ \E length \in PrintLengths :
                     /\ printed + length <= MaxPrinted
                     /\ PutTxDataWithWait(cli, length)
                     /\ reader' = "echo"
    /\ UNCHANGED <<writeSemaphore, tx_buffer, TX_DMA_buffer, gState, Lock, dma, wire, printed,
                   overlapped, reception, readSemaphore, dropped, typed, line_error, board>>

Echoed ==
    /\ TxAt(cli, "idle") /\ reader = "echo"
    /\ reader' = "take"
    /\ UNCHANGED <<txvars, reception, ring, got, typed, line_error, board>>

Reader == TakeRead \/ ReadByte \/ Echoed

--------------------------------------------------------------------------------
\* The board stopped.
Stopped == board # "runs" /\ UNCHANGED vars

Next == \/ \E p \in Printers : PrintBytes(p) \/ PutTxData(p)
        \/ Transmitter
        \/ ReceiveByte \/ ReceiveIdle \/ ReceiveError
        \/ Reader \/ Stopped

Spec == Init /\ [][Next]_vars

\* Tasks that are ready run and get the semaphore in turn, a silent line is
\* noticed.  Nobody has to print or to type, and the line may be slow for ever.
FairSpec == /\ Spec
            /\ \A p \in Printers : SF_vars(PutTxData(p))
            /\ WF_vars(ReceiveIdle) /\ WF_vars(Reader)

--------------------------------------------------------------------------------
\* The bytes between tx_buffer and the wire, oldest first: what is left of the
\* running transfer, or the chunk of the task that starts one.
InHand == {p \in Printers : tx[p].pc \in {"gState", "lock", "start"}}
OnTheWay == IF dma.size > 0 THEN SubSeq(TX_DMA_buffer, dma.sent + 1, dma.size)
            ELSE IF InHand # {}
            THEN LET p == CHOOSE q \in InHand : TRUE IN SubSeq(TX_DMA_buffer, 1, tx[p].n)
            ELSE <<>>

\* The assertion in tx_next_chunk fails only after two tasks found the
\* transmitter ready at once: the transmit-complete interrupt never finds it
\* started by a task, nor a task by the interrupt.
AssertOnlyOverlap == board = "assert" => overlapped

\* Until then every byte that entered tx_buffer is sent once and in order,
\* whatever the interrupt and the tasks do in between.
SentInOrder ==
    ~overlapped => wire \o OnTheWay \o tx_buffer = [k \in 1..printed |-> k]

\* Bytes never wait in tx_buffer with the transmitter idle and no task about to
\* start it: neither side relies on the other when both look.
NoStrandedByte ==
    ~overlapped /\ tx_buffer # <<>> =>
        dma.size > 0 \/ \E p \in Printers : tx[p].pc \in {"check", "read", "lock", "gState", "start"}

\* Reception ends for good only when a restart met a task inside the HAL, or
\* after an error of the line: not before anything was printed.
DeafOnlyAfterPrint == RxState = "READY" => line_error \/ printed > 0

\* A typed byte reaches the CLI at most twice - the first half of a reception
\* may be repeated - and for the first time in the order of typing.
Delivered == got \o rx_buffer
TypedInOrder ==
    /\ \A i, j, k \in 1..Len(Delivered) :
          i < j /\ j < k => ~(Delivered[i] = Delivered[j] /\ Delivered[j] = Delivered[k])
    /\ \A i, j \in 1..Len(Delivered) :
          i < j /\ Delivered[j] < Delivered[i] =>
              \E h \in 1..(i - 1) : Delivered[h] = Delivered[j]

\* When the tasks pause, all that was printed gets sent if the line sends at
\* all, unless two tasks met: the last bytes do not wait for the next print.
PrintedIsSent == WF_vars(Transmitter) => []<>(Len(wire) = printed \/ overlapped)

\* Every print returns, however slow the line is and even if it stops.
PrintReturns == \A p \in Printers : []<>(tx[p].pc = "idle" \/ board # "runs")

\* When the typing pauses, all that was received is read, although one
\* semaphore announces many bytes and the reader takes one at a time.
TypedIsRead == []<>(RX_DMA_buffer \o rx_buffer = <<>> \/ board # "runs")
=============================================================================
