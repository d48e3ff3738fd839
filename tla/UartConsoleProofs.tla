-------------------------- MODULE UartConsoleProofs ---------------------------
(***************************************************************************)
(* Proofs about UartConsole for any set of tasks, any buffer sizes, any    *)
(* number of attempts and any amount of printing and typing.               *)
(***************************************************************************)
EXTENDS UartConsole, SequenceTheorems, TLAPS

Calls == [pc : Places, left : Nat, retries : 0..Retries, n : Nat]

TxTypes ==
    /\ tx \in [Printers -> Calls]
    /\ writeSemaphore \in Printers \cup {None}
    /\ tx_buffer \in Seq(Nat) /\ Len(tx_buffer) <= TxSize
    /\ TX_DMA_buffer \in [1..TX_DMA_BUFFER_SIZE -> Nat]
    /\ gState \in {"READY", "BUSY_TX"}
    /\ Lock \in Printers \cup {None}
    /\ dma \in [sent : 0..TX_DMA_BUFFER_SIZE, size : 0..TX_DMA_BUFFER_SIZE]
    /\ wire \in Seq(Nat) /\ printed \in Nat
    /\ overlapped \in BOOLEAN
    /\ board \in {"runs", "assert"}

RxTypes ==
    /\ RxState \in {"READY", "BUSY_RX"}
    /\ RX_DMA_buffer \in Seq(Nat) /\ Len(RX_DMA_buffer) < 2 * Half
    /\ ht \in BOOLEAN
    /\ rx_buffer \in Seq(Nat) /\ Len(rx_buffer) <= RxSize
    /\ readSemaphore \in {0, 1}
    /\ reader \in {"take", "read", "echo"}
    /\ got \in Seq(Nat) /\ typed \in Nat /\ dropped \subseteq Nat
    /\ line_error \in BOOLEAN

LEMMA TypesOfBothSides == TypeOK <=> TxTypes /\ RxTypes
  BY DEF TypeOK, TxTypes, RxTypes, Calls

\* Between the chunk's read and the transfer's start: the places of InHand.
HoldsChunk(p) == tx[p].pc \in {"gState", "lock", "start"}

\* What a task inside put_tx_data_with_wait keeps: attempts, the room it measured
\* under the semaphore, and the size of the chunk it took.
LocalsOK(p) ==
    /\ tx[p].pc # "idle" => tx[p].retries > 0
    /\ tx[p].pc = "write" =>
          /\ writeSemaphore = p
          /\ tx[p].n <= tx[p].left /\ Len(tx_buffer) + tx[p].n <= TxSize
    /\ HoldsChunk(p) => tx[p].n \in 1..TX_DMA_BUFFER_SIZE /\ printed > 0
    /\ Lock = p <=> tx[p].pc = "start"

Locals == /\ \A p \in Printers : LocalsOK(p)
          /\ Len(tx_buffer) <= printed
          /\ reader # "echo" => tx[cli].pc = "idle"

Inv == TxTypes /\ RxTypes /\ Locals

--------------------------------------------------------------------------------
(* Helpers *)

LEMMA SmallerIsLess ==
    ASSUME NEW a \in Nat, NEW b \in Nat
    PROVE  /\ Smaller(a, b) \in Nat /\ Smaller(a, b) <= a /\ Smaller(a, b) <= b
           /\ Smaller(a, b) = a \/ Smaller(a, b) = b
  BY DEF Smaller

LEMMA ConcatFacts ==
    ASSUME NEW s \in Seq(Nat), NEW t \in Seq(Nat)
    PROVE  /\ s \o t \in Seq(Nat) /\ Len(s \o t) = Len(s) + Len(t)
           /\ Len(s) \in Nat /\ Len(t) \in Nat
           /\ \A k \in 1..Len(s) : (s \o t)[k] = s[k]
           /\ \A k \in 1..Len(t) : (s \o t)[Len(s) + k] = t[k]
  OBVIOUS

LEMMA LessNothing == \A n \in Nat : n - 0 = n
  OBVIOUS

LEMMA ConcatAssociates ==
    ASSUME NEW s \in Seq(Nat), NEW t \in Seq(Nat), NEW u \in Seq(Nat)
    PROVE  s \o (t \o u) = (s \o t) \o u
  BY SMTT(60)

LEMMA HeadMoves ==
    ASSUME NEW s \in Seq(Nat), NEW t \in Seq(Nat), t # <<>>
    PROVE  Append(s, Head(t)) \o Tail(t) = s \o t
  <1>1. /\ Head(t) \in Nat /\ Tail(t) \in Seq(Nat) /\ <<Head(t)>> \in Seq(Nat)
    OBVIOUS
  <1>2. <<Head(t)>> \o Tail(t) = t
    OBVIOUS
  <1>3. Append(s, Head(t)) = s \o <<Head(t)>>
    BY <1>1, AppendIsConcat
  <1>4. (s \o <<Head(t)>>) \o Tail(t) = s \o (<<Head(t)>> \o Tail(t))
    BY <1>1, ConcatAssociates
  <1>5. QED
    BY <1>2, <1>3, <1>4

LEMMA NumbersFrom ==
    ASSUME NEW m \in Nat, NEW n \in Nat
    PROVE  LET s == [k \in 1..n |-> m + k]
           IN  s \in Seq(Nat) /\ Len(s) = n /\ \A k \in 1..n : s[k] = m + k
  OBVIOUS

LEMMA SameDifference ==
    ASSUME NEW a \in Nat, NEW b \in Nat
    PROVE  (a + 1) - (b + 1) = a - b
  OBVIOUS

LEMMA Updated ==
    ASSUME tx \in [Printers -> Calls], NEW p \in Printers, NEW r \in Calls,
           tx' = [tx EXCEPT ![p] = r]
    PROVE  /\ tx' \in [Printers -> Calls] /\ tx'[p] = r
           /\ \A q \in Printers : q # p => tx'[q] = tx[q]
  OBVIOUS

LEMMA CallFields ==
    ASSUME TxTypes, NEW p \in Printers
    PROVE  /\ tx[p] \in Calls /\ tx[p].pc \in Places /\ tx[p].left \in Nat
           /\ tx[p].retries \in 0..Retries /\ tx[p].n \in Nat
  BY DEF TxTypes, Calls

\* The chunk taken from tx_buffer, and what is left.
LEMMA ChunkFacts ==
    ASSUME TxTypes
    PROVE  /\ ChunkSize \in 0..TX_DMA_BUFFER_SIZE /\ ChunkSize <= Len(tx_buffer)
           /\ Len(tx_buffer) \in Nat
           /\ ChunkSize = 0 <=> tx_buffer = <<>>
  <1>1. TX_DMA_BUFFER_SIZE \in Nat \ {0} /\ tx_buffer \in Seq(Nat)
    BY SizeAssumption DEF TxTypes
  <1>2. Len(tx_buffer) \in Nat /\ (Len(tx_buffer) = 0 <=> tx_buffer = <<>>)
    BY <1>1
  <1>3. QED
    BY <1>1, <1>2 DEF ChunkSize, Smaller

LEMMA TakeChunkFacts ==
    ASSUME TxTypes, TakeChunk
    PROVE  /\ TX_DMA_buffer' \in [1..TX_DMA_BUFFER_SIZE -> Nat]
           /\ tx_buffer' \in Seq(Nat) /\ Len(tx_buffer') = Len(tx_buffer) - ChunkSize
           /\ \A k \in 1..ChunkSize : TX_DMA_buffer'[k] = tx_buffer[k]
           /\ \A k \in 1..Len(tx_buffer') : tx_buffer'[k] = tx_buffer[ChunkSize + k]
  <1>1. /\ ChunkSize \in 0..TX_DMA_BUFFER_SIZE /\ ChunkSize <= Len(tx_buffer)
        /\ Len(tx_buffer) \in Nat
    BY ChunkFacts
  <1>2. tx_buffer \in Seq(Nat) /\ TX_DMA_buffer \in [1..TX_DMA_BUFFER_SIZE -> Nat]
        /\ TX_DMA_BUFFER_SIZE \in Nat
    BY SizeAssumption DEF TxTypes
  <1>3. \A k \in 1..ChunkSize : k \in 1..TX_DMA_BUFFER_SIZE /\ k \in 1..Len(tx_buffer)
    BY <1>1, <1>2
  <1>4. TX_DMA_buffer' = [k \in 1..TX_DMA_BUFFER_SIZE |->
                             IF k <= ChunkSize THEN tx_buffer[k] ELSE TX_DMA_buffer[k]]
    BY DEF TakeChunk
  <1>5. TX_DMA_buffer' \in [1..TX_DMA_BUFFER_SIZE -> Nat]
    <2>1. \A k \in 1..TX_DMA_BUFFER_SIZE : k <= ChunkSize => tx_buffer[k] \in Nat
      BY <1>1, <1>2
    <2>2. QED
      BY <1>2, <1>4, <2>1
  <1>6. tx_buffer' = SubSeq(tx_buffer, ChunkSize + 1, Len(tx_buffer))
    BY DEF TakeChunk
  <1>7. QED
    BY <1>1, <1>2, <1>3, <1>4, <1>5, <1>6

LEMMA RxUnchanged == RxTypes /\ UNCHANGED rxvars => RxTypes'
  BY DEF RxTypes, rxvars, ring, reception

\* Where a step of task p goes: to record r, leaving the other tasks alone.
Goes(p, r) == /\ r \in Calls
              /\ tx' \in [Printers -> Calls] /\ tx'[p] = r
              /\ \A q \in Printers : q # p => tx'[q] = tx[q]

LEMMA Going ==
    ASSUME TxTypes, NEW p \in Printers, NEW r \in Calls, tx' = [tx EXCEPT ![p] = r]
    PROVE  Goes(p, r)
  BY Updated DEF TxTypes, Goes

LEMMA IdleType == Idle \in Calls
  BY SizeAssumption DEF Idle, Calls, Places

LEMMA GotoGoes ==
    ASSUME TxTypes, NEW p \in Printers, NEW place \in Places, TxGoto(p, place)
    PROVE  Goes(p, [tx[p] EXCEPT !.pc = place, !.n = 0])
  <1> DEFINE r == [tx[p] EXCEPT !.pc = place, !.n = 0]
  <1>1. tx[p] \in Calls /\ r \in Calls
    BY CallFields DEF Calls
  <1>2. tx' = [tx EXCEPT ![p] = r]
    BY DEF TxGoto
  <1>3. QED
    BY <1>1, <1>2, Going

\* A task that leaves put_tx_data is idle or waits with bytes left.
LEMMA ReturnGoes ==
    ASSUME TxTypes, NEW p \in Printers, Return(p)
    PROVE  \E r \in Calls : /\ Goes(p, r)
                            /\ r = Idle \/ (r.pc = "delay" /\ r.retries = tx[p].retries)
  <1>1. tx[p] \in Calls
    BY CallFields
  <1>2. CASE tx[p].left = 0
    <2>1. tx' = [tx EXCEPT ![p] = Idle]
      BY <1>2 DEF Return
    <2>2. Goes(p, Idle)
      BY <2>1, IdleType, Going
    <2>3. QED
      BY <2>2, IdleType
  <1>3. CASE tx[p].left # 0
    <2> DEFINE r == [tx[p] EXCEPT !.pc = "delay", !.n = 0]
    <2>1. r \in Calls /\ r.pc = "delay" /\ r.retries = tx[p].retries
      BY <1>1 DEF Calls, Places
    <2>2. tx' = [tx EXCEPT ![p] = r]
      BY <1>3 DEF Return
    <2>3. QED
      BY <2>1, <2>2, Going
  <1>4. QED
    BY <1>2, <1>3

\* The locals of the tasks that take no part in a step.
LEMMA OthersKeepLocals ==
    ASSUME NEW p \in Printers, NEW q \in Printers, q # p, tx'[q] = tx[q], LocalsOK(q), Inv,
           tx_buffer' \in Seq(Nat), printed' \in Nat,
           tx[q].pc = "write" => writeSemaphore' = q /\ Len(tx_buffer') <= Len(tx_buffer),
           printed <= printed', Lock' = q <=> Lock = q
    PROVE  LocalsOK(q)'
  <1>1. tx[q] \in Calls /\ tx_buffer \in Seq(Nat) /\ TxSize \in Nat /\ printed \in Nat
    BY SizeAssumption DEF Inv, TxTypes
  <1>2. Len(tx_buffer) \in Nat /\ Len(tx_buffer') \in Nat /\ tx[q].n \in Nat
    BY <1>1 DEF Calls
  <1>3. QED
    BY <1>1, <1>2 DEF LocalsOK, HoldsChunk

--------------------------------------------------------------------------------
(* Types and locals are kept by every step. *)

LEMMA PrintInv ==
    ASSUME Inv, NEW p \in Printers, NEW length \in PrintLengths,
           PutTxDataWithWait(p, length), tx[p].pc = "idle",
           p = cli => reader' = "echo", p # cli => UNCHANGED reader,
           UNCHANGED <<writeSemaphore, tx_buffer, TX_DMA_buffer, gState, Lock, dma, wire,
                       printed, overlapped, board>>
    PROVE  TxTypes' /\ Locals'
  <1> DEFINE r == [pc |-> "take", left |-> length, retries |-> Retries, n |-> 0]
  <1>1. r \in Calls
    BY SizeAssumption DEF Calls, Places
  <1>2. Goes(p, r)
    BY <1>1, Going DEF PutTxDataWithWait, Inv
  <1>3. TxTypes'
    BY <1>2 DEF TxTypes, Inv, Goes
  <1>4. LocalsOK(p)'
    <2>1. tx'[p].pc = "take" /\ tx'[p].retries = Retries /\ Retries > 0
      BY <1>2, SizeAssumption DEF Goes
    <2>2. Lock' # p
      BY DEF Inv, Locals, LocalsOK
    <2>3. QED
      BY <2>1, <2>2 DEF LocalsOK, HoldsChunk
  <1>5. ASSUME NEW q \in Printers, q # p
        PROVE  LocalsOK(q)'
    <2>1. LocalsOK(q) /\ tx'[q] = tx[q]
      BY <1>2, <1>5 DEF Inv, Locals, Goes
    <2>2. tx_buffer \in Seq(Nat) /\ printed \in Nat /\ Len(tx_buffer) \in Nat
      BY DEF Inv, TxTypes
    <2>3. tx[q].pc = "write" => writeSemaphore' = q
      BY <2>1 DEF LocalsOK
    <2>4. QED
      BY <1>5, <2>1, <2>2, <2>3, OthersKeepLocals
  <1>6. Len(tx_buffer') <= printed'
    BY DEF Inv, Locals
  <1>7. reader' # "echo" => tx'[cli].pc = "idle"
    <2>1. CASE p = cli
      BY <2>1
    <2>2. CASE p # cli
      BY <2>2, <1>2, TaskAssumption DEF Inv, Locals, Goes
    <2>3. QED
      BY <2>1, <2>2
  <1>8. QED
    BY <1>3, <1>4, <1>5, <1>6, <1>7 DEF Locals

\* A step of a task inside put_tx_data_with_wait that keeps its own locals.
LEMMA TaskStep ==
    ASSUME Inv, NEW p \in Printers, NEW r, Goes(p, r), tx[p].pc # "idle",
           UNCHANGED reader, TxTypes', LocalsOK(p)',
           \A q \in Printers : q # p /\ tx[q].pc = "write" =>
               writeSemaphore' = q /\ Len(tx_buffer') <= Len(tx_buffer),
           \A q \in Printers : q # p => (Lock' = q <=> Lock = q),
           printed <= printed', Len(tx_buffer') <= printed'
    PROVE  Locals'
  <1>1. ASSUME NEW q \in Printers, q # p
        PROVE  LocalsOK(q)'
    <2>1. LocalsOK(q) /\ tx'[q] = tx[q]
      BY <1>1 DEF Inv, Locals, Goes
    <2>2. tx_buffer' \in Seq(Nat) /\ printed' \in Nat
      BY DEF TxTypes
    <2>3. QED
      BY <1>1, <2>1, <2>2, OthersKeepLocals
  <1>2. reader' # "echo" => tx'[cli].pc = "idle"
    BY TaskAssumption DEF Inv, Locals, Goes
  <1>3. QED
    BY <1>1, <1>2 DEF Locals

LEMMA TakeInv ==
    ASSUME Inv, NEW p \in Printers, Take(p), MayWrite(p)
    PROVE  Inv'
  <1> DEFINE room == Smaller(tx[p].left, TxSize - Len(tx_buffer))
             r == [tx[p] EXCEPT !.pc = "write", !.n = room]
  <1>1. /\ tx[p] \in Calls /\ tx[p].left \in Nat /\ TxSize \in Nat /\ Len(tx_buffer) \in Nat
        /\ Len(tx_buffer) <= TxSize /\ tx[p].pc = "take" /\ tx[p].retries > 0
    <2>1. tx[p].pc = "take" /\ LocalsOK(p)
      BY DEF Take, TxAt, Inv, Locals
    <2>2. tx[p] \in Calls /\ tx[p].left \in Nat
      BY CallFields DEF Inv
    <2>3. tx_buffer \in Seq(Nat) /\ TxSize \in Nat /\ Len(tx_buffer) <= TxSize
      BY SizeAssumption DEF Inv, TxTypes
    <2>4. QED
      BY <2>1, <2>2, <2>3 DEF LocalsOK
  <1>2. room \in Nat /\ room <= tx[p].left /\ Len(tx_buffer) + room <= TxSize
    <2>1. TxSize - Len(tx_buffer) \in Nat
      BY <1>1
    <2> HIDE DEF room
    <2>2. room \in Nat /\ room <= tx[p].left /\ room <= TxSize - Len(tx_buffer)
      BY <1>1, <2>1, SmallerIsLess DEF room
    <2>3. QED
      BY <1>1, <2>2
  <1> HIDE DEF room
  <1>3. r \in Calls /\ r.pc = "write" /\ r.n = room /\ r.left = tx[p].left
        /\ r.retries = tx[p].retries
    BY <1>1, <1>2 DEF Calls, Places
  <1>4. tx' = [tx EXCEPT ![p] = r]
    BY DEF Take, room
  <1> HIDE DEF r
  <1>5. Goes(p, r)
    BY <1>3, <1>4, Going DEF Inv
  <1>6. UNCHANGED <<tx_buffer, TX_DMA_buffer, gState, Lock, dma, wire, printed, overlapped,
                    rxvars, board>> /\ writeSemaphore' = p
    BY DEF Take
  <1>7. TxTypes'
    BY <1>5, <1>6 DEF TxTypes, Inv, Goes
  <1>8. RxTypes'
    BY <1>6, RxUnchanged DEF Inv
  <1>9. LocalsOK(p)'
    <2>1. tx'[p] = r
      BY <1>5 DEF Goes
    <2>2. Lock' # p
      BY <1>1, <1>6 DEF Inv, Locals, LocalsOK
    <2>3. QED
      BY <1>1, <1>2, <1>3, <1>6, <2>1, <2>2 DEF LocalsOK, HoldsChunk
  <1>10. ASSUME NEW q \in Printers, q # p
         PROVE  tx[q].pc # "write"
    BY TaskAssumption DEF LocalsOK, Take, MayWrite, Inv, Locals
  <1>11. Len(tx_buffer') <= printed'
    BY <1>6 DEF Inv, Locals
  <1>12. Locals'
    <2>1. UNCHANGED reader /\ tx[p].pc # "idle" /\ printed <= printed'
      BY <1>1, <1>6 DEF rxvars, Inv, TxTypes
    <2>2. \A q \in Printers : q # p /\ tx[q].pc = "write" =>
              writeSemaphore' = q /\ Len(tx_buffer') <= Len(tx_buffer)
      BY <1>10
    <2>3. \A q \in Printers : q # p => (Lock' = q <=> Lock = q)
      BY <1>6
    <2>4. QED
      BY <1>5, <1>7, <1>9, <1>11, <2>1, <2>2, <2>3, TaskStep
  <1>13. QED
    BY <1>7, <1>8, <1>12 DEF Inv

LEMMA WriteInv ==
    ASSUME Inv, NEW p \in Printers, Write(p)
    PROVE  Inv'
  <1> DEFINE n == tx[p].n
             bytes == [k \in 1..n |-> printed + k]
             r == [tx[p] EXCEPT !.pc = "check", !.left = @ - n, !.n = 0]
  <1>1. /\ tx[p].pc = "write" /\ LocalsOK(p) /\ tx[p] \in Calls
        /\ tx[p].left \in Nat /\ n \in Nat
    BY CallFields DEF Write, TxAt, Inv, Locals
  <1>2. /\ writeSemaphore = p /\ n <= tx[p].left /\ Len(tx_buffer) + n <= TxSize
        /\ tx[p].retries > 0 /\ Lock # p
    BY <1>1 DEF LocalsOK
  <1>3. tx_buffer \in Seq(Nat) /\ printed \in Nat /\ Len(tx_buffer) <= printed
    BY DEF Inv, TxTypes, Locals
  <1>4. /\ UNCHANGED <<TX_DMA_buffer, gState, Lock, dma, wire, overlapped, rxvars, board>>
        /\ writeSemaphore' = None /\ printed' = printed + n
        /\ tx_buffer' = tx_buffer \o bytes
    BY DEF Write
  <1>5. r \in Calls /\ r.pc = "check" /\ r.n = 0 /\ r.retries = tx[p].retries
    <2>1. tx[p].left - n \in Nat
      BY <1>1, <1>2
    <2>2. QED
      BY <1>1, <2>1 DEF Calls, Places
  <1>6. tx' = [tx EXCEPT ![p] = r]
    BY DEF Write
  <1> HIDE DEF r
  <1>7. Goes(p, r)
    BY <1>5, <1>6, Going DEF Inv
  <1>8. tx_buffer' \in Seq(Nat) /\ Len(tx_buffer') = Len(tx_buffer) + n
    <2>1. bytes \in Seq(Nat) /\ Len(bytes) = n
      BY <1>1, <1>3
    <2> HIDE DEF bytes
    <2>2. /\ tx_buffer \o bytes \in Seq(Nat)
          /\ Len(tx_buffer \o bytes) = Len(tx_buffer) + Len(bytes)
      BY <1>3, <2>1, ConcatFacts
    <2>3. QED
      BY <1>4, <2>1, <2>2
  <1>9. TxTypes'
    <2>1. Len(tx_buffer') <= TxSize /\ printed' \in Nat
      BY <1>1, <1>2, <1>3, <1>4, <1>8
    <2>2. QED
      BY <1>4, <1>7, <1>8, <2>1 DEF TxTypes, Inv, Goes
  <1>10. RxTypes'
    BY <1>4, RxUnchanged DEF Inv
  <1>11. LocalsOK(p)'
    BY <1>2, <1>4, <1>5, <1>7 DEF LocalsOK, HoldsChunk, Goes
  <1>12. \A q \in Printers : q # p => tx[q].pc # "write"
    BY <1>2 DEF Inv, Locals, LocalsOK
  <1>13. Len(tx_buffer') <= printed' /\ printed <= printed'
    BY <1>1, <1>3, <1>4, <1>8
  <1>14. UNCHANGED reader /\ tx[p].pc # "idle"
    BY <1>1, <1>4 DEF rxvars
  <1>15. \A q \in Printers : q # p /\ tx[q].pc = "write" =>
              writeSemaphore' = q /\ Len(tx_buffer') <= Len(tx_buffer)
    BY <1>12
  <1>16. \A q \in Printers : q # p => (Lock' = q <=> Lock = q)
    BY <1>4
  <1>17. Locals'
    BY <1>7, <1>9, <1>11, <1>13, <1>14, <1>15, <1>16, TaskStep
  <1>18. QED
    BY <1>9, <1>10, <1>17 DEF Inv

\* Steps that touch neither tx_buffer nor the semaphore, nor, unless to take or
\* release it themselves, Lock.
LEMMA QuietStep ==
    ASSUME Inv, NEW p \in Printers, NEW r, Goes(p, r), tx[p].pc # "idle", UNCHANGED reader,
           UNCHANGED <<writeSemaphore, tx_buffer, printed>>,
           TxTypes', RxTypes', LocalsOK(p)',
           \A q \in Printers : q # p => (Lock' = q <=> Lock = q)
    PROVE  Inv'
  <1>1. \A q \in Printers : q # p /\ tx[q].pc = "write" =>
            writeSemaphore' = q /\ Len(tx_buffer') <= Len(tx_buffer)
    <2>1. tx_buffer \in Seq(Nat)
      BY DEF Inv, TxTypes
    <2>2. Len(tx_buffer) \in Nat
      BY <2>1
    <2>3. QED
      BY <2>2 DEF Inv, Locals, LocalsOK
  <1>2. printed <= printed' /\ Len(tx_buffer') <= printed'
    BY DEF Inv, TxTypes, Locals
  <1>3. Locals'
    BY <1>1, <1>2, TaskStep
  <1>4. QED
    BY <1>3 DEF Inv

\* The locals of a task that leaves put_tx_data.
LEMMA ReturnedLocals ==
    ASSUME Inv, NEW p \in Printers, NEW r \in Calls, Goes(p, r), tx[p].pc # "idle",
           r = Idle \/ (r.pc = "delay" /\ r.retries = tx[p].retries), Lock' # p
    PROVE  LocalsOK(p)'
  <1>1. tx'[p] = r /\ tx[p].retries > 0
    BY DEF Goes, Inv, Locals, LocalsOK
  <1>2. r.pc \in {"idle", "delay"} /\ (r.pc # "idle" => r.retries > 0)
    BY <1>1 DEF Idle
  <1>3. QED
    BY <1>1, <1>2 DEF LocalsOK, HoldsChunk

LEMMA CheckInv ==
    ASSUME Inv, NEW p \in Printers, Check(p)
    PROVE  Inv'
  <1>1. tx[p].pc = "check" /\ LocalsOK(p) /\ tx[p].retries > 0 /\ Lock # p /\ tx[p] \in Calls
    BY CallFields DEF Check, TxAt, Inv, Locals, LocalsOK
  <1>2. UNCHANGED <<writeSemaphore, tx_buffer, TX_DMA_buffer, gState, Lock, dma, wire, printed,
                    rxvars, board>>
    BY DEF Check
  <1>3. UNCHANGED reader /\ RxTypes'
    BY <1>2, RxUnchanged DEF Inv, rxvars
  <1>4. overlapped' \in BOOLEAN
    BY DEF Check, Inv, TxTypes
  <1>5. CASE Ready(p)
    <2> DEFINE r == [tx[p] EXCEPT !.pc = "read", !.n = 0]
    <2>1. Goes(p, r)
      BY <1>5, GotoGoes DEF Check, Inv, Places
    <2>2. tx'[p].pc = "read" /\ tx'[p].retries = tx[p].retries
      BY <1>1, <2>1 DEF Goes, Calls
    <2> HIDE DEF r
    <2>3. TxTypes'
      BY <1>2, <1>4, <2>1 DEF TxTypes, Inv, Goes
    <2>4. LocalsOK(p)'
      BY <1>1, <1>2, <2>2 DEF LocalsOK, HoldsChunk
    <2>5. \A q \in Printers : q # p => (Lock' = q <=> Lock = q)
      BY <1>2
    <2>6. UNCHANGED <<writeSemaphore, tx_buffer, printed>> /\ tx[p].pc # "idle"
      BY <1>1, <1>2
    <2>7. QED
      BY <1>3, <2>1, <2>3, <2>4, <2>5, <2>6, QuietStep
  <1>6. CASE ~Ready(p)
    <2>1. PICK r \in Calls :
              /\ Goes(p, r)
              /\ r = Idle \/ (r.pc = "delay" /\ r.retries = tx[p].retries)
      BY <1>6, ReturnGoes DEF Check, Inv
    <2>2. TxTypes'
      BY <1>2, <1>4, <2>1 DEF TxTypes, Inv, Goes
    <2>3. LocalsOK(p)'
      BY <1>1, <1>2, <2>1, ReturnedLocals
    <2>4. \A q \in Printers : q # p => (Lock' = q <=> Lock = q)
      BY <1>2
    <2>5. UNCHANGED <<writeSemaphore, tx_buffer, printed>> /\ tx[p].pc # "idle"
      BY <1>1, <1>2
    <2>6. QED
      BY <1>3, <2>1, <2>2, <2>3, <2>4, <2>5, QuietStep
  <1>7. QED
    BY <1>5, <1>6

\* How the step that takes a chunk leaves the tasks it does not belong to.
LEMMA ChunkTaken ==
    ASSUME Inv, TakeChunk, UNCHANGED <<writeSemaphore, printed>>
    PROVE  /\ Len(tx_buffer') \in Nat /\ Len(tx_buffer') <= Len(tx_buffer)
           /\ Len(tx_buffer') <= TxSize /\ Len(tx_buffer') <= printed'
           /\ \A q \in Printers : tx[q].pc = "write" => writeSemaphore' = q
           /\ ChunkSize > 0 => printed > 0
  <1>1. /\ ChunkSize \in 0..TX_DMA_BUFFER_SIZE /\ ChunkSize <= Len(tx_buffer)
        /\ Len(tx_buffer) \in Nat
    BY ChunkFacts DEF Inv
  <1>2. Len(tx_buffer') = Len(tx_buffer) - ChunkSize
    BY TakeChunkFacts DEF Inv
  <1>3. /\ Len(tx_buffer) <= TxSize /\ TxSize \in Nat /\ Len(tx_buffer) <= printed
        /\ printed \in Nat /\ TX_DMA_BUFFER_SIZE \in Nat
    BY SizeAssumption DEF Inv, TxTypes, Locals
  <1>4. \A q \in Printers : tx[q].pc = "write" => writeSemaphore' = q
    BY DEF Inv, Locals, LocalsOK
  <1>5. QED
    BY <1>1, <1>2, <1>3, <1>4

LEMMA ReadChunkInv ==
    ASSUME Inv, NEW p \in Printers, ReadChunk(p)
    PROVE  Inv'
  <1>1. tx[p].pc = "read" /\ LocalsOK(p) /\ tx[p].retries > 0 /\ Lock # p /\ tx[p] \in Calls
    BY CallFields DEF ReadChunk, TxAt, Inv, Locals, LocalsOK
  <1>2. /\ UNCHANGED <<writeSemaphore, gState, Lock, dma, wire, printed, overlapped, rxvars, board>>
        /\ TakeChunk
    BY DEF ReadChunk
  <1>3. UNCHANGED reader /\ RxTypes'
    BY <1>2, RxUnchanged DEF Inv, rxvars
  <1>4. /\ TX_DMA_buffer' \in [1..TX_DMA_BUFFER_SIZE -> Nat] /\ tx_buffer' \in Seq(Nat)
    BY <1>2, TakeChunkFacts DEF Inv
  <1>5. /\ Len(tx_buffer') \in Nat /\ Len(tx_buffer') <= Len(tx_buffer)
        /\ Len(tx_buffer') <= TxSize /\ Len(tx_buffer') <= printed'
        /\ \A q \in Printers : tx[q].pc = "write" => writeSemaphore' = q
        /\ ChunkSize > 0 => printed > 0
    BY <1>2, ChunkTaken
  <1>6. ASSUME NEW r, Goes(p, r)
        PROVE  TxTypes'
    BY <1>2, <1>4, <1>5, <1>6 DEF TxTypes, Inv, Goes
  <1>7. ASSUME NEW r, Goes(p, r), LocalsOK(p)'
        PROVE  Inv'
    <2>1. TxTypes' /\ tx[p].pc # "idle"
      BY <1>1, <1>6, <1>7
    <2>2. \A q \in Printers : q # p => (Lock' = q <=> Lock = q)
      BY <1>2
    <2>3. \A q \in Printers : q # p /\ tx[q].pc = "write" =>
              writeSemaphore' = q /\ Len(tx_buffer') <= Len(tx_buffer)
      BY <1>5
    <2>4. printed <= printed'
      BY <1>2 DEF Inv, TxTypes
    <2>5. Locals'
      BY <1>3, <1>5, <1>7, <2>1, <2>2, <2>3, <2>4, TaskStep
    <2>6. QED
      BY <1>3, <2>1, <2>5 DEF Inv
  <1>8. CASE ChunkSize > 0
    <2> DEFINE r == [tx[p] EXCEPT !.pc = "gState", !.n = ChunkSize]
    <2>1. ChunkSize \in 0..TX_DMA_BUFFER_SIZE /\ TX_DMA_BUFFER_SIZE \in Nat /\ ChunkSize \in Nat
      BY ChunkFacts, SizeAssumption DEF Inv
    <2>2. r \in Calls /\ r.pc = "gState" /\ r.n = ChunkSize /\ r.retries = tx[p].retries
      BY <1>1, <2>1 DEF Calls, Places
    <2>3. tx' = [tx EXCEPT ![p] = r]
      BY <1>8 DEF ReadChunk
    <2> HIDE DEF r
    <2>4. Goes(p, r)
      BY <2>2, <2>3, Going DEF Inv
    <2>5. tx'[p].n \in 1..TX_DMA_BUFFER_SIZE
      BY <1>8, <2>1, <2>2, <2>4 DEF Goes
    <2>6. LocalsOK(p)'
      BY <1>1, <1>2, <1>5, <1>8, <2>2, <2>4, <2>5 DEF LocalsOK, HoldsChunk, Goes
    <2>7. QED
      BY <1>7, <2>4, <2>6
  <1>9. CASE ~(ChunkSize > 0)
    <2>1. PICK r \in Calls :
              /\ Goes(p, r)
              /\ r = Idle \/ (r.pc = "delay" /\ r.retries = tx[p].retries)
      BY <1>9, ReturnGoes DEF ReadChunk, Inv
    <2>2. LocalsOK(p)'
      BY <1>1, <1>2, <2>1, ReturnedLocals
    <2>3. QED
      BY <1>7, <2>1, <2>2
  <1>10. QED
    BY <1>8, <1>9

LEMMA TestStateInv ==
    ASSUME Inv, NEW p \in Printers, TestState(p)
    PROVE  Inv'
  <1>1. tx[p].pc = "gState" /\ LocalsOK(p) /\ tx[p].retries > 0 /\ Lock # p /\ tx[p] \in Calls
    BY CallFields DEF TestState, TxAt, Inv, Locals, LocalsOK
  <1>2. /\ UNCHANGED <<writeSemaphore, tx_buffer, TX_DMA_buffer, gState, Lock, dma, wire,
                       printed, overlapped, rxvars>>
        /\ UNCHANGED <<writeSemaphore, tx_buffer, printed>>
    BY DEF TestState
  <1>3. UNCHANGED reader /\ RxTypes' /\ tx[p].pc # "idle"
    BY <1>1, <1>2, RxUnchanged DEF Inv, rxvars
  <1>4. \A q \in Printers : q # p => (Lock' = q <=> Lock = q)
    BY <1>2
  <1>5. board' \in {"runs", "assert"}
    BY DEF TestState, Inv, TxTypes
  <1>6. \E r \in Calls : Goes(p, r) /\ r.pc \in {"gState", "lock"} /\ r.n = tx[p].n
                         /\ r.retries = tx[p].retries
    <2>1. CASE gState = "READY"
      <3> DEFINE r == [tx[p] EXCEPT !.pc = "lock"]
      <3>1. r \in Calls /\ r.pc = "lock" /\ r.n = tx[p].n /\ r.retries = tx[p].retries
        BY <1>1 DEF Calls, Places
      <3>2. tx' = [tx EXCEPT ![p] = r]
        BY <2>1 DEF TestState
      <3> HIDE DEF r
      <3>3. Goes(p, r)
        BY <3>1, <3>2, Going DEF Inv
      <3>4. QED
        BY <3>1, <3>3
    <2>2. CASE gState # "READY"
      <3>1. tx' = tx
        BY <2>2 DEF TestState
      <3>2. Goes(p, tx[p])
        BY <1>1, <3>1 DEF Goes, Inv, TxTypes
      <3>3. QED
        BY <1>1, <3>2
    <2>3. QED
      BY <2>1, <2>2
  <1>7. PICK r \in Calls : Goes(p, r) /\ r.pc \in {"gState", "lock"} /\ r.n = tx[p].n
                           /\ r.retries = tx[p].retries
    BY <1>6
  <1>8. TxTypes'
    BY <1>2, <1>5, <1>7 DEF TxTypes, Inv, Goes
  <1>9. LocalsOK(p)'
    BY <1>1, <1>2, <1>7 DEF LocalsOK, HoldsChunk, Goes
  <1>10. QED
    BY <1>2, <1>3, <1>4, <1>7, <1>8, <1>9, QuietStep

LEMMA TakeLockInv ==
    ASSUME Inv, NEW p \in Printers, TakeLock(p)
    PROVE  Inv'
  <1>1. tx[p].pc = "lock" /\ LocalsOK(p) /\ tx[p].retries > 0 /\ Lock # p /\ tx[p] \in Calls
    BY CallFields DEF TakeLock, TxAt, Inv, Locals, LocalsOK
  <1>2. /\ UNCHANGED <<writeSemaphore, tx_buffer, TX_DMA_buffer, gState, dma, wire,
                       printed, overlapped, rxvars>>
        /\ UNCHANGED <<writeSemaphore, tx_buffer, printed>>
    BY DEF TakeLock
  <1>3. UNCHANGED reader /\ RxTypes' /\ tx[p].pc # "idle"
    BY <1>1, <1>2, RxUnchanged DEF Inv, rxvars
  <1>4. CASE Lock = None
    <2> DEFINE r == [tx[p] EXCEPT !.pc = "start"]
    <2>1. /\ r \in Calls /\ r.pc = "start" /\ r.n = tx[p].n /\ r.retries = tx[p].retries
      BY <1>1 DEF Calls, Places
    <2>2. tx' = [tx EXCEPT ![p] = r] /\ Lock' = p /\ UNCHANGED board
      BY <1>4 DEF TakeLock
    <2> HIDE DEF r
    <2>3. Goes(p, r)
      BY <2>1, <2>2, Going DEF Inv
    <2>4. TxTypes'
      BY <1>2, <2>2, <2>3 DEF TxTypes, Inv, Goes
    <2>5. LocalsOK(p)'
      BY <1>1, <1>2, <2>1, <2>2, <2>3 DEF LocalsOK, HoldsChunk, Goes
    <2>6. \A q \in Printers : q # p => (Lock' = q <=> Lock = q)
      BY <1>4, <2>2, TaskAssumption
    <2>7. QED
      BY <1>2, <1>3, <2>3, <2>4, <2>5, <2>6, QuietStep
  <1>5. CASE Lock # None
    <2>1. board' = "assert" /\ UNCHANGED <<Lock, tx>>
      BY <1>5 DEF TakeLock
    <2>2. Goes(p, tx[p])
      BY <1>1, <2>1 DEF Goes, Inv, TxTypes
    <2>3. TxTypes'
      BY <1>2, <2>1, <2>2 DEF TxTypes, Inv, Goes
    <2>4. LocalsOK(p)'
      BY <1>1, <1>2, <2>1 DEF LocalsOK, HoldsChunk
    <2>5. \A q \in Printers : q # p => (Lock' = q <=> Lock = q)
      BY <2>1
    <2>6. QED
      BY <1>2, <1>3, <2>2, <2>3, <2>4, <2>5, QuietStep
  <1>6. QED
    BY <1>4, <1>5

LEMMA StartStreamType ==
    ASSUME Inv, NEW n \in 1..TX_DMA_BUFFER_SIZE, StartStream(n)
    PROVE  dma' \in [sent : 0..TX_DMA_BUFFER_SIZE, size : 0..TX_DMA_BUFFER_SIZE]
  BY SizeAssumption DEF StartStream, Inv, TxTypes

LEMMA StartTransferInv ==
    ASSUME Inv, NEW p \in Printers, StartTransfer(p)
    PROVE  Inv'
  <1> DEFINE r == [tx[p] EXCEPT !.pc = "ht", !.n = 0]
  <1>1. tx[p].pc = "start" /\ LocalsOK(p) /\ tx[p].retries > 0 /\ Lock = p /\ tx[p] \in Calls
        /\ tx[p].n \in 1..TX_DMA_BUFFER_SIZE
    BY CallFields DEF StartTransfer, TxAt, Inv, Locals, LocalsOK, HoldsChunk
  <1>2. /\ UNCHANGED <<writeSemaphore, tx_buffer, TX_DMA_buffer, wire, printed, overlapped,
                       rxvars, board>>
        /\ UNCHANGED <<writeSemaphore, tx_buffer, printed>>
        /\ gState' = "BUSY_TX" /\ Lock' = None
    BY DEF StartTransfer
  <1>3. UNCHANGED reader /\ RxTypes' /\ tx[p].pc # "idle"
    BY <1>1, <1>2, RxUnchanged DEF Inv, rxvars
  <1>4. Goes(p, r)
    BY GotoGoes DEF StartTransfer, Inv, Places
  <1>5. tx'[p].pc = "ht" /\ tx'[p].retries = tx[p].retries
    BY <1>1, <1>4 DEF Goes, Calls
  <1> HIDE DEF r
  <1>6. dma' \in [sent : 0..TX_DMA_BUFFER_SIZE, size : 0..TX_DMA_BUFFER_SIZE]
    BY <1>1, StartStreamType DEF StartTransfer
  <1>7. TxTypes'
    BY <1>2, <1>4, <1>6 DEF TxTypes, Inv, Goes
  <1>8. LocalsOK(p)'
    BY <1>1, <1>2, <1>5, TaskAssumption DEF LocalsOK, HoldsChunk
  <1>9. \A q \in Printers : q # p => (Lock' = q <=> Lock = q)
    BY <1>1, <1>2, TaskAssumption
  <1>10. QED
    BY <1>2, <1>3, <1>4, <1>7, <1>8, <1>9, QuietStep

LEMMA DisableHalfInv ==
    ASSUME Inv, NEW p \in Printers, DisableHalf(p)
    PROVE  Inv'
  <1>1. tx[p].pc = "ht" /\ LocalsOK(p) /\ tx[p].retries > 0 /\ Lock # p
    BY DEF DisableHalf, TxAt, Inv, Locals, LocalsOK
  <1>2. /\ UNCHANGED <<writeSemaphore, tx_buffer, printed>> /\ UNCHANGED reader /\ ht' = FALSE
        /\ UNCHANGED <<TX_DMA_buffer, gState, Lock, dma, wire, overlapped, RxState,
                       RX_DMA_buffer, ring, got, typed, line_error, board>>
    BY DEF DisableHalf
  <1>3. RxTypes'
    BY <1>2 DEF Inv, RxTypes, ring
  <1>4. PICK r \in Calls :
            /\ Goes(p, r)
            /\ r = Idle \/ (r.pc = "delay" /\ r.retries = tx[p].retries)
    BY ReturnGoes DEF DisableHalf, Inv
  <1>5. TxTypes'
    BY <1>2, <1>4 DEF TxTypes, Inv, Goes
  <1>6. LocalsOK(p)'
    BY <1>1, <1>2, <1>4, ReturnedLocals
  <1>7. \A q \in Printers : q # p => (Lock' = q <=> Lock = q)
    BY <1>2
  <1>8. QED
    BY <1>1, <1>2, <1>3, <1>4, <1>5, <1>6, <1>7, QuietStep

LEMMA DelayInv ==
    ASSUME Inv, NEW p \in Printers, Delay(p)
    PROVE  Inv'
  <1>1. tx[p].pc = "delay" /\ LocalsOK(p) /\ tx[p].retries > 0 /\ Lock # p /\ tx[p] \in Calls
        /\ tx[p].retries \in 0..Retries /\ Retries \in Nat
    BY CallFields, SizeAssumption DEF Delay, TxAt, Inv, Locals, LocalsOK
  <1>2. /\ UNCHANGED <<writeSemaphore, tx_buffer, TX_DMA_buffer, gState, Lock, dma, wire,
                       printed, overlapped, rxvars, board>>
        /\ UNCHANGED <<writeSemaphore, tx_buffer, printed>>
    BY DEF Delay
  <1>3. UNCHANGED reader /\ RxTypes' /\ tx[p].pc # "idle"
    BY <1>1, <1>2, RxUnchanged DEF Inv, rxvars
  <1>4. \A q \in Printers : q # p => (Lock' = q <=> Lock = q)
    BY <1>2
  <1>5. \E r \in Calls : Goes(p, r) /\ (r = Idle \/ (r.pc = "take" /\ r.retries > 0))
    <2>1. CASE Attempts(p) = 0
      <3>1. tx' = [tx EXCEPT ![p] = Idle]
        BY <2>1 DEF Delay
      <3>2. Goes(p, Idle)
        BY <3>1, IdleType, Going DEF Inv
      <3>3. QED
        BY <3>2, IdleType
    <2>2. CASE Attempts(p) # 0
      <3> DEFINE r == [tx[p] EXCEPT !.pc = "take", !.retries = Attempts(p)]
      <3>1. Attempts(p) \in 0..Retries /\ Attempts(p) > 0
        BY <1>1, <2>2 DEF Attempts
      <3>2. r \in Calls /\ r.pc = "take" /\ r.retries > 0
        BY <1>1, <3>1 DEF Calls, Places
      <3>3. tx' = [tx EXCEPT ![p] = r]
        BY <2>2 DEF Delay
      <3> HIDE DEF r
      <3>4. Goes(p, r)
        BY <3>2, <3>3, Going DEF Inv
      <3>5. QED
        BY <3>2, <3>4
    <2>3. QED
      BY <2>1, <2>2
  <1>6. PICK r \in Calls : Goes(p, r) /\ (r = Idle \/ (r.pc = "take" /\ r.retries > 0))
    BY <1>5
  <1>7. TxTypes'
    BY <1>2, <1>6 DEF TxTypes, Inv, Goes
  <1>8. LocalsOK(p)'
    <2>1. tx'[p] = r /\ Lock' # p
      BY <1>1, <1>2, <1>6 DEF Goes
    <2>2. r.pc \in {"idle", "take"} /\ (r.pc # "idle" => r.retries > 0)
      BY <1>6 DEF Idle
    <2>3. QED
      BY <2>1, <2>2 DEF LocalsOK, HoldsChunk
  <1>9. QED
    BY <1>2, <1>3, <1>4, <1>6, <1>7, <1>8, QuietStep

\* Steps of the interrupts, of the line and of the reader that start no print.
LEMMA NoTaskStep ==
    ASSUME Inv, UNCHANGED <<tx, writeSemaphore, Lock, printed>>, TxTypes', RxTypes',
           Len(tx_buffer') \in Nat, Len(tx_buffer') <= Len(tx_buffer),
           reader' # "echo" => tx[cli].pc = "idle"
    PROVE  Inv'
  <1>1. Len(tx_buffer) \in Nat /\ printed \in Nat /\ TxSize \in Nat /\ Len(tx_buffer) <= printed
    BY SizeAssumption DEF Inv, TxTypes, Locals
  <1>2. ASSUME NEW q \in Printers
        PROVE  LocalsOK(q)'
    <2>1. LocalsOK(q) /\ tx[q].n \in Nat
      BY CallFields DEF Inv, Locals
    <2>2. QED
      BY <1>1, <2>1 DEF LocalsOK, HoldsChunk
  <1>3. Locals'
    BY <1>1, <1>2 DEF Locals
  <1>4. QED
    BY <1>3 DEF Inv

LEMMA TransmitterInv ==
    ASSUME Inv, Transmitter
    PROVE  Inv'
  <1>1. CASE SendByte
    <2>1. /\ UNCHANGED <<tx, writeSemaphore, tx_buffer, TX_DMA_buffer, gState, Lock, printed,
                         overlapped, rxvars, board>>
          /\ UNCHANGED <<tx, writeSemaphore, Lock, printed>>
      BY <1>1 DEF SendByte
    <2>2. dma \in [sent : 0..TX_DMA_BUFFER_SIZE, size : 0..TX_DMA_BUFFER_SIZE]
          /\ dma.sent < dma.size /\ TX_DMA_BUFFER_SIZE \in Nat
      BY <1>1, SizeAssumption DEF SendByte, Inv, TxTypes
    <2>3. dma' \in [sent : 0..TX_DMA_BUFFER_SIZE, size : 0..TX_DMA_BUFFER_SIZE]
      <3>1. dma.sent + 1 \in 0..TX_DMA_BUFFER_SIZE
        BY <2>2
      <3>2. dma' = [dma EXCEPT !.sent = dma.sent + 1]
        BY <1>1 DEF SendByte
      <3>3. QED
        BY <2>2, <3>1, <3>2
    <2>4. TX_DMA_buffer[dma.sent + 1] \in Nat
      BY <2>2 DEF Inv, TxTypes
    <2>5. wire' \in Seq(Nat)
      BY <1>1, <2>4 DEF SendByte, Inv, TxTypes
    <2>6. TxTypes'
      BY <2>1, <2>3, <2>5 DEF Inv, TxTypes
    <2>7. RxTypes' /\ UNCHANGED reader
      BY <2>1, RxUnchanged DEF Inv, rxvars
    <2>8. Len(tx_buffer') \in Nat /\ Len(tx_buffer') <= Len(tx_buffer)
      BY <2>1 DEF Inv, TxTypes
    <2>9. reader' # "echo" => tx[cli].pc = "idle"
      BY <2>7 DEF Inv, Locals
    <2>10. QED
      BY <2>1, <2>6, <2>7, <2>8, <2>9, NoTaskStep
  <1>2. CASE TxCplt
    <2>1. /\ UNCHANGED <<tx, writeSemaphore, Lock, printed>>
          /\ UNCHANGED <<wire, overlapped, RxState, RX_DMA_buffer, ring, reader, got, typed,
                         line_error>>
          /\ TakeChunk
      BY <1>2 DEF TxCplt
    <2>2. /\ TX_DMA_buffer' \in [1..TX_DMA_BUFFER_SIZE -> Nat] /\ tx_buffer' \in Seq(Nat)
      BY <2>1, TakeChunkFacts DEF Inv
    <2>3. /\ Len(tx_buffer') \in Nat /\ Len(tx_buffer') <= Len(tx_buffer)
          /\ Len(tx_buffer') <= TxSize
      BY <2>1, ChunkTaken
    <2>4. ChunkSize \in 0..TX_DMA_BUFFER_SIZE /\ TX_DMA_BUFFER_SIZE \in Nat
      BY ChunkFacts, SizeAssumption DEF Inv
    <2>5. /\ dma' \in [sent : 0..TX_DMA_BUFFER_SIZE, size : 0..TX_DMA_BUFFER_SIZE]
          /\ gState' \in {"READY", "BUSY_TX"} /\ board' \in {"runs", "assert"}
          /\ ht' \in BOOLEAN
      <3>1. CASE ChunkSize = 0
        BY <1>2, <2>4, <3>1 DEF TxCplt, Inv, TxTypes, RxTypes
      <3>2. CASE ChunkSize # 0 /\ Lock = None
        <4>1. /\ gState' = "BUSY_TX" /\ ht' = FALSE /\ UNCHANGED board
              /\ dma' = [sent |-> 0, size |-> ChunkSize]
          BY <1>2, <3>2 DEF TxCplt
        <4>2. dma' \in [sent : 0..TX_DMA_BUFFER_SIZE, size : 0..TX_DMA_BUFFER_SIZE]
          BY <2>4, <4>1
        <4>3. QED
          BY <4>1, <4>2 DEF Inv, TxTypes
      <3>3. CASE ChunkSize # 0 /\ Lock # None
        BY <1>2, <2>4, <3>3 DEF TxCplt, Inv, TxTypes, RxTypes
      <3>4. QED
        BY <3>1, <3>2, <3>3
    <2>6. TxTypes'
      BY <2>1, <2>2, <2>3, <2>5 DEF Inv, TxTypes
    <2>7. RxTypes'
      BY <2>1, <2>5 DEF Inv, RxTypes, ring
    <2>8. reader' # "echo" => tx[cli].pc = "idle"
      BY <2>1 DEF Inv, Locals
    <2>9. QED
      BY <2>1, <2>3, <2>6, <2>7, <2>8, NoTaskStep
  <1>3. QED
    BY <1>1, <1>2 DEF Transmitter

\* What a handler of the receiver does to rx_buffer.
LEMMA ReceivedType ==
    ASSUME RxTypes, NEW bytes \in Seq(Nat), Received(bytes)
    PROVE  /\ rx_buffer' \in Seq(Nat) /\ Len(rx_buffer') <= RxSize
           /\ dropped' \subseteq Nat /\ readSemaphore' \in {0, 1}
  <1> DEFINE n == Smaller(Len(bytes), RxSize - Len(rx_buffer))
  <1>1. /\ rx_buffer \in Seq(Nat) /\ Len(rx_buffer) \in Nat /\ RxSize \in Nat
        /\ Len(rx_buffer) <= RxSize /\ Len(bytes) \in Nat /\ dropped \subseteq Nat
    BY SizeAssumption DEF RxTypes
  <1>2. RxSize - Len(rx_buffer) \in Nat
    BY <1>1
  <1>3. n \in Nat /\ n <= Len(bytes) /\ n <= RxSize - Len(rx_buffer)
    BY <1>1, <1>2, SmallerIsLess
  <1>4. /\ rx_buffer' = rx_buffer \o SubSeq(bytes, 1, n)
        /\ dropped' = dropped \cup {bytes[k] : k \in (n + 1)..Len(bytes)}
        /\ readSemaphore' = 1
    BY DEF Received
  <1> HIDE DEF n
  <1>5. SubSeq(bytes, 1, n) \in Seq(Nat) /\ Len(SubSeq(bytes, 1, n)) = n
    BY <1>1, <1>3
  <1>6. /\ rx_buffer \o SubSeq(bytes, 1, n) \in Seq(Nat)
        /\ Len(rx_buffer \o SubSeq(bytes, 1, n)) = Len(rx_buffer) + n
    BY <1>1, <1>5, ConcatFacts
  <1>7. dropped' \subseteq Nat
    <2>1. \A k \in (n + 1)..Len(bytes) : bytes[k] \in Nat
      BY <1>1, <1>3
    <2>2. QED
      BY <1>1, <1>4, <2>1
  <1>8. QED
    BY <1>1, <1>3, <1>4, <1>6, <1>7

LEMMA RestartType ==
    ASSUME RxTypes, Restart
    PROVE  /\ RX_DMA_buffer' = <<>> /\ RxState' \in {"READY", "BUSY_RX"} /\ ht' \in BOOLEAN
           /\ RxState' = "READY" => Lock # None
  BY DEF Restart, RxTypes

LEMMA ReceiverInv ==
    ASSUME Inv, ReceiveByte \/ ReceiveIdle \/ ReceiveError
    PROVE  Inv'
  <1>1. /\ UNCHANGED txvars /\ UNCHANGED reader /\ UNCHANGED got /\ UNCHANGED board
        /\ typed' \in Nat /\ line_error' \in BOOLEAN
    <2>1. typed \in Nat /\ line_error \in BOOLEAN /\ typed + 1 \in Nat
      BY DEF Inv, RxTypes
    <2>2. CASE ReceiveByte
      BY <2>1, <2>2 DEF ReceiveByte
    <2>3. CASE ReceiveIdle
      BY <2>1, <2>3 DEF ReceiveIdle
    <2>4. CASE ReceiveError
      BY <2>1, <2>4 DEF ReceiveError
    <2>5. QED
      BY <2>2, <2>3, <2>4
  <1>2. /\ 2 * Half > 0 /\ 2 * Half \in Nat /\ Len(RX_DMA_buffer) \in Nat
        /\ RX_DMA_buffer \in Seq(Nat) /\ Len(RX_DMA_buffer) < 2 * Half /\ typed + 1 \in Nat
    BY SizeAssumption DEF Inv, RxTypes
  <1>3. /\ RxState' \in {"READY", "BUSY_RX"} /\ ht' \in BOOLEAN
        /\ RX_DMA_buffer' \in Seq(Nat) /\ Len(RX_DMA_buffer') < 2 * Half
        /\ rx_buffer' \in Seq(Nat) /\ Len(rx_buffer') <= RxSize
        /\ dropped' \subseteq Nat /\ readSemaphore' \in {0, 1}
    <2>1. CASE ReceiveByte
      <3> DEFINE bytes == Append(RX_DMA_buffer, typed + 1)
      <3>1. bytes \in Seq(Nat) /\ Len(bytes) = Len(RX_DMA_buffer) + 1
        BY <1>2
      <3>2. CASE RxState # "BUSY_RX"
        <4>1. UNCHANGED reception /\ UNCHANGED ring
          BY <2>1, <3>2 DEF ReceiveByte
        <4>2. QED
          BY <4>1 DEF Inv, RxTypes, reception, ring
      <3>3. CASE RxState = "BUSY_RX" /\ Len(bytes) = 2 * Half
        <4>1. Received(bytes) /\ Restart
          BY <2>1, <3>3 DEF ReceiveByte
        <4> HIDE DEF bytes
        <4>2. QED
          BY <1>2, <3>1, <4>1, ReceivedType, RestartType DEF Inv
      <3>4. CASE RxState = "BUSY_RX" /\ Len(bytes) # 2 * Half
        <4>1. /\ RX_DMA_buffer' = bytes /\ UNCHANGED <<RxState, ht>>
              /\ Received(bytes) \/ UNCHANGED ring
          BY <2>1, <3>4 DEF ReceiveByte
        <4> HIDE DEF bytes
        <4>2. Len(bytes) < 2 * Half
          BY <1>2, <3>1, <3>4
        <4>3. CASE Received(bytes)
          BY <3>1, <4>1, <4>2, <4>3, ReceivedType DEF Inv, RxTypes
        <4>4. CASE UNCHANGED ring
          BY <3>1, <4>1, <4>2, <4>4 DEF Inv, RxTypes, ring
        <4>5. QED
          BY <4>1, <4>3, <4>4
      <3>5. QED
        BY <3>2, <3>3, <3>4
    <2>2. CASE ReceiveIdle
      <3>1. Received(RX_DMA_buffer) /\ Restart
        BY <2>2 DEF ReceiveIdle
      <3>2. QED
        BY <1>2, <3>1, ReceivedType, RestartType DEF Inv
    <2>3. CASE ReceiveError
      BY <1>2, <2>3 DEF ReceiveError, Inv, RxTypes, ring
    <2>4. QED
      BY <2>1, <2>2, <2>3
  <1>4. TxTypes'
    BY <1>1 DEF Inv, TxTypes, txvars
  <1>5. RxTypes'
    BY <1>1, <1>3 DEF Inv, RxTypes
  <1>6. /\ UNCHANGED <<tx, writeSemaphore, Lock, printed>>
        /\ Len(tx_buffer') \in Nat /\ Len(tx_buffer') <= Len(tx_buffer)
    BY <1>1 DEF txvars, Inv, TxTypes
  <1>7. reader' # "echo" => tx[cli].pc = "idle"
    BY <1>1 DEF Inv, Locals
  <1>8. QED
    BY <1>4, <1>5, <1>6, <1>7, NoTaskStep

LEMMA ReaderInv ==
    ASSUME Inv, Reader
    PROVE  Inv'
  <1>1. CASE TakeRead \/ Echoed
    <2>1. UNCHANGED txvars /\ UNCHANGED board /\ UNCHANGED <<tx, writeSemaphore, Lock, printed>>
      BY <1>1 DEF TakeRead, Echoed, txvars
    <2>2. TxTypes' /\ Len(tx_buffer') \in Nat /\ Len(tx_buffer') <= Len(tx_buffer)
      BY <2>1 DEF Inv, TxTypes, txvars
    <2>3. RxTypes'
      BY <1>1 DEF TakeRead, Echoed, AfterWait, Inv, RxTypes, reception, ring
    <2>4. reader' # "echo" => tx[cli].pc = "idle"
      BY <1>1 DEF TakeRead, Echoed, TxAt, AfterWait, Inv, Locals
    <2>5. QED
      BY <2>1, <2>2, <2>3, <2>4, NoTaskStep
  <1>2. CASE ReadByte
    <2>1. /\ UNCHANGED <<writeSemaphore, tx_buffer, TX_DMA_buffer, gState, Lock, dma, wire,
                         printed, overlapped, board>>
          /\ UNCHANGED <<reception, readSemaphore, dropped, typed, line_error>>
          /\ reader = "read"
      BY <1>2 DEF ReadByte
    <2>2. RxTypes'
      <3>1. CASE rx_buffer = <<>>
        BY <1>2, <2>1, <3>1 DEF ReadByte, Inv, RxTypes, reception
      <3>2. CASE rx_buffer # <<>>
        <4>1. rx_buffer \in Seq(Nat) /\ got \in Seq(Nat) /\ RxSize \in Nat
              /\ Len(rx_buffer) <= RxSize
          BY SizeAssumption DEF Inv, RxTypes
        <4>2. /\ rx_buffer' = Tail(rx_buffer) /\ got' = Append(got, Head(rx_buffer))
              /\ reader' \in {"take", "echo"}
          BY <1>2, <3>2 DEF ReadByte
        <4>3. /\ rx_buffer' \in Seq(Nat) /\ Len(rx_buffer') <= RxSize /\ got' \in Seq(Nat)
          BY <3>2, <4>1, <4>2
        <4>4. QED
          BY <2>1, <4>2, <4>3 DEF Inv, RxTypes, reception
      <3>3. QED
        BY <3>1, <3>2
    <2>3. CASE UNCHANGED tx
      <3>1. TxTypes' /\ Len(tx_buffer') \in Nat /\ Len(tx_buffer') <= Len(tx_buffer)
        BY <2>1, <2>3 DEF Inv, TxTypes
      <3>2. tx[cli].pc = "idle" /\ UNCHANGED <<tx, writeSemaphore, Lock, printed>>
        BY <2>1, <2>3 DEF Inv, Locals
      <3>3. QED
        BY <2>2, <3>1, <3>2, NoTaskStep
    <2>4. CASE \E length \in PrintLengths : PutTxDataWithWait(cli, length) /\ reader' = "echo"
      <3>1. PICK length \in PrintLengths : PutTxDataWithWait(cli, length) /\ reader' = "echo"
        BY <2>4
      <3>2. tx[cli].pc = "idle"
        BY <2>1 DEF Inv, Locals
      <3>3. TxTypes' /\ Locals'
        BY <2>1, <3>1, <3>2, PrintInv, TaskAssumption
      <3>4. QED
        BY <2>2, <3>3 DEF Inv
    <2>5. QED
      BY <1>2, <2>3, <2>4 DEF ReadByte
  <1>3. QED
    BY <1>1, <1>2 DEF Reader

LEMMA StoppedInv == Inv /\ UNCHANGED vars => Inv'
  <1> SUFFICES ASSUME Inv, UNCHANGED vars PROVE Inv'
    OBVIOUS
  <1>1. UNCHANGED txvars /\ UNCHANGED board /\ UNCHANGED rxvars /\ UNCHANGED reader
    BY DEF vars, rxvars
  <1>2. TxTypes' /\ RxTypes'
    BY <1>1, RxUnchanged DEF Inv, TxTypes, txvars
  <1>3. Locals'
    BY <1>1 DEF Inv, Locals, LocalsOK, HoldsChunk, txvars
  <1>4. QED
    BY <1>2, <1>3 DEF Inv

LEMMA PutTxDataInv ==
    ASSUME Inv, NEW p \in Printers, PutTxData(p)
    PROVE  Inv'
  <1>1. CASE Take(p)
    BY <1>1, TakeInv DEF Take
  <1>2. QED
    BY <1>1, WriteInv, CheckInv, ReadChunkInv, TestStateInv, TakeLockInv, StartTransferInv,
       DisableHalfInv, DelayInv DEF PutTxData

LEMMA OtherPrintInv ==
    ASSUME Inv, NEW p \in Printers, PrintBytes(p)
    PROVE  Inv'
  <1>1. PICK length \in PrintLengths : PutTxDataWithWait(p, length)
    BY DEF PrintBytes
  <1>2. /\ UNCHANGED <<writeSemaphore, tx_buffer, TX_DMA_buffer, gState, Lock, dma, wire,
                       printed, overlapped, board>>
        /\ UNCHANGED rxvars /\ UNCHANGED reader /\ tx[p].pc = "idle" /\ p # cli
    BY DEF PrintBytes, TxAt, rxvars
  <1>3. TxTypes' /\ Locals'
    BY <1>1, <1>2, PrintInv
  <1>4. QED
    BY <1>2, <1>3, RxUnchanged DEF Inv

LEMMA NextInv == Inv /\ [Next]_vars => Inv'
  <1> SUFFICES ASSUME Inv, [Next]_vars PROVE Inv'
    OBVIOUS
  <1>1. CASE \E p \in Printers : PrintBytes(p) \/ PutTxData(p)
    BY <1>1, OtherPrintInv, PutTxDataInv
  <1>2. CASE Transmitter
    BY <1>2, TransmitterInv
  <1>3. CASE ReceiveByte \/ ReceiveIdle \/ ReceiveError
    BY <1>3, ReceiverInv
  <1>4. CASE Reader
    BY <1>4, ReaderInv
  <1>5. CASE Stopped \/ UNCHANGED vars
    BY <1>5, StoppedInv DEF Stopped
  <1>6. QED
    BY <1>1, <1>2, <1>3, <1>4, <1>5 DEF Next

LEMMA InitInv == Init => Inv
  <1> SUFFICES ASSUME Init PROVE Inv
    OBVIOUS
  <1>1. TxTypes
    <2>1. tx \in [Printers -> Calls]
      BY IdleType DEF Init
    <2>2. tx_buffer \in Seq(Nat) /\ Len(tx_buffer) <= TxSize /\ wire \in Seq(Nat)
      BY SizeAssumption DEF Init
    <2>3. TX_DMA_buffer \in [1..TX_DMA_BUFFER_SIZE -> Nat]
      BY DEF Init
    <2>4. dma \in [sent : 0..TX_DMA_BUFFER_SIZE, size : 0..TX_DMA_BUFFER_SIZE]
      BY SizeAssumption DEF Init
    <2>5. QED
      BY <2>1, <2>2, <2>3, <2>4 DEF Init, TxTypes
  <1>2. RxTypes
    <2>1. /\ RX_DMA_buffer \in Seq(Nat) /\ Len(RX_DMA_buffer) < 2 * Half
          /\ rx_buffer \in Seq(Nat) /\ Len(rx_buffer) <= RxSize /\ got \in Seq(Nat)
      BY SizeAssumption DEF Init
    <2>2. QED
      BY <2>1 DEF Init, RxTypes
  <1>3. Locals
    <2>1. \A p \in Printers : tx[p].pc = "idle" /\ Lock # p
      BY TaskAssumption DEF Init, Idle
    <2>2. Len(tx_buffer) <= printed
      BY DEF Init
    <2>3. QED
      BY <2>1, <2>2, TaskAssumption DEF Locals, LocalsOK, HoldsChunk
  <1>4. QED
    BY <1>1, <1>2, <1>3 DEF Inv

LEMMA InvHolds == Spec => []Inv
  BY InitInv, NextInv, PTL DEF Spec

\* Every variable of the console keeps its type; in particular neither ring
\* buffer overflows and no transfer exceeds TX_DMA_buffer.
THEOREM ConsoleTypeCorrect == Spec => []TypeOK
  <1>1. Inv => TypeOK
    BY TypesOfBothSides DEF Inv
  <1>2. QED
    BY <1>1, InvHolds, PTL

--------------------------------------------------------------------------------
(* The transmitter has one starter: until two tasks overlap. *)

AtStart(p) == tx[p].pc \in {"read", "gState", "lock", "start"}

\* gState tells whether a transfer runs; a task that goes about to start one is
\* alone and finds none; the assertion holds.
Exclusive ==
    ~overlapped =>
        /\ \A p, q \in Printers : AtStart(p) /\ AtStart(q) => p = q
        /\ \A p \in Printers : AtStart(p) => gState = "READY"
        /\ gState = "READY" <=> dma.size = 0
        /\ board = "runs"

LEMMA ExclusiveKept ==
    ASSUME Exclusive, UNCHANGED <<tx, gState, dma, overlapped, board>>
    PROVE  Exclusive'
  BY DEF Exclusive, AtStart

\* A step of a task that ends outside Starting and leaves the transmitter alone.
LEMMA ExclusiveAside ==
    ASSUME Exclusive, NEW p \in Printers, NEW r, Goes(p, r),
           r.pc \notin {"read", "gState", "lock", "start"},
           UNCHANGED <<gState, dma, overlapped, board>>
    PROVE  Exclusive'
  <1>1. \A q \in Printers : AtStart(q)' => q # p /\ AtStart(q)
    BY DEF Goes, AtStart
  <1>2. QED
    BY <1>1 DEF Exclusive

\* A task at its start goes on to its next place there.
LEMMA ExclusiveForward ==
    ASSUME Exclusive, NEW p \in Printers, NEW r, Goes(p, r), AtStart(p),
           UNCHANGED <<gState, dma, overlapped, board>>
    PROVE  Exclusive'
  <1>1. \A q \in Printers : AtStart(q)' => AtStart(q)
    BY DEF Goes, AtStart
  <1>2. QED
    BY <1>1 DEF Exclusive

LEMMA CheckExclusive ==
    ASSUME Inv, Exclusive, NEW p \in Printers, Check(p)
    PROVE  Exclusive'
  <1>1. UNCHANGED <<gState, dma, board>> /\ tx[p].pc = "check" /\ tx[p] \in Calls
    BY CallFields DEF Check, TxAt, Inv
  <1>2. CASE Ready(p)
    <2> DEFINE r == [tx[p] EXCEPT !.pc = "read", !.n = 0]
    <2>1. Goes(p, r) /\ overlapped' = (overlapped \/ Starting # {})
      BY <1>2, GotoGoes DEF Check, Inv, Places
    <2> HIDE DEF r
    <2>2. SUFFICES ASSUME ~overlapped' PROVE Exclusive'
      BY DEF Exclusive
    <2>3. ~overlapped /\ Starting = {}
      BY <2>1, <2>2
    <2>4. \A q \in Printers : ~AtStart(q)
      BY <2>3 DEF Starting, AtStart
    <2>5. \A q \in Printers : AtStart(q)' => q = p
      BY <2>1, <2>4 DEF Goes, AtStart
    <2>6. gState = "READY"
      BY <1>2 DEF Ready
    <2>7. QED
      BY <1>1, <2>3, <2>5, <2>6 DEF Exclusive
  <1>3. CASE ~Ready(p)
    <2>1. PICK r \in Calls :
              /\ Goes(p, r)
              /\ r = Idle \/ (r.pc = "delay" /\ r.retries = tx[p].retries)
      BY <1>3, ReturnGoes DEF Check, Inv
    <2>2. UNCHANGED overlapped /\ r.pc \notin {"read", "gState", "lock", "start"}
      BY <1>3, <2>1 DEF Check, Idle
    <2>3. QED
      BY <1>1, <2>1, <2>2, ExclusiveAside
  <1>4. QED
    BY <1>2, <1>3

LEMMA ReadChunkGoes ==
    ASSUME Inv, NEW p \in Printers, ReadChunk(p)
    PROVE  \E r \in Calls :
              /\ Goes(p, r)
              /\ \/ ChunkSize > 0 /\ r.pc = "gState" /\ r.n = ChunkSize
                 \/ ChunkSize = 0 /\ r.pc \in {"idle", "delay"}
  <1>1. ChunkSize \in Nat /\ tx[p] \in Calls
    BY ChunkFacts, CallFields, SizeAssumption DEF Inv
  <1>2. CASE ChunkSize > 0
    <2> DEFINE r == [tx[p] EXCEPT !.pc = "gState", !.n = ChunkSize]
    <2>1. r \in Calls /\ r.pc = "gState" /\ r.n = ChunkSize
      BY <1>1 DEF Calls, Places
    <2>2. tx' = [tx EXCEPT ![p] = r]
      BY <1>2 DEF ReadChunk
    <2> HIDE DEF r
    <2>3. Goes(p, r)
      BY <2>1, <2>2, Going DEF Inv
    <2>4. QED
      BY <1>2, <2>1, <2>3
  <1>3. CASE ~(ChunkSize > 0)
    <2>1. PICK r \in Calls :
              /\ Goes(p, r)
              /\ r = Idle \/ (r.pc = "delay" /\ r.retries = tx[p].retries)
      BY <1>3, ReturnGoes DEF ReadChunk, Inv
    <2>2. ChunkSize = 0 /\ r.pc \in {"idle", "delay"}
      BY <1>1, <1>3, <2>1 DEF Idle
    <2>3. QED
      BY <2>1, <2>2
  <1>4. QED
    BY <1>2, <1>3

\* Until two tasks overlap HAL_UART_Transmit_DMA is never busy.
LEMMA HalNotBusy ==
    ASSUME Inv, Exclusive, ~overlapped
    PROVE  /\ \A p \in Printers : TestState(p) => gState = "READY"
           /\ \A p \in Printers : TakeLock(p) => Lock = None
           /\ dma.size > 0 => Lock = None
           /\ \A p \in Printers : AtStart(p) => dma.size = 0
  <1>1. \A p \in Printers : AtStart(p) => gState = "READY" /\ dma.size = 0
    BY DEF Exclusive
  <1>2. ASSUME NEW p \in Printers, TakeLock(p), Lock # None
        PROVE  FALSE
    <2>1. PICK q \in Printers : Lock = q
      BY <1>2 DEF Inv, TxTypes
    <2>2. AtStart(q) /\ tx[q].pc = "start"
      BY <2>1 DEF Inv, Locals, LocalsOK, AtStart
    <2>3. AtStart(p) /\ tx[p].pc = "lock"
      BY <1>2 DEF TakeLock, TxAt, AtStart
    <2>4. QED
      BY <2>2, <2>3 DEF Exclusive
  <1>3. ASSUME dma.size > 0, Lock # None
        PROVE  FALSE
    <2>1. PICK q \in Printers : Lock = q
      BY <1>3 DEF Inv, TxTypes
    <2>2. AtStart(q)
      BY <2>1 DEF Inv, Locals, LocalsOK, AtStart
    <2>3. QED
      BY <1>1, <1>3, <2>2
  <1>4. QED
    BY <1>1, <1>2, <1>3 DEF TestState, TxAt, AtStart

\* A task inside HAL_UART_Transmit_DMA goes on with the chunk it took.
LEMMA HalGoes ==
    ASSUME Inv, NEW p \in Printers,
           \/ TestState(p) /\ gState = "READY"
           \/ TakeLock(p) /\ Lock = None
    PROVE  \E r \in Calls : /\ Goes(p, r) /\ r.pc \in {"lock", "start"} /\ r.n = tx[p].n
                            /\ UNCHANGED board
  <1>1. tx[p] \in Calls
    BY CallFields DEF Inv
  <1>2. CASE TestState(p) /\ gState = "READY"
    <2> DEFINE r == [tx[p] EXCEPT !.pc = "lock"]
    <2>1. r \in Calls /\ r.pc = "lock" /\ r.n = tx[p].n
      BY <1>1 DEF Calls, Places
    <2>2. tx' = [tx EXCEPT ![p] = r] /\ UNCHANGED board
      BY <1>2 DEF TestState
    <2> HIDE DEF r
    <2>3. Goes(p, r)
      BY <2>1, <2>2, Going DEF Inv
    <2>4. QED
      BY <2>1, <2>2, <2>3
  <1>3. CASE TakeLock(p) /\ Lock = None
    <2> DEFINE r == [tx[p] EXCEPT !.pc = "start"]
    <2>1. r \in Calls /\ r.pc = "start" /\ r.n = tx[p].n
      BY <1>1 DEF Calls, Places
    <2>2. tx' = [tx EXCEPT ![p] = r] /\ UNCHANGED board
      BY <1>3 DEF TakeLock
    <2> HIDE DEF r
    <2>3. Goes(p, r)
      BY <2>1, <2>2, Going DEF Inv
    <2>4. QED
      BY <2>1, <2>2, <2>3
  <1>4. QED
    BY <1>2, <1>3

\* Steps of a task in which the transmitter and the bytes stay as they are.
LEMMA AsideGoes ==
    ASSUME Inv, NEW p \in Printers,
           \/ Take(p) \/ DisableHalf(p) \/ Delay(p) \/ (Check(p) /\ ~Ready(p))
           \/ \E length \in PrintLengths : PutTxDataWithWait(p, length) /\ tx[p].pc = "idle"
    PROVE  \E r \in Calls :
              /\ Goes(p, r)
              /\ r.pc \in {"idle", "take", "write", "delay"}
              /\ tx[p].pc \notin {"read", "gState", "lock", "start"}
  <1>1. tx[p] \in Calls /\ tx[p].left \in Nat /\ Len(tx_buffer) <= TxSize
        /\ Len(tx_buffer) \in Nat /\ TxSize \in Nat
    BY CallFields, SizeAssumption DEF Inv, TxTypes
  <1>2. CASE Take(p)
    <2> DEFINE room == Smaller(tx[p].left, TxSize - Len(tx_buffer))
               r == [tx[p] EXCEPT !.pc = "write", !.n = room]
    <2>1. TxSize - Len(tx_buffer) \in Nat
      BY <1>1
    <2>2. room \in Nat
      BY <1>1, <2>1, SmallerIsLess
    <2>3. tx' = [tx EXCEPT ![p] = r] /\ tx[p].pc = "take"
      BY <1>2 DEF Take, TxAt
    <2> HIDE DEF room
    <2>4. r \in Calls /\ r.pc = "write"
      BY <1>1, <2>2 DEF Calls, Places
    <2> HIDE DEF r
    <2>5. Goes(p, r)
      BY <2>3, <2>4, Going DEF Inv
    <2>6. QED
      BY <2>3, <2>4, <2>5
  <1>3. CASE DisableHalf(p) \/ (Check(p) /\ ~Ready(p))
    <2>1. Return(p) /\ tx[p].pc \in {"ht", "check"}
      BY <1>3 DEF DisableHalf, Check, TxAt
    <2>2. PICK r \in Calls :
              /\ Goes(p, r)
              /\ r = Idle \/ (r.pc = "delay" /\ r.retries = tx[p].retries)
      BY <2>1, ReturnGoes DEF Inv
    <2>3. r.pc \in {"idle", "delay"}
      BY <2>2 DEF Idle
    <2>4. QED
      BY <2>1, <2>2, <2>3
  <1>4. CASE Delay(p)
    <2>1. tx[p].pc = "delay" /\ tx[p].retries > 0 /\ tx[p].retries \in 0..Retries
      BY <1>4, CallFields DEF Delay, TxAt, Inv, Locals, LocalsOK
    <2>2. CASE Attempts(p) = 0
      <3>1. tx' = [tx EXCEPT ![p] = Idle]
        BY <1>4, <2>2 DEF Delay
      <3>2. Goes(p, Idle) /\ Idle.pc = "idle"
        BY <3>1, IdleType, Going DEF Inv, Idle
      <3>3. QED
        BY <2>1, <3>2, IdleType
    <2>3. CASE Attempts(p) # 0
      <3> DEFINE r == [tx[p] EXCEPT !.pc = "take", !.retries = Attempts(p)]
      <3>1. Attempts(p) \in 0..Retries
        BY <2>1, SizeAssumption DEF Attempts
      <3>2. r \in Calls /\ r.pc = "take"
        BY <1>1, <3>1 DEF Calls, Places
      <3>3. tx' = [tx EXCEPT ![p] = r]
        BY <1>4, <2>3 DEF Delay
      <3> HIDE DEF r
      <3>4. Goes(p, r)
        BY <3>2, <3>3, Going DEF Inv
      <3>5. QED
        BY <2>1, <3>2, <3>4
    <2>4. QED
      BY <2>2, <2>3
  <1>5. CASE \E length \in PrintLengths : PutTxDataWithWait(p, length) /\ tx[p].pc = "idle"
    <2>1. PICK length \in PrintLengths : PutTxDataWithWait(p, length) /\ tx[p].pc = "idle"
      BY <1>5
    <2> DEFINE r == [pc |-> "take", left |-> length, retries |-> Retries, n |-> 0]
    <2>2. r \in Calls /\ r.pc = "take"
      BY SizeAssumption DEF Calls, Places
    <2>3. Goes(p, r)
      BY <2>1, <2>2, Going DEF PutTxDataWithWait, Inv
    <2> HIDE DEF r
    <2>4. QED
      BY <2>1, <2>2, <2>3
  <1>6. QED
    BY <1>2, <1>3, <1>4, <1>5

LEMMA WriteGoes ==
    ASSUME Inv, NEW p \in Printers, Write(p)
    PROVE  \E r \in Calls : Goes(p, r) /\ r.pc = "check" /\ tx[p].pc = "write"
  <1> DEFINE r == [tx[p] EXCEPT !.pc = "check", !.left = @ - tx[p].n, !.n = 0]
  <1>1. /\ tx[p].pc = "write" /\ tx[p] \in Calls /\ tx[p].left \in Nat /\ tx[p].n \in Nat
        /\ tx[p].n <= tx[p].left
    BY CallFields DEF Write, TxAt, Inv, Locals, LocalsOK
  <1>2. tx[p].left - tx[p].n \in Nat
    BY <1>1
  <1>3. r \in Calls /\ r.pc = "check"
    BY <1>1, <1>2 DEF Calls, Places
  <1>4. tx' = [tx EXCEPT ![p] = r]
    BY DEF Write
  <1> HIDE DEF r
  <1>5. Goes(p, r)
    BY <1>3, <1>4, Going DEF Inv
  <1>6. QED
    BY <1>1, <1>3, <1>5

LEMMA StartTransferGoes ==
    ASSUME Inv, NEW p \in Printers, StartTransfer(p)
    PROVE  \E r \in Calls : Goes(p, r) /\ r.pc = "ht"
  <1> DEFINE r == [tx[p] EXCEPT !.pc = "ht", !.n = 0]
  <1>1. Goes(p, r)
    BY GotoGoes DEF StartTransfer, Inv, Places
  <1>2. r.pc = "ht" /\ r \in Calls
    BY <1>1, CallFields DEF Inv, Calls, Goes
  <1>3. QED
    BY <1>1, <1>2

LEMMA PutTxDataExclusive ==
    ASSUME Inv, Exclusive, NEW p \in Printers, PutTxData(p)
    PROVE  Exclusive'
  <1>1. CASE Check(p)
    BY <1>1, CheckExclusive
  <1>2. CASE Take(p) \/ DisableHalf(p) \/ Delay(p)
    <2>1. UNCHANGED <<gState, dma, overlapped, board>>
      BY <1>2 DEF Take, DisableHalf, Delay
    <2>2. PICK r \in Calls : Goes(p, r) /\ r.pc \in {"idle", "take", "write", "delay"}
      BY <1>2, AsideGoes
    <2>3. QED
      BY <2>1, <2>2, ExclusiveAside
  <1>3. CASE Write(p)
    <2>1. UNCHANGED <<gState, dma, overlapped, board>>
      BY <1>3 DEF Write
    <2>2. PICK r \in Calls : Goes(p, r) /\ r.pc = "check"
      BY <1>3, WriteGoes
    <2>3. QED
      BY <2>1, <2>2, ExclusiveAside
  <1>4. CASE ReadChunk(p)
    <2>1. UNCHANGED <<gState, dma, overlapped, board>> /\ AtStart(p)
      BY <1>4 DEF ReadChunk, TxAt, AtStart
    <2>2. PICK r \in Calls : Goes(p, r)
      BY <1>4, ReadChunkGoes
    <2>3. QED
      BY <2>1, <2>2, ExclusiveForward
  <1>5. CASE TestState(p) \/ TakeLock(p)
    <2>1. UNCHANGED <<gState, dma, overlapped>> /\ AtStart(p)
      BY <1>5 DEF TestState, TakeLock, TxAt, AtStart
    <2>2. SUFFICES ASSUME ~overlapped PROVE Exclusive'
      BY <2>1 DEF Exclusive
    <2>3. PICK r \in Calls : Goes(p, r) /\ UNCHANGED board
      BY <1>5, <2>2, HalNotBusy, HalGoes
    <2>4. QED
      BY <2>1, <2>3, ExclusiveForward
  <1>6. CASE StartTransfer(p)
    <2>1. /\ UNCHANGED <<overlapped, board>> /\ AtStart(p) /\ gState' = "BUSY_TX"
          /\ StartStream(tx[p].n) /\ tx[p].pc = "start"
      BY <1>6 DEF StartTransfer, TxAt, AtStart
    <2>2. SUFFICES ASSUME ~overlapped PROVE Exclusive'
      BY <2>1 DEF Exclusive
    <2>3. PICK r \in Calls : Goes(p, r) /\ r.pc = "ht"
      BY <1>6, StartTransferGoes
    <2>4. \A q \in Printers : ~AtStart(q)'
      BY <2>1, <2>2, <2>3 DEF Exclusive, Goes, AtStart
    <2>5. dma.size = 0 /\ tx[p].n \in 1..TX_DMA_BUFFER_SIZE
      BY <2>1, <2>2 DEF Exclusive, Inv, Locals, LocalsOK, HoldsChunk
    <2>6. dma'.size # 0
      BY <2>1, <2>5 DEF StartStream
    <2>7. QED
      BY <2>1, <2>2, <2>4, <2>6 DEF Exclusive
  <1>7. QED
    BY <1>1, <1>2, <1>3, <1>4, <1>5, <1>6 DEF PutTxData

LEMMA TransmitterExclusive ==
    ASSUME Inv, Exclusive, Transmitter
    PROVE  Exclusive'
  <1>1. UNCHANGED <<tx, overlapped>>
    BY DEF Transmitter, SendByte, TxCplt
  <1>2. SUFFICES ASSUME ~overlapped PROVE Exclusive'
    BY <1>1 DEF Exclusive
  <1>3. dma \in [sent : 0..TX_DMA_BUFFER_SIZE, size : 0..TX_DMA_BUFFER_SIZE]
    BY DEF Inv, TxTypes
  <1>4. CASE SendByte
    <2>1. UNCHANGED <<gState, board>> /\ dma'.size = dma.size
      BY <1>3, <1>4 DEF SendByte
    <2>2. QED
      BY <1>1, <2>1 DEF Exclusive, AtStart
  <1>5. CASE TxCplt
    <2>1. dma.size > 0 /\ Lock = None
      BY <1>2, <1>5, HalNotBusy DEF TxCplt
    <2>2. \A p \in Printers : ~AtStart(p)'
      BY <1>1, <1>2, <2>1, HalNotBusy DEF AtStart
    <2>3. gState' = "READY" <=> dma'.size = 0
      BY <1>5, <2>1 DEF TxCplt
    <2>4. UNCHANGED board
      BY <1>5, <2>1 DEF TxCplt
    <2>5. QED
      BY <1>1, <1>2, <2>2, <2>3, <2>4 DEF Exclusive
  <1>6. QED
    BY <1>4, <1>5 DEF Transmitter

\* The steps that leave the transmitter and its tasks alone.
LEMMA ReceiverAside ==
    ASSUME ReceiveByte \/ ReceiveIdle \/ ReceiveError \/ TakeRead \/ Echoed \/ Stopped
           \/ UNCHANGED vars
    PROVE  UNCHANGED txvars /\ UNCHANGED board
  <1>1. CASE ReceiveByte \/ ReceiveIdle \/ ReceiveError
    BY <1>1 DEF ReceiveByte, ReceiveIdle, ReceiveError
  <1>2. CASE TakeRead \/ Echoed
    BY <1>2 DEF TakeRead, Echoed
  <1>3. CASE Stopped \/ UNCHANGED vars
    BY <1>3 DEF Stopped, vars
  <1>4. QED
    BY <1>1, <1>2, <1>3

\* A print or an echo that starts.
Prints(p) == /\ \E length \in PrintLengths : PutTxDataWithWait(p, length) /\ tx[p].pc = "idle"
             /\ UNCHANGED <<writeSemaphore, tx_buffer, TX_DMA_buffer, gState, Lock, dma, wire,
                            printed, overlapped, board>>

LEMMA ReadByteCases ==
    ASSUME Inv, ReadByte
    PROVE  (UNCHANGED txvars /\ UNCHANGED board) \/ Prints(cli)
  <1>1. tx[cli].pc = "idle"
    BY DEF ReadByte, Inv, Locals
  <1>2. UNCHANGED <<writeSemaphore, tx_buffer, TX_DMA_buffer, gState, Lock, dma, wire, printed,
                    overlapped, board>>
    BY DEF ReadByte
  <1>3. CASE UNCHANGED tx
    BY <1>2, <1>3 DEF txvars
  <1>4. CASE \E length \in PrintLengths : PutTxDataWithWait(cli, length)
    BY <1>1, <1>2, <1>4 DEF Prints
  <1>5. QED
    BY <1>3, <1>4 DEF ReadByte

LEMMA PrintCases ==
    ASSUME NEW p \in Printers, PrintBytes(p)
    PROVE  Prints(p)
  BY DEF PrintBytes, Prints, TxAt

\* What a step is to the transmitter.
LEMMA StepCases ==
    ASSUME Inv, [Next]_vars
    PROVE  \/ \E p \in Printers : Prints(p)
           \/ \E p \in Printers : PutTxData(p)
           \/ Transmitter
           \/ UNCHANGED txvars /\ UNCHANGED board
  <1>1. CASE \E p \in Printers : PrintBytes(p) \/ PutTxData(p)
    BY <1>1, PrintCases
  <1>2. CASE Transmitter
    BY <1>2
  <1>3. CASE ReceiveByte \/ ReceiveIdle \/ ReceiveError \/ TakeRead \/ Echoed \/ Stopped
             \/ UNCHANGED vars
    BY <1>3, ReceiverAside
  <1>4. CASE ReadByte
    BY <1>4, ReadByteCases, TaskAssumption
  <1>5. QED
    BY <1>1, <1>2, <1>3, <1>4 DEF Next, Reader

LEMMA ExclusiveStep == Inv /\ Exclusive /\ [Next]_vars => Exclusive'
  <1> SUFFICES ASSUME Inv, Exclusive, [Next]_vars PROVE Exclusive'
    OBVIOUS
  <1>1. ASSUME NEW p \in Printers, Prints(p)
        PROVE  Exclusive'
    <2>1. UNCHANGED <<gState, dma, overlapped, board>>
      BY <1>1 DEF Prints
    <2>2. PICK r \in Calls : Goes(p, r) /\ r.pc \in {"idle", "take", "write", "delay"}
      BY <1>1, AsideGoes DEF Prints
    <2>3. QED
      BY <2>1, <2>2, ExclusiveAside
  <1>2. CASE UNCHANGED txvars /\ UNCHANGED board
    BY <1>2, ExclusiveKept DEF txvars
  <1>3. QED
    BY <1>1, <1>2, StepCases, PutTxDataExclusive, TransmitterExclusive

LEMMA ExclusiveInit == Init => Exclusive
  BY DEF Init, Exclusive, AtStart, Idle

LEMMA ExclusiveHolds == Spec => []Exclusive
  BY ExclusiveInit, ExclusiveStep, InvHolds, PTL DEF Spec

\* The assertion in tx_next_chunk fails only after two tasks found the
\* transmitter ready at once, whatever the transmit-complete interrupt does.
THEOREM AssertNeedsOverlap == Spec => []AssertOnlyOverlap
  <1>1. Exclusive => AssertOnlyOverlap
    BY DEF Exclusive, AssertOnlyOverlap
  <1>2. QED
    BY <1>1, ExclusiveHolds, PTL

--------------------------------------------------------------------------------
(* No byte is stranded. *)

AboutToStart(p) == tx[p].pc \in {"check", "read", "lock", "gState", "start"}

\* NoStrandedByte with its last disjunct named.
Unstranded == ~overlapped /\ tx_buffer # <<>> =>
                  dma.size > 0 \/ \E p \in Printers : AboutToStart(p)

\* A step of a task that is not about to start a transfer.
LEMMA UnstrandedAside ==
    ASSUME Unstranded, NEW p \in Printers, NEW r, Goes(p, r), ~AboutToStart(p),
           UNCHANGED <<tx_buffer, dma, overlapped>>
    PROVE  Unstranded'
  <1>1. \A q \in Printers : AboutToStart(q) => q # p /\ AboutToStart(q)'
    BY DEF Goes, AboutToStart
  <1>2. QED
    BY <1>1 DEF Unstranded

LEMMA UnstrandedAhead ==
    ASSUME NEW p \in Printers, NEW r, Goes(p, r),
           r.pc \in {"check", "read", "lock", "gState", "start"}
    PROVE  Unstranded'
  <1>1. AboutToStart(p)'
    BY DEF Goes, AboutToStart
  <1>2. QED
    BY <1>1 DEF Unstranded

LEMMA UnstrandedStep == Inv /\ Exclusive /\ Unstranded /\ [Next]_vars => Unstranded'
  <1> SUFFICES ASSUME Inv, Exclusive, Unstranded, [Next]_vars PROVE Unstranded'
    OBVIOUS
  <1>1. dma \in [sent : 0..TX_DMA_BUFFER_SIZE, size : 0..TX_DMA_BUFFER_SIZE]
        /\ TX_DMA_BUFFER_SIZE \in Nat
    BY SizeAssumption DEF Inv, TxTypes
  <1>2. ASSUME TakeChunk, ChunkSize = 0
        PROVE  tx_buffer' = <<>>
    <2>1. Len(tx_buffer') = Len(tx_buffer) /\ tx_buffer' \in Seq(Nat)
      BY <1>2, TakeChunkFacts, ChunkFacts DEF Inv
    <2>2. tx_buffer = <<>>
      BY <1>2, ChunkFacts DEF Inv
    <2>3. QED
      BY <2>1, <2>2
  <1>3. ASSUME NEW p \in Printers, Prints(p)
        PROVE  Unstranded'
    <2>1. UNCHANGED <<tx_buffer, dma, overlapped>> /\ ~AboutToStart(p)
      BY <1>3 DEF Prints, AboutToStart
    <2>2. PICK r \in Calls : Goes(p, r)
      BY <1>3, AsideGoes DEF Prints
    <2>3. QED
      BY <2>1, <2>2, UnstrandedAside
  <1>4. ASSUME NEW p \in Printers, Take(p) \/ DisableHalf(p) \/ Delay(p)
        PROVE  Unstranded'
    <2>1. UNCHANGED <<tx_buffer, dma, overlapped>> /\ ~AboutToStart(p)
      BY <1>4 DEF Take, DisableHalf, Delay, TxAt, AboutToStart
    <2>2. PICK r \in Calls : Goes(p, r)
      BY <1>4, AsideGoes
    <2>3. QED
      BY <2>1, <2>2, UnstrandedAside
  <1>5. ASSUME NEW p \in Printers, Write(p)
        PROVE  Unstranded'
    BY <1>5, WriteGoes, UnstrandedAhead
  <1>6. ASSUME NEW p \in Printers, Check(p)
        PROVE  Unstranded'
    <2>1. CASE Ready(p)
      <3> DEFINE r == [tx[p] EXCEPT !.pc = "read", !.n = 0]
      <3>1. Goes(p, r)
        BY <1>6, <2>1, GotoGoes DEF Check, Inv, Places
      <3>2. r.pc = "read"
        BY CallFields DEF Inv, Calls
      <3> HIDE DEF r
      <3>3. QED
        BY <3>1, <3>2, UnstrandedAhead
    <2>2. CASE ~Ready(p)
      <3>1. SUFFICES ASSUME ~overlapped' PROVE Unstranded'
        BY DEF Unstranded
      <3>2. UNCHANGED <<dma, overlapped>>
        BY <1>6, <2>2 DEF Check
      <3>3. dma.size > 0
        BY <1>1, <2>2, <3>1, <3>2 DEF Ready, Exclusive
      <3>4. QED
        BY <3>2, <3>3 DEF Unstranded
    <2>3. QED
      BY <2>1, <2>2
  <1>7. ASSUME NEW p \in Printers, ReadChunk(p)
        PROVE  Unstranded'
    <2>1. PICK r \in Calls :
              /\ Goes(p, r)
              /\ \/ ChunkSize > 0 /\ r.pc = "gState" /\ r.n = ChunkSize
                 \/ ChunkSize = 0 /\ r.pc \in {"idle", "delay"}
      BY <1>7, ReadChunkGoes
    <2>2. CASE r.pc = "gState"
      BY <2>1, <2>2, UnstrandedAhead
    <2>3. CASE ChunkSize = 0
      BY <1>2, <1>7, <2>3 DEF ReadChunk, Unstranded
    <2>4. QED
      BY <2>1, <2>2, <2>3
  <1>8. ASSUME NEW p \in Printers, TestState(p) \/ TakeLock(p)
        PROVE  Unstranded'
    <2>1. UNCHANGED overlapped
      BY <1>8 DEF TestState, TakeLock
    <2>2. SUFFICES ASSUME ~overlapped PROVE Unstranded'
      BY <2>1 DEF Unstranded
    <2>3. PICK r \in Calls : Goes(p, r) /\ r.pc \in {"lock", "start"}
      BY <1>8, <2>2, HalNotBusy, HalGoes
    <2>4. QED
      BY <2>3, UnstrandedAhead
  <1>9. ASSUME NEW p \in Printers, StartTransfer(p)
        PROVE  Unstranded'
    <2>1. UNCHANGED overlapped /\ StartStream(tx[p].n) /\ AtStart(p) /\ tx[p].pc = "start"
      BY <1>9 DEF StartTransfer, TxAt, AtStart
    <2>2. SUFFICES ASSUME ~overlapped PROVE Unstranded'
      BY <2>1 DEF Unstranded
    <2>3. dma.size = 0 /\ tx[p].n \in 1..TX_DMA_BUFFER_SIZE
      BY <2>1, <2>2, HalNotBusy DEF Inv, Locals, LocalsOK, HoldsChunk
    <2>4. dma'.size > 0
      BY <1>1, <2>1, <2>3 DEF StartStream
    <2>5. QED
      BY <2>4 DEF Unstranded
  <1>10. CASE Transmitter
    <2>1. CASE SendByte
      <3>1. dma'.size > 0
        BY <1>1, <2>1 DEF SendByte
      <3>2. QED
        BY <3>1 DEF Unstranded
    <2>2. CASE TxCplt
      <3>1. UNCHANGED overlapped
        BY <2>2 DEF TxCplt
      <3>2. SUFFICES ASSUME ~overlapped PROVE Unstranded'
        BY <3>1 DEF Unstranded
      <3>3. dma.size > 0 /\ Lock = None /\ TakeChunk
        BY <2>2, <3>2, HalNotBusy DEF TxCplt
      <3>4. CASE ChunkSize = 0
        BY <1>2, <3>3, <3>4 DEF Unstranded
      <3>5. CASE ChunkSize # 0
        <4>1. dma'.size = ChunkSize
          BY <2>2, <3>3, <3>5 DEF TxCplt
        <4>2. dma'.size > 0
          BY <1>1, <3>5, <4>1, ChunkFacts DEF Inv
        <4>3. QED
          BY <4>2 DEF Unstranded
      <3>6. QED
        BY <3>4, <3>5
    <2>3. QED
      BY <1>10, <2>1, <2>2 DEF Transmitter
  <1>11. CASE UNCHANGED txvars /\ UNCHANGED board
    BY <1>11 DEF Unstranded, AboutToStart, txvars
  <1>12. \A p \in Printers : PutTxData(p) => Unstranded'
    BY <1>4, <1>5, <1>6, <1>7, <1>8, <1>9 DEF PutTxData
  <1>13. QED
    BY <1>3, <1>10, <1>11, <1>12, StepCases

\* While the transmitter is idle bytes wait in tx_buffer only with a task about
\* to start it: task and interrupt never each leave the start to the other.
THEOREM NoByteStranded == Spec => []NoStrandedByte
  <1>1. Init => Unstranded
    BY DEF Init, Unstranded
  <1>2. Unstranded => NoStrandedByte
    BY DEF Unstranded, NoStrandedByte, AboutToStart
  <1>3. QED
    BY <1>1, <1>2, UnstrandedStep, InvHolds, ExclusiveHolds, PTL DEF Spec

--------------------------------------------------------------------------------
(* The console turns deaf only after it printed. *)

LEMMA DeafStep == Inv /\ DeafOnlyAfterPrint /\ [Next]_vars => DeafOnlyAfterPrint'
  <1> SUFFICES ASSUME Inv, DeafOnlyAfterPrint, [Next]_vars PROVE DeafOnlyAfterPrint'
    OBVIOUS
  <1>1. printed \in Nat
    BY DEF Inv, TxTypes
  <1>2. printed' >= printed
    <2>1. CASE \E p \in Printers : Write(p)
      <3>1. PICK p \in Printers : Write(p)
        BY <2>1
      <3>2. tx[p].n \in Nat /\ printed' = printed + tx[p].n
        BY <3>1, CallFields DEF Write, Inv
      <3>3. QED
        BY <1>1, <3>2
    <2>2. CASE UNCHANGED printed
      BY <1>1, <2>2
    <2>3. QED
      <3>1. \A p \in Printers : PutTxData(p) => Write(p) \/ UNCHANGED printed
        BY DEF PutTxData, Take, Check, ReadChunk, TestState, TakeLock, StartTransfer,
               DisableHalf, Delay
      <3>2. \A p \in Printers : Prints(p) => UNCHANGED printed
        BY DEF Prints
      <3>3. Transmitter => UNCHANGED printed
        BY DEF Transmitter, SendByte, TxCplt
      <3>4. QED
        BY <2>1, <2>2, <3>1, <3>2, <3>3, StepCases DEF txvars
  <1>3. ASSUME Lock # None
        PROVE  printed > 0
    <2>1. PICK p \in Printers : Lock = p
      BY <1>3 DEF Inv, TxTypes
    <2>2. QED
      BY <2>1 DEF Inv, Locals, LocalsOK, HoldsChunk
  <1>4. ASSUME RxState' = "READY"
        PROVE  RxState = "READY" \/ Lock # None \/ line_error'
    <2>1. CASE ReceiveByte \/ ReceiveIdle
      BY <1>4, <2>1 DEF ReceiveByte, ReceiveIdle, Restart, reception
    <2>2. CASE ReceiveError
      BY <2>2 DEF ReceiveError
    <2>3. CASE UNCHANGED RxState
      BY <1>4, <2>3
    <2>4. QED
      <3>1. \A p \in Printers : PutTxData(p) => UNCHANGED RxState
        BY DEF PutTxData, Take, Write, Check, ReadChunk, TestState, TakeLock, StartTransfer,
               DisableHalf, Delay, rxvars, reception
      <3>2. \A p \in Printers : PrintBytes(p) => UNCHANGED RxState
        BY DEF PrintBytes, rxvars, reception
      <3>3. Transmitter => UNCHANGED RxState
        BY DEF Transmitter, SendByte, TxCplt, rxvars, reception
      <3>4. Reader \/ Stopped \/ UNCHANGED vars => UNCHANGED RxState
        BY DEF Reader, TakeRead, ReadByte, Echoed, Stopped, vars, rxvars, reception
      <3>5. QED
        BY <2>1, <2>2, <2>3, <3>1, <3>2, <3>3, <3>4 DEF Next
  <1>5. line_error => line_error'
    <2>1. ReceiveError \/ UNCHANGED line_error
      <3>1. \A p \in Printers : PutTxData(p) => UNCHANGED line_error
        BY DEF PutTxData, Take, Write, Check, ReadChunk, TestState, TakeLock, StartTransfer,
               DisableHalf, Delay, rxvars
      <3>2. \A p \in Printers : PrintBytes(p) => UNCHANGED line_error
        BY DEF PrintBytes, rxvars
      <3>3. Transmitter => UNCHANGED line_error
        BY DEF Transmitter, SendByte, TxCplt, rxvars
      <3>4. Reader \/ Stopped \/ UNCHANGED vars => UNCHANGED line_error
        BY DEF Reader, TakeRead, ReadByte, Echoed, Stopped, vars, rxvars
      <3>5. ReceiveByte \/ ReceiveIdle => UNCHANGED line_error
        BY DEF ReceiveByte, ReceiveIdle
      <3>6. QED
        BY <3>1, <3>2, <3>3, <3>4, <3>5 DEF Next
    <2>2. QED
      BY <2>1 DEF ReceiveError
  <1>6. QED
    <2>1. printed' \in Nat
      BY NextInv DEF Inv, TxTypes
    <2>2. printed > 0 => printed' > 0
      BY <1>1, <1>2, <2>1
    <2>3. RxState = "READY" => line_error \/ printed > 0
      BY DEF DeafOnlyAfterPrint
    <2>4. RxState' = "READY" => line_error' \/ printed' > 0
      BY <1>3, <1>4, <1>5, <2>2, <2>3
    <2>5. QED
      BY <2>4 DEF DeafOnlyAfterPrint

\* Nothing but an error of the line makes the console deaf before it printed:
\* a restart of the reception fails only if it meets a task inside the HAL.
THEOREM DeafNeedsPrint == Spec => []DeafOnlyAfterPrint
  <1>1. Init => DeafOnlyAfterPrint
    BY DEF Init, DeafOnlyAfterPrint
  <1>2. QED
    BY <1>1, DeafStep, InvHolds, PTL DEF Spec

--------------------------------------------------------------------------------
(* Bytes are sent once and in order. *)

\* Each byte is named by its number: where the numbers are.
WireNumbered == \A k \in 1..Len(wire) : wire[k] = k
BufferNumbered == \A k \in 1..Len(tx_buffer) : tx_buffer[k] = printed - Len(tx_buffer) + k
Moving == /\ dma.sent <= dma.size
          /\ Len(wire) - dma.sent + dma.size + Len(tx_buffer) = printed
          /\ \A k \in 1..dma.size : TX_DMA_buffer[k] = Len(wire) - dma.sent + k
Holding(p) == /\ Len(wire) + tx[p].n + Len(tx_buffer) = printed
              /\ \A k \in 1..tx[p].n : TX_DMA_buffer[k] = Len(wire) + k
AllThere == Len(wire) + Len(tx_buffer) = printed

Numbered ==
    ~overlapped =>
        /\ WireNumbered /\ BufferNumbered
        /\ dma.size > 0 => Moving
        /\ dma.size = 0 => \A p \in Printers : HoldsChunk(p) => Holding(p)
        /\ dma.size = 0 /\ (\A p \in Printers : ~HoldsChunk(p)) => AllThere

LEMMA Lengths ==
    ASSUME Inv
    PROVE  /\ Len(wire) \in Nat /\ Len(tx_buffer) \in Nat /\ printed \in Nat
           /\ dma.sent \in Nat /\ dma.size \in Nat /\ dma.size <= TX_DMA_BUFFER_SIZE
           /\ TX_DMA_BUFFER_SIZE \in Nat /\ wire \in Seq(Nat) /\ tx_buffer \in Seq(Nat)
  BY SizeAssumption DEF Inv, TxTypes

LEMMA ChunkNumbers ==
    ASSUME Inv, TakeChunk, BufferNumbered, UNCHANGED printed, AllThere
    PROVE  /\ BufferNumbered'
           /\ \A k \in 1..ChunkSize : TX_DMA_buffer'[k] = Len(wire) + k
           /\ Len(wire) + ChunkSize + Len(tx_buffer') = printed
           /\ ChunkSize \in Nat
  <1>1. /\ ChunkSize \in Nat /\ ChunkSize <= Len(tx_buffer)
        /\ Len(tx_buffer') = Len(tx_buffer) - ChunkSize
        /\ \A k \in 1..ChunkSize : TX_DMA_buffer'[k] = tx_buffer[k]
        /\ \A k \in 1..Len(tx_buffer') : tx_buffer'[k] = tx_buffer[ChunkSize + k]
    BY ChunkFacts, TakeChunkFacts, SizeAssumption DEF Inv
  <1>2. \A k \in 1..ChunkSize : TX_DMA_buffer'[k] = Len(wire) + k
    <2> TAKE k \in 1..ChunkSize
    <2>1. k \in 1..Len(tx_buffer) /\ k \in Nat
      BY <1>1, Lengths
    <2>2. TX_DMA_buffer'[k] = printed - Len(tx_buffer) + k
      BY <1>1, <2>1 DEF BufferNumbered
    <2>3. printed - Len(tx_buffer) = Len(wire)
      BY Lengths DEF AllThere
    <2>4. QED
      BY <2>2, <2>3
  <1>3. Len(wire) + ChunkSize + Len(tx_buffer') = printed
    BY <1>1, Lengths DEF AllThere
  <1>4. ASSUME NEW k \in 1..Len(tx_buffer')
        PROVE  tx_buffer'[k] = printed' - Len(tx_buffer') + k
    <2>1. ChunkSize + k \in 1..Len(tx_buffer)
      BY <1>1, <1>4, Lengths
    <2>2. tx_buffer'[k] = printed - Len(tx_buffer) + (ChunkSize + k)
      BY <1>1, <1>4, <2>1 DEF BufferNumbered
    <2>3. QED
      BY <1>1, <1>4, <2>2, Lengths
  <1>5. QED
    BY <1>1, <1>2, <1>3, <1>4 DEF BufferNumbered

\* A step of a task that holds no chunk, before or after it.
LEMMA NumberedAside ==
    ASSUME Numbered, NEW p \in Printers, NEW r, Goes(p, r), ~HoldsChunk(p),
           r.pc \notin {"gState", "lock", "start"},
           UNCHANGED <<tx_buffer, TX_DMA_buffer, dma, wire, printed>>, overlapped => overlapped'
    PROVE  Numbered'
  <1>1. \A q \in Printers : /\ HoldsChunk(q)' <=> HoldsChunk(q)
                            /\ HoldsChunk(q) => tx'[q] = tx[q]
    BY DEF Goes, HoldsChunk
  <1>2. SUFFICES ASSUME ~overlapped' PROVE Numbered'
    BY DEF Numbered
  <1>3. /\ WireNumbered' /\ BufferNumbered'
        /\ dma.size > 0 => Moving'
        /\ dma.size = 0 /\ (\A q \in Printers : ~HoldsChunk(q)) => AllThere'
    BY <1>2 DEF Numbered, WireNumbered, BufferNumbered, Moving, AllThere
  <1>4. ASSUME dma.size = 0, NEW q \in Printers, HoldsChunk(q)'
        PROVE  Holding(q)'
    <2>1. Holding(q) /\ tx'[q] = tx[q]
      BY <1>1, <1>2, <1>4 DEF Numbered
    <2>2. QED
      BY <2>1 DEF Holding
  <1>5. QED
    BY <1>1, <1>3, <1>4 DEF Numbered

LEMMA WriteNumbered ==
    ASSUME Inv, Exclusive, Numbered, NEW p \in Printers, Write(p)
    PROVE  Numbered'
  <1> DEFINE n == tx[p].n
             bytes == [k \in 1..n |-> printed + k]
  <1>1. n \in Nat /\ tx[p].pc = "write"
    BY CallFields DEF Write, TxAt, Inv
  <1>2. /\ UNCHANGED <<TX_DMA_buffer, dma, wire, overlapped>> /\ printed' = printed + n
        /\ tx_buffer' = tx_buffer \o bytes
    BY DEF Write
  <1>3. PICK r \in Calls : Goes(p, r) /\ r.pc = "check"
    BY WriteGoes
  <1>4. bytes \in Seq(Nat) /\ Len(bytes) = n /\ \A k \in 1..n : bytes[k] = printed + k
    <2> HIDE DEF n
    <2>1. QED
      BY <1>1, Lengths, NumbersFrom
  <1> HIDE DEF bytes
  <1>5. /\ Len(tx_buffer') = Len(tx_buffer) + n
        /\ \A k \in 1..Len(tx_buffer) : tx_buffer'[k] = tx_buffer[k]
        /\ \A k \in 1..n : tx_buffer'[Len(tx_buffer) + k] = printed + k
    <2>1. /\ Len(tx_buffer \o bytes) = Len(tx_buffer) + Len(bytes)
          /\ \A k \in 1..Len(tx_buffer) : (tx_buffer \o bytes)[k] = tx_buffer[k]
          /\ \A k \in 1..Len(bytes) : (tx_buffer \o bytes)[Len(tx_buffer) + k] = bytes[k]
      BY <1>4, Lengths, ConcatFacts
    <2>2. QED
      BY <1>2, <1>4, <2>1
  <1> HIDE DEF n
  <1>6. SUFFICES ASSUME ~overlapped PROVE Numbered'
    BY <1>2 DEF Numbered
  <1>7. \A q \in Printers : /\ HoldsChunk(q)' <=> HoldsChunk(q)
                            /\ HoldsChunk(q) => tx'[q] = tx[q]
    BY <1>1, <1>3 DEF Goes, HoldsChunk
  <1>8. ASSUME NEW k \in 1..Len(tx_buffer')
        PROVE  tx_buffer'[k] = printed' - Len(tx_buffer') + k
    <2>1. CASE k <= Len(tx_buffer)
      <3>1. tx_buffer'[k] = printed - Len(tx_buffer) + k
        BY <1>5, <1>6, <1>8, <2>1, Lengths DEF Numbered, BufferNumbered
      <3>2. QED
        BY <1>1, <1>2, <1>5, <1>8, <3>1, Lengths
    <2>2. CASE ~(k <= Len(tx_buffer))
      <3> DEFINE j == k - Len(tx_buffer)
      <3>1. j \in 1..n /\ k = Len(tx_buffer) + j
        BY <1>1, <1>5, <1>8, <2>2, Lengths
      <3>2. tx_buffer'[k] = printed + j
        BY <1>5, <3>1
      <3>3. QED
        <4>1. printed' - Len(tx_buffer') = printed - Len(tx_buffer)
          BY <1>1, <1>2, <1>5, Lengths
        <4>2. printed - Len(tx_buffer) + k = printed + j
          BY <1>1, <3>1, Lengths
        <4>3. QED
          BY <3>2, <4>1, <4>2
    <2>3. QED
      BY <2>1, <2>2
  <1>9. WireNumbered' /\ BufferNumbered'
    BY <1>2, <1>6, <1>8 DEF Numbered, WireNumbered, BufferNumbered
  <1>10. dma'.size > 0 => Moving'
    <2> SUFFICES ASSUME dma'.size > 0 PROVE Moving'
      OBVIOUS
    <2>1. Moving
      BY <1>2, <1>6 DEF Numbered
    <2>2. Len(wire') - dma'.sent + dma'.size + Len(tx_buffer') = printed'
      <3>1. /\ Len(wire) \in Nat /\ dma.sent \in Nat /\ dma.size \in Nat
            /\ Len(tx_buffer) \in Nat /\ printed \in Nat /\ n \in Nat
        BY <1>1, Lengths
      <3>2. Len(wire) - dma.sent + dma.size + Len(tx_buffer) = printed
        BY <2>1 DEF Moving
      <3>3. Len(wire) - dma.sent + dma.size + (Len(tx_buffer) + n) = printed + n
        BY <3>1, <3>2
      <3>4. /\ Len(wire') = Len(wire) /\ dma' = dma /\ printed' = printed + n
            /\ Len(tx_buffer') = Len(tx_buffer) + n
        BY <1>2, <1>5
      <3>5. QED
        BY <3>3, <3>4
    <2>3. QED
      BY <1>2, <2>1, <2>2 DEF Moving
  <1>11. ASSUME dma'.size = 0, NEW q \in Printers, HoldsChunk(q)'
         PROVE  Holding(q)'
    <2>1. Holding(q) /\ tx'[q] = tx[q] /\ tx[q].n \in Nat
      BY <1>2, <1>6, <1>7, <1>11, CallFields DEF Numbered, Inv
    <2>2. QED
      <3> DEFINE m == tx[q].n
      <3>1. m \in Nat /\ Len(wire) + m + Len(tx_buffer) = printed
        BY <2>1 DEF Holding
      <3> HIDE DEF m
      <3>2. Len(wire) + m + (Len(tx_buffer) + n) = printed + n
        BY <1>1, <3>1, Lengths
      <3>3. Len(wire') + m + Len(tx_buffer') = printed'
        BY <1>2, <1>5, <3>2
      <3>4. Len(wire') + tx'[q].n + Len(tx_buffer') = printed'
        BY <2>1, <3>3 DEF m
      <3>5. QED
        BY <1>2, <2>1, <3>4 DEF Holding
  <1>12. dma'.size = 0 /\ (\A q \in Printers : ~HoldsChunk(q)') => AllThere'
    BY <1>1, <1>2, <1>5, <1>6, <1>7, Lengths DEF Numbered, AllThere
  <1>13. QED
    BY <1>9, <1>10, <1>11, <1>12 DEF Numbered

LEMMA ReadChunkNumbered ==
    ASSUME Inv, Exclusive, Numbered, NEW p \in Printers, ReadChunk(p)
    PROVE  Numbered'
  <1>1. /\ UNCHANGED <<dma, wire, printed, overlapped>> /\ UNCHANGED printed /\ TakeChunk
        /\ AtStart(p) /\ tx[p].pc = "read"
    BY DEF ReadChunk, TxAt, AtStart
  <1>2. SUFFICES ASSUME ~overlapped PROVE Numbered'
    BY <1>1 DEF Numbered
  <1>3. PICK r \in Calls :
            /\ Goes(p, r)
            /\ \/ ChunkSize > 0 /\ r.pc = "gState" /\ r.n = ChunkSize
               \/ ChunkSize = 0 /\ r.pc \in {"idle", "delay"}
    BY ReadChunkGoes
  <1>4. dma.size = 0 /\ \A q \in Printers : ~HoldsChunk(q)
    BY <1>1, <1>2, HalNotBusy DEF Exclusive, AtStart, HoldsChunk
  <1>5. AllThere /\ WireNumbered /\ BufferNumbered
    BY <1>2, <1>4 DEF Numbered
  <1>6. /\ BufferNumbered'
        /\ \A k \in 1..ChunkSize : TX_DMA_buffer'[k] = Len(wire) + k
        /\ Len(wire) + ChunkSize + Len(tx_buffer') = printed
        /\ ChunkSize \in Nat
    BY <1>1, <1>5, ChunkNumbers
  <1>7. \A q \in Printers : HoldsChunk(q)' => q = p /\ r.pc = "gState"
    BY <1>3, <1>4 DEF Goes, HoldsChunk
  <1>8. WireNumbered' /\ dma'.size = 0
    BY <1>1, <1>4, <1>5 DEF WireNumbered
  <1>9. ASSUME NEW q \in Printers, HoldsChunk(q)'
        PROVE  Holding(q)'
    <2>1. q = p /\ tx'[q].n = ChunkSize
      BY <1>3, <1>7, <1>9 DEF Goes
    <2>2. Len(wire') + ChunkSize + Len(tx_buffer') = printed'
      BY <1>1, <1>6
    <2>3. \A k \in 1..ChunkSize : TX_DMA_buffer'[k] = Len(wire') + k
      BY <1>1, <1>6
    <2>4. QED
      BY <2>1, <2>2, <2>3 DEF Holding
  <1>10. (\A q \in Printers : ~HoldsChunk(q)') => AllThere'
    <2> SUFFICES ASSUME \A q \in Printers : ~HoldsChunk(q)' PROVE AllThere'
      OBVIOUS
    <2>1. ChunkSize = 0
      BY <1>3 DEF Goes, HoldsChunk
    <2>2. tx_buffer' \in Seq(Nat)
      BY <1>1, TakeChunkFacts DEF Inv
    <2>3. Len(wire) + Len(tx_buffer') = printed
      BY <1>6, <2>1, <2>2, Lengths
    <2>4. QED
      BY <1>1, <2>3 DEF AllThere
  <1>11. QED
    BY <1>6, <1>8, <1>9, <1>10 DEF Numbered

LEMMA HalNumbered ==
    ASSUME Inv, Exclusive, Numbered, NEW p \in Printers, TestState(p) \/ TakeLock(p)
    PROVE  Numbered'
  <1>1. UNCHANGED <<tx_buffer, TX_DMA_buffer, dma, wire, printed, overlapped>> /\ HoldsChunk(p)
    BY DEF TestState, TakeLock, TxAt, HoldsChunk
  <1>2. SUFFICES ASSUME ~overlapped PROVE Numbered'
    BY <1>1 DEF Numbered
  <1>3. PICK r \in Calls : Goes(p, r) /\ r.pc \in {"lock", "start"} /\ r.n = tx[p].n
    BY <1>2, HalNotBusy, HalGoes
  <1>4. \A q \in Printers : /\ HoldsChunk(q)' <=> HoldsChunk(q)
                            /\ tx'[q].n = tx[q].n
    BY <1>1, <1>3 DEF Goes, HoldsChunk
  <1>5. /\ WireNumbered' /\ BufferNumbered'
        /\ dma.size > 0 => Moving'
        /\ dma.size = 0 /\ (\A q \in Printers : ~HoldsChunk(q)) => AllThere'
    BY <1>1, <1>2 DEF Numbered, WireNumbered, BufferNumbered, Moving, AllThere
  <1>6. ASSUME dma.size = 0, NEW q \in Printers, HoldsChunk(q)'
        PROVE  Holding(q)'
    <2>1. Holding(q) /\ tx'[q].n = tx[q].n
      BY <1>2, <1>4, <1>6 DEF Numbered
    <2>2. QED
      BY <1>1, <2>1 DEF Holding
  <1>7. QED
    BY <1>1, <1>4, <1>5, <1>6 DEF Numbered

LEMMA StartTransferNumbered ==
    ASSUME Inv, Exclusive, Numbered, NEW p \in Printers, StartTransfer(p)
    PROVE  Numbered'
  <1>1. /\ UNCHANGED <<tx_buffer, TX_DMA_buffer, wire, printed, overlapped>>
        /\ AtStart(p) /\ HoldsChunk(p) /\ StartStream(tx[p].n)
    BY DEF StartTransfer, TxAt, AtStart, HoldsChunk
  <1>2. SUFFICES ASSUME ~overlapped PROVE Numbered'
    BY <1>1 DEF Numbered
  <1>3. dma.size = 0 /\ Holding(p) /\ WireNumbered /\ BufferNumbered
    BY <1>1, <1>2, HalNotBusy DEF Numbered
  <1>4. tx[p].n \in 1..TX_DMA_BUFFER_SIZE
    BY <1>1 DEF Inv, Locals, LocalsOK
  <1> DEFINE n == tx[p].n
  <1>5. dma' = [sent |-> 0, size |-> n] /\ n \in Nat /\ n > 0
    BY <1>1, <1>3, <1>4, Lengths DEF StartStream
  <1>6. Len(wire) + n + Len(tx_buffer) = printed /\ \A k \in 1..n : TX_DMA_buffer[k] = Len(wire) + k
    BY <1>3 DEF Holding
  <1> HIDE DEF n
  <1>7. /\ dma'.sent <= dma'.size
        /\ Len(wire') - dma'.sent + dma'.size + Len(tx_buffer') = printed'
    <2>1. dma'.sent = 0 /\ dma'.size = n
      BY <1>5
    <2>2. Len(wire') - dma'.sent = Len(wire)
      BY <1>1, <2>1, Lengths
    <2>3. Len(wire') - dma'.sent + dma'.size + Len(tx_buffer') = printed'
      BY <1>1, <1>6, <2>1, <2>2
    <2>4. QED
      BY <1>5, <2>1, <2>3
  <1>8. \A k \in 1..dma'.size : TX_DMA_buffer'[k] = Len(wire') - dma'.sent + k
    <2>1. dma'.sent = 0 /\ dma'.size = n
      BY <1>5
    <2>2. Len(wire') - dma'.sent = Len(wire)
      BY <1>1, <2>1, Lengths
    <2>3. QED
      BY <1>1, <1>6, <2>1, <2>2
  <1>9. WireNumbered' /\ BufferNumbered' /\ dma'.size # 0
    BY <1>1, <1>3, <1>5 DEF WireNumbered, BufferNumbered
  <1>10. QED
    BY <1>7, <1>8, <1>9 DEF Numbered, Moving

LEMMA SendByteNumbered ==
    ASSUME Inv, Exclusive, Numbered, SendByte
    PROVE  Numbered'
  <1>1. /\ UNCHANGED <<tx_buffer, TX_DMA_buffer, printed, overlapped>> /\ dma.sent < dma.size
        /\ wire' = Append(wire, TX_DMA_buffer[dma.sent + 1])
        /\ dma' = [dma EXCEPT !.sent = dma.sent + 1]
    BY DEF SendByte
  <1>2. SUFFICES ASSUME ~overlapped PROVE Numbered'
    BY <1>1 DEF Numbered
  <1>3. Moving /\ WireNumbered /\ BufferNumbered
    BY <1>1, <1>2, Lengths DEF Numbered
  <1>4. dma'.sent = dma.sent + 1 /\ dma'.size = dma.size
    <2>1. dma \in [sent : 0..TX_DMA_BUFFER_SIZE, size : 0..TX_DMA_BUFFER_SIZE]
      BY DEF Inv, TxTypes
    <2>2. QED
      BY <1>1, <2>1
  <1>5. dma.sent + 1 \in 1..dma.size
    BY <1>1, Lengths
  <1>6. TX_DMA_buffer[dma.sent + 1] = Len(wire) + 1
    <2>1. TX_DMA_buffer[dma.sent + 1] = Len(wire) - dma.sent + (dma.sent + 1)
      BY <1>3, <1>5 DEF Moving
    <2>2. QED
      BY <2>1, Lengths
  <1>7. /\ Len(wire') = Len(wire) + 1 /\ wire'[Len(wire) + 1] = Len(wire) + 1
        /\ \A k \in 1..Len(wire) : wire'[k] = wire[k]
    BY <1>1, <1>6, Lengths
  <1>8. WireNumbered'
    <2> SUFFICES ASSUME NEW k \in 1..Len(wire') PROVE wire'[k] = k
      BY DEF WireNumbered
    <2>1. k \in 1..Len(wire) \/ k = Len(wire) + 1
      BY <1>7, Lengths
    <2>2. QED
      BY <1>3, <1>7, <2>1 DEF WireNumbered
  <1>9. Moving'
    <2>1. Len(wire') - dma'.sent = Len(wire) - dma.sent
      BY <1>4, <1>7, Lengths, SameDifference, ZenonT(40)
    <2>2. dma'.sent <= dma'.size
      BY <1>1, <1>4, Lengths
    <2>3. QED
      BY <1>1, <1>3, <1>4, <2>1, <2>2 DEF Moving
  <1>10. BufferNumbered' /\ dma'.size # 0
    BY <1>1, <1>3, <1>4, Lengths DEF BufferNumbered
  <1>11. QED
    BY <1>8, <1>9, <1>10 DEF Numbered

LEMMA TxCpltNumbered ==
    ASSUME Inv, Exclusive, Numbered, TxCplt
    PROVE  Numbered'
  <1>1. /\ UNCHANGED <<tx, wire, printed, overlapped>> /\ UNCHANGED printed /\ TakeChunk
        /\ dma.size > 0 /\ dma.sent = dma.size
    BY DEF TxCplt
  <1>2. SUFFICES ASSUME ~overlapped PROVE Numbered'
    BY <1>1 DEF Numbered
  <1>3. Lock = None /\ \A q \in Printers : ~AtStart(q)
    BY <1>1, <1>2, Lengths, HalNotBusy
  <1>4. Moving /\ WireNumbered /\ BufferNumbered
    BY <1>1, <1>2 DEF Numbered
  <1>5. AllThere
    BY <1>1, <1>4, Lengths DEF Moving, AllThere
  <1>6. /\ BufferNumbered'
        /\ \A k \in 1..ChunkSize : TX_DMA_buffer'[k] = Len(wire) + k
        /\ Len(wire) + ChunkSize + Len(tx_buffer') = printed
        /\ ChunkSize \in Nat
    BY <1>1, <1>4, <1>5, ChunkNumbers
  <1>7. dma' = [sent |-> 0, size |-> ChunkSize]
    BY <1>3 DEF TxCplt
  <1>8. dma'.sent = 0 /\ dma'.size = ChunkSize
    BY <1>7
  <1>9. WireNumbered' /\ \A q \in Printers : ~HoldsChunk(q)'
    BY <1>1, <1>3, <1>4 DEF WireNumbered, HoldsChunk, AtStart
  <1>10. dma'.size > 0 => Moving'
    <2>1. Len(wire') - dma'.sent = Len(wire)
      BY <1>1, <1>8, Lengths
    <2>2. dma'.sent <= dma'.size
      BY <1>6, <1>8
    <2>3. Len(wire') - dma'.sent + dma'.size + Len(tx_buffer') = printed'
      BY <1>1, <1>6, <1>8, <2>1
    <2>4. \A k \in 1..dma'.size : TX_DMA_buffer'[k] = Len(wire') - dma'.sent + k
      BY <1>6, <1>8, <2>1
    <2>5. QED
      BY <2>2, <2>3, <2>4 DEF Moving
  <1>11. dma'.size = 0 => AllThere'
    <2> SUFFICES ASSUME dma'.size = 0 PROVE AllThere'
      OBVIOUS
    <2>1. ChunkSize = 0 /\ tx_buffer' \in Seq(Nat)
      BY <1>1, <1>8, TakeChunkFacts DEF Inv
    <2>2. Len(wire) + Len(tx_buffer') = printed
      BY <1>6, <2>1, Lengths
    <2>3. QED
      BY <1>1, <2>2 DEF AllThere
  <1>12. QED
    BY <1>6, <1>9, <1>10, <1>11 DEF Numbered

LEMMA NumberedStep == Inv /\ Exclusive /\ Numbered /\ [Next]_vars => Numbered'
  <1> SUFFICES ASSUME Inv, Exclusive, Numbered, [Next]_vars PROVE Numbered'
    OBVIOUS
  <1>1. ASSUME NEW p \in Printers, Prints(p)
        PROVE  Numbered'
    <2>1. /\ UNCHANGED <<tx_buffer, TX_DMA_buffer, dma, wire, printed>>
          /\ UNCHANGED overlapped /\ ~HoldsChunk(p)
      BY <1>1 DEF Prints, HoldsChunk
    <2>2. PICK r \in Calls : Goes(p, r) /\ r.pc \in {"idle", "take", "write", "delay"}
      BY <1>1, AsideGoes DEF Prints
    <2>3. QED
      BY <2>1, <2>2, NumberedAside
  <1>2. ASSUME NEW p \in Printers, Take(p) \/ DisableHalf(p) \/ Delay(p)
        PROVE  Numbered'
    <2>1. /\ UNCHANGED <<tx_buffer, TX_DMA_buffer, dma, wire, printed>>
          /\ UNCHANGED overlapped /\ ~HoldsChunk(p)
      BY <1>2 DEF Take, DisableHalf, Delay, TxAt, HoldsChunk
    <2>2. PICK r \in Calls : Goes(p, r) /\ r.pc \in {"idle", "take", "write", "delay"}
      BY <1>2, AsideGoes
    <2>3. QED
      BY <2>1, <2>2, NumberedAside
  <1>3. ASSUME NEW p \in Printers, Check(p)
        PROVE  Numbered'
    <2>1. /\ UNCHANGED <<tx_buffer, TX_DMA_buffer, dma, wire, printed>>
          /\ overlapped => overlapped'
          /\ ~HoldsChunk(p)
      BY <1>3 DEF Check, TxAt, HoldsChunk
    <2>2. CASE Ready(p)
      <3> DEFINE r == [tx[p] EXCEPT !.pc = "read", !.n = 0]
      <3>1. Goes(p, r)
        BY <1>3, <2>2, GotoGoes DEF Check, Inv, Places
      <3>2. r.pc = "read"
        BY CallFields DEF Inv, Calls
      <3> HIDE DEF r
      <3>3. QED
        BY <2>1, <3>1, <3>2, NumberedAside
    <2>3. CASE ~Ready(p)
      <3>1. PICK r \in Calls : Goes(p, r) /\ r.pc \in {"idle", "take", "write", "delay"}
        BY <1>3, <2>3, AsideGoes
      <3>2. QED
        BY <2>1, <3>1, NumberedAside
    <2>4. QED
      BY <2>2, <2>3
  <1>4. \A p \in Printers : PutTxData(p) => Numbered'
    BY <1>2, <1>3, WriteNumbered, ReadChunkNumbered, HalNumbered, StartTransferNumbered
       DEF PutTxData
  <1>5. Transmitter => Numbered'
    BY SendByteNumbered, TxCpltNumbered DEF Transmitter
  <1>6. CASE UNCHANGED txvars /\ UNCHANGED board
    BY <1>6 DEF Numbered, WireNumbered, BufferNumbered, Moving, Holding, AllThere, HoldsChunk,
                txvars
  <1>7. QED
    BY <1>1, <1>4, <1>5, <1>6, StepCases

LEMMA NumbersAreNumbers ==
    ASSUME NEW q \in Seq(Nat), NEW n \in Nat, Len(q) = n, \A k \in 1..n : q[k] = k
    PROVE  q = [k \in 1..n |-> k]
  <1>1. q \in [1..n -> Nat]
    OBVIOUS
  <1>2. QED
    BY <1>1

NumberedFrom(s, m) == \A k \in 1..Len(s) : s[k] = m + k

\* Three sequences that continue each other's numbers are the numbers.
LEMMA Concatenated ==
    ASSUME NEW s \in Seq(Nat), NEW t \in Seq(Nat), NEW u \in Seq(Nat), NEW n \in Nat,
           Len(s) + Len(t) + Len(u) = n,
           NumberedFrom(s, 0), NumberedFrom(t, Len(s)), NumberedFrom(u, n - Len(u))
    PROVE  s \o t \o u = [k \in 1..n |-> k]
  <1>0. /\ \A k \in 1..Len(s) : s[k] = k
        /\ \A k \in 1..Len(t) : t[k] = Len(s) + k
        /\ \A k \in 1..Len(u) : u[k] = n - Len(u) + k
    BY DEF NumberedFrom
  <1>1. /\ s \o t \in Seq(Nat) /\ Len(s \o t) = Len(s) + Len(t)
        /\ Len(s) \in Nat /\ Len(t) \in Nat /\ Len(u) \in Nat
        /\ \A k \in 1..Len(s) : (s \o t)[k] = s[k]
        /\ \A k \in 1..Len(t) : (s \o t)[Len(s) + k] = t[k]
    BY ConcatFacts
  <1> DEFINE st == s \o t
  <1>2. ASSUME NEW k \in 1..Len(st)
        PROVE  st[k] = k
    <2>1. CASE k <= Len(s)
      BY <1>0, <1>1, <1>2, <2>1
    <2>2. CASE ~(k <= Len(s))
      <3> DEFINE j == k - Len(s)
      <3>1. j \in 1..Len(t) /\ Len(s) + j = k
        BY <1>1, <1>2, <2>2
      <3>2. QED
        BY <1>0, <1>1, <3>1
    <2>3. QED
      BY <2>1, <2>2
  <1>3. st \in Seq(Nat) /\ Len(st) = Len(s) + Len(t) /\ Len(st) \in Nat
        /\ Len(s) \in Nat /\ Len(t) \in Nat /\ Len(u) \in Nat
    BY <1>1
  <1> HIDE DEF st
  <1>4. /\ st \o u \in Seq(Nat) /\ Len(st \o u) = Len(st) + Len(u)
        /\ \A k \in 1..Len(st) : (st \o u)[k] = st[k]
        /\ \A k \in 1..Len(u) : (st \o u)[Len(st) + k] = u[k]
    BY <1>3, ConcatFacts
  <1>5. ASSUME NEW k \in 1..n
        PROVE  (st \o u)[k] = k
    <2>1. CASE k <= Len(st)
      BY <1>2, <1>3, <1>4, <1>5, <2>1
    <2>2. CASE ~(k <= Len(st))
      <3> DEFINE j == k - Len(st)
      <3>1. j \in 1..Len(u) /\ Len(st) + j = k /\ n - Len(u) + j = k
        <4> DEFINE m == Len(st)
        <4>1. m \in Nat /\ n = m + Len(u) /\ Len(u) \in Nat /\ k \in 1..n /\ ~(k <= m)
          BY <1>3, <1>5, <2>2
        <4> HIDE DEF m
        <4>2. k - m \in 1..Len(u) /\ m + (k - m) = k /\ n - Len(u) + (k - m) = k
          BY <4>1
        <4>3. QED
          BY <4>2 DEF m
      <3>2. QED
        BY <1>0, <1>4, <3>1
    <2>3. QED
      BY <2>1, <2>2
  <1>6. st \o u = [k \in 1..n |-> k]
    <2>1. Len(st \o u) = n
      BY <1>3, <1>4
    <2>2. QED
      BY <1>4, <1>5, <2>1, NumbersAreNumbers
  <1>7. QED
    BY <1>6 DEF st

LEMMA ArrayIsSequence ==
    ASSUME NEW n \in Nat, NEW a \in [1..n -> Nat]
    PROVE  a \in Seq(Nat) /\ Len(a) = n
  OBVIOUS

LEMMA PartOfSequence ==
    ASSUME NEW q \in Seq(Nat), NEW a \in Nat, NEW b \in Nat, a <= b, b <= Len(q)
    PROVE  LET s == SubSeq(q, a + 1, b)
           IN  s \in Seq(Nat) /\ Len(s) = b - a /\ \A k \in 1..(b - a) : s[k] = q[a + k]
  OBVIOUS

LEMMA StartOfSequence ==
    ASSUME NEW q \in Seq(Nat), NEW b \in Nat, b <= Len(q)
    PROVE  LET s == SubSeq(q, 1, b)
           IN  s \in Seq(Nat) /\ Len(s) = b /\ \A k \in 1..b : s[k] = q[k]
  OBVIOUS

\* Until two tasks overlap all that was printed is sent once and in order: what
\* is on the wire, on its way and in tx_buffer are the bytes by their numbers.
THEOREM EveryByteSentInOrder == Spec => []SentInOrder
  <1>1. Init => Numbered
    BY DEF Init, Numbered, WireNumbered, BufferNumbered, Moving, Holding, AllThere, HoldsChunk,
           Idle
  <1>2. ASSUME Inv, Exclusive, Numbered
        PROVE  SentInOrder
    <2> SUFFICES ASSUME ~overlapped
                 PROVE  wire \o OnTheWay \o tx_buffer = [k \in 1..printed |-> k]
      BY DEF SentInOrder
    <2>1. WireNumbered /\ BufferNumbered
      BY <1>2 DEF Numbered
    <2>2. /\ OnTheWay \in Seq(Nat)
          /\ Len(wire) + Len(OnTheWay) + Len(tx_buffer) = printed
          /\ \A k \in 1..Len(OnTheWay) : OnTheWay[k] = Len(wire) + k
      <3>1. CASE dma.size > 0
        <4>1. Moving /\ OnTheWay = SubSeq(TX_DMA_buffer, dma.sent + 1, dma.size)
          BY <1>2, <3>1 DEF Numbered, OnTheWay
        <4>2. TX_DMA_buffer \in Seq(Nat) /\ Len(TX_DMA_buffer) = TX_DMA_BUFFER_SIZE
          BY <1>2, Lengths, ArrayIsSequence DEF Inv, TxTypes
        <4>3. /\ OnTheWay \in Seq(Nat) /\ Len(OnTheWay) = dma.size - dma.sent
              /\ \A k \in 1..(dma.size - dma.sent) : OnTheWay[k] = TX_DMA_buffer[dma.sent + k]
          <5>1. /\ dma.sent <= dma.size /\ dma.size <= Len(TX_DMA_buffer)
                /\ dma.sent \in Nat /\ dma.size \in Nat
            BY <1>2, <4>1, <4>2, Lengths DEF Moving
          <5>2. QED
            BY <4>1, <4>2, <5>1, PartOfSequence
        <4>4. Len(wire) + Len(OnTheWay) + Len(tx_buffer) = printed
          <5>1. /\ Len(wire) \in Nat /\ dma.sent \in Nat /\ dma.size \in Nat
                /\ Len(tx_buffer) \in Nat /\ printed \in Nat
            BY <1>2, Lengths
          <5>2. Len(wire) - dma.sent + dma.size + Len(tx_buffer) = printed
            BY <4>1 DEF Moving
          <5>3. Len(wire) + (dma.size - dma.sent) + Len(tx_buffer) = printed
            BY <5>1, <5>2
          <5>4. QED
            BY <4>3, <5>3
        <4>5. ASSUME NEW k \in 1..Len(OnTheWay)
              PROVE  OnTheWay[k] = Len(wire) + k
          <5>1. k \in 1..(dma.size - dma.sent) /\ dma.sent + k \in 1..dma.size
            <6>1. dma.sent \in Nat /\ dma.size \in Nat /\ dma.sent <= dma.size
              BY <1>2, <4>1, Lengths DEF Moving
            <6>2. k \in 1..(dma.size - dma.sent)
              BY <4>3, <4>5
            <6>3. QED
              BY <6>1, <6>2
          <5>2. OnTheWay[k] = Len(wire) - dma.sent + (dma.sent + k)
            BY <4>1, <4>3, <5>1 DEF Moving
          <5>3. QED
            BY <1>2, <5>1, <5>2, Lengths
        <4>6. QED
          BY <4>3, <4>4, <4>5
      <3>2. CASE dma.size = 0 /\ InHand # {}
        <4> DEFINE p == CHOOSE q \in InHand : TRUE
        <4>1. p \in Printers /\ HoldsChunk(p)
          BY <3>2 DEF InHand, HoldsChunk
        <4>2. OnTheWay = SubSeq(TX_DMA_buffer, 1, tx[p].n)
          <5>1. ~(dma.size > 0)
            BY <3>2
          <5>2. QED
            BY <3>2, <5>1, Zenon DEF OnTheWay
        <4> HIDE DEF p
        <4>3. TX_DMA_buffer \in Seq(Nat) /\ Len(TX_DMA_buffer) = TX_DMA_BUFFER_SIZE
          BY <1>2, Lengths, ArrayIsSequence DEF Inv, TxTypes
        <4>4. Holding(p) /\ tx[p].n \in 1..TX_DMA_BUFFER_SIZE
          BY <1>2, <3>2, <4>1 DEF Numbered, Inv, Locals, LocalsOK
        <4> DEFINE n == tx[p].n
        <4>5. n \in Nat /\ n <= Len(TX_DMA_buffer)
          BY <1>2, <4>3, <4>4, Lengths
        <4>6. /\ OnTheWay \in Seq(Nat) /\ Len(OnTheWay) = n
              /\ \A k \in 1..n : OnTheWay[k] = TX_DMA_buffer[k]
          BY <4>2, <4>3, <4>5, StartOfSequence
        <4>7. QED
          BY <4>4, <4>6 DEF Holding
      <3>3. CASE dma.size = 0 /\ InHand = {}
        <4>1. AllThere
          BY <1>2, <3>3 DEF Numbered, InHand, HoldsChunk
        <4>2. OnTheWay = <<>>
          BY <1>2, <3>3, Lengths DEF OnTheWay
        <4>3. QED
          BY <1>2, <4>1, <4>2, Lengths DEF AllThere
      <3>4. QED
        BY <1>2, <3>1, <3>2, <3>3, Lengths
    <2>3. wire \in Seq(Nat) /\ tx_buffer \in Seq(Nat) /\ printed \in Nat
      BY <1>2, Lengths
    <2> HIDE DEF OnTheWay
    <2>4. NumberedFrom(wire, 0)
      BY <2>1 DEF WireNumbered, NumberedFrom
    <2>5. NumberedFrom(tx_buffer, printed - Len(tx_buffer))
      BY <2>1 DEF BufferNumbered, NumberedFrom
    <2>6. NumberedFrom(OnTheWay, Len(wire))
      BY <2>2 DEF NumberedFrom
    <2>7. QED
      BY <2>2, <2>3, <2>4, <2>5, <2>6, Concatenated
  <1>3. QED
    BY <1>1, <1>2, NumberedStep, InvHolds, ExclusiveHolds, PTL DEF Spec

--------------------------------------------------------------------------------
(* Typed bytes reach the CLI at most twice, first in the order of typing. *)

\* The two parts of TypedInOrder, of any sequence of bytes.
AtMostTwice(d) == \A i, j, k \in 1..Len(d) :
                     i < j /\ j < k => ~(d[i] = d[j] /\ d[j] = d[k])
FirstInOrder(d) == \A i, j \in 1..Len(d) :
                     i < j /\ d[j] < d[i] => \E h \in 1..(i - 1) : d[h] = d[j]

\* Bytes above base are delivered once, in order, and none was left out.
Fresh(d, base) == \A j \in 1..Len(d) : d[j] > base =>
                     /\ \A i \in 1..(j - 1) : d[i] < d[j]
                     /\ \A v \in (base + 1)..(d[j] - 1) : \E h \in 1..(j - 1) : d[h] = v

\* The bytes that were typed before the running reception.
Base == typed - Len(RX_DMA_buffer)

\* The reception's bytes are the last that were typed.  The first half of them is
\* delivered once before the reception ends; what is delivered when it ends repeats
\* that half and continues it.
TypedInv ==
    /\ RxState = "READY" => RX_DMA_buffer = <<>>
    /\ Len(RX_DMA_buffer) <= typed
    /\ NumberedFrom(RX_DMA_buffer, Base)
    /\ \A i \in 1..Len(Delivered) : Delivered[i] <= typed
    /\ Len(RX_DMA_buffer) < Half => \A i \in 1..Len(Delivered) : Delivered[i] <= Base
    /\ AtMostTwice(Delivered) /\ FirstInOrder(Delivered) /\ Fresh(Delivered, Base)

\* e is d, followed by the m bytes after base.
Extends(d, e, m, base) ==
    /\ d \in Seq(Nat) /\ e \in Seq(Nat) /\ Len(e) = Len(d) + m
    /\ \A k \in 1..Len(d) : e[k] = d[k]
    /\ \A k \in 1..m : e[Len(d) + k] = base + k

\* The place of an element of e: in d, or after it.
LEMMA ExtendedAt ==
    ASSUME NEW d, NEW e, NEW m \in Nat, NEW base \in Nat, Extends(d, e, m, base),
           NEW j \in 1..Len(e)
    PROVE  /\ Len(d) \in Nat /\ e[j] \in Nat
           /\ \/ j \in 1..Len(d) /\ e[j] = d[j]
              \/ j > Len(d) /\ j - Len(d) \in 1..m /\ e[j] = base + (j - Len(d))
  <1>1. Len(d) \in Nat /\ Len(e) = Len(d) + m /\ e \in Seq(Nat)
    BY DEF Extends
  <1>2. CASE j <= Len(d)
    BY <1>1, <1>2 DEF Extends
  <1>3. CASE ~(j <= Len(d))
    <2> DEFINE k == j - Len(d)
    <2>1. k \in 1..m /\ j = Len(d) + k /\ j > Len(d)
      BY <1>1, <1>3
    <2>2. e[j] = base + k
      BY <2>1 DEF Extends
    <2>3. QED
      BY <1>1, <2>1, <2>2
  <1>4. QED
    BY <1>2, <1>3

LEMMA ExtendedTwice ==
    ASSUME NEW d, NEW e, NEW m \in Nat, NEW base \in Nat, Extends(d, e, m, base),
           AtMostTwice(d), Fresh(d, base)
    PROVE  AtMostTwice(e)
  <1> SUFFICES ASSUME NEW i \in 1..Len(e), NEW j \in 1..Len(e), NEW k \in 1..Len(e),
                      i < j, j < k, e[i] = e[j], e[j] = e[k]
               PROVE  FALSE
    BY DEF AtMostTwice
  <1>1. Len(d) \in Nat /\ Len(e) \in Nat /\ d \in Seq(Nat)
    BY DEF Extends
  <1>2. CASE k \in 1..Len(d) /\ e[k] = d[k]
    <2>1. i \in 1..Len(d) /\ j \in 1..Len(d)
      BY <1>1, <1>2
    <2>2. e[i] = d[i] /\ e[j] = d[j]
      BY <2>1 DEF Extends
    <2>3. QED
      BY <1>2, <2>1, <2>2 DEF AtMostTwice
  <1>3. CASE k > Len(d) /\ k - Len(d) \in 1..m /\ e[k] = base + (k - Len(d))
    <2>1. CASE j \in 1..Len(d) /\ e[j] = d[j]
      <3>1. i \in 1..Len(d) /\ i \in 1..(j - 1) /\ d[j] > base
        <4>1. e[k] > base
          BY <1>1, <1>3
        <4>2. d[j] > base
          BY <2>1, <4>1
        <4>3. i \in 1..Len(d) /\ i \in 1..(j - 1)
          BY <1>1, <2>1
        <4>4. QED
          BY <4>2, <4>3
      <3>2. e[i] = d[i]
        BY <3>1 DEF Extends
      <3>3. d[i] \in Nat /\ d[j] \in Nat
        BY <1>1, <2>1, <3>1
      <3>4. d[i] < d[j]
        BY <2>1, <3>1 DEF Fresh
      <3>5. QED
        BY <2>1, <3>2, <3>3, <3>4
    <2>2. CASE j > Len(d) /\ e[j] = base + (j - Len(d))
      BY <1>1, <1>3, <2>2
    <2>3. QED
      BY <2>1, <2>2, ExtendedAt
  <1>4. QED
    BY <1>2, <1>3, ExtendedAt

LEMMA ExtendedOrder ==
    ASSUME NEW d, NEW e, NEW m \in Nat, NEW base \in Nat, Extends(d, e, m, base),
           FirstInOrder(d), Fresh(d, base)
    PROVE  FirstInOrder(e)
  <1> SUFFICES ASSUME NEW i \in 1..Len(e), NEW j \in 1..Len(e), i < j, e[j] < e[i]
               PROVE  \E h \in 1..(i - 1) : e[h] = e[j]
    BY DEF FirstInOrder
  <1>1. Len(d) \in Nat /\ Len(e) \in Nat /\ d \in Seq(Nat)
    BY DEF Extends
  <1>2. ASSUME i \in 1..Len(d), \E h \in 1..(i - 1) : d[h] = e[j]
        PROVE  \E h \in 1..(i - 1) : e[h] = e[j]
    <2>1. PICK h \in 1..(i - 1) : d[h] = e[j]
      BY <1>2
    <2>2. h \in 1..Len(d)
      BY <1>1, <1>2, <2>1
    <2>3. e[h] = d[h]
      BY <2>2 DEF Extends
    <2>4. QED
      BY <2>1, <2>3
  <1>3. CASE j \in 1..Len(d) /\ e[j] = d[j]
    <2>1. i \in 1..Len(d)
      BY <1>1, <1>3
    <2>2. e[i] = d[i]
      BY <2>1 DEF Extends
    <2>3. QED
      BY <1>2, <1>3, <2>1, <2>2 DEF FirstInOrder
  <1>4. CASE j > Len(d) /\ j - Len(d) \in 1..m /\ e[j] = base + (j - Len(d))
    <2>1. CASE i \in 1..Len(d) /\ e[i] = d[i]
      <3>1. d[i] \in Nat
        BY <1>1, <2>1
      <3>2. d[i] > base /\ e[j] \in (base + 1)..(d[i] - 1)
        <4>1. e[j] \in Nat /\ e[j] > base
          BY <1>1, <1>4
        <4>2. e[j] < d[i]
          BY <2>1
        <4>3. QED
          BY <3>1, <4>1, <4>2
      <3>3. QED
        BY <1>2, <2>1, <3>2 DEF Fresh
    <2>2. CASE i > Len(d) /\ e[i] = base + (i - Len(d))
      BY <1>1, <1>4, <2>2
    <2>3. QED
      BY <2>1, <2>2, ExtendedAt
  <1>5. QED
    BY <1>3, <1>4, ExtendedAt

\* What is delivered stays below a bound.
LEMMA ExtendedBelow ==
    ASSUME NEW d, NEW e, NEW m \in Nat, NEW base \in Nat, Extends(d, e, m, base),
           NEW bound \in Nat, base + m <= bound, \A i \in 1..Len(d) : d[i] <= bound
    PROVE  \A i \in 1..Len(e) : e[i] <= bound
  <1>1. ASSUME NEW j \in 1..Len(e)
        PROVE  e[j] <= bound
    <2>1. CASE j \in 1..Len(d) /\ e[j] = d[j]
      BY <2>1
    <2>2. CASE j > Len(d) /\ j - Len(d) \in 1..m /\ e[j] = base + (j - Len(d))
      BY <2>2
    <2>3. QED
      BY <2>1, <2>2, ExtendedAt
  <1>2. QED
    BY <1>1

LEMMA ExtendedFresh ==
    ASSUME NEW d, NEW e, NEW m \in Nat, NEW base \in Nat, Extends(d, e, m, base),
           \A i \in 1..Len(d) : d[i] <= base
    PROVE  Fresh(e, base)
  <1> SUFFICES ASSUME NEW j \in 1..Len(e), e[j] > base
               PROVE  /\ \A i \in 1..(j - 1) : e[i] < e[j]
                      /\ \A v \in (base + 1)..(e[j] - 1) : \E h \in 1..(j - 1) : e[h] = v
    BY DEF Fresh
  <1>1. Len(d) \in Nat /\ Len(e) \in Nat /\ d \in Seq(Nat)
    BY DEF Extends
  <1>2. j > Len(d) /\ j - Len(d) \in 1..m /\ e[j] = base + (j - Len(d))
    <2>1. ~(j \in 1..Len(d) /\ e[j] = d[j])
      <3>1. SUFFICES ASSUME j \in 1..Len(d), e[j] = d[j] PROVE FALSE
        OBVIOUS
      <3>2. d[j] <= base /\ d[j] \in Nat
        BY <1>1, <3>1
      <3>3. QED
        BY <3>1, <3>2
    <2>2. QED
      BY <2>1, ExtendedAt
  <1>3. ASSUME NEW i \in 1..(j - 1)
        PROVE  e[i] < e[j]
    <2>1. i \in 1..Len(e) /\ i < j
      BY <1>1
    <2>2. CASE i \in 1..Len(d) /\ e[i] = d[i]
      <3>1. d[i] <= base /\ d[i] \in Nat
        BY <1>1, <2>2
      <3>2. QED
        BY <1>1, <1>2, <2>2, <3>1
    <2>3. CASE i > Len(d) /\ e[i] = base + (i - Len(d))
      BY <1>1, <1>2, <2>1, <2>3
    <2>4. QED
      BY <2>1, <2>2, <2>3, ExtendedAt
  <1>4. ASSUME NEW v \in (base + 1)..(e[j] - 1)
        PROVE  \E h \in 1..(j - 1) : e[h] = v
    <2> DEFINE k == v - base
    <2>1. k \in 1..m /\ Len(d) + k \in 1..(j - 1) /\ base + k = v
      BY <1>1, <1>2
    <2>2. e[Len(d) + k] = base + k
      BY <2>1 DEF Extends
    <2>3. QED
      BY <2>1, <2>2
  <1>5. QED
    BY <1>3, <1>4

\* What a callback moves to rx_buffer is delivered after everything else.
LEMMA ReceivedExtends ==
    ASSUME RxTypes, NEW bytes \in Seq(Nat), Received(bytes), UNCHANGED got,
           NEW base \in Nat, NumberedFrom(bytes, base)
    PROVE  \E m \in 0..Len(bytes) : Extends(Delivered, Delivered', m, base)
  <1> DEFINE n == Smaller(Len(bytes), RxSize - Len(rx_buffer))
  <1> DEFINE part == SubSeq(bytes, 1, n)
  <1>1. /\ rx_buffer \in Seq(Nat) /\ Len(rx_buffer) \in Nat /\ RxSize \in Nat
        /\ Len(rx_buffer) <= RxSize /\ Len(bytes) \in Nat /\ got \in Seq(Nat)
    BY SizeAssumption DEF RxTypes
  <1>2. n \in Nat /\ n <= Len(bytes)
    <2>1. RxSize - Len(rx_buffer) \in Nat
      BY <1>1
    <2>2. QED
      BY <1>1, <2>1, SmallerIsLess
  <1>3. rx_buffer' = rx_buffer \o part
    BY DEF Received
  <1> HIDE DEF n
  <1>4. part \in Seq(Nat) /\ Len(part) = n /\ \A k \in 1..n : part[k] = bytes[k]
    BY <1>1, <1>2, StartOfSequence
  <1>5. \A k \in 1..n : part[k] = base + k
    BY <1>1, <1>2, <1>4 DEF NumberedFrom
  <1> HIDE DEF part
  <1> DEFINE d == got \o rx_buffer
  <1>6. d \in Seq(Nat)
    BY <1>1, ConcatFacts
  <1>7. got \o (rx_buffer \o part) = d \o part
    BY <1>1, <1>4, ConcatAssociates
  <1>8. Delivered = d /\ Delivered' = d \o part
    BY <1>3, <1>7 DEF Delivered
  <1> HIDE DEF d
  <1>9. /\ d \o part \in Seq(Nat) /\ Len(d \o part) = Len(d) + n
        /\ \A k \in 1..Len(d) : (d \o part)[k] = d[k]
        /\ \A k \in 1..n : (d \o part)[Len(d) + k] = part[k]
    BY <1>4, <1>6, ConcatFacts
  <1>10. Extends(d, d \o part, n, base)
    BY <1>5, <1>6, <1>9 DEF Extends
  <1>11. QED
    BY <1>1, <1>2, <1>8, <1>10

LEMMA ReceptionFacts ==
    ASSUME RxTypes, TypedInv
    PROVE  /\ Base \in Nat /\ typed \in Nat /\ typed = Base + Len(RX_DMA_buffer)
           /\ Len(RX_DMA_buffer) \in Nat /\ RX_DMA_buffer \in Seq(Nat)
           /\ Half \in Nat \ {0}
           /\ Delivered \in Seq(Nat) /\ Len(Delivered) \in Nat
  <1>1. /\ typed \in Nat /\ RX_DMA_buffer \in Seq(Nat) /\ Len(RX_DMA_buffer) \in Nat
        /\ got \in Seq(Nat) /\ rx_buffer \in Seq(Nat) /\ Half \in Nat \ {0}
    BY SizeAssumption DEF RxTypes
  <1>2. Len(RX_DMA_buffer) <= typed
    BY DEF TypedInv
  <1>3. Delivered \in Seq(Nat) /\ Len(Delivered) \in Nat
    BY <1>1, ConcatFacts DEF Delivered
  <1> DEFINE l == Len(RX_DMA_buffer)
  <1> HIDE DEF l
  <1>4. Base = typed - l /\ l <= typed /\ l \in Nat
    BY <1>1, <1>2 DEF Base, l
  <1>5. Base \in Nat /\ typed = Base + l
    BY <1>1, <1>4
  <1>6. QED
    BY <1>1, <1>3, <1>5 DEF l

\* A reception ends, and everything typed so far is behind it.
LEMMA ReceptionEnds ==
    ASSUME RX_DMA_buffer' = <<>>, typed' \in Nat, Delivered' \in Seq(Nat),
           \A i \in 1..Len(Delivered') : Delivered'[i] <= typed',
           AtMostTwice(Delivered'), FirstInOrder(Delivered')
    PROVE  TypedInv'
  <1>1. Len(RX_DMA_buffer') = 0 /\ Base' = typed'
    <2>1. Len(RX_DMA_buffer') = 0
      OBVIOUS
    <2>2. typed' - 0 = typed'
      BY LessNothing
    <2>3. QED
      BY <2>1, <2>2, Zenon DEF Base
  <1>2. NumberedFrom(RX_DMA_buffer', Base')
    BY <1>1 DEF NumberedFrom
  <1>3. Fresh(Delivered', Base')
    <2>1. ASSUME NEW j \in 1..Len(Delivered'), Delivered'[j] > Base'
          PROVE  FALSE
      <3>1. Delivered'[j] \in Nat
        OBVIOUS
      <3>2. QED
        BY <1>1, <2>1, <3>1
    <2>2. QED
      BY <2>1 DEF Fresh
  <1>4. Len(RX_DMA_buffer') <= typed'
    BY <1>1
  <1>5. QED
    BY <1>1, <1>2, <1>3, <1>4 DEF TypedInv

\* The bytes of a reception that ends are delivered.
LEMMA ReceptionDelivered ==
    ASSUME RxTypes, TypedInv, NEW bytes \in Seq(Nat), Received(bytes), UNCHANGED got,
           NumberedFrom(bytes, Base), typed' \in Nat, typed' = Base + Len(bytes),
           typed <= typed', RX_DMA_buffer' = <<>>
    PROVE  TypedInv'
  <1>1. /\ Base \in Nat /\ typed \in Nat /\ Delivered \in Seq(Nat) /\ Len(bytes) \in Nat
    BY ReceptionFacts
  <1>2. PICK m \in 0..Len(bytes) : Extends(Delivered, Delivered', m, Base)
    BY <1>1, ReceivedExtends
  <1>3. m \in Nat /\ Base + m <= typed' /\ Delivered' \in Seq(Nat)
    BY <1>1, <1>2 DEF Extends
  <1>4. \A i \in 1..Len(Delivered) : Delivered[i] <= typed'
    <2>1. ASSUME NEW i \in 1..Len(Delivered)
          PROVE  Delivered[i] <= typed'
      <3>1. Delivered[i] <= typed
        BY DEF TypedInv
      <3>2. Delivered[i] \in Nat
        BY <1>1
      <3>3. QED
        BY <1>1, <3>1, <3>2
    <2>2. QED
      BY <2>1
  <1>5. AtMostTwice(Delivered) /\ FirstInOrder(Delivered) /\ Fresh(Delivered, Base)
    BY DEF TypedInv
  <1>6. \A i \in 1..Len(Delivered') : Delivered'[i] <= typed'
    BY <1>1, <1>2, <1>3, <1>4, ExtendedBelow
  <1>7. AtMostTwice(Delivered')
    BY <1>1, <1>2, <1>3, <1>5, ExtendedTwice
  <1>8. FirstInOrder(Delivered')
    BY <1>1, <1>2, <1>3, <1>5, ExtendedOrder
  <1>9. QED
    BY <1>3, <1>6, <1>7, <1>8, ReceptionEnds

\* A byte that the reception stores behind the others.
LEMMA ByteStored ==
    ASSUME RxTypes, TypedInv
    PROVE  LET bytes == Append(RX_DMA_buffer, typed + 1)
           IN  /\ bytes \in Seq(Nat) /\ Len(bytes) = Len(RX_DMA_buffer) + 1
               /\ typed + 1 = Base + Len(bytes) /\ NumberedFrom(bytes, Base)
  <1> DEFINE bytes == Append(RX_DMA_buffer, typed + 1)
  <1>1. /\ Base \in Nat /\ typed = Base + Len(RX_DMA_buffer) /\ typed \in Nat
        /\ RX_DMA_buffer \in Seq(Nat) /\ Len(RX_DMA_buffer) \in Nat
    BY ReceptionFacts
  <1>2. /\ bytes \in Seq(Nat) /\ Len(bytes) = Len(RX_DMA_buffer) + 1
        /\ \A k \in 1..Len(RX_DMA_buffer) : bytes[k] = RX_DMA_buffer[k]
        /\ bytes[Len(RX_DMA_buffer) + 1] = typed + 1
    BY <1>1
  <1>3. \A k \in 1..Len(RX_DMA_buffer) : RX_DMA_buffer[k] = Base + k
    BY DEF TypedInv, NumberedFrom
  <1> HIDE DEF bytes
  <1>4. ASSUME NEW k \in 1..Len(bytes)
        PROVE  bytes[k] = Base + k
    <2>1. CASE k \in 1..Len(RX_DMA_buffer)
      BY <1>2, <1>3, <2>1
    <2>2. CASE k = Len(RX_DMA_buffer) + 1
      BY <1>1, <1>2, <2>2
    <2>3. QED
      BY <1>1, <1>2, <2>1, <2>2
  <1>5. NumberedFrom(bytes, Base)
    BY <1>4 DEF NumberedFrom
  <1>6. typed + 1 = Base + Len(bytes)
    BY <1>1, <1>2
  <1>7. QED
    BY <1>2, <1>5, <1>6 DEF bytes

\* A byte that does not end the reception; it may complete its first half.
LEMMA ByteKept ==
    ASSUME RxTypes, TypedInv, UNCHANGED got, RxState' = "BUSY_RX", typed' = typed + 1,
           LET bytes == Append(RX_DMA_buffer, typed + 1)
           IN  /\ RX_DMA_buffer' = bytes
               /\ (Len(bytes) = Half /\ Received(bytes)) \/ UNCHANGED ring
    PROVE  TypedInv'
  <1> DEFINE bytes == Append(RX_DMA_buffer, typed + 1)
  <1>1. /\ Base \in Nat /\ typed \in Nat /\ typed = Base + Len(RX_DMA_buffer)
        /\ Len(RX_DMA_buffer) \in Nat /\ Half \in Nat \ {0}
        /\ Delivered \in Seq(Nat) /\ Len(Delivered) \in Nat
    BY ReceptionFacts
  <1>2. /\ bytes \in Seq(Nat) /\ Len(bytes) = Len(RX_DMA_buffer) + 1
        /\ typed + 1 = Base + Len(bytes) /\ NumberedFrom(bytes, Base)
    BY ByteStored
  <1>3. RX_DMA_buffer' = bytes /\ ((Len(bytes) = Half /\ Received(bytes)) \/ UNCHANGED ring)
    OBVIOUS
  <1> HIDE DEF bytes
  <1>4. Base' = Base /\ Len(RX_DMA_buffer') <= typed'
    <2> DEFINE l == Len(bytes)
    <2>1. l \in Nat /\ typed + 1 = Base + l /\ Base' = (typed + 1) - l
      BY <1>1, <1>2, <1>3 DEF Base
    <2>2. Len(RX_DMA_buffer') = l
      BY <1>3
    <2> HIDE DEF l
    <2>3. (typed + 1) - l = Base /\ l <= typed + 1
      BY <1>1, <2>1
    <2>4. QED
      BY <2>1, <2>2, <2>3
  <1>5. NumberedFrom(RX_DMA_buffer', Base')
    BY <1>2, <1>3, <1>4
  <1>6. /\ \A i \in 1..Len(Delivered) : Delivered[i] <= typed
        /\ AtMostTwice(Delivered) /\ FirstInOrder(Delivered) /\ Fresh(Delivered, Base)
        /\ Len(RX_DMA_buffer) < Half => \A i \in 1..Len(Delivered) : Delivered[i] <= Base
    BY DEF TypedInv
  <1>7. \A i \in 1..Len(Delivered) : Delivered[i] <= typed'
    <2>1. ASSUME NEW i \in 1..Len(Delivered)
          PROVE  Delivered[i] <= typed'
      <3>1. Delivered[i] \in Nat /\ Delivered[i] <= typed
        BY <1>1, <1>6
      <3>2. QED
        BY <1>1, <3>1
    <2>2. QED
      BY <2>1
  <1>8. CASE UNCHANGED ring
    <2>1. Delivered' = Delivered
      BY <1>8 DEF ring, Delivered
    <2>2. Len(RX_DMA_buffer') < Half => Len(RX_DMA_buffer) < Half
      BY <1>1, <1>2, <1>3
    <2>3. QED
      BY <1>4, <1>5, <1>6, <1>7, <2>1, <2>2 DEF TypedInv
  <1>9. CASE Len(bytes) = Half /\ Received(bytes)
    <2>1. PICK m \in 0..Len(bytes) : Extends(Delivered, Delivered', m, Base)
      BY <1>1, <1>2, <1>9, ReceivedExtends
    <2>2. m \in Nat /\ Base + m <= typed' /\ typed' \in Nat
      BY <1>1, <1>2, <2>1
    <2>3. \A i \in 1..Len(Delivered) : Delivered[i] <= Base
      <3>1. Len(RX_DMA_buffer) < Half
        BY <1>1, <1>2, <1>9
      <3>2. QED
        BY <1>6, <3>1
    <2>4. \A i \in 1..Len(Delivered') : Delivered'[i] <= typed'
      BY <1>1, <1>7, <2>1, <2>2, ExtendedBelow
    <2>5. AtMostTwice(Delivered')
      BY <1>1, <1>6, <2>1, <2>2, ExtendedTwice
    <2>6. FirstInOrder(Delivered')
      BY <1>1, <1>6, <2>1, <2>2, ExtendedOrder
    <2>7. Fresh(Delivered', Base)
      BY <1>1, <2>1, <2>2, <2>3, ExtendedFresh
    <2>8. ~(Len(RX_DMA_buffer') < Half)
      BY <1>1, <1>3, <1>9
    <2>9. QED
      BY <1>4, <1>5, <2>4, <2>5, <2>6, <2>7, <2>8 DEF TypedInv
  <1>10. QED
    BY <1>3, <1>8, <1>9

LEMMA ReceiverTyped ==
    ASSUME RxTypes, TypedInv, ReceiveByte \/ ReceiveIdle \/ ReceiveError
    PROVE  TypedInv'
  <1>1. /\ Base \in Nat /\ typed \in Nat /\ typed = Base + Len(RX_DMA_buffer)
        /\ Len(RX_DMA_buffer) \in Nat /\ RX_DMA_buffer \in Seq(Nat)
        /\ Delivered \in Seq(Nat) /\ typed + 1 \in Nat
    BY ReceptionFacts
  <1>2. \A i \in 1..Len(Delivered) : Delivered[i] <= typed + 1
    <2>1. ASSUME NEW i \in 1..Len(Delivered)
          PROVE  Delivered[i] <= typed + 1
      <3>1. Delivered[i] <= typed
        BY DEF TypedInv
      <3>2. Delivered[i] \in Nat
        BY <1>1
      <3>3. QED
        BY <1>1, <3>1, <3>2
    <2>2. QED
      BY <2>1
  <1>3. ASSUME UNCHANGED <<got, rx_buffer>>, typed' = typed + 1, RX_DMA_buffer' = <<>>
        PROVE  TypedInv'
    <2>1. Delivered' = Delivered
      BY <1>3 DEF Delivered
    <2>2. AtMostTwice(Delivered) /\ FirstInOrder(Delivered)
      BY DEF TypedInv
    <2>3. QED
      BY <1>1, <1>2, <1>3, <2>1, <2>2, ReceptionEnds
  <1>4. CASE ReceiveByte
    <2> DEFINE bytes == Append(RX_DMA_buffer, typed + 1)
    <2>1. typed' = typed + 1 /\ UNCHANGED got
      BY <1>4 DEF ReceiveByte
    <2>2. CASE RxState # "BUSY_RX"
      <3>1. UNCHANGED <<rx_buffer, RX_DMA_buffer>>
        BY <1>4, <2>2 DEF ReceiveByte, reception, ring
      <3>2. RX_DMA_buffer = <<>>
        BY <2>2 DEF RxTypes, TypedInv
      <3>3. QED
        BY <1>3, <2>1, <3>1, <3>2
    <2>3. CASE RxState = "BUSY_RX" /\ Len(bytes) = 2 * Half
      <3>1. Received(bytes) /\ Restart
        BY <1>4, <2>3 DEF ReceiveByte
      <3>2. /\ bytes \in Seq(Nat) /\ typed + 1 = Base + Len(bytes)
            /\ NumberedFrom(bytes, Base)
        BY ByteStored
      <3> HIDE DEF bytes
      <3>3. RX_DMA_buffer' = <<>>
        BY <3>1 DEF Restart
      <3>4. typed' \in Nat /\ typed' = Base + Len(bytes) /\ typed <= typed'
        BY <1>1, <2>1, <3>2
      <3>5. QED
        BY <2>1, <3>1, <3>2, <3>3, <3>4, ReceptionDelivered
    <2>4. CASE RxState = "BUSY_RX" /\ Len(bytes) # 2 * Half
      <3>1. /\ RX_DMA_buffer' = bytes /\ RxState' = "BUSY_RX"
            /\ (Len(bytes) = Half /\ Received(bytes)) \/ UNCHANGED ring
        BY <1>4, <2>4 DEF ReceiveByte
      <3>2. QED
        BY <2>1, <3>1, ByteKept
    <2>5. QED
      BY <2>2, <2>3, <2>4
  <1>5. CASE ReceiveIdle
    <2>1. /\ Received(RX_DMA_buffer) /\ RX_DMA_buffer' = <<>> /\ UNCHANGED <<got, typed>>
      BY <1>5 DEF ReceiveIdle, Restart
    <2>2. NumberedFrom(RX_DMA_buffer, Base)
      BY DEF TypedInv
    <2>3. typed' \in Nat /\ typed' = Base + Len(RX_DMA_buffer) /\ typed <= typed'
      BY <1>1, <2>1
    <2>4. QED
      BY <1>1, <2>1, <2>2, <2>3, ReceptionDelivered
  <1>6. CASE ReceiveError
    <2>1. UNCHANGED <<got, rx_buffer>> /\ typed' = typed + 1 /\ RX_DMA_buffer' = <<>>
      BY <1>6 DEF ReceiveError, ring
    <2>2. QED
      BY <1>3, <2>1
  <1>7. QED
    BY <1>4, <1>5, <1>6

\* A step that leaves the reception and what is delivered alone.
LEMMA TypedAside ==
    ASSUME TypedInv, UNCHANGED <<RxState, RX_DMA_buffer, typed>>, UNCHANGED Delivered
    PROVE  TypedInv'
  <1>1. Base' = Base
    BY DEF Base
  <1>2. QED
    BY <1>1 DEF TypedInv

\* The byte that get_rx_data reads leaves rx_buffer for the CLI.
LEMMA ReadKeepsDelivered ==
    ASSUME RxTypes, ReadByte
    PROVE  UNCHANGED Delivered
  <1>1. got \in Seq(Nat) /\ rx_buffer \in Seq(Nat)
    BY DEF RxTypes
  <1>2. CASE rx_buffer = <<>>
    BY <1>2 DEF ReadByte, Delivered
  <1>3. CASE rx_buffer # <<>>
    <2>1. rx_buffer' = Tail(rx_buffer) /\ got' = Append(got, Head(rx_buffer))
      BY <1>3 DEF ReadByte
    <2>2. Append(got, Head(rx_buffer)) \o Tail(rx_buffer) = got \o rx_buffer
      BY <1>1, <1>3, HeadMoves
    <2>3. QED
      BY <2>1, <2>2 DEF Delivered
  <1>4. QED
    BY <1>2, <1>3

LEMMA TypedStep == Inv /\ TypedInv /\ [Next]_vars => TypedInv'
  <1> SUFFICES ASSUME Inv, TypedInv, [Next]_vars PROVE TypedInv'
    OBVIOUS
  <1>1. RxTypes
    BY DEF Inv
  <1>2. CASE ReceiveByte \/ ReceiveIdle \/ ReceiveError
    BY <1>1, <1>2, ReceiverTyped
  <1>3. CASE ReadByte
    <2>1. UNCHANGED <<RxState, RX_DMA_buffer, typed>>
      BY <1>3 DEF ReadByte, reception
    <2>2. QED
      BY <1>1, <1>3, <2>1, ReadKeepsDelivered, TypedAside
  <1>4. CASE UNCHANGED <<RxState, RX_DMA_buffer, typed, got, rx_buffer>>
    BY <1>4, TypedAside DEF Delivered
  <1>5. QED
    <2>1. \A p \in Printers : PutTxData(p) =>
              UNCHANGED <<RxState, RX_DMA_buffer, typed, got, rx_buffer>>
      BY DEF PutTxData, Take, Write, Check, ReadChunk, TestState, TakeLock, StartTransfer,
             DisableHalf, Delay, rxvars, reception, ring
    <2>2. \A p \in Printers : PrintBytes(p) =>
              UNCHANGED <<RxState, RX_DMA_buffer, typed, got, rx_buffer>>
      BY DEF PrintBytes, rxvars, reception, ring
    <2>3. Transmitter => UNCHANGED <<RxState, RX_DMA_buffer, typed, got, rx_buffer>>
      BY DEF Transmitter, SendByte, TxCplt, rxvars, reception, ring
    <2>4. TakeRead \/ Echoed \/ Stopped \/ UNCHANGED vars =>
              UNCHANGED <<RxState, RX_DMA_buffer, typed, got, rx_buffer>>
      BY DEF TakeRead, Echoed, Stopped, vars, rxvars, reception, ring
    <2>5. QED
      BY <1>2, <1>3, <1>4, <2>1, <2>2, <2>3, <2>4 DEF Next, Reader

LEMMA TypedInit == Init => TypedInv
  <1> SUFFICES ASSUME Init PROVE TypedInv
    OBVIOUS
  <1>1. Len(RX_DMA_buffer) = 0 /\ Len(Delivered) = 0
    BY DEF Init, Delivered
  <1>2. Base = 0
    <2>1. typed = 0 /\ 0 - 0 = 0
      BY DEF Init
    <2>2. QED
      BY <1>1, <2>1, Zenon DEF Base
  <1>3. QED
    BY <1>1, <1>2 DEF Init, TypedInv, NumberedFrom, AtMostTwice, FirstInOrder, Fresh

\* Typed bytes reach the CLI at most twice, and for the first time in the order
\* of typing, whatever is lost: the half-transfer callback delivers a reception's
\* first half, and the callback that ends the reception delivers all of it again.
THEOREM TypedBytesInOrder == Spec => []TypedInOrder
  <1>1. TypedInv => TypedInOrder
    BY DEF TypedInv, TypedInOrder, AtMostTwice, FirstInOrder
  <1>2. QED
    BY <1>1, TypedInit, TypedStep, InvHolds, PTL DEF Spec
=============================================================================
