-------------------------- MODULE SpiBufferProofs ---------------------------
(***************************************************************************)
(* Ownership of the driver's heap buffers: each is freed once, by its last *)
(* owner, and only copies of dropped serial frames leak.  At the end, what *)
(* is proved of any interleaving is carried over to this build's schedule. *)
(***************************************************************************)
EXTENDS SpiFrameProofs, SpiSched

\* Which buffers are allocated, kind by kind.
HeapInv ==
    /\ \A f \in HostFrames :
          Wbuffer(f) \in heap <=> \/ f \in Elems(to_slave_queue)
                                  \/ \E p \in Procs : pc[p] \in {"enqueue", "reject"} /\ buf[p] = f
    /\ \A p \in Procs : Txbuff(p) \in heap <=> HoldsTxbuff(p)
    /\ \A r \in SlaveFrames :
          Rxbuff(r) \in heap <=> r \in Elems(from_slave_queue) \cup RxbuffSet \cup HandleSet
    /\ \A r \in SlaveFrames : SerialBuf(r) \in heap => r \in dropped
    /\ double_free = {}

BufferInv == RxInv /\ HostInv /\ HeapInv

LEMMA BufferDistinct ==
    /\ \A x, y : Wbuffer(x) = Wbuffer(y) => x = y
    /\ \A x, y : Txbuff(x) = Txbuff(y) => x = y
    /\ \A x, y : Rxbuff(x) = Rxbuff(y) => x = y
    /\ \A x, y : SerialBuf(x) = SerialBuf(y) => x = y
    /\ \A x, y : Wbuffer(x) # Txbuff(y) /\ Wbuffer(x) # Rxbuff(y) /\ Wbuffer(x) # SerialBuf(y)
    /\ \A x, y : Txbuff(x) # Rxbuff(y) /\ Txbuff(x) # SerialBuf(y) /\ Rxbuff(x) # SerialBuf(y)
  BY DEF Wbuffer, Txbuff, Rxbuff, SerialBuf

LEMMA HeapInit == Init => HeapInv
  BY SpiAssumption
     DEF Init, HeapInv, Elems, RxbuffSet, HandleSet, HoldsTxbuff, Procs, Returned

LEMMA HeapStep == BufferInv /\ [Next]_vars => HeapInv'
  <1> SUFFICES ASSUME BufferInv, [Next]_vars PROVE HeapInv'
    OBVIOUS
  <1>0. /\ TypeQueues /\ TypeTasks /\ TypeSlave /\ LocalsOK /\ BusExclusive
        /\ RxOrder /\ RxSettled /\ HostFramesConserved /\ HeldApart /\ HeapInv
    BY DEF BufferInv, RxInv, HostInv, BusInv, TypeInv, TypeOK
  <1> USE BufferDistinct
  <1>1. ASSUME NEW s \in Senders, NEW f \in HostFrames, Call(s, f) PROVE HeapInv'
    <2>1. /\ pc[s] = "idle" /\ s \in Procs /\ buf' = [buf EXCEPT ![s] = f]
          /\ pc' = [pc EXCEPT ![s] = "enqueue"] \/ pc' = [pc EXCEPT ![s] = "reject"]
          /\ heap' = heap \cup {Wbuffer(f)} /\ double_free' = double_free
          /\ UNCHANGED <<to_slave_queue, from_slave_queue, dropped>>
          /\ RxbuffSet' = RxbuffSet /\ HandleSet' = HandleSet
      BY <1>1 DEF Call, At, Set, Goto, AllocFree, hist, rx, RxbuffSet, HandleSet, Procs
    <2>2. \A p \in Procs : HoldsTxbuff(p)' <=> HoldsTxbuff(p)
      BY <1>0, <2>1 DEF HoldsTxbuff, TypeTasks
    <2>3. \A g \in HostFrames :
            (\E p \in Procs : pc'[p] \in {"enqueue", "reject"} /\ buf'[p] = g)
            <=> g = f \/ \E p \in Procs : pc[p] \in {"enqueue", "reject"} /\ buf[p] = g
      BY <1>0, <2>1 DEF TypeTasks
    <2>4. QED
      BY <1>0, <2>1, <2>2, <2>3 DEF HeapInv
  <1>2. ASSUME NEW s \in Senders, Reject(s) PROVE HeapInv'
    <2>1. /\ pc[s] = "reject" /\ s \in Procs /\ buf' = [buf EXCEPT ![s] = None]
          /\ buf[s] \in HostFrames /\ buf[s] # None
          /\ pc' = [pc EXCEPT ![s] = "idle"]
          /\ heap' = heap \ {Wbuffer(buf[s])}
          /\ double_free' = double_free \cup ({Wbuffer(buf[s])} \ heap)
          /\ UNCHANGED <<to_slave_queue, from_slave_queue, dropped>>
          /\ RxbuffSet' = RxbuffSet /\ HandleSet' = HandleSet
      BY <1>0, <1>2
         DEF Reject, At, Set, Goto, AllocFree, hist, rx, RxbuffSet, HandleSet, Procs, LocalsOK, TypeTasks
    <2>2. Wbuffer(buf[s]) \in heap /\ buf[s] \notin Elems(to_slave_queue)
      BY <1>0, <2>1 DEF HeapInv, HeldApart, HostFramesConserved
    <2>3. \A p \in Procs : HoldsTxbuff(p)' <=> HoldsTxbuff(p)
      BY <1>0, <2>1 DEF HoldsTxbuff, TypeTasks
    <2>4. \A g \in HostFrames :
            (\E p \in Procs : pc'[p] \in {"enqueue", "reject"} /\ buf'[p] = g)
            <=> g # buf[s] /\ \E p \in Procs : pc[p] \in {"enqueue", "reject"} /\ buf[p] = g
      BY <1>0, <2>1 DEF TypeTasks, HeldApart
    <2>5. QED
      BY <1>0, <2>1, <2>2, <2>3, <2>4 DEF HeapInv
  <1>3. ASSUME NEW s \in Senders, Enqueue(s) PROVE HeapInv'
    <2>1. /\ pc[s] = "enqueue" /\ s \in Procs /\ buf' = [buf EXCEPT ![s] = None]
          /\ buf[s] \in HostFrames /\ buf[s] # None
          /\ pc' = [pc EXCEPT ![s] = "read_handshake"]
          /\ to_slave_queue' = Append(to_slave_queue, buf[s])
          /\ UNCHANGED <<heap, double_free, from_slave_queue, dropped>>
          /\ RxbuffSet' = RxbuffSet /\ HandleSet' = HandleSet
      BY <1>0, <1>3
         DEF Enqueue, At, Set, Goto, mem, hist, rx, RxbuffSet, HandleSet, Procs, LocalsOK, TypeTasks
    <2>2. Elems(to_slave_queue)' = Elems(to_slave_queue) \cup {buf[s]}
      BY <1>0, <2>1, ElemsAppend DEF TypeQueues
    <2>3. \A p \in Procs : HoldsTxbuff(p)' <=> HoldsTxbuff(p)
      BY <1>0, <2>1 DEF HoldsTxbuff, TypeTasks
    <2>4. \A g \in HostFrames :
            (\E p \in Procs : pc'[p] \in {"enqueue", "reject"} /\ buf'[p] = g)
            <=> g # buf[s] /\ \E p \in Procs : pc[p] \in {"enqueue", "reject"} /\ buf[p] = g
      BY <1>0, <2>1 DEF TypeTasks, HeldApart
    <2>5. Wbuffer(buf[s]) \in heap
      BY <1>0, <2>1 DEF HeapInv
    <2>6. QED
      BY <1>0, <2>1, <2>2, <2>3, <2>4, <2>5 DEF HeapInv
  <1>4. ASSUME NEW p \in Procs, GetTxBuffer(p) PROVE HeapInv'
    <2>1. /\ pc[p] = "get_tx_buffer" /\ buf[p] = None
          /\ UNCHANGED <<from_slave_queue, dropped>>
          /\ RxbuffSet' = RxbuffSet /\ HandleSet' = HandleSet
      BY <1>0, <1>4 DEF GetTxBuffer, At, LocalsOK, hist, rx, RxbuffSet, HandleSet
    <2>2. ASSUME to_slave_queue # <<>> PROVE HeapInv'
      <3> DEFINE f == Head(to_slave_queue)
      <3>1. /\ to_slave_queue' = Tail(to_slave_queue) /\ buf' = [buf EXCEPT ![p] = f]
            /\ pc' = [pc EXCEPT ![p] = "take_mutex"]
            /\ heap' = (heap \cup {Txbuff(p)}) \ {Wbuffer(f)}
            /\ double_free' = double_free \cup ({Wbuffer(f)} \ (heap \cup {Txbuff(p)}))
        BY <1>4, <2>2 DEF GetTxBuffer, Received, Set, Goto, AllocFree
      <3>2. /\ Elems(to_slave_queue) = Elems(to_slave_queue)' \cup {f}
            /\ f \notin Elems(to_slave_queue)' /\ f \in HostFrames /\ f # None
        BY <1>0, <2>2, <3>1, ElemsTail, DistinctTail, TailType, SpiAssumption
           DEF HostFramesConserved, TypeQueues
      <3>3. \A q \in Procs : pc[q] \in {"enqueue", "reject"} => buf[q] # f
        BY <1>0, <3>2 DEF HeldApart, HostFramesConserved
      <3>4. \A g \in HostFrames :
              (\E q \in Procs : pc'[q] \in {"enqueue", "reject"} /\ buf'[q] = g)
              <=> \E q \in Procs : pc[q] \in {"enqueue", "reject"} /\ buf[q] = g
        BY <1>0, <2>1, <3>1 DEF TypeTasks
      <3>5. \A q \in Procs : HoldsTxbuff(q)' <=> q = p \/ HoldsTxbuff(q)
        BY <1>0, <3>1, <3>2 DEF HoldsTxbuff, TypeTasks
      <3>6. Wbuffer(f) \in heap
        BY <1>0, <3>2 DEF HeapInv
      <3> HIDE DEF f
      <3>7. QED
        BY <1>0, <2>1, <3>1, <3>2, <3>3, <3>4, <3>5, <3>6 DEF HeapInv
    <2>3. ASSUME to_slave_queue = <<>> PROVE HeapInv'
      <3>1. /\ pc' = [pc EXCEPT ![p] = "take_mutex"] \/ pc' = [pc EXCEPT ![p] = Returned(p)]
            /\ Returned(p) \in {"wait", "idle"}
            /\ UNCHANGED <<to_slave_queue, buf, heap, double_free>>
        BY <1>4, <2>3 DEF GetTxBuffer, Goto, mem, Returned
      <3>2. \A q \in Procs : HoldsTxbuff(q)' <=> HoldsTxbuff(q)
        BY <1>0, <2>1, <3>1 DEF HoldsTxbuff, TypeTasks
      <3>3. \A q \in Procs : pc'[q] \in {"enqueue", "reject"} <=> pc[q] \in {"enqueue", "reject"}
        BY <1>0, <2>1, <3>1 DEF TypeTasks
      <3>4. QED
        BY <1>0, <2>1, <3>1, <3>2, <3>3 DEF HeapInv
    <2>4. QED
      BY <2>2, <2>3
  <1>5. ASSUME NEW p \in Procs, Transfer(p) PROVE HeapInv'
    <2>1. /\ pc[p] = "transfer" /\ buf' = [buf EXCEPT ![p] = None]
          /\ UNCHANGED <<to_slave_queue, from_slave_queue>> /\ HandleSet' = HandleSet
          /\ RxbuffSet = {} /\ dropped \subseteq dropped'
      BY <1>0, <1>5
         DEF Transfer, At, Set, rx, HandleSet, RxbuffSet, BusExclusive, OnBus, LocalsOK
    <2>2. ASSUME slave_armed # None, rxbuff' = Set(rxbuff, p, slave_armed),
                 AllocFree({Rxbuff(slave_armed), Txbuff(p)}, {}), Goto(p, "push")
          PROVE  HeapInv'
      <3>1. /\ heap' = heap \cup {Rxbuff(slave_armed), Txbuff(p)} /\ double_free' = double_free
            /\ pc' = [pc EXCEPT ![p] = "push"] /\ slave_armed \in SlaveFrames
        BY <1>0, <2>2 DEF AllocFree, Goto, TypeSlave
      <3>2. RxbuffSet' = {slave_armed}
        BY <1>0, <2>1, <2>2 DEF RxbuffSet, Set, TypeTasks
      <3>3. \A q \in Procs : HoldsTxbuff(q)' <=> q = p \/ HoldsTxbuff(q)
        BY <1>0, <2>1, <3>1 DEF HoldsTxbuff, TypeTasks
      <3>4. \A g \in HostFrames :
              (\E q \in Procs : pc'[q] \in {"enqueue", "reject"} /\ buf'[q] = g)
              <=> \E q \in Procs : pc[q] \in {"enqueue", "reject"} /\ buf[q] = g
        BY <1>0, <2>1, <3>1 DEF TypeTasks
      <3>5. QED
        BY <1>0, <2>1, <3>1, <3>2, <3>3, <3>4 DEF HeapInv
    <2>3. ASSUME AllocFree({Txbuff(p)}, {Txbuff(p)}), UNCHANGED rxbuff, Goto(p, "give_mutex")
          PROVE  HeapInv'
      <3>1. /\ heap' = heap \ {Txbuff(p)} /\ double_free' = double_free
            /\ pc' = [pc EXCEPT ![p] = "give_mutex"] /\ RxbuffSet' = RxbuffSet
        BY <2>3 DEF AllocFree, Goto, RxbuffSet
      <3>2. \A q \in Procs : HoldsTxbuff(q)' <=> q # p /\ HoldsTxbuff(q)
        BY <1>0, <2>1, <3>1 DEF HoldsTxbuff, TypeTasks
      <3>3. \A g \in HostFrames :
              (\E q \in Procs : pc'[q] \in {"enqueue", "reject"} /\ buf'[q] = g)
              <=> \E q \in Procs : pc[q] \in {"enqueue", "reject"} /\ buf[q] = g
        BY <1>0, <2>1, <3>1 DEF TypeTasks
      <3>4. QED
        BY <1>0, <2>1, <3>1, <3>2, <3>3 DEF HeapInv
    <2>4. QED
      BY <1>5, <2>2, <2>3 DEF Transfer, FreedWithoutPush
  <1>6. ASSUME NEW p \in Procs, Push(p) PROVE HeapInv'
    <2>1. /\ pc[p] = "push" /\ pc' = [pc EXCEPT ![p] = "give_mutex"]
          /\ RxbuffSet = {rxbuff[p]} /\ rxbuff[p] \in SlaveFrames
          /\ heap' = heap \ {Txbuff(p)} /\ double_free' = double_free \cup ({Txbuff(p)} \ heap)
          /\ from_slave_queue' = Append(from_slave_queue, rxbuff[p])
          /\ HandleSet' = HandleSet
          /\ UNCHANGED <<buf, to_slave_queue, dropped>>
      BY <1>0, <1>6
         DEF Push, At, Goto, AllocFree, FreedAfterPush, rx, hist, HandleSet, RxbuffSet,
             BusExclusive, OnBus, LocalsOK, TypeTasks
    <2>2. RxbuffSet' = {}
      BY <1>0, <1>6, <2>1 DEF Push, Set, BusExclusive, OnBus, LocalsOK, RxbuffSet, TypeTasks
    <2>3. Elems(from_slave_queue)' = Elems(from_slave_queue) \cup {rxbuff[p]}
      BY <1>0, <2>1, ElemsAppend DEF TypeQueues
    <2>4. \A q \in Procs : HoldsTxbuff(q)' <=> q # p /\ HoldsTxbuff(q)
      BY <1>0, <2>1 DEF HoldsTxbuff, TypeTasks
    <2>5. \A q \in Procs : pc'[q] \in {"enqueue", "reject"} <=> pc[q] \in {"enqueue", "reject"}
      BY <1>0, <2>1 DEF TypeTasks
    <2>6. Txbuff(p) \in heap
      BY <1>0, <2>1 DEF HeapInv, HoldsTxbuff
    <2>7. QED
      BY <1>0, <2>1, <2>2, <2>3, <2>4, <2>5, <2>6 DEF HeapInv
  <1>7. CASE RxReceive
    <2>1. /\ from_slave_queue # <<>> /\ from_slave_queue' = Tail(from_slave_queue)
          /\ rx_handle' = Head(from_slave_queue) /\ HandleSet = {}
          /\ RxbuffSet' = RxbuffSet
          /\ UNCHANGED <<pc, buf, to_slave_queue, heap, double_free, dropped>>
      BY <1>0, <1>7 DEF RxReceive, Received, local, mem, hist, HandleSet, RxbuffSet, LocalsOK
    <2>2. /\ Elems(from_slave_queue) = Elems(from_slave_queue)' \cup {Head(from_slave_queue)}
          /\ HandleSet' = {Head(from_slave_queue)}
      <3>1. Head(from_slave_queue) \in SlaveFrames
        BY <1>0, <2>1 DEF TypeQueues
      <3>2. Head(from_slave_queue) # None
        BY <3>1, SlaveFrameNat, SpiAssumption
      <3>3. Elems(Tail(from_slave_queue)) = Elems(from_slave_queue)'
        BY <2>1 DEF Elems
      <3>4. Elems(from_slave_queue) = Elems(Tail(from_slave_queue)) \cup {Head(from_slave_queue)}
        BY <1>0, <2>1, ElemsTail DEF TypeQueues
      <3>5. QED
        BY <2>1, <3>2, <3>3, <3>4 DEF HandleSet
    <2>3. QED
      BY <1>0, <2>1, <2>2 DEF HeapInv, HoldsTxbuff
  <1>8. CASE RxProcess
    <2>1. /\ rx_handle \in SlaveFrames
          /\ UNCHANGED <<pc, buf, to_slave_queue, from_slave_queue>>
          /\ HandleSet' = HandleSet /\ RxbuffSet' = RxbuffSet
      BY <1>0, <1>8 DEF RxProcess, local, HandleSet, RxbuffSet, LocalsOK, TypeTasks
    <2>2. \/ UNCHANGED mem /\ dropped \subseteq dropped'
          \/ AllocFree({SerialBuf(rx_handle)}, {}) /\ dropped' = dropped \cup {rx_handle}
      BY <1>8 DEF RxProcess, RxSerial, RxNet, RxPrivInit, Delivers, Drops
    <2>3. QED
      BY <1>0, <2>1, <2>2 DEF HeapInv, HoldsTxbuff, AllocFree, mem
  <1>9. CASE RxFree
    <2>1. /\ HandleSet = {rx_handle} /\ HandleSet' = {} /\ rx_handle \in SlaveFrames
          /\ heap' = heap \ {Rxbuff(rx_handle)}
          /\ double_free' = double_free \cup ({Rxbuff(rx_handle)} \ heap)
          /\ RxbuffSet' = RxbuffSet
          /\ UNCHANGED <<pc, buf, to_slave_queue, from_slave_queue, dropped>>
      BY <1>0, <1>9 DEF RxFree, AllocFree, local, hist, HandleSet, RxbuffSet, LocalsOK, TypeTasks
    <2>2. rx_handle \notin Elems(from_slave_queue) \cup RxbuffSet
      <3>1. \A r \in BehindHandle : rx_handle < r
        BY <1>0, <2>1 DEF RxOrder, Before
      <3>2. ~(rx_handle < rx_handle)
        BY <2>1, SlaveFrameNat
      <3>3. QED
        BY <3>1, <3>2 DEF BehindHandle
    <2>3. QED
      BY <1>0, <2>1, <2>2 DEF HeapInv, HoldsTxbuff
  <1>10. ASSUME NEW p \in Procs, TakeMutex(p) PROVE HeapInv'
    <2>1. /\ pc[p] = "take_mutex" /\ pc' = [pc EXCEPT ![p] = "transfer"]
          /\ RxbuffSet' = RxbuffSet /\ HandleSet' = HandleSet
          /\ UNCHANGED <<buf, to_slave_queue, from_slave_queue, heap, double_free, dropped>>
      BY <1>10 DEF TakeMutex, At, Goto, mem, rx, hist, RxbuffSet, HandleSet
    <2>2. \A q \in Procs : /\ HoldsTxbuff(q)' <=> HoldsTxbuff(q)
                           /\ pc'[q] \in {"enqueue", "reject"} <=> pc[q] \in {"enqueue", "reject"}
      BY <1>0, <2>1 DEF HoldsTxbuff, TypeTasks
    <2>3. QED
      BY <1>0, <2>1, <2>2 DEF HeapInv
  <1>11. ASSUME NEW p \in Procs,
                NEW l \in {"idle", "wait", "read_handshake", "read_data_ready", "get_tx_buffer"},
                pc[p] \in {"wait", "read_handshake", "read_data_ready", "give_mutex"},
                pc' = [pc EXCEPT ![p] = l],
                UNCHANGED <<to_slave_queue, from_slave_queue, buf, rxbuff, rx, mem, hist>>
         PROVE  HeapInv'
    <2>1. \A q \in Procs : /\ HoldsTxbuff(q)' <=> HoldsTxbuff(q)
                           /\ pc'[q] \in {"enqueue", "reject"} <=> pc[q] \in {"enqueue", "reject"}
      BY <1>0, <1>11 DEF HoldsTxbuff, TypeTasks
    <2>2. RxbuffSet' = RxbuffSet /\ HandleSet' = HandleSet
      BY <1>11 DEF rx, RxbuffSet, HandleSet
    <2>3. QED
      BY <1>0, <1>11, <2>1, <2>2 DEF HeapInv, mem, hist
  <1>12. ASSUME NEW p \in Procs, ReadHandshake(p) \/ ReadDataReady(p) \/ GiveMutex(p)
         PROVE  HeapInv'
    <2>1. CASE ReadHandshake(p)
      BY <1>11, <2>1 DEF ReadHandshake, At, Goto, Returned
    <2>2. CASE ReadDataReady(p)
      BY <1>11, <2>2 DEF ReadDataReady, At, Goto
    <2>3. CASE GiveMutex(p)
      BY <1>11, <2>3 DEF GiveMutex, At, Goto, Returned
    <2>4. QED
      BY <1>12, <2>1, <2>2, <2>3
  <1>13. CASE WaitSemaphore
    BY <1>11, <1>13 DEF WaitSemaphore, At, Goto, Procs
  <1>14. CASE Isr \/ SlaveSend \/ SlaveArm \/ UNCHANGED vars
    <2>1. UNCHANGED <<local, rx, mem, to_slave_queue, from_slave_queue, dropped>>
      BY <1>14 DEF Isr, SlaveSend, SlaveArm, vars, hist
    <2>2. QED
      BY <1>0, <2>1 DEF HeapInv, HoldsTxbuff, RxbuffSet, HandleSet, local, rx, mem
  <1>15. QED
    BY <1>1, <1>2, <1>3, <1>4, <1>5, <1>6, <1>7, <1>8, <1>9, <1>10, <1>12, <1>13, <1>14
       DEF Next, SendToSlave, CheckAndExecute, TransactionTask, RxTask, Idle, Procs

LEMMA OwnershipFromHeap ==
    BufferInv => NoDanglingBuffer /\ OnlySerialCopiesLeak
  <1> SUFFICES ASSUME BufferInv PROVE NoDanglingBuffer /\ OnlySerialCopiesLeak
    OBVIOUS
  <1>0. TypeQueues /\ TypeTasks /\ TypeHeap /\ LocalsOK /\ HeapInv
    BY DEF BufferInv, HostInv, TypeInv, TypeOK
  <1>1. Owned \subseteq heap
    <2>1. \A f \in Elems(to_slave_queue) : f \in HostFrames
      BY <1>0, ElemsType DEF TypeQueues
    <2>2. \A r \in Elems(from_slave_queue) \cup HandleSet : r \in SlaveFrames
      BY <1>0, ElemsType DEF TypeQueues, HandleSet, TypeTasks
    <2>3. \A p \in Procs : pc[p] \in {"enqueue", "reject"} => buf[p] \in HostFrames
      BY <1>0 DEF LocalsOK, TypeTasks
    <2>4. \A p \in Procs : pc[p] = "push" => rxbuff[p] \in SlaveFrames /\ rxbuff[p] \in RxbuffSet
      BY <1>0 DEF LocalsOK, TypeTasks, RxbuffSet
    <2>5. /\ \A f \in Elems(to_slave_queue) : Wbuffer(f) \in heap
          /\ \A p \in Procs : pc[p] \in {"enqueue", "reject"} => Wbuffer(buf[p]) \in heap
          /\ \A p \in Procs : HoldsTxbuff(p) => Txbuff(p) \in heap
          /\ \A p \in Procs : pc[p] = "push" => Rxbuff(rxbuff[p]) \in heap
          /\ \A r \in Elems(from_slave_queue) \cup HandleSet : Rxbuff(r) \in heap
      BY <1>0, <2>1, <2>2, <2>3, <2>4 DEF HeapInv
    <2>6. QED
      BY <2>5 DEF Owned, HandleSet
  <1>2. ASSUME NEW b \in heap, b \notin Owned PROVE b \in {SerialBuf(r) : r \in dropped}
    <2>1. \/ \E f \in HostFrames : b = Wbuffer(f)
          \/ \E p \in Procs : b = Txbuff(p)
          \/ \E r \in SlaveFrames : b = Rxbuff(r) \/ b = SerialBuf(r)
      BY <1>0 DEF TypeHeap, Buffers, Wbuffer, Txbuff, Rxbuff, SerialBuf
    <2>2. ASSUME NEW f \in HostFrames, b = Wbuffer(f) PROVE b \in Owned
      BY <1>0, <1>2, <2>2 DEF HeapInv, Owned
    <2>3. ASSUME NEW p \in Procs, b = Txbuff(p) PROVE b \in Owned
      BY <1>0, <1>2, <2>3 DEF HeapInv, Owned
    <2>4. ASSUME NEW r \in SlaveFrames, b = Rxbuff(r) PROVE b \in Owned
      <3>1. r \in Elems(from_slave_queue) \cup RxbuffSet \cup HandleSet
        BY <1>0, <1>2, <2>4 DEF HeapInv
      <3>2. r \in RxbuffSet => \E p \in Procs : pc[p] = "push" /\ rxbuff[p] = r
        BY <1>0 DEF RxbuffSet, LocalsOK
      <3>3. QED
        BY <2>4, <3>1, <3>2 DEF Owned, HandleSet
    <2>5. ASSUME NEW r \in SlaveFrames, b = SerialBuf(r) PROVE r \in dropped
      BY <1>0, <1>2, <2>5 DEF HeapInv
    <2>6. QED
      BY <1>2, <2>1, <2>2, <2>3, <2>4, <2>5
  <1>3. QED
    BY <1>0, <1>1, <1>2 DEF NoDanglingBuffer, OnlySerialCopiesLeak, HeapInv

LEMMA BufferInductive == Spec => []BufferInv
  <1>1. Init => BufferInv
    BY TypeInit, BusInit, RxInit, HostInit, HeapInit DEF BufferInv, RxInv, BusInv, HostInv
  <1>2. BufferInv /\ [Next]_vars => BufferInv'
    BY TypeStep, BusStep, RxStep, HostStep, HeapStep DEF BufferInv, RxInv, BusInv, HostInv
  <1>3. QED
    BY <1>1, <1>2, PTL DEF Spec

\* No buffer is freed twice and none that a queue or a local variable of the
\* driver still points to has been freed, in any interleaving of the tasks.
THEOREM NoBufferDangles == Spec => []NoDanglingBuffer
  <1>1. BufferInv => NoDanglingBuffer
    BY OwnershipFromHeap
  <1>2. QED
    BY <1>1, BufferInductive, PTL

\* Whatever is allocated and no longer referenced is the copy of a serial frame
\* that serial_rx_handler refused (spi_drv.c:789): nothing else leaks.
THEOREM NothingElseLeaks == Spec => []OnlySerialCopiesLeak
  <1>1. BufferInv => OnlySerialCopiesLeak
    BY OwnershipFromHeap
  <1>2. QED
    BY <1>1, BufferInductive, PTL

--------------------------------------------------------------------------------
(* The scheduler of this build only leaves steps out. *)

LEMMA SchedStep == SchedNext => Next
  <1> SUFFICES ASSUME SchedNext PROVE Next
    OBVIOUS
  <1>1. CASE \E s \in Senders : SchedSender(s)
    BY <1>1 DEF SchedSender, Next
  <1>2. CASE \E s \in Senders : exti = {} /\ SenderRuns(s) /\ \E f \in HostFrames : Call(s, f)
    BY <1>2 DEF Next
  <1>3. CASE SchedTransactionTask
    BY <1>3 DEF SchedTransactionTask, Next
  <1>4. CASE SchedRxTask
    BY <1>4 DEF SchedRxTask, Next
  <1>5. CASE Isr \/ SlaveSend \/ SlaveArm \/ Idle
    BY <1>5 DEF Next
  <1>6. QED
    BY <1>1, <1>2, <1>3, <1>4, <1>5 DEF SchedNext

\* With FreeRTOS's fixed priorities, preemption and priority inheritance the driver
\* does nothing it would not do with tasks scheduled at will.
THEOREM ScheduleImplementsDriver == SchedSpec => Spec
  BY SchedStep, PTL DEF SchedSpec, Spec

\* So the driver of this build implements SpiLink, strands no frame, runs one
\* transaction at a time, and frees each buffer once, also under the fairness
\* that its liveness properties assume.
THEOREM ScheduledDriverIsSafe ==
    FairSpec => /\ ImplementsLink
                /\ []BusExclusive /\ []NoStrandedFrame /\ []HostFramesConserved
                /\ []OnlyFramesInHandOvertaken
                /\ []NoDanglingBuffer /\ []OnlySerialCopiesLeak
  <1>1. FairSpec => Spec
    BY ScheduleImplementsDriver DEF FairSpec
  <1>2. QED
    BY <1>1, LinkImplemented, MutualExclusion, NoFrameStranded, FramesConserved,
       OnlyHandsOvertake, NoBufferDangles, NothingElseLeaks
=============================================================================
