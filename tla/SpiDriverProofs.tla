-------------------------- MODULE SpiDriverProofs ---------------------------
(***************************************************************************)
(* Proofs about SpiDriver for any number of senders, frames and queue      *)
(* slots, under any scheduling.                                            *)
(***************************************************************************)
EXTENDS SpiDriver, TLAPS

\* What a process holds at each point of its code.
LocalsOK ==
    /\ \A p \in Procs : pc[p] \in {"wait"} => p = transaction_task
    /\ \A p \in Procs : pc[p] \in {"idle", "enqueue", "reject"} => p \in Senders
    /\ \A p \in Procs : pc[p] \in {"enqueue", "reject"} => buf[p] # None
    /\ \A p \in Procs : buf[p] # None
                          => pc[p] \in {"enqueue", "reject", "take_mutex", "transfer"}
    /\ \A p \in Procs : rxbuff[p] # None <=> pc[p] = "push"
    /\ rx_handle # None <=> rx_pc # "receive"

TypeInv == TypeOK /\ LocalsOK

-----------------------------------------------------------------------------
(* Sequences and buffers. *)

LEMMA AppendType ==
    ASSUME NEW S, NEW q \in Seq(S), NEW x \in S
    PROVE  Append(q, x) \in Seq(S) /\ Len(Append(q, x)) = Len(q) + 1
  OBVIOUS

LEMMA TailType ==
    ASSUME NEW S, NEW q \in Seq(S), q # <<>>
    PROVE  Head(q) \in S /\ Tail(q) \in Seq(S) /\ Len(Tail(q)) = Len(q) - 1 /\ Len(q) \in Nat \ {0}
  OBVIOUS

LEMMA BufferTypes ==
    /\ \A f \in HostFrames : Wbuffer(f) \in Buffers
    /\ \A p \in Procs : Txbuff(p) \in Buffers
    /\ \A r \in SlaveFrames : Rxbuff(r) \in Buffers /\ SerialBuf(r) \in Buffers
  BY DEF Buffers, Wbuffer, Txbuff, Rxbuff, SerialBuf

LEMMA AllocFreeType ==
    ASSUME NEW A \in SUBSET Buffers, NEW F \in SUBSET Buffers, AllocFree(A, F),
           heap \subseteq Buffers, double_free \subseteq Buffers
    PROVE  heap' \subseteq Buffers /\ double_free' \subseteq Buffers
  BY DEF AllocFree

LEMMA SlaveFrameNat == SlaveFrames \subseteq Nat /\ Len(IfType) \in Nat
  BY SpiAssumption DEF SlaveFrames
-----------------------------------------------------------------------------
LEMMA TypeInit == Init => TypeInv
  <1> SUFFICES ASSUME Init PROVE TypeInv
    OBVIOUS
  <1> USE SpiAssumption, SlaveFrameNat DEF Init
  <1>1. TypeQueues
    BY DEF TypeQueues
  <1>2. TypeTasks
    BY DEF TypeTasks, Labels, Returned
  <1>3. TypeHeap
    BY DEF TypeHeap
  <1>4. TypeSlave
    <2>1. slave_queue \in Seq(SlaveFrames)
      OBVIOUS
    <2>2. QED
      BY <2>1 DEF TypeSlave
  <1>5. TypeHistory
    BY DEF TypeHistory
  <1>6. LocalsOK
    BY DEF LocalsOK, Procs, Returned
  <1>7. QED
    BY <1>1, <1>2, <1>3, <1>4, <1>5, <1>6 DEF TypeInv, TypeOK

LEMMA TypeStep == TypeInv /\ [Next]_vars => TypeInv'
  <1> SUFFICES ASSUME TypeInv, [Next]_vars PROVE TypeInv'
    OBVIOUS
  <1> USE SpiAssumption, SlaveFrameNat
      DEF TypeInv, TypeOK, Set, Goto, At, Returned, hist, slave, rx, local, mem
  <1>1. ASSUME NEW s \in Senders, NEW f \in HostFrames, Call(s, f) PROVE TypeInv'
    <2>1. TypeQueues'
      BY <1>1 DEF Call, TypeQueues
    <2>2. TypeTasks'
      BY <1>1 DEF Call, Labels, TypeQueues, TypeSlave, LocalsOK, TypeTasks
    <2>3. TypeHeap'
      <3>1. {Wbuffer(f)} \in SUBSET Buffers /\ {} \in SUBSET Buffers
        BY BufferTypes
      <3>2. AllocFree({Wbuffer(f)}, {})
        BY <1>1 DEF Call
      <3>3. QED
        BY <3>1, <3>2, AllocFreeType DEF TypeHeap
    <2>4. TypeSlave'
      BY <1>1 DEF Call, TypeSlave
    <2>5. TypeHistory'
      BY <1>1 DEF Call, TypeHistory
    <2>6. LocalsOK'
      BY <1>1 DEF Call, TypeTasks, LocalsOK, Procs
    <2>7. QED
      BY <2>1, <2>2, <2>3, <2>4, <2>5, <2>6
  <1>2. ASSUME NEW s \in Senders, Reject(s) PROVE TypeInv'
    <2>1. TypeQueues'
      BY <1>2 DEF Reject, TypeQueues
    <2>2. TypeTasks'
      BY <1>2 DEF Reject, Labels, TypeQueues, TypeSlave, LocalsOK, TypeTasks
    <2>3. TypeHeap'
      <3>1. {} \in SUBSET Buffers /\ {Wbuffer(buf[s])} \in SUBSET Buffers
        BY BufferTypes, <1>2 DEF Reject, LocalsOK, TypeTasks, Procs
      <3>2. AllocFree({}, {Wbuffer(buf[s])})
        BY <1>2 DEF Reject
      <3>3. QED
        BY <3>1, <3>2, AllocFreeType DEF TypeHeap
    <2>4. TypeSlave'
      BY <1>2 DEF Reject, TypeSlave
    <2>5. TypeHistory'
      BY <1>2 DEF Reject, TypeHistory
    <2>6. LocalsOK'
      BY <1>2 DEF Reject, TypeTasks, LocalsOK, Procs
    <2>7. QED
      BY <2>1, <2>2, <2>3, <2>4, <2>5, <2>6
  <1>3. ASSUME NEW s \in Senders, Enqueue(s) PROVE TypeInv'
    <2>1. TypeQueues'
      <3>1. buf[s] \in HostFrames
        BY <1>3 DEF Enqueue, LocalsOK, TypeTasks, Procs
      <3>2. QED
        BY <3>1, <1>3, AppendType DEF Enqueue, HasRoom, TypeQueues
    <2>2. TypeTasks'
      BY <1>3 DEF Enqueue, HasRoom, Labels, TypeQueues, TypeSlave, LocalsOK, TypeTasks
    <2>3. TypeHeap'
      BY <1>3 DEF Enqueue, HasRoom, TypeHeap
    <2>4. TypeSlave'
      BY <1>3 DEF Enqueue, HasRoom, TypeSlave
    <2>5. TypeHistory'
      <3>1. buf[s] \in HostFrames
        BY <1>3 DEF Enqueue, LocalsOK, TypeTasks, Procs
      <3>2. QED
        BY <3>1, <1>3, AppendType DEF Enqueue, TypeHistory
    <2>6. LocalsOK'
      BY <1>3 DEF Enqueue, HasRoom, TypeTasks, LocalsOK, Procs
    <2>7. QED
      BY <2>1, <2>2, <2>3, <2>4, <2>5, <2>6
  <1>4. CASE WaitSemaphore
    <2>1. TypeQueues'
      BY <1>4 DEF WaitSemaphore, TypeQueues
    <2>2. TypeTasks'
      BY <1>4 DEF WaitSemaphore, Labels, TypeQueues, TypeSlave, LocalsOK, TypeTasks
    <2>3. TypeHeap'
      BY <1>4 DEF WaitSemaphore, TypeHeap
    <2>4. TypeSlave'
      BY <1>4 DEF WaitSemaphore, TypeSlave
    <2>5. TypeHistory'
      BY <1>4 DEF WaitSemaphore, TypeHistory
    <2>6. LocalsOK'
      BY <1>4 DEF WaitSemaphore, TypeTasks, LocalsOK, Procs
    <2>7. QED
      BY <2>1, <2>2, <2>3, <2>4, <2>5, <2>6
  <1>5. ASSUME NEW p \in Procs, ReadHandshake(p) PROVE TypeInv'
    <2>1. TypeQueues'
      BY <1>5 DEF ReadHandshake, TypeQueues
    <2>2. TypeTasks'
      BY <1>5 DEF ReadHandshake, Labels, TypeQueues, TypeSlave, LocalsOK, TypeTasks
    <2>3. TypeHeap'
      BY <1>5 DEF ReadHandshake, TypeHeap
    <2>4. TypeSlave'
      BY <1>5 DEF ReadHandshake, TypeSlave
    <2>5. TypeHistory'
      BY <1>5 DEF ReadHandshake, TypeHistory
    <2>6. LocalsOK'
      BY <1>5 DEF ReadHandshake, TypeTasks, LocalsOK, Procs
    <2>7. QED
      BY <2>1, <2>2, <2>3, <2>4, <2>5, <2>6
  <1>6. ASSUME NEW p \in Procs, ReadDataReady(p) PROVE TypeInv'
    <2>1. TypeQueues'
      BY <1>6 DEF ReadDataReady, TypeQueues
    <2>2. TypeTasks'
      BY <1>6 DEF ReadDataReady, Labels, TypeQueues, TypeSlave, LocalsOK, TypeTasks
    <2>3. TypeHeap'
      BY <1>6 DEF ReadDataReady, TypeHeap
    <2>4. TypeSlave'
      BY <1>6 DEF ReadDataReady, TypeSlave
    <2>5. TypeHistory'
      BY <1>6 DEF ReadDataReady, TypeHistory
    <2>6. LocalsOK'
      BY <1>6 DEF ReadDataReady, TypeTasks, LocalsOK, Procs
    <2>7. QED
      BY <2>1, <2>2, <2>3, <2>4, <2>5, <2>6
  <1>7. ASSUME NEW p \in Procs, GetTxBuffer(p) PROVE TypeInv'
    <2>0. to_slave_queue # <<>> => /\ Head(to_slave_queue) \in HostFrames
                                   /\ Tail(to_slave_queue) \in Seq(HostFrames)
                                   /\ Len(Tail(to_slave_queue)) <= TO_SLAVE_QUEUE_SIZE
      BY TailType DEF TypeQueues
    <2>1. TypeQueues'
      BY <2>0, <1>7 DEF GetTxBuffer, Received, TypeQueues
    <2>2. TypeTasks'
      <3>1. CASE to_slave_queue # <<>>
        BY <3>1, <2>0, <1>7, SMTT(30) DEF GetTxBuffer, Labels, TypeTasks
      <3>2. CASE to_slave_queue = <<>>
        BY <3>2, <1>7 DEF GetTxBuffer, Labels, TypeTasks
      <3>3. QED
        BY <3>1, <3>2
    <2>3. TypeHeap'
      <3>1. CASE to_slave_queue # <<>>
        <4>1. AllocFree({Txbuff(p)}, {Wbuffer(Head(to_slave_queue))})
          BY <3>1, <1>7 DEF GetTxBuffer
        <4>2. {Txbuff(p)} \in SUBSET Buffers /\ {Wbuffer(Head(to_slave_queue))} \in SUBSET Buffers
          BY <3>1, <2>0, BufferTypes
        <4>3. QED
          BY <4>1, <4>2, AllocFreeType DEF TypeHeap
      <3>2. CASE to_slave_queue = <<>>
        BY <3>2, <1>7 DEF GetTxBuffer, TypeHeap
      <3>3. QED
        BY <3>1, <3>2
    <2>4. TypeSlave'
      BY <1>7 DEF GetTxBuffer, Received, TypeSlave
    <2>5. TypeHistory'
      BY <1>7 DEF GetTxBuffer, Received, TypeHistory
    <2>6. LocalsOK'
      BY <1>7 DEF GetTxBuffer, Received, TypeTasks, LocalsOK, Procs
    <2>7. QED
      BY <2>1, <2>2, <2>3, <2>4, <2>5, <2>6
  <1>8. ASSUME NEW p \in Procs, TakeMutex(p) PROVE TypeInv'
    <2>1. TypeQueues'
      BY <1>8 DEF TakeMutex, TypeQueues
    <2>2. TypeTasks'
      BY <1>8 DEF TakeMutex, Labels, TypeQueues, TypeSlave, LocalsOK, TypeTasks
    <2>3. TypeHeap'
      BY <1>8 DEF TakeMutex, TypeHeap
    <2>4. TypeSlave'
      BY <1>8 DEF TakeMutex, TypeSlave
    <2>5. TypeHistory'
      BY <1>8 DEF TakeMutex, TypeHistory
    <2>6. LocalsOK'
      BY <1>8 DEF TakeMutex, TypeTasks, LocalsOK, Procs
    <2>7. QED
      BY <2>1, <2>2, <2>3, <2>4, <2>5, <2>6
  <1>9. ASSUME NEW p \in Procs, Transfer(p) PROVE TypeInv'
    <2>1. TypeQueues'
      BY <1>9 DEF Transfer, TypeQueues
    <2>2. TypeTasks'
      <3>1. CASE slave_armed # None /\ rxbuff' = Set(rxbuff, p, slave_armed) /\ Goto(p, "push")
        BY <3>1, <1>9 DEF Transfer, Labels, TypeSlave, TypeTasks
      <3>2. CASE UNCHANGED rxbuff /\ Goto(p, "give_mutex")
        BY <3>2, <1>9 DEF Transfer, Labels, TypeTasks
      <3>3. QED
        BY <3>1, <3>2, <1>9 DEF Transfer
    <2>3. TypeHeap'
      <3>1. CASE slave_armed # None /\ AllocFree({Rxbuff(slave_armed), Txbuff(p)}, {})
        <4>1. {Rxbuff(slave_armed), Txbuff(p)} \in SUBSET Buffers /\ {} \in SUBSET Buffers
          BY <3>1, BufferTypes DEF TypeSlave
        <4>2. QED
          BY <3>1, <4>1, AllocFreeType DEF TypeHeap
      <3>2. CASE AllocFree({Txbuff(p)}, {Txbuff(p)})
        <4>1. {Txbuff(p)} \in SUBSET Buffers
          BY BufferTypes
        <4>2. QED
          BY <3>2, <4>1, AllocFreeType DEF TypeHeap
      <3>3. QED
        BY <3>1, <3>2, <1>9 DEF Transfer, FreedWithoutPush
    <2>4. TypeSlave'
      BY <1>9 DEF Transfer, SlaveClocked, TypeHistory, TypeSlave
    <2>5. TypeHistory'
      <3>1. dropped' \subseteq SlaveFrames
        BY <1>9 DEF Transfer, Optional, TypeSlave, TypeHistory
      <3>2. wire' \in Seq(HostFrames) /\ lost' \subseteq HostFrames
        <4>1. CASE buf[p] # None /\ wire' = Append(wire, buf[p]) /\ UNCHANGED lost
          BY <4>1, AppendType DEF TypeTasks, TypeHistory
        <4>2. CASE lost' = lost \cup Optional({buf[p]}, buf[p]) /\ UNCHANGED wire
          BY <4>2 DEF Optional, TypeTasks, TypeHistory
        <4>3. QED
          BY <4>1, <4>2, <1>9 DEF Transfer, HostFrameOutcome
      <3>3. QED
        BY <3>1, <3>2, <1>9 DEF Transfer, TypeHistory
    <2>6. LocalsOK'
      BY <1>9 DEF Transfer, SlaveClocked, TypeTasks, LocalsOK, Procs
    <2>7. QED
      BY <2>1, <2>2, <2>3, <2>4, <2>5, <2>6
  <1>10. ASSUME NEW p \in Procs, Push(p) PROVE TypeInv'
    <2>1. TypeQueues'
      BY AppendType, <1>10 DEF Push, HasRoom, FreedAfterPush, TypeTasks, LocalsOK, TypeQueues
    <2>2. TypeTasks'
      BY <1>10 DEF Push, HasRoom, FreedAfterPush, Labels, TypeQueues, TypeSlave, LocalsOK, TypeTasks
    <2>3. TypeHeap'
      BY BufferTypes, AllocFreeType, ZenonT(40), <1>10 DEF Push, HasRoom, FreedAfterPush, TypeTasks, TypeQueues, TypeSlave, LocalsOK, TypeHeap
    <2>4. TypeSlave'
      BY <1>10 DEF Push, HasRoom, FreedAfterPush, TypeSlave
    <2>5. TypeHistory'
      BY <1>10 DEF Push, HasRoom, FreedAfterPush, TypeHistory
    <2>6. LocalsOK'
      BY <1>10 DEF Push, HasRoom, FreedAfterPush, TypeTasks, LocalsOK, Procs
    <2>7. QED
      BY <2>1, <2>2, <2>3, <2>4, <2>5, <2>6
  <1>11. ASSUME NEW p \in Procs, GiveMutex(p) PROVE TypeInv'
    <2>1. TypeQueues'
      BY <1>11 DEF GiveMutex, OwnerAfterGive, TypeQueues
    <2>2. TypeTasks'
      BY <1>11 DEF GiveMutex, OwnerAfterGive, Labels, TypeQueues, TypeSlave, LocalsOK, TypeTasks
    <2>3. TypeHeap'
      BY <1>11 DEF GiveMutex, OwnerAfterGive, TypeHeap
    <2>4. TypeSlave'
      BY <1>11 DEF GiveMutex, OwnerAfterGive, TypeSlave
    <2>5. TypeHistory'
      BY <1>11 DEF GiveMutex, OwnerAfterGive, TypeHistory
    <2>6. LocalsOK'
      BY <1>11 DEF GiveMutex, OwnerAfterGive, TypeTasks, LocalsOK, Procs
    <2>7. QED
      BY <2>1, <2>2, <2>3, <2>4, <2>5, <2>6
  <1>12. CASE RxReceive
    <2>1. TypeQueues'
      BY TailType, <1>12 DEF RxReceive, Received, TypeTasks, LocalsOK, TypeQueues
    <2>2. TypeTasks'
      BY TailType, <1>12 DEF RxReceive, Received, Labels, TypeQueues, TypeSlave, LocalsOK, TypeTasks
    <2>3. TypeHeap'
      BY <1>12 DEF RxReceive, Received, TypeHeap
    <2>4. TypeSlave'
      BY <1>12 DEF RxReceive, Received, TypeSlave
    <2>5. TypeHistory'
      BY <1>12 DEF RxReceive, Received, TypeHistory
    <2>6. LocalsOK'
      <3>1. Head(from_slave_queue) # None
        BY <1>12, TailType DEF RxReceive, TypeQueues
      <3>2. QED
        BY <3>1, <1>12 DEF RxReceive, LocalsOK, Procs
    <2>7. QED
      BY <2>1, <2>2, <2>3, <2>4, <2>5, <2>6
  <1>13. CASE RxProcess
    <2>1. TypeQueues'
      BY <1>13 DEF RxProcess, RxSerial, RxNet, RxPrivInit, Delivers, Drops, TypeTasks, LocalsOK, TypeQueues
    <2>2. TypeTasks'
      BY <1>13 DEF RxProcess, RxSerial, RxNet, RxPrivInit, Delivers, Drops, Labels, TypeQueues, TypeSlave, LocalsOK, TypeTasks
    <2>3. TypeHeap'
      <3>1. CASE AllocFree({SerialBuf(rx_handle)}, {}) /\ rx_handle \in SlaveFrames
        <4>1. {SerialBuf(rx_handle)} \in SUBSET Buffers /\ {} \in SUBSET Buffers
          BY <3>1, BufferTypes
        <4>2. QED
          BY <3>1, <4>1, AllocFreeType DEF TypeHeap
      <3>2. CASE UNCHANGED mem
        BY <3>2 DEF TypeHeap
      <3>3. rx_handle \in SlaveFrames
        BY <1>13 DEF RxProcess, LocalsOK, TypeTasks
      <3>4. QED
        BY <3>1, <3>2, <3>3, <1>13 DEF RxProcess, RxSerial, RxNet, RxPrivInit
    <2>4. TypeSlave'
      BY <1>13 DEF RxProcess, RxSerial, RxNet, RxPrivInit, Delivers, Drops, TypeHistory, TypeSlave
    <2>5. TypeHistory'
      BY <1>13 DEF RxProcess, RxSerial, RxNet, RxPrivInit, Delivers, Drops, TypeTasks, TypeSlave, LocalsOK, TypeHistory
    <2>6. LocalsOK'
      BY <1>13 DEF RxProcess, RxSerial, RxNet, RxPrivInit, Delivers, Drops, TypeTasks, LocalsOK, Procs
    <2>7. QED
      BY <2>1, <2>2, <2>3, <2>4, <2>5, <2>6
  <1>14. CASE RxFree
    <2>1. TypeQueues'
      BY <1>14 DEF RxFree, TypeQueues
    <2>2. TypeTasks'
      BY <1>14 DEF RxFree, Labels, TypeQueues, TypeSlave, LocalsOK, TypeTasks
    <2>3. TypeHeap'
      BY BufferTypes, AllocFreeType, <1>14 DEF RxFree, TypeTasks, TypeQueues, TypeSlave, LocalsOK, TypeHeap
    <2>4. TypeSlave'
      BY <1>14 DEF RxFree, TypeSlave
    <2>5. TypeHistory'
      BY <1>14 DEF RxFree, TypeHistory
    <2>6. LocalsOK'
      BY <1>14 DEF RxFree, TypeTasks, LocalsOK, Procs
    <2>7. QED
      BY <2>1, <2>2, <2>3, <2>4, <2>5, <2>6
  <1>15. CASE Isr
    <2>1. TypeQueues'
      BY <1>15 DEF Isr, GivesSemaphore, TypeQueues
    <2>2. TypeTasks'
      BY <1>15 DEF Isr, GivesSemaphore, Labels, TypeQueues, TypeSlave, LocalsOK, TypeTasks
    <2>3. TypeHeap'
      BY <1>15 DEF Isr, GivesSemaphore, TypeHeap
    <2>4. TypeSlave'
      BY <1>15 DEF Isr, GivesSemaphore, TypeSlave
    <2>5. TypeHistory'
      BY <1>15 DEF Isr, GivesSemaphore, TypeHistory
    <2>6. LocalsOK'
      BY <1>15 DEF Isr, GivesSemaphore, TypeTasks, LocalsOK, Procs
    <2>7. QED
      BY <2>1, <2>2, <2>3, <2>4, <2>5, <2>6
  <1>16. CASE SlaveSend
    <2>1. TypeQueues'
      BY <1>16 DEF SlaveSend, TypeTasks, LocalsOK, TypeQueues
    <2>2. TypeTasks'
      BY <1>16 DEF SlaveSend, Labels, TypeQueues, TypeSlave, LocalsOK, TypeTasks
    <2>3. TypeHeap'
      BY <1>16 DEF SlaveSend, TypeTasks, TypeQueues, TypeSlave, LocalsOK, TypeHeap
    <2>4. TypeSlave'
      <3>1. slave_sent + 1 \in SlaveFrames
        BY <1>16 DEF SlaveSend, TypeHistory, SlaveFrames
      <3>2. slave_queue' \in Seq(SlaveFrames)
        BY <3>1, <1>16, AppendType DEF SlaveSend, TypeSlave
      <3>3. QED
        BY <3>2, <1>16 DEF SlaveSend, TypeSlave
    <2>5. TypeHistory'
      BY <1>16 DEF SlaveSend, TypeTasks, TypeSlave, LocalsOK, TypeHistory
    <2>6. LocalsOK'
      BY <1>16 DEF SlaveSend, TypeTasks, LocalsOK, Procs
    <2>7. QED
      BY <2>1, <2>2, <2>3, <2>4, <2>5, <2>6
  <1>17. CASE SlaveArm
    <2>1. TypeQueues'
      BY <1>17 DEF SlaveArm, TypeQueues
    <2>2. TypeTasks'
      BY <1>17 DEF SlaveArm, Labels, TypeQueues, TypeSlave, LocalsOK, TypeTasks
    <2>3. TypeHeap'
      BY <1>17 DEF SlaveArm, TypeHeap
    <2>4. TypeSlave'
      BY TailType, ZenonT(40), <1>17 DEF SlaveArm, TypeHistory, TypeSlave
    <2>5. TypeHistory'
      BY <1>17 DEF SlaveArm, TypeHistory
    <2>6. LocalsOK'
      BY <1>17 DEF SlaveArm, TypeTasks, LocalsOK, Procs
    <2>7. QED
      BY <2>1, <2>2, <2>3, <2>4, <2>5, <2>6
  <1>18. CASE UNCHANGED vars
    <2>1. TypeQueues'
      BY <1>18 DEF vars, TypeQueues
    <2>2. TypeTasks'
      BY <1>18 DEF vars, Labels, TypeQueues, TypeSlave, LocalsOK, TypeTasks
    <2>3. TypeHeap'
      BY <1>18 DEF vars, TypeHeap
    <2>4. TypeSlave'
      BY <1>18 DEF vars, TypeSlave
    <2>5. TypeHistory'
      BY <1>18 DEF vars, TypeHistory
    <2>6. LocalsOK'
      BY <1>18 DEF vars, TypeTasks, LocalsOK, Procs
    <2>7. QED
      BY <2>1, <2>2, <2>3, <2>4, <2>5, <2>6
  <1>19. QED
    BY <1>1, <1>2, <1>3, <1>4, <1>5, <1>6, <1>7, <1>8, <1>9, <1>10, <1>11, <1>12, <1>13,
       <1>14, <1>15, <1>16, <1>17, <1>18
       DEF Next, SendToSlave, CheckAndExecute, TransactionTask, RxTask, Idle, Procs

\* Every variable keeps its type and both queues their bound (spi_drv.c:302-310).
THEOREM TypeCorrect == Spec => []TypeOK
  <1>1. TypeInv => TypeOK
    BY DEF TypeInv
  <1>2. QED
    BY <1>1, TypeInit, TypeStep, PTL DEF Spec
-----------------------------------------------------------------------------
(* The mutex. *)

BusInv == TypeInv /\ BusExclusive

LEMMA BusInit == Init => BusExclusive
  BY SpiAssumption DEF Init, BusExclusive, OnBus, Procs, Returned

LEMMA BusStep == BusInv /\ [Next]_vars => BusExclusive'
  <1> SUFFICES ASSUME BusInv, [Next]_vars PROVE BusExclusive'
    OBVIOUS
  <1> USE SpiAssumption
      DEF BusInv, BusExclusive, OnBus, TypeInv, TypeOK, TypeTasks, Procs,
          Set, Goto, At, Returned, local, rx
  <1>1. ASSUME NEW s \in Senders, NEW f \in HostFrames, Call(s, f) PROVE BusExclusive'
    BY <1>1 DEF Call
  <1>2. ASSUME NEW s \in Senders, Reject(s) PROVE BusExclusive'
    BY <1>2 DEF Reject
  <1>3. ASSUME NEW s \in Senders, Enqueue(s) PROVE BusExclusive'
    BY <1>3 DEF Enqueue
  <1>4. CASE WaitSemaphore
    BY <1>4 DEF WaitSemaphore
  <1>5. ASSUME NEW p \in Procs, ReadHandshake(p) PROVE BusExclusive'
    BY <1>5 DEF ReadHandshake
  <1>6. ASSUME NEW p \in Procs, ReadDataReady(p) PROVE BusExclusive'
    BY <1>6 DEF ReadDataReady
  <1>7. ASSUME NEW p \in Procs, GetTxBuffer(p) PROVE BusExclusive'
    <2>1. /\ pc' = [pc EXCEPT ![p] = "take_mutex"] \/ pc' = [pc EXCEPT ![p] = Returned(p)]
          /\ UNCHANGED mutex_spi_trans
      BY <1>7 DEF GetTxBuffer
    <2>2. QED
      BY <2>1, <1>7 DEF GetTxBuffer
  <1>8. ASSUME NEW p \in Procs, TakeMutex(p) PROVE BusExclusive'
    BY <1>8 DEF TakeMutex, MutexAvailable
  <1>9. ASSUME NEW p \in Procs, Transfer(p) PROVE BusExclusive'
    <2>1. /\ pc' = [pc EXCEPT ![p] = "push"] \/ pc' = [pc EXCEPT ![p] = "give_mutex"]
          /\ UNCHANGED mutex_spi_trans
      BY <1>9 DEF Transfer
    <2>2. QED
      BY <2>1, <1>9 DEF Transfer
  <1>10. ASSUME NEW p \in Procs, Push(p) PROVE BusExclusive'
    BY <1>10 DEF Push
  <1>11. ASSUME NEW p \in Procs, GiveMutex(p) PROVE BusExclusive'
    BY <1>11 DEF GiveMutex, OwnerAfterGive
  <1>12. CASE RxTask
    BY <1>12 DEF RxTask, RxReceive, RxProcess, RxFree
  <1>13. CASE Isr \/ SlaveSend \/ SlaveArm
    BY <1>13 DEF Isr, SlaveSend, SlaveArm
  <1>14. CASE UNCHANGED vars
    BY <1>14 DEF vars
  <1>15. QED
    BY <1>1, <1>2, <1>3, <1>4, <1>5, <1>6, <1>7, <1>8, <1>9, <1>10, <1>11, <1>12, <1>13,
       <1>14 DEF Next, SendToSlave, CheckAndExecute, TransactionTask, Idle

\* A process is between the take and the give of mutex_spi_trans exactly when it
\* holds it, so no two SPI transactions overlap (spi_drv.c:378-380).
THEOREM MutualExclusion == Spec => []BusExclusive
  <1>1. Init => BusInv
    BY TypeInit, BusInit DEF BusInv
  <1>2. BusInv /\ [Next]_vars => BusInv'
    BY TypeStep, BusStep DEF BusInv
  <1>3. BusInv => BusExclusive
    BY DEF BusInv
  <1>4. QED
    BY <1>1, <1>2, <1>3, PTL DEF Spec
-----------------------------------------------------------------------------
(* Wake-ups. *)

\* A process that will still notice a frame if the handshake stays up: it reads
\* the data-ready line, finds the queue filled, or runs a transfer.
WillLook(p) ==
    \/ pc[p] \in {"read_handshake", "read_data_ready", "take_mutex", "transfer"}
    \/ pc[p] = "get_tx_buffer" /\ (rx_ready[p] \/ to_slave_queue # <<>>)

\* The slave raises data-ready with the first frame it queues and lowers it only
\* when it arms an empty transaction; what is armed is armed under a handshake.
LinesOK ==
    /\ slave_queue # <<>> => data_ready
    /\ slave_armed # None => handshake /\ data_ready

\* While the slave is ready and either side has a frame, an interrupt is pending,
\* the semaphore is given, or some process will look.
WakePending ==
    handshake /\ (to_slave_queue # <<>> \/ data_ready)
    => exti # {} \/ osSemaphore \/ \E p \in Procs : WillLook(p)

WakeInv == TypeInv /\ LinesOK /\ WakePending

LEMMA WakeInit == Init => LinesOK /\ WakePending
  BY DEF Init, LinesOK, WakePending

LEMMA LinesStep == WakeInv /\ [Next]_vars => LinesOK'
  <1> SUFFICES ASSUME WakeInv, [Next]_vars PROVE LinesOK'
    OBVIOUS
  <1> USE DEF WakeInv, LinesOK
  <1>1. ASSUME NEW s \in Senders, NEW f \in HostFrames, Call(s, f) PROVE LinesOK'
    BY <1>1 DEF Call, slave
  <1>2. ASSUME NEW s \in Senders, Reject(s) \/ Enqueue(s) PROVE LinesOK'
    BY <1>2 DEF Reject, Enqueue, slave
  <1>3. ASSUME NEW p \in Procs, CheckAndExecute(p) PROVE LinesOK'
    <2>1. CASE Transfer(p)
      BY <2>1 DEF Transfer, SlaveClocked
    <2>2. CASE UNCHANGED slave
      BY <2>2 DEF slave
    <2>3. QED
      BY <1>3, <2>1, <2>2 DEF CheckAndExecute, ReadHandshake, ReadDataReady, GetTxBuffer,
         TakeMutex, Push, GiveMutex
  <1>4. CASE WaitSemaphore \/ RxTask
    BY <1>4 DEF WaitSemaphore, RxTask, RxReceive, RxProcess, RxFree, slave
  <1>5. CASE Isr \/ SlaveSend
    BY <1>5 DEF Isr, SlaveSend
  <1>6. CASE SlaveArm
    BY <1>6 DEF SlaveArm
  <1>7. CASE UNCHANGED vars
    BY <1>7 DEF vars, slave
  <1>8. QED
    BY <1>1, <1>2, <1>3, <1>4, <1>5, <1>6, <1>7
       DEF Next, SendToSlave, TransactionTask, Idle, Procs

LEMMA WakeStep == WakeInv /\ [Next]_vars => WakePending'
  <1> SUFFICES ASSUME WakeInv, [Next]_vars,
                      handshake', to_slave_queue' # <<>> \/ data_ready'
               PROVE  exti' # {} \/ osSemaphore' \/ \E p \in Procs : WillLook(p)'
    BY DEF WakePending
  <1> DEFINE Woken == exti' # {} \/ osSemaphore' \/ \E p \in Procs : WillLook(p)'
  <1> USE SpiAssumption
      DEF WakeInv, WakePending, WillLook, TypeInv, TypeOK, TypeTasks,
          Set, Goto, At, local, slave
  <1>1. ASSUME NEW s \in Senders, NEW f \in HostFrames, Call(s, f) PROVE Woken
    BY <1>1 DEF Call, Procs
  <1>2. ASSUME NEW s \in Senders, Reject(s) PROVE Woken
    BY <1>2 DEF Reject, Procs
  <1>3. ASSUME NEW s \in Senders, Enqueue(s) PROVE Woken
    <2>1. s \in Procs /\ pc'[s] = "read_handshake"
      BY <1>3 DEF Enqueue, Procs
    <2>2. QED
      BY <2>1
  <1>4. CASE WaitSemaphore
    <2>1. transaction_task \in Procs /\ pc'[transaction_task] = "read_handshake"
      BY <1>4 DEF WaitSemaphore, Procs
    <2>2. QED
      BY <2>1
  <1>5. ASSUME NEW p \in Procs, ReadHandshake(p) PROVE Woken
    <2>1. pc'[p] = "read_data_ready"
      BY <1>5 DEF ReadHandshake
    <2>2. QED
      BY <2>1
  <1>6. ASSUME NEW p \in Procs, ReadDataReady(p) PROVE Woken
    <2>1. pc'[p] = "get_tx_buffer" /\ rx_ready'[p] = data_ready
      BY <1>6 DEF ReadDataReady
    <2>2. QED
      BY <2>1, <1>6 DEF ReadDataReady
  <1>7. ASSUME NEW p \in Procs, GetTxBuffer(p) PROVE Woken
    <2>1. CASE to_slave_queue # <<>>
      <3>1. pc'[p] = "take_mutex"
        BY <2>1, <1>7 DEF GetTxBuffer
      <3>2. QED
        BY <3>1
    <2>2. CASE to_slave_queue = <<>> /\ rx_ready[p]
      <3>1. pc'[p] = "take_mutex"
        BY <2>2, <1>7 DEF GetTxBuffer, SlaveHasData
      <3>2. QED
        BY <3>1
    <2>3. CASE to_slave_queue = <<>> /\ ~rx_ready[p]
      <3>1. /\ ~WillLook(p)
            /\ UNCHANGED <<to_slave_queue, slave, osSemaphore>>
            /\ \A q \in Procs \ {p} : pc'[q] = pc[q] /\ rx_ready'[q] = rx_ready[q]
        BY <2>3, <1>7 DEF GetTxBuffer
      <3>2. QED
        BY <3>1
    <2>4. QED
      BY <2>1, <2>2, <2>3
  <1>8. ASSUME NEW p \in Procs, TakeMutex(p) PROVE Woken
    <2>1. pc'[p] = "transfer"
      BY <1>8 DEF TakeMutex
    <2>2. QED
      BY <2>1
  <1>9. ASSUME NEW p \in Procs, Transfer(p) PROVE Woken
    BY <1>9 DEF Transfer, SlaveClocked
  <1>10. ASSUME NEW p \in Procs, Push(p) \/ GiveMutex(p) PROVE Woken
    <2>1. /\ ~WillLook(p)
          /\ UNCHANGED <<to_slave_queue, slave, osSemaphore, rx_ready>>
          /\ \A q \in Procs \ {p} : pc'[q] = pc[q]
      BY <1>10 DEF Push, GiveMutex
    <2>2. QED
      BY <2>1
  <1>11. CASE RxTask
    BY <1>11 DEF RxTask, RxReceive, RxProcess, RxFree
  <1>12. CASE Isr
    BY <1>12 DEF Isr, GivesSemaphore, TypeSlave
  <1>13. CASE SlaveSend
    BY <1>13 DEF SlaveSend
  <1>14. CASE SlaveArm
    BY <1>14 DEF SlaveArm
  <1>15. CASE UNCHANGED vars
    BY <1>15 DEF vars
  <1>16. QED
    BY <1>1, <1>2, <1>3, <1>4, <1>5, <1>6, <1>7, <1>8, <1>9, <1>10, <1>11, <1>12, <1>13,
       <1>14, <1>15 DEF Next, SendToSlave, CheckAndExecute, TransactionTask, Idle, Procs

\* No wake-up of transaction_task is lost (spi_drv.c:327-337, 349-383): when all
\* tasks wait while the slave holds its handshake up, neither side has a frame.
THEOREM NoFrameStranded == Spec => []NoStrandedFrame
  <1>1. Init => WakeInv
    BY TypeInit, WakeInit DEF WakeInv
  <1>2. WakeInv /\ [Next]_vars => WakeInv'
    BY TypeStep, LinesStep, WakeStep DEF WakeInv
  <1>3. WakeInv => NoStrandedFrame
    <2> SUFFICES ASSUME WakeInv, handshake, exti = {}, ~osSemaphore,
                        \A p \in Procs : pc[p] \in {"idle", "wait", "reject", "enqueue"}
                 PROVE  to_slave_queue = <<>> /\ ~data_ready /\ slave_armed = None
                        /\ slave_queue = <<>>
      BY DEF NoStrandedFrame
    <2>1. \A p \in Procs : ~WillLook(p)
      BY DEF WillLook
    <2>2. QED
      BY <2>1 DEF WakeInv, WakePending, LinesOK
  <1>4. QED
    BY <1>1, <1>2, <1>3, PTL DEF Spec
=============================================================================
