--------------------------- MODULE SpiFrameProofs ---------------------------
(***************************************************************************)
(* Where frames can be: the order of the slave's frames on their way up,   *)
(* the conservation of the host's frames on their way down, and from both  *)
(* that the driver implements the full-duplex link of SpiLink.             *)
(***************************************************************************)
EXTENDS SpiDriverProofs

-----------------------------------------------------------------------------
(* The elements of a sequence. *)

Increasing(q) == \A i, j \in 1..Len(q) : i < j => q[i] < q[j]
Before(X, Y) == \A x \in X, y \in Y : x < y

LEMMA ElemsAppend ==
    ASSUME NEW S, NEW q \in Seq(S), NEW x \in S
    PROVE  Elems(Append(q, x)) = Elems(q) \cup {x}
  <1>1. Elems(q) \cup {x} \subseteq Elems(Append(q, x))
    <2>1. \A i \in 1..Len(q) : i \in 1..Len(Append(q, x)) /\ Append(q, x)[i] = q[i]
      OBVIOUS
    <2>2. Len(q) + 1 \in 1..Len(Append(q, x)) /\ Append(q, x)[Len(q) + 1] = x
      OBVIOUS
    <2>3. QED
      BY <2>1, <2>2 DEF Elems
  <1>2. Elems(Append(q, x)) \subseteq Elems(q) \cup {x}
    <2>1. \A i \in 1..Len(Append(q, x)) : \/ i \in 1..Len(q) /\ Append(q, x)[i] = q[i]
                                          \/ Append(q, x)[i] = x
      OBVIOUS
    <2>2. QED
      BY <2>1 DEF Elems
  <1>3. QED
    BY <1>1, <1>2

LEMMA ElemsTail ==
    ASSUME NEW S, NEW q \in Seq(S), q # <<>>
    PROVE  Elems(q) = Elems(Tail(q)) \cup {Head(q)}
  <1>1. Len(q) \in Nat \ {0} /\ Len(Tail(q)) = Len(q) - 1
    OBVIOUS
  <1>2. Head(q) = q[1] /\ \A i \in 1..Len(Tail(q)) : Tail(q)[i] = q[i + 1]
    OBVIOUS
  <1>3. Elems(q) \subseteq Elems(Tail(q)) \cup {Head(q)}
    <2>1. SUFFICES ASSUME NEW i \in 1..Len(q) PROVE q[i] \in Elems(Tail(q)) \cup {Head(q)}
      BY DEF Elems
    <2>2. CASE i = 1
      BY <2>2, <1>2
    <2>3. CASE i # 1
      <3>1. i - 1 \in 1..Len(Tail(q)) /\ Tail(q)[i - 1] = q[i]
        BY <2>3, <1>1, <1>2
      <3>2. QED
        BY <3>1 DEF Elems
    <2>4. QED
      BY <2>2, <2>3
  <1>4. Elems(Tail(q)) \cup {Head(q)} \subseteq Elems(q)
    <2>1. \A i \in 1..Len(Tail(q)) : i + 1 \in 1..Len(q)
      BY <1>1
    <2>2. 1 \in 1..Len(q)
      BY <1>1
    <2>3. QED
      BY <1>2, <2>1, <2>2 DEF Elems
  <1>5. QED
    BY <1>3, <1>4

LEMMA ElemsType ==
    ASSUME NEW S, NEW q \in Seq(S)
    PROVE  Elems(q) \subseteq S
  BY DEF Elems

LEMMA IncreasingAppend ==
    ASSUME NEW q \in Seq(SlaveFrames), NEW x \in SlaveFrames, Increasing(q), Before(Elems(q), {x})
    PROVE  Increasing(Append(q, x))
  <1>1. \A i \in 1..Len(q) : q[i] < x
    BY DEF Before, Elems
  <1>2. SUFFICES ASSUME NEW i \in 1..Len(q) + 1, NEW j \in 1..Len(q) + 1, i < j
                 PROVE  Append(q, x)[i] < Append(q, x)[j]
    BY DEF Increasing
  <1>3. \A k \in 1..Len(q) + 1 : Append(q, x)[k] = IF k = Len(q) + 1 THEN x ELSE q[k]
    OBVIOUS
  <1>4. i \in 1..Len(q) /\ i # Len(q) + 1
    BY <1>2
  <1>5. CASE j = Len(q) + 1
    BY <1>1, <1>3, <1>4, <1>5
  <1>6. CASE j \in 1..Len(q) /\ j # Len(q) + 1
    BY <1>2, <1>3, <1>4, <1>6 DEF Increasing
  <1>7. QED
    BY <1>5, <1>6

LEMMA IncreasingTail ==
    ASSUME NEW q \in Seq(SlaveFrames), q # <<>>, Increasing(q)
    PROVE  Increasing(Tail(q)) /\ Before({Head(q)}, Elems(Tail(q)))
  <1>1. Len(q) \in Nat \ {0} /\ Len(Tail(q)) = Len(q) - 1
    OBVIOUS
  <1>2. Head(q) = q[1] /\ \A i \in 1..Len(Tail(q)) : Tail(q)[i] = q[i + 1]
    OBVIOUS
  <1>3. Increasing(Tail(q))
    <2>1. SUFFICES ASSUME NEW i \in 1..Len(Tail(q)), NEW j \in 1..Len(Tail(q)), i < j
                   PROVE  Tail(q)[i] < Tail(q)[j]
      BY DEF Increasing
    <2>2. i + 1 \in 1..Len(q) /\ j + 1 \in 1..Len(q) /\ i + 1 < j + 1
      BY <1>1, <2>1
    <2>3. QED
      BY <1>2, <2>2 DEF Increasing
  <1>4. Before({Head(q)}, Elems(Tail(q)))
    <2>1. SUFFICES ASSUME NEW i \in 1..Len(Tail(q)) PROVE q[1] < q[i + 1]
      BY <1>2 DEF Before, Elems
    <2>2. 1 \in 1..Len(q) /\ i + 1 \in 1..Len(q) /\ 1 < i + 1
      BY <1>1
    <2>3. QED
      BY <2>2 DEF Increasing
  <1>5. QED
    BY <1>3, <1>4

LEMMA DistinctAppend ==
    ASSUME NEW S, NEW q \in Seq(S), NEW x \in S, Distinct(q), x \notin Elems(q)
    PROVE  Distinct(Append(q, x))
  <1>1. \A i \in 1..Len(q) : q[i] # x
    BY DEF Elems
  <1>2. SUFFICES ASSUME NEW i \in 1..Len(q) + 1, NEW j \in 1..Len(q) + 1,
                        Append(q, x)[i] = Append(q, x)[j]
                 PROVE  i = j
    BY DEF Distinct
  <1>3. \A k \in 1..Len(q) + 1 : Append(q, x)[k] = IF k = Len(q) + 1 THEN x ELSE q[k]
    OBVIOUS
  <1>4. CASE i \in 1..Len(q) /\ j \in 1..Len(q)
    BY <1>2, <1>3, <1>4 DEF Distinct
  <1>5. CASE i = Len(q) + 1 \/ j = Len(q) + 1
    BY <1>1, <1>2, <1>3, <1>5
  <1>6. QED
    BY <1>4, <1>5

LEMMA DistinctTail ==
    ASSUME NEW S, NEW q \in Seq(S), q # <<>>, Distinct(q)
    PROVE  Distinct(Tail(q)) /\ Head(q) \notin Elems(Tail(q))
  <1>1. Len(q) \in Nat \ {0} /\ Len(Tail(q)) = Len(q) - 1
    OBVIOUS
  <1>2. Head(q) = q[1] /\ \A i \in 1..Len(Tail(q)) : Tail(q)[i] = q[i + 1]
    OBVIOUS
  <1>3. Distinct(Tail(q))
    <2>1. SUFFICES ASSUME NEW i \in 1..Len(Tail(q)), NEW j \in 1..Len(Tail(q)),
                          Tail(q)[i] = Tail(q)[j]
                   PROVE  i = j
      BY DEF Distinct
    <2>2. i + 1 \in 1..Len(q) /\ j + 1 \in 1..Len(q) /\ q[i + 1] = q[j + 1]
      BY <1>1, <1>2, <2>1
    <2>3. QED
      BY <2>2 DEF Distinct
  <1>4. Head(q) \notin Elems(Tail(q))
    <2>1. SUFFICES ASSUME NEW i \in 1..Len(Tail(q)), q[1] = q[i + 1] PROVE FALSE
      BY <1>2 DEF Elems
    <2>2. 1 \in 1..Len(q) /\ i + 1 \in 1..Len(q)
      BY <1>1
    <2>3. QED
      BY <2>1, <2>2 DEF Distinct
  <1>5. QED
    BY <1>3, <1>4
-----------------------------------------------------------------------------
(* The slave's frames: slave_queue, slave_armed, rxbuff, from_slave_queue and *)
(* rx_handle hold them in the order in which the slave sent them.             *)

RxOrder ==
    /\ Increasing(from_slave_queue) /\ Increasing(slave_queue)
    /\ Before(Elems(from_slave_queue), RxbuffSet \cup ArmedSet \cup Elems(slave_queue))
    /\ Before(RxbuffSet, ArmedSet \cup Elems(slave_queue))
    /\ Before(ArmedSet, Elems(slave_queue))
    /\ Before(HandleSet, BehindHandle)
    /\ \A r \in HandleSet \cup BehindHandle : r <= slave_sent
    /\ ~handshake => slave_armed = None

\* What is delivered came before all that is not; what is dropped is gone.
RxSettled ==
    /\ Before(delivered, BehindHandle)
    /\ rx_pc = "process" => Before(delivered, HandleSet)
    /\ dropped \cap BehindHandle = {}
    /\ rx_pc = "process" => dropped \cap HandleSet = {}
    /\ delivered \cap dropped = {}
    /\ \A r \in delivered \cup dropped : r <= slave_sent

RxInv == BusInv /\ RxOrder /\ RxSettled

LEMMA RxInit == Init => RxOrder /\ RxSettled
  <1> SUFFICES ASSUME Init PROVE RxOrder /\ RxSettled
    OBVIOUS
  <1>1. /\ Elems(from_slave_queue) = {} /\ Elems(slave_queue) = {}
        /\ Increasing(from_slave_queue) /\ Increasing(slave_queue)
        /\ RxbuffSet = {} /\ ArmedSet = {} /\ HandleSet = {}
    BY DEF Init, Elems, Increasing, RxbuffSet, ArmedSet, HandleSet
  <1>2. QED
    BY <1>1 DEF Init, RxOrder, RxSettled, BehindHandle, Before

LEMMA RxStep == RxInv /\ [Next]_vars => (RxOrder /\ RxSettled)'
  <1> SUFFICES ASSUME RxInv, [Next]_vars PROVE RxOrder' /\ RxSettled'
    OBVIOUS
  <1>0. TypeQueues /\ TypeTasks /\ TypeSlave /\ TypeHistory /\ LocalsOK /\ BusExclusive
        /\ RxOrder /\ RxSettled /\ SlaveFrames \subseteq Nat
    BY SlaveFrameNat DEF RxInv, BusInv, TypeInv, TypeOK
  <1>1. ASSUME UNCHANGED <<from_slave_queue, slave_queue, slave_armed, rxbuff, rx_handle, rx_pc,
                           slave_sent, delivered, dropped, handshake>>
        PROVE  RxOrder' /\ RxSettled'
    BY <1>0, <1>1 DEF RxOrder, RxSettled, BehindHandle, HandleSet, RxbuffSet, ArmedSet
  <1>2. ASSUME NEW p \in Procs, Transfer(p) PROVE RxOrder' /\ RxSettled'
    <2>1. RxbuffSet = {}
      BY <1>0, <1>2 DEF Transfer, At, BusExclusive, OnBus, LocalsOK, RxbuffSet
    <2>2. /\ UNCHANGED <<from_slave_queue, slave_queue, rx_handle, rx_pc, slave_sent, delivered>>
          /\ HandleSet' = HandleSet /\ ArmedSet' = {}
          /\ ~handshake' /\ slave_armed' = None
      BY <1>2 DEF Transfer, SlaveClocked, rx, HandleSet, ArmedSet
    <2>3. CASE slave_armed # None /\ rxbuff' = Set(rxbuff, p, slave_armed) /\ UNCHANGED dropped
      <3>1. RxbuffSet' = {slave_armed} /\ ArmedSet = {slave_armed}
        BY <1>0, <2>1, <2>3 DEF RxbuffSet, ArmedSet, Set, TypeTasks
      <3>2. BehindHandle' = BehindHandle
        BY <2>1, <2>2, <3>1 DEF BehindHandle
      <3>3. QED
        BY <1>0, <2>1, <2>2, <2>3, <3>1, <3>2 DEF RxOrder, RxSettled, Before, BehindHandle
    <2>4. CASE dropped' = dropped \cup Optional({slave_armed}, slave_armed) /\ UNCHANGED rxbuff
      <3>1. RxbuffSet' = {} /\ dropped' = dropped \cup ArmedSet
        BY <2>1, <2>4 DEF RxbuffSet, ArmedSet, Optional
      <3>2. BehindHandle = BehindHandle' \cup ArmedSet
        BY <2>1, <2>2, <3>1 DEF BehindHandle
      <3>3. ArmedSet \cap BehindHandle' = {}
        <4>1. BehindHandle' = Elems(from_slave_queue) \cup Elems(slave_queue)
          BY <2>2, <3>1 DEF BehindHandle
        <4>2. /\ \A x \in Elems(from_slave_queue), y \in ArmedSet : x < y
              /\ \A x \in ArmedSet, y \in Elems(slave_queue) : x < y
          BY <1>0 DEF RxOrder, Before
        <4>3. \A x \in ArmedSet : x \in Nat /\ ~(x < x)
          BY <1>0 DEF ArmedSet, TypeSlave
        <4>4. QED
          BY <4>1, <4>2, <4>3
      <3>4. ArmedSet \cap delivered = {} /\ ArmedSet \cap HandleSet = {}
        <4>1. /\ \A x \in delivered, y \in ArmedSet : x < y
              /\ \A x \in HandleSet, y \in ArmedSet : x < y
          BY <1>0, <3>2 DEF RxOrder, RxSettled, Before
        <4>2. \A x \in ArmedSet : x \in Nat /\ ~(x < x)
          BY <1>0 DEF ArmedSet, TypeSlave
        <4>3. QED
          BY <4>1, <4>2
      <3>5. QED
        BY <1>0, <2>1, <2>2, <3>1, <3>2, <3>3, <3>4 DEF RxOrder, RxSettled, Before
    <2>5. QED
      BY <1>2, <2>3, <2>4 DEF Transfer
  <1>3. ASSUME NEW p \in Procs, Push(p) PROVE RxOrder' /\ RxSettled'
    <2>1. RxbuffSet = {rxbuff[p]} /\ rxbuff[p] \in SlaveFrames
      BY <1>0, <1>3 DEF Push, At, BusExclusive, OnBus, LocalsOK, RxbuffSet, TypeTasks
    <2>2. RxbuffSet' = {}
      BY <1>0, <1>3, <2>1 DEF Push, At, Set, BusExclusive, OnBus, LocalsOK, RxbuffSet, TypeTasks
    <2>3. /\ from_slave_queue' = Append(from_slave_queue, rxbuff[p])
          /\ UNCHANGED <<slave_queue, slave_armed, rx_handle, rx_pc, slave_sent, delivered,
                         dropped, handshake>>
          /\ HandleSet' = HandleSet /\ ArmedSet' = ArmedSet
      BY <1>3 DEF Push, rx, slave, hist, HandleSet, ArmedSet
    <2>4. Elems(from_slave_queue)' = Elems(from_slave_queue) \cup {rxbuff[p]}
      BY <1>0, <2>1, <2>3, ElemsAppend DEF TypeQueues
    <2>5. Increasing(from_slave_queue)'
      BY <1>0, <2>1, <2>3, IncreasingAppend DEF RxOrder, Before, TypeQueues
    <2>6. BehindHandle' = BehindHandle
      BY <2>1, <2>2, <2>3, <2>4 DEF BehindHandle
    <2>7. QED
      BY <1>0, <2>1, <2>2, <2>3, <2>4, <2>5, <2>6 DEF RxOrder, RxSettled, Before
  <1>4. CASE RxReceive
    <2>1. /\ HandleSet = {} /\ HandleSet' = {Head(from_slave_queue)}
          /\ Elems(from_slave_queue) = Elems(from_slave_queue)' \cup {Head(from_slave_queue)}
          /\ Increasing(from_slave_queue)'
          /\ Before({Head(from_slave_queue)}, Elems(from_slave_queue)')
      <3>1. from_slave_queue # <<>> /\ from_slave_queue' = Tail(from_slave_queue)
            /\ rx_handle' = Head(from_slave_queue) /\ rx_handle = None
        BY <1>0, <1>4 DEF RxReceive, Received, LocalsOK
      <3>2. Head(from_slave_queue) # None
        BY <1>0, <3>1, TailType, SpiAssumption DEF TypeQueues
      <3>3. QED
        BY <1>0, <3>1, <3>2, ElemsTail, IncreasingTail DEF HandleSet, TypeQueues, RxOrder
    <2>2. /\ UNCHANGED <<slave_queue, slave_armed, slave_sent, delivered, dropped, handshake>>
          /\ RxbuffSet' = RxbuffSet /\ ArmedSet' = ArmedSet /\ rx_pc' = "process"
      BY <1>4 DEF RxReceive, local, slave, hist, RxbuffSet, ArmedSet
    <2>3. BehindHandle = BehindHandle' \cup {Head(from_slave_queue)}
      BY <2>1, <2>2 DEF BehindHandle
    <2>4. Before({Head(from_slave_queue)}, BehindHandle')
      BY <1>0, <2>1, <2>2 DEF BehindHandle, RxOrder, Before
    <2>5. QED
      BY <1>0, <2>1, <2>2, <2>3, <2>4 DEF RxOrder, RxSettled, Before
  <1>5. CASE RxProcess
    <2>1. /\ rx_handle \in SlaveFrames /\ HandleSet = {rx_handle} /\ rx_pc = "process"
          /\ rx_pc' = "free" /\ HandleSet' = HandleSet /\ BehindHandle' = BehindHandle
          /\ UNCHANGED <<from_slave_queue, slave_queue, slave_armed, slave_sent, handshake>>
          /\ RxbuffSet' = RxbuffSet /\ ArmedSet' = ArmedSet
      BY <1>0, <1>5, SpiAssumption
         DEF RxProcess, LocalsOK, TypeTasks, HandleSet, BehindHandle, RxbuffSet, ArmedSet, local, slave
    <2>2. \/ delivered' = delivered \cup {rx_handle} /\ UNCHANGED dropped
          \/ dropped' = dropped \cup {rx_handle} /\ UNCHANGED delivered
      BY <1>5 DEF RxProcess, RxSerial, RxNet, RxPrivInit, Delivers, Drops
    <2>3. rx_handle \notin BehindHandle /\ rx_handle \notin delivered \cup dropped
      BY <1>0, <2>1 DEF RxOrder, RxSettled, Before
    <2>4. RxOrder'
      BY <1>0, <2>1 DEF RxOrder
    <2>5. QED
      BY <1>0, <2>1, <2>2, <2>3, <2>4 DEF RxOrder, RxSettled, Before
  <1>6. CASE RxFree
    <2>1. /\ HandleSet' = {} /\ BehindHandle' = BehindHandle /\ rx_pc' = "receive"
          /\ UNCHANGED <<from_slave_queue, slave_queue, slave_armed, slave_sent, handshake,
                         delivered, dropped>>
          /\ RxbuffSet' = RxbuffSet /\ ArmedSet' = ArmedSet
      BY <1>6 DEF RxFree, HandleSet, BehindHandle, RxbuffSet, ArmedSet, local, slave, hist
    <2>2. QED
      BY <1>0, <2>1 DEF RxOrder, RxSettled, Before
  <1>7. CASE SlaveSend
    <2>1. /\ slave_sent' = slave_sent + 1 /\ slave_sent' \in SlaveFrames
          /\ slave_queue' = Append(slave_queue, slave_sent')
      BY <1>0, <1>7, SlaveFrameNat DEF SlaveSend, TypeHistory, SlaveFrames
    <2>2. /\ UNCHANGED <<from_slave_queue, slave_armed, rx_pc, handshake, delivered, dropped>>
          /\ HandleSet' = HandleSet /\ RxbuffSet' = RxbuffSet /\ ArmedSet' = ArmedSet
      BY <1>7 DEF SlaveSend, HandleSet, RxbuffSet, ArmedSet, local, rx
    <2>3. Elems(slave_queue)' = Elems(slave_queue) \cup {slave_sent'}
      BY <1>0, <2>1, ElemsAppend DEF TypeSlave
    <2>4. BehindHandle' = BehindHandle \cup {slave_sent'}
      BY <2>2, <2>3 DEF BehindHandle
    <2>5. \A r \in HandleSet \cup BehindHandle \cup delivered \cup dropped : r \in Nat /\ r < slave_sent'
      <3>1. HandleSet \cup BehindHandle \cup delivered \cup dropped \subseteq SlaveFrames
        BY <1>0, ElemsType DEF HandleSet, BehindHandle, RxbuffSet, ArmedSet, TypeTasks, TypeSlave,
                               TypeQueues, TypeHistory
      <3>2. \A r \in HandleSet \cup BehindHandle \cup delivered \cup dropped : r <= slave_sent
        BY <1>0 DEF RxOrder, RxSettled
      <3>3. slave_sent \in Nat
        BY <1>0, SlaveFrameNat DEF TypeHistory
      <3>4. QED
        <4>1. SUFFICES ASSUME NEW r \in HandleSet \cup BehindHandle \cup delivered \cup dropped
                       PROVE  r \in Nat /\ r < slave_sent'
          OBVIOUS
        <4>2. r \in Nat /\ r <= slave_sent
          BY <1>0, <3>1, <3>2
        <4>3. QED
          BY <2>1, <3>3, <4>2
    <2>6. Increasing(slave_queue)'
      BY <1>0, <2>1, <2>5, IncreasingAppend DEF RxOrder, Before, TypeSlave, BehindHandle
    <2>7. slave_sent' \in Nat
      BY <1>0, <2>1
    <2>8. RxOrder'
      BY <1>0, <2>2, <2>3, <2>4, <2>5, <2>6, <2>7 DEF RxOrder, Before, BehindHandle
    <2>9. RxSettled'
      BY <1>0, <2>2, <2>4, <2>5, <2>7 DEF RxSettled, Before
    <2>10. QED
      BY <2>8, <2>9
  <1>8. CASE SlaveArm
    <2>1. /\ UNCHANGED <<from_slave_queue, rx_pc, slave_sent, delivered, dropped>>
          /\ HandleSet' = HandleSet /\ RxbuffSet' = RxbuffSet
          /\ handshake' /\ ArmedSet = {} /\ slave_armed = None
      BY <1>0, <1>8 DEF SlaveArm, HandleSet, RxbuffSet, ArmedSet, local, rx, hist, RxOrder
    <2>2. CASE slave_queue # <<>>
      <3>1. /\ ArmedSet' = {Head(slave_queue)}
            /\ Elems(slave_queue) = Elems(slave_queue)' \cup {Head(slave_queue)}
            /\ Increasing(slave_queue)'
            /\ Before({Head(slave_queue)}, Elems(slave_queue)')
        <4>1. slave_queue' = Tail(slave_queue) /\ slave_armed' = Head(slave_queue)
          BY <1>8, <2>2 DEF SlaveArm
        <4>2. Head(slave_queue) # None
          BY <1>0, <2>2, TailType, SpiAssumption DEF TypeSlave
        <4>3. QED
          BY <1>0, <2>2, <4>1, <4>2, ElemsTail, IncreasingTail DEF ArmedSet, TypeSlave, RxOrder
      <3>2. BehindHandle' = BehindHandle
        BY <2>1, <3>1 DEF BehindHandle
      <3>3. QED
        BY <1>0, <2>1, <3>1, <3>2 DEF RxOrder, RxSettled, Before
    <2>3. CASE slave_queue = <<>>
      <3>1. UNCHANGED <<slave_armed, slave_queue>> /\ ArmedSet' = ArmedSet
        BY <1>8, <2>3 DEF SlaveArm, ArmedSet
      <3>2. BehindHandle' = BehindHandle
        BY <2>1, <3>1 DEF BehindHandle
      <3>3. QED
        BY <1>0, <2>1, <3>1, <3>2 DEF RxOrder, RxSettled
    <2>4. QED
      BY <2>2, <2>3
  <1>9. ASSUME NEW s \in Senders, (\E f \in HostFrames : Call(s, f)) \/ Reject(s) \/ Enqueue(s)
        PROVE  RxOrder' /\ RxSettled'
    BY <1>1, <1>9 DEF Call, Reject, Enqueue, rx, slave, hist
  <1>10. ASSUME NEW p \in Procs, ReadHandshake(p) \/ ReadDataReady(p) \/ GetTxBuffer(p)
                                 \/ TakeMutex(p) \/ GiveMutex(p)
         PROVE  RxOrder' /\ RxSettled'
    BY <1>1, <1>10 DEF ReadHandshake, ReadDataReady, GetTxBuffer, TakeMutex, GiveMutex, rx, slave, hist
  <1>11. CASE WaitSemaphore \/ Isr \/ UNCHANGED vars
    BY <1>1, <1>11 DEF WaitSemaphore, Isr, vars, local, rx, slave, hist
  <1>12. QED
    BY <1>2, <1>3, <1>4, <1>5, <1>6, <1>7, <1>8, <1>9, <1>10, <1>11
       DEF Next, SendToSlave, CheckAndExecute, TransactionTask, RxTask, Idle, Procs
-----------------------------------------------------------------------------
(* No frame of the slave vanishes. *)

\* What process_rx_task still holds after its decision is settled.
RxWhole ==
    /\ 1..slave_sent \subseteq delivered \cup dropped \cup HandleSet \cup BehindHandle
    /\ rx_pc = "free" => rx_handle \in delivered \cup dropped

LEMMA RxWholeInit == Init => RxWhole
  BY DEF Init, RxWhole

LEMMA RxWholeStep == RxInv /\ RxWhole /\ [Next]_vars => RxWhole'
  <1> SUFFICES ASSUME RxInv, RxWhole, [Next]_vars PROVE RxWhole'
    OBVIOUS
  <1>0. /\ TypeQueues /\ TypeTasks /\ TypeSlave /\ TypeHistory /\ LocalsOK /\ BusExclusive
        /\ RxOrder /\ SlaveFrames \subseteq Nat
    BY SlaveFrameNat DEF RxInv, BusInv, TypeInv, TypeOK
  <1>1. ASSUME UNCHANGED <<from_slave_queue, slave_queue, slave_armed, rxbuff, rx_handle, rx_pc,
                           slave_sent, delivered, dropped>>
        PROVE  RxWhole'
    BY <1>1 DEF RxWhole, BehindHandle, HandleSet, RxbuffSet, ArmedSet
  <1>2. ASSUME NEW p \in Procs, Transfer(p) PROVE RxWhole'
    <2>1. RxbuffSet = {}
      BY <1>0, <1>2 DEF Transfer, At, BusExclusive, OnBus, LocalsOK, RxbuffSet
    <2>2. /\ UNCHANGED <<from_slave_queue, slave_queue, rx_handle, rx_pc, slave_sent, delivered>>
          /\ HandleSet' = HandleSet
      BY <1>2 DEF Transfer, SlaveClocked, rx, HandleSet
    <2>3. CASE slave_armed # None /\ rxbuff' = Set(rxbuff, p, slave_armed) /\ UNCHANGED dropped
      <3>1. RxbuffSet' = {slave_armed} /\ ArmedSet = {slave_armed}
        BY <1>0, <2>1, <2>3 DEF RxbuffSet, ArmedSet, Set, TypeTasks
      <3>2. BehindHandle \subseteq BehindHandle'
        BY <2>1, <2>2, <3>1 DEF BehindHandle
      <3>3. QED
        BY <2>2, <2>3, <3>2 DEF RxWhole
    <2>4. CASE dropped' = dropped \cup Optional({slave_armed}, slave_armed) /\ UNCHANGED rxbuff
      <3>1. dropped' = dropped \cup ArmedSet /\ RxbuffSet' = RxbuffSet
        BY <2>4 DEF RxbuffSet, ArmedSet, Optional
      <3>2. BehindHandle \subseteq BehindHandle' \cup ArmedSet
        BY <2>2, <3>1 DEF BehindHandle
      <3>3. QED
        BY <2>2, <3>1, <3>2 DEF RxWhole
    <2>5. QED
      BY <1>2, <2>3, <2>4 DEF Transfer
  <1>3. ASSUME NEW p \in Procs, Push(p) PROVE RxWhole'
    <2>1. RxbuffSet = {rxbuff[p]} /\ rxbuff[p] \in SlaveFrames
      BY <1>0, <1>3 DEF Push, At, BusExclusive, OnBus, LocalsOK, RxbuffSet, TypeTasks
    <2>2. /\ from_slave_queue' = Append(from_slave_queue, rxbuff[p])
          /\ UNCHANGED <<slave_queue, slave_armed, rx_handle, rx_pc, slave_sent, delivered, dropped>>
          /\ HandleSet' = HandleSet /\ ArmedSet' = ArmedSet
      BY <1>3 DEF Push, rx, slave, hist, HandleSet, ArmedSet
    <2>3. Elems(from_slave_queue)' = Elems(from_slave_queue) \cup {rxbuff[p]}
      BY <1>0, <2>1, <2>2, ElemsAppend DEF TypeQueues
    <2>4. BehindHandle \subseteq BehindHandle'
      BY <2>1, <2>2, <2>3 DEF BehindHandle
    <2>5. QED
      BY <2>2, <2>4 DEF RxWhole
  <1>4. CASE RxReceive
    <2>1. /\ from_slave_queue # <<>> /\ from_slave_queue' = Tail(from_slave_queue)
          /\ rx_handle' = Head(from_slave_queue) /\ rx_handle = None
          /\ UNCHANGED <<slave_queue, slave_armed, slave_sent, delivered, dropped>>
          /\ RxbuffSet' = RxbuffSet /\ ArmedSet' = ArmedSet /\ rx_pc' = "process"
      BY <1>0, <1>4 DEF RxReceive, Received, LocalsOK, local, slave, hist, RxbuffSet, ArmedSet
    <2>2. Head(from_slave_queue) # None
      BY <1>0, <2>1, TailType, SpiAssumption DEF TypeQueues
    <2>3. HandleSet = {} /\ HandleSet' = {Head(from_slave_queue)}
      BY <2>1, <2>2 DEF HandleSet
    <2>4. Elems(from_slave_queue) = Elems(from_slave_queue)' \cup {Head(from_slave_queue)}
      BY <1>0, <2>1, ElemsTail DEF TypeQueues
    <2>5. BehindHandle \subseteq BehindHandle' \cup HandleSet'
      BY <2>1, <2>3, <2>4 DEF BehindHandle
    <2>6. QED
      BY <2>1, <2>3, <2>5 DEF RxWhole
  <1>5. CASE RxProcess
    <2>1. /\ HandleSet' = HandleSet /\ BehindHandle' = BehindHandle
          /\ UNCHANGED <<slave_sent, rx_handle>>
      BY <1>5 DEF RxProcess, HandleSet, BehindHandle, RxbuffSet, ArmedSet, local, slave
    <2>2. \/ delivered' = delivered \cup {rx_handle} /\ UNCHANGED dropped
          \/ dropped' = dropped \cup {rx_handle} /\ UNCHANGED delivered
      BY <1>5 DEF RxProcess, RxSerial, RxNet, RxPrivInit, Delivers, Drops
    <2>3. QED
      BY <2>1, <2>2 DEF RxWhole
  <1>6. CASE RxFree
    <2>1. /\ BehindHandle' = BehindHandle /\ rx_pc = "free" /\ rx_pc' = "receive"
          /\ UNCHANGED <<slave_sent, delivered, dropped>>
      BY <1>6 DEF RxFree, BehindHandle, RxbuffSet, ArmedSet, local, slave, hist
    <2>2. HandleSet \subseteq delivered \cup dropped
      BY <2>1 DEF RxWhole, HandleSet
    <2>3. QED
      BY <2>1, <2>2 DEF RxWhole
  <1>7. CASE SlaveSend
    <2>1. /\ slave_sent' = slave_sent + 1 /\ slave_sent' \in SlaveFrames
          /\ slave_queue' = Append(slave_queue, slave_sent')
      BY <1>0, <1>7, SlaveFrameNat DEF SlaveSend, TypeHistory, SlaveFrames
    <2>2. /\ UNCHANGED <<from_slave_queue, slave_armed, rx_handle, rx_pc, delivered, dropped>>
          /\ HandleSet' = HandleSet /\ RxbuffSet' = RxbuffSet /\ ArmedSet' = ArmedSet
      BY <1>7 DEF SlaveSend, HandleSet, RxbuffSet, ArmedSet, local, rx
    <2>3. Elems(slave_queue)' = Elems(slave_queue) \cup {slave_sent'}
      BY <1>0, <2>1, ElemsAppend DEF TypeSlave
    <2>4. BehindHandle' = BehindHandle \cup {slave_sent'}
      BY <2>2, <2>3 DEF BehindHandle
    <2>5. 1..slave_sent' \subseteq (1..slave_sent) \cup {slave_sent'}
      BY <1>0, <2>1, SlaveFrameNat DEF TypeHistory
    <2>6. QED
      BY <2>2, <2>4, <2>5 DEF RxWhole
  <1>8. CASE SlaveArm
    <2>1. /\ UNCHANGED <<from_slave_queue, rx_handle, rx_pc, slave_sent, delivered, dropped>>
          /\ HandleSet' = HandleSet /\ RxbuffSet' = RxbuffSet
          /\ ArmedSet = {} /\ slave_armed = None
      BY <1>0, <1>8 DEF SlaveArm, HandleSet, RxbuffSet, ArmedSet, local, rx, hist, RxOrder
    <2>2. CASE slave_queue # <<>>
      <3>1. slave_queue' = Tail(slave_queue) /\ slave_armed' = Head(slave_queue)
        BY <1>8, <2>2 DEF SlaveArm
      <3>2. Head(slave_queue) # None
        BY <1>0, <2>2, TailType, SpiAssumption DEF TypeSlave
      <3>3. /\ ArmedSet' = {Head(slave_queue)}
            /\ Elems(slave_queue) = Elems(slave_queue)' \cup {Head(slave_queue)}
        BY <1>0, <2>2, <3>1, <3>2, ElemsTail DEF ArmedSet, TypeSlave
      <3>4. BehindHandle \subseteq BehindHandle'
        BY <2>1, <3>3 DEF BehindHandle
      <3>5. QED
        BY <2>1, <3>4 DEF RxWhole
    <2>3. CASE slave_queue = <<>>
      <3>1. UNCHANGED <<slave_armed, slave_queue>> /\ ArmedSet' = ArmedSet
        BY <1>8, <2>3 DEF SlaveArm, ArmedSet
      <3>2. BehindHandle' = BehindHandle
        BY <2>1, <3>1 DEF BehindHandle
      <3>3. QED
        BY <2>1, <3>2 DEF RxWhole
    <2>4. QED
      BY <2>2, <2>3
  <1>9. ASSUME NEW s \in Senders, (\E f \in HostFrames : Call(s, f)) \/ Reject(s) \/ Enqueue(s)
        PROVE  RxWhole'
    BY <1>1, <1>9 DEF Call, Reject, Enqueue, rx, slave, hist
  <1>10. ASSUME NEW p \in Procs, ReadHandshake(p) \/ ReadDataReady(p) \/ GetTxBuffer(p)
                                 \/ TakeMutex(p) \/ GiveMutex(p)
         PROVE  RxWhole'
    BY <1>1, <1>10 DEF ReadHandshake, ReadDataReady, GetTxBuffer, TakeMutex, GiveMutex, rx, slave, hist
  <1>11. CASE WaitSemaphore \/ Isr \/ UNCHANGED vars
    BY <1>1, <1>11 DEF WaitSemaphore, Isr, vars, local, rx, slave, hist
  <1>12. QED
    BY <1>2, <1>3, <1>4, <1>5, <1>6, <1>7, <1>8, <1>9, <1>10, <1>11
       DEF Next, SendToSlave, CheckAndExecute, TransactionTask, RxTask, Idle, Procs

\* In two sets of which one lies before the other there is nothing in common.
LEMMA BeforeApart ==
    ASSUME NEW X, NEW Y \in SUBSET SlaveFrames, Before(X, Y)
    PROVE  X \cap Y = {}
  <1>1. \A y \in Y : y \in Nat /\ ~(y < y)
    BY SlaveFrameNat
  <1>2. QED
    BY <1>1 DEF Before

LEMMA WholeConserves == RxInv /\ RxWhole => SlaveFramesConserved
  <1> SUFFICES ASSUME RxInv, RxWhole PROVE SlaveFramesConserved
    OBVIOUS
  <1>0. /\ TypeQueues /\ TypeTasks /\ TypeSlave /\ TypeHistory /\ LocalsOK
        /\ RxOrder /\ RxSettled /\ SlaveFrames \subseteq Nat
    BY SlaveFrameNat DEF RxInv, BusInv, TypeInv, TypeOK
  <1>1. /\ Elems(from_slave_queue) \subseteq SlaveFrames /\ Elems(slave_queue) \subseteq SlaveFrames
        /\ RxbuffSet \subseteq SlaveFrames /\ ArmedSet \subseteq SlaveFrames
        /\ HandleSet \subseteq SlaveFrames /\ delivered \cup dropped \subseteq SlaveFrames
    BY <1>0, ElemsType DEF TypeQueues, TypeTasks, TypeSlave, TypeHistory, RxbuffSet, ArmedSet,
                           HandleSet
  <1>2. BehindHandle \subseteq SlaveFrames
    BY <1>1 DEF BehindHandle
  <1>3. HandleSet # {} => rx_pc \in {"process", "free"}
    BY <1>0 DEF LocalsOK, HandleSet, TypeTasks
  <1>4. 1..slave_sent = delivered \cup dropped \cup Undecided \cup BehindHandle
    <2>1. 1..slave_sent \subseteq delivered \cup dropped \cup Undecided \cup BehindHandle
      BY <1>3 DEF RxWhole, Undecided, HandleSet
    <2>2. \A r \in delivered \cup dropped \cup HandleSet \cup BehindHandle : r <= slave_sent
      BY <1>0 DEF RxOrder, RxSettled
    <2>3. \A r \in SlaveFrames : r <= slave_sent => r \in 1..slave_sent
      BY <1>0, SlaveFrameNat DEF SlaveFrames, TypeHistory
    <2>4. Undecided \subseteq HandleSet
      BY DEF Undecided
    <2>5. delivered \cup dropped \cup Undecided \cup BehindHandle \subseteq 1..slave_sent
      BY <1>1, <1>2, <2>2, <2>3, <2>4
    <2>6. QED
      BY <2>1, <2>5
  <1>5. HandleSet \cap BehindHandle = {} /\ delivered \cap BehindHandle = {}
        /\ dropped \cap BehindHandle = {} /\ delivered \cap dropped = {}
    BY <1>0, <1>2, BeforeApart DEF RxOrder, RxSettled
  <1>6. rx_pc = "process" => (delivered \cup dropped) \cap HandleSet = {}
    BY <1>0, <1>1, BeforeApart DEF RxSettled
  <1>7. /\ Elems(from_slave_queue) \cap (RxbuffSet \cup ArmedSet \cup Elems(slave_queue)) = {}
        /\ RxbuffSet \cap (ArmedSet \cup Elems(slave_queue)) = {}
        /\ ArmedSet \cap Elems(slave_queue) = {}
    BY <1>0, <1>1, BeforeApart DEF RxOrder
  <1>8. QED
    BY <1>4, <1>5, <1>6, <1>7 DEF SlaveFramesConserved, Undecided

\* No frame of the slave vanishes or is doubled on its way through transaction,
\* queue and process_rx_task: each is in one place, delivered, or dropped for one
\* of the reasons the code has (a failed transaction, a consumer that refuses it).
THEOREM SlaveFramesAreConserved == Spec => []SlaveFramesConserved
  <1>1. Init => RxInv /\ RxWhole
    BY TypeInit, BusInit, RxInit, RxWholeInit DEF RxInv, BusInv
  <1>2. RxInv /\ RxWhole /\ [Next]_vars => RxInv' /\ RxWhole'
    BY TypeStep, BusStep, RxStep, RxWholeStep DEF RxInv, BusInv
  <1>3. QED
    BY <1>1, <1>2, WholeConserves, PTL DEF Spec

-----------------------------------------------------------------------------
(* The host's frames. *)

\* No two processes hold the same frame, and one not queued yet is new.
HeldApart ==
    /\ \A p, q \in Procs : buf[p] # None /\ buf[p] = buf[q] => p = q
    /\ \A p \in Procs : pc[p] \in {"enqueue", "reject"} => buf[p] \notin Elems(accepted)

HostInv == TypeInv /\ HostFramesConserved /\ HeldApart

LEMMA HostInit == Init => HostFramesConserved /\ HeldApart
  <1> SUFFICES ASSUME Init PROVE HostFramesConserved /\ HeldApart
    OBVIOUS
  <1>1. /\ Elems(to_slave_queue) = {} /\ Elems(accepted) = {} /\ Elems(wire) = {} /\ lost = {}
        /\ Distinct(to_slave_queue) /\ Distinct(accepted) /\ Distinct(wire) /\ InHand = {}
    BY DEF Init, Elems, Distinct, InHand
  <1>2. HeldApart
    BY <1>1 DEF Init, HeldApart
  <1>3. QED
    BY <1>1, <1>2 DEF HostFramesConserved

LEMMA HostStep == HostInv /\ [Next]_vars => (HostFramesConserved /\ HeldApart)'
  <1> SUFFICES ASSUME HostInv, [Next]_vars PROVE HostFramesConserved' /\ HeldApart'
    OBVIOUS
  <1>0. TypeQueues /\ TypeTasks /\ TypeHistory /\ LocalsOK /\ HostFramesConserved /\ HeldApart
    BY DEF HostInv, TypeInv, TypeOK
  <1>1. ASSUME NEW s \in Senders, NEW f \in HostFrames, Call(s, f)
        PROVE  HostFramesConserved' /\ HeldApart'
    <2>1. /\ pc[s] = "idle" /\ s \in Procs /\ buf' = [buf EXCEPT ![s] = f]
          /\ f \notin Elems(accepted) /\ \A p \in Procs : buf[p] # f
          /\ pc' = [pc EXCEPT ![s] = "enqueue"] \/ pc' = [pc EXCEPT ![s] = "reject"]
          /\ UNCHANGED <<to_slave_queue, accepted, wire, lost>>
      BY <1>1 DEF Call, At, Set, Goto, hist, Procs
    <2>2. InHand' = InHand
      BY <1>0, <2>1 DEF InHand, TypeTasks
    <2>3. HostFramesConserved'
      BY <1>0, <2>1, <2>2 DEF HostFramesConserved
    <2>4. HeldApart'
      BY <1>0, <2>1 DEF HeldApart, TypeTasks
    <2>5. QED
      BY <2>3, <2>4
  <1>2. ASSUME NEW s \in Senders, Reject(s) PROVE HostFramesConserved' /\ HeldApart'
    <2>1. /\ pc[s] = "reject" /\ s \in Procs /\ buf' = [buf EXCEPT ![s] = None]
          /\ pc' = [pc EXCEPT ![s] = "idle"]
          /\ UNCHANGED <<to_slave_queue, accepted, wire, lost>>
      BY <1>2 DEF Reject, At, Set, Goto, hist, Procs
    <2>2. InHand' = InHand
      BY <1>0, <2>1 DEF InHand, TypeTasks
    <2>3. HostFramesConserved'
      BY <1>0, <2>1, <2>2 DEF HostFramesConserved
    <2>4. HeldApart'
      BY <1>0, <2>1 DEF HeldApart, TypeTasks
    <2>5. QED
      BY <2>3, <2>4
  <1>3. ASSUME NEW s \in Senders, Enqueue(s) PROVE HostFramesConserved' /\ HeldApart'
    <2>1. /\ pc[s] = "enqueue" /\ s \in Procs /\ buf[s] \in HostFrames /\ buf[s] # None
          /\ buf' = [buf EXCEPT ![s] = None] /\ pc' = [pc EXCEPT ![s] = "read_handshake"]
          /\ to_slave_queue' = Append(to_slave_queue, buf[s])
          /\ accepted' = Append(accepted, buf[s])
          /\ UNCHANGED <<wire, lost>>
      BY <1>0, <1>3 DEF Enqueue, At, Set, Goto, Procs, LocalsOK, TypeTasks
    <2>2. /\ Elems(to_slave_queue)' = Elems(to_slave_queue) \cup {buf[s]}
          /\ Elems(accepted)' = Elems(accepted) \cup {buf[s]}
      BY <1>0, <2>1, ElemsAppend DEF TypeQueues, TypeHistory
    <2>3. buf[s] \notin Elems(accepted)
      BY <1>0, <2>1 DEF HeldApart
    <2>4. Distinct(to_slave_queue)' /\ Distinct(accepted)'
      BY <1>0, <2>1, <2>3, DistinctAppend DEF HostFramesConserved, TypeQueues, TypeHistory
    <2>5. InHand' = InHand
      BY <1>0, <2>1 DEF InHand, TypeTasks
    <2>6. HostFramesConserved'
      BY <1>0, <2>1, <2>2, <2>3, <2>4, <2>5 DEF HostFramesConserved
    <2>7. HeldApart'
      BY <1>0, <2>1, <2>2 DEF HeldApart, TypeTasks, LocalsOK
    <2>8. QED
      BY <2>6, <2>7
  <1>4. ASSUME NEW p \in Procs, GetTxBuffer(p) PROVE HostFramesConserved' /\ HeldApart'
    <2>1. /\ pc[p] = "get_tx_buffer" /\ buf[p] = None
          /\ UNCHANGED <<accepted, wire, lost>>
      BY <1>0, <1>4 DEF GetTxBuffer, At, LocalsOK, hist
    <2>2. CASE to_slave_queue # <<>>
      <3> DEFINE f == Head(to_slave_queue)
      <3>1. /\ to_slave_queue' = Tail(to_slave_queue) /\ buf' = [buf EXCEPT ![p] = f]
            /\ pc' = [pc EXCEPT ![p] = "take_mutex"]
        BY <1>4, <2>2 DEF GetTxBuffer, Received, Set, Goto
      <3>2. /\ Elems(to_slave_queue) = Elems(to_slave_queue)' \cup {f}
            /\ Distinct(to_slave_queue)' /\ f \notin Elems(to_slave_queue)' /\ f \in HostFrames
        BY <1>0, <2>2, <3>1, ElemsTail, DistinctTail, TailType DEF HostFramesConserved, TypeQueues
      <3>3. f # None
        BY <3>2, SpiAssumption
      <3>4. InHand' = InHand \cup {f}
        BY <1>0, <2>1, <3>1, <3>3 DEF InHand, TypeTasks
      <3>5. HostFramesConserved'
        BY <1>0, <2>1, <3>2, <3>4 DEF HostFramesConserved
      <3>6. \A q \in Procs : buf[q] # f
        <4>1. f \in Elems(accepted) /\ f \notin InHand
          BY <1>0, <3>2 DEF HostFramesConserved
        <4>2. QED
          BY <1>0, <3>3, <4>1 DEF HeldApart, LocalsOK, InHand
      <3>7. HeldApart'
        BY <1>0, <2>1, <3>1, <3>6 DEF HeldApart, TypeTasks
      <3>8. QED
        BY <3>5, <3>7
    <2>3. CASE to_slave_queue = <<>>
      <3>1. /\ pc' = [pc EXCEPT ![p] = "take_mutex"] \/ pc' = [pc EXCEPT ![p] = Returned(p)]
            /\ UNCHANGED <<to_slave_queue, buf>>
        BY <1>4, <2>3 DEF GetTxBuffer, Goto
      <3>2. InHand' = InHand
        BY <1>0, <2>1, <3>1 DEF InHand, TypeTasks, Returned
      <3>3. HostFramesConserved'
        BY <1>0, <2>1, <3>1, <3>2 DEF HostFramesConserved
      <3>4. HeldApart'
        BY <1>0, <2>1, <3>1 DEF HeldApart, TypeTasks, Returned
      <3>5. QED
        BY <3>3, <3>4
    <2>4. QED
      BY <2>2, <2>3
  <1>5. ASSUME NEW p \in Procs, Transfer(p) PROVE HostFramesConserved' /\ HeldApart'
    <2>1. /\ pc[p] = "transfer" /\ buf' = [buf EXCEPT ![p] = None]
          /\ pc' = [pc EXCEPT ![p] = "push"] \/ pc' = [pc EXCEPT ![p] = "give_mutex"]
          /\ UNCHANGED <<to_slave_queue, accepted>>
      BY <1>5 DEF Transfer, At, Set, Goto
    <2>2. InHand' = InHand \ {buf[p]} /\ (buf[p] # None => buf[p] \in InHand)
      BY <1>0, <2>1 DEF InHand, TypeTasks, HeldApart
    <2>3. ASSUME buf[p] # None, wire' = Append(wire, buf[p]), UNCHANGED lost
          PROVE  HostFramesConserved'
      <3>1. buf[p] \in HostFrames /\ buf[p] \notin Elems(wire)
        BY <1>0, <2>2, <2>3 DEF TypeTasks, HostFramesConserved
      <3>2. Elems(wire)' = Elems(wire) \cup {buf[p]} /\ Distinct(wire)'
        BY <1>0, <2>3, <3>1, ElemsAppend, DistinctAppend DEF HostFramesConserved, TypeHistory
      <3>3. QED
        BY <1>0, <2>1, <2>2, <2>3, <3>2 DEF HostFramesConserved
    <2>4. ASSUME lost' = lost \cup Optional({buf[p]}, buf[p]), UNCHANGED wire
          PROVE  HostFramesConserved'
      <3>1. CASE buf[p] # None
        BY <1>0, <2>1, <2>2, <2>4, <3>1 DEF HostFramesConserved, Optional
      <3>2. CASE buf[p] = None
        <4>1. InHand' = InHand /\ lost' = lost
          BY <2>2, <2>4, <3>2 DEF InHand, Optional
        <4>2. QED
          BY <1>0, <2>1, <2>4, <4>1 DEF HostFramesConserved
      <3>3. QED
        BY <3>1, <3>2
    <2>5. HostFramesConserved'
      BY <1>5, <2>3, <2>4 DEF Transfer, HostFrameOutcome
    <2>6. HeldApart'
      BY <1>0, <2>1 DEF HeldApart, TypeTasks
    <2>7. QED
      BY <2>5, <2>6
  <1>6. ASSUME NEW p \in Procs, TakeMutex(p) PROVE HostFramesConserved' /\ HeldApart'
    <2>1. /\ pc[p] = "take_mutex" /\ pc' = [pc EXCEPT ![p] = "transfer"]
          /\ UNCHANGED <<to_slave_queue, buf, accepted, wire, lost>>
      BY <1>6 DEF TakeMutex, At, Goto, hist
    <2>2. InHand' = InHand
      BY <1>0, <2>1 DEF InHand, TypeTasks
    <2>3. QED
      BY <1>0, <2>1, <2>2 DEF HostFramesConserved, HeldApart, TypeTasks
  <1>7. ASSUME NEW p \in Procs, NEW l \in Labels \ {"enqueue", "reject", "take_mutex", "transfer"},
               pc[p] \notin {"enqueue", "reject", "take_mutex", "transfer"},
               pc' = [pc EXCEPT ![p] = l],
               UNCHANGED <<to_slave_queue, buf, accepted, wire, lost>>
        PROVE  HostFramesConserved' /\ HeldApart'
    <2>1. InHand' = InHand
      BY <1>0, <1>7 DEF InHand, TypeTasks
    <2>2. QED
      BY <1>0, <1>7, <2>1 DEF HostFramesConserved, HeldApart, TypeTasks
  <1>8. ASSUME NEW p \in Procs,
               ReadHandshake(p) \/ ReadDataReady(p) \/ Push(p) \/ GiveMutex(p)
        PROVE  HostFramesConserved' /\ HeldApart'
    <2>1. CASE ReadHandshake(p)
      BY <1>7, <2>1 DEF ReadHandshake, At, Goto, Returned, Labels, hist
    <2>2. CASE ReadDataReady(p)
      BY <1>7, <2>2 DEF ReadDataReady, At, Goto, Labels, hist
    <2>3. CASE Push(p)
      BY <1>7, <2>3 DEF Push, At, Goto, Labels, hist
    <2>4. CASE GiveMutex(p)
      BY <1>7, <2>4 DEF GiveMutex, At, Goto, Returned, Labels, hist
    <2>5. QED
      BY <1>8, <2>1, <2>2, <2>3, <2>4
  <1>9. CASE WaitSemaphore
    BY <1>7, <1>9 DEF WaitSemaphore, At, Goto, Labels, Procs, hist
  <1>10. CASE RxTask \/ Isr \/ SlaveSend \/ SlaveArm \/ UNCHANGED vars
    <2>1. UNCHANGED <<pc, buf, to_slave_queue, accepted, wire, lost>>
      BY <1>10 DEF RxTask, RxReceive, RxProcess, RxFree, Isr, SlaveSend, SlaveArm, vars, local, hist
    <2>2. QED
      BY <1>0, <2>1 DEF HostFramesConserved, HeldApart, InHand
  <1>11. QED
    BY <1>1, <1>2, <1>3, <1>4, <1>5, <1>6, <1>8, <1>9, <1>10
       DEF Next, SendToSlave, CheckAndExecute, TransactionTask, Idle, Procs

\* A frame accepted by send_to_slave is at any time in exactly one place - the
\* queue, one process, the slave, or lost - and reaches the slave at most once.
THEOREM FramesConserved == Spec => []HostFramesConserved
  <1>1. Init => HostInv
    BY TypeInit, HostInit DEF HostInv
  <1>2. HostInv /\ [Next]_vars => HostInv'
    BY TypeStep, HostStep DEF HostInv
  <1>3. HostInv => HostFramesConserved
    BY DEF HostInv
  <1>4. QED
    BY <1>1, <1>2, <1>3, PTL DEF Spec

\* The queue is the tail of what was accepted.
QueueIsSuffix ==
    /\ Len(to_slave_queue) <= Len(accepted)
    /\ \A k \in 1..Len(to_slave_queue) :
           to_slave_queue[k] = accepted[Len(accepted) - Len(to_slave_queue) + k]

LEMMA SuffixStep == TypeInv /\ QueueIsSuffix /\ [Next]_vars => QueueIsSuffix'
  <1> SUFFICES ASSUME TypeInv, QueueIsSuffix, [Next]_vars PROVE QueueIsSuffix'
    OBVIOUS
  <1>0. to_slave_queue \in Seq(HostFrames) /\ accepted \in Seq(HostFrames)
    BY DEF TypeInv, TypeOK, TypeQueues, TypeHistory
  <1>1. ASSUME NEW s \in Senders, Enqueue(s) PROVE QueueIsSuffix'
    <2>1. /\ to_slave_queue' = Append(to_slave_queue, buf[s])
          /\ accepted' = Append(accepted, buf[s])
      BY <1>1 DEF Enqueue
    <2>2. buf[s] \in HostFrames
      BY <1>1 DEF Enqueue, At, Procs, TypeInv, LocalsOK, TypeOK, TypeTasks
    <2>3. Len(to_slave_queue') = Len(to_slave_queue) + 1 /\ Len(accepted') = Len(accepted) + 1
      BY <1>0, <2>1, <2>2
    <2>4. ASSUME NEW k \in 1..Len(to_slave_queue')
          PROVE  to_slave_queue'[k] = accepted'[Len(accepted') - Len(to_slave_queue') + k]
      <3>1. Len(to_slave_queue) \in Nat /\ Len(accepted) \in Nat
        BY <1>0
      <3>2. CASE k \in 1..Len(to_slave_queue)
        <4> DEFINE m == Len(accepted) - Len(to_slave_queue) + k
        <4>1. m \in 1..Len(accepted) /\ to_slave_queue[k] = accepted[m]
          BY <3>1, <3>2 DEF QueueIsSuffix
        <4>2. to_slave_queue'[k] = to_slave_queue[k] /\ accepted'[m] = accepted[m]
          BY <1>0, <2>1, <2>2, <3>2, <4>1
        <4>3. Len(accepted') - Len(to_slave_queue') + k = m
          BY <2>3, <3>1, <3>2
        <4>4. QED
          BY <4>1, <4>2, <4>3
      <3>3. CASE k = Len(to_slave_queue) + 1
        <4>1. to_slave_queue'[k] = buf[s] /\ accepted'[Len(accepted) + 1] = buf[s]
          BY <1>0, <2>1, <2>2, <3>3
        <4>2. Len(accepted') - Len(to_slave_queue') + k = Len(accepted) + 1
          BY <2>3, <3>1, <3>3
        <4>3. QED
          BY <4>1, <4>2
      <3>4. QED
        BY <2>3, <3>1, <3>2, <3>3
    <2>5. QED
      BY <1>0, <2>3, <2>4 DEF QueueIsSuffix
  <1>2. ASSUME NEW p \in Procs, GetTxBuffer(p) PROVE QueueIsSuffix'
    <2>1. CASE to_slave_queue # <<>>
      <3>1. to_slave_queue' = Tail(to_slave_queue) /\ accepted' = accepted
        BY <1>2, <2>1 DEF GetTxBuffer, Received, hist
      <3>2. QED
        BY <1>0, <2>1, <3>1 DEF QueueIsSuffix
    <2>2. CASE to_slave_queue = <<>>
      BY <1>2, <2>2 DEF GetTxBuffer, QueueIsSuffix, hist
    <2>3. QED
      BY <2>1, <2>2
  <1>3. CASE UNCHANGED <<to_slave_queue, accepted>>
    BY <1>3 DEF QueueIsSuffix
  <1>4. ASSUME NEW s \in Senders, NEW f \in HostFrames, Call(s, f)
        PROVE  UNCHANGED <<to_slave_queue, accepted>>
    BY <1>4 DEF Call, hist
  <1>5. ASSUME NEW p \in Procs,
               \/ Reject(p) \/ ReadHandshake(p) \/ ReadDataReady(p) \/ TakeMutex(p)
               \/ Transfer(p) \/ Push(p) \/ GiveMutex(p)
        PROVE  UNCHANGED <<to_slave_queue, accepted>>
    BY <1>5 DEF Reject, ReadHandshake, ReadDataReady, TakeMutex, Transfer, Push, GiveMutex, hist
  <1>6. CASE WaitSemaphore \/ RxTask \/ Isr \/ SlaveSend \/ SlaveArm \/ UNCHANGED vars
    BY <1>3, <1>6 DEF WaitSemaphore, RxTask, RxReceive, RxProcess, RxFree, Isr, SlaveSend,
                      SlaveArm, vars, local, hist
  <1>7. QED
    BY <1>1, <1>2, <1>3, <1>4, <1>5, <1>6
       DEF Next, SendToSlave, CheckAndExecute, TransactionTask, Idle, Procs

\* A frame that has left the queue left behind every frame accepted before it:
\* these are on the wire, lost, or still in the hands of one process.
THEOREM OnlyHandsOvertake == Spec => []OnlyFramesInHandOvertaken
  <1>1. Init => HostInv /\ QueueIsSuffix
    BY TypeInit, HostInit DEF HostInv, Init, QueueIsSuffix
  <1>2. HostInv /\ QueueIsSuffix /\ [Next]_vars => (HostInv /\ QueueIsSuffix)'
    BY TypeStep, HostStep, SuffixStep DEF HostInv
  <1>3. HostInv /\ QueueIsSuffix => OnlyFramesInHandOvertaken
    <2> DEFINE Gone == Elems(wire) \cup lost \cup InHand
               first == Len(accepted) - Len(to_slave_queue)
    <2> SUFFICES ASSUME HostInv, QueueIsSuffix,
                        NEW i \in 1..Len(accepted), NEW j \in 1..Len(accepted),
                        i < j, accepted[j] \in Gone, accepted[i] \notin Gone
                 PROVE  FALSE
      BY DEF OnlyFramesInHandOvertaken
    <2>0. /\ to_slave_queue \in Seq(HostFrames) /\ accepted \in Seq(HostFrames)
          /\ HostFramesConserved
      BY DEF HostInv, TypeInv, TypeOK, TypeQueues, TypeHistory
    <2>1. accepted[i] \in Elems(to_slave_queue)
      BY <2>0 DEF HostFramesConserved, Elems
    <2>2. PICK k \in 1..Len(to_slave_queue) : to_slave_queue[k] = accepted[i]
      BY <2>1 DEF Elems
    <2>3. first \in Nat /\ first + k \in 1..Len(accepted) /\ accepted[first + k] = accepted[i]
      BY <2>0, <2>2 DEF QueueIsSuffix
    <2>4. i = first + k
      BY <2>0, <2>3 DEF HostFramesConserved, Distinct
    <2>5. j - first \in 1..Len(to_slave_queue) /\ first + (j - first) = j
      BY <2>0, <2>3, <2>4
    <2>6. to_slave_queue[j - first] = accepted[j]
      BY <2>0, <2>5 DEF QueueIsSuffix
    <2>7. accepted[j] \in Elems(to_slave_queue)
      BY <2>5, <2>6 DEF Elems
    <2>8. QED
      BY <2>0, <2>7 DEF HostFramesConserved
  <1>4. QED
    BY <1>1, <1>2, <1>3, PTL DEF Spec
-----------------------------------------------------------------------------
(* The driver implements the full-duplex link of SpiLink. *)

LinkInv == RxInv /\ HostInv

LEMMA LinkElems == \A q : Link!Elems(q) = Elems(q)
  BY DEF Link!Elems, Elems

LEMMA LinkInit == Init => Link!Init
  BY DEF Init, Link!Init

\* A frame in the hands of a process is in transit.
LEMMA HeldInTransit ==
    ASSUME LinkInv, NEW p \in Procs, At(p, "transfer"), buf[p] # None
    PROVE  buf[p] \in Link!InTransit
  <1>1. HostFramesConserved /\ buf[p] \in InHand
    BY DEF LinkInv, HostInv, InHand, At
  <1>2. QED
    BY <1>1, LinkElems DEF HostFramesConserved, Link!InTransit

\* A slave frame that is still on its way is pending.
LEMMA BehindPending ==
    ASSUME LinkInv, NEW r, \/ r \in BehindHandle
                           \/ rx_pc = "process" /\ r \in HandleSet
    PROVE  /\ r \in Link!Pending
           /\ \A d \in delivered : d < r
  <1>0. RxOrder /\ RxSettled /\ TypeHistory
    BY DEF LinkInv, RxInv, HostInv, TypeInv, TypeOK
  <1>1. \A d \in delivered : d < r
    BY <1>0 DEF RxSettled, Before
  <1>2. r \in SlaveFrames /\ r \notin delivered
    <2>1. TypeQueues /\ TypeTasks /\ TypeSlave
      BY DEF LinkInv, HostInv, TypeInv, TypeOK
    <2>2. r \in SlaveFrames
      BY <2>1, ElemsType DEF BehindHandle, HandleSet, RxbuffSet, ArmedSet, TypeQueues, TypeTasks,
                             TypeSlave
    <2>3. QED
      BY <1>1, <2>2, SlaveFrameNat
  <1>3. r \notin dropped
    BY <1>0 DEF RxSettled
  <1>4. r <= slave_sent /\ slave_sent \in Nat
    BY <1>0, SlaveFrameNat DEF RxOrder, TypeHistory
  <1>5. r \in 1..slave_sent
    BY <1>2, <1>4, SlaveFrameNat DEF SlaveFrames
  <1>6. QED
    BY <1>1, <1>2, <1>3, <1>5 DEF Link!Pending

LEMMA LinkStep == LinkInv /\ [Next]_vars => [Link!Next]_(Link!vars)
  <1> SUFFICES ASSUME LinkInv, [Next]_vars PROVE Link!Next \/ UNCHANGED Link!vars
    OBVIOUS
  <1>0. TypeTasks /\ TypeSlave /\ LocalsOK /\ HeldApart
    BY DEF LinkInv, HostInv, TypeInv, TypeOK
  <1>1. ASSUME NEW s \in Senders, Enqueue(s) PROVE Link!Next
    <2>1. /\ buf[s] \in HostFrames /\ buf[s] \notin Elems(accepted)
          /\ accepted' = Append(accepted, buf[s])
          /\ UNCHANGED <<wire, lost, slave_sent, delivered, dropped>>
      BY <1>0, <1>1 DEF Enqueue, At, LocalsOK, HeldApart, TypeTasks, Procs
    <2>2. Link!Accept(buf[s])
      BY <2>1, LinkElems DEF Link!Accept
    <2>3. QED
      BY <2>1, <2>2 DEF Link!Next
  <1>2. ASSUME NEW p \in Procs, Transfer(p) PROVE Link!Next
    <2>1. At(p, "transfer") /\ UNCHANGED <<accepted, slave_sent, delivered>>
      BY <1>2 DEF Transfer
    <2>2. Link!Outgoing
      <3>1. \/ buf[p] # None /\ wire' = Append(wire, buf[p]) /\ UNCHANGED lost
            \/ lost' = lost \cup Optional({buf[p]}, buf[p]) /\ UNCHANGED wire
        BY <1>2 DEF Transfer, HostFrameOutcome
      <3>2. CASE buf[p] = None
        BY <3>1, <3>2 DEF Optional, Link!Outgoing
      <3>3. CASE buf[p] # None
        <4>1. buf[p] \in Link!InTransit
          BY <2>1, <3>3, HeldInTransit
        <4>2. QED
          BY <3>1, <3>3, <4>1 DEF Optional, Link!Outgoing
      <3>4. QED
        BY <3>2, <3>3
    <2>3. Link!Incoming
      <3>1. UNCHANGED dropped \/ dropped' = dropped \cup Optional({slave_armed}, slave_armed)
        BY <1>2 DEF Transfer
      <3>2. CASE slave_armed = None
        BY <3>1, <3>2 DEF Optional, Link!Incoming
      <3>3. CASE slave_armed # None
        <4>1. slave_armed \in SlaveFrames /\ slave_armed \in BehindHandle
          BY <1>0, <3>3 DEF TypeSlave, BehindHandle, ArmedSet
        <4>2. slave_armed \in Link!Pending
          BY <4>1, BehindPending
        <4>3. QED
          BY <3>1, <3>3, <4>2 DEF Optional, Link!Incoming
      <3>4. QED
        BY <3>2, <3>3
    <2>4. QED
      BY <2>1, <2>2, <2>3 DEF Link!Exchange, Link!Next
  <1>3. CASE RxProcess
    <2>1. /\ rx_pc = "process" /\ rx_handle \in SlaveFrames /\ rx_handle \in HandleSet
          /\ UNCHANGED <<accepted, wire, lost, slave_sent>>
      BY <1>0, <1>3 DEF RxProcess, LocalsOK, TypeTasks, HandleSet
    <2>2. rx_handle \in Link!Pending /\ \A d \in delivered : d < rx_handle
      BY <2>1, BehindPending
    <2>3. Delivers \/ Drops
      BY <1>3 DEF RxProcess, RxSerial, RxNet, RxPrivInit
    <2>4. CASE Delivers
      BY <2>1, <2>2, <2>4 DEF Delivers, Link!Deliver, Link!Next
    <2>5. CASE Drops
      BY <2>1, <2>2, <2>5 DEF Drops, Link!Outgoing, Link!Incoming, Link!Exchange, Link!Next
    <2>6. QED
      BY <2>3, <2>4, <2>5
  <1>4. CASE SlaveSend
    BY <1>4 DEF SlaveSend, Link!SlaveSends, Link!Next
  <1>5. ASSUME UNCHANGED hist PROVE UNCHANGED Link!vars
    BY <1>5 DEF hist, Link!vars
  <1>6. ASSUME NEW s \in Senders, (\E f \in HostFrames : Call(s, f)) \/ Reject(s)
        PROVE  UNCHANGED Link!vars
    BY <1>5, <1>6 DEF Call, Reject
  <1>7. ASSUME NEW p \in Procs, ReadHandshake(p) \/ ReadDataReady(p) \/ GetTxBuffer(p)
                                \/ TakeMutex(p) \/ Push(p) \/ GiveMutex(p)
        PROVE  UNCHANGED Link!vars
    BY <1>5, <1>7 DEF ReadHandshake, ReadDataReady, GetTxBuffer, TakeMutex, Push, GiveMutex
  <1>8. CASE WaitSemaphore \/ RxReceive \/ RxFree \/ Isr \/ SlaveArm \/ UNCHANGED vars
    BY <1>5, <1>8 DEF WaitSemaphore, RxReceive, RxFree, Isr, SlaveArm, vars
  <1>9. QED
    BY <1>1, <1>2, <1>3, <1>4, <1>6, <1>7, <1>8
       DEF Next, SendToSlave, CheckAndExecute, TransactionTask, RxTask, Idle, Procs

\* spi_drv.c implements SpiLink: a host frame arrives at most once or is lost,
\* and slave frames reach their upper layer at most once and in order, whatever
\* the tasks, the queues and the slave do.
THEOREM LinkImplemented == Spec => ImplementsLink
  <1>1. Init => LinkInv
    BY TypeInit, BusInit, RxInit, HostInit DEF LinkInv, RxInv, BusInv, HostInv
  <1>2. LinkInv /\ [Next]_vars => LinkInv'
    BY TypeStep, BusStep, RxStep, HostStep DEF LinkInv, RxInv, BusInv, HostInv
  <1>3. QED
    BY <1>1, <1>2, LinkInit, LinkStep, PTL DEF Spec, ImplementsLink, Link!Spec
=============================================================================
