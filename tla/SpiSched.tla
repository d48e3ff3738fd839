------------------------------ MODULE SpiSched ------------------------------
(***************************************************************************)
(* SpiDriver under the scheduler of this build (FreeRTOSConfig.h): fixed   *)
(* priorities with preemption, interrupts before every task, mutexes with  *)
(* priority inheritance.  transaction_task and process_rx_task have        *)
(* osPriorityAboveNormal (spi_drv.c:310-318), the senders less.            *)
(***************************************************************************)
EXTENDS SpiDriver

TransactionReady ==
    CASE At(transaction_task, "wait")       -> osSemaphore
      [] At(transaction_task, "take_mutex") -> mutex_spi_trans = None
      [] At(transaction_task, "push")       -> Len(from_slave_queue) < FROM_SLAVE_QUEUE_SIZE
      [] OTHER                              -> TRUE

RxReady == rx_pc # "receive" \/ from_slave_queue # <<>>

\* While transaction_task waits for the mutex its holder has its priority.
Boosted(s) == mutex_spi_trans = s /\ At(transaction_task, "take_mutex")

SenderRuns(s) == Boosted(s) \/ ~(TransactionReady \/ RxReady)

SchedTransactionTask == exti = {} /\ TransactionTask
SchedRxTask == exti = {} /\ RxTask
SchedSender(s) == exti = {} /\ SenderRuns(s) /\ SendToSlave(s)

SchedNext == \/ \E s \in Senders :
                   \/ SchedSender(s)
                   \/ exti = {} /\ SenderRuns(s) /\ \E f \in HostFrames : Call(s, f)
             \/ SchedTransactionTask
             \/ SchedRxTask
             \/ Isr
             \/ SlaveSend \/ SlaveArm
             \/ Idle

SchedSpec == Init /\ [][SchedNext]_vars

\* The tasks are scheduled fairly, pending interrupts run, and the slave
\* re-arms after every transaction.
Fairness == /\ \A s \in Senders : WF_vars(SchedSender(s))
            /\ WF_vars(SchedTransactionTask) /\ WF_vars(SchedRxTask)
            /\ WF_vars(Isr) /\ WF_vars(SlaveArm)

FairSpec == SchedSpec /\ Fairness

\* Every frame a sender hands to send_to_slave leaves the driver: whatever the
\* order of interrupts, checks and transactions, none waits for ever in the queue.
AcceptedFramesLeave ==
    \A f \in HostFrames : f \in Elems(accepted) ~> f \in Elems(wire) \cup lost

\* Every frame the slave queues is fetched and reaches its upper layer or is
\* dropped: a raised data-ready line is always served in the end.
SlaveFramesServed ==
    \A r \in SlaveFrames : r <= slave_sent ~> r \in delivered \cup dropped

\* send_to_slave always returns: no task waits for ever for room in a queue or
\* for the mutex, although the mutex is held across a blocking xQueueSend.
SendReturns == \A s \in Senders : pc[s] # "idle" ~> pc[s] = "idle"
=============================================================================
