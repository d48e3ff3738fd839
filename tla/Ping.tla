--------------------------------- MODULE Ping ----------------------------------
(***************************************************************************)
(* ping_cmd.c: the task of a ping sends echo requests one after another    *)
(* and counts what comes back to its raw socket.  The socket receives      *)
(* every ICMP packet: answers to these requests in time or late, and also  *)
(* answers to an earlier ping, requests of a board that pings with the     *)
(* same identifier, and packets with another identifier.                   *)
(***************************************************************************)
EXTENDS LwipSockets, FiniteSets, Sequences

CONSTANTS Count,            \* requests of a ping; 3 in the code
          MboxSize,         \* packets the socket holds; DEFAULT_RAW_RECVMBOX_SIZE
          CounterValues,    \* values of a counter; 2^32 in the code
          MaxPings, MaxForeign  \* bounds

ASSUME PingAssumption ==
    /\ Count \in Nat \ {0} /\ MboxSize \in Nat \ {0}
    /\ CounterValues \in Nat /\ Count < CounterValues
    /\ MaxPings \in Nat /\ MaxForeign \in Nat

VARIABLES is_ping_ongoing,
          ping,             \* the place of the task, or "none"
          pings,            \* tasks started so far
          ping_seq_num, residual_count, send_count, ping_recv_num, ping_lost_num,
          recvmbox,         \* sequence numbers in the packets the socket holds; 0
                            \* in those with another identifier
          unanswered,       \* requests on the way, whose answer may still come
          foreign,          \* packets of others with this identifier, in this ping
          unclosed          \* sockets left by pings that found no memory

counters == <<ping_seq_num, residual_count, send_count, ping_recv_num, ping_lost_num>>
pingvars == <<is_ping_ongoing, ping, pings, counters, recvmbox, unanswered, foreign, unclosed>>

PingTypeOK ==
    /\ is_ping_ongoing \in BOOLEAN
    /\ ping \in {"none", "socket", "malloc", "send", "recv", "sleep", "end"}
    /\ pings \in 0..MaxPings
    /\ ping_seq_num \in 0..Count /\ residual_count \in 0..Count /\ send_count \in 0..Count
    /\ ping_recv_num \in 0..(CounterValues - 1) /\ ping_lost_num \in 0..(CounterValues - 1)
    /\ recvmbox \in Seq(0..Count) /\ Len(recvmbox) <= MboxSize
    /\ unanswered \subseteq 1..Count
    /\ foreign \in 0..MaxForeign /\ unclosed \in Nat

PingInit ==
    /\ is_ping_ongoing = FALSE /\ ping = "none" /\ pings = 0
    /\ ping_seq_num = 0 /\ residual_count = 0 /\ send_count = 0
    /\ ping_recv_num = 0 /\ ping_lost_num = 0
    /\ recvmbox = <<>> /\ unanswered = {} /\ foreign = 0 /\ unclosed = 0

--------------------------------------------------------------------------------
\* ping_request in the CLI: whether the task was created is not looked at.
PingRequest ==
    /\ cli = "idle" /\ ~is_ping_ongoing /\ pings < MaxPings
    /\ pings' = pings + 1
    /\ is_ping_ongoing' = TRUE
    /\ ping' \in {"socket", "none"}
    /\ UNCHANGED <<counters, recvmbox, unanswered, foreign, unclosed, netconns, cli>>

\* ping_thread.  A socket may be missing although the pool has one: it needs a
\* mailbox and other memory too.
PingSocket ==
    /\ ping = "socket"
    /\ \/ /\ HasSocket
          /\ netconns' = netconns + 1 /\ ping' = "malloc"
          /\ UNCHANGED is_ping_ongoing
       \/ /\ is_ping_ongoing' = FALSE /\ ping' = "none"
          /\ UNCHANGED netconns
    /\ UNCHANGED <<pings, counters, recvmbox, unanswered, foreign, unclosed, cli>>

PingMalloc ==
    /\ ping = "malloc"
    /\ \/ /\ ping' = "send"
          /\ ping_seq_num' = 0 /\ residual_count' = Count /\ send_count' = 0
          /\ ping_recv_num' = 0 /\ ping_lost_num' = 0
          /\ UNCHANGED <<is_ping_ongoing, recvmbox, unanswered, foreign, unclosed>>
       \/ /\ is_ping_ongoing' = FALSE /\ ping' = "none"
          /\ unclosed' = unclosed + 1
          /\ recvmbox' = <<>> /\ unanswered' = {} /\ foreign' = 0
          /\ UNCHANGED counters
    /\ UNCHANGED <<pings, netconns, cli>>

\* ping_send: a request that could not be sent has its number all the same.
PingSend ==
    /\ ping = "send"
    /\ ping_seq_num' = ping_seq_num + 1
    /\ \/ /\ ping' = "recv"
          /\ send_count' = send_count + 1
          /\ unanswered' = unanswered \cup {ping_seq_num + 1}
       \/ /\ ping' = "sleep"
          /\ UNCHANGED <<send_count, unanswered>>
    /\ UNCHANGED <<is_ping_ongoing, pings, residual_count, ping_recv_num, ping_lost_num,
                   recvmbox, foreign, unclosed, netconns, cli>>

Add(counter, n) == (counter + n) % CounterValues

\* A packet with another number than the last request's is taken for a late answer.
LateAnswer ==
    /\ ping_recv_num' = Add(ping_recv_num, 1)
    /\ ping_lost_num' = Add(ping_lost_num, CounterValues - 1)

Mutant_Ours(seq) == TRUE
Ours(seq) == seq # 0

\* ping_recv takes a packet.
PingRecv ==
    /\ ping = "recv" /\ recvmbox # <<>>
    /\ recvmbox' = Tail(recvmbox)
    /\ CASE Head(recvmbox) = ping_seq_num ->
              /\ ping' = "sleep"
              /\ ping_recv_num' = Add(ping_recv_num, 1) /\ UNCHANGED ping_lost_num
         [] Head(recvmbox) # ping_seq_num /\ Ours(Head(recvmbox)) ->
              LateAnswer /\ UNCHANGED ping
         [] OTHER -> UNCHANGED <<ping, ping_recv_num, ping_lost_num>>
    /\ UNCHANGED <<is_ping_ongoing, pings, ping_seq_num, residual_count, send_count,
                   unanswered, foreign, unclosed, netconns, cli>>

\* ping_recv waited recv_timeout for a packet in vain.
Mutant_TimesOut == FALSE
TimesOut == recvmbox = <<>>

PingTimeout ==
    /\ ping = "recv" /\ TimesOut
    /\ ping_lost_num' = Add(ping_lost_num, 1)
    /\ ping' = "sleep"
    /\ UNCHANGED <<is_ping_ongoing, pings, ping_seq_num, residual_count, send_count,
                   ping_recv_num, recvmbox, unanswered, foreign, unclosed, netconns, cli>>

Residual == residual_count - 1

PingSleep ==
    /\ ping = "sleep"
    /\ residual_count' = Residual
    /\ ping' = IF Residual = 0 THEN "end" ELSE "send"
    /\ UNCHANGED <<is_ping_ongoing, pings, ping_seq_num, send_count, ping_recv_num,
                   ping_lost_num, recvmbox, unanswered, foreign, unclosed, netconns, cli>>

\* The result is printed, the socket closed.
PingEnd ==
    /\ ping = "end"
    /\ netconns' = netconns - 1
    /\ recvmbox' = <<>> /\ unanswered' = {} /\ foreign' = 0
    /\ ping_seq_num' = 0 /\ residual_count' = 0 /\ send_count' = 0
    /\ ping_recv_num' = 0 /\ ping_lost_num' = 0
    /\ is_ping_ongoing' = FALSE /\ ping' = "none"
    /\ UNCHANGED <<pings, unclosed, cli>>

PingThread == \/ PingSocket \/ PingMalloc \/ PingSend \/ PingRecv \/ PingTimeout
              \/ PingSleep \/ PingEnd

--------------------------------------------------------------------------------
\* lwIP and the network

Receives == ping \in {"malloc", "send", "recv", "sleep", "end"} /\ Len(recvmbox) < MboxSize

\* An answer comes, in time or late.  One that is lost, or finds the socket's
\* mailbox full, stays in unanswered.
Answer ==
    /\ Receives
    /\ \E seq \in unanswered :
          /\ recvmbox' = Append(recvmbox, seq)
          /\ unanswered' = unanswered \ {seq}
    /\ UNCHANGED <<is_ping_ongoing, ping, pings, counters, foreign, unclosed, netconns, cli>>

\* An answer to an earlier ping, a duplicate, or another board's request
Foreign ==
    /\ Receives /\ foreign < MaxForeign
    /\ \E seq \in 1..Count : recvmbox' = Append(recvmbox, seq)
    /\ foreign' = foreign + 1
    /\ UNCHANGED <<is_ping_ongoing, ping, pings, counters, unanswered, unclosed, netconns, cli>>

\* A packet with another identifier
Noise ==
    /\ Receives
    /\ recvmbox' = Append(recvmbox, 0)
    /\ UNCHANGED <<is_ping_ongoing, ping, pings, counters, unanswered, foreign, unclosed,
                   netconns, cli>>

PingNext == PingRequest \/ PingThread \/ Answer \/ Foreign \/ Noise

--------------------------------------------------------------------------------
\* When nothing of others comes in between, the requests counted as lost are
\* those without an answer that was read, however late and in whatever order the
\* others were answered; the counter never wraps below zero.
LostAreUnanswered ==
    ping \in {"send", "recv", "sleep", "end"} /\ foreign = 0 =>
        ping_lost_num + (IF ping = "recv" THEN 1 ELSE 0)
            = Cardinality(unanswered) + Cardinality({k \in 1..Len(recvmbox) : recvmbox[k] # 0})
=============================================================================
