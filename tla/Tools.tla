--------------------------------- MODULE Tools ---------------------------------
(* The two tools at once: they compete for the sockets of lwIP, and the CLI is *)
(* not there for one while it waits for the other.                             *)
EXTENDS Iperf, Ping

vars == <<iperf, pingvars, netconns, cli>>

Init == SocketsInit /\ IperfInit /\ PingInit
Next == \/ IperfNext /\ UNCHANGED pingvars
        \/ PingNext /\ UNCHANGED iperf

Spec == Init /\ [][Next]_vars

\* Ready tasks run.  Every wait of the traffic task ends but two: accept, and
\* send when the TCP peer takes no data.  Nobody has to connect, answer or type.
FairTraffic == Traffic /\ ~(traffic = "send" /\ mode = "tcp_client" /\ reporting)
FairSpec ==
    /\ Spec
    /\ WF_vars(FairTraffic /\ UNCHANGED pingvars)
    /\ \A i \in Sessions : WF_vars(Report(i) /\ UNCHANGED pingvars)
    /\ WF_vars(IperfStopped /\ UNCHANGED pingvars)
    /\ WF_vars(PingThread /\ UNCHANGED iperf)

--------------------------------------------------------------------------------
TypeOK == SocketsTypeOK /\ IperfTypeOK /\ PingTypeOK

\* The buffer of iperf is allocated exactly as long as a traffic task uses it:
\* it is neither leaked nor freed under the task of another session.
BufferOwned ==
    /\ buffer = "allocated" <=> traffic \notin {"none", "end"}
    /\ traffic # "none" => s_iperf_is_running

\* Every socket is open in a task that will close it, but for the connections
\* iperf accepted and those of pings without memory, which nobody closes.
SocketsAccounted ==
    netconns = (IF sockfd THEN 1 ELSE 0) + Waiting + accepted
                   + (IF ping \in {"malloc", "send", "recv", "sleep", "end"} THEN 1 ELSE 0)
                   + unclosed

\* A session is ended by the report of another one only if that was an earlier
\* one that had been cut short: a report that ends its own session is gone.
CutShortOnly ==
    \A i, j \in Sessions : ender[i] = j /\ i # j => j < i /\ ender[j] # j

\* Where a traffic task may wait for ever for its peer, or was never created.
WaitsForPeer == traffic = "accept" \/ (traffic = "send" /\ mode = "tcp_client")
NeverBegan == s_iperf_is_running /\ traffic = "none"

\* "-a" returns, unless the session never began or waits for its peer.
AbortReturns == []<>(cli = "idle" \/ NeverBegan \/ WaitsForPeer)

\* A session that has a report, or was told to finish, ends, unless it waits for
\* its peer; one without, whose report could not be created, may go on for ever.
SessionEnds ==
    []<>(\/ ~s_iperf_is_running \/ NeverBegan \/ WaitsForPeer
         \/ (~finish /\ report[session].pc = "none"))

\* A ping ends if its task was created and packets of others do not come for
\* ever: each of them begins the time-out anew.
PingEnds == <>[][~Noise]_vars => []<>(~is_ping_ongoing \/ ping = "none")
=============================================================================
