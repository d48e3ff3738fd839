--------------------------------- MODULE Iperf ---------------------------------
(***************************************************************************)
(* iperf.c: a session is a traffic task, which owns the buffer and the     *)
(* sockets, and a report task, which ends the session when its time is     *)
(* over.  They share s_iperf_ctrl with the CLI, which starts a session and *)
(* may abort it.  The report task sleeps between its looks at finish; the  *)
(* next session may start meanwhile.                                       *)
(*                                                                         *)
(* The report task has the highest priority and the CLI the lowest: what a *)
(* task does between two calls that block is one step.                     *)
(***************************************************************************)
EXTENDS LwipSockets, FiniteSets, Sequences

CONSTANTS Modes,            \* what the sessions may be
          Intervals,        \* intervals a report lasts: time / interval
          Backlog,          \* connections that may wait to be accepted
          MaxSessions       \* bound

ASSUME IperfAssumption ==
    /\ Modes \subseteq {"udp_client", "udp_server", "tcp_client", "tcp_server"}
    /\ Intervals \in Nat \ {0} /\ Backlog \in Nat \ {0} /\ MaxSessions \in Nat

VARIABLES s_iperf_is_running, finish, buffer,
          session,          \* sessions started so far
          mode,             \* of the last session
          traffic,          \* the place of its traffic task, or "none"
          sockfd,           \* whether the traffic task has its listening or client socket
          acceptmbox,       \* of the listening socket: connections, and failed ones
          reporting,        \* whether this session created its report task
          report,           \* of each session: the place of its report task, and
                            \* the intervals it has left
          accepted,         \* connections accepted so far
          ender             \* of each session: the one whose report set finish first,
                            \* or 0 if that was the CLI, the traffic task or nobody

iperf == <<s_iperf_is_running, finish, buffer, session, mode, traffic, sockfd, acceptmbox,
           reporting, report, accepted, ender>>

Sessions == 1..MaxSessions

IperfTypeOK ==
    /\ s_iperf_is_running \in BOOLEAN /\ finish \in BOOLEAN
    /\ buffer \in {"NULL", "allocated"}
    /\ session \in 0..MaxSessions /\ mode \in Modes \cup {"none"}
    /\ traffic \in {"none", "open", "connect", "accept", "recv", "send", "exit", "free", "end"}
    /\ sockfd \in BOOLEAN
    /\ acceptmbox \in Seq({"connection", "ERR_ABRT"}) /\ Len(acceptmbox) <= Backlog
    /\ reporting \in BOOLEAN
    /\ report \in [Sessions -> [pc : {"none", "created", "asleep", "average"},
                                left : 0..Intervals]]
    /\ accepted \in Nat
    /\ ender \in [Sessions -> {0} \cup Sessions]

IperfInit ==
    /\ s_iperf_is_running = FALSE /\ finish = FALSE /\ buffer = "NULL"
    /\ session = 0 /\ mode = "none"
    /\ traffic = "none" /\ sockfd = FALSE /\ acceptmbox = <<>>
    /\ reporting = FALSE
    /\ report = [i \in Sessions |-> [pc |-> "none", left |-> 0]]
    /\ accepted = 0 /\ ender = [i \in Sessions |-> 0]

SetFinish(who) ==
    /\ finish' = TRUE
    /\ ender' = IF finish THEN ender ELSE [ender EXCEPT ![session] = who]

--------------------------------------------------------------------------------
\* The CLI

Mutant_MayStart == TRUE
MayStart == ~s_iperf_is_running

\* iperf_start: without memory for the buffer or the task the session does not
\* begin, but s_iperf_is_running stays set.
IperfStart ==
    /\ cli = "idle" /\ MayStart /\ session < MaxSessions
    /\ \E m \in Modes : mode' = m
    /\ session' = session + 1
    /\ s_iperf_is_running' = TRUE /\ finish' = FALSE /\ reporting' = FALSE
    /\ \/ buffer' = "allocated" /\ traffic' = "open"
       \/ buffer' = "NULL" /\ UNCHANGED traffic
    /\ UNCHANGED <<sockfd, acceptmbox, report, accepted, ender, netconns, cli>>

\* iperf_stop looks at s_iperf_is_running again and again.
IperfStop ==
    /\ cli = "idle"
    /\ IF s_iperf_is_running THEN SetFinish(0) /\ cli' = "stopping"
                             ELSE UNCHANGED <<finish, ender, cli>>
    /\ UNCHANGED <<s_iperf_is_running, buffer, session, mode, traffic, sockfd, acceptmbox,
                   reporting, report, accepted, netconns>>

IperfStopped ==
    /\ cli = "stopping"
    /\ cli' = IF s_iperf_is_running THEN "stopping" ELSE "idle"
    /\ UNCHANGED <<iperf, netconns>>

--------------------------------------------------------------------------------
\* The traffic task

\* socket, setsockopt, bind and listen, any of which may fail
Open ==
    /\ traffic = "open"
    /\ \/ /\ HasSocket
          /\ sockfd' = TRUE /\ netconns' = netconns + 1
          /\ \/ traffic' = CASE mode = "udp_client" -> "send" [] mode = "udp_server" -> "recv"
                             [] mode = "tcp_client" -> "connect" [] mode = "tcp_server" -> "accept"
             \/ traffic' = "exit"
       \/ traffic' = "exit" /\ UNCHANGED <<sockfd, netconns>>
    /\ UNCHANGED <<s_iperf_is_running, finish, buffer, session, mode, acceptmbox, reporting,
                   report, accepted, ender, cli>>

Connect ==
    /\ traffic = "connect"
    /\ traffic' \in {"send", "exit"}
    /\ UNCHANGED <<s_iperf_is_running, finish, buffer, session, mode, sockfd, acceptmbox,
                   reporting, report, accepted, ender, netconns, cli>>

\* accept_function in lwIP: a peer connects and takes a socket, if it gets one.
PeerConnects ==
    /\ mode = "tcp_server" /\ traffic \in {"accept", "recv"} /\ Len(acceptmbox) < Backlog
    /\ \/ /\ HasSocket
          /\ acceptmbox' = Append(acceptmbox, "connection") /\ netconns' = netconns + 1
       \/ acceptmbox' = Append(acceptmbox, "ERR_ABRT") /\ UNCHANGED netconns
    /\ UNCHANGED <<s_iperf_is_running, finish, buffer, session, mode, traffic, sockfd,
                   reporting, report, accepted, ender, cli>>

\* accept waits without a time-out.
Accept ==
    /\ traffic = "accept" /\ acceptmbox # <<>>
    /\ acceptmbox' = Tail(acceptmbox)
    /\ IF Head(acceptmbox) = "connection"
       THEN traffic' = "recv" /\ accepted' = accepted + 1
       ELSE traffic' = "exit" /\ UNCHANGED accepted
    /\ UNCHANGED <<s_iperf_is_running, finish, buffer, session, mode, sockfd, reporting,
                   report, ender, netconns, cli>>

\* iperf_start_report: whether it succeeded is not looked at.
StartReport ==
    IF reporting
    THEN UNCHANGED <<reporting, report>>
    ELSE /\ reporting' = TRUE
         /\ \/ report' = [report EXCEPT ![session] = [pc |-> "created", left |-> Intervals]]
            \/ UNCHANGED report

Mutant_Sees(f) == FALSE
Sees(f) == f

\* The loop of socket_recv: data, or an error or time-out.
Recv ==
    /\ traffic = "recv"
    /\ IF Sees(finish)
       THEN traffic' = "exit" /\ UNCHANGED <<reporting, report, finish, ender>>
       ELSE \/ StartReport /\ UNCHANGED <<traffic, finish, ender>>
            \/ traffic' = "exit" /\ SetFinish(0) /\ UNCHANGED <<reporting, report>>
    /\ UNCHANGED <<s_iperf_is_running, buffer, session, mode, sockfd, acceptmbox, accepted,
                   netconns, cli>>

\* The loop of socket_send.  UDP goes on after any error, TCP ends.
Send ==
    /\ traffic = "send"
    /\ IF ~reporting
       THEN StartReport /\ UNCHANGED traffic
       ELSE /\ \/ Sees(finish) /\ traffic' = "exit"
               \/ ~Sees(finish) /\ mode = "tcp_client" /\ traffic' = "exit"
               \/ ~Sees(finish) /\ UNCHANGED traffic
            /\ UNCHANGED <<reporting, report>>
    /\ UNCHANGED <<s_iperf_is_running, finish, buffer, session, mode, sockfd, acceptmbox,
                   accepted, ender, netconns, cli>>

Waiting == Cardinality({k \in 1..Len(acceptmbox) : acceptmbox[k] = "connection"})
Mutant_Closed == IF sockfd /\ mode # "tcp_client" THEN 1 + Waiting ELSE 0
Closed == IF sockfd THEN 1 + Waiting ELSE 0

\* exit: the socket is closed with what waits in it, not the accepted one.
Exit ==
    /\ traffic = "exit"
    /\ netconns' = netconns - Closed
    /\ sockfd' = FALSE /\ acceptmbox' = <<>>
    /\ SetFinish(0)
    /\ traffic' = "free"
    /\ UNCHANGED <<s_iperf_is_running, buffer, session, mode, reporting, report, accepted, cli>>

Free ==
    /\ traffic = "free"
    /\ buffer' = "NULL"
    /\ traffic' = "end"
    /\ UNCHANGED <<s_iperf_is_running, finish, session, mode, sockfd, acceptmbox, reporting,
                   report, accepted, ender, netconns, cli>>

End ==
    /\ traffic = "end"
    /\ s_iperf_is_running' = FALSE
    /\ traffic' = "none"
    /\ UNCHANGED <<finish, buffer, session, mode, sockfd, acceptmbox, reporting, report,
                   accepted, ender, netconns, cli>>

Traffic == Open \/ Connect \/ Accept \/ Recv \/ Send \/ Exit \/ Free \/ End

--------------------------------------------------------------------------------
\* iperf_report_task of session i.  It may wait for the console where it prints.

ReportGoto(i, place) == report' = [report EXCEPT ![i].pc = place]
Mutant_ReportEnds(i) ==
    SetFinish(i) /\ report' = [report EXCEPT ![i].pc = IF finish THEN "none" ELSE "average"]
ReportEnds(i) ==
    SetFinish(i) /\ report' = [report EXCEPT ![i] = [pc |-> "none", left |-> 0]]

ReportBegin(i) ==
    /\ report[i].pc = "created"
    /\ IF finish THEN ReportEnds(i)
                 ELSE ReportGoto(i, "asleep") /\ UNCHANGED <<finish, ender>>
    /\ UNCHANGED <<s_iperf_is_running, buffer, session, mode, traffic, sockfd, acceptmbox,
                   reporting, accepted, netconns, cli>>

Mutant_Left(i) == report[i].left
Left(i) == report[i].left - 1

ReportInterval(i) ==
    /\ report[i].pc = "asleep"
    /\ IF Left(i) = 0
       THEN /\ report' = [report EXCEPT ![i] = [pc |-> "average", left |-> 0]]
            /\ UNCHANGED <<finish, ender>>
       ELSE IF finish THEN ReportEnds(i)
       ELSE /\ report' = [report EXCEPT ![i].left = Left(i)]
            /\ UNCHANGED <<finish, ender>>
    /\ UNCHANGED <<s_iperf_is_running, buffer, session, mode, traffic, sockfd, acceptmbox,
                   reporting, accepted, netconns, cli>>

ReportAverage(i) ==
    /\ report[i].pc = "average"
    /\ ReportEnds(i)
    /\ UNCHANGED <<s_iperf_is_running, buffer, session, mode, traffic, sockfd, acceptmbox,
                   reporting, accepted, netconns, cli>>

Report(i) == ReportBegin(i) \/ ReportInterval(i) \/ ReportAverage(i)

--------------------------------------------------------------------------------
IperfNext == \/ IperfStart \/ IperfStop \/ IperfStopped
             \/ Traffic \/ PeerConnects
             \/ \E i \in Sessions : Report(i)
=============================================================================
