------------------------------ MODULE ToolsProofs ------------------------------
(***************************************************************************)
(* Proofs about iperf and ping, for any number of sessions, pings and      *)
(* requests and any size of lwIP's pools.                                  *)
(***************************************************************************)
EXTENDS Tools, FiniteSetTheorems, TLAPS

\* The session's task, its socket and its buffer come and go together.
SessionInv ==
    /\ BufferOwned
    /\ s_iperf_is_running => session \in Sessions /\ mode \in Modes
    /\ traffic \in {"connect", "accept", "recv", "send"} => sockfd
    /\ sockfd => traffic \in {"connect", "accept", "recv", "send", "exit"}
    /\ acceptmbox # <<>> => sockfd

\* A session creates at most one report task, which ends once; no session but
\* those already started has one, or has been ended.
ReportInv ==
    /\ \A i \in Sessions : report[i].pc \in {"created", "asleep"} => report[i].left # 0
    /\ \A i \in Sessions : session < i => report[i].pc = "none" /\ ender[i] = 0
    /\ \A i \in Sessions :
          i = session /\ ~reporting => report[i].pc = "none" /\ ender[i] # i
    /\ \A i \in Sessions : ender[i] = i => report[i].pc = "none"
    /\ CutShortOnly

\* The positions of a queue that hold one of the values V.
Places(q, V) == {k \in 1..Len(q) : q[k] \in V}
Echoes == Places(recvmbox, 1..Count)

\* How far a ping is with its requests.
RequestsInv ==
    /\ ping = "send" => ping_seq_num + residual_count = Count /\ residual_count # 0
    /\ ping \in {"recv", "sleep"} =>
          ping_seq_num + residual_count = Count + 1 /\ residual_count # 0
    /\ ping \in {"send", "recv", "sleep", "end"} => send_count <= ping_seq_num

\* A ping's socket and answers belong to this ping; the request it waits for has
\* its answer on the way or in the socket.
AnswersInv ==
    /\ ping # "none" => is_ping_ongoing
    /\ ping \in {"none", "socket"} => recvmbox = <<>> /\ foreign = 0
    /\ ping \in {"none", "socket", "malloc"} => unanswered = {} /\ (foreign = 0 => Echoes = {})
    /\ ping \in {"send", "recv", "sleep", "end"} => unanswered \subseteq 1..ping_seq_num
    /\ ping = "recv" /\ foreign = 0 =>
          ping_seq_num \in unanswered \/ Places(recvmbox, {ping_seq_num}) # {}

IInv == /\ TypeOK /\ SessionInv /\ ReportInv /\ SocketsAccounted
        /\ RequestsInv /\ AnswersInv /\ LostAreUnanswered

--------------------------------------------------------------------------------
(* Places of a queue. *)

LEMMA PlacesFinite ==
    ASSUME NEW S, NEW q \in Seq(S), NEW V
    PROVE  IsFiniteSet(Places(q, V)) /\ Cardinality(Places(q, V)) \in Nat
  <1>1. Len(q) \in Nat
    OBVIOUS
  <1>2. IsFiniteSet(1..Len(q))
    BY <1>1, FS_Interval
  <1>3. Places(q, V) \in SUBSET (1..Len(q))
    BY DEF Places
  <1>4. IsFiniteSet(Places(q, V))
    BY <1>2, <1>3, FS_Subset
  <1>5. QED
    BY <1>4, FS_CardinalityType

LEMMA PlacesEmpty == \A V : Places(<<>>, V) = {} /\ Cardinality(Places(<<>>, V)) = 0
  <1>1. \A V : Places(<<>>, V) = {}
    BY DEF Places
  <1>2. QED
    BY <1>1, FS_EmptySet

LEMMA PlacesAppend ==
    ASSUME NEW S, NEW q \in Seq(S), NEW x \in S, NEW V
    PROVE  /\ x \in V => Places(Append(q, x), V) = Places(q, V) \cup {Len(q) + 1}
           /\ x \notin V => Places(Append(q, x), V) = Places(q, V)
           /\ Cardinality(Places(Append(q, x), V))
                = Cardinality(Places(q, V)) + (IF x \in V THEN 1 ELSE 0)
  <1> DEFINE a == Append(q, x)
  <1>1. /\ Len(q) \in Nat /\ Len(a) = Len(q) + 1
        /\ \A k \in 1..Len(a) : a[k] = IF k = Len(q) + 1 THEN x ELSE q[k]
    OBVIOUS
  <1> HIDE DEF a
  <1>2. x \in V => Places(a, V) = Places(q, V) \cup {Len(q) + 1}
    BY <1>1 DEF Places
  <1>3. x \notin V => Places(a, V) = Places(q, V)
    BY <1>1 DEF Places
  <1>4. Len(q) + 1 \notin Places(q, V)
    BY <1>1 DEF Places
  <1>5. Cardinality(Places(a, V)) = Cardinality(Places(q, V)) + (IF x \in V THEN 1 ELSE 0)
    <2>1. IsFiniteSet(Places(q, V)) /\ Cardinality(Places(q, V)) \in Nat
      BY PlacesFinite
    <2>2. CASE x \in V
      <3>1. Cardinality(Places(q, V) \cup {Len(q) + 1}) = Cardinality(Places(q, V)) + 1
        BY <2>1, <1>4, FS_AddElement
      <3>2. QED
        BY <3>1, <2>2, <1>2
    <2>3. CASE x \notin V
      BY <2>1, <2>3, <1>3
    <2>4. QED
      BY <2>2, <2>3
  <1>6. QED
    BY <1>2, <1>3, <1>5 DEF a

LEMMA PlacesTail ==
    ASSUME NEW S, NEW q \in Seq(S), q # <<>>, NEW V
    PROVE  /\ Places(Tail(q), V) = {k - 1 : k \in Places(q, V) \ {1}}
           /\ 1 \in Places(q, V) <=> Head(q) \in V
           /\ Cardinality(Places(q, V))
                = Cardinality(Places(Tail(q), V)) + (IF Head(q) \in V THEN 1 ELSE 0)
  <1> DEFINE t == Tail(q)
             P == Places(q, V) \ {1}
             f == [k \in P |-> k - 1]
  <1>1. /\ Len(q) \in Nat /\ Len(q) # 0 /\ Len(t) = Len(q) - 1 /\ t \in Seq(S)
        /\ \A k \in 1..Len(t) : t[k] = q[k + 1]
        /\ Head(q) = q[1]
    OBVIOUS
  <1> HIDE DEF t
  <1>2. Places(t, V) = {k - 1 : k \in P}
    <2>1. ASSUME NEW k \in Places(t, V) PROVE k \in {j - 1 : j \in P}
      <3>1. k \in 1..Len(t) /\ t[k] \in V
        BY <2>1 DEF Places
      <3>2. k + 1 \in 1..Len(q) /\ q[k + 1] \in V /\ k + 1 # 1 /\ (k + 1) - 1 = k
        BY <3>1, <1>1
      <3>3. QED
        BY <3>2 DEF Places
    <2>2. ASSUME NEW j \in P PROVE j - 1 \in Places(t, V)
      <3>1. j \in 1..Len(q) /\ q[j] \in V /\ j # 1
        BY <2>2 DEF Places
      <3>2. j - 1 \in 1..Len(t) /\ (j - 1) + 1 = j
        BY <3>1, <1>1
      <3>3. QED
        BY <3>1, <3>2, <1>1 DEF Places
    <2>3. QED
      BY <2>1, <2>2
  <1>3. 1 \in Places(q, V) <=> Head(q) \in V
    BY <1>1 DEF Places
  <1>4. IsFiniteSet(Places(q, V)) /\ Cardinality(Places(q, V)) \in Nat
    BY PlacesFinite
  <1>5. IsFiniteSet(P) /\ Cardinality(P) = IF 1 \in Places(q, V)
                                           THEN Cardinality(Places(q, V)) - 1
                                           ELSE Cardinality(Places(q, V))
    BY <1>4, FS_RemoveElement
  <1>6. Cardinality(Places(t, V)) = Cardinality(P)
    <2>1. P \subseteq Int
      BY DEF Places
    <2> HIDE DEF P
    <2>2. f \in [P -> Places(t, V)]
      BY <1>2
    <2>3. \A j, k \in P : f[j] = f[k] => j = k
      BY <2>1
    <2>4. \A k \in Places(t, V) : \E j \in P : f[j] = k
      BY <1>2
    <2>5. f \in Bijection(P, Places(t, V))
      BY <2>2, <2>3, <2>4 DEF Bijection, Injection, Surjection, IsInjective
    <2>6. ExistsBijection(P, Places(t, V))
      BY <2>5 DEF ExistsBijection
    <2>7. QED
      BY <2>6, <1>5, FS_Bijection
  <1>7. QED
    <2>1. Cardinality(Places(q, V)) = Cardinality(Places(t, V)) + (IF Head(q) \in V THEN 1 ELSE 0)
      BY <1>3, <1>4, <1>5, <1>6
    <2>2. QED
      BY <2>1, <1>2, <1>3 DEF t

--------------------------------------------------------------------------------
(* iperf *)

LEMMA SetFinishType ==
    ASSUME IperfTypeOK, NEW who \in {0} \cup Sessions, SetFinish(who)
    PROVE  finish' \in BOOLEAN /\ ender' \in [Sessions -> {0} \cup Sessions]
  BY DEF SetFinish, IperfTypeOK

LEMMA StartReportType ==
    ASSUME IperfTypeOK, StartReport
    PROVE  /\ reporting' \in BOOLEAN
           /\ report' \in [Sessions -> [pc : {"none", "created", "asleep", "average"},
                                        left : 0..Intervals]]
  <1>1. [pc |-> "created", left |-> Intervals]
           \in [pc : {"none", "created", "asleep", "average"}, left : 0..Intervals]
    BY IperfAssumption
  <1>2. QED
    BY <1>1 DEF StartReport, IperfTypeOK

\* What the end of a report leaves: the report is gone, and the session it ends is
\* the present one, unless that has finished already.
LEMMA ReportEndsType ==
    ASSUME IperfTypeOK, NEW i \in Sessions, ReportEnds(i)
    PROVE  /\ finish' \in BOOLEAN /\ ender' \in [Sessions -> {0} \cup Sessions]
           /\ report' \in [Sessions -> [pc : {"none", "created", "asleep", "average"},
                                        left : 0..Intervals]]
           /\ report'[i].pc = "none"
           /\ \A k \in Sessions \ {i} : report'[k] = report[k]
  <1>1. SetFinish(i) /\ report' = [report EXCEPT ![i] = [pc |-> "none", left |-> 0]]
    BY DEF ReportEnds
  <1>2. [pc |-> "none", left |-> 0]
           \in [pc : {"none", "created", "asleep", "average"}, left : 0..Intervals]
    BY IperfAssumption
  <1>3. finish' \in BOOLEAN /\ ender' \in [Sessions -> {0} \cup Sessions]
    BY <1>1, SetFinishType
  <1>4. QED
    BY <1>1, <1>2, <1>3 DEF IperfTypeOK

LEMMA ReportStepType ==
    ASSUME IperfTypeOK, ReportInv, NEW i \in Sessions, Report(i)
    PROVE  /\ finish' \in BOOLEAN /\ ender' \in [Sessions -> {0} \cup Sessions]
           /\ report' \in [Sessions -> [pc : {"none", "created", "asleep", "average"},
                                        left : 0..Intervals]]
           /\ \/ ReportEnds(i)
              \/ /\ UNCHANGED <<finish, ender>>
                 /\ report[i].pc # "none"
                 /\ report'[i].pc \in {"created", "asleep"} => report'[i].left # 0
                 /\ \A k \in Sessions \ {i} : report'[k] = report[k]
  <1> DEFINE T == [pc : {"none", "created", "asleep", "average"}, left : 0..Intervals]
  <1>1. /\ report \in [Sessions -> T] /\ Intervals \in Nat
        /\ finish \in BOOLEAN /\ ender \in [Sessions -> {0} \cup Sessions]
    BY IperfAssumption DEF IperfTypeOK
  <1>2. CASE ReportEnds(i)
    BY <1>2, ReportEndsType
  <1>3. CASE report[i].pc = "created" /\ ReportGoto(i, "asleep") /\ UNCHANGED <<finish, ender>>
    <2>1. report[i].left # 0
      BY <1>3 DEF ReportInv
    <2>2. report' = [report EXCEPT ![i].pc = "asleep"]
      BY <1>3 DEF ReportGoto
    <2>3. report' \in [Sessions -> T] /\ report'[i].pc = "asleep" /\ report'[i].left = report[i].left
      BY <2>2, <1>1
    <2>4. QED
      BY <2>1, <2>2, <2>3, <1>1, <1>3
  <1>4. CASE /\ report[i].pc = "asleep" /\ UNCHANGED <<finish, ender>>
             /\ report' = [report EXCEPT ![i] = [pc |-> "average", left |-> 0]]
    BY <1>4, <1>1
  <1>5. CASE /\ report[i].pc = "asleep" /\ Left(i) # 0 /\ UNCHANGED <<finish, ender>>
             /\ report' = [report EXCEPT ![i].left = Left(i)]
    <2>1. report[i].left # 0
      BY <1>5 DEF ReportInv
    <2>2. report[i].left \in 0..Intervals
      BY <1>1
    <2>3. Left(i) \in 0..Intervals
      BY <2>1, <2>2, <1>1 DEF Left
    <2>4. report' \in [Sessions -> T] /\ report'[i].left = Left(i)
      BY <2>3, <1>1, <1>5
    <2>5. QED
      BY <2>4, <1>1, <1>5
  <1>6. QED
    BY <1>2, <1>3, <1>4, <1>5 DEF Report, ReportBegin, ReportInterval, ReportAverage

LEMMA TrafficModes ==
    ASSUME IperfTypeOK, SessionInv, Open
    PROVE  traffic' \in {"send", "recv", "connect", "accept", "exit"}
  BY IperfAssumption DEF Open, IperfTypeOK, SessionInv, BufferOwned

LEMMA IperfTypeStep ==
    ASSUME IperfTypeOK, SessionInv, ReportInv, IperfNext
    PROVE  IperfTypeOK'
  <1> USE IperfAssumption DEF IperfTypeOK
  <1>1. CASE IperfStart
    <2>1. session + 1 \in 0..MaxSessions
      BY <1>1 DEF IperfStart
    <2>2. QED
      BY <2>1, <1>1 DEF IperfStart
  <1>2. CASE IperfStop
    <2>1. finish' \in BOOLEAN /\ ender' \in [Sessions -> {0} \cup Sessions]
      BY <1>2, SetFinishType DEF IperfStop
    <2>2. QED
      BY <2>1, <1>2 DEF IperfStop
  <1>3. CASE IperfStopped
    BY <1>3 DEF IperfStopped, iperf
  <1>4. CASE Open
    <2>1. sockfd' \in BOOLEAN
      BY <1>4 DEF Open
    <2>2. QED
      BY <2>1, <1>4, TrafficModes DEF Open
  <1>5. CASE Connect
    BY <1>5 DEF Connect
  <1>6. CASE Accept
    <2>1. /\ Tail(acceptmbox) \in Seq({"connection", "ERR_ABRT"})
          /\ Len(Tail(acceptmbox)) <= Backlog
      BY <1>6 DEF Accept
    <2>2. QED
      BY <2>1, <1>6 DEF Accept
  <1>7. CASE PeerConnects
    <2>1. \A x \in {"connection", "ERR_ABRT"} :
             /\ Append(acceptmbox, x) \in Seq({"connection", "ERR_ABRT"})
             /\ Len(Append(acceptmbox, x)) <= Backlog
      BY <1>7 DEF PeerConnects
    <2>2. acceptmbox' \in Seq({"connection", "ERR_ABRT"}) /\ Len(acceptmbox') <= Backlog
      BY <2>1, <1>7 DEF PeerConnects
    <2>3. QED
      BY <2>2, <1>7 DEF PeerConnects
  <1>8. CASE Recv
    <2>1. finish' \in BOOLEAN /\ ender' \in [Sessions -> {0} \cup Sessions]
      BY <1>8, SetFinishType DEF Recv
    <2>2. /\ reporting' \in BOOLEAN
          /\ report' \in [Sessions -> [pc : {"none", "created", "asleep", "average"},
                                       left : 0..Intervals]]
      BY <1>8, StartReportType DEF Recv
    <2>3. QED
      BY <2>1, <2>2, <1>8 DEF Recv
  <1>9. CASE Send
    <2>1. /\ reporting' \in BOOLEAN
          /\ report' \in [Sessions -> [pc : {"none", "created", "asleep", "average"},
                                       left : 0..Intervals]]
      BY <1>9, StartReportType DEF Send
    <2>2. QED
      BY <2>1, <1>9 DEF Send
  <1>10. CASE Exit
    <2>1. finish' \in BOOLEAN /\ ender' \in [Sessions -> {0} \cup Sessions]
      BY <1>10, SetFinishType DEF Exit
    <2>2. acceptmbox' = <<>> /\ sockfd' = FALSE /\ traffic' = "free"
      BY <1>10 DEF Exit
    <2>3. acceptmbox' \in Seq({"connection", "ERR_ABRT"}) /\ Len(acceptmbox') <= Backlog
      BY <2>2
    <2>4. QED
      BY <2>1, <2>2, <2>3, <1>10 DEF Exit
  <1>11. CASE Free \/ End
    BY <1>11 DEF Free, End
  <1>12. ASSUME NEW i \in Sessions, Report(i) PROVE IperfTypeOK'
    BY <1>12, ReportStepType DEF Report, ReportBegin, ReportInterval, ReportAverage
  <1>13. QED
    BY <1>1, <1>2, <1>3, <1>4, <1>5, <1>6, <1>7, <1>8, <1>9, <1>10, <1>11, <1>12
       DEF IperfNext, Traffic

LEMMA SessionStep ==
    ASSUME IperfTypeOK, SessionInv, IperfNext
    PROVE  SessionInv'
  <1> USE DEF IperfTypeOK, SessionInv, BufferOwned
  <1>1. CASE IperfStart
    <2>1. traffic = "none" /\ ~sockfd /\ acceptmbox = <<>>
      BY <1>1 DEF IperfStart, MayStart
    <2>2. session' \in Sessions
      BY <1>1, IperfAssumption DEF IperfStart, Sessions
    <2>3. s_iperf_is_running' /\ mode' \in Modes /\ UNCHANGED <<sockfd, acceptmbox>>
      BY <1>1 DEF IperfStart
    <2>4. \/ buffer' = "allocated" /\ traffic' = "open"
          \/ buffer' = "NULL" /\ traffic' = "none"
      BY <2>1, <1>1 DEF IperfStart
    <2>5. QED
      BY <2>1, <2>2, <2>3, <2>4
  <1>2. CASE IperfStop \/ IperfStopped
    BY <1>2 DEF IperfStop, IperfStopped, iperf
  <1>3. CASE Open
    <2>1. /\ traffic' \in {"send", "recv", "connect", "accept", "exit"}
          /\ traffic' # "exit" => sockfd'
      BY <1>3, TrafficModes DEF Open
    <2>2. QED
      BY <2>1, <1>3 DEF Open
  <1>4. CASE Connect \/ PeerConnects
    BY <1>4 DEF Connect, PeerConnects
  <1>5. CASE Accept
    BY <1>5 DEF Accept
  <1>6. CASE Recv
    BY <1>6 DEF Recv
  <1>7. CASE Send
    BY <1>7 DEF Send
  <1>8. CASE Exit
    BY <1>8 DEF Exit
  <1>9. CASE Free \/ End
    BY <1>9 DEF Free, End
  <1>10. ASSUME NEW i \in Sessions, Report(i) PROVE SessionInv'
    BY <1>10 DEF Report, ReportBegin, ReportInterval, ReportAverage
  <1>11. QED
    BY <1>1, <1>2, <1>3, <1>4, <1>5, <1>6, <1>7, <1>8, <1>9, <1>10 DEF IperfNext, Traffic

\* Whoever sets finish first has its number recorded; a report that does so is
\* gone, and its number is recorded for its own session or a later one.
LEMMA ReportEndsStep ==
    ASSUME IperfTypeOK, ReportInv, NEW i \in Sessions, report[i].pc # "none",
           ReportEnds(i), UNCHANGED <<session, reporting>>
    PROVE  ReportInv'
  <1> USE DEF IperfTypeOK, ReportInv, CutShortOnly
  <1>1. /\ report'[i].pc = "none"
        /\ \A k \in Sessions \ {i} : report'[k] = report[k]
        /\ ender' = IF finish THEN ender ELSE [ender EXCEPT ![session] = i]
    BY ReportEndsType DEF ReportEnds, SetFinish
  <1>2. /\ session \in Sessions /\ i <= session /\ ender[i] # i
        /\ i = session => reporting
    BY DEF Sessions
  <1>3. \A k \in Sessions : ender'[k] = IF finish \/ k # session THEN ender[k] ELSE i
    BY <1>1, <1>2
  <1>4. \A k \in Sessions : k # i => report'[k] = report[k]
    BY <1>1
  <1>5. \A k \in Sessions : report'[k].pc \in {"created", "asleep"} => report'[k].left # 0
    BY <1>1, <1>4
  <1>6. \A k \in Sessions : session < k => report'[k].pc = "none" /\ ender'[k] = 0
    BY <1>1, <1>3, <1>4 DEF Sessions
  <1>7. \A k \in Sessions : k = session /\ ~reporting => report'[k].pc = "none" /\ ender'[k] # k
    BY <1>1, <1>2, <1>3, <1>4
  <1>8. \A k \in Sessions : ender'[k] = k => report'[k].pc = "none"
    BY <1>1, <1>2, <1>3, <1>4
  <1>9. \A k, j \in Sessions : ender'[k] = j /\ k # j => j < k /\ ender'[j] # j
    <2> SUFFICES ASSUME NEW k \in Sessions, NEW j \in Sessions, ender'[k] = j, k # j
                 PROVE  j < k /\ ender'[j] # j
      OBVIOUS
    <2>1. CASE finish \/ k # session
      <3>1. j < k /\ ender[j] # j
        BY <2>1, <1>3
      <3>2. k <= session
        BY <2>1, <1>3 DEF Sessions
      <3>3. j # session
        BY <3>1, <3>2 DEF Sessions
      <3>4. QED
        BY <3>1, <3>3, <1>3
    <2>2. CASE ~finish /\ k = session
      <3>1. j = i
        BY <2>2, <1>3
      <3>2. j < k
        BY <3>1, <2>2, <1>2 DEF Sessions
      <3>3. ender'[j] = ender[j]
        BY <2>2, <1>3
      <3>4. QED
        BY <3>1, <3>2, <3>3, <1>2
    <2>3. QED
      BY <2>1, <2>2
  <1>10. QED
    BY <1>5, <1>6, <1>7, <1>8, <1>9

\* The CLI and the traffic task set finish for nobody.
LEMMA FinishForNobody ==
    ASSUME IperfTypeOK, ReportInv, SetFinish(0), UNCHANGED <<session, report, reporting>>
    PROVE  ReportInv'
  <1> USE DEF IperfTypeOK, ReportInv, CutShortOnly
  <1>1. \A k \in Sessions : ender'[k] = ender[k] \/ ender'[k] = 0
    BY DEF SetFinish
  <1>2. 0 \notin Sessions
    BY DEF Sessions
  <1>3. \A k, j \in Sessions : ender'[k] = j => ender[k] = j
    BY <1>1, <1>2
  <1>4. \A k \in Sessions : session < k => ender'[k] = 0
    BY <1>1
  <1>5. QED
    BY <1>1, <1>2, <1>3, <1>4

LEMMA StartReportStep ==
    ASSUME IperfTypeOK, ReportInv, StartReport, session \in Sessions,
           UNCHANGED <<session, finish, ender>>
    PROVE  ReportInv'
  <1> USE DEF IperfTypeOK, ReportInv, CutShortOnly
  <1>1. CASE UNCHANGED report
    BY <1>1 DEF StartReport
  <1>2. CASE /\ ~reporting /\ reporting'
             /\ report' = [report EXCEPT ![session] = [pc |-> "created", left |-> Intervals]]
    <2>1. /\ report'[session] = [pc |-> "created", left |-> Intervals]
          /\ \A k \in Sessions \ {session} : report'[k] = report[k]
      BY <1>2
    <2>2. Intervals # 0 /\ ender[session] # session
      BY <1>2, IperfAssumption
    <2>3. QED
      BY <2>1, <2>2, <1>2 DEF Sessions
  <1>3. QED
    BY <1>1, <1>2 DEF StartReport

LEMMA ReportStep ==
    ASSUME IperfTypeOK, SessionInv, ReportInv, IperfNext
    PROVE  ReportInv'
  <1>1. CASE IperfStart
    <2>1. UNCHANGED <<report, ender>> /\ session' = session + 1 /\ session \in Nat
      BY <1>1 DEF IperfStart, IperfTypeOK
    <2>2. \A i \in Sessions : i = session' => report[i].pc = "none" /\ ender[i] = 0 /\ i # 0
      BY <2>1 DEF ReportInv, Sessions
    <2>3. \A i \in Sessions : session' < i => session < i
      BY <2>1 DEF Sessions
    <2>4. QED
      BY <2>1, <2>2, <2>3 DEF ReportInv, CutShortOnly
  <1>2. CASE UNCHANGED <<session, report, reporting, ender>>
    BY <1>2 DEF ReportInv, CutShortOnly
  <1>3. CASE SetFinish(0) /\ UNCHANGED <<session, report, reporting>>
    BY <1>3, FinishForNobody
  <1>4. CASE StartReport /\ traffic # "none" /\ UNCHANGED <<session, finish, ender>>
    <2>1. session \in Sessions
      BY <1>4 DEF SessionInv, BufferOwned
    <2>2. QED
      BY <2>1, <1>4, StartReportStep
  <1>5. ASSUME NEW i \in Sessions, Report(i) PROVE ReportInv'
    <2>1. UNCHANGED <<session, reporting>> /\ report[i].pc # "none"
      BY <1>5 DEF Report, ReportBegin, ReportInterval, ReportAverage
    <2>2. CASE ReportEnds(i)
      BY <2>1, <2>2, ReportEndsStep
    <2>3. CASE /\ UNCHANGED <<finish, ender>>
               /\ report'[i].pc \in {"created", "asleep"} => report'[i].left # 0
               /\ \A k \in Sessions \ {i} : report'[k] = report[k]
      <3>1. \A k \in Sessions : k # i => report'[k] = report[k]
        BY <2>3
      <3>2. QED
        BY <2>1, <2>3, <3>1 DEF ReportInv, CutShortOnly
    <2>4. QED
      BY <2>2, <2>3, <1>5, ReportStepType
  <1>6. CASE IperfStop \/ IperfStopped
    BY <1>6, <1>2, <1>3 DEF IperfStop, IperfStopped, iperf
  <1>7. CASE Open \/ Connect \/ Accept \/ PeerConnects \/ Free \/ End
    BY <1>7, <1>2 DEF Open, Connect, Accept, PeerConnects, Free, End
  <1>8. CASE Recv
    BY <1>8, <1>2, <1>3, <1>4 DEF Recv
  <1>9. CASE Send
    BY <1>9, <1>2, <1>4 DEF Send
  <1>10. CASE Exit
    BY <1>10, <1>3 DEF Exit
  <1>11. QED
    BY <1>1, <1>5, <1>6, <1>7, <1>8, <1>9, <1>10 DEF IperfNext, Traffic

--------------------------------------------------------------------------------
(* The sockets *)

Connections(q) == Cardinality(Places(q, {"connection"}))
One(b) == IF b THEN 1 ELSE 0
PingHasSocket == ping \in {"malloc", "send", "recv", "sleep", "end"}

LEMMA WaitingIs == Waiting = Connections(acceptmbox) /\ Waiting' = Connections(acceptmbox')
  BY DEF Waiting, Connections, Places

LEMMA SocketsAre ==
    /\ SocketsAccounted <=>
          netconns = One(sockfd) + Connections(acceptmbox) + accepted + One(PingHasSocket) + unclosed
    /\ SocketsAccounted' <=>
          netconns' = One(sockfd') + Connections(acceptmbox') + accepted'
                        + One(PingHasSocket') + unclosed'
  BY WaitingIs DEF SocketsAccounted, One, PingHasSocket

LEMMA SocketNumbers ==
    ASSUME TypeOK
    PROVE  /\ netconns \in Nat /\ accepted \in Nat /\ unclosed \in Nat
           /\ Connections(acceptmbox) \in Nat
           /\ MEMP_NUM_NETCONN \in Nat /\ netconns <= MEMP_NUM_NETCONN
           /\ HasSocket => netconns + 1 <= MEMP_NUM_NETCONN
           /\ \A b : One(b) \in {0, 1}
  <1>1. acceptmbox \in Seq({"connection", "ERR_ABRT"}) /\ accepted \in Nat /\ unclosed \in Nat
    BY DEF TypeOK, IperfTypeOK, PingTypeOK
  <1>2. Connections(acceptmbox) \in Nat
    BY <1>1, PlacesFinite DEF Connections
  <1>3. netconns \in 0..MEMP_NUM_NETCONN /\ MEMP_NUM_NETCONN \in Nat
    BY PoolAssumption DEF TypeOK, SocketsTypeOK
  <1>4. HasSocket => netconns < MEMP_NUM_NETCONN
    BY DEF HasSocket
  <1>5. QED
    BY <1>1, <1>2, <1>3, <1>4 DEF One

LEMMA IperfSocketsStep ==
    ASSUME TypeOK, SessionInv, SocketsAccounted, IperfNext, UNCHANGED pingvars
    PROVE  SocketsTypeOK' /\ SocketsAccounted'
  <1> DEFINE n == netconns
             c == Connections(acceptmbox)
  <1>1. /\ n \in Nat /\ accepted \in Nat /\ unclosed \in Nat /\ c \in Nat
        /\ MEMP_NUM_NETCONN \in Nat /\ n <= MEMP_NUM_NETCONN
        /\ HasSocket => n + 1 <= MEMP_NUM_NETCONN
        /\ \A b : One(b) \in {0, 1}
    BY SocketNumbers
  <1>num. /\ n = One(sockfd) + c + accepted + One(PingHasSocket) + unclosed
          /\ n \in Nat /\ c \in Nat /\ accepted \in Nat /\ unclosed \in Nat
          /\ One(sockfd) \in Nat /\ One(PingHasSocket) \in Nat
          /\ MEMP_NUM_NETCONN \in Nat /\ n <= MEMP_NUM_NETCONN
    BY <1>1, SocketsAre
  <1>2. /\ PingHasSocket' = PingHasSocket /\ unclosed' = unclosed
        /\ sockfd \in BOOLEAN /\ acceptmbox \in Seq({"connection", "ERR_ABRT"})
        /\ cli \in {"idle", "stopping"}
    BY DEF PingHasSocket, pingvars, TypeOK, IperfTypeOK, SocketsTypeOK
  <1>3. cli' \in {"idle", "stopping"}
    BY <1>2 DEF IperfNext, IperfStart, IperfStop, IperfStopped, Traffic, PeerConnects, Open,
       Connect, Accept, Recv, Send, Exit, Free, End, Report, ReportBegin, ReportInterval,
       ReportAverage
  <1>4. SUFFICES /\ netconns' \in Nat /\ netconns' <= MEMP_NUM_NETCONN
                 /\ netconns' = One(sockfd') + Connections(acceptmbox') + accepted'
                                  + One(PingHasSocket) + unclosed
    <2>1. SocketsAccounted'
      BY <1>2, <1>4, SocketsAre
    <2>2. SocketsTypeOK'
      BY <1>1, <1>3, <1>4 DEF SocketsTypeOK
    <2>3. QED
      BY <2>1, <2>2
  <1> HIDE DEF c, n
  <1>5. CASE UNCHANGED <<netconns, sockfd, acceptmbox, accepted>>
    BY <1>num, <1>5 DEF c, n
  <1>6. CASE Open /\ netconns' # netconns
    <2>1. ~sockfd /\ sockfd' = TRUE /\ n + 1 <= MEMP_NUM_NETCONN
          /\ netconns' = n + 1 /\ UNCHANGED <<acceptmbox, accepted>>
      BY <1>6, <1>1 DEF Open, SessionInv, n
    <2>2. One(sockfd) = 0 /\ One(sockfd') = 1 /\ Connections(acceptmbox') = c
      BY <2>1 DEF One, c
    <2>3. QED
      BY <2>1, <2>2, <1>num
  <1>7. CASE PeerConnects
    <2>1. Connections(Append(acceptmbox, "connection")) = c + 1
      BY <1>1, <1>2, PlacesAppend DEF Connections, c
    <2>2. Connections(Append(acceptmbox, "ERR_ABRT")) = c
      BY <1>1, <1>2, PlacesAppend DEF Connections, c
    <2>3. UNCHANGED <<sockfd, accepted>>
      BY <1>7 DEF PeerConnects
    <2>4. CASE HasSocket /\ acceptmbox' = Append(acceptmbox, "connection") /\ netconns' = n + 1
      <3>1. Connections(acceptmbox') = c + 1 /\ n + 1 <= MEMP_NUM_NETCONN
        BY <2>1, <2>4, <1>1
      <3>2. netconns' = n + 1 /\ sockfd' = sockfd /\ accepted' = accepted
        BY <2>3, <2>4
      <3>3. QED
        BY <3>1, <3>2, <1>num
    <2>5. CASE acceptmbox' = Append(acceptmbox, "ERR_ABRT") /\ netconns' = n
      <3>1. Connections(acceptmbox') = c
        BY <2>2, <2>5
      <3>2. netconns' = n /\ sockfd' = sockfd /\ accepted' = accepted
        BY <2>3, <2>5
      <3>3. QED
        BY <3>1, <3>2, <1>num
    <2>6. QED
      BY <2>4, <2>5, <1>7 DEF PeerConnects, n
  <1>8. CASE Accept
    <2>1. /\ acceptmbox # <<>> /\ acceptmbox' = Tail(acceptmbox)
          /\ netconns' = n /\ sockfd' = sockfd
          /\ accepted' = accepted + (IF Head(acceptmbox) = "connection" THEN 1 ELSE 0)
      BY <1>8, <1>1 DEF Accept, n
    <2>2. c = Connections(Tail(acceptmbox)) + (IF Head(acceptmbox) \in {"connection"} THEN 1 ELSE 0)
      BY <2>1, <1>2, PlacesTail DEF Connections, c
    <2>3. Connections(Tail(acceptmbox)) \in Nat
      <3>1. Tail(acceptmbox) \in Seq({"connection", "ERR_ABRT"})
        BY <2>1, <1>2
      <3>2. QED
        BY <3>1, PlacesFinite DEF Connections
    <2>4. /\ netconns' = n /\ sockfd' = sockfd
          /\ Connections(acceptmbox') + accepted' = c + accepted
          /\ Connections(acceptmbox') \in Nat /\ accepted' \in Nat
      BY <2>1, <2>2, <2>3, <1>num
    <2>5. QED
      BY <2>4, <1>num
  <1>9. CASE Exit
    <2>1. /\ netconns' = n - (IF sockfd THEN 1 + c ELSE 0)
          /\ acceptmbox' = <<>> /\ sockfd' = FALSE /\ accepted' = accepted
      BY <1>9, WaitingIs DEF Exit, Closed, n, c
    <2>2. ~sockfd => c = 0
      BY PlacesEmpty DEF SessionInv, c, Connections
    <2>3. Connections(acceptmbox') = 0 /\ One(sockfd') = 0
      BY <2>1, PlacesEmpty DEF Connections, One
    <2>4. netconns' = n - (One(sockfd) + c)
      BY <2>1, <2>2, <1>num DEF One
    <2>5. accepted' = accepted
      BY <2>1
    <2>6. QED
      BY <2>3, <2>4, <2>5, <1>num
  <1>10. CASE Open
    <2>1. netconns \in Nat
      BY <1>num DEF n
    <2>2. UNCHANGED <<sockfd, netconns>> \/ netconns' # netconns
      BY <2>1, <1>10 DEF Open
    <2>3. UNCHANGED <<acceptmbox, accepted>>
      BY <1>10 DEF Open
    <2>4. QED
      BY <2>2, <2>3, <1>5, <1>6, <1>10
  <1>11. CASE \/ IperfStart \/ IperfStop \/ IperfStopped \/ Connect \/ Recv \/ Send \/ Free \/ End
              \/ \E i \in Sessions : Report(i)
    BY <1>11, <1>5 DEF IperfStart, IperfStop, IperfStopped, iperf, Connect, Recv, Send, Free, End,
       Report, ReportBegin, ReportInterval, ReportAverage
  <1>12. QED
    BY <1>7, <1>8, <1>9, <1>10, <1>11 DEF IperfNext, Traffic

--------------------------------------------------------------------------------
(* ping *)

LEMMA EchoesAre ==
    ASSUME NEW q \in Seq(0..Count)
    PROVE  /\ {k \in 1..Len(q) : q[k] # 0} = Places(q, 1..Count)
           /\ IsFiniteSet(Places(q, 1..Count)) /\ Cardinality(Places(q, 1..Count)) \in Nat
  <1>1. Count \in Nat
    BY PingAssumption
  <1>2. \A k \in 1..Len(q) : q[k] # 0 <=> q[k] \in 1..Count
    BY <1>1
  <1>3. QED
    BY <1>2, PlacesFinite DEF Places

LEMMA UnansweredFinite ==
    ASSUME NEW S \in SUBSET (1..Count)
    PROVE  IsFiniteSet(S) /\ Cardinality(S) \in Nat /\ Cardinality(S) <= Count
  <1>1. Count \in Nat
    BY PingAssumption
  <1>2. IsFiniteSet(1..Count) /\ Cardinality(1..Count) = Count
    BY <1>1, FS_Interval
  <1>3. QED
    BY <1>2, FS_Subset, FS_CardinalityType

\* One value in the socket: it stays there when a packet is added, and when
\* another one is taken.
LEMMA ValueStays ==
    ASSUME NEW S, NEW q \in Seq(S), NEW v
    PROVE  /\ \A x \in S :
                 Places(q, {v}) # {} \/ x = v => Places(Append(q, x), {v}) # {}
           /\ q # <<>> /\ Head(q) # v /\ Places(q, {v}) # {} => Places(Tail(q), {v}) # {}
  <1> DEFINE V == {v}
             P == Places(q, V)
  <1>1. \A x : x \in V <=> x = v
    OBVIOUS
  <1> HIDE DEF V
  <1>2. ASSUME NEW x \in S, P # {} \/ x = v PROVE Places(Append(q, x), V) # {}
    <2>1. x \in V => Places(Append(q, x), V) = P \cup {Len(q) + 1}
      BY PlacesAppend
    <2>2. x \notin V => Places(Append(q, x), V) = P
      BY PlacesAppend
    <2>3. QED
      BY <2>1, <2>2, <1>1, <1>2
  <1>3. ASSUME q # <<>>, Head(q) # v, P # {} PROVE Places(Tail(q), V) # {}
    <2>1. Places(Tail(q), V) = {k - 1 : k \in P \ {1}} /\ (1 \in P <=> Head(q) \in V)
      BY <1>3, PlacesTail
    <2>2. 1 \notin P
      BY <2>1, <1>3, <1>1
    <2> HIDE DEF P
    <2>3. QED
      BY <2>1, <2>2, <1>3
  <1>4. QED
    BY <1>2, <1>3 DEF V

LEMMA EchoesAppend ==
    ASSUME NEW q \in Seq(0..Count), NEW x \in 0..Count
    PROVE  Cardinality(Places(Append(q, x), 1..Count))
             = Cardinality(Places(q, 1..Count)) + (IF x = 0 THEN 0 ELSE 1)
  <1> DEFINE S == 0..Count
             V == 1..Count
  <1>1. (x \in V <=> x # 0) /\ q \in Seq(S) /\ x \in S
    BY PingAssumption
  <1> HIDE DEF S, V
  <1>2. Cardinality(Places(Append(q, x), V))
          = Cardinality(Places(q, V)) + (IF x \in V THEN 1 ELSE 0)
    BY <1>1, PlacesAppend
  <1>3. QED
    BY <1>1, <1>2 DEF V

LEMMA TailHead ==
    ASSUME NEW S, NEW q \in Seq(S), q # <<>>
    PROVE  Head(q) \in S /\ Tail(q) \in Seq(S)
  OBVIOUS

LEMMA EchoesTail ==
    ASSUME NEW q \in Seq(0..Count), q # <<>>
    PROVE  Cardinality(Places(q, 1..Count))
             = Cardinality(Places(Tail(q), 1..Count)) + (IF Head(q) = 0 THEN 0 ELSE 1)
  <1>1. Head(q) \in 0..Count
    BY TailHead
  <1>2. Head(q) \in 1..Count <=> Head(q) # 0
    BY <1>1, PingAssumption
  <1>3. Cardinality(Places(q, 1..Count))
          = Cardinality(Places(Tail(q), 1..Count)) + (IF Head(q) \in 1..Count THEN 1 ELSE 0)
    BY PlacesTail
  <1>4. QED
    BY <1>2, <1>3

LostEquation ==
    ping \in {"send", "recv", "sleep", "end"} /\ foreign = 0 =>
        ping_lost_num + One(ping = "recv") = Cardinality(unanswered) + Cardinality(Echoes)

LEMMA LostIs ==
    ASSUME PingTypeOK, PingTypeOK'
    PROVE  /\ LostAreUnanswered <=> LostEquation
           /\ LostAreUnanswered' <=> LostEquation'
  BY EchoesAre DEF PingTypeOK, LostAreUnanswered, LostEquation, Echoes, One

LEMMA AddType ==
    ASSUME NEW a \in 0..(CounterValues - 1), NEW n \in Nat
    PROVE  /\ Add(a, n) \in 0..(CounterValues - 1)
           /\ a + n < CounterValues => Add(a, n) = a + n
           /\ n = CounterValues - 1 /\ a # 0 => Add(a, n) = a - 1
  <1>1. CounterValues \in Nat /\ CounterValues > 0
    BY PingAssumption
  <1>2. Add(a, n) \in 0..(CounterValues - 1)
    BY <1>1 DEF Add
  <1>3. a + n < CounterValues => Add(a, n) = a + n
    BY <1>1 DEF Add
  <1>4. ASSUME n = CounterValues - 1, a # 0 PROVE Add(a, n) = a - 1
    <2>1. a + n = (a - 1) + CounterValues /\ a - 1 \in 0..(CounterValues - 1)
      BY <1>1, <1>4
    <2>2. ((a - 1) + CounterValues) % CounterValues = a - 1
      BY <1>1, <2>1
    <2>3. QED
      BY <2>1, <2>2 DEF Add
  <1>5. QED
    BY <1>2, <1>3, <1>4

LEMMA PingTypeStep ==
    ASSUME PingTypeOK, RequestsInv, AnswersInv, PingNext
    PROVE  PingTypeOK'
  <1>num. /\ Count \in Nat \ {0} /\ MboxSize \in Nat \ {0} /\ CounterValues \in Nat
          /\ Count < CounterValues /\ MaxPings \in Nat /\ MaxForeign \in Nat
    BY PingAssumption
  <1>seq. <<>> \in Seq(0..Count) /\ Len(<<>>) <= MboxSize
    BY <1>num
  <1> USE DEF PingTypeOK, counters
  <1>1. CASE PingRequest
    BY <1>1, <1>num DEF PingRequest
  <1>2. CASE PingSocket
    BY <1>2 DEF PingSocket
  <1>3. CASE PingMalloc
    <2>1. recvmbox' \in Seq(0..Count) /\ Len(recvmbox') <= MboxSize
      BY <1>3, <1>seq DEF PingMalloc
    <2>2. /\ ping_seq_num' \in 0..Count /\ residual_count' \in 0..Count /\ send_count' \in 0..Count
          /\ ping_recv_num' \in 0..(CounterValues - 1) /\ ping_lost_num' \in 0..(CounterValues - 1)
          /\ foreign' \in 0..MaxForeign /\ unclosed' \in Nat
      BY <1>3, <1>num, SMTT(30) DEF PingMalloc
    <2>3. QED
      BY <1>3, <2>1, <2>2 DEF PingMalloc
  <1>4. CASE PingSend
    <2>1. ping_seq_num + 1 \in 0..Count /\ ping_seq_num + 1 \in 1..Count
      BY <1>4, <1>num DEF PingSend, RequestsInv
    <2>2. send_count + 1 \in 0..Count
      BY <1>4, <1>num, <2>1 DEF PingSend, RequestsInv
    <2>3. unanswered' \subseteq 1..Count
      BY <1>4, <2>1 DEF PingSend
    <2>4. QED
      BY <1>4, <2>1, <2>2, <2>3 DEF PingSend
  <1>5. CASE PingRecv
    <2>1. Tail(recvmbox) \in Seq(0..Count) /\ Len(Tail(recvmbox)) <= MboxSize
      BY <1>5, <1>num DEF PingRecv
    <2>2. /\ Add(ping_recv_num, 1) \in 0..(CounterValues - 1)
          /\ Add(ping_lost_num, CounterValues - 1) \in 0..(CounterValues - 1)
      <3>1. CounterValues - 1 \in Nat /\ 1 \in Nat
        BY <1>num
      <3>2. QED
        BY <3>1, AddType
    <2>3. /\ ping' \in {"recv", "sleep"}
          /\ ping_recv_num' \in 0..(CounterValues - 1) /\ ping_lost_num' \in 0..(CounterValues - 1)
      BY <1>5, <2>2 DEF PingRecv, LateAnswer
    <2>4. QED
      BY <1>5, <2>1, <2>3 DEF PingRecv
  <1>6. CASE PingTimeout
    <2>1. Add(ping_lost_num, 1) \in 0..(CounterValues - 1)
      BY AddType
    <2>2. QED
      BY <1>6, <2>1 DEF PingTimeout
  <1>7. CASE PingSleep
    <2>1. residual_count - 1 \in 0..Count
      BY <1>7, <1>num DEF PingSleep, RequestsInv
    <2>2. QED
      BY <1>7, <2>1 DEF PingSleep, Residual
  <1>8. CASE PingEnd
    <2>1. recvmbox' \in Seq(0..Count) /\ Len(recvmbox') <= MboxSize
      BY <1>8, <1>seq DEF PingEnd
    <2>2. /\ ping_seq_num' \in 0..Count /\ residual_count' \in 0..Count /\ send_count' \in 0..Count
          /\ ping_recv_num' \in 0..(CounterValues - 1) /\ ping_lost_num' \in 0..(CounterValues - 1)
          /\ foreign' \in 0..MaxForeign
      BY <1>8, <1>num DEF PingEnd
    <2>3. QED
      BY <1>8, <2>1, <2>2 DEF PingEnd
  <1>9. ASSUME NEW x \in 0..Count, Len(recvmbox) < MboxSize
        PROVE  Append(recvmbox, x) \in Seq(0..Count) /\ Len(Append(recvmbox, x)) <= MboxSize
    BY <1>9, <1>num
  <1>10. CASE Answer
    <2>1. PICK seq \in unanswered : /\ recvmbox' = Append(recvmbox, seq)
                                    /\ unanswered' = unanswered \ {seq}
      BY <1>10 DEF Answer
    <2>2. recvmbox' \in Seq(0..Count) /\ Len(recvmbox') <= MboxSize
      BY <1>9, <1>10, <2>1 DEF Answer, Receives
    <2>3. QED
      BY <1>10, <2>1, <2>2 DEF Answer
  <1>11. CASE Foreign
    <2>1. recvmbox' \in Seq(0..Count) /\ Len(recvmbox') <= MboxSize
      BY <1>9, <1>11 DEF Foreign, Receives
    <2>2. QED
      BY <1>11, <1>num, <2>1 DEF Foreign
  <1>12. CASE Noise
    <2>1. recvmbox' \in Seq(0..Count) /\ Len(recvmbox') <= MboxSize
      BY <1>9, <1>12, <1>num DEF Noise, Receives
    <2>2. QED
      BY <1>12, <2>1 DEF Noise
  <1>13. QED
    BY <1>1, <1>2, <1>3, <1>4, <1>5, <1>6, <1>7, <1>8, <1>10, <1>11, <1>12
       DEF PingNext, PingThread

LEMMA RequestsStep ==
    ASSUME PingTypeOK, RequestsInv, PingNext
    PROVE  RequestsInv'
  <1>num. /\ Count \in Nat \ {0}
          /\ ping_seq_num \in Nat /\ residual_count \in Nat /\ send_count \in Nat
    BY PingAssumption DEF PingTypeOK
  <1> USE DEF RequestsInv
  <1>1. CASE PingRequest \/ PingSocket
    BY <1>1 DEF PingRequest, PingSocket, counters
  <1>2. CASE PingMalloc
    BY <1>2, <1>num DEF PingMalloc
  <1>3. CASE PingSend
    BY <1>3, <1>num DEF PingSend
  <1>4. CASE PingRecv
    <2>1. ping = "recv" /\ ping' \in {"recv", "sleep"}
          /\ UNCHANGED <<ping_seq_num, residual_count, send_count>>
      BY <1>4 DEF PingRecv
    <2>2. QED
      BY <2>1
  <1>5. CASE PingTimeout
    BY <1>5 DEF PingTimeout
  <1>6. CASE PingSleep
    BY <1>6, <1>num DEF PingSleep, Residual
  <1>7. CASE PingEnd
    BY <1>7 DEF PingEnd
  <1>8. CASE Answer \/ Foreign \/ Noise
    BY <1>8 DEF Answer, Foreign, Noise, counters
  <1>9. QED
    BY <1>1, <1>2, <1>3, <1>4, <1>5, <1>6, <1>7, <1>8 DEF PingNext, PingThread

LEMMA PingSocketsStep ==
    ASSUME TypeOK, SocketsAccounted, AnswersInv, PingNext, UNCHANGED iperf
    PROVE  SocketsTypeOK' /\ SocketsAccounted'
  <1> DEFINE n == netconns
             rest == One(sockfd) + Connections(acceptmbox) + accepted
  <1>1. /\ n \in Nat /\ unclosed \in Nat /\ rest \in Nat
        /\ MEMP_NUM_NETCONN \in Nat /\ n <= MEMP_NUM_NETCONN
        /\ HasSocket => n + 1 <= MEMP_NUM_NETCONN
        /\ n = rest + One(PingHasSocket) + unclosed
    <2>1. /\ netconns \in Nat /\ accepted \in Nat /\ unclosed \in Nat
          /\ Connections(acceptmbox) \in Nat /\ One(sockfd) \in Nat /\ One(PingHasSocket) \in Nat
          /\ MEMP_NUM_NETCONN \in Nat /\ netconns <= MEMP_NUM_NETCONN
          /\ HasSocket => netconns + 1 <= MEMP_NUM_NETCONN
      BY SocketNumbers
    <2>2. netconns = One(sockfd) + Connections(acceptmbox) + accepted + One(PingHasSocket) + unclosed
      BY SocketsAre
    <2>3. QED
      BY <2>1, <2>2
  <1>2. cli \in {"idle", "stopping"} /\ cli' = cli
    BY DEF TypeOK, SocketsTypeOK, PingNext, PingThread, PingRequest, PingSocket, PingMalloc,
       PingSend, PingRecv, PingTimeout, PingSleep, PingEnd, Answer, Foreign, Noise
  <1>3. UNCHANGED <<sockfd, acceptmbox, accepted>>
    BY DEF iperf
  <1>4. SUFFICES /\ netconns' \in Nat /\ netconns' <= MEMP_NUM_NETCONN
                 /\ netconns' = rest + One(PingHasSocket') + unclosed'
    <2>1. SocketsAccounted'
      BY <1>3, <1>4, SocketsAre
    <2>2. SocketsTypeOK'
      BY <1>1, <1>2, <1>4 DEF SocketsTypeOK
    <2>3. QED
      BY <2>1, <2>2
  <1> HIDE DEF rest, n
  <1>5. CASE UNCHANGED <<netconns, unclosed>> /\ PingHasSocket' = PingHasSocket
    <2>1. netconns' = n /\ unclosed' = unclosed /\ One(PingHasSocket') = One(PingHasSocket)
      BY <1>5 DEF n
    <2>2. QED
      BY <2>1, <1>1
  <1>6. CASE PingSocket
    <2>1. ~PingHasSocket /\ unclosed' = unclosed
      BY <1>6 DEF PingSocket, PingHasSocket
    <2>2. \/ PingHasSocket' /\ netconns' = n + 1 /\ n + 1 <= MEMP_NUM_NETCONN
          \/ ~PingHasSocket' /\ netconns' = n
      BY <1>6, <1>1 DEF PingSocket, PingHasSocket, n
    <2>3. QED
      BY <2>1, <2>2, <1>1 DEF One
  <1>7. CASE PingMalloc
    <2>1. PingHasSocket /\ netconns' = n
      BY <1>7 DEF PingMalloc, PingHasSocket, n
    <2>2. \/ PingHasSocket' /\ unclosed' = unclosed
          \/ ~PingHasSocket' /\ unclosed' = unclosed + 1
      BY <1>7 DEF PingMalloc, PingHasSocket
    <2>3. QED
      BY <2>1, <2>2, <1>1 DEF One
  <1>8. CASE PingEnd
    <2>1. PingHasSocket /\ ~PingHasSocket' /\ netconns' = n - 1 /\ unclosed' = unclosed
      BY <1>8 DEF PingEnd, PingHasSocket, n
    <2>2. QED
      BY <2>1, <1>1 DEF One
  <1>9. CASE PingRequest
    <2>1. ping = "none"
      BY <1>9 DEF PingRequest, AnswersInv
    <2>2. QED
      BY <2>1, <1>5, <1>9 DEF PingRequest, PingHasSocket
  <1>10. CASE PingSend \/ PingTimeout \/ PingSleep
    BY <1>10, <1>5 DEF PingSend, PingTimeout, PingSleep, PingHasSocket
  <1>11. CASE PingRecv
    <2>1. ping = "recv" /\ ping' \in {"recv", "sleep"} /\ UNCHANGED <<netconns, unclosed>>
      BY <1>11 DEF PingRecv
    <2>2. QED
      BY <2>1, <1>5 DEF PingHasSocket
  <1>12. CASE Answer \/ Foreign \/ Noise
    BY <1>12, <1>5 DEF Answer, Foreign, Noise, PingHasSocket
  <1>13. QED
    BY <1>6, <1>7, <1>8, <1>9, <1>10, <1>11, <1>12 DEF PingNext, PingThread

LEMMA AnswersStep ==
    ASSUME PingTypeOK, RequestsInv, AnswersInv, PingNext
    PROVE  AnswersInv'
  <1>typ. /\ recvmbox \in Seq(0..Count) /\ unanswered \subseteq 1..Count /\ foreign \in Nat
          /\ ping_seq_num \in Nat /\ Count \in Nat
    BY PingAssumption DEF PingTypeOK
  <1> USE DEF AnswersInv
  <1>1. CASE PingRequest \/ PingSocket
    BY <1>1 DEF PingRequest, PingSocket, Echoes
  <1>2. CASE PingMalloc
    BY <1>2, PlacesEmpty DEF PingMalloc, Echoes
  <1>3. CASE PingSend
    <2>1. unanswered' \subseteq 1..ping_seq_num'
      <3>1. unanswered \subseteq 1..ping_seq_num
        BY <1>3 DEF PingSend
      <3>2. ping_seq_num' = ping_seq_num + 1 /\ unanswered' \subseteq unanswered \cup {ping_seq_num + 1}
        BY <1>3 DEF PingSend
      <3>3. (1..ping_seq_num) \cup {ping_seq_num + 1} \subseteq 1..(ping_seq_num + 1)
        BY <1>typ
      <3>4. QED
        BY <3>1, <3>2, <3>3
    <2>2. ping' = "recv" => ping_seq_num' \in unanswered'
      BY <1>3 DEF PingSend
    <2>3. QED
      BY <1>3, <2>1, <2>2 DEF PingSend
  <1>4. CASE PingRecv
    <2>1. /\ recvmbox # <<>> /\ recvmbox' = Tail(recvmbox)
          /\ ping = "recv" /\ ping' \in {"recv", "sleep"}
          /\ ping' = "recv" => Head(recvmbox) # ping_seq_num
          /\ UNCHANGED <<is_ping_ongoing, ping_seq_num, unanswered, foreign>>
      BY <1>4 DEF PingRecv
    <2>2. ASSUME Head(recvmbox) # ping_seq_num, Places(recvmbox, {ping_seq_num}) # {}
          PROVE  Places(recvmbox', {ping_seq_num}) # {}
      BY <2>1, <2>2, <1>typ, ValueStays
    <2>3. QED
      BY <2>1, <2>2
  <1>5. CASE PingTimeout \/ PingSleep
    BY <1>5 DEF PingTimeout, PingSleep
  <1>6. CASE PingEnd
    BY <1>6, PlacesEmpty DEF PingEnd, Echoes
  <1>7. ASSUME NEW x \in 0..Count, recvmbox' = Append(recvmbox, x),
               Places(recvmbox, {ping_seq_num}) # {} \/ x = ping_seq_num
        PROVE  Places(recvmbox', {ping_seq_num}) # {}
    BY <1>7, <1>typ, ValueStays
  <1>8. CASE Answer
    <2>1. PICK seq \in unanswered : /\ recvmbox' = Append(recvmbox, seq)
                                    /\ unanswered' = unanswered \ {seq}
      BY <1>8 DEF Answer
    <2>2. /\ UNCHANGED <<is_ping_ongoing, ping, ping_seq_num, foreign>>
          /\ ping \in {"send", "recv", "sleep", "end"}
      BY <1>8, <2>1 DEF Answer, Receives, counters
    <2>3. ping = "recv" /\ foreign = 0 =>
             ping_seq_num \in unanswered' \/ Places(recvmbox', {ping_seq_num}) # {}
      <3>1. seq \in 0..Count
        BY <2>1, <1>typ
      <3>2. CASE Places(recvmbox, {ping_seq_num}) # {} \/ seq = ping_seq_num
        BY <3>1, <3>2, <2>1, <1>7
      <3>3. CASE Places(recvmbox, {ping_seq_num}) = {} /\ seq # ping_seq_num
        BY <3>3, <2>1
      <3>4. QED
        BY <3>2, <3>3
    <2>4. QED
      BY <2>1, <2>2, <2>3
  <1>9. CASE Foreign
    <2>1. foreign' # 0 /\ ping \in {"malloc", "send", "recv", "sleep", "end"}
          /\ UNCHANGED <<is_ping_ongoing, ping, ping_seq_num, unanswered>>
      BY <1>9, <1>typ DEF Foreign, Receives, counters
    <2>2. QED
      BY <2>1
  <1>10. CASE Noise
    <2>1. /\ recvmbox' = Append(recvmbox, 0)
          /\ ping \in {"malloc", "send", "recv", "sleep", "end"}
          /\ UNCHANGED <<is_ping_ongoing, ping, ping_seq_num, unanswered, foreign>>
      BY <1>10 DEF Noise, Receives, counters
    <2>2. 0 \in 0..Count /\ 0 \notin 1..Count
      BY <1>typ
    <2>3. Echoes' = Echoes
      BY <2>1, <2>2, <1>typ, PlacesAppend DEF Echoes
    <2>4. Places(recvmbox, {ping_seq_num}) # {} => Places(recvmbox', {ping_seq_num}) # {}
      BY <2>1, <2>2, <1>7
    <2>5. QED
      BY <2>1, <2>3, <2>4
  <1>11. QED
    BY <1>1, <1>2, <1>3, <1>4, <1>5, <1>6, <1>8, <1>9, <1>10 DEF PingNext, PingThread

LEMMA LostStep ==
    ASSUME PingTypeOK, PingTypeOK', RequestsInv, AnswersInv, LostAreUnanswered, PingNext
    PROVE  LostAreUnanswered'
  <1> DEFINE u == Cardinality(unanswered)
             e == Cardinality(Echoes)
             Running == {"send", "recv", "sleep", "end"}
  <1>typ. recvmbox \in Seq(0..Count) /\ unanswered \in SUBSET (1..Count)
    BY DEF PingTypeOK
  <1>num. /\ Count \in Nat /\ CounterValues \in Nat /\ Count < CounterValues
          /\ ping_lost_num \in Nat /\ ping_lost_num < CounterValues /\ ping_seq_num \in Nat
          /\ u \in Nat /\ u <= Count /\ e \in Nat
    <2>1. u \in Nat /\ u <= Count
      BY <1>typ, UnansweredFinite
    <2>2. e \in Nat
      BY <1>typ, EchoesAre DEF Echoes
    <2>3. QED
      BY <2>1, <2>2, PingAssumption DEF PingTypeOK
  <1>eq. ping \in Running /\ foreign = 0 => ping_lost_num + One(ping = "recv") = u + e
    BY LostIs DEF LostEquation
  <1> SUFFICES ASSUME ping' \in Running, foreign' = 0
               PROVE  ping_lost_num' + One(ping' = "recv")
                        = Cardinality(unanswered') + Cardinality(Echoes')
    BY LostIs DEF LostEquation
  <1>one. /\ One(ping = "recv") = IF ping = "recv" THEN 1 ELSE 0
          /\ One(ping' = "recv") = IF ping' = "recv" THEN 1 ELSE 0
    BY DEF One
  <1>fin. IsFiniteSet(unanswered)
    BY <1>typ, UnansweredFinite
  <1> HIDE DEF u, e
  <1>1. CASE PingRequest \/ PingSocket \/ PingEnd
    BY <1>1 DEF PingRequest, PingSocket, PingEnd
  <1>2. CASE PingMalloc
    <2>1. ping_lost_num' = 0 /\ ping' = "send" /\ unanswered' = {} /\ Echoes' = {}
      BY <1>2 DEF PingMalloc, AnswersInv, Echoes
    <2>2. QED
      BY <2>1, <1>one, FS_EmptySet
  <1>3. CASE PingSend
    <2>1. /\ ping = "send" /\ foreign = 0 /\ Cardinality(Echoes') = e
          /\ ping_lost_num' = ping_lost_num
      BY <1>3 DEF PingSend, Echoes, e
    <2>2. ping_lost_num = u + e
      BY <2>1, <1>eq, <1>one, <1>num
    <2>3. CASE ping' = "recv" /\ unanswered' = unanswered \cup {ping_seq_num + 1}
      <3>1. ping_seq_num + 1 \notin unanswered
        BY <2>1, <1>num DEF AnswersInv
      <3>2. Cardinality(unanswered') = u + 1
        BY <2>3, <3>1, <1>fin, FS_AddElement DEF u
      <3>3. QED
        BY <2>1, <2>2, <2>3, <3>2, <1>one, <1>num
    <2>4. CASE ping' = "sleep" /\ unanswered' = unanswered
      BY <2>1, <2>2, <2>4, <1>one, <1>num DEF u
    <2>5. QED
      BY <2>3, <2>4, <1>3 DEF PingSend
  <1>4. CASE PingRecv
    <2>1. /\ recvmbox # <<>> /\ ping = "recv" /\ foreign = 0
          /\ recvmbox' = Tail(recvmbox) /\ unanswered' = unanswered
      BY <1>4 DEF PingRecv
    <2> DEFINE e2 == Cardinality(Places(Tail(recvmbox), 1..Count))
               P == Places(Tail(recvmbox), {ping_seq_num})
    <2>2. e2 \in Nat /\ Cardinality(Echoes') = e2 /\ Cardinality(unanswered') = u
      <3>1. Tail(recvmbox) \in Seq(0..Count)
        BY <2>1, <1>typ
      <3>2. QED
        BY <3>1, <2>1, EchoesAre DEF Echoes, u
    <2>3. e = e2 + (IF Head(recvmbox) = 0 THEN 0 ELSE 1)
      BY <2>1, <1>typ, EchoesTail DEF e, Echoes
    <2>4. ping_lost_num + 1 = u + e
      BY <2>1, <1>eq, <1>one
    <2>5. ping_seq_num # 0
      BY <2>1, <1>num DEF RequestsInv, PingTypeOK
    <2>6. CASE Head(recvmbox) = ping_seq_num
      <3>1. ping' = "sleep" /\ ping_lost_num' = ping_lost_num
        BY <2>6, <1>4 DEF PingRecv
      <3>2. e = e2 + 1
        BY <2>3, <2>5, <2>6
      <3>3. QED
        BY <3>1, <3>2, <2>2, <2>4, <1>one, <1>num
    <2>7. CASE Head(recvmbox) # ping_seq_num /\ Head(recvmbox) # 0
      <3>1. ping' = "recv" /\ ping_lost_num' = Add(ping_lost_num, CounterValues - 1)
        BY <2>7, <2>1, <1>4 DEF PingRecv, Ours, LateAnswer
      <3>2. e = e2 + 1
        BY <2>3, <2>7
      <3>3. u # 0 \/ e2 # 0
        <4>1. CASE ping_seq_num \in unanswered
          BY <4>1, <1>fin, FS_EmptySet DEF u
        <4>2. CASE Places(recvmbox, {ping_seq_num}) # {}
          <5> SUFFICES e2 # 0
            OBVIOUS
          <5>1. P # {}
            BY <4>2, <2>1, <2>7, <1>typ, ValueStays
          <5>2. ping_seq_num \in 1..Count
            BY <2>5, <1>num DEF PingTypeOK
          <5>3. P \subseteq Places(Tail(recvmbox), 1..Count)
            BY <5>2 DEF Places
          <5>4. Tail(recvmbox) \in Seq(0..Count)
            BY <2>1, <1>typ
          <5>5. IsFiniteSet(Places(Tail(recvmbox), 1..Count))
            BY <5>4, EchoesAre
          <5>6. QED
            BY <5>1, <5>3, <5>5, FS_EmptySet
        <4>3. QED
          BY <4>1, <4>2, <2>1 DEF AnswersInv
      <3>4. ping_lost_num # 0
        BY <3>2, <3>3, <2>2, <2>4, <1>num
      <3>5. ping_lost_num' = ping_lost_num - 1
        BY <3>1, <3>4, <1>num, AddType
      <3>6. QED
        BY <3>1, <3>2, <3>5, <2>2, <2>4, <1>one, <1>num, SMTT(30)
    <2>8. CASE Head(recvmbox) # ping_seq_num /\ Head(recvmbox) = 0
      <3>1. ping' = "recv" /\ ping_lost_num' = ping_lost_num
        BY <2>8, <2>1, <1>4 DEF PingRecv, Ours
      <3>2. QED
        BY <3>1, <2>2, <2>3, <2>4, <2>8, <1>one, <1>num
    <2>9. QED
      BY <2>6, <2>7, <2>8
  <1>5. CASE PingTimeout
    <2>1. /\ ping = "recv" /\ ping' = "sleep" /\ recvmbox = <<>> /\ foreign = 0
          /\ ping_lost_num' = Add(ping_lost_num, 1)
          /\ UNCHANGED <<recvmbox, unanswered>>
      BY <1>5 DEF PingTimeout, TimesOut
    <2>2. e = 0 /\ Cardinality(Echoes') = e /\ Cardinality(unanswered') = u
      BY <2>1, PlacesEmpty DEF e, u, Echoes
    <2>3. ping_lost_num + 1 = u + e
      BY <2>1, <1>eq, <1>one
    <2>4. ping_lost_num + 1 < CounterValues
      BY <2>2, <2>3, <1>num
    <2>5. ping_lost_num' = ping_lost_num + 1
      BY <2>1, <2>4, <1>num, AddType
    <2>6. QED
      BY <2>1, <2>2, <2>3, <2>5, <1>one, <1>num
  <1>6. CASE PingSleep
    <2>1. /\ ping = "sleep" /\ ping' # "recv" /\ foreign = 0
          /\ UNCHANGED <<ping_lost_num, recvmbox, unanswered>>
      BY <1>6 DEF PingSleep
    <2>2. Cardinality(Echoes') = e /\ Cardinality(unanswered') = u
      BY <2>1 DEF e, u, Echoes
    <2>3. QED
      BY <2>1, <2>2, <1>eq, <1>one
  <1>7. CASE Answer
    <2>1. PICK seq \in unanswered : /\ recvmbox' = Append(recvmbox, seq)
                                    /\ unanswered' = unanswered \ {seq}
      BY <1>7 DEF Answer
    <2>2. UNCHANGED <<ping, ping_lost_num, foreign>>
      BY <1>7 DEF Answer, counters
    <2>3. Cardinality(unanswered') = u - 1
      BY <2>1, <1>fin, FS_RemoveElement DEF u
    <2>4. seq \in 0..Count /\ seq \in 1..Count
      BY <2>1, <1>typ, <1>num
    <2>5. Cardinality(Echoes') = e + 1
      BY <2>1, <2>4, <1>typ, <1>num, EchoesAppend DEF e, Echoes
    <2>6. ping_lost_num + One(ping = "recv") = u + e
      BY <2>2, <1>eq
    <2>7. QED
      BY <2>2, <2>3, <2>5, <2>6, <1>num
  <1>8. CASE Foreign
    BY <1>8 DEF Foreign, PingTypeOK
  <1>9. CASE Noise
    <2>1. recvmbox' = Append(recvmbox, 0) /\ UNCHANGED <<ping, ping_lost_num, foreign, unanswered>>
      BY <1>9 DEF Noise, counters
    <2>2. 0 \in 0..Count /\ 0 \notin 1..Count
      BY <1>num
    <2>3. Cardinality(Echoes') = e /\ Cardinality(unanswered') = u
      <3>1. Cardinality(Places(Append(recvmbox, 0), 1..Count)) = Cardinality(Places(recvmbox, 1..Count)) + 0
        BY <2>2, <1>typ, EchoesAppend
      <3>2. QED
        BY <3>1, <2>1, <1>num DEF e, u, Echoes
    <2>4. QED
      BY <2>1, <2>3, <1>eq
  <1>10. QED
    BY <1>1, <1>2, <1>3, <1>4, <1>5, <1>6, <1>7, <1>8, <1>9 DEF PingNext, PingThread

--------------------------------------------------------------------------------
(* Both tools *)

LEMMA ToolsInit == Init => IInv
  <1> SUFFICES ASSUME Init PROVE IInv
    OBVIOUS
  <1> USE IperfAssumption, PingAssumption, PoolAssumption
          DEF Init, SocketsInit, IperfInit, PingInit
  <1>1. SocketsTypeOK
    BY DEF SocketsTypeOK
  <1>2. IperfTypeOK
    <2>1. acceptmbox \in Seq({"connection", "ERR_ABRT"}) /\ Len(acceptmbox) <= Backlog
      OBVIOUS
    <2>2. report \in [Sessions -> [pc : {"none", "created", "asleep", "average"},
                                    left : 0..Intervals]]
      <3>1. [pc |-> "none", left |-> 0]
               \in [pc : {"none", "created", "asleep", "average"}, left : 0..Intervals]
        OBVIOUS
      <3>2. QED
        BY <3>1
    <2>3. session \in 0..MaxSessions /\ accepted \in Nat /\ ender \in [Sessions -> {0} \cup Sessions]
      OBVIOUS
    <2>4. /\ s_iperf_is_running \in BOOLEAN /\ finish \in BOOLEAN /\ buffer = "NULL"
          /\ mode = "none" /\ traffic = "none" /\ sockfd \in BOOLEAN /\ reporting \in BOOLEAN
      OBVIOUS
    <2>5. QED
      BY ONLY <2>1, <2>2, <2>3, <2>4 DEF IperfTypeOK
  <1>3. PingTypeOK
    <2>1. recvmbox \in Seq(0..Count) /\ Len(recvmbox) <= MboxSize
      OBVIOUS
    <2>2. /\ pings \in 0..MaxPings /\ foreign \in 0..MaxForeign /\ unclosed \in Nat
          /\ ping_seq_num \in 0..Count /\ residual_count \in 0..Count /\ send_count \in 0..Count
      OBVIOUS
    <2>3. ping_recv_num \in 0..(CounterValues - 1) /\ ping_lost_num \in 0..(CounterValues - 1)
      OBVIOUS
    <2>4. is_ping_ongoing \in BOOLEAN /\ ping = "none" /\ unanswered \subseteq 1..Count
      OBVIOUS
    <2>5. QED
      BY ONLY <2>1, <2>2, <2>3, <2>4 DEF PingTypeOK
  <1>4. SessionInv
    BY DEF SessionInv, BufferOwned
  <1>5. ReportInv
    BY DEF ReportInv, CutShortOnly, Sessions
  <1>6. SocketsAccounted
    <2>1. Connections(acceptmbox) = 0
      BY PlacesEmpty DEF Connections
    <2>2. QED
      BY <2>1, SocketsAre DEF One, PingHasSocket
  <1>7. RequestsInv /\ AnswersInv
    BY PlacesEmpty DEF RequestsInv, AnswersInv, Echoes
  <1>8. LostAreUnanswered
    BY DEF LostAreUnanswered
  <1>9. QED
    BY <1>1, <1>2, <1>3, <1>4, <1>5, <1>6, <1>7, <1>8 DEF IInv, TypeOK

LEMMA ToolsStep == IInv /\ [Next]_vars => IInv'
  <1> SUFFICES ASSUME IInv, [Next]_vars PROVE IInv'
    OBVIOUS
  <1> USE DEF IInv, TypeOK
  <1>1. ASSUME UNCHANGED iperf
        PROVE  IperfTypeOK' /\ SessionInv' /\ ReportInv'
    BY <1>1 DEF iperf, IperfTypeOK, SessionInv, BufferOwned, ReportInv, CutShortOnly
  <1>2. ASSUME UNCHANGED pingvars
        PROVE  PingTypeOK' /\ RequestsInv' /\ AnswersInv' /\ LostAreUnanswered'
    BY <1>2 DEF pingvars, counters, PingTypeOK, RequestsInv, AnswersInv, Echoes, LostAreUnanswered
  <1>3. CASE IperfNext /\ UNCHANGED pingvars
    BY <1>3, <1>2, IperfTypeStep, SessionStep, ReportStep, IperfSocketsStep
  <1>4. CASE PingNext /\ UNCHANGED iperf
    BY <1>4, <1>1, PingTypeStep, RequestsStep, AnswersStep, LostStep, PingSocketsStep
  <1>5. CASE UNCHANGED vars
    <2>1. SocketsTypeOK' /\ SocketsAccounted'
      BY <1>5 DEF vars, iperf, pingvars, SocketsTypeOK, SocketsAccounted, Waiting
    <2>2. QED
      BY <2>1, <1>5, <1>1, <1>2 DEF vars
  <1>6. QED
    BY <1>3, <1>4, <1>5 DEF Next

LEMMA ToolsInductive == Spec => []IInv
  BY ToolsInit, ToolsStep, PTL DEF Spec

\* lwIP's pool of sockets is never overdrawn by iperf and ping, their mailboxes
\* keep their bounds, and no counter of ping leaves its width (iperf.c, ping_cmd.c).
THEOREM ToolsTypeCorrect == Spec => []TypeOK
  <1>1. IInv => TypeOK
    BY DEF IInv
  <1>2. QED
    BY <1>1, ToolsInductive, PTL

\* iperf's one buffer is allocated exactly while a traffic task uses it, however
\* sessions end, are aborted or cut short, and another starts (iperf.c).
THEOREM BufferOfOneTask == Spec => []BufferOwned
  <1>1. IInv => BufferOwned
    BY DEF IInv, SessionInv
  <1>2. QED
    BY <1>1, ToolsInductive, PTL

\* Every socket taken from lwIP's pool is one a task will close, one iperf
\* accepted, or one a ping without memory left: nothing else leaks, and none is
\* closed twice (iperf.c, ping_cmd.c).
THEOREM EverySocketAccounted == Spec => []SocketsAccounted
  <1>1. IInv => SocketsAccounted
    BY DEF IInv
  <1>2. QED
    BY <1>1, ToolsInductive, PTL

\* A report task that outlives its session, asleep, may end a later one; it can
\* do so only if its own session had been cut short (iperf_report_task).
THEOREM CutShortByEarlierOnly == Spec => []CutShortOnly
  <1>1. IInv => CutShortOnly
    BY DEF IInv, ReportInv
  <1>2. QED
    BY <1>1, ToolsInductive, PTL

\* ping_lost_num, which late answers decrement again, counts the requests whose
\* answer was not read, and never wraps below zero (ping_recv, ping_thread).
THEOREM LostRequestsUnanswered == Spec => []LostAreUnanswered
  <1>1. IInv => LostAreUnanswered
    BY DEF IInv
  <1>2. QED
    BY <1>1, ToolsInductive, PTL
================================================================================
