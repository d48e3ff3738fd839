------------------------- MODULE ControlPathProofs --------------------------
(***************************************************************************)
(* Proofs about ControlPath for any set of commands, any queue size and    *)
(* any number of calls and slave starts.                                   *)
(***************************************************************************)
EXTENDS ControlPath, FiniteSetTheorems, TLAPS

\* A frame answers a request that was given, with one of its result codes.
Answers(f) == f.req \in 1..Len(calls) /\ f.code \in DOMAIN calls[f.req].returns
IsAnswer(k) == k \in 1..Len(frames) /\ Answers(frames[k])

Frames == [req : Nat, code : ResultCodes \cup {"init"}]

FramesOK ==
    /\ frames \in Seq(Frames)
    /\ \A k \in 1..Len(frames) : IsInit(frames[k]) \/ IsAnswer(k)
    /\ \A i \in 1..Len(queue) : IsAnswer(queue[i])
    /\ cli_pc = "unpack" => IsAnswer(answer)

RequestsOK ==
    /\ accepted \in Seq(Nat) /\ wire \in Seq(Nat)
    /\ \A i \in 1..Len(accepted) : accepted[i] \in 1..Len(calls)
    /\ \A i \in 1..Len(wire) : wire[i] \in 1..Len(calls)
    /\ in_driver \subseteq 1..Len(calls)

TypeInv == TypeOK /\ FramesOK /\ RequestsOK

-----------------------------------------------------------------------------
(* Sequences, the heap and what a command may return. *)

LEMMA AppendProperties ==
    ASSUME NEW S, NEW q \in Seq(S), NEW x \in S
    PROVE  /\ Append(q, x) \in Seq(S) /\ Len(Append(q, x)) = Len(q) + 1
           /\ \A i \in 1..Len(q) : Append(q, x)[i] = q[i]
           /\ Append(q, x)[Len(q) + 1] = x
  OBVIOUS

LEMMA TailProperties ==
    ASSUME NEW S, NEW q \in Seq(S), q # <<>>
    PROVE  /\ Head(q) \in S /\ Head(q) = q[1] /\ Tail(q) \in Seq(S)
           /\ Len(q) \in Nat \ {0} /\ Len(Tail(q)) = Len(q) - 1
           /\ \A i \in 1..Len(Tail(q)) : i + 1 \in 1..Len(q) /\ Tail(q)[i] = q[i + 1]
  OBVIOUS

LEMMA WiderSeq ==
    ASSUME NEW m \in Nat, NEW n \in Nat, m <= n, NEW q \in Seq(1..m)
    PROVE  q \in Seq(1..n)
  OBVIOUS

LEMMA ReturnsType ==
    ASSUME NEW c \in Commands, NEW code \in DOMAIN c.returns
    PROVE  c.returns[code] \in Returns /\ code \in ResultCodes
  BY DEF Returns, ResultCodes

LEMMA FailureReturned == \A c \in Commands : c.returns["failure"] \in Returns
  <1> TAKE c \in Commands
  <1>1. "failure" \in DOMAIN c.returns
    BY ControlAssumption
  <1>2. QED
    BY <1>1, ReturnsType

LEMMA FrameFields == \A f \in Frames : f.req \in Nat
  BY DEF Frames

LEMMA BufferTypes ==
    /\ \A c \in Calls : WriteBuf(c) \in Buffers /\ RxData(c) \in Buffers
    /\ \A k \in Nat : Payload(k) \in Buffers
  BY DEF Buffers, WriteBuf, RxData, Payload

LEMMA AllocFreeType ==
    ASSUME NEW A \in SUBSET Buffers, NEW F \in SUBSET Buffers, AllocFree(A, F),
           heap \subseteq Buffers, double_free \subseteq Buffers
    PROVE  heap' \subseteq Buffers /\ double_free' \subseteq Buffers
  BY DEF AllocFree

\* The last call, while one is running.
LEMMA RunningCall ==
    ASSUME TypeInv, cli_pc # "idle"
    PROVE  /\ call \in Calls /\ call \in 1..Len(calls)
           /\ calls[call] \in Commands
           /\ calls[call].returns["failure"] \in Returns
  <1>1. calls \in Seq(Commands) /\ Len(calls) <= MaxCalls /\ answered \in Seq(Nat)
    BY DEF TypeInv, TypeOK, TypeCli, TypeSerial, TypeDriver, call
  <1>2. Len(calls) = Len(answered) + 1 /\ Len(answered) \in Nat /\ Len(calls) \in Nat
    BY <1>1 DEF TypeInv, TypeOK, TypeCli, TypeSerial, TypeDriver, call
  <1>3. call \in Calls /\ call \in 1..Len(calls)
    BY <1>1, <1>2, ControlAssumption DEF call, Calls
  <1>4. calls[call] \in Commands
    BY <1>1, <1>3
  <1>5. QED
    BY <1>3, <1>4, FailureReturned

\* A command returns a string or faults, whatever answer it has read.
LEMMA ResultType ==
    ASSUME TypeInv, cli_pc = "unpack", NEW result \in Results(calls[call], answer)
    PROVE  result = "fault" \/ result \in Returns
  <1>1. calls[call] \in Commands /\ calls \in Seq(Commands)
    BY RunningCall DEF TypeInv, TypeOK, TypeCli, TypeSerial, TypeDriver
  <1>2. IsAnswer(answer)
    BY DEF TypeInv, FramesOK
  <1> DEFINE r == frames[answer].req
  <1>3. r \in 1..Len(calls) /\ calls[r] \in Commands
        /\ frames[answer].code \in DOMAIN calls[r].returns
    BY <1>1, <1>2 DEF IsAnswer, Answers
  <1>4. CASE calls[r].case = calls[call].case
    <2>1. calls[r].returns = calls[call].returns
      BY <1>1, <1>3, <1>4, ControlAssumption
    <2>2. result = calls[call].returns[frames[answer].code]
      BY <1>4 DEF Results
    <2>3. QED
      BY <1>1, <1>3, <2>1, <2>2, ReturnsType
  <1>5. CASE calls[r].case # calls[call].case
    <2> DEFINE returns == calls[call].returns
    <2>1. \A code \in DOMAIN returns : returns[code] \in Returns
      BY <1>1, ReturnsType
    <2>2. result = "fault" \/ \E code \in DOMAIN returns : result = returns[code]
      BY <1>5 DEF Results
    <2>3. QED
      BY <2>1, <2>2
  <1>6. QED
    BY <1>4, <1>5
-----------------------------------------------------------------------------
(* Type correctness. *)

LEMMA TypeInit == Init => TypeInv
  <1> SUFFICES ASSUME Init PROVE TypeInv
    OBVIOUS
  <1>1. TypeOK
    <2>1. TypeCli
      BY ControlAssumption DEF Init, TypeCli, call
    <2>2. TypeSerial
      <3>1. queue \in Seq(1..Len(frames)) /\ Len(queue) = 0
        BY DEF Init
      <3>2. readSemaphore \in BOOLEAN /\ serial_if_g = "NULL" /\ conn_num = 0 /\ rx_pc = "receive"
        BY DEF Init
      <3>3. Len(queue) <= TO_SERIAL_INFT_QUEUE_SIZE
        BY <3>1, ControlAssumption
      <3>4. QED
        BY <3>1, <3>2, <3>3 DEF TypeSerial
    <2>3. TypeDriver
      BY DEF Init, TypeDriver
    <2>4. QED
      BY <2>1, <2>2, <2>3 DEF TypeOK
  <1>2. FramesOK
    BY DEF Init, FramesOK
  <1>3. RequestsOK
    BY DEF Init, RequestsOK
  <1>4. QED
    BY <1>1, <1>2, <1>3 DEF TypeInv

\* A finished call leaves the types of the CLI task's variables intact.
LEMMA ReturnType ==
    ASSUME TypeInv, cli_pc # "idle", UNCHANGED <<calls, frames>>,
           NEW k \in 0..Len(frames), NEW result \in Returns, Return(k, result)
    PROVE  /\ answered' \in Seq(Nat) /\ returned' \in Seq(Returns)
           /\ Len(returned') = Len(answered')
           /\ call' = Len(answered') /\ cli_pc' = "idle" /\ answer' \in 0..Len(frames')
  <1>1. /\ answered \in Seq(Nat) /\ returned \in Seq(Returns) /\ Len(returned) = Len(answered)
        /\ Len(calls) = Len(answered) + 1
    BY DEF TypeInv, TypeOK, TypeCli, TypeSerial, TypeDriver, call
  <1>2. frames \in Seq(Frames)
    BY DEF TypeInv, FramesOK
  <1>3. k \in Nat
    BY <1>2
  <1>4. /\ answered' \in Seq(Nat) /\ Len(answered') = Len(answered) + 1
        /\ returned' \in Seq(Returns) /\ Len(returned') = Len(returned) + 1
    BY <1>1, <1>3, AppendProperties DEF Return
  <1>5. QED
    BY <1>1, <1>2, <1>4 DEF Return, call

\* What an action does to the frames, the requests and the queue is enough to
\* keep FramesOK and RequestsOK: here, nothing but a shorter queue.
LEMMA FramesKept ==
    ASSUME TypeInv, UNCHANGED <<frames, accepted, wire, calls>>,
           \A i \in 1..Len(queue') : IsAnswer(queue'[i]),
           cli_pc' = "unpack" => IsAnswer(answer'),
           in_driver' \subseteq in_driver
    PROVE  FramesOK' /\ RequestsOK'
  <1>1. FramesOK'
    BY DEF TypeInv, FramesOK, IsAnswer, Answers, IsInit
  <1>2. RequestsOK'
    BY DEF TypeInv, RequestsOK
  <1>3. QED
    BY <1>1, <1>2

LEMMA TypeStep == TypeInv /\ [Next]_vars => TypeInv'
  <1> SUFFICES ASSUME TypeInv, [Next]_vars PROVE TypeInv'
    OBVIOUS
  <1> USE DEF cli, serial, mem, down, up, slave
  <1>0. /\ calls \in Seq(Commands) /\ answered \in Seq(Nat) /\ returned \in Seq(Returns)
        /\ Len(calls) \in Nat /\ Len(frames) \in Nat /\ Len(wire) \in Nat
        /\ frames \in Seq(Frames)
        /\ queue \in Seq(1..Len(frames))
    BY DEF TypeInv, TypeOK, TypeCli, TypeSerial, TypeDriver, FramesOK, RequestsOK
  <1>h. heap \subseteq Buffers /\ double_free \subseteq Buffers
    BY DEF TypeInv, TypeOK, TypeDriver
  <1>1. ASSUME NEW command \in Commands, ~Stopped, Call(command) PROVE TypeInv'
    <2>1. /\ calls' \in Seq(Commands) /\ Len(calls') = Len(calls) + 1
          /\ \A i \in 1..Len(calls) : calls'[i] = calls[i]
      BY <1>0, <1>1, AppendProperties DEF Call
    <2>2. call' = call + 1 /\ call < MaxCalls /\ call + 1 \in Calls
      BY <1>0, <1>1, <2>1, ControlAssumption DEF Call, call, Calls
    <2>3. heap' \subseteq Buffers /\ double_free' \subseteq Buffers
      <3>1. {WriteBuf(call + 1)} \in SUBSET Buffers /\ {} \in SUBSET Buffers
        BY <2>2, BufferTypes
      <3>2. QED
        BY <1>h, <1>1, <3>1, AllocFreeType DEF Call
    <2>4. TypeOK'
      BY <1>0, <1>1, <2>1, <2>2, <2>3, ControlAssumption DEF Call, TypeInv, TypeOK, TypeCli, TypeSerial, TypeDriver, call
    <2>5. FramesOK'
      <3>1. \A k : IsAnswer(k) => IsAnswer(k)'
        BY <1>0, <1>1, <2>1 DEF Call, IsAnswer, Answers
      <3>2. QED
        BY <1>0, <1>1, <3>1 DEF Call, TypeInv, FramesOK, IsInit
    <2>6. RequestsOK'
      <3>1. 1..Len(calls) \subseteq 1..Len(calls')
        BY <1>0, <2>1
      <3>2. UNCHANGED <<accepted, wire, in_driver>>
        BY <1>1 DEF Call
      <3>3. QED
        BY <3>1, <3>2 DEF TypeInv, RequestsOK
    <2>7. QED
      BY <2>4, <2>5, <2>6 DEF TypeInv
  <1>2. ASSUME WriteRefused \/ Timeout PROVE TypeInv'
    <2>1. cli_pc # "idle" /\ cli_pc' # "unpack"
      BY <1>2 DEF WriteRefused, Timeout, ReturnFailure, Return
    <2>2. call \in Calls /\ calls[call].returns["failure"] \in Returns
      BY <2>1, RunningCall
    <2>3. 0 \in 0..Len(frames) /\ Return(0, calls[call].returns["failure"])
      BY <1>0, <1>2 DEF WriteRefused, Timeout, ReturnFailure
    <2>4. UNCHANGED <<calls, frames>>
      BY <1>2 DEF WriteRefused, Timeout
    <2>5. /\ answered' \in Seq(Nat) /\ returned' \in Seq(Returns)
          /\ Len(returned') = Len(answered')
          /\ call' = Len(answered') /\ cli_pc' = "idle" /\ answer' \in 0..Len(frames')
      BY <2>1, <2>2, <2>3, <2>4, ReturnType
    <2>6. heap' \subseteq Buffers /\ double_free' \subseteq Buffers
      BY <1>h, <1>2, <2>2, BufferTypes, AllocFreeType
      DEF WriteRefused, Timeout, FreedOnError
    <2>7. TypeOK'
      <3>1. TypeCli'
        BY <1>0, <1>2, <2>4, <2>5 DEF WriteRefused, Timeout, TypeInv, TypeOK, TypeCli, call
      <3>2. TypeSerial' /\ TypeDriver'
        BY <1>2, <2>6 DEF WriteRefused, Timeout, TypeInv, TypeOK, TypeSerial, TypeDriver
      <3>3. QED
        BY <3>1, <3>2 DEF TypeOK
    <2>8. FramesOK' /\ RequestsOK'
      BY <1>2, <2>1, FramesKept DEF WriteRefused, Timeout, TypeInv, FramesOK
    <2>9. QED
      BY <2>7, <2>8 DEF TypeInv
  <1>3. ASSUME WriteTooLong PROVE TypeInv'
    <2>1. cli_pc # "idle" /\ cli_pc' # "unpack"
      BY <1>3 DEF WriteTooLong, ReturnFailure, Return
    <2>2. call \in Calls /\ calls[call].returns["failure"] \in Returns
      BY <2>1, RunningCall
    <2>3. 0 \in 0..Len(frames) /\ Return(0, calls[call].returns["failure"])
      BY <1>0, <1>3 DEF WriteTooLong, ReturnFailure
    <2>4. UNCHANGED <<calls, frames>>
      BY <1>3 DEF WriteTooLong
    <2>5. /\ answered' \in Seq(Nat) /\ returned' \in Seq(Returns)
          /\ Len(returned') = Len(answered')
          /\ call' = Len(answered') /\ cli_pc' = "idle" /\ answer' \in 0..Len(frames')
      BY <2>1, <2>2, <2>3, <2>4, ReturnType
    <2>6. heap' \subseteq Buffers /\ double_free' \subseteq Buffers
      BY <1>3, <2>2, BufferTypes DEF WriteTooLong, FreedOnError, TypeInv, TypeOK, TypeCli, TypeSerial, TypeDriver
    <2>7. TypeOK'
      BY <1>0, <1>3, <2>4, <2>5, <2>6 DEF WriteTooLong, TypeInv, TypeOK, TypeCli, TypeSerial, TypeDriver, call
    <2>8. FramesOK' /\ RequestsOK'
      BY <1>3, <2>1, FramesKept DEF WriteTooLong, TypeInv, FramesOK
    <2>9. QED
      BY <2>7, <2>8 DEF TypeInv
  <1>4. ASSUME Write PROVE TypeInv'
    <2>1. call \in 1..Len(calls) /\ call \in Calls /\ call \in Nat
      BY <1>0, <1>4, RunningCall DEF Write
    <2>2. /\ accepted' \in Seq(Nat) /\ Len(accepted') = Len(accepted) + 1
          /\ \A i \in 1..Len(accepted) : accepted'[i] = accepted[i]
          /\ accepted'[Len(accepted) + 1] = call
      BY <1>4, <2>1, AppendProperties DEF Write, Link!Accept, TypeInv, RequestsOK
    <2>3. UNCHANGED <<wire, lost, delivered, dropped>>
      BY <1>4 DEF Write, Link!Accept
    <2>4. TypeOK'
      BY <1>4, <2>1, <2>3 DEF Write, TypeInv, TypeOK, TypeCli, TypeSerial, TypeDriver, call
    <2>5. FramesOK'
      BY <1>4 DEF Write, TypeInv, FramesOK, IsAnswer, Answers, IsInit
    <2>6. RequestsOK'
      <3>1. Len(accepted) \in Nat
        BY DEF TypeInv, RequestsOK
      <3>2. \A i \in 1..Len(accepted') : i \in 1..Len(accepted) \/ i = Len(accepted) + 1
        BY <3>1, <2>2
      <3>3. QED
        BY <1>4, <2>1, <2>2, <2>3, <3>2 DEF Write, TypeInv, RequestsOK
    <2>7. QED
      BY <2>4, <2>5, <2>6 DEF TypeInv
  <1>5. ASSUME TakeSemaphore PROVE TypeInv'
    <2>1. TypeOK'
      BY <1>5 DEF TakeSemaphore, TypeInv, TypeOK, TypeCli, TypeSerial, TypeDriver, call
    <2>2. FramesOK' /\ RequestsOK'
      BY <1>5, FramesKept DEF TakeSemaphore, TypeInv, FramesOK
    <2>3. QED
      BY <2>1, <2>2 DEF TypeInv
  <1>6. ASSUME Read PROVE TypeInv'
    <2>1. cli_pc # "idle" /\ UNCHANGED <<calls, frames, in_driver, accepted, wire>>
      BY <1>6 DEF Read
    <2>2. call \in Calls /\ calls[call].returns["failure"] \in Returns
      BY <2>1, RunningCall
    <2>3. 0 \in 0..Len(frames)
      BY <1>0
    <2>4. CASE queue = <<>>
      <3>1. Return(0, calls[call].returns["failure"])
        BY <1>6, <2>4 DEF Read, ReturnFailure
      <3>2. /\ answered' \in Seq(Nat) /\ returned' \in Seq(Returns)
            /\ Len(returned') = Len(answered')
            /\ call' = Len(answered') /\ cli_pc' = "idle" /\ answer' \in 0..Len(frames')
        BY <2>1, <2>2, <2>3, <3>1, ReturnType
      <3>3. heap' \subseteq Buffers /\ double_free' \subseteq Buffers
        BY <1>h, <1>6, <2>2, <2>4, BufferTypes, AllocFreeType DEF Read, FreedOnError
      <3>4. TypeOK'
        BY <1>0, <1>6, <2>1, <2>4, <3>2, <3>3 DEF Read, TypeInv, TypeOK, TypeCli, TypeSerial, TypeDriver, call
      <3>5. FramesOK' /\ RequestsOK'
        BY <1>6, <2>1, <2>4, <3>2, FramesKept DEF Read, TypeInv, FramesOK
      <3>6. QED
        BY <3>4, <3>5 DEF TypeInv
    <2>5. CASE queue # <<>>
      <3>1. /\ Head(queue) \in 1..Len(frames) /\ queue' \in Seq(1..Len(frames))
            /\ Len(queue') = Len(queue) - 1 /\ Len(queue) \in Nat
            /\ \A i \in 1..Len(queue') : queue'[i] = queue[i + 1] /\ i + 1 \in 1..Len(queue)
            /\ Head(queue) = queue[1] /\ 1 \in 1..Len(queue)
        <4>1. queue' = Tail(queue)
          BY <1>6, <2>5 DEF Read, Remaining
        <4>2. QED
          BY <1>0, <2>5, <4>1, TailProperties
      <3>2. IsAnswer(Head(queue)) /\ \A i \in 1..Len(queue') : IsAnswer(queue'[i])
        BY <3>1 DEF TypeInv, FramesOK
      <3>3. Payload(Head(queue)) \in Buffers /\ RxData(call) \in Buffers
            /\ WriteBuf(call) \in Buffers
        BY <1>0, <2>2, <3>1, BufferTypes
      <3>4. CASE answer' = Head(queue) /\ cli_pc' = "unpack" /\ UNCHANGED <<answered, returned>>
                 /\ AllocFree({RxData(call)}, {Payload(Head(queue))})
        <4>1. heap' \subseteq Buffers /\ double_free' \subseteq Buffers
          BY <1>h, <3>3, <3>4, AllocFreeType
        <4>2. TypeOK'
          <5>1. TypeCli'
            BY <1>0, <1>6, <2>1, <3>1, <3>4 DEF Read, TypeInv, TypeOK, TypeCli, call
          <5>2. TypeSerial'
            BY <1>0, <1>6, <2>1, <3>1, ControlAssumption DEF Read, TypeInv, TypeOK, TypeSerial
          <5>3. TypeDriver'
            BY <1>6, <4>1 DEF Read, TypeInv, TypeOK, TypeDriver
          <5>4. QED
            BY <5>1, <5>2, <5>3 DEF TypeOK
        <4>3. FramesOK' /\ RequestsOK'
          BY <2>1, <3>2, <3>4, FramesKept
        <4>4. QED
          BY <4>2, <4>3 DEF TypeInv
      <3>5. CASE Return(0, calls[call].returns["failure"])
                 /\ AllocFree({}, {Payload(Head(queue))} \cup FreedOnError)
        <4>1. /\ answered' \in Seq(Nat) /\ returned' \in Seq(Returns)
              /\ Len(returned') = Len(answered')
              /\ call' = Len(answered') /\ cli_pc' = "idle" /\ answer' \in 0..Len(frames')
          BY <2>1, <2>2, <2>3, <3>5, ReturnType
        <4>2. heap' \subseteq Buffers /\ double_free' \subseteq Buffers
          BY <1>h, <3>3, <3>5, AllocFreeType DEF FreedOnError
        <4>3. TypeOK'
          <5>1. TypeCli'
            <6>1. timeouts' = timeouts
              BY <1>6 DEF Read
            <6>2. QED
              BY <1>0, <2>1, <4>1, <6>1 DEF TypeInv, TypeOK, TypeCli, call
          <5>2. TypeSerial'
            BY <1>0, <1>6, <2>1, <3>1, ControlAssumption DEF Read, TypeInv, TypeOK, TypeSerial
          <5>3. TypeDriver'
            BY <1>6, <4>2 DEF Read, TypeInv, TypeOK, TypeDriver
          <5>4. QED
            BY <5>1, <5>2, <5>3 DEF TypeOK
        <4>4. FramesOK' /\ RequestsOK'
          BY <2>1, <3>2, <4>1, FramesKept
        <4>5. QED
          BY <4>3, <4>4 DEF TypeInv
      <3>6. QED
        BY <1>6, <2>5, <3>4, <3>5 DEF Read, ReturnFailure
    <2>6. QED
      BY <2>4, <2>5
  <1>7. ASSUME Unpack PROVE TypeInv'
    <2>1. PICK result \in Results(calls[call], answer) :
            IF result = "fault"
            THEN cli_pc' = "fault" /\ UNCHANGED <<answered, returned, answer, mem>>
            ELSE Return(answer, result) /\ AllocFree({}, {RxData(call)})
      BY <1>7 DEF Unpack
    <2>2. cli_pc = "unpack" /\ (result = "fault" \/ result \in Returns) /\ call \in Calls /\ answer \in 0..Len(frames)
      BY <1>7, RunningCall, ResultType DEF Unpack, TypeInv, TypeOK, TypeCli, TypeSerial, TypeDriver
    <2>3. UNCHANGED <<calls, timeouts, readSemaphore, serial, rx_pc, in_driver, slave, down, up>>
      BY <1>7 DEF Unpack
    <2>4. CASE result = "fault"
      <3>1. TypeOK'
        BY <2>1, <2>2, <2>3, <2>4 DEF TypeInv, TypeOK, TypeCli, TypeSerial, TypeDriver, call
      <3>2. FramesOK' /\ RequestsOK'
        BY <2>1, <2>3, <2>4, FramesKept DEF TypeInv, FramesOK
      <3>3. QED
        BY <3>1, <3>2 DEF TypeInv
    <2>5. CASE result # "fault"
      <3>1. /\ answered' \in Seq(Nat) /\ returned' \in Seq(Returns)
            /\ Len(returned') = Len(answered')
            /\ call' = Len(answered') /\ cli_pc' = "idle" /\ answer' \in 0..Len(frames')
        BY <2>1, <2>2, <2>3, <2>5, ReturnType
      <3>2. heap' \subseteq Buffers /\ double_free' \subseteq Buffers
        BY <1>h, <2>1, <2>2, <2>5, BufferTypes, AllocFreeType
      <3>3. TypeOK'
        <4>1. TypeCli'
          BY <1>0, <2>3, <3>1 DEF TypeInv, TypeOK, TypeCli, call
        <4>2. TypeSerial' /\ TypeDriver'
          BY <2>3, <3>2 DEF TypeInv, TypeOK, TypeSerial, TypeDriver
        <4>3. QED
          BY <4>1, <4>2 DEF TypeOK
      <3>4. FramesOK' /\ RequestsOK'
        BY <2>3, <3>1, FramesKept DEF TypeInv, FramesOK
      <3>5. QED
        BY <3>3, <3>4 DEF TypeInv
    <2>6. QED
      BY <2>4, <2>5
  <1>8. ASSUME NEW k \in Link!Pending, RxSerial(k) PROVE TypeInv'
    <2>1. k \in 1..Len(frames) /\ Payload(k) \in Buffers /\ IsAnswer(k)
      BY <1>0, <1>8, BufferTypes DEF Link!Pending, RxSerial, TypeInv, FramesOK
    <2>2. heap' \subseteq Buffers /\ double_free' \subseteq Buffers
      <3>1. AllocFree({Payload(k)}, {})
        BY <1>8 DEF RxSerial
      <3>2. QED
        BY <1>h, <2>1, <3>1, AllocFreeType
    <2>3. UNCHANGED <<cli, readSemaphore, serial_if_g, conn_num, in_driver, slave, down>>
      BY <1>8 DEF RxSerial
    <2>4. CASE serial_if_g = "ACTIVE"
      <3>1. /\ queue' \in Seq(1..Len(frames)) /\ Len(queue') = Len(queue) + 1
            /\ \A i \in 1..Len(queue) : queue'[i] = queue[i]
            /\ queue'[Len(queue) + 1] = k /\ Len(queue) \in Nat
        <4>1. queue' = Append(queue, k)
          BY <1>8, <2>4 DEF RxSerial
        <4>2. QED
          BY <1>0, <2>1, <4>1, AppendProperties
      <3>2. Len(queue) < TO_SERIAL_INFT_QUEUE_SIZE /\ rx_pc' = "indicate"
        BY <1>8, <2>4 DEF RxSerial, HasRoom
      <3>3. TypeOK'
        <4>1. TypeCli' /\ TypeDriver'
          BY <2>2, <2>3 DEF TypeInv, TypeOK, TypeCli, TypeDriver, call
        <4>2. TypeSerial'
          BY <2>3, <3>1, <3>2, ControlAssumption DEF TypeInv, TypeOK, TypeSerial
        <4>3. QED
          BY <4>1, <4>2 DEF TypeOK
      <3>4. \A i \in 1..Len(queue') : IsAnswer(queue'[i])
        <4>1. \A i \in 1..Len(queue') : i \in 1..Len(queue) \/ i = Len(queue) + 1
          BY <3>1
        <4>2. QED
          BY <2>1, <3>1, <4>1 DEF TypeInv, FramesOK
      <3>5. FramesOK' /\ RequestsOK'
        BY <2>3, <3>4, FramesKept DEF TypeInv, FramesOK
      <3>6. QED
        BY <3>3, <3>5 DEF TypeInv
    <2>5. CASE serial_if_g # "ACTIVE"
      <3>1. UNCHANGED <<queue, rx_pc>>
        BY <1>8, <2>5 DEF RxSerial
      <3>2. TypeOK'
        BY <2>2, <2>3, <3>1 DEF TypeInv, TypeOK, TypeCli, TypeSerial, TypeDriver, call
      <3>3. FramesOK' /\ RequestsOK'
        BY <2>3, <3>1, FramesKept DEF TypeInv, FramesOK
      <3>4. QED
        BY <3>2, <3>3 DEF TypeInv
    <2>6. QED
      BY <2>4, <2>5
  <1>9. ASSUME RxIndicate \/ (\E k \in Link!Pending : RxInit(k)) \/ SerialInit PROVE TypeInv'
    <2>1. UNCHANGED <<cli, queue, in_driver, mem, slave, down>>
      BY <1>9 DEF RxIndicate, RxInit, SerialInit
    <2>2. TypeOK'
      <3>1. CASE RxIndicate
        BY <2>1, <3>1 DEF RxIndicate, Indicated, TypeInv, TypeOK, TypeCli, TypeSerial, TypeDriver, call
      <3>2. ASSUME NEW k, RxInit(k) PROVE TypeOK'
        BY <2>1, <3>2 DEF RxInit, GivenAfterInit, TypeInv, TypeOK, TypeCli, TypeSerial, TypeDriver, call
      <3>3. CASE SerialInit
        BY <2>1, <3>3 DEF SerialInit, MAX_SERIAL_INTF, TypeInv, TypeOK, TypeCli, TypeSerial, TypeDriver, call
      <3>4. QED
        BY <1>9, <3>1, <3>2, <3>3
    <2>3. FramesOK' /\ RequestsOK'
      BY <2>1, FramesKept DEF TypeInv, FramesOK
    <2>4. QED
      BY <2>2, <2>3 DEF TypeInv
  <1>10. ASSUME SerialOpen PROVE TypeInv'
    <2>1. TypeOK'
      BY <1>10, ControlAssumption DEF SerialOpen, TypeInv, TypeOK, TypeCli, TypeSerial, TypeDriver, call
    <2>2. FramesOK' /\ RequestsOK'
      BY <1>10, FramesKept DEF SerialOpen, TypeInv, FramesOK
    <2>3. QED
      BY <2>1, <2>2 DEF TypeInv
  <1>11. ASSUME NEW c \in in_driver, GetTxBuffer(c) PROVE TypeInv'
    <2>1. WriteBuf(c) \in Buffers
      BY BufferTypes DEF TypeInv, TypeOK, TypeCli, TypeSerial, TypeDriver
    <2>2. heap' \subseteq Buffers /\ double_free' \subseteq Buffers
      BY <1>h, <1>11, <2>1, AllocFreeType DEF GetTxBuffer
    <2>3. TypeOK'
      BY <1>11, <2>2 DEF GetTxBuffer, TypeInv, TypeOK, TypeCli, TypeSerial, TypeDriver, call
    <2>4. FramesOK' /\ RequestsOK'
      BY <1>11, FramesKept DEF GetTxBuffer, TypeInv, FramesOK
    <2>5. QED
      BY <2>3, <2>4 DEF TypeInv
  <1>12. ASSUME Exchange PROVE TypeInv'
    <2>1. /\ UNCHANGED <<cli, readSemaphore, serial, rx_pc, in_driver, mem, slave, accepted>>
          /\ Link!Outgoing
      BY <1>12 DEF Exchange, Link!Exchange
    <2>2. CASE UNCHANGED wire
      <3>1. TypeOK'
        BY <2>1, <2>2 DEF TypeInv, TypeOK, TypeCli, TypeSerial, TypeDriver, call
      <3>2. FramesOK' /\ RequestsOK'
        BY <2>1, <2>2, FramesKept DEF TypeInv, FramesOK
      <3>3. QED
        BY <3>1, <3>2 DEF TypeInv
    <2>3. ASSUME NEW f \in Link!InTransit, wire' = Append(wire, f) PROVE TypeInv'
      <3>1. f \in 1..Len(calls) /\ f \in Nat
        BY <1>0 DEF Link!InTransit, Link!Elems, TypeInv, RequestsOK
      <3>2. /\ wire' \in Seq(Nat) /\ Len(wire') = Len(wire) + 1 /\ wire'[Len(wire) + 1] = f
            /\ \A i \in 1..Len(wire) : wire'[i] = wire[i]
        BY <2>3, <3>1, AppendProperties DEF TypeInv, RequestsOK
      <3>3. TypeOK'
        <4>1. TypeCli' /\ TypeSerial'
          BY <2>1 DEF TypeInv, TypeOK, TypeCli, TypeSerial, call
        <4>2. handled \in 0..Len(wire')
          BY <1>0, <3>2 DEF TypeInv, TypeOK, TypeDriver
        <4>3. TypeDriver'
          BY <2>1, <4>2 DEF TypeInv, TypeOK, TypeDriver
        <4>4. QED
          BY <4>1, <4>3 DEF TypeOK
      <3>4. FramesOK'
        BY <2>1 DEF TypeInv, FramesOK, IsAnswer, Answers, IsInit
      <3>5. RequestsOK'
        <4>1. \A i \in 1..Len(wire') : i \in 1..Len(wire) \/ i = Len(wire) + 1
          BY <1>0, <3>2
        <4>2. QED
          BY <2>1, <3>1, <3>2, <4>1 DEF TypeInv, RequestsOK
      <3>6. QED
        BY <3>3, <3>4, <3>5 DEF TypeInv
    <2>4. QED
      BY <2>1, <2>2, <2>3 DEF Link!Outgoing
  <1>13. ASSUME NEW f \in Frames, frames' = Append(frames, f),
                UNCHANGED <<cli, readSemaphore, serial, rx_pc, in_driver, mem, down>>,
                handled' \in 0..Len(wire),
                IsInit(f) \/ Answers(f)
         PROVE  TypeInv'
    <2>1. /\ frames' \in Seq(Frames) /\ Len(frames') = Len(frames) + 1
          /\ \A i \in 1..Len(frames) : frames'[i] = frames[i]
          /\ frames'[Len(frames) + 1] = f
      BY <1>0, <1>13, AppendProperties
    <2>2. queue' \in Seq(1..Len(frames'))
      BY <1>0, <1>13, <2>1, WiderSeq
    <2>3. TypeOK'
      <3>1. TypeCli'
        BY <1>0, <1>13, <2>1 DEF TypeInv, TypeOK, TypeCli, call
      <3>2. TypeSerial'
        BY <1>13, <2>2 DEF TypeInv, TypeOK, TypeSerial
      <3>3. TypeDriver'
        BY <1>13 DEF TypeInv, TypeOK, TypeDriver
      <3>4. QED
        BY <3>1, <3>2, <3>3 DEF TypeOK
    <2>4. FramesOK'
      <3>1. \A i \in 1..Len(frames') : i \in 1..Len(frames) \/ i = Len(frames) + 1
        BY <1>0, <2>1
      <3>2. \A k : IsAnswer(k) => IsAnswer(k)'
        BY <1>0, <1>13, <2>1 DEF IsAnswer, Answers
      <3>3. \A k \in 1..Len(frames') : IsInit(frames'[k]) \/ IsAnswer(k)'
        <4>1. ASSUME NEW k \in 1..Len(frames) PROVE IsInit(frames'[k]) \/ IsAnswer(k)'
          BY <2>1, <3>2, <4>1 DEF TypeInv, FramesOK, IsInit
        <4>2. ASSUME NEW k, k = Len(frames) + 1 PROVE IsInit(frames'[k]) \/ IsAnswer(k)'
          <5>1. k \in 1..Len(frames') /\ frames'[k] = f
            BY <1>0, <2>1, <4>2
          <5>2. CASE IsInit(f)
            BY <5>1, <5>2
          <5>3. CASE Answers(f)
            BY <1>13, <5>1, <5>3 DEF IsAnswer, Answers
          <5>4. QED
            BY <1>13, <5>2, <5>3
        <4>3. QED
          <5> TAKE k \in 1..Len(frames')
          <5>1. CASE k \in 1..Len(frames)
            BY <4>1, <5>1
          <5>2. CASE k = Len(frames) + 1
            BY <4>2, <5>2
          <5>3. QED
            BY <3>1, <5>1, <5>2
      <3>4. QED
        BY <1>13, <2>1, <3>2, <3>3 DEF TypeInv, FramesOK, IsInit
    <2>5. RequestsOK'
      BY <1>13 DEF TypeInv, RequestsOK
    <2>6. QED
      BY <2>3, <2>4, <2>5 DEF TypeInv
  <1>14. ASSUME SlaveInit PROVE TypeInv'
    <2>1. InitEvent \in Frames /\ IsInit(InitEvent)
      BY DEF InitEvent, IsInit, Frames
    <2>2. Len(wire) \in 0..Len(wire)
      BY <1>0
    <2>3. /\ frames' = Append(frames, InitEvent) /\ handled' = Len(wire)
          /\ UNCHANGED <<cli, readSemaphore, serial, rx_pc, in_driver, mem, down>>
          /\ handled' \in 0..Len(wire)
      BY <1>14, <2>2 DEF SlaveInit, Link!SlaveSends
    <2>4. QED
      <3>1. ASSUME NEW f \in Frames, f = InitEvent PROVE TypeInv'
        <4>1. IsInit(f) /\ frames' = Append(frames, f)
          BY <2>1, <2>3, <3>1
        <4>2. QED
          BY <1>13, <2>3, <4>1
      <3>2. QED
        BY <2>1, <3>1
  <1>15. ASSUME SlaveHandles PROVE TypeInv'
    <2>1. handled' \in 0..Len(wire) /\ handled + 1 \in 1..Len(wire)
      BY <1>0, <1>15 DEF SlaveHandles, TypeInv, TypeOK, TypeCli, TypeSerial, TypeDriver
    <2> DEFINE c == wire[handled + 1]
    <2>2. c \in 1..Len(calls) /\ calls[c] \in Commands
      BY <1>0, <2>1 DEF TypeInv, RequestsOK
    <2>3. UNCHANGED <<cli, readSemaphore, serial, rx_pc, in_driver, mem>>
      BY <1>15 DEF SlaveHandles
    <2>4. ASSUME NEW code \in DOMAIN calls[c].returns, frames' = Append(frames, Answer(c, code)),
                 Link!SlaveSends
          PROVE  TypeInv'
      <3>1. code \in ResultCodes
        BY <2>2, <2>4, ReturnsType
      <3>2. Answer(c, code) \in Frames
        BY <1>0, <2>2, <3>1 DEF Answer, Frames
      <3>3. QED
        BY <1>13, <2>1, <2>2, <2>3, <2>4, <3>2 DEF Answer, Answers, Link!SlaveSends
    <2>5. CASE UNCHANGED <<frames, down, up>>
      <3>1. TypeOK'
        BY <1>0, <2>1, <2>3, <2>5 DEF TypeInv, TypeOK, TypeCli, TypeSerial, TypeDriver, call
      <3>2. FramesOK' /\ RequestsOK'
        BY <2>3, <2>5, FramesKept DEF TypeInv, FramesOK
      <3>3. QED
        BY <3>1, <3>2 DEF TypeInv
    <2>6. QED
      BY <1>15, <2>4, <2>5 DEF SlaveHandles
  <1>16. CASE UNCHANGED vars
    <2>1. TypeOK'
      BY <1>16 DEF vars, TypeInv, TypeOK, TypeCli, TypeSerial, TypeDriver, call
    <2>2. FramesOK' /\ RequestsOK'
      BY <1>16, FramesKept DEF vars, TypeInv, FramesOK
    <2>3. QED
      BY <2>1, <2>2 DEF TypeInv
  <1>17. QED
    BY <1>1, <1>2, <1>3, <1>4, <1>5, <1>6, <1>7, <1>8, <1>9, <1>10, <1>11, <1>12, <1>14, <1>15,
       <1>16 DEF Next, Cli, RxTask, Idle

\* Every variable of the control path keeps its type, the queue of answers
\* never exceeds its size, and a command is running exactly when one call more
\* has been given than has returned.
THEOREM ControlTypeCorrect == Spec => []TypeOK
  <1>1. TypeInv => TypeOK
    BY DEF TypeInv
  <1>2. QED
    BY TypeInit, TypeStep, <1>1, PTL DEF Spec
-----------------------------------------------------------------------------
(* The semaphore, the queue of answers and the serial interface. *)

\* Until the interface is open nothing has been queued or announced and no
\* command waits; it is opened once.
SerialOK ==
    /\ conn_num = 0 => serial_if_g = "NULL" /\ rx_pc \in {"receive", "serial_init"}
    /\ rx_pc = "serial_open" => serial_if_g = "INIT"
    /\ serial_if_g # "ACTIVE" /\ rx_pc # "aborted"
       => queue = <<>> /\ ~readSemaphore /\ cli_pc \in {"idle", "write"} /\ rx_pc # "indicate"

One(b) == IF b THEN 1 ELSE 0

\* Every announcement, whether still to be made, made or taken by the running
\* command, stands for an answer of its own in the queue.
Announced ==
    One(readSemaphore) + One(cli_pc = "read") + One(rx_pc = "indicate") <= Len(queue)

QueueInv == TypeInv /\ SerialOK /\ Announced /\ FullQueueAnnounced

LEMMA QueueInit == Init => QueueInv
  <1> SUFFICES ASSUME Init PROVE QueueInv
    OBVIOUS
  <1>1. TypeInv
    BY TypeInit
  <1>2. SerialOK
    BY DEF Init, SerialOK
  <1>3. Len(queue) = 0
    BY DEF Init
  <1>4. Announced
    BY <1>3 DEF Init, Announced, One
  <1>5. FullQueueAnnounced
    BY <1>3, ControlAssumption DEF FullQueueAnnounced
  <1>6. QED
    BY <1>1, <1>2, <1>4, <1>5 DEF QueueInv

LEMMA QueueStep == QueueInv /\ [Next]_vars => QueueInv'
  <1> SUFFICES ASSUME QueueInv, [Next]_vars PROVE QueueInv'
    OBVIOUS
  <1> USE DEF cli, serial, mem, down, up, slave
  <1>0. /\ TypeInv /\ TypeInv' /\ readSemaphore \in BOOLEAN
        /\ queue \in Seq(1..Len(frames)) /\ Len(queue) \in Nat
        /\ Len(queue) <= TO_SERIAL_INFT_QUEUE_SIZE
    BY TypeStep DEF QueueInv, TypeInv, TypeOK, TypeSerial
  <1> USE DEF QueueInv
  <1>1. CASE UNCHANGED <<cli_pc, readSemaphore, serial, rx_pc>>
    BY <1>0, <1>1 DEF SerialOK, Announced, FullQueueAnnounced
  \* Steps of a command that neither take the semaphore nor read.
  <1>2. ASSUME UNCHANGED <<readSemaphore, serial, rx_pc>>,
               cli_pc # "read", cli_pc' # "read",
               cli_pc' \in {"idle", "write"} \/ serial_if_g = "ACTIVE" \/ rx_pc = "aborted"
        PROVE  QueueInv'
    BY <1>0, <1>2 DEF SerialOK, Announced, FullQueueAnnounced
  <1>3. ASSUME NEW command \in Commands, Call(command) PROVE QueueInv'
    BY <1>2, <1>3 DEF Call
  <1>4. ASSUME WriteRefused \/ WriteTooLong \/ Write \/ Timeout PROVE QueueInv'
    BY <1>2, <1>4 DEF WriteRefused, WriteTooLong, Write, Timeout, ReturnFailure, Return
  <1>5. ASSUME TakeSemaphore PROVE QueueInv'
    <2>1. /\ readSemaphore /\ cli_pc = "wait" /\ ~readSemaphore' /\ cli_pc' = "read"
          /\ UNCHANGED <<serial, rx_pc>>
      BY <1>5 DEF TakeSemaphore
    <2>2. SerialOK'
      BY <2>1 DEF SerialOK
    <2>3. Announced'
      BY <2>1 DEF Announced, One
    <2>4. FullQueueAnnounced'
      BY <2>1 DEF FullQueueAnnounced
    <2>5. QED
      BY <1>0, <2>2, <2>3, <2>4
  <1>6. ASSUME ~Stopped, Read PROVE QueueInv'
    <2>1. /\ cli_pc = "read" /\ cli_pc' \in {"idle", "unpack"}
          /\ UNCHANGED <<readSemaphore, serial_if_g, conn_num, rx_pc>>
      BY <1>6 DEF Read, ReturnFailure, Return
    <2>2. serial_if_g = "ACTIVE"
      BY <1>6, <2>1 DEF SerialOK, Stopped
    <2>3. queue # <<>>
      <3>1. 1 <= Len(queue)
        BY <1>0, <2>1 DEF Announced, One
      <3>2. QED
        BY <3>1
    <2>4. queue' = Tail(queue)
      BY <1>6, <2>3 DEF Read, Remaining
    <2>5. Len(queue') = Len(queue) - 1
      BY <1>0, <2>3, <2>4, TailProperties
    <2>6. SerialOK'
      BY <2>1, <2>2 DEF SerialOK
    <2>7. Announced'
      BY <1>0, <2>1, <2>5 DEF Announced, One
    <2>8. FullQueueAnnounced'
      BY <1>0, <2>5, ControlAssumption DEF FullQueueAnnounced
    <2>9. QED
      BY <1>0, <2>6, <2>7, <2>8
  <1>7. ASSUME ~Stopped, Unpack PROVE QueueInv'
    <2>1. cli_pc = "unpack" /\ cli_pc' \in {"idle", "fault"}
          /\ UNCHANGED <<readSemaphore, serial, rx_pc>>
      BY <1>7 DEF Unpack, Return
    <2>2. serial_if_g = "ACTIVE"
      BY <1>7, <2>1 DEF SerialOK, Stopped
    <2>3. QED
      BY <1>2, <2>1, <2>2
  <1>8. ASSUME NEW k, RxSerial(k) PROVE QueueInv'
    <2>1. rx_pc = "receive" /\ UNCHANGED <<cli_pc, readSemaphore, serial_if_g, conn_num>>
      BY <1>8 DEF RxSerial, Arrives
    <2>2. CASE serial_if_g = "ACTIVE"
      <3>1. k \in 1..Len(frames) /\ queue' = Append(queue, k) /\ rx_pc' = "indicate"
        BY <1>0, <1>8, <2>2 DEF RxSerial, Arrives, Link!Pending
      <3>2. Len(queue') = Len(queue) + 1
        BY <1>0, <3>1, AppendProperties
      <3>3. SerialOK'
        BY <2>1, <2>2, <3>1 DEF SerialOK
      <3>4. Announced'
        BY <1>0, <2>1, <3>1, <3>2 DEF Announced, One
      <3>5. FullQueueAnnounced'
        BY <3>1 DEF FullQueueAnnounced
      <3>6. QED
        BY <1>0, <3>3, <3>4, <3>5
    <2>3. CASE serial_if_g # "ACTIVE"
      BY <1>1, <1>8, <2>1, <2>3 DEF RxSerial
    <2>4. QED
      BY <2>2, <2>3
  <1>9. ASSUME RxIndicate PROVE QueueInv'
    <2>1. rx_pc = "indicate" /\ readSemaphore' /\ rx_pc' = "receive" /\ UNCHANGED <<cli_pc, serial>>
      BY <1>9 DEF RxIndicate, Indicated
    <2>2. SerialOK'
      BY <2>1 DEF SerialOK
    <2>3. Announced'
      BY <1>0, <2>1 DEF Announced, One
    <2>4. FullQueueAnnounced'
      BY <2>1 DEF FullQueueAnnounced
    <2>5. QED
      BY <1>0, <2>2, <2>3, <2>4
  <1>10. ASSUME NEW k, RxInit(k) PROVE QueueInv'
    <2>1. /\ rx_pc = "receive" /\ ~readSemaphore' /\ rx_pc' = "serial_init"
          /\ UNCHANGED <<cli_pc, serial>>
      BY <1>10 DEF RxInit, GivenAfterInit, Arrives
    <2>2. SerialOK'
      BY <2>1 DEF SerialOK
    <2>3. Announced'
      BY <1>0, <2>1 DEF Announced, One
    <2>4. FullQueueAnnounced'
      BY <2>1 DEF FullQueueAnnounced
    <2>5. QED
      BY <1>0, <2>2, <2>3, <2>4
  <1>11. ASSUME SerialInit PROVE QueueInv'
    <2>1. /\ rx_pc = "serial_init" /\ rx_pc' \in {"serial_open", "aborted"}
          /\ UNCHANGED <<cli_pc, readSemaphore, queue>>
      BY <1>11 DEF SerialInit
    <2>2. SerialOK'
      <3>1. conn_num \in {0, 1}
        BY <1>0 DEF TypeInv, TypeOK, TypeSerial
      <3>2. CASE conn_num = 0
        BY <1>11, <2>1, <3>2 DEF SerialInit, MAX_SERIAL_INTF, SerialOK
      <3>3. CASE conn_num = 1
        BY <1>11, <2>1, <3>3 DEF SerialInit, MAX_SERIAL_INTF, SerialOK
      <3>4. QED
        BY <3>1, <3>2, <3>3
    <2>3. Announced'
      BY <1>0, <2>1 DEF Announced, One
    <2>4. FullQueueAnnounced'
      BY <2>1 DEF FullQueueAnnounced
    <2>5. QED
      BY <1>0, <2>2, <2>3, <2>4
  <1>12. ASSUME SerialOpen PROVE QueueInv'
    <2>1. /\ rx_pc = "serial_open" /\ rx_pc' = "receive" /\ queue' = <<>>
          /\ serial_if_g' = "ACTIVE" /\ UNCHANGED <<cli_pc, readSemaphore, conn_num>>
      BY <1>12 DEF SerialOpen
    <2>2. ~readSemaphore /\ cli_pc # "read" /\ Len(queue') = 0
      BY <2>1 DEF SerialOK
    <2>3. SerialOK'
      BY <2>1 DEF SerialOK
    <2>4. Announced'
      BY <2>1, <2>2 DEF Announced, One
    <2>5. FullQueueAnnounced'
      BY <2>2, ControlAssumption DEF FullQueueAnnounced
    <2>6. QED
      BY <1>0, <2>3, <2>4, <2>5
  <1>13. ASSUME \/ \E c \in in_driver : GetTxBuffer(c)
                \/ Exchange \/ SlaveInit \/ SlaveHandles \/ Idle \/ UNCHANGED vars
         PROVE  QueueInv'
    BY <1>1, <1>13 DEF GetTxBuffer, Exchange, SlaveInit, SlaveHandles, Idle, vars
  <1>14. QED
    BY <1>3, <1>4, <1>5, <1>6, <1>7, <1>8, <1>9, <1>10, <1>11, <1>12, <1>13 DEF Next, Cli, RxTask

\* A command that returns from its wait finds an answer in the queue: the
\* semaphore and the queue of serial_if.c never disagree, in any interleaving.
THEOREM NoWakeUpWithoutAnswer == Spec => []NoEmptyRead
  <1>1. QueueInv => NoEmptyRead
    <2> SUFFICES ASSUME QueueInv, cli_pc = "read" PROVE queue # <<>>
      BY DEF NoEmptyRead
    <2>1. readSemaphore \in BOOLEAN /\ 1 <= Len(queue)
      BY DEF QueueInv, TypeInv, TypeOK, TypeSerial, Announced, One
    <2>2. QED
      BY <2>1
  <1>2. QED
    BY QueueInit, QueueStep, <1>1, PTL DEF Spec

\* When process_rx_task has filled the queue the next command is told so: it
\* never waits for a reader that waits for it.
THEOREM FullQueueIsAnnounced == Spec => []FullQueueAnnounced
  <1>1. QueueInv => FullQueueAnnounced
    BY DEF QueueInv
  <1>2. QED
    BY QueueInit, QueueStep, <1>1, PTL DEF Spec
-----------------------------------------------------------------------------
(* Memory of the control path. *)

\* The buffers that the queue of answers refers to.
Queued == {Payload(queue[i]) : i \in 1..Len(queue)}

LeakInv == QueueInv /\ NothingLeaks

LEMMA LeakInit == Init => LeakInv
  BY QueueInit DEF Init, LeakInv, NothingLeaks

LEMMA LeakStep == LeakInv /\ [Next]_vars => LeakInv'
  <1> SUFFICES ASSUME LeakInv, [Next]_vars PROVE NothingLeaks'
    BY QueueStep DEF LeakInv
  <1> USE DEF cli, serial, mem, down, up, slave
  <1>0. /\ NothingLeaks /\ call \in Nat
        /\ queue \in Seq(1..Len(frames)) /\ Len(queue) \in Nat
    BY DEF LeakInv, QueueInv, TypeInv, TypeOK, TypeCli, TypeSerial, call
  <1>1. CASE UNCHANGED <<heap, in_driver, queue, dropped, cli_pc, calls>>
    BY <1>0, <1>1 DEF NothingLeaks, call
  <1>2. ASSUME NEW command \in Commands, Call(command) PROVE NothingLeaks'
    <2>1. call' = call + 1
      BY <1>2, AppendProperties
      DEF Call, LeakInv, QueueInv, TypeInv, TypeOK, TypeCli, call
    <2>2. QED
      BY <1>0, <1>2, <2>1 DEF Call, AllocFree, NothingLeaks
  <1>3. ASSUME WriteRefused \/ WriteTooLong \/ Timeout PROVE NothingLeaks'
    BY <1>0, <1>3 DEF WriteRefused, WriteTooLong, Timeout, ReturnFailure, Return, FreedOnError,
                      AllocFree, NothingLeaks, call
  <1>4. ASSUME Write PROVE NothingLeaks'
    BY <1>0, <1>4 DEF Write, Link!Accept, NothingLeaks, call
  <1>5. ASSUME TakeSemaphore PROVE NothingLeaks'
    BY <1>0, <1>5 DEF TakeSemaphore, NothingLeaks, call
  <1>6. ASSUME Read PROVE NothingLeaks'
    <2>1. UNCHANGED <<in_driver, dropped, calls>> /\ cli_pc = "read" /\ call' = call
      BY <1>6 DEF Read, call
    <2>2. CASE queue = <<>>
      BY <1>0, <1>6, <2>1, <2>2
      DEF Read, ReturnFailure, Return, FreedOnError, AllocFree, NothingLeaks
    <2>3. CASE queue # <<>>
      <3>1. queue' = Tail(queue)
        BY <1>6, <2>3 DEF Read, Remaining
      <3>2. \A i \in 1..Len(queue) :
              queue[i] = Head(queue) \/ \E j \in 1..Len(queue') : queue'[j] = queue[i]
        <4>1. /\ Head(queue) = queue[1] /\ Len(queue') = Len(queue) - 1
              /\ \A j \in 1..Len(queue') : queue'[j] = queue[j + 1]
          BY <1>0, <2>3, <3>1, TailProperties
        <4>2. ASSUME NEW i \in 1..Len(queue), i # 1
              PROVE  i - 1 \in 1..Len(queue') /\ queue'[i - 1] = queue[i]
          <5>1. i - 1 \in 1..(Len(queue) - 1)
            BY <1>0, <4>2
          <5>2. i - 1 \in 1..Len(queue') /\ (i - 1) + 1 = i
            BY <4>1, <5>1
          <5>3. QED
            BY <4>1, <5>2
        <4>3. QED
          BY <4>1, <4>2
      <3>3. Queued \ {Payload(Head(queue))} \subseteq Queued'
        BY <3>2 DEF Queued
      <3>4. CASE cli_pc' = "unpack" /\ AllocFree({RxData(call)}, {Payload(Head(queue))})
        BY <1>0, <2>1, <3>3, <3>4 DEF AllocFree, NothingLeaks, Queued
      <3>5. CASE AllocFree({}, {Payload(Head(queue))} \cup FreedOnError)
        BY <1>0, <2>1, <3>3, <3>5 DEF AllocFree, NothingLeaks, Queued
      <3>6. QED
        BY <1>6, <2>3, <3>4, <3>5 DEF Read
    <2>4. QED
      BY <2>2, <2>3
  <1>7. ASSUME Unpack PROVE NothingLeaks'
    <2>1. UNCHANGED <<in_driver, dropped, calls, queue>> /\ cli_pc = "unpack" /\ call' = call
      BY <1>7 DEF Unpack, call
    <2>2. \/ cli_pc' = "fault" /\ heap' = heap
          \/ AllocFree({}, {RxData(call)})
      BY <1>7 DEF Unpack
    <2>3. QED
      BY <1>0, <2>1, <2>2 DEF AllocFree, NothingLeaks
  <1>8. ASSUME NEW k, RxSerial(k) PROVE NothingLeaks'
    <2>1. UNCHANGED <<in_driver, calls, cli_pc>> /\ call' = call /\ AllocFree({Payload(k)}, {})
      BY <1>8 DEF RxSerial, call
    <2>2. CASE serial_if_g = "ACTIVE"
      <3>1. k \in 1..Len(frames) /\ queue' = Append(queue, k) /\ dropped' = dropped
        BY <1>8, <2>2 DEF RxSerial, Arrives, Link!Pending
      <3>2. /\ Len(queue') = Len(queue) + 1 /\ queue'[Len(queue) + 1] = k
            /\ \A i \in 1..Len(queue) : queue'[i] = queue[i]
        BY <1>0, <3>1, AppendProperties
      <3>3. Queued \cup {Payload(k)} \subseteq Queued'
        <4>1. Len(queue) + 1 \in 1..Len(queue') /\ 1..Len(queue) \subseteq 1..Len(queue')
          BY <1>0, <3>2
        <4>2. QED
          BY <3>2, <4>1 DEF Queued
      <3>4. QED
        BY <1>0, <2>1, <3>1, <3>3 DEF AllocFree, NothingLeaks, Queued
    <2>3. CASE serial_if_g # "ACTIVE"
      <3>1. dropped' = dropped \cup {k} /\ queue' = queue
        BY <1>8, <2>3 DEF RxSerial
      <3>2. QED
        BY <1>0, <2>1, <3>1 DEF AllocFree, NothingLeaks
    <2>4. QED
      BY <2>2, <2>3
  <1>9. ASSUME RxIndicate \/ (\E k : RxInit(k)) \/ SerialInit PROVE NothingLeaks'
    BY <1>1, <1>9 DEF RxIndicate, RxInit, SerialInit
  <1>10. ASSUME SerialOpen PROVE NothingLeaks'
    <2>1. queue = <<>> /\ queue' = <<>>
      BY <1>10 DEF SerialOpen, LeakInv, QueueInv, SerialOK
    <2>2. QED
      BY <1>1, <1>10, <2>1 DEF SerialOpen
  <1>11. ASSUME NEW c \in in_driver, GetTxBuffer(c) PROVE NothingLeaks'
    <2>1. /\ in_driver' = in_driver \ {c} /\ AllocFree({}, {WriteBuf(c)})
          /\ UNCHANGED <<calls, cli_pc, queue, dropped>> /\ call' = call
      BY <1>11 DEF GetTxBuffer, call
    <2>2. QED
      BY <1>0, <2>1 DEF AllocFree, NothingLeaks
  <1>12. ASSUME Exchange PROVE NothingLeaks'
    <2>1. UNCHANGED <<heap, in_driver, queue, cli_pc, calls>> /\ dropped \subseteq dropped'
      BY <1>12 DEF Exchange, Link!Exchange, Link!Incoming
    <2>2. QED
      BY <1>0, <2>1 DEF NothingLeaks, call
  <1>13. ASSUME SlaveInit \/ SlaveHandles \/ Idle \/ UNCHANGED vars PROVE NothingLeaks'
    BY <1>1, <1>13 DEF SlaveInit, SlaveHandles, Link!SlaveSends, Idle, vars
  <1>14. QED
    BY <1>2, <1>3, <1>4, <1>5, <1>6, <1>7, <1>8, <1>9, <1>10, <1>11, <1>12, <1>13
    DEF Next, Cli, RxTask

\* Whatever is lost, refused or late, the control path leaks nothing: a buffer
\* that is allocated is in the driver, in the queue of answers, with the running
\* command, or the copy of an answer dropped before the interface was open.
THEOREM ControlPathLeaksNothing == Spec => []NothingLeaks
  <1>1. LeakInv => NothingLeaks
    BY DEF LeakInv
  <1>2. QED
    BY LeakInit, LeakStep, <1>1, PTL DEF Spec
-----------------------------------------------------------------------------
(* Answers: one for each request at most, handed up and taken in order. *)

\* The slave handles a request once, and answers it at most once.
SentOnce ==
    /\ delivered \subseteq 1..Len(frames)
    /\ \A i, j \in 1..Len(wire) : wire[i] = wire[j] => i = j
    /\ \A i \in 1..Len(wire) : \E j \in 1..Len(accepted) : accepted[j] = wire[i]
    /\ \A k \in 1..Len(frames) :
          ~IsInit(frames[k]) => \E i \in 1..handled : wire[i] = frames[k].req
    /\ \A k, l \in 1..Len(frames) :
          ~IsInit(frames[k]) /\ frames[k].req = frames[l].req => k = l

LEMMA SentOnceInit == Init => SentOnce
  BY DEF Init, SentOnce

LEMMA Histories ==
    ASSUME TypeInv
    PROVE  /\ frames \in Seq(Frames) /\ Len(frames) \in Nat
           /\ accepted \in Seq(Nat) /\ wire \in Seq(Nat)
           /\ Len(accepted) \in Nat /\ Len(wire) \in Nat /\ handled \in 0..Len(wire)
           /\ queue \in Seq(1..Len(frames)) /\ Len(queue) \in Nat
           /\ calls \in Seq(Commands) /\ Len(calls) \in Nat
           /\ answered \in Seq(Nat) /\ Len(answered) \in Nat
  BY DEF TypeInv, TypeOK, TypeCli, TypeSerial, TypeDriver, FramesOK, RequestsOK

\* What an answer says stays as it is.
LEMMA FramesGrow ==
    ASSUME TypeInv, [Next]_vars
    PROVE  /\ Len(frames) <= Len(frames') /\ Len(frames') \in Nat
           /\ \A k \in 1..Len(frames) : frames'[k] = frames[k]
  <1> USE DEF cli, serial, mem, down, up, slave
  <1>0. frames \in Seq(Frames) /\ Len(frames) \in Nat
    BY Histories
  <1>1. CASE frames' = frames
    BY <1>0, <1>1
  <1>2. ASSUME NEW f, frames' = Append(frames, f)
        PROVE  /\ Len(frames) <= Len(frames') /\ Len(frames') \in Nat
               /\ \A k \in 1..Len(frames) : frames'[k] = frames[k]
    BY <1>0, <1>2
  <1>3. frames' = frames \/ \E f : frames' = Append(frames, f)
    <2>1. CASE SlaveInit \/ SlaveHandles
      BY <2>1 DEF SlaveInit, SlaveHandles
    <2>2. CASE \/ Cli \/ \E command \in Commands : Call(command)
      BY <2>2 DEF Cli, Call, WriteRefused, WriteTooLong, Write, TakeSemaphore, Timeout, Read, Unpack
    <2>3. CASE RxTask
      BY <2>3 DEF RxTask, RxSerial, RxInit, RxIndicate, SerialInit, SerialOpen
    <2>4. CASE (\E c \in in_driver : GetTxBuffer(c)) \/ Exchange \/ Idle \/ UNCHANGED vars
      BY <2>4 DEF GetTxBuffer, Exchange, Idle, vars
    <2>5. QED
      BY <2>1, <2>2, <2>3, <2>4 DEF Next
  <1>4. QED
    BY <1>1, <1>2, <1>3

LEMMA SentOnceStep == TypeInv /\ TypeInv' /\ SentOnce /\ [Next]_vars => SentOnce'
  <1> SUFFICES ASSUME TypeInv, TypeInv', SentOnce, [Next]_vars PROVE SentOnce'
    OBVIOUS
  <1> USE DEF cli, serial, mem, down, up, slave
  <1>0. /\ frames \in Seq(Frames) /\ Len(frames) \in Nat
        /\ accepted \in Seq(Nat) /\ wire \in Seq(Nat)
        /\ Len(accepted) \in Nat /\ Len(wire) \in Nat /\ handled \in 0..Len(wire)
    BY Histories
  <1>1. CASE UNCHANGED <<frames, handled, wire, accepted, delivered>>
    BY <1>1 DEF SentOnce
  <1>2. ASSUME Write PROVE SentOnce'
    <2>1. /\ accepted' = Append(accepted, call) /\ call \in Nat
          /\ UNCHANGED <<frames, handled, wire, delivered>>
      BY <1>2, Histories DEF Write, Link!Accept, call
    <2>2. /\ 1..Len(accepted) \subseteq 1..Len(accepted')
          /\ \A j \in 1..Len(accepted) : accepted'[j] = accepted[j]
      BY <1>0, <2>1, AppendProperties
    <2>3. QED
      BY <2>1, <2>2 DEF SentOnce
  <1>3. ASSUME Exchange PROVE SentOnce'
    <2>1. UNCHANGED <<frames, handled, accepted, delivered>>
      BY <1>3 DEF Exchange, Link!Exchange
    <2>2. ASSUME NEW f \in Link!InTransit, wire' = Append(wire, f) PROVE SentOnce'
      <3>1. /\ \E j \in 1..Len(accepted) : accepted[j] = f
            /\ \A i \in 1..Len(wire) : wire[i] # f
        BY <2>2 DEF Link!InTransit, Link!Elems
      <3>2. f \in Nat
        BY <1>0, <3>1
      <3>3. /\ Len(wire') = Len(wire) + 1 /\ wire'[Len(wire) + 1] = f
            /\ \A i \in 1..Len(wire) : wire'[i] = wire[i]
        BY <1>0, <2>2, <3>2, AppendProperties
      <3>4. \A i \in 1..Len(wire') : i \in 1..Len(wire) \/ i = Len(wire) + 1
        BY <1>0, <3>3
      <3>5. \A i, j \in 1..Len(wire') : wire'[i] = wire'[j] => i = j
        <4>1. \A i, j \in 1..Len(wire) : wire'[i] = wire'[j] => i = j
          BY <3>3 DEF SentOnce
        <4>2. \A i \in 1..Len(wire) : wire'[i] # wire'[Len(wire) + 1]
          BY <3>1, <3>3
        <4>3. QED
          BY <3>4, <4>1, <4>2
      <3>6. \A i \in 1..Len(wire') : \E j \in 1..Len(accepted') : accepted'[j] = wire'[i]
        BY <2>1, <3>1, <3>3, <3>4 DEF SentOnce
      <3>7. \A i \in 1..handled : wire'[i] = wire[i]
        <4>1. 1..handled \subseteq 1..Len(wire)
          BY <1>0
        <4>2. QED
          BY <3>3, <4>1
      <3>8. \A k \in 1..Len(frames) :
               ~IsInit(frames[k]) => \E i \in 1..handled : wire'[i] = frames[k].req
        BY <3>7 DEF SentOnce
      <3>9. QED
        BY <2>1, <3>5, <3>6, <3>8 DEF SentOnce, IsInit
    <2>3. CASE wire' = wire
      BY <1>1, <2>1, <2>3
    <2>4. QED
      BY <1>3, <2>2, <2>3 DEF Exchange, Link!Exchange, Link!Outgoing
  <1>4. ASSUME NEW k, k \in Link!Pending, RxSerial(k) \/ RxInit(k) PROVE SentOnce'
    <2>1. k \in 1..Len(frames) /\ delivered' \subseteq delivered \cup {k}
          /\ UNCHANGED <<frames, handled, wire, accepted>>
      BY <1>4 DEF RxSerial, RxInit, Link!Pending
    <2>2. QED
      BY <2>1 DEF SentOnce
  <1>5. ASSUME NEW f \in Frames, NEW n \in handled..Len(wire), frames' = Append(frames, f),
               handled' = n, UNCHANGED <<wire, accepted, delivered>>,
               f.req # 0 => /\ \A i \in 1..handled : wire[i] # f.req
                            /\ \E i \in 1..n : wire[i] = f.req
        PROVE  SentOnce'
    <2>1. /\ Len(frames') = Len(frames) + 1 /\ frames'[Len(frames) + 1] = f
          /\ \A k \in 1..Len(frames) : frames'[k] = frames[k]
      BY <1>0, <1>5, AppendProperties
    <2>2. \A k \in 1..Len(frames') : k \in 1..Len(frames) \/ k = Len(frames) + 1
      BY <1>0, <2>1
    <2>3. 1..handled \subseteq 1..n
      BY <1>0
    <2>4. \A k \in 1..Len(frames) : ~IsInit(frames[k]) => f.req # frames[k].req
      BY <1>5 DEF SentOnce, IsInit
    <2>5. delivered' \subseteq 1..Len(frames')
      BY <1>0, <1>5, <2>1 DEF SentOnce
    <2>6. \A k \in 1..Len(frames') :
             ~IsInit(frames'[k]) => \E i \in 1..handled' : wire'[i] = frames'[k].req
      <3>1. ASSUME NEW k \in 1..Len(frames), ~IsInit(frames[k])
            PROVE  \E i \in 1..n : wire[i] = frames[k].req
        BY <2>3, <3>1 DEF SentOnce
      <3>2. QED
        BY <1>5, <2>1, <2>2, <3>1 DEF IsInit
    <2>7. \A k, l \in 1..Len(frames') :
             ~IsInit(frames'[k]) /\ frames'[k].req = frames'[l].req => k = l
      BY <2>1, <2>2, <2>4 DEF SentOnce, IsInit
    <2>8. QED
      BY <1>5, <2>5, <2>6, <2>7 DEF SentOnce
  <1>6. ASSUME SlaveInit PROVE SentOnce'
    <2>1. frames' = Append(frames, InitEvent) /\ handled' = Len(wire)
          /\ UNCHANGED <<wire, accepted, delivered>>
      BY <1>6 DEF SlaveInit, Link!SlaveSends
    <2>2. InitEvent \in Frames /\ InitEvent.req = 0 /\ Len(wire) \in handled..Len(wire)
      BY <1>0 DEF InitEvent, Frames
    <2>3. QED
      BY <1>5, <2>1, <2>2
  <1>7. ASSUME SlaveHandles PROVE SentOnce'
    <2>1. /\ handled < Len(wire) /\ handled' = handled + 1
          /\ UNCHANGED <<wire, accepted, delivered>>
      BY <1>7 DEF SlaveHandles, Link!SlaveSends
    <2>2. CASE frames' = frames
      <3>1. 1..handled \subseteq 1..handled'
        BY <1>0, <2>1
      <3>2. QED
        BY <2>1, <2>2, <3>1 DEF SentOnce
    <2>3. ASSUME NEW code \in DOMAIN calls[wire[handled + 1]].returns,
                 frames' = Append(frames, Answer(wire[handled + 1], code))
          PROVE  SentOnce'
      <3> DEFINE f == Answer(wire[handled + 1], code)
      <3>1. handled + 1 \in 1..Len(wire) /\ handled + 1 \in handled..Len(wire)
        BY <1>0, <2>1
      <3>2. f.req = wire[handled + 1]
        BY DEF Answer
      <3>3. f \in Frames
        <4>1. wire[handled + 1] \in Nat /\ calls[wire[handled + 1]] \in Commands
          <5>1. calls \in Seq(Commands)
            BY Histories
          <5>2. wire[handled + 1] \in 1..Len(calls)
            BY <3>1 DEF TypeInv, RequestsOK
          <5>3. QED
            BY <5>1, <5>2
        <4>2. code \in ResultCodes
          BY <4>1, ReturnsType
        <4>3. QED
          BY <4>1, <4>2 DEF Answer, Frames
      <3>4. \A i \in 1..handled : wire[i] # f.req
        <4>1. ASSUME NEW i \in 1..handled PROVE i \in 1..Len(wire) /\ i # handled + 1
          BY <1>0
        <4>2. QED
          BY <3>1, <3>2, <4>1 DEF SentOnce
      <3>5. \E i \in 1..(handled + 1) : wire[i] = f.req
        BY <1>0, <3>2
      <3> HIDE DEF f
      <3>6. QED
        BY <1>5, <2>1, <2>3, <3>1, <3>3, <3>4, <3>5 DEF f
    <2>4. QED
      BY <1>7, <2>2, <2>3 DEF SlaveHandles
  <1>8. CASE (\E command \in Commands : Call(command)) \/ (Cli /\ ~Write)
    BY <1>1, <1>8 DEF Cli, Call, WriteRefused, WriteTooLong, TakeSemaphore, Timeout, Read, Unpack
  <1>9. CASE \/ RxIndicate \/ SerialInit \/ SerialOpen \/ (\E c \in in_driver : GetTxBuffer(c))
             \/ Idle \/ UNCHANGED vars
    BY <1>1, <1>9 DEF RxIndicate, SerialInit, SerialOpen, GetTxBuffer, Idle, vars
  <1>10. QED
    BY <1>2, <1>3, <1>4, <1>6, <1>7, <1>8, <1>9 DEF Next, RxTask

\* The answers that serial_rx_handler has queued.
Obtained == {k \in delivered : ~IsInit(frames[k])}

\* An answer that a command has taken: all that is queued came later.
Took(k) == k \in Obtained /\ \A i \in 1..Len(queue) : k < queue[i]

InOrder ==
    /\ \A i \in 1..Len(queue) : queue[i] \in Obtained
    /\ \A i, j \in 1..Len(queue) : i < j => queue[i] < queue[j]
    /\ \A c \in 1..Len(answered) : answered[c] # 0 => Took(answered[c])
    /\ \A b, c \in 1..Len(answered) : answered[b] # 0 /\ answered[b] = answered[c] => b = c
    /\ cli_pc = "unpack" => Took(answer) /\ \A c \in 1..Len(answered) : answered[c] # answer

LEMMA InOrderInit == Init => InOrder
  BY DEF Init, InOrder

\* A step queues nothing but an answer later than all before it.
LEMMA QueueEvolves ==
    ASSUME TypeInv, SentOnce, [Next]_vars
    PROVE  /\ Obtained \subseteq Obtained'
           /\ \A i \in 1..Len(queue') : \/ \E j \in 1..Len(queue) : queue'[i] = queue[j]
                                        \/ \A d \in delivered : d < queue'[i]
  <1> USE DEF cli, serial, mem, down, up, slave
  <1>0. /\ queue \in Seq(1..Len(frames)) /\ Len(queue) \in Nat
        /\ delivered \subseteq 1..Len(frames)
    BY Histories DEF SentOnce
  <1>1. delivered \subseteq delivered' => Obtained \subseteq Obtained'
    BY <1>0, FramesGrow DEF Obtained, IsInit
  <1> DEFINE Goal == \A i \in 1..Len(queue') : \/ \E j \in 1..Len(queue) : queue'[i] = queue[j]
                                               \/ \A d \in delivered : d < queue'[i]
  <1>2. CASE queue' = queue /\ delivered \subseteq delivered'
    BY <1>1, <1>2
  <1>3. ASSUME Read PROVE delivered \subseteq delivered' /\ Goal
    <2>1. delivered' = delivered
      BY <1>3 DEF Read
    <2>2. CASE queue = <<>>
      BY <1>0, <1>3, <2>1, <2>2 DEF Read
    <2>3. CASE queue # <<>>
      <3>1. queue' = Tail(queue)
        BY <1>3, <2>3 DEF Read, Remaining
      <3>2. \A i \in 1..Len(queue') : i + 1 \in 1..Len(queue) /\ queue'[i] = queue[i + 1]
        BY <1>0, <2>3, <3>1, TailProperties
      <3>3. QED
        BY <2>1, <3>2
    <2>4. QED
      BY <2>2, <2>3
  <1>4. ASSUME NEW k, RxSerial(k) PROVE delivered \subseteq delivered' /\ Goal
    <2>1. CASE serial_if_g # "ACTIVE"
      BY <1>4, <2>1 DEF RxSerial
    <2>2. CASE serial_if_g = "ACTIVE"
      <3>1. /\ queue' = Append(queue, k) /\ delivered' = delivered \cup {k}
            /\ k \in 1..Len(frames) /\ \A d \in delivered : d < k
        BY <1>4, <2>2 DEF RxSerial, Arrives, Link!Pending
      <3>2. /\ Len(queue') = Len(queue) + 1 /\ queue'[Len(queue) + 1] = k
            /\ \A i \in 1..Len(queue) : queue'[i] = queue[i]
        BY <1>0, <3>1, AppendProperties
      <3>3. \A i \in 1..Len(queue') : i \in 1..Len(queue) \/ i = Len(queue) + 1
        BY <1>0, <3>2
      <3>4. QED
        BY <3>1, <3>2, <3>3
    <2>3. QED
      BY <2>1, <2>2
  <1>5. ASSUME SerialOpen PROVE delivered \subseteq delivered' /\ Goal
    BY <1>5 DEF SerialOpen
  <1>6. CASE (\E command \in Commands : Call(command)) \/ (Cli /\ ~Read)
    BY <1>2, <1>6 DEF Cli, Call, WriteRefused, WriteTooLong, Write, Link!Accept, TakeSemaphore,
                      Timeout, Unpack
  <1>7. CASE \/ RxIndicate \/ SerialInit \/ (\E k : RxInit(k))
             \/ (\E c \in in_driver : GetTxBuffer(c)) \/ Idle \/ UNCHANGED vars
    BY <1>2, <1>7 DEF RxIndicate, SerialInit, RxInit, GetTxBuffer, Idle, vars
  <1>8. CASE Exchange \/ SlaveInit \/ SlaveHandles
    BY <1>2, <1>8 DEF Exchange, Link!Exchange, SlaveInit, SlaveHandles, Link!SlaveSends
  <1>9. QED
    BY <1>1, <1>3, <1>4, <1>5, <1>6, <1>7, <1>8 DEF Next, RxTask

TookNext(k) == k \in Obtained' /\ \A i \in 1..Len(queue') : k < queue'[i]

LEMMA TookKept ==
    ASSUME TypeInv, SentOnce, [Next]_vars, NEW k, Took(k)
    PROVE  TookNext(k)
  <1>1. k \in delivered
    BY DEF Took, Obtained
  <1>2. \A i \in 1..Len(queue') : k < queue'[i]
    BY <1>1, QueueEvolves DEF Took
  <1>3. QED
    BY <1>2, QueueEvolves DEF Took, TookNext

AllTook == \A c \in 1..Len(answered) : answered[c] # 0 => Took(answered[c])
NoneTwice == \A b, c \in 1..Len(answered) : answered[b] # 0 /\ answered[b] = answered[c] => b = c

\* What has been returned stays, and what is new was taken just now.
LEMMA TookAppended ==
    ASSUME TypeInv, SentOnce, InOrder, [Next]_vars,
           NEW k \in Nat, answered' = Append(answered, k),
           k # 0 => cli_pc = "unpack" /\ k = answer
    PROVE  AllTook' /\ NoneTwice'
  <1>0. answered \in Seq(Nat) /\ Len(answered) \in Nat
    BY Histories
  <1>1. /\ Len(answered') = Len(answered) + 1 /\ answered'[Len(answered) + 1] = k
        /\ \A c \in 1..Len(answered) : answered'[c] = answered[c]
    BY <1>0, AppendProperties
  <1>2. \A c \in 1..Len(answered') : c \in 1..Len(answered) \/ c = Len(answered) + 1
    BY <1>0, <1>1
  <1>3. k # 0 => TookNext(k) /\ \A c \in 1..Len(answered) : answered[c] # k
    BY TookKept DEF InOrder
  <1>4. \A c \in 1..Len(answered) : answered[c] # 0 => TookNext(answered[c])
    BY TookKept DEF InOrder
  <1>5. \A c \in 1..Len(answered') : answered'[c] # 0 => TookNext(answered'[c])
    BY <1>1, <1>2, <1>3, <1>4
  <1>6. AllTook'
    BY <1>5 DEF AllTook, Took, TookNext
  <1>7. NoneTwice'
    BY <1>1, <1>2, <1>3 DEF InOrder, NoneTwice
  <1>8. QED
    BY <1>6, <1>7

LEMMA TookAllKept ==
    ASSUME TypeInv, SentOnce, InOrder, [Next]_vars, answered' = answered
    PROVE  AllTook' /\ NoneTwice'
  <1>1. \A c \in 1..Len(answered) : answered[c] # 0 => TookNext(answered[c])
    BY TookKept DEF InOrder
  <1>2. QED
    BY <1>1 DEF AllTook, NoneTwice, InOrder, Took, TookNext

LEMMA QueueInOrder ==
    ASSUME TypeInv, SentOnce, InOrder, [Next]_vars
    PROVE  /\ \A i \in 1..Len(queue') : queue'[i] \in Obtained'
           /\ \A i, j \in 1..Len(queue') : i < j => queue'[i] < queue'[j]
  <1> USE DEF cli, serial, mem, down, up, slave
  <1>0. /\ queue \in Seq(1..Len(frames)) /\ Len(queue) \in Nat
        /\ delivered \subseteq 1..Len(frames) /\ Obtained \subseteq Obtained'
    BY Histories, QueueEvolves DEF SentOnce
  <1> DEFINE Goal == /\ \A i \in 1..Len(queue') : queue'[i] \in Obtained'
                     /\ \A i, j \in 1..Len(queue') : i < j => queue'[i] < queue'[j]
  <1>1. CASE queue' = queue
    BY <1>0, <1>1 DEF InOrder
  <1>2. ASSUME Read PROVE Goal
    <2>1. CASE queue = <<>>
      BY <1>1, <1>2, <2>1 DEF Read
    <2>2. CASE queue # <<>>
      <3>1. queue' = Tail(queue)
        BY <1>2, <2>2 DEF Read, Remaining
      <3>2. \A i \in 1..Len(queue') : i + 1 \in 1..Len(queue) /\ queue'[i] = queue[i + 1]
        BY <1>0, <2>2, <3>1, TailProperties
      <3>3. \A i, j \in 1..Len(queue') : i < j => i + 1 < j + 1
        OBVIOUS
      <3>4. QED
        BY <1>0, <3>2, <3>3 DEF InOrder
    <2>3. QED
      BY <2>1, <2>2
  <1>3. ASSUME NEW k, RxSerial(k) PROVE Goal
    <2>1. CASE serial_if_g # "ACTIVE"
      BY <1>1, <1>3, <2>1 DEF RxSerial
    <2>2. CASE serial_if_g = "ACTIVE"
      <3>1. /\ queue' = Append(queue, k) /\ delivered' = delivered \cup {k}
            /\ k \in 1..Len(frames) /\ \A d \in delivered : d < k
            /\ ~IsInit(frames[k]) /\ frames' = frames
        BY <1>3, <2>2 DEF RxSerial, Arrives, Link!Pending
      <3>2. /\ Len(queue') = Len(queue) + 1 /\ queue'[Len(queue) + 1] = k
            /\ \A i \in 1..Len(queue) : queue'[i] = queue[i]
        BY <1>0, <3>1, AppendProperties
      <3>3. \A i \in 1..Len(queue') : i \in 1..Len(queue) \/ i = Len(queue) + 1
        BY <1>0, <3>2
      <3>4. k \in Obtained'
        BY <3>1 DEF Obtained
      <3>5. \A i \in 1..Len(queue) : queue[i] < k
        BY <3>1 DEF InOrder, Obtained
      <3>6. \A i, j \in 1..Len(queue') : i < j => i \in 1..Len(queue)
        BY <1>0, <3>2
      <3>7. \A i, j \in 1..Len(queue') : i < j => queue'[i] < queue'[j]
        BY <3>2, <3>3, <3>5, <3>6 DEF InOrder
      <3>8. QED
        BY <1>0, <3>2, <3>3, <3>4, <3>7 DEF InOrder
    <2>3. QED
      BY <2>1, <2>2
  <1>4. ASSUME SerialOpen PROVE Goal
    BY <1>4 DEF SerialOpen
  <1>5. CASE (\E command \in Commands : Call(command)) \/ (Cli /\ ~Read)
    BY <1>1, <1>5 DEF Cli, Call, WriteRefused, WriteTooLong, Write, TakeSemaphore,
                      Timeout, Unpack
  <1>6. CASE \/ RxIndicate \/ SerialInit \/ (\E k : RxInit(k))
             \/ (\E c \in in_driver : GetTxBuffer(c)) \/ Idle \/ UNCHANGED vars
             \/ Exchange \/ SlaveInit \/ SlaveHandles
    BY <1>1, <1>6 DEF RxIndicate, SerialInit, RxInit, GetTxBuffer, Idle, vars, Exchange, SlaveInit,
                      SlaveHandles
  <1>7. QED
    BY <1>2, <1>3, <1>4, <1>5, <1>6 DEF Next, RxTask

LEMMA InOrderStep == TypeInv /\ SentOnce /\ InOrder /\ [Next]_vars => InOrder'
  <1> SUFFICES ASSUME TypeInv, SentOnce, InOrder, [Next]_vars PROVE InOrder'
    OBVIOUS
  <1> USE DEF cli, serial, mem, down, up, slave
  <1>0. /\ queue \in Seq(1..Len(frames)) /\ Len(queue) \in Nat
        /\ answer \in Nat
    BY Histories DEF TypeInv, TypeOK, TypeCli
  <1> DEFINE Reading == cli_pc = "unpack" =>
                            Took(answer) /\ \A c \in 1..Len(answered) : answered[c] # answer
  <1>1. Reading' /\ AllTook' /\ NoneTwice' => InOrder'
    BY QueueInOrder DEF InOrder, AllTook, NoneTwice
  <1>2. CASE UNCHANGED <<cli_pc, answer, answered>>
    <2>1. cli_pc = "unpack" => TookNext(answer)
      BY TookKept DEF InOrder
    <2>2. Reading'
      BY <1>2, <2>1 DEF InOrder, Took, TookNext
    <2>3. QED
      BY <1>1, <1>2, <2>2, TookAllKept
  <1>3. ASSUME cli_pc' # "unpack", answered' = answered PROVE InOrder'
    BY <1>1, <1>3, TookAllKept
  <1>4. ASSUME cli_pc' # "unpack", NEW k \in Nat, answered' = Append(answered, k),
               k # 0 => cli_pc = "unpack" /\ k = answer
        PROVE  InOrder'
    BY <1>1, <1>4, TookAppended
  <1>5. ASSUME ReturnFailure PROVE InOrder'
    BY <1>4, <1>5 DEF ReturnFailure, Return
  <1>6. ASSUME Read PROVE InOrder'
    <2>1. CASE ReturnFailure
      BY <1>5, <2>1
    <2>2. CASE ~ReturnFailure
      <3>1. /\ queue # <<>> /\ queue' = Tail(queue) /\ answer' = Head(queue)
            /\ UNCHANGED <<answered, delivered, frames>>
        BY <1>6, <2>2 DEF Read, Remaining
      <3>2. /\ 1 \in 1..Len(queue) /\ Head(queue) = queue[1]
            /\ \A i \in 1..Len(queue') : i + 1 \in 1..Len(queue) /\ queue'[i] = queue[i + 1]
        BY <1>0, <3>1, TailProperties
      <3>3. \A i \in 1..Len(queue') : 1 < i + 1
        OBVIOUS
      <3>4. \A i \in 1..Len(queue') : queue[1] < queue'[i]
        BY <3>2, <3>3 DEF InOrder
      <3>5. Took(answer)'
        BY <3>1, <3>2, <3>4 DEF Took, InOrder, Obtained
      <3>6. \A c \in 1..Len(answered) : answered[c] # queue[1]
        <4>1. queue[1] \in Nat /\ queue[1] # 0
          BY <1>0, <3>2
        <4>2. QED
          BY <3>2, <4>1 DEF InOrder, Took
      <3>7. Reading'
        BY <3>1, <3>2, <3>5, <3>6
      <3>8. QED
        BY <1>1, <3>1, <3>7, TookAllKept
    <2>3. QED
      BY <2>1, <2>2
  <1>7. ASSUME Unpack PROVE InOrder'
    <2>1. CASE cli_pc' = "fault" /\ answered' = answered
      BY <1>3, <2>1
    <2>2. CASE cli_pc' = "idle" /\ answered' = Append(answered, answer) /\ cli_pc = "unpack"
      BY <1>0, <1>4, <2>2
    <2>3. QED
      BY <1>7, <2>1, <2>2 DEF Unpack, Return
  <1>8. CASE (\E command \in Commands : Call(command)) \/ Write \/ TakeSemaphore
    BY <1>3, <1>8 DEF Call, Write, TakeSemaphore
  <1>9. CASE WriteRefused \/ WriteTooLong \/ Timeout
    BY <1>5, <1>9 DEF WriteRefused, WriteTooLong, Timeout
  <1>10. CASE \/ RxTask \/ (\E c \in in_driver : GetTxBuffer(c)) \/ Idle \/ UNCHANGED vars
              \/ Exchange \/ SlaveInit \/ SlaveHandles
    BY <1>2, <1>10 DEF RxTask, RxSerial, RxIndicate, SerialInit, SerialOpen, RxInit, GetTxBuffer,
                       Idle, vars, Exchange, SlaveInit, SlaveHandles
  <1>11. QED
    BY <1>6, <1>7, <1>8, <1>9, <1>10 DEF Next, Cli
-----------------------------------------------------------------------------
(* How many late answers there can be. *)

Waiting == cli_pc \in {"wait", "read"}

\* Every request the driver accepted was given up, is waited for, or was paid
\* for with an answer taken out of the queue.
Counted ==
    Len(accepted) + Len(queue) = Cardinality(Obtained) + timeouts + One(Waiting)

LEMMA CountedInit == Init => Counted
  <1> SUFFICES ASSUME Init PROVE Counted
    OBVIOUS
  <1>1. Obtained = {} /\ Len(accepted) = 0 /\ Len(queue) = 0 /\ timeouts = 0 /\ ~Waiting
    BY DEF Init, Obtained, Waiting
  <1>2. QED
    BY <1>1, FS_EmptySet DEF Counted, One

LEMMA ObtainedFinite ==
    ASSUME TypeInv, SentOnce
    PROVE  IsFiniteSet(Obtained) /\ Cardinality(Obtained) \in Nat
  <1>1. Obtained \subseteq 1..Len(frames) /\ Len(frames) \in Nat
    BY Histories DEF SentOnce, Obtained
  <1>2. IsFiniteSet(1..Len(frames))
    BY <1>1, FS_Interval
  <1>3. QED
    BY <1>1, <1>2, FS_Subset, FS_CardinalityType

LEMMA ObtainedKept ==
    ASSUME TypeInv, SentOnce, [Next]_vars, delivered' = delivered
    PROVE  Obtained' = Obtained
  BY FramesGrow DEF SentOnce, Obtained, IsInit

LEMMA CountedStep == QueueInv /\ SentOnce /\ Counted /\ [Next]_vars => Counted'
  <1> SUFFICES ASSUME QueueInv, SentOnce, Counted, [Next]_vars PROVE Counted'
    OBVIOUS
  <1> USE DEF cli, serial, mem, down, up, slave
  <1>0. /\ TypeInv /\ accepted \in Seq(Nat) /\ Len(accepted) \in Nat
        /\ queue \in Seq(1..Len(frames)) /\ Len(queue) \in Nat
        /\ timeouts \in Nat /\ Cardinality(Obtained) \in Nat /\ IsFiniteSet(Obtained)
    BY Histories, ObtainedFinite DEF QueueInv, TypeInv, TypeOK, TypeCli
  <1>a. /\ Len(accepted) \in Nat /\ Len(queue) \in Nat
        /\ timeouts \in Nat /\ Cardinality(Obtained) \in Nat
    BY <1>0
  <1>1. CASE UNCHANGED <<accepted, queue, timeouts, delivered>> /\ Waiting' = Waiting
    BY <1>0, <1>1, ObtainedKept DEF Counted
  <1>2. ASSUME Write PROVE Counted'
    <2>1. /\ accepted' = Append(accepted, call) /\ UNCHANGED <<queue, timeouts, delivered>>
          /\ ~Waiting /\ Waiting'
      BY <1>2 DEF Write, Link!Accept, Waiting
    <2>2. Len(accepted') = Len(accepted) + 1
      BY <1>0, <2>1
    <2>3. QED
      BY <1>0, <2>1, <2>2, ObtainedKept DEF Counted, One
  <1>3. ASSUME Timeout PROVE Counted'
    <2>1. /\ timeouts' = timeouts + 1 /\ UNCHANGED <<queue, accepted, delivered>>
          /\ Waiting /\ ~Waiting'
      BY <1>3 DEF Timeout, ReturnFailure, Return, Waiting
    <2>2. QED
      BY <1>0, <2>1, ObtainedKept DEF Counted, One
  <1>4. ASSUME Read PROVE Counted'
    <2>1. UNCHANGED <<timeouts, accepted, delivered>> /\ cli_pc = "read" /\ Waiting /\ ~Waiting'
      BY <1>4 DEF Read, ReturnFailure, Return, Waiting
    <2>2. queue # <<>>
      <3>1. 1 <= Len(queue)
        BY <1>0, <2>1 DEF QueueInv, Announced, One, TypeInv, TypeOK, TypeSerial
      <3>2. QED
        BY <3>1
    <2>3. queue' = Tail(queue)
      BY <1>4, <2>2 DEF Read, Remaining
    <2>4. Len(queue') = Len(queue) - 1
      BY <1>0, <2>2, <2>3, TailProperties
    <2>5. One(Waiting) = 1 /\ One(Waiting') = 0
      BY <2>1 DEF One
    <2>6. Obtained' = Obtained
      BY <1>0, <2>1, ObtainedKept
    <2>7. QED
      <3>1. Len(accepted) + (Len(queue) - 1) = Cardinality(Obtained) + timeouts + 0
        BY <1>a, <2>1 DEF Counted, One
      <3>2. QED
        BY <2>1, <2>4, <2>5, <2>6, <3>1 DEF Counted
  <1>5. ASSUME NEW k, RxSerial(k) PROVE Counted'
    <2>1. UNCHANGED <<timeouts, accepted, cli_pc, frames>>
      BY <1>5 DEF RxSerial
    <2>2. CASE serial_if_g # "ACTIVE"
      BY <1>1, <1>5, <2>1, <2>2 DEF RxSerial, Waiting
    <2>3. CASE serial_if_g = "ACTIVE"
      <3>1. /\ queue' = Append(queue, k) /\ delivered' = delivered \cup {k}
            /\ k \in 1..Len(frames) /\ k \notin delivered /\ ~IsInit(frames[k])
        BY <1>5, <2>3 DEF RxSerial, Arrives, Link!Pending
      <3>2. Len(queue') = Len(queue) + 1
        BY <1>0, <3>1, AppendProperties
      <3>3. Obtained' = Obtained \cup {k} /\ k \notin Obtained
        BY <2>1, <3>1 DEF Obtained
      <3>4. Cardinality(Obtained') = Cardinality(Obtained) + 1
        BY <1>0, <3>3, FS_AddElement
      <3>5. QED
        <4>1. Waiting' = Waiting /\ One(Waiting) \in Nat
          BY <2>1 DEF Waiting, One
        <4>2. QED
          <5>1. Len(accepted) + (Len(queue) + 1)
                    = (Cardinality(Obtained) + 1) + timeouts + One(Waiting)
            BY <1>a, <4>1 DEF Counted
          <5>2. QED
            BY <2>1, <3>2, <3>4, <4>1, <5>1 DEF Counted
    <2>4. QED
      BY <2>2, <2>3
  <1>6. ASSUME NEW k, RxInit(k) PROVE Counted'
    <2>1. /\ UNCHANGED <<timeouts, accepted, cli_pc, frames, queue>>
          /\ delivered' = delivered \cup {k} /\ IsInit(frames[k])
      BY <1>6 DEF RxInit
    <2>2. Obtained' = Obtained
      BY <2>1 DEF Obtained
    <2>3. QED
      BY <2>1, <2>2 DEF Counted, Waiting
  <1>7. ASSUME SerialOpen PROVE Counted'
    <2>1. queue = <<>> /\ queue' = <<>>
      BY <1>7 DEF SerialOpen, QueueInv, SerialOK
    <2>2. QED
      BY <1>1, <1>7, <2>1 DEF SerialOpen, Waiting
  <1>8. CASE \/ (\E command \in Commands : Call(command)) \/ WriteRefused \/ WriteTooLong
             \/ TakeSemaphore \/ Unpack
    BY <1>1, <1>8 DEF Call, WriteRefused, WriteTooLong, TakeSemaphore, Unpack, ReturnFailure,
                      Return, Waiting
  <1>9. CASE \/ RxIndicate \/ SerialInit \/ (\E c \in in_driver : GetTxBuffer(c)) \/ Idle
             \/ UNCHANGED vars \/ Exchange \/ SlaveInit \/ SlaveHandles
    BY <1>1, <1>9 DEF RxIndicate, SerialInit, GetTxBuffer, Idle, vars, Exchange, Link!Exchange,
                      SlaveInit, SlaveHandles, Link!SlaveSends, Waiting
  <1>10. QED
    BY <1>2, <1>3, <1>4, <1>5, <1>6, <1>7, <1>8, <1>9 DEF Next, Cli, RxTask

\* Each answer belongs to a request of its own.
LEMMA AnswersHaveRequests ==
    ASSUME TypeInv, SentOnce
    PROVE  Cardinality(Obtained) <= Len(accepted)
  <1> DEFINE S == 1..Len(accepted)
             R(k) == CHOOSE j \in S : accepted[j] = frames[k].req
             f == [k \in Obtained |-> R(k)]
  <1>1. \A k \in Obtained : R(k) \in S /\ accepted[R(k)] = frames[k].req
    <2> TAKE k \in Obtained
    <2>1. k \in 1..Len(frames) /\ ~IsInit(frames[k]) /\ handled \in 0..Len(wire) /\ Len(wire) \in Nat
      BY Histories DEF Obtained, SentOnce
    <2>2. PICK i \in 1..handled : wire[i] = frames[k].req
      BY <2>1 DEF SentOnce
    <2>3. i \in 1..Len(wire)
      BY <2>1
    <2>4. \E j \in S : accepted[j] = frames[k].req
      BY <2>2, <2>3 DEF SentOnce
    <2>5. QED
      BY <2>4
  <1>2. \A k, l \in Obtained : R(k) = R(l) => k = l
    <2> SUFFICES ASSUME NEW k \in Obtained, NEW l \in Obtained, R(k) = R(l) PROVE k = l
      OBVIOUS
    <2>1. frames[k].req = frames[l].req
      BY <1>1
    <2>2. k \in 1..Len(frames) /\ l \in 1..Len(frames) /\ ~IsInit(frames[k])
      BY DEF SentOnce, Obtained
    <2>3. QED
      BY <2>1, <2>2 DEF SentOnce
  <1> HIDE DEF R
  <1>3. f \in Injection(Obtained, S)
    BY <1>1, <1>2 DEF Injection, IsInjective
  <1>4. IsFiniteSet(S) /\ Cardinality(S) = Len(accepted)
    <2>1. Len(accepted) \in Nat
      BY Histories
    <2>2. IsFiniteSet(1..Len(accepted))
          /\ Cardinality(1..Len(accepted)) = IF 1 > Len(accepted) THEN 0 ELSE Len(accepted) - 1 + 1
      <3>1. 1 \in Int /\ Len(accepted) \in Int
        BY <2>1
      <3>2. QED
        BY <3>1, FS_Interval, Zenon
    <2>3. QED
      BY <2>1, <2>2
  <1>5. QED
    BY <1>3, <1>4, FS_Injection
-----------------------------------------------------------------------------
(* What is freed. *)

AcceptedCalls == Link!Elems(accepted)

\* The calls that returned without an answer after send_to_slave had taken
\* their request over.
Abandoned == {d \in 1..Len(answered) : answered[d] = 0 /\ (d \in AcceptedCalls \/ TooLong(calls[d]))}

FreeOnce == double_free \subseteq {WriteBuf(c) : c \in Abandoned}

\* Each request, answer and result that is still to be freed is allocated,
\* apart from the requests of abandoned calls.
Allocated ==
    /\ \A c \in AcceptedCalls : c < call \/ cli_pc # "write"
    /\ cli_pc \in {"wait", "read", "unpack"} => call \in AcceptedCalls
    /\ cli_pc = "write" => WriteBuf(call) \in heap
    /\ \A c \in in_driver : c \in AcceptedCalls /\ (WriteBuf(c) \in heap \/ c \in Abandoned)
    /\ \A i \in 1..Len(queue) : Payload(queue[i]) \in heap
    /\ cli_pc = "unpack" => RxData(call) \in heap

LEMMA AllocatedInit == Init => Allocated /\ FreeOnce
  BY DEF Init, Allocated, FreeOnce, AcceptedCalls, Link!Elems

LEMMA BuffersDiffer ==
    /\ \A c, d : /\ WriteBuf(c) # Payload(d) /\ WriteBuf(c) # RxData(d) /\ Payload(c) # RxData(d)
                 /\ WriteBuf(c) = WriteBuf(d) => c = d
                 /\ Payload(c) = Payload(d) => c = d
  BY DEF WriteBuf, Payload, RxData

\* The last call of a task that is not idle has not returned, and no other.
LEMMA Numbers ==
    ASSUME TypeInv
    PROVE  /\ call \in Nat /\ Len(answered) \in Nat
           /\ cli_pc = "idle" => Len(answered) = call
           /\ cli_pc # "idle" => Len(answered) = call - 1 /\ call \in 1..Len(calls)
           /\ \A c \in AcceptedCalls : c \in 1..call
  <1>1. call \in Nat /\ Len(answered) \in Nat /\ call = Len(calls)
    BY Histories DEF call
  <1>2. call = Len(answered) + (IF cli_pc = "idle" THEN 0 ELSE 1)
    BY DEF TypeInv, TypeOK, TypeCli
  <1>3. \A i \in 1..Len(accepted) : accepted[i] \in 1..call
    BY <1>1 DEF TypeInv, RequestsOK
  <1>4. \A c \in AcceptedCalls : c \in 1..call
    BY <1>3 DEF AcceptedCalls, Link!Elems
  <1>5. QED
    BY <1>1, <1>2, <1>4

LEMMA AcceptedGrow ==
    ASSUME NEW f \in Nat, accepted \in Seq(Nat), accepted' = Append(accepted, f)
    PROVE  AcceptedCalls' = AcceptedCalls \cup {f}
  <1>1. /\ Len(accepted') = Len(accepted) + 1 /\ accepted'[Len(accepted) + 1] = f
        /\ \A i \in 1..Len(accepted) : accepted'[i] = accepted[i] /\ Len(accepted) \in Nat
    BY AppendProperties
  <1>2. Len(accepted) \in Nat
    OBVIOUS
  <1>3. 1..Len(accepted') = 1..Len(accepted) \cup {Len(accepted) + 1}
    BY <1>1, <1>2
  <1>4. QED
    BY <1>1, <1>2, <1>3 DEF AcceptedCalls, Link!Elems
-----------------------------------------------------------------------------
(* What the theorems below rest on, together. *)

AnswerInv == QueueInv /\ SentOnce /\ InOrder /\ Counted

LEMMA AnswerInit == Init => AnswerInv
  BY QueueInit, SentOnceInit, InOrderInit, CountedInit DEF AnswerInv

LEMMA AnswerStep == AnswerInv /\ [Next]_vars => AnswerInv'
  <1> SUFFICES ASSUME AnswerInv, [Next]_vars PROVE AnswerInv'
    OBVIOUS
  <1>1. QueueInv /\ TypeInv /\ QueueInv' /\ TypeInv'
    BY QueueStep DEF AnswerInv, QueueInv
  <1>2. QED
    BY <1>1, SentOnceStep, InOrderStep, CountedStep DEF AnswerInv

\* The queue holds only late answers and that of the running command: behind each
\* one is a request of its own, whose wait is over or still to end.
THEOREM LateAnswersAreBounded == Spec => []LateAnswersBounded
  <1>1. AnswerInv => LateAnswersBounded
    <2> SUFFICES ASSUME AnswerInv PROVE LateAnswersBounded
      OBVIOUS
    <2>1. TypeInv /\ Len(queue) \in Nat /\ Len(accepted) \in Nat
      BY Histories DEF AnswerInv, QueueInv
    <2>2. timeouts \in Nat
      BY <2>1 DEF TypeInv, TypeOK, TypeCli
    <2>3. Cardinality(Obtained) \in Nat /\ Cardinality(Obtained) <= Len(accepted)
      BY <2>1, ObtainedFinite, AnswersHaveRequests DEF AnswerInv
    <2>4. Len(accepted) + Len(queue) = Cardinality(Obtained) + timeouts + One(Waiting)
      BY DEF AnswerInv, Counted
    <2>5. One(Waiting) \in Nat
      BY DEF One
    <2>6. Len(queue) <= timeouts + One(Waiting)
      BY <2>1, <2>2, <2>3, <2>4, <2>5
    <2>7. QED
      BY <2>6 DEF LateAnswersBounded, One, Waiting
  <1>2. QED
    BY AnswerInit, AnswerStep, <1>1, PTL DEF Spec
-----------------------------------------------------------------------------
(* Whose answer a command gets. *)

\* What a command was asked and what it returned is not changed afterwards.
LEMMA CallsGrow ==
    ASSUME TypeInv, [Next]_vars
    PROVE  /\ \A c \in 1..Len(calls) : calls'[c] = calls[c]
           /\ 1..Len(answered) \subseteq 1..Len(calls)
  <1> USE DEF cli, serial, mem, down, up, slave
  <1>1. calls' = calls \/ \E command \in Commands : calls' = Append(calls, command)
    <2>1. CASE \E command \in Commands : Call(command)
      BY <2>1 DEF Call
    <2>2. CASE \/ Cli \/ Idle \/ UNCHANGED vars
      BY <2>2 DEF Cli, WriteRefused, WriteTooLong, Write, TakeSemaphore, Timeout, Read, Unpack,
                  Idle, vars
    <2>3. CASE RxTask \/ Exchange \/ SlaveInit \/ SlaveHandles \/ (\E c \in in_driver : GetTxBuffer(c))
      BY <2>3 DEF RxTask, RxSerial, RxInit, RxIndicate, SerialInit, SerialOpen, Exchange,
                  SlaveInit, SlaveHandles, GetTxBuffer
    <2>4. QED
      BY <2>1, <2>2, <2>3 DEF Next
  <1>2. \A c \in 1..Len(calls) : calls'[c] = calls[c]
    BY <1>1, Histories, AppendProperties
  <1>3. 1..Len(answered) \subseteq 1..Len(calls)
    BY Numbers, Histories DEF call
  <1>4. QED
    BY <1>2, <1>3

\* How the finished calls change: not at all, by a call that failed, or by one
\* that takes the answer it has read.
LEMMA Finishes ==
    ASSUME TypeInv, [Next]_vars
    PROVE  \/ UNCHANGED <<answered, returned>>
           \/ /\ cli_pc # "idle" /\ cli_pc' = "idle" /\ calls' = calls
              /\ answered' = Append(answered, 0)
              /\ \E result : returned' = Append(returned, result)
           \/ /\ cli_pc = "unpack" /\ cli_pc' = "idle" /\ calls' = calls
              /\ answered' = Append(answered, answer)
              /\ \E result \in Results(calls[call], answer) :
                    result # "fault" /\ returned' = Append(returned, result)
  <1> USE DEF cli, serial, mem, down, up, slave
  <1>1. CASE \/ WriteRefused \/ WriteTooLong \/ Timeout
    BY <1>1 DEF WriteRefused, WriteTooLong, Timeout, ReturnFailure, Return
  <1>2. CASE Read
    BY <1>2 DEF Read, ReturnFailure, Return
  <1>3. CASE Unpack
    BY <1>3 DEF Unpack, Return
  <1>4. CASE (\E command \in Commands : Call(command)) \/ Write \/ TakeSemaphore
    BY <1>4 DEF Call, Write, TakeSemaphore
  <1>5. CASE \/ RxTask \/ (\E c \in in_driver : GetTxBuffer(c)) \/ Idle \/ UNCHANGED vars
             \/ Exchange \/ SlaveInit \/ SlaveHandles
    BY <1>5 DEF RxTask, RxSerial, RxIndicate, SerialInit, SerialOpen, RxInit, GetTxBuffer,
                Idle, vars, Exchange, SlaveInit, SlaveHandles
  <1>6. QED
    BY <1>1, <1>2, <1>3, <1>4, <1>5 DEF Next, Cli

\* A taken answer is an answer, and no two calls took answers to one request.
LEMMA TakenAnswers ==
    ASSUME TypeInv, SentOnce, InOrder
    PROVE  /\ \A k \in Obtained : k \in 1..Len(frames) /\ ~IsInit(frames[k])
           /\ \A c \in 1..Len(answered) : answered[c] # 0 => answered[c] \in Obtained
           /\ \A b, c \in 1..Len(answered) :
                 /\ answered[b] # 0 /\ answered[c] # 0
                 /\ frames[answered[b]].req = frames[answered[c]].req
                 => b = c
           /\ cli_pc = "unpack" => /\ answer \in Obtained
                                   /\ frames[answer].req \in 1..Len(calls)
                                   /\ \A c \in 1..Len(answered) : answered[c] # 0
                                         => frames[answered[c]].req # frames[answer].req
  <1>1. \A k \in Obtained : k \in 1..Len(frames) /\ ~IsInit(frames[k])
    BY DEF SentOnce, Obtained
  <1>2. \A c \in 1..Len(answered) : answered[c] # 0 => answered[c] \in Obtained
    BY DEF InOrder, Took
  <1>3. \A k, l \in Obtained : frames[k].req = frames[l].req => k = l
    BY <1>1 DEF SentOnce
  <1>4. cli_pc = "unpack" => answer \in Obtained /\ frames[answer].req \in 1..Len(calls)
    BY DEF InOrder, Took, TypeInv, FramesOK, IsAnswer, Answers
  <1>5. \A b, c \in 1..Len(answered) :
           /\ answered[b] # 0 /\ answered[c] # 0
           /\ frames[answered[b]].req = frames[answered[c]].req
           => b = c
    BY <1>2, <1>3 DEF InOrder
  <1>6. cli_pc = "unpack" => \A c \in 1..Len(answered) : answered[c] # 0
                                  => frames[answered[c]].req # frames[answer].req
    BY <1>2, <1>3, <1>4 DEF InOrder
  <1>7. QED
    BY <1>1, <1>2, <1>4, <1>5, <1>6

LEMMA FaithfulStep == AnswerInv /\ AnswerInv' /\ ResultsFaithful /\ [Next]_vars => ResultsFaithful'
  <1> SUFFICES ASSUME AnswerInv, ResultsFaithful, [Next]_vars,
                      \A c \in 1..Len(answered') : answered'[c] # 0,
                      NEW c \in 1..Len(answered')
               PROVE  /\ frames'[answered'[c]].req = c
                      /\ returned'[c] = calls'[c].returns[frames'[answered'[c]].code]
    BY DEF ResultsFaithful
  <1>0. /\ TypeInv /\ SentOnce /\ InOrder
        /\ answered \in Seq(Nat) /\ Len(answered) \in Nat
        /\ returned \in Seq(Returns) /\ Len(returned) = Len(answered)
    BY Histories DEF AnswerInv, QueueInv, TypeInv, TypeOK, TypeCli
  <1>1. \A k \in Obtained : frames'[k] = frames[k]
    BY <1>0, TakenAnswers, FramesGrow
  \* The calls that had returned before.
  <1>2. ASSUME NEW d \in 1..Len(answered), answered'[d] = answered[d], returned'[d] = returned[d],
               \A b \in 1..Len(answered) : answered[b] # 0
        PROVE  /\ frames'[answered'[d]].req = d
               /\ returned'[d] = calls'[d].returns[frames'[answered'[d]].code]
    <2>1. answered[d] \in Obtained
      BY <1>0, <1>2, TakenAnswers
    <2>2. calls'[d] = calls[d]
      BY <1>0, CallsGrow
    <2>3. frames[answered[d]].req = d /\ returned[d] = calls[d].returns[frames[answered[d]].code]
      BY <1>2 DEF ResultsFaithful
    <2>4. frames'[answered[d]] = frames[answered[d]]
      BY <1>1, <2>1
    <2>5. QED
      BY <1>2, <2>2, <2>3, <2>4
  <1>3. CASE UNCHANGED <<answered, returned>>
    BY <1>2, <1>3
  <1>4. ASSUME answered' = Append(answered, 0) PROVE FALSE
    BY <1>0, <1>4
  <1>5. ASSUME cli_pc = "unpack", calls' = calls, answered' = Append(answered, answer),
               NEW result \in Results(calls[call], answer), result # "fault",
               returned' = Append(returned, result)
        PROVE  /\ frames'[answered'[c]].req = c
               /\ returned'[c] = calls'[c].returns[frames'[answered'[c]].code]
    <2>1. answer \in Nat /\ result \in Returns
      <3>1. answer \in Nat
        BY <1>0, Histories DEF TypeInv, TypeOK, TypeCli
      <3>2. QED
        BY <1>0, <1>5, <3>1, ResultType
    <2>2. /\ Len(answered') = Len(answered) + 1 /\ answered'[Len(answered) + 1] = answer
          /\ \A d \in 1..Len(answered) : answered'[d] = answered[d]
      BY <1>0, <1>5, <2>1, AppendProperties
    <2>3. /\ returned'[Len(answered) + 1] = result
          /\ \A d \in 1..Len(answered) : returned'[d] = returned[d]
      BY <1>0, <1>5, <2>1, AppendProperties
    <2>4. 1..Len(answered) \subseteq 1..Len(answered') /\ Len(answered) + 1 \in 1..Len(answered')
      BY <1>0, <2>2
    <2>5. \A d \in 1..Len(answered) : answered[d] # 0 /\ frames[answered[d]].req = d
      BY <2>2, <2>4 DEF ResultsFaithful
    <2>6. CASE c \in 1..Len(answered)
      BY <1>2, <2>2, <2>3, <2>5, <2>6
    <2>7. CASE c = Len(answered) + 1
      <3>1. /\ answer \in Obtained /\ frames[answer].req \in 1..Len(calls)
            /\ \A d \in 1..Len(answered) : frames[answer].req # d
        BY <1>0, <1>5, <2>5, TakenAnswers
      <3>2. Len(calls) = Len(answered) + 1 /\ call = Len(answered) + 1
        BY <1>0, <1>5, Numbers, Histories DEF call
      <3>3. frames[answer].req = Len(answered) + 1
        <4>1. frames[answer].req \in 1..(Len(answered) + 1)
          BY <3>1, <3>2
        <4>2. QED
          BY <1>0, <3>1, <4>1
      <3>4. result = calls[call].returns[frames[answer].code]
        BY <1>5, <3>2, <3>3 DEF Results
      <3>5. QED
        BY <1>1, <1>5, <2>2, <2>3, <2>7, <3>1, <3>2, <3>3, <3>4
    <2>8. QED
      BY <1>0, <2>2, <2>6, <2>7
  <1>6. QED
    BY <1>0, <1>3, <1>4, <1>5, Finishes

\* A slave that answers every request is understood: each command returns what
\* the slave answered to its own request, in whatever order frames, tasks and
\* time-outs come, until a command returns without an answer.
THEOREM CommandsGetTheirResults == Spec => []ResultsFaithful
  <1>1. Init => ResultsFaithful
    BY DEF Init, ResultsFaithful
  <1>2. AnswerInv /\ ResultsFaithful /\ [Next]_vars => AnswerInv' /\ ResultsFaithful'
    BY AnswerStep, FaithfulStep
  <1>3. QED
    BY AnswerInit, <1>1, <1>2, PTL DEF Spec
-----------------------------------------------------------------------------
(* ControlPath implements RemoteCall. *)

LEMMA SameSeq ==
    ASSUME NEW S, NEW q \in Seq(S), NEW r \in Seq(S), Len(q) = Len(r),
           \A i \in 1..Len(q) : q[i] = r[i]
    PROVE  q = r
  OBVIOUS

SourceOf(k) == IF k = 0 THEN 0 ELSE frames[k].req

LEMMA SourceType ==
    ASSUME TypeInv, SentOnce, InOrder
    PROVE  /\ Source \in Seq(Nat) /\ Len(Source) = Len(answered)
           /\ \A c \in 1..Len(answered) : Source[c] = SourceOf(answered[c])
  <1>0. answered \in Seq(Nat) /\ Len(answered) \in Nat /\ frames \in Seq(Frames)
    BY Histories
  <1>1. \A c \in 1..Len(answered) : SourceOf(answered[c]) \in Nat
    BY <1>0, TakenAnswers, FrameFields DEF SourceOf
  <1>2. Source = [c \in 1..Len(answered) |-> SourceOf(answered[c])]
    BY DEF Source, SourceOf
  <1>3. QED
    BY <1>0, <1>1, <1>2

LEMMA SourceKept ==
    ASSUME AnswerInv, AnswerInv', [Next]_vars, answered' = answered
    PROVE  Source' = Source
  <1>0. TypeInv /\ SentOnce /\ InOrder
    BY DEF AnswerInv, QueueInv
  <1>1. \A c \in 1..Len(answered) : answered[c] # 0 => frames'[answered[c]] = frames[answered[c]]
    BY <1>0, TakenAnswers, FramesGrow
  <1>2. QED
    BY <1>1 DEF Source

LEMMA SourceAppended ==
    ASSUME AnswerInv, AnswerInv', [Next]_vars, NEW k \in Nat, answered' = Append(answered, k),
           k # 0 => cli_pc = "unpack" /\ k = answer
    PROVE  Source' = Append(Source, SourceOf(k))
  <1>0. /\ TypeInv /\ SentOnce /\ InOrder
        /\ answered \in Seq(Nat) /\ Len(answered) \in Nat /\ frames \in Seq(Frames)
    BY Histories DEF AnswerInv, QueueInv
  <1>1. /\ Len(answered') = Len(answered) + 1 /\ answered'[Len(answered) + 1] = k
        /\ \A c \in 1..Len(answered) : answered'[c] = answered[c]
    BY <1>0, AppendProperties
  <1>2. \A d \in Obtained : frames'[d] = frames[d]
    BY <1>0, TakenAnswers, FramesGrow
  <1>3. k # 0 => k \in Obtained
    BY <1>0, TakenAnswers
  <1>4. \A c \in 1..Len(answered) : answered[c] # 0 => answered[c] \in Obtained
    BY <1>0, TakenAnswers
  <1>5. /\ Source \in Seq(Nat) /\ Len(Source) = Len(answered)
        /\ \A c \in 1..Len(answered) : Source[c] = SourceOf(answered[c])
    BY <1>0, SourceType
  <1>6. SourceOf(k) \in Nat
    BY <1>0, <1>3, TakenAnswers, FrameFields DEF SourceOf
  <1>7. /\ Append(Source, SourceOf(k)) \in Seq(Nat)
        /\ Len(Append(Source, SourceOf(k))) = Len(answered) + 1
        /\ Append(Source, SourceOf(k))[Len(answered) + 1] = SourceOf(k)
        /\ \A c \in 1..Len(answered) : Append(Source, SourceOf(k))[c] = SourceOf(answered[c])
    BY <1>5, <1>6, AppendProperties
  <1>8. Source' = [c \in 1..(Len(answered) + 1) |->
                      IF answered'[c] = 0 THEN 0 ELSE frames'[answered'[c]].req]
    BY <1>1 DEF Source
  <1>9. \A c \in 1..(Len(answered) + 1) : c \in 1..Len(answered) \/ c = Len(answered) + 1
    BY <1>0
  <1>10. \A c \in 1..(Len(answered) + 1) : Source'[c] = Append(Source, SourceOf(k))[c]
    <2>1. ASSUME NEW c \in 1..Len(answered) PROVE Source'[c] = SourceOf(answered[c])
      <3>1. c \in 1..(Len(answered) + 1)
        BY <1>0
      <3>2. QED
        BY <1>1, <1>2, <1>4, <1>8, <3>1 DEF SourceOf
    <2>2. Source'[Len(answered) + 1] = SourceOf(k)
      <3>1. Len(answered) + 1 \in 1..(Len(answered) + 1)
        BY <1>0
      <3>2. QED
        BY <1>1, <1>2, <1>3, <1>8, <3>1 DEF SourceOf
    <2>3. QED
      BY <1>7, <1>9, <2>1, <2>2
  <1>11. Source' \in Seq(Nat) /\ Len(Source') = Len(answered) + 1
    <2>1. \A c \in 1..(Len(answered) + 1) : Source'[c] \in Nat
      <3>1. \A c \in 1..Len(answered) : SourceOf(answered[c]) \in Nat
        BY <1>0, <1>4, TakenAnswers, FrameFields DEF SourceOf
      <3>2. QED
        BY <1>6, <1>7, <1>9, <1>10, <3>1
    <2>2. QED
      BY <1>0, <1>8, <2>1
  <1>12. QED
    BY <1>7, <1>10, <1>11, SameSeq

\* What a call may take is what RemoteCall lets it take.
LEMMA TakesEligible ==
    ASSUME AnswerInv, ResultsFaithful, cli_pc = "unpack"
    PROVE  SourceOf(answer) \in RemoteCalls!Eligible
  <1> DEFINE r == frames[answer].req
  <1>0. /\ TypeInv /\ SentOnce /\ InOrder /\ Len(answered) \in Nat
    BY Histories DEF AnswerInv, QueueInv
  <1>1. /\ answer \in Obtained /\ r \in 1..Len(calls)
        /\ \A c \in 1..Len(answered) : answered[c] # 0 => frames[answered[c]].req # r
    BY <1>0, TakenAnswers
  <1>2. answer # 0 /\ SourceOf(answer) = r
    BY <1>0, <1>1, TakenAnswers, Histories DEF SourceOf
  <1>3. /\ Len(Source) = Len(answered)
        /\ \A c \in 1..Len(answered) : Source[c] = SourceOf(answered[c])
    BY <1>0, SourceType
  <1>4. r # 0
    BY <1>1, Histories
  <1>5. r \notin RemoteCalls!Taken
    BY <1>1, <1>3, <1>4 DEF RemoteCalls!Taken, SourceOf
  <1>6. CASE 0 \in RemoteCalls!Taken
    BY <1>1, <1>2, <1>5, <1>6 DEF RemoteCalls!Eligible
  <1>7. CASE 0 \notin RemoteCalls!Taken
    <2>1. \A c \in 1..Len(answered) : answered[c] # 0
      BY <1>3, <1>7 DEF RemoteCalls!Taken, SourceOf
    <2>2. \A c \in 1..Len(answered) : r # c
      BY <1>1, <2>1 DEF ResultsFaithful
    <2>3. Len(calls) = Len(answered) + 1
      BY <1>0, Numbers, Histories DEF call
    <2>4. r = Len(calls)
      <3>1. r \in 1..(Len(answered) + 1)
        BY <1>1, <2>3
      <3> HIDE DEF r
      <3>2. QED
        BY <1>0, <2>2, <2>3, <3>1
    <2>5. QED
      BY <1>2, <1>7, <2>4 DEF RemoteCalls!Eligible
  <1>8. QED
    BY <1>6, <1>7

\* What a step does to the running call when it finishes none.
LEMMA Runs ==
    ASSUME TypeInv, [Next]_vars, UNCHANGED <<answered, returned>>
    PROVE  \/ \E command \in Commands : Call(command)
           \/ calls' = calls /\ (cli_pc # "idle")' = (cli_pc # "idle")
  <1> USE DEF cli, serial, mem, down, up, slave
  <1>0. \A k \in Nat : Append(answered, k) # answered
    BY Histories, AppendProperties
  <1>1. ~ReturnFailure
    BY <1>0 DEF ReturnFailure, Return
  <1>2. CASE WriteRefused \/ WriteTooLong \/ Timeout \/ Read \/ Unpack
    <2>1. CASE Read
      BY <1>1, <2>1 DEF Read
    <2>2. CASE Unpack
      <3>1. answer \in Nat
        BY Histories DEF TypeInv, TypeOK, TypeCli
      <3>2. QED
        BY <1>0, <2>2, <3>1 DEF Unpack, Return
    <2>3. QED
      BY <1>1, <1>2, <2>1, <2>2 DEF WriteRefused, WriteTooLong, Timeout
  <1>3. CASE Write \/ TakeSemaphore
    BY <1>3 DEF Write, TakeSemaphore
  <1>4. CASE \/ RxTask \/ (\E c \in in_driver : GetTxBuffer(c)) \/ Idle \/ UNCHANGED vars
             \/ Exchange \/ SlaveInit \/ SlaveHandles
    BY <1>4 DEF RxTask, RxSerial, RxIndicate, SerialInit, SerialOpen, RxInit, GetTxBuffer,
                Idle, vars, Exchange, SlaveInit, SlaveHandles
  <1>5. QED
    BY <1>2, <1>3, <1>4 DEF Next, Cli

LEMMA RemoteCallStep ==
    AnswerInv /\ AnswerInv' /\ ResultsFaithful /\ [Next]_vars
    => [RemoteCalls!Next]_(RemoteCalls!vars)
  <1> SUFFICES ASSUME AnswerInv, AnswerInv', ResultsFaithful, [Next]_vars
               PROVE  RemoteCalls!Next \/ UNCHANGED RemoteCalls!vars
    OBVIOUS
  <1>0. TypeInv
    BY DEF AnswerInv, QueueInv
  <1>1. CASE UNCHANGED <<answered, returned>>
    <2>1. Source' = Source
      BY <1>1, SourceKept
    <2>2. ASSUME NEW command \in Commands, Call(command) PROVE RemoteCalls!Give
      <3>1. Len(calls') = Len(calls) + 1
        BY <1>0, <2>2, Histories, AppendProperties DEF Call
      <3>2. cli_pc = "idle" /\ cli_pc' = "write"
        BY <2>2 DEF Call
      <3>3. QED
        BY <2>1, <3>1, <3>2 DEF RemoteCalls!Give
    <2>3. CASE calls' = calls /\ (cli_pc # "idle")' = (cli_pc # "idle")
      BY <2>1, <2>3 DEF RemoteCalls!vars
    <2>4. QED
      BY <1>0, <1>1, <2>2, <2>3, Runs DEF RemoteCalls!Next
  <1>2. ASSUME cli_pc # "idle", cli_pc' = "idle", calls' = calls, answered' = Append(answered, 0)
        PROVE  RemoteCalls!Return
    <2>1. Source' = Append(Source, 0)
      BY <1>2, SourceAppended DEF SourceOf
    <2>2. QED
      BY <1>2, <2>1 DEF RemoteCalls!Return
  <1>3. ASSUME cli_pc = "unpack", cli_pc' = "idle", calls' = calls,
               answered' = Append(answered, answer)
        PROVE  RemoteCalls!Return
    <2>1. answer \in Nat
      BY <1>0, Histories DEF TypeInv, TypeOK, TypeCli
    <2>2. Source' = Append(Source, SourceOf(answer))
      BY <1>3, <2>1, SourceAppended
    <2>3. SourceOf(answer) \in RemoteCalls!Eligible
      BY <1>3, TakesEligible
    <2>4. QED
      BY <1>3, <2>2, <2>3 DEF RemoteCalls!Return
  <1>4. QED
    BY <1>0, <1>1, <1>2, <1>3, Finishes DEF RemoteCalls!Next

\* The control path implements RemoteCall: one call at a time, no answer taken by
\* two calls, and each call's own answer until one has returned without any.
THEOREM ControlPathImplementsRemoteCall == Spec => ImplementsRemoteCall
  <1>1. Init => RemoteCalls!Init /\ ResultsFaithful
    <2> SUFFICES ASSUME Init PROVE RemoteCalls!Init /\ ResultsFaithful
      OBVIOUS
    <2>1. Source = <<>>
      BY DEF Init, Source
    <2>2. QED
      BY <2>1 DEF Init, RemoteCalls!Init, ResultsFaithful
  <1>2. AnswerInv /\ ResultsFaithful /\ [Next]_vars
        => AnswerInv' /\ ResultsFaithful' /\ [RemoteCalls!Next]_(RemoteCalls!vars)
    BY AnswerStep, FaithfulStep, RemoteCallStep
  <1>3. QED
    BY AnswerInit, <1>1, <1>2, PTL DEF Spec, ImplementsRemoteCall, RemoteCalls!Spec
-----------------------------------------------------------------------------
(* What is freed twice. *)

\* A call that returns without an answer after the driver took its request.
LEMMA AbandonsCall ==
    ASSUME TypeInv, cli_pc # "idle", answered' = Append(answered, 0), calls' = calls,
           call \in AcceptedCalls' \/ TooLong(calls[call])
    PROVE  call \in Abandoned'
  <1>1. Len(answered) + 1 = call
    BY Numbers
  <1>2. call \in 1..Len(answered') /\ answered'[call] = 0
    BY <1>1, Histories, AppendProperties, Numbers
  <1>3. QED
    BY <1>2 DEF Abandoned, TooLong

LEMMA AcceptedEvolves ==
    ASSUME TypeInv, [Next]_vars
    PROVE  AcceptedCalls \subseteq AcceptedCalls' /\ (~Write => AcceptedCalls' = AcceptedCalls)
  <1> USE DEF cli, serial, mem, down, up, slave
  <1>1. CASE accepted' = accepted
    BY <1>1 DEF AcceptedCalls, Link!Elems
  <1>2. CASE Write
    <2>1. call \in Nat /\ accepted \in Seq(Nat) /\ accepted' = Append(accepted, call)
      BY <1>2, Numbers, Histories DEF Write, Link!Accept
    <2>2. AcceptedCalls' = AcceptedCalls \cup {call}
      BY <2>1, AcceptedGrow
    <2>3. QED
      BY <1>2, <2>2
  <1>3. CASE (\E command \in Commands : Call(command)) \/ (Cli /\ ~Write)
    BY <1>1, <1>3 DEF Cli, Call, WriteRefused, WriteTooLong, TakeSemaphore, Timeout, Read, Unpack
  <1>4. CASE \/ RxTask \/ (\E c \in in_driver : GetTxBuffer(c)) \/ Idle \/ UNCHANGED vars
             \/ Exchange \/ SlaveInit \/ SlaveHandles
    BY <1>1, <1>4 DEF RxTask, RxSerial, RxIndicate, SerialInit, SerialOpen, RxInit, GetTxBuffer,
                Idle, vars, Exchange, Link!Exchange, SlaveInit, SlaveHandles, Link!SlaveSends
  <1>5. QED
    BY <1>2, <1>3, <1>4 DEF Next, Cli

\* A call that was abandoned stays so.
LEMMA AbandonedKept ==
    ASSUME TypeInv, [Next]_vars
    PROVE  Abandoned \subseteq Abandoned'
  <1>1. \A c \in 1..Len(answered) : c \in 1..Len(answered') /\ answered'[c] = answered[c]
    <2>1. CASE answered' = answered
      BY <2>1
    <2>2. ASSUME NEW k \in Nat, answered' = Append(answered, k)
          PROVE  \A c \in 1..Len(answered) : c \in 1..Len(answered') /\ answered'[c] = answered[c]
      BY <2>2, Histories, AppendProperties
    <2>3. answer \in Nat
      BY Histories DEF TypeInv, TypeOK, TypeCli
    <2>4. QED
      BY <2>1, <2>2, <2>3, Finishes
  <1>2. \A c \in 1..Len(answered) : calls'[c] = calls[c]
    BY CallsGrow
  <1>3. AcceptedCalls \subseteq AcceptedCalls'
    BY AcceptedEvolves
  <1>4. QED
    BY <1>1, <1>2, <1>3 DEF Abandoned, TooLong

LEMMA AllocatedStep ==
    AnswerInv /\ Allocated /\ FreeOnce /\ [Next]_vars => Allocated' /\ FreeOnce'
  <1> SUFFICES ASSUME AnswerInv, Allocated, FreeOnce, [Next]_vars PROVE Allocated' /\ FreeOnce'
    OBVIOUS
  <1> USE DEF cli, serial, mem, down, up, slave
  <1>0. /\ TypeInv /\ QueueInv /\ InOrder
        /\ queue \in Seq(1..Len(frames)) /\ Len(queue) \in Nat
    BY Histories DEF AnswerInv, QueueInv
  <1>a. /\ AcceptedCalls \subseteq AcceptedCalls' /\ (~Write => AcceptedCalls' = AcceptedCalls)
        /\ Abandoned \subseteq Abandoned'
    BY <1>0, AcceptedEvolves, AbandonedKept
  <1>b. /\ call \in Nat
        /\ \A c \in AcceptedCalls : c \in 1..call
    BY <1>0, Numbers
  <1>2. ASSUME NEW command \in Commands, Call(command) PROVE Allocated' /\ FreeOnce'
    <2>1. /\ cli_pc = "idle" /\ cli_pc' = "write" /\ call' = call + 1
          /\ heap' = heap \cup {WriteBuf(call + 1)} /\ double_free' = double_free
          /\ UNCHANGED <<in_driver, queue>>
      BY <1>0, <1>2, Histories, AppendProperties DEF Call, AllocFree, call
    <2>2. ~Write
      BY <2>1 DEF Write
    <2>3. \A c \in AcceptedCalls : c < call'
      BY <1>b, <2>1
    <2>4. QED
      BY <1>a, <2>1, <2>2, <2>3 DEF Allocated, FreeOnce
  \* A call that fails before the driver has its request.
  <1>3. ASSUME WriteRefused \/ WriteTooLong PROVE Allocated' /\ FreeOnce'
    <2>1. /\ cli_pc = "write" /\ cli_pc' = "idle" /\ heap' = heap \ {WriteBuf(call)}
          /\ UNCHANGED <<in_driver, queue, calls>> /\ answered' = Append(answered, 0)
      BY <1>3 DEF WriteRefused, WriteTooLong, ReturnFailure, Return, AllocFree, FreedOnError
    <2>2. \A c \in in_driver : WriteBuf(c) # WriteBuf(call)
      <3>1. \A c \in in_driver : c < call /\ c \in 1..call
        BY <1>b, <2>1 DEF Allocated
      <3>2. call \notin in_driver
        BY <1>b, <3>1
      <3>3. QED
        BY <3>2, BuffersDiffer
    <2>3. ~Write
      BY <2>1 DEF Write
    <2>4. Allocated'
      BY <1>a, <2>1, <2>2, <2>3, BuffersDiffer DEF Allocated
    <2>5. CASE WriteRefused
      <3>1. double_free' = double_free
        BY <2>1, <2>5 DEF WriteRefused, AllocFree, FreedOnError, Allocated
      <3>2. QED
        BY <1>a, <2>4, <3>1 DEF FreeOnce
    <2>6. CASE WriteTooLong
      <3>1. double_free' = double_free \cup {WriteBuf(call)} /\ TooLong(calls[call])
        BY <2>6 DEF WriteTooLong, FreedOnError
      <3>2. call \in Abandoned'
        BY <1>0, <2>1, <3>1, AbandonsCall
      <3>3. QED
        BY <1>a, <2>4, <3>1, <3>2 DEF FreeOnce
    <2>7. QED
      BY <1>3, <2>5, <2>6
  <1>4. ASSUME Write PROVE Allocated' /\ FreeOnce'
    <2>1. /\ cli_pc = "write" /\ cli_pc' = "wait" /\ in_driver' = in_driver \cup {call}
          /\ UNCHANGED <<heap, double_free, queue, calls>> /\ accepted' = Append(accepted, call)
      BY <1>4 DEF Write, Link!Accept
    <2>2. AcceptedCalls' = AcceptedCalls \cup {call}
      BY <1>0, <1>b, <2>1, Histories, AcceptedGrow
    <2>3. QED
      BY <1>a, <2>1, <2>2 DEF Allocated, FreeOnce, call
  \* A call that fails once the driver has taken its request.
  <1>5. ASSUME cli_pc \in {"wait", "read"}, cli_pc' = "idle", calls' = calls,
               answered' = Append(answered, 0), in_driver' = in_driver,
               NEW K \in SUBSET heap, \A c : WriteBuf(c) \notin K,
               \A i \in 1..Len(queue') : Payload(queue'[i]) \in heap \ K,
               AllocFree({}, K \cup {WriteBuf(call)})
        PROVE  Allocated' /\ FreeOnce'
    <2>1. ~Write
      BY <1>5 DEF Write
    <2>2. call \in Abandoned'
      BY <1>0, <1>a, <1>5, AbandonsCall DEF Allocated
    <2>3. /\ heap' = heap \ (K \cup {WriteBuf(call)})
          /\ double_free' \subseteq double_free \cup {WriteBuf(call)}
      BY <1>5 DEF AllocFree
    <2>4. FreeOnce'
      BY <1>a, <2>2, <2>3 DEF FreeOnce
    <2>5. \A c \in in_driver' : c \in AcceptedCalls' /\ (WriteBuf(c) \in heap' \/ c \in Abandoned')
      <3> SUFFICES ASSUME NEW c \in in_driver
                   PROVE  c \in AcceptedCalls' /\ (WriteBuf(c) \in heap' \/ c \in Abandoned')
        BY <1>5
      <3>1. c \in AcceptedCalls /\ (WriteBuf(c) \in heap \/ c \in Abandoned)
        BY DEF Allocated
      <3>2. CASE c = call
        BY <1>a, <2>2, <3>1, <3>2
      <3>3. CASE c # call
        BY <1>a, <1>5, <2>3, <3>1, <3>3, BuffersDiffer
      <3>4. QED
        BY <3>2, <3>3
    <2>6. \A i \in 1..Len(queue') : Payload(queue'[i]) \in heap'
      BY <1>5, <2>3, BuffersDiffer
    <2>7. QED
      BY <1>5, <2>4, <2>5, <2>6 DEF Allocated
  <1>6. ASSUME Timeout PROVE Allocated' /\ FreeOnce'
    <2>1. /\ cli_pc = "wait" /\ cli_pc' = "idle" /\ UNCHANGED <<calls, in_driver, queue>>
          /\ answered' = Append(answered, 0) /\ AllocFree({}, {} \cup {WriteBuf(call)})
      BY <1>6 DEF Timeout, ReturnFailure, Return, FreedOnError
    <2>2. \A i \in 1..Len(queue') : Payload(queue'[i]) \in heap \ {}
      BY <2>1 DEF Allocated
    <2>3. {} \in SUBSET heap /\ \A c : WriteBuf(c) \notin {}
      OBVIOUS
    <2>4. QED
      BY <1>5, <2>1, <2>2, <2>3
  <1>7. ASSUME Read PROVE Allocated' /\ FreeOnce'
    <2>1. /\ cli_pc = "read" /\ UNCHANGED <<calls, in_driver>> /\ ~Write
      BY <1>7 DEF Read, Write
    <2>2. queue # <<>>
      <3>1. 1 <= Len(queue)
        BY <1>0, <2>1 DEF QueueInv, Announced, One, TypeInv, TypeOK, TypeSerial
      <3>2. QED
        BY <3>1
    <2>3. queue' = Tail(queue)
      BY <1>7, <2>2 DEF Read, Remaining
    <2>4. /\ Head(queue) = queue[1] /\ 1 \in 1..Len(queue)
          /\ \A i \in 1..Len(queue') : i + 1 \in 1..Len(queue) /\ queue'[i] = queue[i + 1]
      BY <1>0, <2>2, <2>3, TailProperties
    <2>5. \A i \in 1..Len(queue') : queue'[i] # queue[1]
      <3>1. \A i \in 1..Len(queue') : 1 < i + 1
        OBVIOUS
      <3>2. \A i \in 1..Len(queue') : queue[1] < queue'[i]
        BY <1>0, <2>4, <3>1 DEF InOrder
      <3>3. queue[1] \in Nat
        BY <1>0, <2>4
      <3>4. QED
        BY <3>2, <3>3
    <2> DEFINE K == {Payload(Head(queue))}
    <2>6. K \in SUBSET heap /\ \A i \in 1..Len(queue') : Payload(queue'[i]) \in heap \ K
      BY <2>4, <2>5, BuffersDiffer DEF Allocated
    <2>7. CASE ReturnFailure
      <3>1. /\ cli_pc' = "idle" /\ answered' = Append(answered, 0)
        BY <2>7 DEF ReturnFailure, Return
      <3>2. AllocFree({}, K \cup {WriteBuf(call)})
        BY <1>7, <2>2, <3>1 DEF Read, FreedOnError
      <3>3. \A c : WriteBuf(c) \notin K
        BY BuffersDiffer
      <3> HIDE DEF K
      <3>4. QED
        BY <1>5, <2>1, <2>6, <3>1, <3>2, <3>3
    <2>8. CASE ~ReturnFailure
      <3>1. cli_pc' = "unpack" /\ AllocFree({RxData(call)}, K)
        BY <1>7, <2>2, <2>8 DEF Read
      <3>2. heap' = (heap \cup {RxData(call)}) \ K /\ double_free' = double_free
        BY <2>6, <3>1 DEF AllocFree
      <3>3. \A c : WriteBuf(c) \notin K /\ RxData(c) \notin K
        BY BuffersDiffer
      <3>4. call' = call
        BY <2>1 DEF call
      <3> HIDE DEF K
      <3>5. Allocated'
        BY <1>a, <2>1, <2>6, <3>1, <3>2, <3>3, <3>4 DEF Allocated
      <3>6. QED
        BY <1>a, <3>2, <3>5 DEF FreeOnce
    <2>9. QED
      BY <2>7, <2>8
  <1>8. ASSUME Unpack PROVE Allocated' /\ FreeOnce'
    <2>1. /\ cli_pc = "unpack" /\ cli_pc' \in {"idle", "fault"}
          /\ UNCHANGED <<calls, in_driver, queue>> /\ ~Write
          /\ AllocFree({}, {RxData(call)}) \/ UNCHANGED mem
      BY <1>8 DEF Unpack, Return, Write
    <2>2. heap \ {RxData(call)} \subseteq heap' /\ double_free' = double_free
      BY <2>1 DEF AllocFree, Allocated
    <2>3. QED
      BY <1>a, <2>1, <2>2, BuffersDiffer DEF Allocated, FreeOnce
  <1>9. ASSUME NEW k, RxSerial(k) PROVE Allocated' /\ FreeOnce'
    <2>1. /\ heap' = heap \cup {Payload(k)} /\ double_free' = double_free
          /\ UNCHANGED <<calls, cli_pc, in_driver>> /\ rx_pc = "receive" /\ call' = call
      BY <1>9 DEF RxSerial, AllocFree, Arrives, call
    <2>2. ~Write \/ accepted' = accepted
      BY <1>9 DEF RxSerial
    <2>3. AcceptedCalls' = AcceptedCalls
      BY <1>a, <2>2 DEF AcceptedCalls, Link!Elems
    <2>4. \A i \in 1..Len(queue') : Payload(queue'[i]) \in heap'
      <3>1. CASE queue' = queue
        BY <2>1, <3>1 DEF Allocated
      <3>2. CASE queue' = Append(queue, k)
        <4>1. k \in 1..Len(frames)
          BY <1>9 DEF RxSerial, Arrives, Link!Pending
        <4>2. /\ Len(queue') = Len(queue) + 1 /\ queue'[Len(queue) + 1] = k
              /\ \A i \in 1..Len(queue) : queue'[i] = queue[i]
          BY <1>0, <3>2, <4>1, AppendProperties
        <4>3. \A i \in 1..Len(queue') : i \in 1..Len(queue) \/ i = Len(queue) + 1
          BY <1>0, <4>2
        <4>4. QED
          BY <2>1, <4>2, <4>3 DEF Allocated
      <3>3. QED
        BY <1>9, <3>1, <3>2 DEF RxSerial
    <2>5. QED
      BY <1>a, <2>1, <2>3, <2>4 DEF Allocated, FreeOnce
  <1>10. ASSUME SerialOpen PROVE Allocated' /\ FreeOnce'
    <2>1. /\ queue' = <<>> /\ UNCHANGED <<calls, cli_pc, heap, double_free, in_driver, accepted>>
      BY <1>10 DEF SerialOpen
    <2>2. AcceptedCalls' = AcceptedCalls /\ call' = call /\ Len(queue') = 0
      BY <2>1 DEF AcceptedCalls, Link!Elems, call
    <2>3. QED
      BY <1>a, <2>1, <2>2 DEF Allocated, FreeOnce
  \* get_tx_buffer frees a request that a failed call may have freed before.
  <1>11. ASSUME NEW c \in in_driver, GetTxBuffer(c) PROVE Allocated' /\ FreeOnce'
    <2>1. /\ heap' = heap \ {WriteBuf(c)} /\ double_free' = double_free \cup ({WriteBuf(c)} \ heap)
          /\ in_driver' = in_driver \ {c} /\ UNCHANGED <<calls, cli_pc, queue, accepted>>
      BY <1>11 DEF GetTxBuffer, AllocFree
    <2>2. AcceptedCalls' = AcceptedCalls /\ call' = call
      BY <2>1 DEF AcceptedCalls, Link!Elems, call
    <2>3. c \in AcceptedCalls /\ (WriteBuf(c) \in heap \/ c \in Abandoned)
      BY DEF Allocated
    <2>4. FreeOnce'
      BY <1>a, <2>1, <2>3 DEF FreeOnce
    <2>5. cli_pc = "write" => c # call
      BY <1>b, <2>3 DEF Allocated
    <2>6. QED
      BY <1>a, <2>1, <2>2, <2>4, <2>5, BuffersDiffer DEF Allocated
  <1>12. CASE TakeSemaphore
    <2>1. ~Write /\ call' = call
      BY <1>12 DEF TakeSemaphore, Write, call
    <2>2. QED
      BY <1>a, <1>12, <2>1 DEF TakeSemaphore, Allocated, FreeOnce
  <1>13. CASE RxIndicate \/ SerialInit \/ (\E k : RxInit(k)) \/ Idle \/ UNCHANGED vars
    <2>1. UNCHANGED <<calls, cli_pc, heap, double_free, in_driver, queue, accepted>>
      BY <1>13 DEF RxIndicate, SerialInit, RxInit, Idle, vars
    <2>2. AcceptedCalls' = AcceptedCalls /\ call' = call
      BY <2>1 DEF AcceptedCalls, Link!Elems, call
    <2>3. QED
      BY <1>a, <2>1, <2>2 DEF Allocated, FreeOnce
  <1>14. CASE Exchange \/ SlaveInit \/ SlaveHandles
    <2>1. UNCHANGED <<calls, cli_pc, heap, double_free, in_driver, queue, accepted>>
      BY <1>14 DEF Exchange, Link!Exchange, SlaveInit, SlaveHandles, Link!SlaveSends
    <2>2. AcceptedCalls' = AcceptedCalls /\ call' = call
      BY <2>1 DEF AcceptedCalls, Link!Elems, call
    <2>3. QED
      BY <1>a, <2>1, <2>2 DEF Allocated, FreeOnce
  <1>15. QED
    BY <1>2, <1>3, <1>4, <1>6, <1>7, <1>8, <1>9, <1>10, <1>11, <1>12, <1>13, <1>14
    DEF Next, Cli, RxTask

\* In every run, for any number of calls and restarts of the slave, nothing but the
\* request of a call that failed after send_to_slave had taken it is freed twice.
THEOREM OnlyFailedCallsFreeTwice == Spec => []FreedTwiceOnlyOnFailure
  <1>1. FreeOnce => FreedTwiceOnlyOnFailure
    BY DEF FreeOnce, FreedTwiceOnlyOnFailure, Abandoned, AcceptedCalls
  <1>2. Init => AnswerInv /\ Allocated /\ FreeOnce
    BY AnswerInit, AllocatedInit
  <1>3. AnswerInv /\ Allocated /\ FreeOnce /\ [Next]_vars => AnswerInv' /\ Allocated' /\ FreeOnce'
    BY AnswerStep, AllocatedStep
  <1>4. QED
    BY <1>1, <1>2, <1>3, PTL DEF Spec

-----------------------------------------------------------------------------
(* The control path on top of the SPI driver: its frames move as SpiLink    *)
(* says, which SpiDriver is proved to implement.                            *)

LEMMA LinkUsed == TypeOK /\ [Next]_vars => [Link!Next]_(Link!vars)
  <1> SUFFICES ASSUME TypeOK, [Next]_vars PROVE Link!Next \/ UNCHANGED Link!vars
    OBVIOUS
  <1>1. CASE UNCHANGED <<frames, down, up>>
    BY <1>1 DEF Link!vars, down, up
  <1>2. CASE Write
    <2>1. call \in 1..MaxCalls
      <3>1. cli_pc # "idle" /\ calls \in Seq(Commands) /\ answered \in Seq(Nat)
            /\ call <= MaxCalls /\ call = Len(answered) + (IF cli_pc = "idle" THEN 0 ELSE 1)
        BY <1>2 DEF Write, TypeOK, TypeCli
      <3>2. Len(answered) \in Nat /\ MaxCalls \in Nat
        BY <3>1, ControlAssumption
      <3>3. QED
        BY <3>1, <3>2
    <2>2. Link!Accept(call)
      BY <1>2 DEF Write
    <2>3. QED
      BY <2>1, <2>2 DEF Link!Next
  <1>3. CASE Exchange \/ SlaveInit
    BY <1>3 DEF Exchange, SlaveInit, Link!Next
  <1>4. CASE SlaveHandles
    BY <1>1, <1>4 DEF SlaveHandles, Link!Next
  <1>5. ASSUME NEW k \in Link!Pending, Arrives(k), UNCHANGED frames, UNCHANGED down,
               \/ delivered' = delivered \cup {k} /\ UNCHANGED dropped
               \/ dropped' = dropped \cup {k} /\ UNCHANGED delivered
        PROVE  Link!Next
    <2>1. CASE delivered' = delivered \cup {k} /\ UNCHANGED dropped
      BY <1>5, <2>1 DEF Arrives, down, Link!Deliver, Link!Next
    <2>2. CASE dropped' = dropped \cup {k} /\ UNCHANGED delivered
      BY <1>5, <2>2 DEF down, Link!Outgoing, Link!Incoming, Link!Exchange, Link!Next
    <2>3. QED
      BY <1>5, <2>1, <2>2
  <1>6. ASSUME NEW k \in Link!Pending, RxSerial(k) \/ RxInit(k)
        PROVE  Link!Next
    BY <1>5, <1>6 DEF RxSerial, RxInit, slave
  <1>7. \A c \in Commands : Call(c) => UNCHANGED <<frames, down, up>>
    BY DEF Call, slave
  <1>8. Cli => Write \/ UNCHANGED <<frames, down, up>>
    BY DEF Cli, WriteRefused, WriteTooLong, TakeSemaphore, Timeout, Read, Unpack, slave
  <1>9. RxIndicate \/ SerialInit \/ SerialOpen => UNCHANGED <<frames, down, up>>
    BY DEF RxIndicate, SerialInit, SerialOpen, slave
  <1>10. \A c \in in_driver : GetTxBuffer(c) => UNCHANGED <<frames, down, up>>
    BY DEF GetTxBuffer, slave
  <1>11. Idle \/ UNCHANGED vars => UNCHANGED <<frames, down, up>>
    BY DEF Idle, vars, slave
  <1>12. QED
    BY <1>1, <1>2, <1>3, <1>4, <1>6, <1>7, <1>8, <1>9, <1>10, <1>11 DEF Next, RxTask

\* Requests, answers and INIT events move over the link as SpiLink allows and in no
\* other way.  With SpiFrameProofs!LinkImplemented the two halves of the system meet
\* in SpiLink: what a command may rely on is what the driver provides.
THEOREM ControlPathUsesLink == Spec => Link!Spec
  <1>1. Init => Link!Init
    BY DEF Init, Link!Init
  <1>2. QED
    BY <1>1, LinkUsed, ControlTypeCorrect, PTL DEF Spec, Link!Spec
=============================================================================
