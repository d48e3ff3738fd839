----------------------------- MODULE ControlPath -----------------------------
(***************************************************************************)
(* The control path: a command of host_common/commands.c sends a request   *)
(* to the slave and waits for its answer, through transport_pserial.c,     *)
(* app/control/platform_wrapper.c and driver/serial/serial_if.c, on top of *)
(* the link that the SPI driver implements (SpiLink).  One task, the CLI,  *)
(* runs commands; process_rx_task hands answers up and starts the whole    *)
(* path when the slave's INIT event arrives.                               *)
(***************************************************************************)
EXTENDS Naturals, Sequences, FiniteSets, TLC

CONSTANTS Commands,                     \* the commands the user may give
          TO_SERIAL_INFT_QUEUE_SIZE,
          MaxCalls, MaxInits            \* bounds: commands given, starts of the slave

VARIABLES
    calls,              \* the commands given so far; the last one is running
    answered,           \* for each finished call the frame it took for its
                        \* answer, or 0 if it returned without one
    returned,           \* for each finished call what it returned
    cli_pc,             \* where the CLI task is in its command
    answer,             \* the frame it has read, or 0
    timeouts,           \* how many waits have timed out
    readSemaphore,      \* TRUE: given
    serial_if_g,        \* "NULL", or the state of the serial interface
    conn_num,
    queue,              \* serial_hdl->queue: answers not read yet
    rx_pc,              \* where process_rx_task is
    in_driver,          \* requests whose write_buf is in to_slave_queue
    heap, double_free,  \* as in SpiDriver
    frames,             \* what the slave has sent: INIT events and answers
    handled,            \* how many requests the slave has handled
    accepted, wire, lost, delivered, dropped        \* see SpiLink

cli   == <<calls, answered, returned, cli_pc, answer, timeouts>>
serial == <<serial_if_g, conn_num, queue>>
mem   == <<heap, double_free>>
down  == <<accepted, wire, lost>>
up    == <<delivered, dropped>>
slave == <<frames, handled>>
vars  == <<cli, readSemaphore, serial, rx_pc, in_driver, mem, slave, down, up>>

Link == INSTANCE SpiLink WITH HostFrames <- 1..MaxCalls, slave_sent <- Len(frames)
-----------------------------------------------------------------------------
(* commands.c: the payload case of a command, and what it returns for each  *)
(* result code of its answer.                                               *)

Status == [success |-> "SUCCESS", failure |-> "FAILURE"]
Command(case, arg) == [case |-> case, arg |-> arg, returns |-> Status]

\* A list is NULL when there is nothing to list, and when the slave failed.
List(case) ==
    [Command(case, "none") EXCEPT
        !.returns = [success |-> "list", empty |-> "NULL", failure |-> "NULL"]]

wifi_get_mac(mode)              == Command("get_mac_address", mode)
wifi_set_mac(mode)              == Command("set_mac_address", mode)
wifi_get_mode                   == Command("get_wifi_mode", "none")
wifi_set_mode(mode)             == Command("set_wifi_mode", mode)
wifi_set_ap_config(ssid) ==
    [Command("set_ap_config", ssid) EXCEPT
        !.returns = Status @@ [no_ap_found |-> "NO_AP_FOUND",
                               invalid_password |-> "INVALID_PASSWORD"]]
wifi_get_ap_config ==
    [Command("get_ap_config", "none") EXCEPT
        !.returns = Status @@ [not_connected |-> "FAILURE"]]
wifi_disconnect_ap              == Command("disconnect_ap", "none")
wifi_set_softap_config(ssid)    == Command("set_softap_config", ssid)
wifi_get_softap_config          == Command("get_softap_config", "none")
wifi_stop_softap                == Command("stop_softap", "none")
wifi_ap_scan_list               == List("scan_ap_list")
wifi_connected_stations_list    == List("connected_stas_list")
wifi_set_power_save_mode(mode)  == Command("set_power_save_mode", mode)
wifi_get_power_save_mode        == Command("get_power_save_mode", "none")
esp_ota_begin                   == Command("ota_begin", "none")
esp_ota_write(data)             == Command("ota_write", data)
esp_ota_end                     == Command("ota_end", "none")

ASSUME ControlAssumption ==
    /\ TO_SERIAL_INFT_QUEUE_SIZE \in Nat \ {0}
    /\ MaxCalls \in Nat /\ MaxInits \in Nat
    /\ Commands # {}
    /\ \A c \in Commands : /\ {"success", "failure"} \subseteq DOMAIN c.returns
                          /\ \A d \in Commands : d.case = c.case => d.returns = c.returns

MAX_SERIAL_INTF == 2

\* What the slave sends: the request an answer answers and its result code.
InitEvent == [req |-> 0, code |-> "init"]
Answer(c, code) == [req |-> c, code |-> code]
IsInit(f) == f.req = 0

call == Len(calls)                      \* the running call, or the last one
WriteBuf(c) == <<"write_buf", c>>
Payload(k)  == <<"payload", k>>         \* process_rx_task's copy of frame k
RxData(c)   == <<"rx_data", c>>

AllocFree(A, F) == /\ heap' = (heap \cup A) \ F
                   /\ double_free' = double_free \cup (F \ (heap \cup A))
-----------------------------------------------------------------------------
Init ==
    /\ calls = <<>> /\ answered = <<>> /\ returned = <<>>
    /\ cli_pc = "idle" /\ answer = 0 /\ timeouts = 0
    /\ readSemaphore = FALSE
    /\ serial_if_g = "NULL" /\ conn_num = 0 /\ queue = <<>>
    /\ rx_pc = "receive"
    /\ in_driver = {} /\ heap = {} /\ double_free = {}
    /\ frames = <<>> /\ handled = 0
    /\ accepted = <<>> /\ wire = <<>> /\ lost = {} /\ delivered = {} /\ dropped = {}
-----------------------------------------------------------------------------
(* The CLI task: one command at a time. *)

\* The user gives a command; it packs its request into a new write_buf.
Call(command) ==
    /\ cli_pc = "idle" /\ call < MaxCalls
    /\ calls' = Append(calls, command)
    /\ cli_pc' = "write"
    /\ AllocFree({WriteBuf(call + 1)}, {})
    /\ UNCHANGED <<answered, returned, answer, timeouts, readSemaphore, serial, rx_pc, in_driver,
                   slave, down, up>>

Return(k, result) == /\ answered' = Append(answered, k)
                     /\ returned' = Append(returned, result)
                     /\ cli_pc' = "idle" /\ answer' = 0
ReturnFailure == Return(0, calls[call].returns["failure"])

\* The err label of transport_pserial_data_handler frees write_buf.
Mutant_FreedOnError == {}
FreedOnError == {WriteBuf(call)}

\* No serial interface, or none that is open: the write is refused.
WriteRefused ==
    /\ cli_pc = "write" /\ serial_if_g # "ACTIVE"
    /\ ReturnFailure
    /\ AllocFree({}, FreedOnError)
    /\ UNCHANGED <<calls, timeouts, readSemaphore, serial, rx_pc, in_driver, slave, down, up>>

\* send_to_slave refuses a request longer than MAX_PAYLOAD_SIZE and frees it;
\* only an OTA block can be that long.
TooLong(command) == command.arg = "long"

WriteTooLong ==
    /\ cli_pc = "write" /\ serial_if_g = "ACTIVE" /\ TooLong(calls[call])
    /\ ReturnFailure
    /\ heap' = heap \ {WriteBuf(call)}
    /\ double_free' = double_free \cup FreedOnError
    /\ UNCHANGED <<calls, timeouts, readSemaphore, serial, rx_pc, in_driver, slave, down, up>>

\* send_to_slave takes write_buf over.
Write ==
    /\ cli_pc = "write" /\ serial_if_g = "ACTIVE" /\ ~TooLong(calls[call])
    /\ UNCHANGED slave
    /\ Link!Accept(call)
    /\ in_driver' = in_driver \cup {call}
    /\ cli_pc' = "wait"
    /\ UNCHANGED <<calls, answered, returned, answer, timeouts, readSemaphore, serial, rx_pc, mem>>

\* osSemaphoreWait(readSemaphore, 30 s) returns before its time is over.
TakeSemaphore ==
    /\ cli_pc = "wait" /\ readSemaphore
    /\ readSemaphore' = FALSE
    /\ cli_pc' = "read"
    /\ UNCHANGED <<calls, answered, returned, answer, timeouts, serial, rx_pc, in_driver, mem,
                   slave, down, up>>

\* With portMAX_DELAY it never would.
Mutant_WaitEnds == FALSE
WaitEnds == ~readSemaphore

\* It runs out of time: write_buf, which the driver owns by now, is freed.
Timeout ==
    /\ cli_pc = "wait" /\ WaitEnds
    /\ timeouts' = timeouts + 1
    /\ ReturnFailure
    /\ AllocFree({}, FreedOnError)
    /\ UNCHANGED <<calls, readSemaphore, serial, rx_pc, in_driver, slave, down, up>>

Mutant_Remaining == queue
Remaining == Tail(queue)

\* serial_read takes the oldest answer, and parse_tlv its payload.  An empty
\* queue, or an answer that parse_tlv rejects, ends the command.
Read ==
    /\ cli_pc = "read"
    /\ IF queue = <<>>
       THEN /\ ReturnFailure
            /\ AllocFree({}, FreedOnError)
            /\ UNCHANGED queue
       ELSE /\ queue' = Remaining
            /\ \/ /\ answer' = Head(queue) /\ cli_pc' = "unpack"
                  /\ AllocFree({RxData(call)}, {Payload(Head(queue))})
                  /\ UNCHANGED <<answered, returned>>
               \/ /\ ReturnFailure
                  /\ AllocFree({}, {Payload(Head(queue))} \cup FreedOnError)
    /\ UNCHANGED <<calls, timeouts, readSemaphore, serial_if_g, conn_num, rx_pc, in_driver,
                   slave, down, up>>

\* The messages of all answers share a union, and the command does not look at
\* payload_case before it reads the member of its own: an answer of its own type
\* decides what it returns, one of another type is read past its end.
Results(command, k) ==
    IF calls[frames[k].req].case = command.case
    THEN {command.returns[frames[k].code]}
    ELSE {command.returns[code] : code \in DOMAIN command.returns} \cup {"fault"}

Unpack ==
    /\ cli_pc = "unpack"
    /\ \E result \in Results(calls[call], answer) :
          IF result = "fault"
          THEN /\ cli_pc' = "fault"
               /\ UNCHANGED <<answered, returned, answer, mem>>
          ELSE /\ Return(answer, result)
               /\ AllocFree({}, {RxData(call)})
    /\ UNCHANGED <<calls, timeouts, readSemaphore, serial, rx_pc, in_driver, slave, down, up>>
-----------------------------------------------------------------------------
(* process_rx_task *)

\* The next frame: none is handed up after a later one.
Arrives(k) == rx_pc = "receive" /\ k \in Link!Pending /\ \A d \in delivered : d < k

HasRoom == Len(queue) < TO_SERIAL_INFT_QUEUE_SIZE

\* serial_rx_handler: xQueueSend(.., portMAX_DELAY) waits while the queue is
\* full; without an open interface the copy is dropped and never freed.
RxSerial(k) ==
    /\ Arrives(k) /\ ~IsInit(frames[k])
    /\ AllocFree({Payload(k)}, {})
    /\ IF serial_if_g = "ACTIVE"
       THEN /\ HasRoom
            /\ queue' = Append(queue, k)
            /\ delivered' = delivered \cup {k}
            /\ rx_pc' = "indicate"
            /\ UNCHANGED dropped
       ELSE /\ dropped' = dropped \cup {k}
            /\ UNCHANGED <<queue, rx_pc, delivered>>
    /\ UNCHANGED <<cli, readSemaphore, serial_if_g, conn_num, in_driver, slave, down>>

\* control_path_rx_indication
Mutant_Indicated == readSemaphore
Indicated == TRUE

RxIndicate ==
    /\ rx_pc = "indicate"
    /\ readSemaphore' = Indicated
    /\ rx_pc' = "receive"
    /\ UNCHANGED <<cli, serial, in_driver, mem, slave, down, up>>

\* The INIT event: control_path_platform_init creates readSemaphore and takes it.
Mutant_GivenAfterInit == TRUE
GivenAfterInit == FALSE

RxInit(k) ==
    /\ Arrives(k) /\ IsInit(frames[k])
    /\ delivered' = delivered \cup {k}
    /\ readSemaphore' = GivenAfterInit
    /\ rx_pc' = "serial_init"
    /\ UNCHANGED <<cli, serial, in_driver, mem, slave, down, dropped>>

\* serial_init has room for one interface; assert(serial_if_g) stops the task,
\* and with it every task of a lower priority, when there is none.
SerialInit ==
    /\ rx_pc = "serial_init"
    /\ IF conn_num + 1 < MAX_SERIAL_INTF
       THEN serial_if_g' = "INIT" /\ conn_num' = conn_num + 1 /\ rx_pc' = "serial_open"
       ELSE serial_if_g' = "NULL" /\ rx_pc' = "aborted" /\ UNCHANGED conn_num
    /\ UNCHANGED <<cli, readSemaphore, queue, in_driver, mem, slave, down, up>>

SerialOpen ==
    /\ rx_pc = "serial_open"
    /\ queue' = <<>>
    /\ serial_if_g' = "ACTIVE"
    /\ rx_pc' = "receive"
    /\ UNCHANGED <<cli, readSemaphore, conn_num, in_driver, mem, slave, down, up>>
-----------------------------------------------------------------------------
(* The driver and the slave. *)

\* get_tx_buffer: the request is copied out of write_buf, which is freed.
GetTxBuffer(c) ==
    /\ c \in in_driver /\ \A d \in in_driver : c <= d
    /\ in_driver' = in_driver \ {c}
    /\ AllocFree({}, {WriteBuf(c)})
    /\ UNCHANGED <<cli, readSemaphore, serial, rx_pc, slave, down, up>>

\* A transaction settles what has left to_slave_queue.
Exchange ==
    /\ UNCHANGED slave
    /\ Link!Exchange
    /\ in_driver \cap (Link!Elems(wire') \cup lost') = {}
    /\ UNCHANGED <<cli, readSemaphore, serial, rx_pc, in_driver, mem>>

Inits == {k \in 1..Len(frames) : IsInit(frames[k])}

\* The slave starts, or restarts and forgets what it was asked.
SlaveInit ==
    /\ Cardinality(Inits) < MaxInits
    /\ frames' = Append(frames, InitEvent)
    /\ Link!SlaveSends
    /\ handled' = Len(wire)
    /\ UNCHANGED <<cli, readSemaphore, serial, rx_pc, in_driver, mem>>

\* It handles requests in the order they arrive, and answers or does not.
SlaveHandles ==
    /\ handled < Len(wire)
    /\ handled' = handled + 1
    /\ \/ /\ \E code \in DOMAIN calls[wire[handled + 1]].returns :
                frames' = Append(frames, Answer(wire[handled + 1], code))
          /\ Link!SlaveSends
       \/ UNCHANGED <<frames, down, up>>
    /\ UNCHANGED <<cli, readSemaphore, serial, rx_pc, in_driver, mem>>
-----------------------------------------------------------------------------
\* A failed assertion leaves process_rx_task, and a hard fault the processor, in
\* an endless loop; the CLI has the lower priority.
Stopped == rx_pc = "aborted" \/ cli_pc = "fault"

Cli == ~Stopped /\ (WriteRefused \/ WriteTooLong \/ Write \/ TakeSemaphore \/ Timeout \/ Read \/ Unpack)
RxTask == /\ ~Stopped
          /\ \/ \E k \in Link!Pending : RxSerial(k) \/ RxInit(k)
             \/ RxIndicate \/ SerialInit \/ SerialOpen

\* The board has stopped, or the user has given all commands and all is quiet.
Idle == /\ Stopped \/ (cli_pc = "idle" /\ call = MaxCalls)
        /\ UNCHANGED vars

Next == \/ ~Stopped /\ \E command \in Commands : Call(command)
        \/ Cli
        \/ RxTask
        \/ cli_pc # "fault" /\ (Exchange \/ \E c \in in_driver : GetTxBuffer(c))
        \/ SlaveInit \/ SlaveHandles
        \/ Idle

Spec == Init /\ [][Next]_vars

\* The CLI and process_rx_task are scheduled.
FairSpec == Spec /\ WF_vars(Cli) /\ WF_vars(RxTask)
-----------------------------------------------------------------------------
(* Properties *)

Calls == 1..MaxCalls
Buffers == ({"write_buf", "rx_data"} \X Calls) \cup ({"payload"} \X Nat)

ResultCodes == UNION {DOMAIN c.returns : c \in Commands}
Returns == UNION {{c.returns[code] : code \in DOMAIN c.returns} : c \in Commands}

TypeCli ==
    /\ calls \in Seq(Commands) /\ call <= MaxCalls
    /\ answered \in Seq(Nat) /\ returned \in Seq(Returns) /\ Len(returned) = Len(answered)
    /\ call = Len(answered) + (IF cli_pc = "idle" THEN 0 ELSE 1)
    /\ cli_pc \in {"idle", "write", "wait", "read", "unpack", "fault"}
    /\ answer \in 0..Len(frames) /\ timeouts \in Nat

TypeSerial ==
    /\ readSemaphore \in BOOLEAN
    /\ serial_if_g \in {"NULL", "INIT", "ACTIVE"} /\ conn_num \in {0, 1}
    /\ queue \in Seq(1..Len(frames)) /\ Len(queue) <= TO_SERIAL_INFT_QUEUE_SIZE
    /\ rx_pc \in {"receive", "indicate", "serial_init", "serial_open", "aborted"}

TypeDriver ==
    /\ in_driver \subseteq Calls
    /\ heap \subseteq Buffers /\ double_free \subseteq Buffers
    /\ handled \in 0..Len(wire)

TypeOK == TypeCli /\ TypeSerial /\ TypeDriver

\* The semaphore never promises an answer that is not there: a command that
\* returns from its wait finds the queue of serial_if.c non-empty.
NoEmptyRead == cli_pc = "read" => queue # <<>>

\* readSemaphore is binary, so announcements merge; still process_rx_task never
\* stays blocked on a full queue that the next command is not told about.
FullQueueAnnounced ==
    Len(queue) = TO_SERIAL_INFT_QUEUE_SIZE /\ rx_pc = "receive"
    => readSemaphore \/ cli_pc = "read"

\* Only answers to commands that timed out, and that of the running command,
\* can pile up: the queue holds no more of them than commands have timed out.
LateAnswersBounded ==
    Len(queue) <= timeouts + (IF cli_pc \in {"wait", "read"} THEN 1 ELSE 0)

\* Apart from a dropped answer's copy (spi_drv.c:789), only buffers that a
\* queue or the running command refers to are allocated.
NothingLeaks ==
    heap \subseteq {WriteBuf(c) : c \in in_driver}
                   \cup {Payload(queue[i]) : i \in 1..Len(queue)}
                   \cup {Payload(k) : k \in dropped}
                   \cup (IF cli_pc = "write" THEN {WriteBuf(call)} ELSE {})
                   \cup (IF cli_pc \in {"unpack", "fault"} THEN {RxData(call)} ELSE {})

\* The request whose answer a finished call took, or 0.
Source == [c \in 1..Len(answered) |-> IF answered[c] = 0 THEN 0 ELSE frames[answered[c]].req]

\* What commands promise their callers, see RemoteCall.
RemoteCalls == INSTANCE RemoteCall WITH given <- Len(calls), source <- Source,
                                        running <- cli_pc # "idle"
ImplementsRemoteCall == RemoteCalls!Spec

\* A command comes back whatever is lost, unless the board has stopped.
CommandReturns == cli_pc # "idle" ~> cli_pc = "idle" \/ Stopped

\* As long as no command has returned without an answer, each returns what the
\* slave answered to that very request.
ResultsFaithful ==
    (\A c \in 1..Len(answered) : answered[c] # 0)
    => \A c \in 1..Len(answered) :
          /\ frames[answered[c]].req = c
          /\ returned[c] = calls[c].returns[frames[answered[c]].code]

\* commands.h, "returns MAC address of respective mode": what wifi_get_mac
\* returns is the answer to a request for the mode it was asked for.
MacOfRespectiveMode ==
    \A c \in 1..Len(answered) :
        calls[c].case = "get_mac_address" /\ returned[c] = "SUCCESS"
        => calls[frames[answered[c]].req].arg = calls[c].arg

\* platform_wrapper.h, "esp_hosted_free function frees the memory space pointed
\* to by ptr", a "pointer to allocated memory": nothing is freed twice, but for
\* the request of a command that failed after send_to_slave had taken it over.
FreedTwiceOnlyOnFailure ==
    double_free \subseteq {WriteBuf(c) : c \in {d \in 1..Len(answered) :
        answered[d] = 0 /\ (d \in Link!Elems(accepted) \/ TooLong(calls[d]))}}

\* platform_wrapper.c:53, assert(serial_if_g).
AssertionHolds == rx_pc # "aborted"
=============================================================================
