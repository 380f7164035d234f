------------------------------- MODULE Emodem -------------------------------
(***************************************************************************)
(* The state of mdmEmodem, the modem that carries the connection to the    *)
(* server while the box has no USIM of its own (mdmImodem), and the        *)
(* vocabulary of the modules that model its AT engine.                     *)
(*                                                                         *)
(* The engine is one event of EvtLoop on the serial port, whose callback   *)
(* says which state machine the next answer of the modem belongs to:       *)
(* checkNet, uartConfig, acqData or suspend.  A callback is one action: it *)
(* reads an answer, changes the state and writes the next AT command.  The *)
(* other threads act in between.                                           *)
(***************************************************************************)
EXTENDS Integers, Sequences

LOCAL INSTANCE Functions

CONSTANTS
    Budgets        \* how often each thing outside the engine happens, and how many of
                   \* them ("any") in all: one of these

VARIABLES
    ChannelNum,    \* which modem has a network link, and what is being done
    ChannelLock,   \* "free" between two steps, or "lost": left locked by EvtLoop
    at,            \* the four state machines and the armed callback
    flags,         \* the names of the boolean variables that are true
    queue,         \* the requests that wait for the connection
    flow,          \* flow_info: the request being transmitted
    evtloop_pipe,  \* the requests notified to EvtLoop, with their arguments
    req,           \* the request process_events() serves, with ChannelLock
    timers,        \* the timers that run
    listener,      \* the steps left of the handler the Listener thread runs
    left           \* what is left of the budget

vars == <<ChannelNum, ChannelLock, at, flags, queue, flow, evtloop_pipe, req, timers,
          listener, left>>

Causes == {"bad",       \* an answer that makes the engine try again
           "lost",      \* the network, or the server's connection, is lost
           "no_sim",    \* the modem has no USIM
           "refused",   \* the server refuses the box
           "redirect",  \* the server sends the box to another server
           "timeout",   \* the server does not answer an ID or a request in time
           "apdu",      \* APDUs of the virtual USIM to transmit
           "report",    \* status reports to transmit
           "urc",       \* registration changes of mdmImodem
           "dialup",    \* dial-up reports of mdmImodem
           "custom",    \* AT commands of yy_daemon
           "pwrdwn"}    \* power-off notifications

ASSUME EmodemAssumption == Budgets \subseteq [Causes \union {"any"} -> Nat]

Channels == -1 .. 4

Flows == {"IDLE", "ID", "STATUS", "APDU", "RUIM", "PWR_DOWN"}

\* COPS_1 stands for the queries COPS_1 to CREG_1, whose answers are handled alike;
\* CIPCLOSE_AT for SUSPEND_STATE_CIPCLOSE without a socket, where AT is written
\* instead of AT+CIPCLOSE.
Engine == [chk  : {"IDLE", "CSQ", "CGREG", "MAX"},
           conf : {"IDLE", "IPR", "MAX"},
           acq  : {"IDLE", "CGSN", "COPS_1", "CREG_2", "CREG_3", "NETOPEN", "CIPOPEN_REQ",
                   "CIPCLOSE", "CIPOPEN", "CIPSEND_1", "CIPSEND_2", "RECVING", "WAITING",
                   "CATR_1", "CATR_2", "CUSTOM_AT"},
           susp : {"IDLE", "CIPCLOSE", "CIPCLOSE_AT", "NETCLOSE", "MAX"},
           cb   : {"checkNet", "uartConfig", "acqData", "suspend", "none"},
           socket : BOOLEAN,  \* g_EmodemTcp_socket_link is not -1
           link : BOOLEAN]  \* ghost: the connection is open, as far as EvtLoop was told

Flags == {"isWaitToSusp", "isWaitToRcvr", "isWaitToPwrDwn", "isTermSuspNow",
          "isTermRcvrNow", "RcvrMdmEmodemConn", "RcvrMdmEmodemConnWhenSuspTerm",
          "isServConnClosed", "isRegOffForPoorSig", "isPwrDwnRspAcq",
          "isNeedToSendOutReq0x65", "isNeedToSendIDMsg", "isSendIdAfterAcqIMSI",
          "isYYDaemonNeedtoSendATCmd", "isMdmEmodemRunning", "isProcOfInitApp",
          "is1stRunOnMdmEmodem", "isRegOn", "isMifiConnected", "isFTMPowerOffInd",
          "isWaitForRptCIPERROR", "isWaitRspError", "isNotNeedIdleTimer",
          "g_closesocket_F9",
          "isUimPwrDwn",   \* the virtual USIM is off
          "PowerUpUsimAfterRecvingUrcRpt",
          "acq_imsi",      \* QMISENDER_ACQ_IMSI is being served by the Sender thread
          "del_simdata",   \* QMISENDER_DEL_SIMDATA likewise
          "power_off_req", \* MsgLoop is handling a power-off notification
          "asked_again",   \* ghost: it is not the first one
          "shutdown"}      \* mdmEmodem_shutdown() has been called

\* A status report is outdated once a newer one has been asked for (StatInfMsgSn).
Nodes == (Flows \ {"IDLE"}) \union {"OUTDATED"}

Timers == {"idle", "id_rsp", "ruim_rsp", "power_down"}

\* A recovery says what ChannelNum becomes; the other requests have no argument.
EvtRequest == [kind : {"0x00", "0x01", "0x02", "0x03", "0x04"}, arg : {-1, 0, 4}]

Request(k) == [kind |-> k, arg |-> 0]

NoRequest == [kind |-> "none", arg |-> 0]

Recovery(c) == [kind |-> "0x02", arg |-> c]

ListenerSteps == {"poor_signal", "id_needed", "resume", "report", "set_3", "suspend", "idle_timer"}

\* Every variable keeps to the values that the code gives it.
TypeOK ==
    /\ ChannelNum \in Channels
    /\ ChannelLock \in {"free", "lost"}
    /\ at \in Engine
    /\ flags \in SUBSET Flags
    /\ queue \in Seq(Nodes)
    /\ flow \in Flows
    /\ evtloop_pipe \in Seq(EvtRequest)
    /\ req \in EvtRequest \union {NoRequest}
    /\ timers \in SUBSET Timers
    /\ listener \in Seq(ListenerSteps)
    /\ left \in [Causes \union {"any"} -> Nat]

\* The box starts with mdmEmodem to be brought up: EvtLoop has sent ATE0.
Init ==
    /\ ChannelNum = -1
    /\ ChannelLock = "free"
    /\ at = [chk |-> "IDLE", conf |-> "IDLE", acq |-> "IDLE", susp |-> "IDLE",
             cb |-> "checkNet", socket |-> FALSE, link |-> FALSE]
    /\ flags = {"isProcOfInitApp", "is1stRunOnMdmEmodem", "isMdmEmodemRunning"}
    /\ queue = <<>>
    /\ flow = "IDLE"
    /\ evtloop_pipe = <<>>
    /\ req = NoRequest
    /\ timers = {}
    /\ listener = <<>>
    /\ left \in Budgets

----------------------------------------------------------------------------
Has(f) == f \in flags

\* EvtLoop runs, unless it waits for ever for the lock that it left locked itself.
EvtLoopRuns == ChannelLock = "free" /\ ~Has("shutdown")

\* It calls back, and the other threads find ChannelLock free.
BetweenRequests == EvtLoopRuns /\ req = NoRequest

Armed(cb) == BetweenRequests /\ at.cb = cb

Happens(cause) ==
    /\ left[cause] > 0 /\ left["any"] > 0
    /\ left' = [left EXCEPT ![cause] = @ - 1, !["any"] = @ - 1]

Keep == UNCHANGED left

mdmEmodem_check_busy == at.acq # "WAITING" \/ at.chk # "MAX" \/ at.conf # "MAX"

\* Mutant: the two unconnected channels are mixed up with the two connected ones.
Broken_off_by_one == [c \in Channels |-> IF c = 0 THEN -1 ELSE c + 2]

\* The channel once the connection it stands for is lost.
Broken == [c \in Channels |-> IF c = 0 THEN -1 ELSE IF c = 3 THEN 4 ELSE c]

Connected == {0, 3}

Unconnected == {-1, 4}

----------------------------------------------------------------------------
(* The engine after the write handlers: what they arm.                     *)

Waiting(a) == [a EXCEPT !.acq = "WAITING", !.cb = "acqData"]

AcqData(a, s) == [a EXCEPT !.acq = s, !.cb = "acqData",
                           !.socket = (s = "CIPOPEN") \/ (@ /\ s # "CIPCLOSE"),
                           !.link = @ /\ s \notin {"CIPOPEN_REQ", "CIPOPEN"}]

CheckNet(a, s) == [a EXCEPT !.chk = s, !.cb = "checkNet", !.link = FALSE]

Suspend(a, s) ==
    [a EXCEPT !.susp = IF s = "CIPCLOSE" /\ ~a.socket THEN "CIPCLOSE_AT" ELSE s,
              !.cb = "suspend", !.link = FALSE,
              !.socket = @ /\ s # "CIPCLOSE"]

\* The network check starts over, for an engine that gave up acquiring data.
Restart(a) == CheckNet([a EXCEPT !.acq = "IDLE"], "CSQ")

\* The handler returns and arms nothing.
Unarmed(a) == [a EXCEPT !.cb = "none"]

----------------------------------------------------------------------------
(* How a handler ends.                                                     *)

\* The engine, the channel and the flags change, nothing else does.
Goes(a, c, f) ==
    /\ at' = a /\ ChannelNum' = c /\ flags' = f
    /\ UNCHANGED <<ChannelLock, queue, flow, evtloop_pipe, timers, listener>>

\* w_suspendMdmHdlr() in state s; it cancels the idle timer.  Without the
\* rsp timers, whose answer has come.
SuspendsWithout(rsp, a, s, c, f) ==
    /\ at' = Suspend(a, s) /\ ChannelNum' = c /\ flags' = f
    /\ timers' = timers \ ({"idle"} \union rsp)
    /\ UNCHANGED <<ChannelLock, queue, flow, evtloop_pipe, listener>>

Suspends(a, s, c, f) == SuspendsWithout({}, a, s, c, f)

\* The connection is closed in order to be opened again.
ClosesToRecover(a, s, c, f) == Suspends(a, s, c, f \union {"RcvrMdmEmodemConn"})

\* add_node() of the request in hand.  EvtLoop did not keep the number of a
\* status report that it took over from another thread.
InHand == IF flow = "STATUS" THEN "OUTDATED" ELSE flow

\* The request in hand goes back to the queue, and the engine to a.
Requeues(a, c, f) ==
    /\ at' = a /\ ChannelNum' = c /\ flags' = f
    /\ queue' = Append(queue, InHand)
    /\ UNCHANGED <<ChannelLock, flow, evtloop_pipe, timers, listener>>

\* The handler returns, or breaks, with ChannelLock still locked.  The thread
\* stops at the next lock, so the rest of its state does not matter any more.
Leaks ==
    /\ ChannelLock' = "lost"
    /\ UNCHANGED <<ChannelNum, at, flags, queue, flow, evtloop_pipe, timers, listener>>

\* mdmEmodem_shutdown() and msq_send_pd_rsp(), after set_at_evt_waiting(); the
\* handler returns with the lock "free" or "lost".
PowersDownWith(lock, f) ==
    /\ at' = Waiting(at)
    /\ ChannelLock' = lock
    /\ flags' = (f \ {"isMdmEmodemRunning"}) \union {"shutdown"}
    /\ timers' = timers \ {"power_down"}
    /\ UNCHANGED <<ChannelNum, queue, flow, evtloop_pipe, listener>>

PowersDown(f) == PowersDownWith(ChannelLock, f)

----------------------------------------------------------------------------
(* Transmitting and waiting.                                               *)

\* Mutant: the whole queue is cleared.
WithoutApdus_nothing(q) == <<>>

\* queue_clr_apdu_node(): the other nodes stay.
WithoutApdus(q) ==
    LET kept[i \in 0..Len(q)] ==
            IF i = 0 THEN <<>>
            ELSE IF q[i] = "APDU" THEN kept[i - 1] ELSE Append(kept[i - 1], q[i])
    IN kept[Len(q)]

\* dequeue_and_send_req() after queue_check_if_node_valid(): the first node is
\* taken, to be sent; or nothing is, and an outdated report, or the APDUs of a
\* USIM that is off, are dropped.
Dequeued(q, f) ==
    LET Nothing(rest) == [flow |-> "IDLE", queue |-> rest] IN
    CASE q = <<>> -> Nothing(q)
      [] q # <<>> /\ Head(q) = "OUTDATED" -> Nothing(Tail(q))
      [] q # <<>> /\ Head(q) = "APDU" /\ "isUimPwrDwn" \in f -> Nothing(WithoutApdus(q))
      [] OTHER -> [flow |-> Head(q), queue |-> Tail(q)]

\* The queue is left alone once the box is being powered off.
DequeuedUnlessOff(q, f) ==
    IF "isFTMPowerOffInd" \in f THEN [flow |-> "IDLE", queue |-> q] ELSE Dequeued(q, f)

\* check_rsp_timers(): an answer of the server is awaited.
check_rsp_timers(t) == t \cap {"id_rsp", "ruim_rsp", "power_down"} # {}

\* add_timer_mdmEmodem_idle_timeout() where the handlers call it: no answer of
\* the server is awaited and mdmImodem is registered.
IdleTimer(f, t) ==
    IF ~check_rsp_timers(t) /\ "isRegOn" \in f /\ "isNotNeedIdleTimer" \notin f
    THEN t \union {"idle"} ELSE t

\* w_acqDataHdlr() in CIPSEND_1 with request s in the transmit buffer.  A
\* report is not sent if another one is on its way to EvtLoop: EvtLoop asks
\* itself to suspend and takes the next request of the queue.  (StatInfReqNum
\* says so; it counts a queued report twice, so the report may be sent as well.)
Transmits(a, s, q, c, f, t) ==
    /\ ChannelNum' = c /\ flags' = f /\ timers' = t
    /\ UNCHANGED <<ChannelLock, listener>>
    /\ \/ /\ at' = AcqData(a, "CIPSEND_1")
          /\ flow' = s /\ queue' = q
          /\ UNCHANGED evtloop_pipe
       \/ /\ s = "STATUS" /\ Request("0x01") \in Range(evtloop_pipe)
          /\ evtloop_pipe' = Append(evtloop_pipe, Request("0x03"))
          /\ LET d == DequeuedUnlessOff(q, f) IN
             /\ queue' = d.queue
             /\ flow' = IF d.flow = "IDLE" THEN s ELSE d.flow
             /\ at' = IF d.flow = "IDLE" THEN Waiting(a) ELSE AcqData(a, "CIPSEND_1")

\* set_at_evt_waiting() on queue q: send its next request, with the timers t,
\* or wait, with the timers w.
WaitsOrSends(a, q, c, f, t, w) ==
    LET d == DequeuedUnlessOff(q, f) IN
    IF d.flow # "IDLE" THEN Transmits(a, d.flow, d.queue, c, f, t)
    ELSE /\ at' = Waiting(a) /\ ChannelNum' = c /\ flags' = f /\ timers' = w
         /\ queue' = d.queue
         /\ UNCHANGED <<ChannelLock, flow, evtloop_pipe, listener>>

Waits(a, c, f) == WaitsOrSends(a, queue, c, f, timers, timers)

\* The end of a transmission: the next request of the queue (even during a
\* power-off), an AT command of yy_daemon, or the idle timer and, unless a
\* second node can be taken, WAITING.
TakesNext(a, c, f, t) ==
    LET d == Dequeued(queue, f)
        idle == IdleTimer(f, t)
    IN
    IF d.flow # "IDLE" THEN Transmits(a, d.flow, d.queue, c, f, t)
    ELSE IF "isYYDaemonNeedtoSendATCmd" \in f
    THEN /\ at' = AcqData(a, "CUSTOM_AT") /\ ChannelNum' = c
         /\ flags' = f \ {"isYYDaemonNeedtoSendATCmd"}
         /\ timers' = t
         /\ queue' = d.queue
         /\ UNCHANGED <<ChannelLock, flow, evtloop_pipe, listener>>
    ELSE WaitsOrSends(a, d.queue, c, f, idle, idle)

----------------------------------------------------------------------------
(* A power-off found pending by a handler that has no connection.          *)

\* The handler goes on: mdmEmodem has to connect once more to tell the server.
PowerOffGoesOn ==
    Has("isWaitToPwrDwn") => ~Has("isProcOfInitApp") /\ ChannelNum \in Unconnected

ChannelPowerOff == IF Has("isWaitToPwrDwn") THEN -1 ELSE ChannelNum

FlagsPowerOff ==
    IF ~Has("isWaitToPwrDwn") THEN flags
    ELSE (flags \ ({"isWaitToPwrDwn", "isTermRcvrNow"}
                   \union IF ChannelNum = 4 THEN {"isMifiConnected"} ELSE {}))
         \union {"isNeedToSendOutReq0x65"}

\* Mutant: the start-up is told from a recovery by the wrong channel.
PowerOffStops_at_4(lock) ==
    /\ ~PowerOffGoesOn
    /\ IF Has("isProcOfInitApp") /\ ChannelNum = 4
       THEN PowersDownWith(lock, flags \ {"isWaitToPwrDwn", "isTermRcvrNow"})
       ELSE Leaks
    /\ Keep

\* It does not: the box never reached the server, and is powered down at once;
\* only the handler of NETOPEN unlocks ChannelLock first.
PowerOffStops(lock) ==
    /\ ~PowerOffGoesOn
    /\ IF Has("isProcOfInitApp") /\ ChannelNum = -1
       THEN PowersDownWith(lock, flags \ {"isWaitToPwrDwn", "isTermRcvrNow"})
       ELSE Leaks
    /\ Keep

=============================================================================
