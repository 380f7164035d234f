----------------------------- MODULE EmodemReq ------------------------------
(***************************************************************************)
(* What the engine is asked for: the requests that process_events() serves *)
(* with ChannelLock, the timers of EvtLoop, and the threads MsgLoop,       *)
(* Listener and Sender, which read and change the same state.              *)
(***************************************************************************)
EXTENDS EmodemSusp

LOCAL INSTANCE Functions

----------------------------------------------------------------------------
(* process_events(), the callback of evtloop_pipe.                         *)

\* It locks ChannelLock and reads a request.  A power-off leaves only the
\* recoveries and the reports; a request to transmit stops the idle timer.
process_events ==
    /\ BetweenRequests /\ evtloop_pipe # <<>>
    /\ evtloop_pipe' = Tail(evtloop_pipe)
    /\ req' = IF Has("isFTMPowerOffInd") /\ Head(evtloop_pipe).kind \in {"0x00", "0x03", "0x04"}
              THEN NoRequest ELSE Head(evtloop_pipe)
    /\ timers' = IF req'.kind \in {"0x00", "0x01"} THEN timers \ {"idle"} ELSE timers
    /\ flags' = IF req'.kind = "0x00" THEN flags \ {"isWaitToSusp"} ELSE flags
    /\ UNCHANGED <<ChannelNum, ChannelLock, at, queue, flow, listener>>

Serves(k) == EvtLoopRuns /\ req.kind = k /\ req' = NoRequest

Running == Has("isMdmEmodemRunning")

\* w_resumeMdmHdlr()
Resumed == CheckNet(at, "CSQ")

FlagsResumed == (flags \union {"isMdmEmodemRunning"}) \ {"is1stRunOnMdmEmodem"}

\* A report may be outdated by one of another thread that follows it.
Enqueues(s, a, c, f) ==
    /\ \E n \in {s} \union IF s = "STATUS" /\ Request("0x01") \in Range(evtloop_pipe)
                        THEN {"OUTDATED"} ELSE {} :
          queue' = Append(queue, n)
    /\ at' = a /\ ChannelNum' = c /\ flags' = f
    /\ UNCHANGED <<ChannelLock, flow, evtloop_pipe, timers, listener>>

\* A request to transmit: now, or once mdmEmodem is resumed, recovered or idle.
process_events_0x00_0x01 ==
    LET s == IF req.kind = "0x00" THEN "APDU" ELSE "STATUS" IN
    /\ Serves("0x00") \/ Serves("0x01")
    /\ CASE ChannelNum = 1 ->
               IF Running THEN Enqueues(s, at, 4, flags)
               ELSE Enqueues(s, Resumed, 4, FlagsResumed)
         [] ChannelNum = 2 -> Enqueues(s, at, 2, flags \union {"isTermSuspNow"})
         [] ChannelNum \in Connected /\ ~mdmEmodem_check_busy ->
               Transmits(at, s, queue, ChannelNum, flags, timers)
         [] OTHER -> Enqueues(s, at, ChannelNum, flags)

\* The connection has to be recovered, as mdmImodem lost its own.
process_events_0x02 ==
    /\ Serves("0x02")
    /\ CASE Has("isWaitToRcvr") -> Goes(at, ChannelNum, flags)
         [] ~Has("isWaitToRcvr") /\ ~Running -> Goes(Resumed, req.arg, FlagsResumed)
         [] ~Has("isWaitToRcvr") /\ Running /\ ~mdmEmodem_check_busy ->
               ClosesToRecover(at, "CIPCLOSE", req.arg, flags)
         [] OTHER -> Goes(at, ChannelNum, flags \union {"isWaitToRcvr"})

\* mdmEmodem has to be suspended, as mdmImodem has a connection.
process_events_0x03 ==
    /\ Serves("0x03")
    /\ CASE Has("isWaitToSusp") \/ ~Running -> Goes(at, ChannelNum, flags)
         [] ~Has("isWaitToSusp") /\ Running /\ mdmEmodem_check_busy ->
               Goes(at, ChannelNum, flags \union {"isWaitToSusp"})
         [] ~Has("isWaitToSusp") /\ Running /\ ~mdmEmodem_check_busy ->
               IF ChannelNum \in {-1, 2} THEN Goes(at, ChannelNum, flags)
               ELSE IF ChannelNum \in Connected THEN Suspends(at, "CIPCLOSE", 2, flags)
               ELSE Leaks

\* yy_daemon has an AT command for mdmEmodem.
process_events_0x04 ==
    LET f == flags \union {"isYYDaemonNeedtoSendATCmd"} IN
    /\ Serves("0x04")
    /\ CASE ~Running -> Goes(Resumed, 4, FlagsResumed \union {"isYYDaemonNeedtoSendATCmd"})
         [] Running /\ mdmEmodem_check_busy -> Goes(at, ChannelNum, f)
         [] OTHER -> Goes(AcqData(at, "CUSTOM_AT"), ChannelNum, flags)

ServeSteps ==
    \/ process_events_0x00_0x01 \/ process_events_0x02
    \/ process_events_0x03 \/ process_events_0x04

----------------------------------------------------------------------------
(* The timers of EvtLoop.                                                  *)

Expires(t) == BetweenRequests /\ t \in timers

\* The callback of timer t changes the engine, the channel and the flags.
After(t, a, c, f) ==
    /\ at' = a /\ ChannelNum' = c /\ flags' = f
    /\ timers' = timers \ {t}
    /\ UNCHANGED <<ChannelLock, queue, flow, evtloop_pipe, listener>>

\* mdmEmodem had nothing to do for a while.  At ChannelNum 0 mdmImodem may have
\* a connection by now, which nobody reported.
Idle_Timer_timeout_cb ==
    LET Stays == After("idle", at, ChannelNum, flags)
        AsksToSuspend(f) ==
            IF "isYYDaemonNeedtoSendATCmd" \in f
            THEN After("idle", AcqData(at, "CUSTOM_AT"), 3, f \ {"isYYDaemonNeedtoSendATCmd"})
            ELSE /\ evtloop_pipe' = Append(evtloop_pipe, Request("0x03"))
                 /\ ChannelNum' = 3 /\ flags' = f /\ timers' = timers \ {"idle"}
                 /\ UNCHANGED <<ChannelLock, at, queue, flow, listener>>
    IN
    /\ Expires("idle") /\ Keep
    /\ CASE Has("isFTMPowerOffInd") \/ ~Running \/ ChannelNum = 2 -> Stays
         [] ~Has("isFTMPowerOffInd") /\ Running /\ ChannelNum # 2 /\ mdmEmodem_check_busy ->
               After("idle", at, 3, flags \union {"isWaitToSusp"})
         [] OTHER ->
               CASE ChannelNum = 0 ->
                       Stays \/ AsksToSuspend((flags \union {"isMifiConnected"})
                                              \ {"is1stRunOnMdmEmodem"})
                 [] ChannelNum = 3 -> AsksToSuspend(flags)
                 [] ChannelNum = 4 /\ queue = <<>> ->
                       After("idle", at, 4, flags \union {"isWaitToSusp"})
                 [] OTHER -> Stays

\* The server does not answer an ID: the channel counts as broken, and the request
\* in hand, whatever it is by now, is sent again, three times out of four, or the
\* connection is closed.
ID_Auth_rsp_timeout_cb ==
    LET f == flags \union {"isNeedToSendIDMsg"}
        c == Broken[ChannelNum]
    IN
    /\ Expires("id_rsp") /\ Happens("timeout")
    /\ IF ChannelNum \in {1, 2} THEN Leaks
       ELSE \/ Transmits(at, flow, queue, c, f, timers \ {"id_rsp"})
            \/ SuspendsWithout({"id_rsp"}, at, "CIPCLOSE", c, f \union {"RcvrMdmEmodemConn"})

\* The server does not answer a request for USIM data: it is asked again.
Remote_USIM_Data_rsp_timeout_cb ==
    /\ Expires("ruim_rsp") /\ Happens("timeout")
    /\ Transmits(at, "RUIM", NoApdus, ChannelNum, flags, timers \ {"ruim_rsp"})

\* Mutant: the connection is not closed first.
power_down_notification_timeout_cb_open ==
    Expires("power_down") /\ Keep /\ PowersDown(flags)

\* The server does not answer the power-off notice, or could not be told.
power_down_notification_timeout_cb ==
    /\ Expires("power_down") /\ Keep
    /\ IF ChannelNum \in Connected
       THEN SuspendsWithout({"power_down"}, at, "CIPCLOSE", -1, flags \union {"isPwrDwnRspAcq"})
       ELSE PowersDown(flags)

TimerSteps ==
    \/ Idle_Timer_timeout_cb \/ ID_Auth_rsp_timeout_cb
    \/ Remote_USIM_Data_rsp_timeout_cb \/ power_down_notification_timeout_cb

----------------------------------------------------------------------------
(* The other threads.                                                      *)

\* A thread posts a request, or changes the flags, and nothing else.
Posts(r, f) ==
    /\ evtloop_pipe' = Append(evtloop_pipe, r)
    /\ flags' = f
    /\ UNCHANGED <<ChannelNum, ChannelLock, at, queue, flow, timers, listener>>

\* MsgLoop: yy_daemon has an AT command.
MsgLoop_MDMEmodem_AT_CMD_REQ ==
    EvtLoopRuns /\ Happens("custom") /\ Posts(Request("0x04"), flags)

\* MsgLoop: the box is being powered off.  First the flag is set, without a lock.
MsgLoop_POWER_DOWN_REQ ==
    /\ EvtLoopRuns /\ Happens("pwrdwn")
    /\ flags' = flags \union {"isFTMPowerOffInd", "power_off_req"}
                     \union IF Has("isFTMPowerOffInd") THEN {"asked_again"} ELSE {}
    /\ UNCHANGED <<ChannelNum, ChannelLock, at, queue, flow, evtloop_pipe, timers, listener>>

\* clr_all_timers(), then add_timer_power_down_notification_timeout().
TimersAtPowerOff == {"power_down"}

\* Then the server has to be told: now, or by the handler that connects next.
MsgLoop_POWER_DOWN_REQ_locked ==
    LET g == flags \ {"power_off_req"}
        wait == {"isWaitToPwrDwn"}
        Tells(f, c) ==
            /\ flags' = f /\ ChannelNum' = c
            /\ timers' = TimersAtPowerOff
            /\ UNCHANGED <<ChannelLock, at, queue, flow, evtloop_pipe, listener>>
    IN
    /\ BetweenRequests /\ Has("power_off_req") /\ Keep
    /\ CASE ChannelNum \in Unconnected -> Tells((g \ {"isTermRcvrNow"}) \union wait, ChannelNum)
         [] ChannelNum \in Connected ->
               LET f == g \ ({"isWaitToSusp"}
                             \union IF ChannelNum = 3 THEN {"isMifiConnected"} ELSE {})
               IN IF mdmEmodem_check_busy THEN Tells(f \union wait, 0)
                  ELSE Transmits(at, "PWR_DOWN", queue, 0, f, TimersAtPowerOff)
         [] ChannelNum = 1 ->
               /\ evtloop_pipe' = Append(evtloop_pipe, Recovery(4))
               /\ flags' = (g \ {"isWaitToRcvr"}) \union {"isNeedToSendOutReq0x65"}
               /\ timers' = TimersAtPowerOff
               /\ UNCHANGED <<ChannelNum, ChannelLock, at, queue, flow, listener>>
         [] OTHER -> Tells((g \ {"isTermSuspNow", "isWaitToRcvr"}) \union wait, 2)

\* The queue once a newer status report is asked for.
Superseded(q) == [i \in DOMAIN q |-> IF q[i] = "STATUS" THEN "OUTDATED" ELSE q[i]]

\* Another thread has APDUs of the virtual USIM, or a status report.
RequestPosted ==
    /\ EvtLoopRuns
    /\ \/ /\ Happens("apdu")
          /\ evtloop_pipe' = Append(evtloop_pipe, Request("0x00"))
          /\ UNCHANGED queue
       \/ /\ Happens("report")
          /\ evtloop_pipe' = Append(evtloop_pipe, Request("0x01"))
          /\ queue' = Superseded(queue)
    /\ UNCHANGED <<ChannelNum, ChannelLock, at, flags, flow, timers, listener>>

\* Mutant: the ID is sent whatever the IMSI was asked for.
Sender_ACQ_IMSI_sends ==
    /\ BetweenRequests /\ Has("acq_imsi") /\ Keep
    /\ Transmits(at, "ID", queue, ChannelNum, flags \ {"acq_imsi", "isSendIdAfterAcqIMSI"}, timers)

\* Sender has the IMSI of mdmImodem: to open the network, or to send an ID at once.
Sender_ACQ_IMSI ==
    LET f == flags \ {"acq_imsi"} IN
    /\ BetweenRequests /\ Has("acq_imsi") /\ Keep
    /\ IF Has("isSendIdAfterAcqIMSI")
       THEN Transmits(at, "ID", queue, ChannelNum, f \ {"isSendIdAfterAcqIMSI"}, timers)
       ELSE Goes(AcqData(at, "NETOPEN"), ChannelNum, f)

\* Sender has removed the USIM data: new ones are asked for.
Sender_DEL_SIMDATA ==
    LET f == flags \ {"del_simdata"} IN
    /\ BetweenRequests /\ Has("del_simdata") /\ Keep
    /\ IF ChannelNum \in Connected THEN Transmits(at, "RUIM", NoApdus, ChannelNum, f, timers)
       ELSE /\ queue' = Append(NoApdus, "RUIM")
            /\ flags' = f
            /\ UNCHANGED <<ChannelNum, ChannelLock, at, flow, evtloop_pipe, timers, listener>>

ThreadSteps ==
    \/ MsgLoop_MDMEmodem_AT_CMD_REQ \/ MsgLoop_POWER_DOWN_REQ \/ MsgLoop_POWER_DOWN_REQ_locked
    \/ RequestPosted \/ Sender_ACQ_IMSI \/ Sender_DEL_SIMDATA

----------------------------------------------------------------------------
(* Listener: the registration of mdmImodem.                                *)

ListenerIdle == BetweenRequests /\ listener = <<>>

\* mdmImodem has no network any more, or not yet: mdmEmodem has to be, or to
\* remain, connected.  forces: a connection in use is recovered all the same;
\* terms: a recovery in progress starts over.
Disconnected(forces, terms, steps, off) ==
    LET c == ChannelNum
        resume == IF c = 1 \/ (forces /\ c \in Connected) THEN <<"resume">> ELSE <<>>
        on == IF c = 2 THEN {"isTermSuspNow", "RcvrMdmEmodemConnWhenSuspTerm"}
              ELSE IF terms /\ (c = 4 \/ (c = -1 /\ forces)) THEN {"isTermRcvrNow"}
              ELSE {}
    IN
    /\ ChannelNum' = IF c = 3 THEN 0 ELSE IF c = 4 THEN -1 ELSE c
    /\ flags' = (flags \ ({"isRegOn", "isMifiConnected"} \union off)) \union on
    /\ listener' = steps \o resume
    /\ UNCHANGED <<ChannelLock, at, queue, flow, evtloop_pipe, timers>>

\* The URCs: a rejection, the search for a network, an error of the card, a poor
\* signal, the registration, the end of the card's power.
handle_reg_urc ==
    /\ ListenerIdle /\ Happens("urc")
    /\ \/ Disconnected(FALSE, FALSE, <<>>, {})
       \/ Disconnected(Has("isRegOn"), TRUE, <<>>, {})
       \/ Disconnected(FALSE, FALSE, <<"id_needed", "report">>, {"isWaitToSusp"})
       \/ Disconnected(TRUE, TRUE, <<"poor_signal", "report">>, {})
       \/ /\ flags' = (flags \union {"isRegOn"}) \ {"is1stRunOnMdmEmodem"}
          /\ listener' = IF Has("isRegOn") THEN <<"idle_timer">> ELSE <<"report", "idle_timer">>
          /\ UNCHANGED <<ChannelNum, ChannelLock, at, queue, flow, evtloop_pipe, timers>>
       \/ /\ flags' = (flags \union {"isUimPwrDwn"}) \ {"PowerUpUsimAfterRecvingUrcRpt"}
          /\ listener' = IF Has("PowerUpUsimAfterRecvingUrcRpt") THEN <<"report">> ELSE <<>>
          /\ UNCHANGED <<ChannelNum, ChannelLock, at, queue, flow, evtloop_pipe, timers>>

\* The session of the virtual USIM became illegal: it was reset, and the server is
\* to be told, over a new connection.
handle_session_illegal ==
    /\ EvtLoopRuns /\ listener = <<>> /\ Happens("urc")
    /\ Posts(Recovery(-1), flags \union {"isNeedToSendIDMsg"})

\* mdmImodem has dialled up, or has hung up, which only changes the flag.
mifi_status_hdlr ==
    /\ ListenerIdle /\ Happens("dialup")
    /\ \/ /\ flags' = (flags \union {"isMifiConnected"}) \ {"is1stRunOnMdmEmodem"}
          /\ listener' = IF ChannelNum = 2 THEN <<>> ELSE <<"set_3", "suspend">>
       \/ /\ flags' = flags \ {"isMifiConnected"}
          /\ UNCHANGED listener
    /\ UNCHANGED <<ChannelNum, ChannelLock, at, queue, flow, evtloop_pipe, timers>>

\* The next step of the handler that the thread runs.
ListenerStep ==
    LET step == IF listener = <<>> THEN "none" ELSE Head(listener)
        on == CASE step = "id_needed" -> {"isNeedToSendIDMsg"}
                [] step = "poor_signal" -> {"isRegOffForPoorSig", "isNeedToSendIDMsg"}
                [] OTHER -> {}
        posts == CASE step = "report" -> <<Request("0x01")>>
                   [] step = "resume" -> <<Recovery(-1)>>
                   [] step = "suspend" -> <<Request("0x03")>>
                   [] OTHER -> <<>>
        idle == /\ step = "idle_timer" /\ ~check_rsp_timers(timers)
                /\ ~mdmEmodem_check_busy /\ queue = <<>>
    IN
    /\ step # "none" /\ Keep
    /\ IF step = "set_3" THEN BetweenRequests ELSE EvtLoopRuns
    /\ listener' = Tail(listener)
    /\ ChannelNum' = IF step = "set_3" THEN 3 ELSE ChannelNum
    /\ flags' = flags \union on
    /\ evtloop_pipe' = evtloop_pipe \o posts
    /\ queue' = IF step = "report" THEN Superseded(queue) ELSE queue
    /\ timers' = IF idle THEN timers \union {"idle"} ELSE timers
    /\ UNCHANGED <<ChannelLock, at, flow>>

ListenerActions ==
    handle_reg_urc \/ handle_session_illegal \/ mifi_status_hdlr \/ ListenerStep

=============================================================================
