----------------------------- MODULE EmodemXfer -----------------------------
(***************************************************************************)
(* A request is transmitted and its answer received: acqData from          *)
(* CIPSEND_1 to CUSTOM_AT.  A status report is not answered by the server; *)
(* every other request is.                                                 *)
(***************************************************************************)
EXTENDS EmodemConn

\* The timer of the answer to the request in hand.
RspTimer == IF flow = "ID" THEN {"id_rsp"} ELSE IF flow = "RUIM" THEN {"ruim_rsp"} ELSE {}

\* The connection of ChannelNum is lost, and the request in hand with it.
Loses(a) ==
    IF ChannelNum \in Connected THEN Goes(a, Broken[ChannelNum], flags) ELSE Leaks

\* Or the request goes back to the queue.
LosesAndRequeues(a) ==
    IF ChannelNum \in Connected THEN Requeues(a, Broken[ChannelNum], flags) ELSE Leaks

\* A recovery that was asked for while mdmEmodem was busy; at ChannelNum 1, tolerated
\* by some handlers, it is left as it is.  rsp: the timers whose answer has come.
Recovers(rsp, tolerated, f) ==
    IF ChannelNum \in Connected \union tolerated
    THEN SuspendsWithout(rsp, [at EXCEPT !.acq = "IDLE"], "CIPCLOSE", Broken[ChannelNum],
                         (f \ {"isWaitToRcvr"}) \union {"RcvrMdmEmodemConn"})
    ELSE Leaks

\* A suspension, likewise: of the connection of ChannelNum 3; the one of
\* ChannelNum 0 is needed, as mdmImodem has no network.
SuspensionDue == Has("isWaitToSusp") /\ ChannelNum # 0

\* Mutant: mdmImodem takes over while the connection is still being closed.
SuspendsWhenDone_handed_over(rsp) ==
    IF ChannelNum = 3
    THEN SuspendsWithout(rsp, at, "CIPCLOSE", 1, flags \ {"isWaitToSusp"})
    ELSE Leaks

\* Mutant: AT+CIPCLOSE is not written.
SuspendsWhenDone_not_written(rsp) ==
    IF ChannelNum = 3 THEN Goes(Waiting(at), 2, flags \ {"isWaitToSusp"}) ELSE Leaks

SuspendsWhenDone(rsp) ==
    IF ChannelNum = 3
    THEN SuspendsWithout(rsp, at, "CIPCLOSE", 2, flags \ {"isWaitToSusp"})
    ELSE Leaks

\* msq_send_pd_msg_to_srv() by a handler that finds the power-off pending.
TellsPowerOff ==
    IF ChannelNum \in Connected
    THEN Transmits(at, "PWR_DOWN", queue, 0,
                   flags \ ({"isWaitToPwrDwn", "isWaitToSusp"}
                            \union IF ChannelNum = 3 THEN {"isMifiConnected"} ELSE {}), timers)
    ELSE Leaks

----------------------------------------------------------------------------
\* A failure that is reported at ChannelNum 1 begins with set_at_evt_waiting().
ReportedWhileSuspended(a, f) ==
    LET d == DequeuedUnlessOff(queue, f)
        s == IF d.flow = "IDLE" THEN "WAITING" ELSE "CIPSEND_1"
    IN
    /\ at' = IF a.acq = "CIPSEND_1" THEN [a EXCEPT !.acq = s] ELSE a
    /\ flow' = IF d.flow = "IDLE" THEN flow ELSE d.flow
    /\ queue' = Append(d.queue, IF flow' = "STATUS" THEN "OUTDATED" ELSE flow')
    /\ flags' = f
    /\ UNCHANGED <<ChannelNum, ChannelLock, evtloop_pipe, timers, listener>>

\* w_acqDataHdlr() in CIPSEND_2: the timer of the answer starts.
WritesData ==
    /\ at' = AcqData(at, "CIPSEND_2")
    /\ timers' = IF RspTimer = {} THEN timers ELSE (timers \ {"idle"}) \union RspTimer
    /\ UNCHANGED <<ChannelNum, ChannelLock, flags, queue, flow, evtloop_pipe, listener>>

\* The prompt for the data, or a failure.  The modem reports the loss of the
\* connection with +CIPERROR, which it may announce, and ERROR, which may be
\* read later.  The channel breaks at the first report; each report puts the
\* request in hand into the queue.
r_acqDataHdlr_CIPSEND_1 ==
    LET Fails == IF at.link THEN Happens("lost") ELSE Keep
        lost == [at EXCEPT !.link = FALSE]
        Reported(a, f) ==
            IF Has("isWaitForRptCIPERROR") THEN Requeues(a, ChannelNum, f)
            ELSE IF ChannelNum \in Connected THEN Requeues(a, Broken[ChannelNum], f)
            ELSE IF ChannelNum = 1 THEN ReportedWhileSuspended(a, f)
            ELSE Leaks
        f == flags \ {"isWaitForRptCIPERROR"}
    IN
    /\ AcqArmed("CIPSEND_1")
    /\ \/ at.link /\ Keep /\ WritesData
       \/ Fails /\ LosesAndRequeues(CheckNet(at, "CSQ"))
       \/ /\ Fails /\ at.link                         \* the announcement
          /\ Reported(lost, flags \union {"isWaitForRptCIPERROR", "isServConnClosed"})
       \/ /\ Fails                                    \* +CIPERROR, alone or with ERROR
          /\ ~Has("isWaitRspError")
          /\ \/ Reported(lost, f \union {"isWaitRspError"})
             \/ \E g \in {f, flags} : Reported(AcqData(at, "CIPOPEN_REQ"), g)
             \/ Reported(Suspend(at, "NETCLOSE"), f \union {"RcvrMdmEmodemConn"})
       \/ /\ Fails                                    \* ERROR
          /\ IF Has("isWaitRspError")
             THEN \/ Goes(AcqData(at, "CIPOPEN_REQ"), ChannelNum, flags \ {"isWaitRspError"})
                  \/ IF ChannelNum \in Connected
                     THEN Suspends(at, "NETCLOSE", Broken[ChannelNum], flags \ {"isWaitRspError"})
                     ELSE Leaks
             ELSE IF ChannelNum \in Connected \union Unconnected
             THEN ClosesToRecover([at EXCEPT !.chk = "IDLE", !.acq = "IDLE"], "CIPCLOSE",
                                  Broken[ChannelNum], flags)
             ELSE Leaks

\* The data are sent.  A status report ends here; only it looks at the requests
\* of the other threads.
r_acqDataHdlr_CIPSEND_2 ==
    LET f == flags \ {"isWaitToSusp"}
        StatusSent ==
            IF Has("isWaitToPwrDwn") THEN TellsPowerOff
            ELSE IF SuspensionDue THEN SuspendsWhenDone({})
            ELSE IF Has("isWaitToRcvr") THEN Recovers({}, {}, f)
            ELSE IF ~Has("isNeedToSendIDMsg") THEN TakesNext(at, ChannelNum, f, timers)
            ELSE Goes(Waiting(at), ChannelNum, AsksIMSI(f))
    IN
    /\ AcqArmed("CIPSEND_2")
    /\ \/ /\ Happens("lost")
          /\ \E a \in {CheckNet(at, "CSQ"), AcqData(at, "CIPOPEN_REQ")} : LosesAndRequeues(a)
       \/ Happens("bad") /\ WritesData
       \/ /\ Keep
          /\ CASE flow = "STATUS" -> StatusSent
               [] flow = "RUIM"   -> Goes(AcqData(at, "CATR_1"), ChannelNum, flags)
               [] OTHER           -> Goes(AcqData(at, "RECVING"), ChannelNum, flags)

\* The virtual USIM is reset before its new data come.
r_acqDataHdlr_CATR_1 ==
    /\ AcqArmed("CATR_1")
    /\ \/ Keep /\ IF Cancelled THEN StartsOver
                  ELSE Goes(AcqData(at, "RECVING"), ChannelNum, flags)
       \/ Happens("lost") /\ Loses(AcqData(at, "CIPOPEN"))

----------------------------------------------------------------------------
(* The answer of the server.                                               *)

NoApdus == WithoutApdus(queue)

\* __AFTER_SENDING_DATA_TO_MDM__, with no new USIM.
AfterSendingData(q, f, t) ==
    IF ChannelNum \in Connected
    THEN WaitsOrSends(at, q, ChannelNum, f, t, IdleTimer(f, t))
    ELSE Leaks

\* What an accepted ID asks for: new USIM data, no USIM at all, or nothing.  A
\* virtual USIM that is offline is powered up, by power_up_virtual_usim().
IDAccepted(f, t) ==
    \/ Transmits(at, "RUIM", NoApdus, ChannelNum, f, t)
    \/ WaitsOrSends(at, queue, ChannelNum, f \union {"del_simdata"}, t, t)
    \/ AfterSendingData(NoApdus, IF "isUimPwrDwn" \in f
                                 THEN f \ {"isUimPwrDwn", "isRegOffForPoorSig"} ELSE f, t)
    \/ TakesNext(at, ChannelNum, f, t)

\* A correct answer.
Answered(f, t) ==
    CASE flow = "ID" -> IDAccepted(f, t)
      [] flow = "RUIM" -> /\ at' = AcqData(at, "CATR_2")
                          /\ flags' = f /\ timers' = t
                          /\ UNCHANGED <<ChannelNum, ChannelLock, queue, flow, evtloop_pipe,
                                         listener>>
      [] OTHER -> AfterSendingData(queue, f, t)

\* The request is sent again, without its timer.
SendsAgain(a, f) ==
    /\ at' = a /\ flags' = f /\ timers' = timers \ RspTimer
    /\ UNCHANGED <<ChannelNum, ChannelLock, queue, flow, evtloop_pipe, listener>>

r_acqDataHdlr_RECVING ==
    LET t == timers \ RspTimer
        f == flags \ {"isWaitToSusp"}
    IN
    /\ AcqArmed("RECVING")
    /\ \/ Happens("lost") /\ \E a \in {CheckNet(at, "CSQ"), AcqData(at, "CIPOPEN_REQ")} : Loses(a)
       \/ /\ Happens("lost")
          /\ IF ChannelNum \in Connected
             THEN ClosesToRecover(at, "NETCLOSE", Broken[ChannelNum], flags)
             ELSE Leaks
       \/ /\ Happens("bad")                       \* data that cannot be understood
          /\ IF flow # "APDU" THEN SendsAgain(AcqData(at, "CIPSEND_1"), flags)
             ELSE Waits(at, ChannelNum, flags) \/ AfterSendingData(queue, flags, timers)
       \/ Keep /\ Has("isWaitToPwrDwn") /\ TellsPowerOff
       \/ /\ ~Has("isWaitToPwrDwn")
          /\ \/ /\ Happens("refused") /\ flow = "ID"
                /\ SuspendsWithout(RspTimer, at, "CIPCLOSE", ChannelNum,
                                   flags \union {"g_closesocket_F9"})
             \/ Happens("bad") /\ SendsAgain(AcqData(at, "CIPSEND_1"), flags)
             \/ /\ Happens("redirect") /\ flow = "ID"
                /\ SendsAgain(AcqData(at, "CIPOPEN_REQ"), flags \union {"isProcOfInitApp"})
             \/ /\ Keep /\ flow = "PWR_DOWN"
                /\ SuspendsWithout({"power_down"}, at, "CIPCLOSE", -1,
                                   flags \union {"isPwrDwnRspAcq"})
             \/ /\ Keep /\ flow # "PWR_DOWN"
                /\ IF Has("isWaitToRcvr") THEN Recovers(RspTimer, {}, flags)
                   ELSE IF SuspensionDue THEN SuspendsWhenDone(RspTimer)
                   ELSE Answered(f, t)

\* Mutant: the suspension is left pending.
r_acqDataHdlr_CATR_2_pending ==
    /\ AcqArmed("CATR_2")
    /\ \/ Happens("lost") /\ Loses(AcqData(at, "CIPOPEN"))
       \/ Keep /\ Goes(Waiting(at), ChannelNum, flags)

\* The virtual USIM was reset with its new data.
r_acqDataHdlr_CATR_2 ==
    /\ AcqArmed("CATR_2")
    /\ \/ Happens("lost") /\ Loses(AcqData(at, "CIPOPEN"))
       \/ /\ Keep
          /\ IF Cancelled THEN StartsOver
             ELSE IF SuspensionDue THEN SuspendsWhenDone({})
             ELSE Goes(Waiting(at), ChannelNum, flags \ {"isWaitToSusp"})

\* The modem reports something of itself.  The loss of the connection, or of the
\* network, can only be reported while there is a connection.
r_acqDataHdlr_WAITING ==
    /\ AcqArmed("WAITING")
    /\ IF Has("isWaitToRcvr") THEN Keep /\ Recovers({}, {1}, flags)
       ELSE /\ Happens("lost") /\ at.link
            /\ \/ IF ChannelNum \in Unconnected THEN Leaks
                  ELSE /\ at' = IF ChannelNum \in Connected THEN CheckNet(at, "CSQ") ELSE Unarmed(at)
                       /\ ChannelNum' = Broken[ChannelNum]
                       /\ timers' = timers \ {"idle"}
                       /\ UNCHANGED <<ChannelLock, flags, queue, flow, evtloop_pipe, listener>>
               \/ IF ChannelNum \in Connected \union {1}
                  THEN Goes(AcqData(at, "CIPOPEN_REQ"), Broken[ChannelNum], flags)
                  ELSE Leaks
               \/ IF ChannelNum \in Connected \union {1}
                  THEN Suspends(at, "NETCLOSE", Broken[ChannelNum],
                                flags \union {"isServConnClosed"})
                  ELSE Leaks

\* The answer to an AT command of yy_daemon.
r_acqDataHdlr_CUSTOM_AT_CMD ==
    /\ AcqArmed("CUSTOM_AT") /\ Keep
    /\ WaitsOrSends(at, queue, ChannelNum, flags, timers, IdleTimer(flags, timers))

XferSteps ==
    \/ r_acqDataHdlr_CIPSEND_1 \/ r_acqDataHdlr_CIPSEND_2
    \/ r_acqDataHdlr_CATR_1 \/ r_acqDataHdlr_RECVING \/ r_acqDataHdlr_CATR_2
    \/ r_acqDataHdlr_WAITING \/ r_acqDataHdlr_CUSTOM_AT_CMD

=============================================================================
