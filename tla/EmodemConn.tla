----------------------------- MODULE EmodemConn -----------------------------
(***************************************************************************)
(* mdmEmodem opens the connection to the server: acqData from NETOPEN to   *)
(* CIPOPEN.  Every handler first looks at what the other threads asked for *)
(* in the meantime: a power-off, the end of the recovery, a suspension.    *)
(***************************************************************************)
EXTENDS EmodemNet

\* A suspension asked for while the connection was being opened; a recovery
\* (ChannelNum -1) cannot be suspended, and goes on.
SuspensionPending(c, f) == "isWaitToSusp" \in f /\ c # -1

Suspended(s, c, f) ==
    IF c = 4 THEN Suspends(at, s, 2, f \ {"isWaitToSusp"}) ELSE Leaks

\* The network connection is lost, or not open, while there is no link to lose.
StartsOverUnlessLinked(a) ==
    IF ChannelNum \in Unconnected THEN Goes(a, ChannelNum, flags) ELSE Leaks

NetOpened(c, f) ==
    IF "isTermRcvrNow" \in f
    THEN Keep /\ ClosesToRecover([at EXCEPT !.acq = "IDLE"], "NETCLOSE", c, f \ {"isTermRcvrNow"})
    ELSE IF SuspensionPending(c, f) THEN Keep /\ Suspended("NETCLOSE", c, f)
    ELSE \/ Happens("bad") /\ Goes(Restart(at), c, f \ {"isWaitToSusp"})
         \/ Keep /\ Goes(AcqData(at, "CIPOPEN_REQ"), c, f \ {"isWaitToSusp"})

r_acqDataHdlr_NETOPEN ==
    /\ AcqArmed("NETOPEN")
    /\ \/ Happens("lost") /\ StartsOverUnlessLinked(CheckNet(at, "CSQ"))
       \/ Happens("bad") /\ \E a \in {Restart(at), AcqData(at, "CIPOPEN_REQ")} :
                                Goes(a, ChannelNum, flags)
       \/ PowerOffStops("free")
       \/ PowerOffGoesOn /\ NetOpened(ChannelPowerOff, FlagsPowerOff)

\* AT+CIPOPEN?, then AT+CIPCLOSE of a socket left open, once for every such socket.
r_acqDataHdlr_CIPOPEN_REQ ==
    /\ AcqArmed("CIPOPEN_REQ") /\ Keep
    /\ IF Cancelled THEN StartsOver ELSE Goes(AcqData(at, "CIPCLOSE"), ChannelNum, flags)

r_acqDataHdlr_CIPCLOSE ==
    /\ AcqArmed("CIPCLOSE") /\ Keep
    /\ IF Cancelled THEN StartsOver ELSE Goes(AcqData(at, "CIPOPEN"), ChannelNum, flags)

----------------------------------------------------------------------------
(* The answer to AT+CIPOPEN.                                               *)

\* The IMSI of mdmImodem is asked for, to be sent in an ID message.
AsksIMSI(f) == (f \ {"isNeedToSendIDMsg"}) \union {"isSendIdAfterAcqIMSI", "acq_imsi"}

\* Mutant: the flag stays set.
PowerOffTold_again(f) == f

\* The server is being told of the power-off: once is enough.
PowerOffTold(f) == f \ {"isNeedToSendOutReq0x65"}

\* The connection is open, and nothing else was asked for.
ConnOpened(c, f) ==
    LET open == [at EXCEPT !.link = TRUE] IN
    IF Has("isProcOfInitApp")
    THEN Transmits(open, "ID", queue, 0, f \ {"isProcOfInitApp"}, timers)
    ELSE IF "isNeedToSendOutReq0x65" \in f
    THEN Transmits(open, "PWR_DOWN", queue, 0, PowerOffTold(f), timers)
    ELSE IF "isRegOffForPoorSig" \in f
    THEN \* The virtual USIM is off, or is going to be and powered up again first.
         LET g == f \ {"isWaitToSusp"} IN
         Waits(open, 0, IF "isUimPwrDwn" \in g THEN AsksIMSI(g)
                        ELSE g \union {"PowerUpUsimAfterRecvingUrcRpt"})
    ELSE IF c = -1
    THEN IF "isNeedToSendIDMsg" \in f
         THEN Transmits(open, "ID", queue, 0, f \ {"isNeedToSendIDMsg"}, timers)
         ELSE LET d == Dequeued(queue, f)
                  t == IdleTimer(f, timers)
              IN IF d.flow # "IDLE" THEN Transmits(open, d.flow, d.queue, 0, f, timers)
                 ELSE WaitsOrSends(open, d.queue, 0, f, t, t)
    ELSE IF c = 4 THEN TakesNext(open, 3, f, timers)
    ELSE Goes(Unarmed(open), c, f)

\* It could not be opened.
ConnRefused(c, f) ==
    \/ \E s \in {"CIPCLOSE", "NETCLOSE"} :
          ClosesToRecover([at EXCEPT !.chk = IF s = "CIPCLOSE" THEN "IDLE" ELSE @,
                                     !.acq = "IDLE"], s, c, f)
    \/ Goes(AcqData(at, "CIPOPEN_REQ"), c, f)

\* The power-off found pending once the box is connected again: the message is
\* sent at once, but the lock is not released.
PowerOffConnected == Has("isWaitToPwrDwn") /\ PowerOffGoesOn

ConnAnswered(opened, c, f) ==
    IF "isTermRcvrNow" \in f
    THEN ClosesToRecover([at EXCEPT !.acq = "IDLE"], "CIPCLOSE", c, f \ {"isTermRcvrNow"})
    ELSE IF SuspensionPending(c, f) THEN Suspended("CIPCLOSE", c, f)
    ELSE IF opened THEN ConnOpened(c, f \ {"isWaitToSusp"})
    ELSE ConnRefused(c, f \ {"isWaitToSusp"})

r_acqDataHdlr_CIPOPEN ==
    /\ AcqArmed("CIPOPEN")
    /\ \/ /\ Happens("lost")
          /\ StartsOverUnlessLinked(CheckNet(at, "CSQ"))
       \/ /\ Happens("bad")
          /\ \/ StartsOverUnlessLinked(AcqData(at, "CIPOPEN_REQ"))
             \/ /\ ~Has("isWaitToPwrDwn")  \* +CIPERROR: 4
                /\ IF ChannelNum \in Unconnected
                   THEN Suspends(at, "NETCLOSE", ChannelNum, flags \union {"isServConnClosed"})
                   ELSE Leaks
             \/ ClosesToRecover([at EXCEPT !.chk = "IDLE", !.acq = "IDLE"], "NETCLOSE",
                                ChannelNum, flags)
             \/ PowerOffGoesOn /\ ConnAnswered(FALSE, ChannelPowerOff, FlagsPowerOff)
       \/ PowerOffStops("lost")
       \/ Keep /\ PowerOffConnected /\ Leaks
       \/ Keep /\ ~Has("isWaitToPwrDwn") /\ ConnAnswered(TRUE, ChannelNum, flags)

ConnSteps ==
    \/ r_acqDataHdlr_NETOPEN \/ r_acqDataHdlr_CIPOPEN_REQ
    \/ r_acqDataHdlr_CIPCLOSE \/ r_acqDataHdlr_CIPOPEN

=============================================================================
