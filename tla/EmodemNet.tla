----------------------------- MODULE EmodemNet ------------------------------
(***************************************************************************)
(* mdmEmodem is brought up: signal, registration, serial speed, and the    *)
(* queries that precede the connection (checkNet, uartConfig, and acqData  *)
(* from CGSN to CREG_3).  An answer cut in two by the serial line, which   *)
(* only makes the handler wait for the rest, is not a step.                *)
(***************************************************************************)
EXTENDS Emodem

\* The answer to ATE0, the first command.
r_checkNetHdlr_IDLE ==
    /\ Armed("checkNet") /\ at.chk = "IDLE"
    /\ IF Has("isWaitToPwrDwn") THEN PowersDown(flags \ {"isWaitToPwrDwn"})
       ELSE Goes(CheckNet(at, "CSQ"), ChannelNum, flags)
    /\ Keep

\* The signal.  A recovery that had to be cancelled starts here anyway.
r_checkNetHdlr_CSQ ==
    /\ Armed("checkNet") /\ at.chk = "CSQ"
    /\ \/ PowerOffStops("lost")
       \/ /\ PowerOffGoesOn
          /\ \/ Happens("bad") /\ Goes(at, ChannelPowerOff, FlagsPowerOff \ {"isTermRcvrNow"})
             \/ Keep /\ Goes(CheckNet(at, "CGREG"), ChannelPowerOff,
                             FlagsPowerOff \ {"isTermRcvrNow"})

\* The registration.  Without a USIM the engine stops here, in WAITING.  The
\* first time the serial port has to be configured.
r_checkNetHdlr_CGREG ==
    LET c == ChannelPowerOff
        f == FlagsPowerOff \ {"isTermRcvrNow"}
        registered == [at EXCEPT !.chk = "MAX"]
    IN
    /\ Armed("checkNet") /\ at.chk = "CGREG"
    /\ \/ PowerOffStops("lost")
       \/ /\ PowerOffGoesOn
          /\ \/ Happens("bad") /\ Goes(at, c, f)
             \/ Happens("no_sim") /\ Waits([registered EXCEPT !.conf = "MAX"], c,
                                           f \union {"isNotNeedIdleTimer"})
             \/ /\ Keep
                /\ Goes(IF Has("is1stRunOnMdmEmodem")
                        THEN [registered EXCEPT !.conf = "IPR", !.cb = "uartConfig"]
                        ELSE AcqData(registered, "COPS_1"), c, f)

r_uartConfigHdlr ==
    /\ Armed("uartConfig")
    /\ \/ Happens("bad") /\ UNCHANGED <<ChannelNum, ChannelLock, at, flags, queue, flow,
                                        evtloop_pipe, timers, listener>>
       \/ Keep /\ Has("isWaitToPwrDwn") /\ PowersDown(flags \ {"isWaitToPwrDwn"})
       \/ /\ Keep /\ ~Has("isWaitToPwrDwn")
          /\ Goes(AcqData([at EXCEPT !.conf = "MAX"],
                          IF Has("is1stRunOnMdmEmodem") THEN "CGSN" ELSE "COPS_1"),
                  ChannelNum, flags)

AcqArmed(s) == Armed("acqData") /\ at.acq = s

\* A recovery that the Listener cancels makes the engine start over.
Cancelled == Has("isTermRcvrNow")

StartsOver == Goes(Restart(at), ChannelNum, flags \ {"isTermRcvrNow"})

r_acqDataHdlr_CGSN ==
    /\ AcqArmed("CGSN") /\ Keep
    /\ Goes(AcqData(at, "COPS_1"), ChannelNum, flags)

r_acqDataHdlr_COPS_CREG_1 ==
    /\ AcqArmed("COPS_1") /\ Keep
    /\ IF Cancelled THEN StartsOver ELSE Goes(AcqData(at, "CREG_2"), ChannelNum, flags)

\* The location; the modem may have lost its registration in the meantime.
r_acqDataHdlr_CREG_2 ==
    LET registered == [at EXCEPT !.chk = "MAX"] IN
    /\ AcqArmed("CREG_2")
    /\ \/ Happens("bad") /\ Goes(Restart(at), ChannelNum, flags)
       \/ /\ Keep
          /\ IF Cancelled THEN StartsOver
             ELSE Goes(AcqData(registered, "CREG_3"), ChannelNum, flags)

\* Mutant: the IMSI is not asked for.
r_acqDataHdlr_CREG_3_not_asked ==
    /\ AcqArmed("CREG_3") /\ Keep
    /\ IF Cancelled THEN StartsOver ELSE Goes(Unarmed(at), ChannelNum, flags)

\* The IMSI is asked of mdmImodem by the Sender thread; nothing is armed meanwhile.
r_acqDataHdlr_CREG_3 ==
    /\ AcqArmed("CREG_3") /\ Keep
    /\ IF Cancelled THEN StartsOver
       ELSE Goes(Unarmed(at), ChannelNum, flags \union {"acq_imsi"})

NetSteps ==
    \/ r_checkNetHdlr_IDLE \/ r_checkNetHdlr_CSQ \/ r_checkNetHdlr_CGREG
    \/ r_uartConfigHdlr
    \/ r_acqDataHdlr_CGSN \/ r_acqDataHdlr_COPS_CREG_1
    \/ r_acqDataHdlr_CREG_2 \/ r_acqDataHdlr_CREG_3

=============================================================================
