---------------------------- MODULE EmodemLink ------------------------------
(***************************************************************************)
(* The complete behaviour of mdmEmodem's connection: EvtLoop with its AT   *)
(* engine, its requests and its timers, and the threads around it; and     *)
(* what is expected of it.                                                 *)
(***************************************************************************)
EXTENDS EmodemReq, FiniteSets

EngineSteps == NetSteps \/ ConnSteps \/ XferSteps \/ SuspSteps

Next ==
    \/ (EngineSteps \/ TimerSteps \/ ThreadSteps \/ ListenerActions) /\ UNCHANGED req
    \/ process_events /\ Keep
    \/ ServeSteps /\ Keep

Spec == Init /\ [][Next]_vars

\* The modem answers what it is asked, a bounded number of times badly; EvtLoop
\* gets round to the requests of its pipe, to the idle timer and to the timer of
\* the power-off; the other threads finish what they have begun.  The timers of
\* a silent server are not fair: the server may always answer first.
Fairness ==
    /\ WF_vars(EngineSteps /\ UNCHANGED req)
    /\ WF_vars(process_events /\ Keep)
    /\ WF_vars(ServeSteps /\ Keep)
    /\ WF_vars(Idle_Timer_timeout_cb /\ UNCHANGED req)
    /\ WF_vars(power_down_notification_timeout_cb /\ UNCHANGED req)
    /\ WF_vars(MsgLoop_POWER_DOWN_REQ_locked /\ UNCHANGED req)
    /\ WF_vars(Sender_ACQ_IMSI /\ UNCHANGED req)
    /\ WF_vars(Sender_DEL_SIMDATA /\ UNCHANGED req)
    /\ WF_vars(ListenerStep /\ UNCHANGED req)

FairSpec == Spec /\ Fairness

----------------------------------------------------------------------------
(* What no fault and no interleaving may break.                            *)

\* The box is powered down, or the server is told so, only once MsgLoop was asked
\* to: the flags that lead there pass through a dozen handlers.
PowersDownOnlyWhenAsked ==
    \/ {"shutdown", "isNeedToSendOutReq0x65", "isPwrDwnRspAcq"} \intersect flags # {}
    \/ flow = "PWR_DOWN"
    => Has("isFTMPowerOffInd")

\* The server is told of a power-off once, unless MsgLoop is asked for it again: when
\* the notice is being sent no handler that connects has still to send it.
PowerOffToldOnce ==
    ~(Has("isNeedToSendOutReq0x65") /\ flow = "PWR_DOWN") \/ Has("asked_again")

\* Both of it: the power-off, whose flags are set, looked at and handed on in a dozen
\* handlers, is neither invented nor repeated.
PowerOffInOrder == PowersDownOnlyWhenAsked /\ PowerOffToldOnce

\* mdmImodem takes over (ChannelNum 1) only from a suspension whose connection
\* has been closed.
HandsOverAfterClosing ==
    [][ChannelNum' = 1 /\ ChannelNum # 1 =>
          ChannelNum = 2 /\ at.cb = "suspend" /\ ~at.link]_vars

Queued(n) == Cardinality({i \in DOMAIN queue : queue[i] = n})

\* A queued request leaves the queue to be transmitted.  Only APDUs may be
\* dropped, when the USIM that they are for is off, replaced or removed.
RequestsKept ==
    [][/\ \A n \in {"ID", "RUIM"} :
             Queued(n)' < Queued(n) => flow' = n /\ at'.acq = "CIPSEND_1"
       /\ Queued("APDU")' < Queued("APDU") =>
             \/ flow' = "APDU" /\ at'.acq = "CIPSEND_1"
             \/ Has("isUimPwrDwn")
             \/ at.acq = "RECVING" /\ flow = "ID"
             \/ flow' = "RUIM"
             \/ Has("del_simdata") /\ ~Has("del_simdata")']_vars

----------------------------------------------------------------------------
(* What holds as long as nothing fails (each run names what may happen).   *)

\* mdmImodem has no network link.
OnItsOwn == ~Has("isMifiConnected")

\* Every handler leaves ChannelLock unlocked, on every way out, until the box is
\* shut down.
LockReleased == OnItsOwn => ChannelLock = "free" \/ Has("shutdown")

Transmitting == at.cb = "acqData"
                /\ at.acq \in {"CIPSEND_1", "CIPSEND_2", "RECVING", "CATR_1", "CATR_2"}

\* "When app send data by network link of mdmEmodem, ChannelNum must be 0 or 3", and
\* there is a connection to send on.
SendsOnOpenLink ==
    OnItsOwn /\ EvtLoopRuns /\ Transmitting => ChannelNum \in Connected /\ at.link

\* "Once ChannelNum has been set -1, a recovering process should be on work": the
\* engine is busy or closing, or a thread has asked, or is about to ask, for a recovery.
RecoveryAtWork ==
    EvtLoopRuns /\ ChannelNum \in Unconnected /\ req = NoRequest =>
        \/ mdmEmodem_check_busy
        \/ at.cb = "suspend"
        \/ \E i \in DOMAIN evtloop_pipe : evtloop_pipe[i].kind = "0x02"
        \/ listener # <<>>

\* mdmEmodem_check_busy(): "1: mdmEmodem is busy. 0: mdmEmodem is idle."  An engine
\* that waits for something to do is not busy, or nothing is ever asked of it.
WaitingIsIdle ==
    EvtLoopRuns /\ Running /\ at.cb = "acqData" /\ at.acq = "WAITING" => ~mdmEmodem_check_busy

IdleOnItsOwn == OnItsOwn => WaitingIsIdle

\* The answer to an ID is awaited only while the ID is being transmitted.
AnswerAwaited ==
    EvtLoopRuns /\ "id_rsp" \in timers /\ ~Has("isFTMPowerOffInd") =>
        flow = "ID" /\ at.cb = "acqData" /\ at.acq \in {"CIPSEND_1", "CIPSEND_2", "RECVING"}

\* ChannelNum 2: "mdmEmodem is being suspended."
SuspensionAtWork == EvtLoopRuns /\ ChannelNum = 2 => at.cb = "suspend"

\* ChannelNum 1: "mdmImodem is available for its network link."
ImodemTakesOver == EvtLoopRuns /\ ChannelNum = 1 => Has("isMifiConnected")

\* While mdmImodem serves, mdmEmodem is suspended: a request resumes it.
HandedOverIsStopped == EvtLoopRuns /\ ChannelNum = 1 => ~Running

\* An engine that waits has no suspension left to do.
NoSuspensionForgotten ==
    EvtLoopRuns /\ at.cb = "acqData" /\ ~mdmEmodem_check_busy => ~Has("isWaitToSusp")

\* What the comments say of ChannelNum, which half a dozen threads set, is true of the
\* engine and of mdmImodem, whatever its value.
ChannelAsDocumented == RecoveryAtWork /\ SuspensionAtWork /\ ImodemTakesOver /\ HandedOverIsStopped

\* No timer outlives what it guards, and nothing that was put off until the engine is
\* idle is left when it is.
NothingLeftBehind == AnswerAwaited /\ NoSuspensionForgotten /\ IdleOnItsOwn

\* A box without connection connects (or hands over, or is shut down).
Connects == ChannelNum \in Unconnected ~>
                ChannelNum \notin Unconnected \/ ChannelLock = "lost" \/ Has("shutdown")

\* A suspension comes to its end.
SuspensionEnds == ChannelNum = 2 ~> ChannelNum # 2 \/ ChannelLock = "lost"

\* A power-off comes to its end, whatever mdmEmodem is doing, and with its connection
\* closed.
ShutsDown == Has("isFTMPowerOffInd") ~> Has("shutdown") /\ ~at.link

----------------------------------------------------------------------------
(* The inductive invariant behind what nothing may break.                  *)

\* What a power-off that was asked for has become, until the notice is being sent.
Due == {"power_off_req", "isWaitToPwrDwn", "isNeedToSendOutReq0x65"}

\* It, and what becomes of it then.
Ending == Due \union {"isPwrDwnRspAcq", "shutdown"}

BeingTold == flow = "PWR_DOWN" \/ \E i \in DOMAIN queue : queue[i] = "PWR_DOWN"

\* Whatever leads to a power-off comes from one that MsgLoop was asked for.
AskedInv ==
    Ending \intersect flags # {} \/ BeingTold \/ "power_down" \in timers
    => Has("isFTMPowerOffInd")

\* It is handed on from one handler to the next.
OnceInv ==
    ~Has("asked_again") =>
        /\ \A d, e \in Due \intersect flags : d = e
        /\ BeingTold => Due \intersect flags = {}

\* There is a request to transmit, or an answer to await.
Sending == {"CIPSEND_1", "CIPSEND_2", "RECVING", "CATR_1"}

RequestInv == flow = "IDLE" => at.acq \notin Sending /\ "id_rsp" \notin timers

\* A connection is being closed only once it is not open any more.
ClosedInv == at.cb = "suspend" => ~at.link

IInv == TypeOK /\ AskedInv /\ OnceInv /\ RequestInv /\ ClosedInv

=============================================================================
