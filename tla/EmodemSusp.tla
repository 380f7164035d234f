----------------------------- MODULE EmodemSusp -----------------------------
(***************************************************************************)
(* mdmEmodem closes the connection: the suspend state machine.  It closes  *)
(* in order to hand over to mdmImodem (ChannelNum 2, then 1), to recover   *)
(* the connection (-1 or 4), or after the answer to the power-off notice.  *)
(* What the connection is closed for is decided again, from the flags, at  *)
(* the end of each of the two states.                                      *)
(***************************************************************************)
EXTENDS EmodemXfer

SuspArmed(s) == Armed("suspend") /\ at.susp = s

\* A power-off found pending: the suspension, if it is one, becomes a recovery,
\* to tell the server.
PowerOffFound == Has("isWaitToPwrDwn")

ChannelTold == IF PowerOffFound THEN -1 ELSE ChannelNum

FlagsTold ==
    IF ~PowerOffFound THEN flags
    ELSE (flags \ ({"isWaitToPwrDwn"}
                   \union IF ChannelNum \in {2, 4} THEN {"isMifiConnected"} ELSE {}))
         \union {"isNeedToSendOutReq0x65"}
         \union IF ChannelNum = 2 THEN {"RcvrMdmEmodemConn"} ELSE {}

PowerOffMisplaced == PowerOffFound /\ ChannelNum \notin {-1, 2, 4}

Closed == [at EXCEPT !.susp = "MAX"]

\* Mutant: the channel is not handed over.
HandsOver_not(c, f) ==
    IF c \in {-1, 2} THEN Waits(Closed, c, f \ {"isMdmEmodemRunning"}) ELSE Leaks

\* mdmEmodem is suspended; a recovery that was only asked to stop ends here too.
HandsOver(c, f) ==
    IF c \in {-1, 2}
    THEN Waits(Closed, IF c = 2 THEN 1 ELSE c, f \ {"isMdmEmodemRunning"})
    ELSE Leaks

\* The suspension is cancelled; so the connection is needed.
ChannelAfterSuspension(f) == IF "isRegOn" \in f THEN 4 ELSE -1

Reasons == {"isRegOffForPoorSig", "RcvrMdmEmodemConn", "isServConnClosed"}

\* The connection is closed; the network connection follows, but for a
\* suspension, which leaves it to mdmEmodem itself.
SocketClosed(c, f) ==
    LET g == IF "isTermRcvrNow" \in f THEN (f \ {"isTermRcvrNow"}) \union {"RcvrMdmEmodemConn"}
             ELSE f
    IN IF c = 2 \/ (c = -1 /\ g \cap Reasons = {}) THEN HandsOver(c, g)
       ELSE Suspends(at, "NETCLOSE", c, g)

SocketClosedNotSuspending(c, f) ==
    IF c # 2 THEN Leaks
    ELSE LET d == ChannelAfterSuspension(f)
             g == f \ {"isTermSuspNow", "RcvrMdmEmodemConnWhenSuspTerm"}
         IN IF "RcvrMdmEmodemConnWhenSuspTerm" \notin f
            THEN Goes(AcqData([at EXCEPT !.susp = "IDLE"], "CIPOPEN_REQ"), d, g)
            ELSE SocketClosed(d, g \union {"RcvrMdmEmodemConn"})

\* The OK that answers AT is not enough for the handler, which waits for the
\* report of AT+CIPCLOSE: it is not a step.
r_suspendMdmHdlr_CIPCLOSE ==
    LET c == ChannelTold
        f == FlagsTold
    IN
    /\ SuspArmed("CIPCLOSE") \/ SuspArmed("CIPCLOSE_AT")
    /\ \/ /\ Happens("lost")              \* the network went first
          /\ CASE ChannelNum \in Unconnected ->
                     Goes(CheckNet(Closed, "CSQ"), ChannelNum,
                          flags \ (Reasons \union {"isTermRcvrNow"}))
               [] ChannelNum = 2 /\ Has("isTermSuspNow") ->
                     Goes(CheckNet(Closed, "CSQ"), 1,
                          flags \ {"isTermSuspNow", "RcvrMdmEmodemConnWhenSuspTerm"})
               [] ChannelNum = 2 /\ ~Has("isTermSuspNow") ->
                     Waits(Closed, 1, flags \ {"isMdmEmodemRunning"})
               [] OTHER -> Leaks
       \/ /\ at.susp = "CIPCLOSE" /\ Happens("bad") /\ ~PowerOffMisplaced
          /\ Suspends(at, "CIPCLOSE", c, f)
       \/ /\ at.susp = "CIPCLOSE" /\ Keep
          /\ IF PowerOffMisplaced THEN Leaks
             ELSE IF "isPwrDwnRspAcq" \in f THEN PowersDown(f)
             ELSE IF {"isTermSuspNow", "isTermRcvrNow"} \subseteq f THEN Goes(Unarmed(at), c, f)
             ELSE IF "isTermSuspNow" \in f THEN SocketClosedNotSuspending(c, f)
             ELSE SocketClosed(c, f)

----------------------------------------------------------------------------
\* Once the server refused the box, a poor signal of mdmImodem is forgotten.
Forgets(f) ==
    IF "g_closesocket_F9" \in f THEN f \ {"g_closesocket_F9", "isRegOffForPoorSig"} ELSE f

\* The network check starts over, to recover the connection.
NetClosed(c, h) ==
    LET f == IF {"isTermSuspNow", "isTermRcvrNow"} \subseteq h THEN h ELSE Forgets(h) IN
    CASE {"isTermSuspNow", "isTermRcvrNow"} \subseteq f -> Goes(Unarmed(at), c, f)
      [] f \cap (Reasons \union {"isTermSuspNow", "isTermRcvrNow"}) = {} -> HandsOver(c, f)
      [] "isTermSuspNow" \in f /\ "isTermRcvrNow" \notin f ->
            IF c # 2 THEN Leaks
            ELSE Goes(CheckNet(Closed, "CSQ"), ChannelAfterSuspension(f),
                      f \ {"isTermSuspNow", "RcvrMdmEmodemConnWhenSuspTerm"})
      [] "isTermSuspNow" \notin f /\ "isRegOffForPoorSig" \in f ->
            Goes(CheckNet(Closed, "CSQ"), -1,
                 f \ {"isTermRcvrNow", "RcvrMdmEmodemConn", "isServConnClosed"})
      [] f \cap {"isTermSuspNow", "isRegOffForPoorSig"} = {} /\ "RcvrMdmEmodemConn" \in f ->
            Goes(CheckNet(Closed, "CSQ"), c,
                 f \ {"isTermRcvrNow", "RcvrMdmEmodemConn", "isServConnClosed"})
      [] f \cap {"isTermSuspNow", "isRegOffForPoorSig", "RcvrMdmEmodemConn"} = {}
         /\ "isServConnClosed" \in f ->
            Goes(CheckNet(Closed, "CSQ"), c, f \ {"isServConnClosed"})
      [] OTHER -> Goes(Unarmed(at), c, f)

\* With the network gone already the handler returns, and arms nothing.  The
\* ERROR after a +NETCLOSE: 9 goes to CIPCLOSE before the power-off is looked for.
r_suspendMdmHdlr_NETCLOSE ==
    /\ SuspArmed("NETCLOSE")
    /\ \/ Happens("lost") /\ Goes(Unarmed(at), ChannelNum, flags)
       \/ /\ Happens("bad")
          /\ \/ IF PowerOffMisplaced THEN Leaks
                ELSE \E s \in {"CIPCLOSE", "NETCLOSE"} : Suspends(at, s, ChannelTold, FlagsTold)
             \/ Suspends(at, "CIPCLOSE", ChannelNum, flags)
       \/ /\ Keep
          /\ IF PowerOffMisplaced THEN Leaks ELSE NetClosed(ChannelTold, FlagsTold)

SuspSteps == r_suspendMdmHdlr_CIPCLOSE \/ r_suspendMdmHdlr_NETCLOSE

=============================================================================
