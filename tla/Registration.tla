---------------------------- MODULE Registration ----------------------------
(***************************************************************************)
(* The Listener thread: urc_parse_hdlr() reads what mdmImodem reports of   *)
(* its registration, drives the state machine of reg_urc_state, takes the  *)
(* traffic back to mdmEmodem, and resets the virtual USIM, which EvtLoop   *)
(* powers up again once the server has answered.                           *)
(***************************************************************************)
EXTENDS Integers, Sequences

CONSTANTS
    Cases,              \* what may happen: one of these
    MAX_URC_ARRAY_LEN,
    CHAR_REPORTS        \* so many reports are no more bytes than a char counts

Rejections == {"REJ_V01", "REJ_V02", "REJ_V04"}
Losses == {"FAIL", "SEARCHING", "REJ_V03", "CARD_ERROR"} \union Rejections
Specials == {"NOT_AVAILABLE", "SESSION_ILLEGAL"}

ASSUME RegistrationAssumption ==
    /\ \A c \in Cases :
        /\ c.says \subseteq Losses \union Specials \union {"SYS_MODE", "OTHER"}
                                        \* what mdmImodem may report of itself,
        /\ c.urcs \in Nat               \* how many times (a bound)
        /\ c.timeouts \in Nat           \* how many APDUs may time out (a bound)
        /\ c.cuts \in BOOLEAN           \* whether a read may end within a report
        /\ c.late \in BOOLEAN           \* whether it reports until its USIM has no power
        /\ c.good_signal \in BOOLEAN    \* whether the signal may be good when it reports FAIL
        /\ c.slow_server \in BOOLEAN    \* whether the server answers only after that
    /\ MAX_URC_ARRAY_LEN \in Nat \ {0}
    /\ CHAR_REPORTS \in Nat \ {0}

VARIABLES
    modem,              \* mdmImodem: its USIM's power, whether it is registered
    wire,               \* its reports that were not read
    urc_fragment,       \* the first part of a report, or "none"
    URC_array,          \* the reports of the last read
    reg_urc_state,
    ChannelNum,
    resume,             \* whether EvtLoop is asked to recover mdmEmodem
    flags,              \* the global flags that are set
    pc,                 \* what each of the two threads is doing
    uim_sender,         \* whether UimSender is asked to reset the USIM
    isUimRstOperCplt,
    left                \* what may happen, and what of it may still come

vars == <<modem, wire, urc_fragment, URC_array, reg_urc_state,
          ChannelNum, resume, flags, pc, uim_sender, isUimRstOperCplt, left>>

\* One of Cases.
may == left.may

States == {"IDLE", "CARD_READY", "CARD_ERROR", "REGISTERED", "NOT_REGISTERED", "FAIL",
           "REJECTED", "REJECTED_15", "REJECTED_111"}
Lines == may.says \union {"REG", "CARD_READY", "NOT_AVAILABLE", "REST", "OTHER",
                          "FAIL", "CARD_ERROR"}
Flags == {"isRegOn", "isMifiConnected", "isRstingUsim", "isUimPwrDwn", "not_available_mark",
          "isSessIllegalRecved", "PowerUpUsimAfterRecvingUrcRpt", "isEnableManualApdu",
          "isRegOffForPoorSig", "isAutoReprotPowerDown", "isTermSuspNow", "isTermRcvrNow",
          "isNeedToSendIDMsg"}

Has(f) == f \in flags

TypeOK ==
    /\ modem \in [power : {"on", "going_down", "off"}, registered : BOOLEAN]
    /\ wire \in Seq(Lines) /\ URC_array \in Seq(Lines \ {"REST"})
    /\ Len(URC_array) <= MAX_URC_ARRAY_LEN
    /\ urc_fragment \in (Lines \ {"REST"}) \union {"none"}
    /\ reg_urc_state \in States
    /\ ChannelNum \in -1..4 /\ resume \in BOOLEAN /\ flags \subseteq Flags
    /\ pc \in [Listener : {"select", "reset_uim", "session_illegal", "rebooted"},
              EvtLoop : {"loop", "reset_uim", "timed_out"},
              then : SUBSET {"id", "report", "resume"}]
    /\ uim_sender \in BOOLEAN /\ isUimRstOperCplt \in BOOLEAN
    /\ left \in [may : Cases, urcs : 0..may.urcs, timeouts : 0..may.timeouts]

Init ==
    /\ modem = [power |-> "on", registered |-> FALSE]
    /\ wire = <<"CARD_READY">>
    /\ urc_fragment = "none" /\ URC_array = <<>>
    /\ reg_urc_state = "IDLE"
    /\ ChannelNum = 0 /\ resume = FALSE /\ flags = {}
    /\ pc = [Listener |-> "select", EvtLoop |-> "loop", then |-> {}]
    /\ uim_sender = FALSE /\ isUimRstOperCplt = FALSE
    /\ left \in {[may |-> c, urcs |-> c.urcs, timeouts |-> c.timeouts] : c \in Cases}

-----------------------------------------------------------------------------
(* mdmImodem.                                                              *)

\* The reports that make the Listener reset the USIM.
Fatal == {"CARD_ERROR", "REJ_V01", "SESSION_ILLEGAL"}
         \union IF may.good_signal THEN {} ELSE {"FAIL"}

\* Unless late, it has nothing more to say once its USIM has to be reset.
MayReport ==
    \/ may.late /\ modem.power # "off"
    \/ /\ modem.power = "on" /\ ~Has("isRstingUsim")
       /\ \A i \in DOMAIN wire : wire[i] \notin Fatal
       /\ urc_fragment \notin Fatal

Says(line, m) ==
    /\ wire' = Append(wire, line) /\ modem' = m
    /\ UNCHANGED <<urc_fragment, URC_array, reg_urc_state, ChannelNum,
                   resume, flags, pc, uim_sender, isUimRstOperCplt>>

Registers ==
    /\ MayReport /\ ~modem.registered
    /\ Says("REG", [modem EXCEPT !.registered = TRUE])
    /\ UNCHANGED left

\* A modem whose card loses its power says so, and is off.
Reports ==
    /\ MayReport /\ left.urcs > 0
    /\ left' = [left EXCEPT !.urcs = @ - 1]
    /\ \E u \in may.says :
          Says(u, [power |-> IF u = "NOT_AVAILABLE" THEN "off" ELSE modem.power,
                   registered |-> modem.registered /\ u \in {"SYS_MODE", "OTHER"}])

PowersDown ==
    /\ modem.power = "going_down"
    /\ Says("NOT_AVAILABLE", [power |-> "off", registered |-> FALSE])
    /\ UNCHANGED left

-----------------------------------------------------------------------------
(* The reports that are read.                                              *)

\* Mutant: the rest of a line is a line.
LinesOf_rest(n, cut) == SubSeq(wire, 1, IF cut THEN n - 1 ELSE n)

\* The lines of n reports, the last of which is complete unless cut.
LinesOf(n, cut) ==
    [i \in 1..(IF cut THEN n - 1 ELSE n) |->
        IF wire[i] # "REST" THEN wire[i]
        ELSE IF urc_fragment # "none" THEN urc_fragment ELSE "OTHER"]

\* Mutant: the array is not initialised.
Kept_always == URC_array

\* What is in URC_array is forgotten unless a fragment waits for its rest.
Kept == IF urc_fragment = "none" THEN <<>> ELSE URC_array

\* What is found in a read whose bytes are counted to the end.
Counted(n, cut) ==
    LET all == Kept \o LinesOf(n, cut) IN
    [lines |-> SubSeq(all, 1, IF Len(all) > MAX_URC_ARRAY_LEN THEN MAX_URC_ARRAY_LEN
                              ELSE Len(all)),
     full |-> Len(all) > MAX_URC_ARRAY_LEN]

\* What the first part of a report may be taken for: an empty value is 0, and a card that
\* is not said to be ready is not.
Misread(u) ==
    {u, "OTHER"} \union (IF u \in {"REG", "SEARCHING", "REJ_V03"} THEN {"FAIL"} ELSE {})
                 \union (IF u = "CARD_READY" THEN {"CARD_ERROR"} ELSE {})

\* What is found when they are not: the first part of a report is one, and what lies
\* behind the read fills the array.
Overrun(n, cut) ==
    {LET all == Kept \o LinesOf(n, cut) \o <<u>> IN
     [lines |-> [i \in 1..MAX_URC_ARRAY_LEN |-> IF i <= Len(all) THEN all[i] ELSE "OTHER"],
      full |-> TRUE] : u \in IF cut THEN Misread(wire[n]) ELSE {"OTHER"}}

\* What n reports may come to: the bytes are counted in a char.
parse_raw_URC_data(n, cut) ==
    {Counted(n, cut)} \union (IF n > CHAR_REPORTS THEN Overrun(n, cut) ELSE {})

\* The fragment after the read: a full array leaves no room for the one there is.
Fragment(n, cut, full) ==
    IF full THEN IF Len(Kept) = MAX_URC_ARRAY_LEN THEN urc_fragment ELSE "none"
    ELSE IF cut THEN wire[n] ELSE "none"

-----------------------------------------------------------------------------
(* The state machine.                                                      *)

\* Mutant: a registration after the rejection with cause 15 is not looked for.
NextState_not_15(u, s) ==
    CASE u = "REG" /\ s \in {"CARD_READY", "FAIL", "REJECTED_111", "NOT_REGISTERED"} ->
            "REGISTERED"
      [] u = "CARD_READY" /\ s = "IDLE" -> "CARD_READY"
      [] u = "REJ_V01" /\ s # "CARD_ERROR" -> "REJECTED"
      [] u = "REJ_V02" /\ s \notin {"REJECTED", "CARD_ERROR"} -> "REJECTED_15"
      [] OTHER -> s

\* What a report makes of the state.
NextState(u, s) ==
    CASE u = "REG" /\ s \in {"CARD_READY", "FAIL", "REJECTED_111", "NOT_REGISTERED",
                             "REJECTED_15"} -> "REGISTERED"
      [] u = "CARD_ERROR" -> "CARD_ERROR"
      [] u = "CARD_READY" /\ s = "IDLE" -> "CARD_READY"
      [] u = "FAIL" /\ s \in {"CARD_READY", "REGISTERED", "NOT_REGISTERED"} -> "FAIL"
      [] u = "REJ_V01" /\ s # "CARD_ERROR" -> "REJECTED"
      [] u = "REJ_V02" /\ s \notin {"REJECTED", "CARD_ERROR"} -> "REJECTED_15"
      [] u = "REJ_V04" /\ s \notin {"REJECTED", "CARD_ERROR"} -> "REJECTED_111"
      [] u \in {"REJ_V03", "SEARCHING"} /\ s = "REGISTERED" -> "NOT_REGISTERED"
      [] OTHER -> s

\* The traffic goes back to mdmEmodem: r is what has been decided so far.
Released(r) ==
    CASE r.c = 1 -> [r EXCEPT !.resume = TRUE]
      [] r.c = 2 -> [r EXCEPT !.flags = @ \union {"isTermSuspNow"}]
      [] r.c = 3 -> [r EXCEPT !.c = 0]
      [] r.c = 4 -> [r EXCEPT !.c = -1]
      [] OTHER -> r

\* The same when mdmEmodem's own connection may be lost as well.
Doubted(r, was) ==
    LET s == Released(r) IN
    CASE r.c \in {0, 3} /\ was -> [s EXCEPT !.resume = TRUE]
      [] r.c = 4 \/ (r.c = -1 /\ was) -> [s EXCEPT !.flags = @ \union {"isTermRcvrNow"}]
      [] OTHER -> s

LosesIsRegOn(u, s) == u \in Losses /\ ~(u = "REJ_V02" /\ s = "REJECTED")

\* get_dev_and_net_info_for_status_report_session(), which asks mdmImodem.
Reported(f) == IF modem.registered THEN f \union {"isRegOn"}
               ELSE f \ {"isRegOn", "isMifiConnected"}

\* One report, unless the batch has ended with a rejection or an error before it.
process_URC(r, u) ==
    LET s == NextState(u, r.state)
        f == IF u = "REG" THEN r.flags \union {"isRegOn"}
             ELSE IF LosesIsRegOn(u, r.state) THEN r.flags \ {"isRegOn", "isMifiConnected"}
             ELSE IF u = "CARD_READY" /\ r.state = "IDLE" THEN Reported(r.flags)
             ELSE r.flags
        q == [r EXCEPT !.state = s, !.flags = f, !.stop = u \in {"CARD_ERROR", "REJ_V01"},
                       !.mode = @ \/ u = "SYS_MODE"]
    IN
    IF r.stop THEN r
    ELSE CASE u = "REJ_V03" -> Released(q)
           [] u = "SEARCHING" -> Doubted(q, reg_urc_state = "REGISTERED")
           [] OTHER -> q

process_URC_array_v01(lines, f) ==
    LET after[k \in 0..Len(lines)] ==
            IF k = 0
            THEN [state |-> reg_urc_state, flags |-> f, c |-> ChannelNum, resume |-> FALSE,
                  stop |-> FALSE, mode |-> FALSE, reset |-> FALSE, then |-> {}]
            ELSE process_URC(after[k - 1], lines[k])
    IN  after[Len(lines)]

\* What the handler does at its end, after the reset of the USIM if there is one.
AtTheEnd(f, then) ==
    LET g == IF "id" \in then THEN f \union {"isNeedToSendIDMsg"} ELSE f IN
    IF "report" \in then /\ "isEnableManualApdu" \notin g THEN Reported(g) ELSE g

\* Mutant: the state is not reset with the USIM.
ResetsUsim_not_idle(r, then) ==
    IF "isRstingUsim" \in r.flags THEN [r EXCEPT !.flags = AtTheEnd(@, then)]
    ELSE [r EXCEPT !.reset = TRUE, !.then = then, !.flags = @ \union {"isRstingUsim"}]

\* The USIM is reset, unless that is being done.
ResetsUsim(r, then) ==
    IF "isRstingUsim" \in r.flags THEN [r EXCEPT !.flags = AtTheEnd(@, then)]
    ELSE [r EXCEPT !.reset = TRUE, !.then = then, !.state = "IDLE",
                   !.flags = @ \union {"isRstingUsim"}]

Rejected(r) ==
    ResetsUsim(Released([r EXCEPT !.flags = @ \ {"isMifiConnected"}]), {"id", "report"})

\* No network: mdmImodem may tell why, or the signal may be good after all.
handle_FAIL(r) ==
    LET poor == Reported(r.flags \union {"isRegOffForPoorSig", "isNeedToSendIDMsg"}) IN
    {Rejected([r EXCEPT !.state = "REJECTED"]), Released([r EXCEPT !.state = "REJECTED_15"]),
     ResetsUsim(Doubted([r EXCEPT !.flags = poor], TRUE), {})}
    \union IF may.good_signal THEN {[r EXCEPT !.state = reg_urc_state]} ELSE {}

handle_reg_urc_state_var(r) ==
    IF r.state = reg_urc_state THEN {r}
    ELSE CASE r.state \in {"CARD_ERROR", "REJECTED"} -> {Rejected(r)}
           [] r.state = "REGISTERED" -> {[r EXCEPT !.flags = Reported(@)]}
           [] r.state \in {"REJECTED_15", "REJECTED_111"} -> {Released(r)}
           [] r.state = "FAIL" -> handle_FAIL(r)
           [] OTHER -> {r}

need_to_upload_stat_inf(r) ==
    IF r.mode /\ "isRegOn" \in r.flags /\ ~r.reset THEN Reported(r.flags) ELSE r.flags

-----------------------------------------------------------------------------
(* The Listener.                                                           *)

Ignored(f, fragment) ==
    /\ flags' = f /\ urc_fragment' = fragment
    /\ UNCHANGED <<reg_urc_state, ChannelNum, resume, pc, uim_sender>>

Reboots ==
    /\ pc' = [pc EXCEPT !.Listener = "rebooted"]
    /\ UNCHANGED <<flags, urc_fragment, reg_urc_state, ChannelNum, resume, uim_sender>>

NotAvailable(f) ==
    (f \union {"isUimPwrDwn"})
    \ (IF "PowerUpUsimAfterRecvingUrcRpt" \in f
       THEN {"PowerUpUsimAfterRecvingUrcRpt", "not_available_mark"} ELSE {})

SessionIllegal(f) ==
    /\ pc' = [pc EXCEPT !.Listener = "session_illegal", !.then = {"id", "resume"}]
    /\ flags' = f \union {"isRstingUsim"}
    /\ urc_fragment' = "none"
    /\ reg_urc_state' = "IDLE"
    /\ uim_sender' = TRUE
    /\ UNCHANGED <<ChannelNum, resume>>

\* What the reports amount to, once the special ones have been looked for.
Handled(lines, f, fragment) ==
    LET p == process_URC_array_v01(lines, f)
        resumes(r) == IF r.resume THEN {"resume"} ELSE {}
    IN
    \E r \in handle_reg_urc_state_var(p) :
        /\ reg_urc_state' = r.state /\ ChannelNum' = r.c
        /\ flags' = need_to_upload_stat_inf(r)
        /\ urc_fragment' = fragment
        /\ pc' = IF r.reset THEN [pc EXCEPT !.Listener = "reset_uim",
                                            !.then = r.then \union resumes(r)]
                 ELSE pc
        /\ resume' = (resume \/ p.resume \/ (r.resume /\ ~r.reset))
        /\ uim_sender' = (uim_sender \/ r.reset)

Valid(u) == u \notin Specials \union {"OTHER"}

Ignores == Has("isUimPwrDwn") \/ Has("isEnableManualApdu")

\* check_valid_URC_array_elem() first looks for the special reports.
Checked(lines, fragment) ==
    LET Seen(u) == \E i \in DOMAIN lines : lines[i] = u
        f == IF Seen("NOT_AVAILABLE") THEN flags \union {"not_available_mark"} ELSE flags
        na == lines # <<>> /\ "not_available_mark" \in f
    IN
    CASE na /\ ~Has("isAutoReprotPowerDown") -> Reboots
      [] Seen("SESSION_ILLEGAL") /\ ~Has("isRstingUsim")
            /\ (na => Has("isAutoReprotPowerDown")) ->
            SessionIllegal(IF na THEN NotAvailable(f) \union {"isSessIllegalRecved"} ELSE f)
      [] na /\ Has("isAutoReprotPowerDown")
            /\ ~(Seen("SESSION_ILLEGAL") /\ ~Has("isRstingUsim")) ->
            Ignored(NotAvailable(f), "none")
      [] OTHER ->
            IF Has("isSessIllegalRecved") THEN Ignored(f \ {"isSessIllegalRecved"}, "none")
            ELSE IF Ignores THEN Ignored(f, "none")
            ELSE IF ~\E i \in DOMAIN lines : Valid(lines[i]) THEN Ignored(f, fragment)
            ELSE Handled(lines, f, fragment)

urc_parse_hdlr ==
    /\ pc.Listener = "select" /\ wire # <<>>
    /\ \E n \in 1..Len(wire), cut \in (IF may.cuts THEN BOOLEAN ELSE {FALSE}) :
        \E p \in parse_raw_URC_data(n, cut) :
        /\ cut => wire[n] # "REST"       \* a line comes in at most two parts
        /\ wire' = (IF cut THEN <<"REST">> ELSE <<>>) \o SubSeq(wire, n + 1, Len(wire))
        /\ URC_array' = p.lines
        /\ Checked(p.lines, Fragment(n, cut, p.full))
    /\ UNCHANGED <<modem, isUimRstOperCplt, left>>

\* UimSender has done the reset that the handler waits for.
UsimReset ==
    /\ pc.Listener \in {"reset_uim", "session_illegal"} /\ isUimRstOperCplt
    /\ isUimRstOperCplt' = FALSE
    /\ pc' = [pc EXCEPT !.Listener = "select", !.then = {}]
    /\ resume' = (resume \/ "resume" \in pc.then)
    /\ flags' = AtTheEnd(flags, pc.then)
    /\ UNCHANGED <<modem, wire, urc_fragment, URC_array, reg_urc_state, ChannelNum,
                   uim_sender, left>>

\* mdmImodem has dialled up, which it is told to do once it is registered.
mifi_status_hdlr ==
    /\ pc.Listener = "select" /\ modem.registered /\ ChannelNum = 0
    /\ reg_urc_state = "REGISTERED"
    /\ ChannelNum' = 3 /\ flags' = flags \union {"isMifiConnected"}
    /\ UNCHANGED <<modem, wire, urc_fragment, URC_array, reg_urc_state, resume, pc,
                   uim_sender, isUimRstOperCplt, left>>

-----------------------------------------------------------------------------
(* UimSender and EvtLoop.                                                  *)

UimSender ==
    /\ uim_sender
    /\ uim_sender' = FALSE /\ isUimRstOperCplt' = TRUE
    /\ modem' = IF modem.power = "on" THEN [modem EXCEPT !.power = "going_down"] ELSE modem
    /\ flags' = flags \union {"isAutoReprotPowerDown"}
    /\ UNCHANGED <<wire, urc_fragment, URC_array, reg_urc_state, ChannelNum, resume, pc, left>>

EvtLoopRuns == pc.EvtLoop = "loop" /\ pc.Listener # "rebooted"

\* An APDU was not answered in time: the modem gets a made-up answer, and the USIM
\* is reset, unless that is being done.
ApduRsp_timeout_ext_cb ==
    /\ EvtLoopRuns /\ left.timeouts > 0 /\ modem.power = "on" /\ ~Has("isUimPwrDwn")
    /\ ChannelNum # 1
    /\ left' = [left EXCEPT !.timeouts = @ - 1]
    /\ IF Has("isRegOffForPoorSig")
       THEN /\ flags' = flags \union {"isEnableManualApdu"}
            /\ UNCHANGED <<reg_urc_state, pc, uim_sender>>
       ELSE /\ flags' = flags \union {"isEnableManualApdu", "isRegOffForPoorSig",
                                      "isNeedToSendIDMsg", "isRstingUsim"}
            /\ reg_urc_state' = "FAIL"
            /\ uim_sender' = (uim_sender \/ ~Has("isRstingUsim"))
            /\ pc' = [pc EXCEPT !.EvtLoop = IF Has("isRstingUsim") THEN "timed_out" ELSE "reset_uim"]
    /\ UNCHANGED <<modem, wire, urc_fragment, URC_array, ChannelNum, resume, isUimRstOperCplt>>

\* Then mdmEmodem is recovered, or the USIM powered up as soon as it has no power.
AfterTimeout ==
    /\ \/ pc.EvtLoop = "timed_out" /\ UNCHANGED isUimRstOperCplt
       \/ pc.EvtLoop = "reset_uim" /\ isUimRstOperCplt /\ isUimRstOperCplt' = FALSE
    /\ pc' = [pc EXCEPT !.EvtLoop = "loop"]
    /\ ChannelNum' = CASE ChannelNum = 3 -> 0 [] ChannelNum = 4 -> -1 [] OTHER -> ChannelNum
    /\ IF ChannelNum \in {0, 3}
       THEN \/ resume' = TRUE /\ UNCHANGED flags
            \/ /\ flags' = IF Has("not_available_mark") THEN flags \ {"not_available_mark"}
                           ELSE flags \union {"PowerUpUsimAfterRecvingUrcRpt"}
               /\ UNCHANGED resume
       ELSE UNCHANGED <<flags, resume>>
    /\ UNCHANGED <<modem, wire, urc_fragment, URC_array, reg_urc_state, uim_sender, left>>

power_up_virtual_usim ==
    /\ flags' = flags \ {"isRstingUsim", "isUimPwrDwn", "not_available_mark",
                         "isEnableManualApdu", "isRegOffForPoorSig", "isNeedToSendIDMsg"}
    /\ modem' = [modem EXCEPT !.power = "on"]
    /\ wire' = IF modem.power = "on" THEN wire ELSE Append(wire, "CARD_READY")

\* The server has the ID, and has answered with the data of another USIM.
IdAnswered ==
    /\ EvtLoopRuns /\ Has("isNeedToSendIDMsg") /\ ~uim_sender /\ ChannelNum \in {0, 3}
    /\ may.slow_server => Has("isUimPwrDwn")
    /\ modem.power # "going_down"
    /\ IF Has("isUimPwrDwn") THEN power_up_virtual_usim
       ELSE flags' = flags \ {"isNeedToSendIDMsg"} /\ UNCHANGED <<modem, wire>>
    /\ UNCHANGED <<urc_fragment, URC_array, reg_urc_state, ChannelNum, resume, pc, uim_sender,
                   isUimRstOperCplt, left>>

EvtLoopMoves(c, f) ==
    /\ EvtLoopRuns
    /\ ChannelNum' = c /\ flags' = f
    /\ UNCHANGED <<modem, wire, urc_fragment, URC_array, reg_urc_state, pc, uim_sender,
                   isUimRstOperCplt, left>>

Resumes ==
    /\ resume /\ resume' = FALSE
    /\ EvtLoopMoves(IF ChannelNum = 2 THEN 2 ELSE -1,
                    IF ChannelNum = 2 THEN flags \union {"isTermSuspNow"} ELSE flags)

\* mdmEmodem is connected, unless the recovery is to start over.
Recovered ==
    /\ ~resume /\ UNCHANGED resume
    /\ \/ /\ ChannelNum = -1
          /\ IF Has("isTermRcvrNow") THEN EvtLoopMoves(-1, flags \ {"isTermRcvrNow"})
             ELSE EvtLoopMoves(0, IF Has("isRegOffForPoorSig") /\ ~Has("isUimPwrDwn")
                                  THEN flags \union {"PowerUpUsimAfterRecvingUrcRpt"} ELSE flags)
       \/ ChannelNum = 4 /\ EvtLoopMoves(3, flags)

\* The traffic goes to mdmImodem, or mdmEmodem is needed again.
HandsOver ==
    /\ ~resume /\ UNCHANGED resume
    /\ \/ ChannelNum = 3 /\ EvtLoopMoves(2, flags)
       \/ /\ ChannelNum = 2
          /\ EvtLoopMoves(IF Has("isTermSuspNow") THEN -1 ELSE 1, flags \ {"isTermSuspNow"})
       \/ ChannelNum = 1 /\ EvtLoopMoves(4, flags)

-----------------------------------------------------------------------------
Next ==
    \/ Registers \/ Reports \/ PowersDown
    \/ urc_parse_hdlr \/ UsimReset \/ mifi_status_hdlr
    \/ UimSender \/ ApduRsp_timeout_ext_cb \/ AfterTimeout
    \/ IdAnswered \/ Resumes \/ Recovered \/ HandsOver

Spec == Init /\ [][Next]_vars

-----------------------------------------------------------------------------
(* Properties.                                                             *)

\* Everything was read and handled, and the USIM has power.
Quiet ==
    /\ wire = <<>> /\ urc_fragment = "none" /\ modem.power = "on"
    /\ pc.Listener = "select" /\ pc.EvtLoop = "loop" /\ ~uim_sender
    /\ ~Has("isRstingUsim") /\ ~Has("isUimPwrDwn")

\* mdmImodem has nothing more to say once a report makes the Listener reset the USIM, and
\* its USIM loses its power only by that; every APDU was answered.
Silent == ~may.late /\ ~may.good_signal /\ "NOT_AVAILABLE" \notin may.says
Answered == left.timeouts = may.timeouts

\* A registration of mdmImodem does not pass unnoticed, whatever came before it.
RegistrationNoticed == Quiet /\ modem.registered /\ Silent => reg_urc_state = "REGISTERED"

\* Nor does the loss of one: mdmImodem does not count as registered, or dialled up.
LossNoticed ==
    Quiet /\ ~modem.registered /\ Silent /\ Answered => ~Has("isRegOn") /\ ~Has("isMifiConnected")

\* Then the traffic is not left with mdmImodem: mdmEmodem is connected, being
\* recovered, or asked to recover, or its suspension is to be given up.
TrafficTakenBack ==
    Quiet /\ ~modem.registered /\ Silent /\ Answered =>
        resume \/ ChannelNum \in {-1, 0} \/ (ChannelNum = 2 /\ Has("isTermSuspNow"))

\* What the Listener makes of the last report is what mdmImodem has become, whatever came
\* before it.
LastReportCounts == RegistrationNoticed /\ LossNoticed /\ TrafficTakenBack

\* "Once virt card has been powered down, reg_urc_state will be set IDLE."
IdleOncePoweredDown ==
    Has("isUimPwrDwn") /\ pc.EvtLoop = "loop" /\ Silent /\ Answered => reg_urc_state = "IDLE"

\* There is room in the array for all that was not handled, and in a char for the bytes.
Room == Len(Kept) + Len(wire) <= MAX_URC_ARRAY_LEN /\ Len(wire) <= CHAR_REPORTS

\* A read handles the reports it has taken from the port, as long as there is room: all
\* of them, as URC_buf_break_point "will point to the unread URC in the read buffer", and
\* none of those read before, unless it was the rest of a report.
HandledOnce ==
    [][Room /\ Len(wire') < Len(wire) =>
          /\ Len(URC_array') >= Len(wire) - Len(wire')
          /\ urc_fragment = "none" => Len(URC_array') = Len(wire) - Len(wire')]_<<wire, URC_array>>
=============================================================================
