----------------------------- MODULE UsimReset -----------------------------
(***************************************************************************)
(* The reset of the virtual USIM.  A thread that finds the USIM of no use  *)
(* has UimSender power it down; the modem reports so; the server is asked  *)
(* who the box is to be now; its answer lets Sender power the USIM up.     *)
(* EvtLoop, Listener, UimSender and Sender share pipes, condition          *)
(* variables, two locks and flags that no lock protects.  RstMonitor       *)
(* restarts the box when the USIM has been without power for three minutes.*)
(***************************************************************************)
EXTENDS Naturals, Sequences, FiniteSets

CONSTANT Cases      \* how often things may happen, and what may happen at a bad moment

Hastes == {"early",     \* the USIM loses its power before UimSender has armed RstMonitor
           "race",      \* two threads find at once that nobody resets the USIM
           "late",      \* a thread wakes up after the next reset has been asked for
           "overtaken", \* the USIM is reset again before Sender has done with it
           "stale",     \* it is powered up while Listener waits to mark it powered down
           "answered",  \* the server answers before Listener has read of the power-down
           "poor"}      \* Listener reads a report while EvtLoop, with pd_mtx, waits for it

ASSUME UsimResetAssumption ==
    Cases \subseteq [illegal : Nat, other : Nat, timeouts : Nat, poor : BOOLEAN, hasty : SUBSET Hastes]

VARIABLES
    modem,      \* whether the USIM has power, and whether it is to lose it
    urcs,       \* the reports that Listener has not read
    urc,        \* the one it handles
    flags,      \* the names of the boolean variables that are true
    pc,         \* where each thread is
    lock,       \* which thread holds ChannelLock and pd_mtx
    pipes,      \* what UimSender, Sender and Listener are asked, and how often
    rst_pipe,   \* the bytes for RstMonitor
    monitor,    \* "idle" or "armed", or how the process has ended
    server,     \* "connecting", "asked" or "no": whether an answer is to come
    left        \* what is left of the case

vars == <<modem, urcs, urc, flags, pc, lock, pipes, rst_pipe, monitor, server, left>>

Flags == {"isRstingUsim", "isUimRstOperCplt", "isUimPwrDwn", "isUimPwrDwnMssage",
          "isAutoReprotPowerDown", "MdmEmodemIsRcvrWhenSetPd", "PowerUpUsimAfterRecvingUrcRpt",
          "isUimActed", "isOnlineMode", "el_reqed", "isRegOffForPoorSig",
          "NOT_AVAILABLE"}      \* URC_special_mark_array[SPEC_URC_ARR_IDX_VIRT_USIM_PWR_DWN]

Threads == {"EvtLoop", "Listener", "UimSender", "Sender"}
Urcs == {"NOT_AVAILABLE", "SESSION_ILLEGAL", "OTHER"}
Ends == {"restarted", "rebooted"}

TypeOK ==
    /\ modem \in [usim : {"up", "down"}, todo : BOOLEAN]
    /\ urcs \in Seq(Urcs) /\ urc \in Urcs
    /\ flags \subseteq Flags
    /\ pc["EvtLoop"] \in {"wait", "test", "set", "await", "after", "upload_timed_out",
                          "recovered", "upload_recovered", "answer", "acting"}
    /\ pc["Listener"] \in {"wait", "pd_mtx", "checked", "test", "set", "await", "ChannelLock"}
    /\ pc["UimSender"] \in {"wait", "requested", "armed"}
    /\ pc["Sender"] \in {"wait", "power_up", "powered", "online"}
    /\ lock \in [{"ChannelLock", "pd_mtx"} -> {"free", "EvtLoop"}]
    /\ pipes \in [{"UimSender", "Sender", "Listener"} -> Nat]
    /\ rst_pipe \in Seq({0, 1})
    /\ monitor \in {"idle", "armed"} \union Ends
    /\ server \in {"no", "connecting", "asked"}

Has(f) == f \in flags
May(h) == h \in left.hasty
At(t, l) == pc[t] = l
Goes(t, l) == pc' = [pc EXCEPT ![t] = l]
Asks(t) == pipes' = [pipes EXCEPT ![t] = @ + 1]
Takes(t) == pipes[t] > 0 /\ pipes' = [pipes EXCEPT ![t] = @ - 1]
Locks(l) == lock[l] = "free" /\ lock' = [lock EXCEPT ![l] = "EvtLoop"]
Unlocks(l) == lock' = [lock EXCEPT ![l] = "free"]
Happens(c) == left[c] > 0 /\ left' = [left EXCEPT ![c] = @ - 1]

Init ==
    /\ left \in Cases
    /\ modem = [usim |-> "up", todo |-> FALSE]
    /\ urcs = <<>> /\ urc = "OTHER"
    /\ flags = {"isOnlineMode"} \union IF left.poor THEN {"isRegOffForPoorSig"} ELSE {}
    /\ pc = [t \in Threads |-> "wait"]
    /\ lock = [l \in {"ChannelLock", "pd_mtx"} |-> "free"]
    /\ pipes = [t \in {"UimSender", "Sender", "Listener"} |-> 0]
    /\ rst_pipe = <<>> /\ monitor = "idle" /\ server = "no"

-----------------------------------------------------------------------------
(* The modem.                                                              *)

PowersDown ==
    /\ modem.todo /\ (May("early") \/ ~At("UimSender", "requested"))
    /\ modem' = [usim |-> "down", todo |-> FALSE]
    /\ urcs' = IF modem.usim = "up" THEN Append(urcs, "NOT_AVAILABLE") ELSE urcs
    /\ UNCHANGED <<urc, flags, pc, lock, pipes, rst_pipe, monitor, server, left>>

Reports ==
    /\ \/ Happens("illegal") /\ modem.usim = "up" /\ urcs' = Append(urcs, "SESSION_ILLEGAL")
       \/ Happens("other") /\ urcs' = Append(urcs, "OTHER")
    /\ UNCHANGED <<modem, urc, flags, pc, lock, pipes, rst_pipe, monitor, server>>

-----------------------------------------------------------------------------
(* A reset, by EvtLoop or Listener.                                        *)

Resetters == {"EvtLoop", "Listener"}
Waiters == {t \in Resetters : At(t, "await")}

\* "otherwise" is where the thread goes on when the USIM is being reset.
Tests(t, otherwise) ==
    /\ At(t, "test")
    /\ May("race") \/ \A u \in Resetters : ~At(u, "set")
    /\ Goes(t, IF Has("isRstingUsim") THEN otherwise ELSE "set")
    /\ UNCHANGED <<modem, urcs, urc, flags, lock, pipes, rst_pipe, monitor, server, left>>

\* The flag is set, DmsSender sets the modem offline, and UimSender is asked.
Sets(t) ==
    /\ At(t, "set")
    /\ May("late") \/ (rst_pipe = <<>> /\ (Waiters = {} \/ May("race")))
    /\ May("overtaken") \/ At("Sender", "wait")
    /\ flags' = (flags \union {"isRstingUsim"}) \ {"isOnlineMode"}
    /\ Asks("UimSender")
    /\ Goes(t, "await")
    /\ UNCHANGED <<modem, urcs, urc, lock, rst_pipe, monitor, server, left>>

\* EvtLoop looks after the connection next; Listener has it recovered, to send the ID.
Completes(t) ==
    /\ At(t, "await") /\ Has("isUimRstOperCplt")
    /\ flags' = flags \ {"isUimRstOperCplt"}
    /\ Goes(t, IF t = "EvtLoop" THEN "after" ELSE "wait")
    /\ server' = IF t = "EvtLoop" THEN server ELSE "connecting"
    /\ UNCHANGED <<modem, urcs, urc, lock, pipes, rst_pipe, monitor, left>>

UimSenderReads ==
    /\ At("UimSender", "wait") /\ Takes("UimSender")
    /\ flags' = flags \union {"isAutoReprotPowerDown"}
    /\ modem' = [modem EXCEPT !.todo = TRUE]
    /\ Goes("UimSender", "requested")
    /\ UNCHANGED <<urcs, urc, lock, rst_pipe, monitor, server, left>>

\* Mutant: RstMonitor is not told.
Arms_not ==
    /\ At("UimSender", "requested") /\ Goes("UimSender", "armed")
    /\ UNCHANGED <<modem, urcs, urc, flags, lock, pipes, rst_pipe, monitor, server, left>>

\* The modem has taken the request.
Arms ==
    /\ At("UimSender", "requested")
    /\ flags' = flags \ {"isUimPwrDwnMssage"}
    /\ rst_pipe' = Append(rst_pipe, 0)
    /\ Goes("UimSender", "armed")
    /\ UNCHANGED <<modem, urcs, urc, lock, pipes, monitor, server, left>>

\* Mutant: the report is forgotten after RstMonitor has been armed.
UimSenderCompletes_forgets ==
    /\ At("UimSender", "armed")
    /\ flags' = (flags \union {"isUimRstOperCplt"}) \ {"isUimPwrDwnMssage"}
    /\ Goes("UimSender", "wait")
    /\ UNCHANGED <<modem, urcs, urc, lock, pipes, rst_pipe, monitor, server, left>>

UimSenderCompletes ==
    /\ At("UimSender", "armed")
    /\ flags' = flags \union {"isUimRstOperCplt"}
    /\ Goes("UimSender", "wait")
    /\ UNCHANGED <<modem, urcs, urc, lock, pipes, rst_pipe, monitor, server, left>>

-----------------------------------------------------------------------------
(* Listener.                                                               *)

\* check_valid_URC_array_elem(): the mark stays, and what it asks for is done again at
\* every report, until the USIM is powered up.
ListenerReads ==
    /\ At("Listener", "wait") /\ urcs # <<>>
    /\ May("poor") \/ ~At("EvtLoop", "upload_recovered")
    /\ urc' = Head(urcs) /\ urcs' = Tail(urcs)
    /\ LET marked == Has("NOT_AVAILABLE") \/ Head(urcs) = "NOT_AVAILABLE" IN
       /\ flags' = flags \union IF marked THEN {"NOT_AVAILABLE", "isUimPwrDwnMssage"} ELSE {}
       /\ monitor' = IF marked /\ ~Has("isAutoReprotPowerDown") THEN "rebooted" ELSE monitor
       /\ Goes("Listener", IF marked THEN "pd_mtx" ELSE "checked")
    /\ UNCHANGED <<modem, lock, pipes, rst_pipe, server, left>>

\* When EvtLoop has waited for it, a status report goes first and the ID after it.
MarksPoweredDown ==
    /\ At("Listener", "pd_mtx") /\ lock["pd_mtx"] = "free"
    /\ flags' = (flags \union {"isUimPwrDwn"})
                    \ IF Has("PowerUpUsimAfterRecvingUrcRpt")
                      THEN {"PowerUpUsimAfterRecvingUrcRpt", "NOT_AVAILABLE"} ELSE {}
    /\ server' = IF Has("PowerUpUsimAfterRecvingUrcRpt") THEN "connecting" ELSE server
    /\ Goes("Listener", "checked")
    /\ UNCHANGED <<modem, urcs, urc, lock, pipes, rst_pipe, monitor, left>>

\* A registration that is rejected, once nothing else can be done, resets the USIM too;
\* the other reports are ignored as long as the USIM is off.
Checked ==
    /\ At("Listener", "checked")
    /\ \E l \in IF urc = "SESSION_ILLEGAL" THEN {"test"}
                ELSE IF urc = "OTHER" /\ ~Has("isUimPwrDwn") THEN {"ChannelLock", "test"}
                ELSE {"wait"} :
          Goes("Listener", l)
    /\ UNCHANGED <<modem, urcs, urc, flags, lock, pipes, rst_pipe, monitor, server, left>>

\* The handlers of the reports look at ChannelNum.
LooksAtChannel ==
    /\ At("Listener", "ChannelLock") /\ lock["ChannelLock"] = "free"
    /\ Goes("Listener", "wait")
    /\ UNCHANGED <<modem, urcs, urc, flags, lock, pipes, rst_pipe, monitor, server, left>>

\* EvtLoop has asked for the state of mdmImodem.
Serves ==
    /\ At("Listener", "wait") /\ Takes("Listener")
    /\ flags' = flags \union {"el_reqed"}
    /\ UNCHANGED <<modem, urcs, urc, pc, lock, rst_pipe, monitor, server, left>>

ListenerSteps ==
    \/ ListenerReads \/ MarksPoweredDown \/ Checked \/ LooksAtChannel \/ Serves
    \/ Tests("Listener", "wait") \/ Sets("Listener") \/ Completes("Listener")

-----------------------------------------------------------------------------
(* EvtLoop.                                                                *)

ApduTimesOut ==
    /\ At("EvtLoop", "wait") /\ Happens("timeouts")
    /\ Goes("EvtLoop", "test")
    /\ UNCHANGED <<modem, urcs, urc, flags, lock, pipes, rst_pipe, monitor, server>>

\* The connection is being recovered; or mdmEmodem has no good signal, and is to be; or
\* it is suspended; or it is connected and Listener is to send the status report.
AfterTimeout ==
    /\ At("EvtLoop", "after") /\ lock["ChannelLock"] = "free"
    /\ \/ /\ server = "connecting"
          /\ flags' = flags \union {"MdmEmodemIsRcvrWhenSetPd"} /\ UNCHANGED server
       \/ server # "connecting" /\ server' = "connecting" /\ UNCHANGED flags
       \/ UNCHANGED <<flags, server>>
       \/ /\ server # "connecting" /\ ~Has("NOT_AVAILABLE")
          /\ flags' = flags \union {"PowerUpUsimAfterRecvingUrcRpt"} /\ UNCHANGED server
    /\ Goes("EvtLoop", "wait")
    /\ UNCHANGED <<modem, urcs, urc, lock, pipes, rst_pipe, monitor, left>>

\* Mutant: Listener is asked although it has not read that the USIM is off.
Uploads_unmarked ==
    /\ At("EvtLoop", "after") /\ server # "connecting"
    /\ Locks("ChannelLock")
    /\ Asks("Listener")
    /\ Goes("EvtLoop", "upload_timed_out")
    /\ UNCHANGED <<modem, urcs, urc, flags, rst_pipe, monitor, server, left>>

\* Or the report is sent now: Listener is asked for it, under ChannelLock.
Uploads ==
    /\ At("EvtLoop", "after") /\ server # "connecting" /\ Has("NOT_AVAILABLE")
    /\ Locks("ChannelLock")
    /\ Asks("Listener")
    /\ Goes("EvtLoop", "upload_timed_out")
    /\ UNCHANGED <<modem, urcs, urc, flags, rst_pipe, monitor, server, left>>

Uploaded ==
    /\ Has("el_reqed")
    /\ \/ /\ At("EvtLoop", "upload_timed_out")
          /\ flags' = flags \ {"el_reqed", "NOT_AVAILABLE"}
          /\ Unlocks("ChannelLock") /\ server' = "connecting"
       \/ /\ At("EvtLoop", "upload_recovered")
          /\ flags' = flags \ {"el_reqed"}
          /\ Unlocks("pd_mtx") /\ server' = "asked"
    /\ Goes("EvtLoop", "wait")
    /\ UNCHANGED <<modem, urcs, urc, pipes, rst_pipe, monitor, left>>

\* The connection has been recovered.
Connected ==
    /\ At("EvtLoop", "wait") /\ server = "connecting"
    /\ IF Has("isRegOffForPoorSig")
       THEN server' = "no" /\ Goes("EvtLoop", "recovered")
       ELSE server' = "asked" /\ UNCHANGED pc
    /\ UNCHANGED <<modem, urcs, urc, flags, lock, pipes, rst_pipe, monitor, left>>

\* After a loss for poor signal: the state of mdmImodem, or the ID, is sent, if the
\* USIM is off.
Recovered ==
    /\ At("EvtLoop", "recovered") /\ lock["pd_mtx"] = "free"
    /\ \/ /\ Has("isUimPwrDwn") /\ Locks("pd_mtx") /\ Asks("Listener")
          /\ Goes("EvtLoop", "upload_recovered")
          /\ UNCHANGED <<flags, server>>
       \/ /\ Has("isUimPwrDwn") /\ server' = "asked" /\ Goes("EvtLoop", "wait")
          /\ UNCHANGED <<flags, lock, pipes>>
       \/ /\ ~Has("isUimPwrDwn")
          /\ flags' = flags \union {"PowerUpUsimAfterRecvingUrcRpt"}
          /\ Goes("EvtLoop", "wait")
          /\ UNCHANGED <<lock, pipes, server>>
    /\ UNCHANGED <<modem, urcs, urc, rst_pipe, monitor, left>>

\* Every power-down that was asked for has been reported, and Listener has read it.
AllRead ==
    /\ ~modem.todo /\ pipes["UimSender"] = 0 /\ ~At("Listener", "pd_mtx")
    /\ \A i \in DOMAIN urcs : urcs[i] # "NOT_AVAILABLE"

\* While mdmImodem is online, the answer says nothing about its USIM.
IdAnswered ==
    /\ At("EvtLoop", "wait") /\ server = "asked"
    /\ May("answered") \/ AllRead
    /\ server' = "no"
    /\ IF Has("isOnlineMode") THEN UNCHANGED pc ELSE Goes("EvtLoop", "answer")
    /\ UNCHANGED <<modem, urcs, urc, flags, lock, pipes, rst_pipe, monitor, left>>

\* Without the report of the power-down, mdmImodem is set online only; when the answer
\* was not expected either, the handler is left without unlocking pd_mtx.
SetsOnline ==
    /\ At("EvtLoop", "answer") /\ ~Has("isUimPwrDwn")
    /\ IF Has("MdmEmodemIsRcvrWhenSetPd") THEN Locks("pd_mtx") /\ UNCHANGED pipes
       ELSE lock["pd_mtx"] = "free" /\ Asks("Sender") /\ UNCHANGED lock
    /\ Goes("EvtLoop", "wait")
    /\ UNCHANGED <<modem, urcs, urc, flags, rst_pipe, monitor, server, left>>

\* Mutant: the report that the USIM has no power stays marked.
power_up_virtual_usim_marked ==
    /\ At("EvtLoop", "answer") /\ Has("isUimPwrDwn")
    /\ May("stale") \/ ~At("Listener", "pd_mtx")
    /\ Locks("pd_mtx")
    /\ flags' = flags \ {"MdmEmodemIsRcvrWhenSetPd", "isRstingUsim"}
    /\ Asks("Sender")
    /\ Goes("EvtLoop", "acting")
    /\ UNCHANGED <<modem, urcs, urc, rst_pipe, monitor, server, left>>

power_up_virtual_usim ==
    /\ At("EvtLoop", "answer") /\ Has("isUimPwrDwn")
    /\ May("stale") \/ ~At("Listener", "pd_mtx")
    /\ Locks("pd_mtx")
    /\ flags' = flags \ {"MdmEmodemIsRcvrWhenSetPd", "isRstingUsim", "NOT_AVAILABLE"}
    /\ Asks("Sender")
    /\ Goes("EvtLoop", "acting")
    /\ UNCHANGED <<modem, urcs, urc, rst_pipe, monitor, server, left>>

PoweredUp ==
    /\ At("EvtLoop", "acting") /\ Has("isUimActed")
    /\ flags' = flags \ {"isUimActed", "isRegOffForPoorSig"}
    /\ Unlocks("pd_mtx")
    /\ Goes("EvtLoop", "wait")
    /\ UNCHANGED <<modem, urcs, urc, pipes, rst_pipe, monitor, server, left>>

EvtLoopSteps ==
    \/ Tests("EvtLoop", "after") \/ Sets("EvtLoop") \/ Completes("EvtLoop")
    \/ AfterTimeout \/ Uploads \/ Uploaded \/ Recovered
    \/ SetsOnline \/ power_up_virtual_usim \/ PoweredUp

-----------------------------------------------------------------------------
(* Sender: QMISENDER_SET_ONLINE.                                           *)

SenderReads ==
    /\ At("Sender", "wait") /\ Takes("Sender")
    /\ Goes("Sender", IF Has("isUimPwrDwn") THEN "power_up" ELSE "online")
    /\ UNCHANGED <<modem, urcs, urc, flags, lock, rst_pipe, monitor, server, left>>

do_uim_power_up ==
    /\ At("Sender", "power_up") /\ ~modem.todo
    /\ modem' = [modem EXCEPT !.usim = "up"]
    /\ Goes("Sender", "powered")
    /\ UNCHANGED <<urcs, urc, flags, lock, pipes, rst_pipe, monitor, server, left>>

\* Mutant: the byte of another request.
Disarms_2 ==
    /\ At("Sender", "powered")
    /\ rst_pipe' = Append(rst_pipe, 2)
    /\ Goes("Sender", "online")
    /\ UNCHANGED <<modem, urcs, urc, flags, lock, pipes, monitor, server, left>>

Disarms ==
    /\ At("Sender", "powered")
    /\ rst_pipe' = Append(rst_pipe, 1)
    /\ Goes("Sender", "online")
    /\ UNCHANGED <<modem, urcs, urc, flags, lock, pipes, monitor, server, left>>

\* A second later the flag is looked at again.
Online ==
    /\ At("Sender", "online")
    /\ flags' = (flags \union {"isOnlineMode"} \union IF Has("isUimPwrDwn") THEN {"isUimActed"} ELSE {})
                    \ {"isUimPwrDwn"}
    /\ Goes("Sender", "wait")
    /\ UNCHANGED <<modem, urcs, urc, lock, pipes, rst_pipe, monitor, server, left>>

-----------------------------------------------------------------------------
(* RstMonitor.                                                             *)

MonitorReads ==
    /\ rst_pipe # <<>> /\ rst_pipe' = Tail(rst_pipe)
    /\ \/ Head(rst_pipe) = 0 /\ monitor' = "armed" /\ UNCHANGED flags
       \/ Head(rst_pipe) = 1 /\ monitor' = "idle" /\ flags' = flags \ {"isUimPwrDwnMssage"}
    /\ UNCHANGED <<modem, urcs, urc, pc, lock, pipes, server, left>>

\* Three minutes have passed.
TimesOut ==
    /\ monitor = "armed" /\ rst_pipe = <<>>
    /\ monitor' = IF Has("isUimPwrDwnMssage") THEN "restarted" ELSE "rebooted"
    /\ UNCHANGED <<modem, urcs, urc, flags, pc, lock, pipes, rst_pipe, server, left>>

-----------------------------------------------------------------------------
Runs == monitor \notin Ends

UimSenderSteps == UimSenderReads \/ Arms \/ UimSenderCompletes
SenderSteps == SenderReads \/ do_uim_power_up \/ Disarms \/ Online

Next ==
    \/ Runs /\ (PowersDown \/ Reports \/ ApduTimesOut \/ Connected \/ IdAnswered)
    \/ Runs /\ ListenerSteps
    \/ Runs /\ EvtLoopSteps
    \/ Runs /\ UimSenderSteps
    \/ Runs /\ SenderSteps
    \/ Runs /\ (MonitorReads \/ TimesOut)

Spec == Init /\ [][Next]_vars

\* The threads run, the modem does what it is told, and time passes.  Nothing is
\* assumed of the server.
FairSpec ==
    /\ Spec
    /\ WF_vars(Runs /\ PowersDown)
    /\ WF_vars(Runs /\ ListenerSteps) /\ WF_vars(Runs /\ EvtLoopSteps)
    /\ WF_vars(Runs /\ UimSenderSteps) /\ WF_vars(Runs /\ SenderSteps)
    /\ WF_vars(Runs /\ MonitorReads) /\ WF_vars(Runs /\ TimesOut)

-----------------------------------------------------------------------------
(* Properties.                                                             *)

Spared(hs) == left.hasty \intersect hs = {}

\* The flag that makes Listener ignore reports, and Sender power the USIM up, is not left
\* over from a power-down that has been undone.
PowerStateTrue ==
    Spared({"stale", "answered"}) /\ Has("isUimPwrDwn") => modem.usim = "down" \/ ~At("Sender", "wait")

\* EvtLoop, which has Listener send a status report and keeps ChannelLock meanwhile, and
\* Listener, which needs ChannelLock for the report it has read, do not wait for each other.
ListenerAnswers ==
    Spared({"answered"}) /\ At("EvtLoop", "upload_timed_out") => ~At("Listener", "ChannelLock")

\* RstMonitor restarts the box only when the USIM has no power, or is to lose it, or
\* RstMonitor is just being told that it has, unless it has been told of the power-down
\* late; and it reboots the box only when nobody has marked the power-down.
RestartsForAReason ==
    [][/\ Spared({"early"}) /\ TimesOut =>
              modem.usim = "down" \/ modem.todo \/ At("Sender", "powered")
       /\ Spared(Hastes \ {"poor"}) /\ monitor' = "rebooted" /\ Runs => ~Has("isUimPwrDwn")]_vars

\* A USIM that has lost its power gets it again, or the box is restarted: whatever the
\* server does, and whatever threads race, unless the power-up of one reset disarms
\* RstMonitor for the next.
Recovers == modem.usim = "down" ~> modem.usim = "up" \/ ~Runs \/ ~Spared({"overtaken", "answered"})

-----------------------------------------------------------------------------
(* The inductive invariant: what holds whatever happens at a bad moment,   *)
(* and what holds as long as some of the bad moments are spared.           *)

Listed(u) == \E i \in DOMAIN urcs : urcs[i] = u
PowerDownAsked == pipes["UimSender"] > 0 \/ At("UimSender", "requested")

\* EvtLoop has asked Sender to power the USIM up, and Sender is not done with it.
PoweringUp == At("EvtLoop", "acting") /\ ~Has("isUimActed")

\* Sender is to do it, but has not done it.
ToPowerUp ==
    \/ At("EvtLoop", "answer")
    \/ PoweringUp /\ pc["Sender"] \in {"wait", "power_up"}

ShapeInv ==
    /\ pc = [t \in Threads |-> pc[t]]
    /\ left \in [illegal : Nat, other : Nat, timeouts : Nat, poor : BOOLEAN, hasty : SUBSET Hastes]

\* Sender powers the USIM up only when EvtLoop asks it to, and waits for it with pd_mtx.
SenderInv ==
    /\ pipes["Sender"] = 0 \/ (pipes["Sender"] = 1 /\ At("Sender", "wait"))
    /\ PoweringUp <=> pipes["Sender"] > 0 \/ ~At("Sender", "wait")
    /\ Has("isUimActed") => At("EvtLoop", "acting")
    /\ At("EvtLoop", "acting") => lock["pd_mtx"] = "EvtLoop"
    /\ At("EvtLoop", "answer") \/ PoweringUp => Has("isUimPwrDwn")
    /\ ToPowerUp => modem.usim = "down"

\* A USIM that is off has been marked so, or the report is under way; and mdmImodem that
\* is not online has its USIM off, or soon so.
DownInv ==
    /\ modem.usim = "down" =>
           \/ Listed("NOT_AVAILABLE") \/ At("Listener", "pd_mtx")
           \/ Has("isUimPwrDwn") /\ pc["Sender"] \notin {"powered", "online"}
    /\ ~Has("isOnlineMode") =>
           \/ pipes["UimSender"] > 0 \/ modem.todo \/ modem.usim = "down"
           \/ pc["Sender"] \in {"powered", "online"}

\* Listener has ChannelLock to wait for only while no power-down is marked.
MarkInv ==
    /\ Has("NOT_AVAILABLE") =>
           /\ At("Listener", "pd_mtx") \/ (Has("isUimPwrDwn") /\ ~At("EvtLoop", "acting"))
           /\ ~At("Listener", "ChannelLock")
    /\ At("EvtLoop", "upload_timed_out") =>
           ~At("Listener", "ChannelLock") /\ (Has("NOT_AVAILABLE") \/ Has("isUimPwrDwn"))

\* No report of a power-down is left over when the USIM is powered up.
StaleInv ==
    /\ Has("NOT_AVAILABLE") \/ Listed("NOT_AVAILABLE") \/ At("Listener", "pd_mtx") =>
           modem.usim = "down"
    /\ ToPowerUp => ~Listed("NOT_AVAILABLE")
    /\ ToPowerUp /\ ~At("EvtLoop", "answer") =>
           ~Has("NOT_AVAILABLE") /\ ~At("Listener", "pd_mtx")
    /\ Has("isUimPwrDwn") => modem.usim = "down" \/ ~At("Sender", "wait")

\* RstMonitor is armed, or will be when it has read its pipe.
WillBeArmed == IF rst_pipe = <<>> THEN monitor = "armed" ELSE rst_pipe[Len(rst_pipe)] = 0

ArmedInv ==
    /\ At("UimSender", "requested") => modem.todo
    /\ WillBeArmed => modem.usim = "down" \/ modem.todo \/ At("Sender", "powered")

\* One reset at a time.
ResetInv ==
    /\ Has("isUimPwrDwn") \/ modem.usim = "down" \/ modem.todo \/ PowerDownAsked =>
           Has("isRstingUsim") \/ PoweringUp
    /\ \A t \in Resetters : At(t, "set") => ~Has("isRstingUsim")
    /\ ~(At("EvtLoop", "set") /\ At("Listener", "set"))
    /\ At("EvtLoop", "answer") \/ PoweringUp => ~modem.todo /\ ~PowerDownAsked
    /\ pc["Sender"] \in {"powered", "online"} => modem.usim = "up"
    /\ PowerDownAsked => ~Has("isUimPwrDwn") /\ modem.usim = "up"
    /\ pipes["UimSender"] > 0 =>
           pipes["UimSender"] = 1 /\ ~modem.todo /\ ~At("UimSender", "requested")

\* While the USIM is off, Listener reads nothing that would have it reset once more.
QuietInv ==
    /\ At("Listener", "pd_mtx") \/ (Has("isUimPwrDwn") /\ modem.usim = "down") =>
           /\ pc["Listener"] \notin {"test", "set"}
           /\ pc["Listener"] \in {"pd_mtx", "checked"} => urc # "SESSION_ILLEGAL"
           /\ ~Listed("SESSION_ILLEGAL")
    /\ \A i, j \in DOMAIN urcs :
           i < j /\ urcs[i] = "NOT_AVAILABLE" => urcs[j] # "SESSION_ILLEGAL"

\* What RstMonitor has been told.
ToldInv ==
    /\ \A i \in DOMAIN rst_pipe : rst_pipe[i] = 1 =>
           /\ i = Len(rst_pipe)
           /\ ~PowerDownAsked /\ ~modem.todo /\ modem.usim = "up" /\ ~At("Sender", "powered")
    /\ Has("isUimPwrDwn") \/ At("Listener", "pd_mtx") =>
           \/ Has("isUimPwrDwnMssage")
           \/ At("Sender", "online") /\ monitor = "idle" /\ rst_pipe = <<>>
    /\ modem.todo \/ modem.usim = "down" \/ Has("isUimPwrDwn") => Has("isAutoReprotPowerDown")

IInv ==
    /\ TypeOK /\ ShapeInv
    /\ Spared({"answered"}) => SenderInv /\ DownInv /\ MarkInv
    /\ Spared({"stale", "answered"}) => StaleInv
    /\ Spared({"early"}) => ArmedInv
    /\ Spared(Hastes \ {"poor"}) => ResetInv /\ QuietInv /\ ToldInv
=============================================================================
