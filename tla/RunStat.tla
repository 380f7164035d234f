------------------------------ MODULE RunStat ------------------------------
(***************************************************************************)
(* What yy_daemon, which shows it to the user, is told of the box: every   *)
(* thread that learns something calls msq_send_qlinkdatanode_run_stat_ind, *)
(* which changes bits of one integer, without a lock, and sends it.  The   *)
(* integer is a set of bits here; an event is a number, as in the code.    *)
(***************************************************************************)
EXTENDS Integers

CONSTANTS
    Threads,        \* who reports besides EvtLoop
    EventsOf(_),    \* what it reports: the state of the card, an APDU, mdmImodem's network
    MaxReports,     \* how often (a bound)
    MaxChecks,      \* how often EvtLoop checks the network (a bound)
    Hasty           \* "overlap": two threads are in the function at once; "repeat":
                    \* a thread repeats an event after it has been forgotten

ASSUME RunStatAssumption ==
    /\ "EvtLoop" \notin Threads
    /\ \A t \in Threads : EventsOf(t) \subseteq {5, 6, 7, 20, 29, 30}
    /\ {MaxReports, MaxChecks} \subseteq Nat /\ Hasty \subseteq {"overlap", "repeat"}

VARIABLES
    qlinkdatanode_run_stat,
    last_status,            \* the event of the last call that sent something
    isCancelRecoveryNet,    \* there is no traffic left
    call,                   \* where each thread is in the function
    phase,                  \* where EvtLoop is, and what it does not report again
    sent,                   \* the last message
    left,                   \* how many reports and checks there may be
    said                    \* history: the last event about each thing, or None

vars == <<qlinkdatanode_run_stat, last_status, isCancelRecoveryNet, call, phase, sent,
          left, said>>

None == -1
CARD == 4
SIG == 5
REG == 6
PDP_ACT == 7
SERV_CONN == 8
MDMEmodemPOWEROFF == 9
CPINSTATUS == 10
RECEIVEDATA == 11
CGREG2 == 12

Bits == 1..12
Things == CARD..CGREG2

\* Mutant: the bits are counted from 0.
Binary_from_0(n) == {b \in 0..2 : (n \div <<1, 2, 4>>[b + 1]) % 2 = 1}

Binary(n) == {b \in 1..3 : (n \div <<1, 2, 4>>[b]) % 2 = 1}

-----------------------------------------------------------------------------
(* The function.                                                           *)

Sets(evt) ==
    CASE evt \in 0..7 -> Binary(evt)
      [] evt \in {18, 19, 20} -> Binary(evt - 18) \union {4}
      [] evt = 9 -> {SIG}             [] evt = 11 -> {REG}
      [] evt = 13 -> {PDP_ACT}        [] evt = 15 -> {SERV_CONN}
      [] evt = 21 -> {MDMEmodemPOWEROFF}
      [] evt = 23 -> {CPINSTATUS}     [] evt = 27 -> {RECEIVEDATA}
      [] evt = 29 -> {CGREG2}         [] OTHER -> {}

\* Mutant: the registration is not cleared when mdmEmodem is restored.
Clears_reg(evt) ==
    CASE evt = 16 -> {SIG, PDP_ACT, SERV_CONN}
      [] evt \in 0..7 \union {18, 19, 20} -> (1..3) \ Sets(evt)
      [] evt = 8 -> {SIG}             [] evt = 10 -> {REG}
      [] evt = 12 -> {PDP_ACT}        [] evt = 14 -> {SERV_CONN}
      [] evt = 22 -> {MDMEmodemPOWEROFF}
      [] evt = 24 -> {CPINSTATUS}     [] evt = 28 -> {RECEIVEDATA}
      [] evt = 30 -> {CGREG2}         [] OTHER -> {}

Clears(evt) ==
    CASE evt \in 0..7 \union {18, 19, 20} -> (1..3) \ Sets(evt)
      [] evt = 8 -> {SIG}             [] evt = 10 -> {REG}
      [] evt = 12 -> {PDP_ACT}        [] evt = 14 -> {SERV_CONN}
      [] evt = 16 -> SIG..SERV_CONN
      [] evt = 22 -> {MDMEmodemPOWEROFF}
      [] evt = 24 -> {CPINSTATUS}     [] evt = 28 -> {RECEIVEDATA}
      [] evt = 30 -> {CGREG2}         [] OTHER -> {}

\* The bits that the last step clears whatever they were.
Masked(evt) ==
    CASE evt \in {1, 2, 3, 6} -> (1..4) \ Binary(evt)
      [] evt = 18 -> {1, 2, 3}
      [] evt = 19 -> {2, 3}
      [] OTHER -> {}

State(bits) == [is |-> "state", bits |-> bits]
Suspended == [is |-> "suspended", bits |-> {}]      \* 0xfffffffe
OutOfTraffic == [is |-> "out of traffic", bits |-> {}]     \* 0xff

\* Mutant: only the event itself says that there is no traffic left.
Message_once(evt) ==
    IF evt = 40 THEN OutOfTraffic
    ELSE IF evt \in {17, 30} THEN Suspended ELSE State(qlinkdatanode_run_stat)

Message(evt) ==
    IF evt = 40 \/ isCancelRecoveryNet THEN OutOfTraffic
    ELSE IF evt \in {17, 30} THEN Suspended ELSE State(qlinkdatanode_run_stat)

\* In the function, todo holds the bits that are still to be changed, and mask those that
\* the last step clears.
Out == [pc |-> "out", evt |-> None, todo |-> {}, mask |-> {}, read |-> {}, msg |-> State({})]
In(event, bits, masked) ==
    [Out EXCEPT !.pc = "read", !.evt = event, !.todo = bits, !.mask = masked]

Repeated(evt) == evt = last_status

\* Nobody is in the function, nor is EvtLoop between it and what it does next.
Quiescent ==
    /\ \A t \in DOMAIN call : call[t].pc = "out"
    /\ phase.at \notin {"handed_over", "cancelling"}

MayEnter(t) == call[t].pc = "out" /\ ("overlap" \in Hasty \/ Quiescent)

\* The events 0 to 7 and 18 to 20 are about the card.
Thing(evt) ==
    IF evt \in 0..7 \union {18, 19, 20} THEN CARD
    ELSE CHOOSE b \in SIG..CGREG2 : b \in Sets(evt) \union Clears(evt)

Said(evt) ==
    IF evt \in {17, 40} THEN said
    ELSE IF evt = 16 THEN [x \in Things |-> IF x \in SIG..SERV_CONN THEN None ELSE said[x]]
    ELSE [said EXCEPT ![Thing(evt)] = evt]

Enters(t, evt) ==
    /\ MayEnter(t)
    /\ call' = IF Repeated(evt) THEN call
               ELSE [call EXCEPT ![t] = In(evt, Sets(evt) \union Clears(evt), Masked(evt))]
    /\ said' = Said(evt)
    /\ UNCHANGED <<qlinkdatanode_run_stat, last_status, isCancelRecoveryNet, sent>>

\* Each bit_set() reads the integer, changes a bit of it and writes it; so does the mask.
Reads(t) ==
    /\ call[t].pc = "read" /\ call[t].todo \union call[t].mask # {}
    /\ call' = [call EXCEPT ![t] = [@ EXCEPT !.pc = "write", !.read = qlinkdatanode_run_stat]]
    /\ UNCHANGED <<qlinkdatanode_run_stat, last_status, isCancelRecoveryNet, phase, sent, left, said>>

\* The lowest bit is the next one.
WritesBit(t) ==
    /\ call[t].pc = "write"
    /\ \E b \in call[t].todo :
          /\ \A x \in call[t].todo : b <= x
          /\ qlinkdatanode_run_stat' =
                IF b \in Sets(call[t].evt) THEN call[t].read \union {b} ELSE call[t].read \ {b}
          /\ call' = [call EXCEPT ![t] = [@ EXCEPT !.pc = "read", !.todo = call[t].todo \ {b}]]
    /\ UNCHANGED <<last_status, isCancelRecoveryNet, phase, sent, left, said>>

WritesMask(t) ==
    /\ call[t].pc = "write" /\ call[t].todo = {}
    /\ qlinkdatanode_run_stat' = call[t].read \ call[t].mask
    /\ call' = [call EXCEPT ![t] = IF @.evt = None THEN Out
                                   ELSE [@ EXCEPT !.pc = "read", !.mask = {}]]
    /\ UNCHANGED <<last_status, isCancelRecoveryNet, phase, sent, left, said>>

Encodes(t) ==
    /\ call[t].pc = "read" /\ call[t].todo \union call[t].mask = {}
    /\ call' = [call EXCEPT ![t] = [@ EXCEPT !.pc = "send", !.msg = Message(call[t].evt)]]
    /\ UNCHANGED <<qlinkdatanode_run_stat, last_status, isCancelRecoveryNet, phase, sent, left, said>>

Sends(t) ==
    /\ call[t].pc = "send"
    /\ sent' = call[t].msg
    /\ call' = [call EXCEPT ![t].pc = "return"]
    /\ UNCHANGED <<qlinkdatanode_run_stat, last_status, isCancelRecoveryNet, phase, left, said>>

Returns(t) ==
    /\ call[t].pc = "return"
    /\ last_status' = call[t].evt
    /\ call' = [call EXCEPT ![t] = Out]
    /\ UNCHANGED <<qlinkdatanode_run_stat, isCancelRecoveryNet, phase, sent, left, said>>

-----------------------------------------------------------------------------
(* EvtLoop: what it reports, from where to where.                          *)

\* EvtLoop goes from one place to another with a report, which it makes once if it has a
\* flag for it.
Goes(from, evt, to, flag) ==
    /\ phase.at = from /\ flag \notin phase.told
    /\ Enters("EvtLoop", evt)
    /\ phase' = [at |-> to,
                 told |-> IF flag # "" THEN phase.told \union {flag}
                          ELSE phase.told \ CASE evt = 9 -> {"poor"}
                                              [] evt = 11 -> {"unregistered"}
                                              [] evt = 13 -> {"not_active"}
                                              [] evt = 15 -> {"disconnected"}
                                              [] OTHER -> {}]
    /\ UNCHANGED left

\* AT+CSQ and AT+CGREG.
CheckNet ==
    \/ Goes("csq", 8, "check", "poor")     \/ Goes("csq", 9, "cgreg", "")
    \/ Goes("cgreg", 10, "cgreg", "unregistered")
    \/ Goes("cgreg", 23, "waiting", "")    \/ Goes("cgreg", 24, "registered", "")
    \/ Goes("registered", 11, "netopen", "")

\* AT+NETOPEN.
NetOpen ==
    \/ Goes("netopen", 12, "failed", "not_active")
    \/ Goes("failed", 16, "check", "")
    \/ Goes("netopen", 16, "check", "")    \/ Goes("netopen", 13, "cipopen", "")

\* AT+CIPOPEN.
CipOpen ==
    \/ Goes("cipopen", 14, "cipopen", "disconnected")
    \/ Goes("cipopen", 16, "check", "")    \/ Goes("cipopen", 15, "id", "")

\* The answer to the ID: its result is reported as it is, and an error once more.
IdAnswer ==
    \/ \E result \in {1, 2, 4} : Goes("id", result, "service", "")
    \/ Goes("id", 3, "id", "")             \/ Goes("id", 0, "rejected", "")
    \/ Goes("id", 40, "cancelling", "")    \/ Goes("cancelled", 40, "rejected", "")
    \/ Goes("id", 5, "not_applicable", "") \/ Goes("not_applicable", 18, "rejected", "")
    \/ Goes("id", 6, "not_found", "")      \/ Goes("not_found", 19, "rejected", "")

\* The USIM data, an answer that is late, the loss of the connection, the suspension.
Service ==
    \/ \E evt \in {4, 27, 28} : Goes("service", evt, "service", "")
    \/ Goes("service", 16, "check", "")
    \/ \E from \in {"service", "rejected"} : Goes(from, 17, "handed_over", "")

EvtLoopReports == CheckNet \/ NetOpen \/ CipOpen \/ IdAnswer \/ Service

\* Everything but the last bit.
Forgotten == Bits \ {CGREG2}

\* Before the network is checked, what is known of mdmEmodem is forgotten.
ChecksNet ==
    /\ phase.at = "check" /\ ~isCancelRecoveryNet /\ left.checks > 0
    /\ MayEnter("EvtLoop")
    /\ call' = [call EXCEPT !["EvtLoop"] = In(None, {}, Forgotten)]
    /\ phase' = [phase EXCEPT !.at = "csq"]
    /\ left' = [left EXCEPT !.checks = @ - 1]
    /\ said' = [x \in Things |-> IF x = CGREG2 THEN said[x] ELSE None]
    /\ UNCHANGED <<qlinkdatanode_run_stat, last_status, isCancelRecoveryNet, sent>>

\* When mdmEmodem has been suspended, everything is.
HandsOver ==
    /\ phase.at = "handed_over" /\ call["EvtLoop"].pc = "out"
    /\ qlinkdatanode_run_stat' = {}
    /\ said' = [x \in Things |-> None]
    /\ phase' = [phase EXCEPT !.at = "check"]
    /\ UNCHANGED <<last_status, isCancelRecoveryNet, call, sent, left>>

\* The server has said that there is no traffic left.
Cancels ==
    /\ phase.at = "cancelling" /\ call["EvtLoop"].pc = "out"
    /\ isCancelRecoveryNet' = TRUE
    /\ phase' = [phase EXCEPT !.at = "cancelled"]
    /\ UNCHANGED <<qlinkdatanode_run_stat, last_status, call, sent, left, said>>

-----------------------------------------------------------------------------
(* The other threads.                                                      *)

Reports(t) ==
    /\ left.reports > 0
    /\ \E e \in EventsOf(t) :
          /\ "repeat" \in Hasty \/ ~Repeated(e) \/ said[Thing(e)] = e
          /\ Enters(t, e)
    /\ left' = [left EXCEPT !.reports = @ - 1]
    /\ UNCHANGED phase

Init ==
    /\ qlinkdatanode_run_stat = {} /\ last_status = 255
    /\ isCancelRecoveryNet = FALSE
    /\ call = [t \in Threads \union {"EvtLoop"} |-> Out]
    /\ phase = [at |-> "check", told |-> {}]
    /\ sent = State({})
    /\ left = [reports |-> MaxReports, checks |-> MaxChecks]
    /\ said = [x \in Things |-> None]

Within(t) == Reads(t) \/ WritesBit(t) \/ WritesMask(t) \/ Encodes(t) \/ Sends(t) \/ Returns(t)

Next ==
    \/ EvtLoopReports \/ ChecksNet \/ HandsOver \/ Cancels
    \/ \E t \in Threads : Reports(t)
    \/ \E t \in Threads \union {"EvtLoop"} : Within(t)

Spec == Init /\ [][Next]_vars

-----------------------------------------------------------------------------
(* Properties.                                                             *)

TypeOK ==
    /\ qlinkdatanode_run_stat \subseteq Bits
    /\ last_status \in 0..255 /\ isCancelRecoveryNet \in BOOLEAN
    /\ \A t \in DOMAIN call :
          /\ call[t].pc \in {"out", "read", "write", "send", "return"}
          /\ call[t].evt \in {None} \union 0..40
          /\ call[t].todo \union call[t].mask \union call[t].read \subseteq Bits
    /\ sent.is \in {"state", "suspended", "out of traffic"} /\ sent.bits \subseteq Bits
    /\ DOMAIN said = Things /\ \A x \in Things : said[x] \in {None} \union 0..30

\* When no thread is in the function, the bits of mdmEmodem are those of the last event
\* about each of its things, whatever was reported in between.
ModemShown ==
    Quiescent => \A b \in SIG..CGREG2 : b \in qlinkdatanode_run_stat <=> said[b] # None /\ b \in Sets(said[b])

\* What the table of the events says of the first four bits. The events 0 and 18 say
\* the same.
Card(bits) ==
    IF 4 \in bits /\ \E n \in 0..4 : bits \intersect 1..3 = Binary(n)
    THEN <<0, 19, 20, 25, 26>>[CHOOSE n \in 1..5 : bits \intersect 1..3 = Binary(n - 1)]
    ELSE CHOOSE n \in 0..7 : bits \intersect 1..3 = Binary(n)

\* The last message about the card says what the last event about it was.
CardShown ==
    Quiescent /\ said[CARD] # None /\ sent.is = "state" =>
        Card(sent.bits) = IF said[CARD] = 18 THEN 0 ELSE said[CARD]

\* What yy_daemon is told of the card changes with an event about the card only.
CardKept ==
    [][sent.is = "state" /\ sent'.is = "state" /\ Card(sent'.bits) # Card(sent.bits) =>
        \E t \in DOMAIN call : call[t].pc = "send" /\ Thing(call[t].evt) = CARD]_vars

\* When no thread is in the function, yy_daemon has been told the last state, unless it
\* has been forgotten since.
StateTold == Quiescent /\ sent.is = "state" => qlinkdatanode_run_stat \subseteq sent.bits

\* All of it: yy_daemon knows what the threads have reported last.
LastEventsShown == ModemShown /\ CardShown /\ StateTold

\* Once the second message has said so, nobody is told anything but that there is no
\* traffic left.
OutOfTrafficStays == Quiescent /\ isCancelRecoveryNet => sent = OutOfTraffic
-----------------------------------------------------------------------------
(* What is true at every moment, for the proofs.                           *)

Reporters == Threads \union {"EvtLoop"}

\* The events that are reported.
Events40 == 0..20 \union {23, 24, 27, 28, 29, 30, 40}
OfTheCard == 0..7 \union {18, 19, 20}
OfTheModem == Events40 \ (OfTheCard \union {16, 17, 40})

\* Where EvtLoop may be.
Points == {"check", "csq", "cgreg", "waiting", "registered", "netopen", "failed", "cipopen", "id",
           "not_applicable", "not_found", "cancelling", "cancelled", "rejected", "service",
           "handed_over"}

Flags == {"poor", "unregistered", "not_active", "disconnected"}

Messages == [is : {"state", "suspended", "out of traffic"}, bits : SUBSET Bits]

Calls == [pc : {"out", "read", "write", "send", "return"}, evt : {None} \union Events40,
          todo : SUBSET Bits, mask : SUBSET Bits, read : SUBSET Bits, msg : Messages]

TypeInv ==
    /\ qlinkdatanode_run_stat \subseteq Bits
    /\ last_status \in Events40 \union {255} /\ isCancelRecoveryNet \in BOOLEAN
    /\ call \in [Reporters -> Calls]
    /\ phase \in [at : Points, told : SUBSET Flags]
    /\ sent \in Messages /\ said \in [Things -> {None} \union 0..30]

\* A call without an event forgets the bits and sends nothing.
CallInv ==
    \A t \in Reporters :
        /\ call[t].pc = "out" => call[t] = Out
        /\ call[t].evt = None => call[t].pc \in {"out", "read", "write"}
        /\ call[t].evt = None /\ call[t].pc # "out" => call[t].todo = {} /\ call[t].mask = Forgotten
        /\ call[t].pc \in {"send", "return"} => call[t].todo = {} /\ call[t].mask = {}

\* One thread at a time, which changes what it has read.
AloneInv ==
    /\ \A t, u \in Reporters : call[t].pc # "out" /\ call[u].pc # "out" => t = u
    /\ phase.at \in {"handed_over", "cancelling"} => \A t \in Threads : call[t].pc = "out"
    /\ \A t \in Reporters : call[t].pc = "write" => call[t].read = qlinkdatanode_run_stat

\* The event of the call in progress or, if there is none, of the last one.
Latest(e) ==
    \/ \E t \in Reporters : call[t].evt = e
    \/ last_status = e /\ \A t \in Reporters : call[t].evt = None

\* That there is no traffic left is told before it is recorded, and nothing else is told
\* from then on.
TrafficInv ==
    /\ isCancelRecoveryNet =>
          /\ phase.at \in {"cancelled", "rejected", "handed_over", "check"}
          /\ sent = OutOfTraffic
          /\ \A t \in Reporters : call[t].pc = "send" => call[t].msg = OutOfTraffic
    /\ phase.at = "cancelling" =>
          /\ call["EvtLoop"].pc # "out" => call["EvtLoop"].evt = 40
          /\ call["EvtLoop"].pc = "send" => call["EvtLoop"].msg = OutOfTraffic
          /\ call["EvtLoop"].pc \in {"return", "out"} => sent = OutOfTraffic
    /\ phase.at = "cancelled" => isCancelRecoveryNet
    /\ last_status = 40 \/ (\E t \in Reporters : call[t].evt = 40) =>
          phase.at = "cancelling" \/ isCancelRecoveryNet

\* Where EvtLoop is when an event that only it reports is the latest.
Places(e) ==
    CASE e \in {8, 16} -> {"check", "csq"} [] e \in {9, 10} -> {"cgreg"}
      [] e = 23 -> {"waiting"}             [] e = 24 -> {"registered"}
      [] e = 11 -> {"netopen"}             [] e = 12 -> {"failed"}
      [] e \in {13, 14} -> {"cipopen"}     [] e \in {3, 15} -> {"id"}
      [] e \in {1, 2, 4, 27, 28} -> {"service"}
      [] e \in {0, 18, 19} -> {"rejected"} [] e = 17 -> {"handed_over", "check", "csq"}
      [] OTHER -> {"cancelling", "cancelled", "rejected"}

\* An event that is reported again has not been forgotten.
LatestInv ==
    \A e \in Events40 : Latest(e) =>
        /\ e \notin {5, 6, 7, 20, 29, 30} => phase.at \in Places(e)
        /\ e = 8 => "poor" \in phase.told
        /\ e = 10 => "unregistered" \in phase.told
        /\ e = 14 => "disconnected" \in phase.told
        /\ e \in OfTheCard \union OfTheModem /\ phase.at \notin {"check", "csq"} => said[Thing(e)] = e

\* The function has no lock. That every call finds it empty all the same,
InTurn == EvtLoopReports \/ ChecksNet \/ (\E t \in Threads : Reports(t)) => Quiescent

\* that a report which is left out, as the last one was the same, says nothing new,
Fresh == \A t \in Threads : Reports(t) /\ UNCHANGED call => UNCHANGED said

\* and that no APDU is reported: what the theorems ask of the threads.
NoApdu == said[CARD] # 20

Pending(b) == \E t \in Reporters : b \in call[t].todo \union call[t].mask

\* The bit is what the last event made of it.
Shown(b) == b \in qlinkdatanode_run_stat <=> said[b] # None /\ b \in Sets(said[b])

ModemInv ==
    \A b \in SIG..CGREG2 :
        /\ ~Pending(b) => Shown(b)
        /\ \A t \in Reporters : b \in call[t].todo =>
              (b \in Sets(call[t].evt) <=> said[b] # None /\ b \in Sets(said[b]))
        /\ \A t \in Reporters : b \in call[t].mask => call[t].evt = None /\ said[b] = None

\* The first three bits, and the fourth one where it matters.
CardInv ==
    /\ said[CARD] \in {None} \union (OfTheCard \ {20})
    /\ \A t \in Reporters : call[t].evt \in OfTheCard => said[CARD] = call[t].evt
    /\ \A t \in Reporters : call[t].evt = None /\ call[t].pc # "out" => said[CARD] = None
    /\ said[CARD] # None =>
          /\ \A b \in 1..3 : ~Pending(b) => (b \in qlinkdatanode_run_stat <=> b \in Sets(said[CARD]))
          /\ ~Pending(4) => /\ said[CARD] \in {18, 19} => 4 \in qlinkdatanode_run_stat
                            /\ said[CARD] \in 0..4 => 4 \notin qlinkdatanode_run_stat
    /\ \A t \in Reporters : \A b \in call[t].mask \intersect 1..4 :
          call[t].evt # None => call[t].evt \in OfTheCard /\ b \notin Sets(call[t].evt)
    /\ 4 \in qlinkdatanode_run_stat => phase.at \in {"rejected", "handed_over"}
    /\ \A t \in Reporters : \A b \in call[t].todo \intersect 1..4 : call[t].evt \in OfTheCard

\* What is sent is the state, and what has been sent has all of it.
SentInv ==
    /\ \A t \in Reporters : call[t].pc = "send" /\ call[t].msg.is = "state" =>
          call[t].msg.bits = qlinkdatanode_run_stat
    /\ (\A t \in Reporters : call[t].evt = None \/ call[t].pc = "return") /\ sent.is = "state" =>
          /\ qlinkdatanode_run_stat \subseteq sent.bits
          /\ said[CARD] # None =>
                sent.bits \intersect 1..4 = qlinkdatanode_run_stat \intersect 1..4

\* In turn.
CalmInv == TypeInv /\ CallInv /\ AloneInv /\ TrafficInv

\* In turn, with nothing left out that would be new, and without APDUs.
IInv == CalmInv /\ LatestInv /\ ModemInv /\ CardInv /\ SentInv
=============================================================================
