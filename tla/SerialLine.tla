----------------------------- MODULE SerialLine -----------------------------
(***************************************************************************)
(* How EvtLoop reads the answers of mdmEmodem from the serial port: read() *)
(* returns whatever has arrived, read_line() cuts it into lines in ATBuf,  *)
(* and r_checkNetHdlr() looks for the answer of its command among them.    *)
(* The port is raw and does not block: a line may arrive in two parts, and *)
(* two lines in one.                                                       *)
(***************************************************************************)
EXTENDS Naturals, Sequences, FiniteSets, SequencesExt

CONSTANTS
    Parts,      \* the bytes of a line
    MaxEvents   \* how many reports and cut lines there may be (a bound)

ASSUME SerialLineAssumption ==
    /\ Parts \in Nat \ {0}
    /\ MaxEvents \in Nat

VARIABLES
    modem,         \* what the modem has still to send
    tty,           \* what has arrived, and was not read
    ATBuf,         \* what was read, from ATBufCur to its NUL
    chk_net_state, \* the command that waits for its answer
    label,         \* the command whose part of r_checkNetHdlr() is running
    pc,            \* "select", "read_line" or "crashed"
    events         \* the reports sent unasked, and the lines cut in two

vars == <<modem, tty, ATBuf, chk_net_state, label, pc, events>>

\* Only the first one is known to reader() as one that says nothing of an answer.
Reports == {"STIN", "NETWORK_CLOSED", "OTHER"}

ChkNetAT == {"IDLE", "CSQ", "CGREG"}    \* IDLE stands for ATE0
Texts == ChkNetAT \union {"OK"} \union Reports

EOL == [text |-> "EOL", at |-> 0]
Text(t) == [i \in 1..Parts |-> [text |-> t, at |-> i]]
Line(t) == <<EOL>> \o Text(t) \o <<EOL>>
Bytes == {EOL} \union [text : Texts, at : 1..Parts]

\* The modem echoes ATE0, unless the echo is off already.
Replies(s) ==
    IF s = "IDLE" THEN {Line("IDLE") \o Line("OK"), Line("OK")}
    ELSE IF s \in ChkNetAT THEN {Line(s) \o Line("OK")} ELSE {<<>>}

TypeOK ==
    /\ modem \in Seq(Bytes) /\ tty \in Seq(Bytes) /\ ATBuf \in Seq(Bytes)
    /\ chk_net_state \in ChkNetAT \union {"MAX"}
    /\ label \in ChkNetAT
    /\ pc \in {"select", "read_line", "crashed"}
    /\ events \in Seq(Reports \union {"CUT"}) /\ Len(events) <= MaxEvents

Init ==
    /\ modem \in Replies("IDLE") /\ tty = <<>>
    /\ ATBuf = <<>>
    /\ chk_net_state = "IDLE" /\ label = "IDLE" /\ pc = "select"
    /\ events = <<>>

-----------------------------------------------------------------------------
(* The modem.                                                              *)

Occurs(e) == Len(events) < MaxEvents /\ events' = Append(events, e)

Arrives(n) ==
    /\ tty' = tty \o SubSeq(modem, 1, n)
    /\ modem' = SubSeq(modem, n + 1, Len(modem))
    /\ UNCHANGED <<ATBuf, chk_net_state, label, pc>>

Transmit ==
    /\ \E n \in 1..Len(modem) : modem[n] = EOL /\ Arrives(n)
    /\ UNCHANGED events

\* A line may arrive in several parts.
TransmitPart == \E n \in 1..Len(modem) : modem[n] # EOL /\ Occurs("CUT") /\ Arrives(n)

Report ==
    /\ chk_net_state # "MAX"
    /\ \E r \in Reports : modem' = modem \o Line(r) /\ Occurs(r)
    /\ UNCHANGED <<tty, ATBuf, chk_net_state, label, pc>>

-----------------------------------------------------------------------------
(* The reader.                                                             *)

skip_line_break(s) ==
    IF Range(s) \subseteq {EOL} THEN <<>>
    ELSE SubSeq(s, SelectInSeq(s, LAMBDA b : b # EOL), Len(s))

\* The number of bytes before the first end of line.
find_NextEOL(s) == SelectInSeq(s, LAMBDA b : b = EOL) - 1

HasEOL(s) == \E i \in DOMAIN s : s[i] = EOL

\* Mutant: OK is no line of its own.
parse_line_no_OK(line) ==
    IF line = Text("STIN") THEN 2 ELSE IF line = Text("NETWORK_CLOSED") THEN 3 ELSE 1

\* The result of reader() for a line: 1 an answer or another report, 2 a report
\* that is skipped, 3 the loss of the network, 4 OK.
parse_line(line) ==
    IF line = Text("STIN") THEN 2
    ELSE IF line = Text("NETWORK_CLOSED") THEN 3
    ELSE IF line = Text("OK") THEN 4 ELSE 1

\* get_OK() on what follows an answer ends its first line with a NUL, which hides the
\* rest; without an end of line it sets ATBufCur to NULL.
get_OK(s) == s = <<>> \/ HasEOL(s)

\* INIT_ATBUF, and the serial event is armed.
Waits ==
    /\ ATBuf' = <<>> /\ pc' = "select"
    /\ UNCHANGED <<modem, chk_net_state, label>>

\* goto __READER_AGAIN__, at the label l.
ReadsAgain(rest, l) ==
    /\ ATBuf' = rest /\ label' = l
    /\ UNCHANGED <<modem, chk_net_state, pc>>

\* w_checkNetHdlr() in state s; INIT_ATBUF drops what is left in the buffer.
w_checkNetHdlr(s) ==
    /\ chk_net_state' = s
    /\ \E r \in Replies(s) : modem' = modem \o r
    /\ ATBuf' = <<>> /\ pc' = "select"
    /\ UNCHANGED label

\* Mutant: what follows a report that is skipped is dropped.
Skips_all(rest, l) == Waits

\* Skip the line, and go on with the rest of the buffer at the label l.
Skips(rest, l) == IF rest = <<>> THEN Waits ELSE ReadsAgain(rest, l)

\* The line is none that is waited for.  get_OK() has been called on what follows
\* it, and ATBufCur is at its NUL, or is NULL and is read.
Unexpected(rest) ==
    IF get_OK(rest) THEN Waits
    ELSE pc' = "crashed" /\ UNCHANGED <<modem, ATBuf, chk_net_state, label>>

\* READER__CHK_NET and the part of the handler for the command of label.  Of what
\* follows an answer get_OK() reads one line, whatever it is.
r_checkNetHdlr(line, rest) ==
    LET ret == parse_line(line) IN
    \/ ret = 2 /\ Skips(rest, label)
    \/ label = "IDLE" /\ ret # 2 /\ w_checkNetHdlr("CSQ")
    \/ label # "IDLE" /\ ret = 3 /\ Skips(rest, "CGREG")
    \/ label # "IDLE" /\ ret = 4 /\ Skips(rest, label)
    \/ label = "CSQ" /\ ret = 1 /\ (IF line = Text("CSQ") THEN w_checkNetHdlr("CGREG") ELSE Unexpected(rest))
    \/ label = "CGREG" /\ ret = 1 /\ (IF line = Text("CGREG") THEN w_checkNetHdlr("MAX") ELSE Unexpected(rest))

\* Mutant: the callback stays armed when the check of the network is over.
Select_armed ==
    /\ pc = "select" /\ tty # <<>>
    /\ pc' = "read_line" /\ label' = chk_net_state
    /\ UNCHANGED <<modem, tty, ATBuf, chk_net_state, events>>

Select ==
    /\ pc = "select" /\ tty # <<>> /\ chk_net_state # "MAX"
    /\ pc' = "read_line" /\ label' = chk_net_state
    /\ UNCHANGED <<modem, tty, ATBuf, chk_net_state, events>>

\* read_line(): the first line of the buffer; or read() what has arrived; or, with
\* EAGAIN, result 10 of reader(): the handler calls INIT_ATBUF.
read_line ==
    /\ pc = "read_line"
    /\ \E s \in {skip_line_break(ATBuf)} :
          IF HasEOL(s)
          THEN /\ \E n \in {find_NextEOL(s)} :
                     r_checkNetHdlr(SubSeq(s, 1, n), skip_line_break(SubSeq(s, n + 1, Len(s))))
               /\ UNCHANGED tty
          ELSE IF tty # <<>>
          THEN /\ ATBuf' = s \o tty /\ tty' = <<>>
               /\ UNCHANGED <<modem, chk_net_state, label, pc>>
          ELSE Waits /\ UNCHANGED tty
    /\ UNCHANGED events

Next == Transmit \/ TransmitPart \/ Report \/ Select \/ read_line

Spec == Init /\ [][Next]_vars

\* The modem sends what it has to send, and select() returns when it has arrived.
FairSpec == Spec /\ WF_vars(Transmit) /\ WF_vars(Select) /\ WF_vars(read_line)

-----------------------------------------------------------------------------
(* Properties.                                                             *)

\* No line is cut, and the modem sends no report that reader() does not skip.
Regular == Range(events) \subseteq {"STIN"}

\* What is still to come, and the places in it where an answer begins.
Coming == ATBuf \o tty \o modem
Answers(s) == {i \in 1..Len(s) : s[i].text \in ChkNetAT \union {"OK"} /\ s[i].at = 1}

\* Then an answer is taken once, in the place of its own command: what is still to come
\* is the answer of the command that waits and its OK, and at most one OK before them.
\* (r_checkNetHdlr, "Redundant rsp OK recved")
InStep(s, state) ==
    \E h \in 0..Len(s), i \in 1..Len(s), k \in 1..Len(s) :
        /\ h < i /\ i < k
        /\ Answers(s) = {h, i, k} \ {0}
        /\ h > 0 => s[h].text = "OK"
        /\ s[i].text = state
        /\ s[k].text = "OK"

AnswersInStep == Regular /\ chk_net_state \in {"CSQ", "CGREG"} => InStep(Coming, chk_net_state)

\* So no handler without a timer (only ATE0 has one) waits for an answer that it has
\* thrown away, and the check of the network ends.
CheckEnds == <>(chk_net_state = "MAX" \/ ~Regular)

=============================================================================
