------------------------------ MODULE RecvData ------------------------------
(***************************************************************************)
(* How EvtLoop receives the answer of the server in state RECVING of       *)
(* acqData.  The modem hands the bytes of the connection over in reports   *)
(* of its own, "RECV FROM:<address>", "+IPD<length>" and <length> bytes:   *)
(* reader_recv_start() reads the head of the first one, process_RECV() the *)
(* rest; the USIM data come in many reports whose heads have to be removed *)
(* from between the data.                                                  *)
(***************************************************************************)
EXTENDS Naturals, Sequences

CONSTANTS
    Answers,     \* the answers that may come, and how
    ReadMax,     \* DEFAULT_BYTES_RECVED_FOR_ONCE
    HeadLen      \* FIELD_LEN_OF_MSG_HEAD_AND_MSG_LEN

Kinds == {"URC", "IPD", "data", "report"}

ASSUME RecvDataAssumption ==
    /\ \A a \in Answers :
        /\ a.flow \in {"ID_AUTH", "REMOTE_UIM_DATA_REQ", "APDU_COMM"}
        /\ a.segs \in Seq(Nat \ {0})   \* the lengths of the reports it comes in
        /\ a.pauses \subseteq Kinds     \* after what the serial line may pause
        /\ a.stalls \in BOOLEAN         \* whether for five seconds between two reports
        /\ a.reports \in Nat            \* how many other reports may come
    /\ ReadMax \in Nat \ {0} /\ HeadLen \in Nat \ {0}

VARIABLES
    answer,         \* what comes, a member of Answers
    modem,          \* what the modem has still to send
    tty,            \* what has arrived, and was not read
    ATBuf,          \* what reader_recv_start() has read
    recv_tmp_buf,   \* what its calls before have read
    isRetryToRecv,  \* 0, or 1 or 2 after a head that ended with line 1 or 2
    buffer,         \* g_rsmp_recv_buffer
    URC_data,       \* the length in the head of the first report
    strip,          \* the loop that removes the heads: cur, parsed_len, valid_len, total_len
    pc, reports

vars == <<answer, modem, tty, ATBuf, recv_tmp_buf, isRetryToRecv, buffer, URC_data, strip, pc, reports>>

\* What comes over the line; a line of a head counts as one byte.
URC == [kind |-> "URC", n |-> 0]
IPD(n) == [kind |-> "IPD", n |-> n]
Data(i) == [kind |-> "data", n |-> i]
Other == [kind |-> "report", n |-> 0]

\* The length of the first reports, and of all of them.
Sums(s) == LET sum[j \in 0..Len(s)] == IF j = 0 THEN 0 ELSE sum[j - 1] + s[j] IN sum
Total(s) == Sums(s)[Len(s)]

Sent(s) == [i \in 1..Total(s) |-> Data(i)]
Cut(s, j) == <<URC, IPD(s[j])>> \o SubSeq(Sent(s), Sums(s)[j - 1] + 1, Sums(s)[j])
Stream(s) ==
    LET first[j \in 0..Len(s)] == IF j = 0 THEN <<>> ELSE first[j - 1] \o Cut(s, j)
    IN first[Len(s)]

segs == answer.segs
IsUIM == answer.flow = "REMOTE_UIM_DATA_REQ"

Bytes == [kind : Kinds, n : 0..Total(segs)]

Ended == {"done", "again", "stuck", "crashed"}

TypeOK ==
    /\ answer \in Answers
    /\ {modem, tty, ATBuf, recv_tmp_buf, buffer} \subseteq Seq(Bytes)
    /\ isRetryToRecv \in 0..2 /\ isRetryToRecv = Len(recv_tmp_buf)
    /\ URC_data \in 0..Total(segs)
    /\ strip \in [cur : Nat, parsed_len : Nat, valid_len : Nat, total_len : Nat]
    /\ pc \in {"RECVING", "read_more", "head", "read", "msg_len", "silence", "strip"} \union Ended
    /\ reports \in 0..answer.reports

Init ==
    /\ answer \in Answers
    /\ modem = Stream(segs) /\ tty = <<>>
    /\ ATBuf = <<>> /\ recv_tmp_buf = <<>> /\ isRetryToRecv = 0
    /\ buffer = <<>> /\ URC_data = 0
    /\ strip = [cur |-> 0, parsed_len |-> 0, valid_len |-> 0, total_len |-> 0]
    /\ pc = "RECVING" /\ reports = 0

-----------------------------------------------------------------------------
(* The modem and the serial port.                                          *)

Transmit ==
    /\ \E n \in 1..Len(modem) :
          /\ n = Len(modem) \/ modem[n].kind \in answer.pauses
          /\ tty' = tty \o SubSeq(modem, 1, n)
          /\ modem' = SubSeq(modem, n + 1, Len(modem))
    /\ UNCHANGED <<answer, ATBuf, recv_tmp_buf, isRetryToRecv, buffer, URC_data, strip, pc, reports>>

\* A report comes before or after a report of data, never inside.
Report ==
    /\ reports < answer.reports
    /\ \E n \in 0..Len(modem) :
          /\ n < Len(modem) => modem[n + 1].kind = "URC"
          /\ modem' = SubSeq(modem, 1, n) \o <<Other>> \o SubSeq(modem, n + 1, Len(modem))
    /\ reports' = reports + 1
    /\ UNCHANGED <<answer, tty, ATBuf, recv_tmp_buf, isRetryToRecv, buffer, URC_data, strip, pc>>

\* What read() with a buffer of max bytes returns, and leaves.
Got(max) == IF Len(tty) <= max THEN tty ELSE SubSeq(tty, 1, max)
Left(max) == SubSeq(tty, max + 1, Len(tty))

-----------------------------------------------------------------------------
(* reader_recv_start(): the head of the first report.                      *)

\* The USIM data and the answer to an ID are asked for more when only lines have
\* arrived ("read_bytes < 41").
TooShort(b) == answer.flow # "APDU_COMM" /\ isRetryToRecv = 0 /\ Len(b) < 3

reader_recv_start ==
    /\ pc = "RECVING" /\ tty # <<>>
    /\ ATBuf' = Got(ReadMax) /\ tty' = Left(ReadMax)
    /\ pc' = IF TooShort(ATBuf') THEN "read_more" ELSE "head"
    /\ UNCHANGED <<answer, modem, recv_tmp_buf, isRetryToRecv, buffer, URC_data, strip, reports>>

\* __READ_MORE_APDU_DATA_IN_PROCESS_RECVDE__, once.
read_more ==
    /\ pc = "read_more" /\ tty # <<>>
    /\ ATBuf' = ATBuf \o Got(ReadMax - Len(ATBuf)) /\ tty' = Left(ReadMax - Len(ATBuf))
    /\ pc' = "head"
    /\ UNCHANGED <<answer, modem, recv_tmp_buf, isRetryToRecv, buffer, URC_data, strip, reports>>

\* The length in the head of the message, when that has been read; 0 otherwise.
LengthIn(b) ==
    LET end == IF Len(b) < 2 + HeadLen THEN Len(b) ELSE 2 + HeadLen
    IN  IF SubSeq(Sent(segs), 1, HeadLen) = SubSeq(b, 3, end) THEN Total(segs) ELSE 0

\* The line with the address and the one with the length are there: what has been read
\* is copied to g_rsmp_recv_buffer, and process_RECV() goes on.
StartOfData(b) ==
    /\ buffer' = b /\ URC_data' = b[2].n
    /\ ATBuf' = <<>> /\ recv_tmp_buf' = <<>> /\ isRetryToRecv' = 0
    /\ pc' = IF ~IsUIM THEN "read" ELSE IF Len(b) - 2 < HeadLen THEN "msg_len" ELSE "silence"
    /\ strip' = [strip EXCEPT !.total_len = LengthIn(b)]

\* Mutant: the part of a head is not copied to recv_tmp_buf.
RecvAgain_not_copied(b, retry) ==
    /\ recv_tmp_buf' = <<>> /\ isRetryToRecv' = retry
    /\ ATBuf' = <<>> /\ pc' = "RECVING"
    /\ UNCHANGED <<buffer, URC_data, strip>>

\* GO_TO_NEXT_STATE_R(ACQ_DATA_STATE_RECVING, ...)
RecvAgain(b, retry) ==
    /\ recv_tmp_buf' = b /\ isRetryToRecv' = retry
    /\ ATBuf' = <<>> /\ pc' = "RECVING"
    /\ UNCHANGED <<buffer, URC_data, strip>>

\* Result -1 of reader_recv_start(), and so of process_RECV(): the handler breaks and
\* arms no callback.
Irredeemable == pc' = "stuck" /\ UNCHANGED <<ATBuf, recv_tmp_buf, isRetryToRecv, buffer, URC_data, strip>>

\* What reader_recv_start() finds at the head of ATBuf.  After line 2 (isRetryToRecv 2) no
\* length is parsed, and the check of the length fails.
head ==
    /\ pc = "head"
    /\ \/ /\ isRetryToRecv = 0 /\ ATBuf[1].kind # "URC"
          /\ RecvAgain(<<>>, 0)
       \/ /\ isRetryToRecv = 0 /\ ATBuf[1].kind = "URC"
          /\ IF Len(ATBuf) <= 2 THEN RecvAgain(ATBuf, Len(ATBuf)) ELSE StartOfData(ATBuf)
       \/ /\ isRetryToRecv = 1 /\ ATBuf[1].kind = "IPD"
          /\ IF Len(ATBuf) = 1 THEN RecvAgain(recv_tmp_buf \o ATBuf, 2)
             ELSE StartOfData(recv_tmp_buf \o ATBuf)
       \/ /\ isRetryToRecv = 2 \/ (isRetryToRecv = 1 /\ ATBuf[1].kind # "IPD")
          /\ Irredeemable
    /\ UNCHANGED <<answer, modem, tty, reports>>

-----------------------------------------------------------------------------
(* process_RECV(): an answer of one report.                                *)

URC_header_len == 2
TotalLen == URC_header_len + URC_data

\* What is still to be read.
Missing == IF Len(buffer) < TotalLen THEN TotalLen - Len(buffer) ELSE 0

read ==
    /\ pc = "read"
    /\ \/ /\ Missing = 0
          /\ buffer' = SubSeq(buffer, URC_header_len + 1, Len(buffer))
          /\ pc' = "done"
          /\ UNCHANGED tty
       \/ /\ Missing > 0 /\ tty # <<>>
          /\ buffer' = buffer \o Got(Missing) /\ tty' = Left(Missing)
          /\ UNCHANGED pc
    /\ UNCHANGED <<answer, modem, ATBuf, recv_tmp_buf, isRetryToRecv, URC_data, strip, reports>>

-----------------------------------------------------------------------------
(* process_RECV(): the USIM data.                                          *)

\* The length of the message is missing: it is read for once more.
msg_len ==
    /\ pc = "msg_len" /\ tty # <<>>
    /\ buffer' = buffer \o Got(ReadMax) /\ tty' = Left(ReadMax)
    /\ strip' = [strip EXCEPT !.total_len = LengthIn(buffer')]
    /\ pc' = "silence"
    /\ UNCHANGED <<answer, modem, ATBuf, recv_tmp_buf, isRetryToRecv, URC_data, reports>>

\* Everything is read until nothing comes for five seconds; the modem may be that slow
\* between two reports, but not inside of one.
silence ==
    /\ pc = "silence"
    /\ \/ /\ tty # <<>>
          /\ buffer' = buffer \o Got(ReadMax) /\ tty' = Left(ReadMax)
          /\ UNCHANGED pc
       \/ /\ tty = <<>> /\ (modem # <<>> => answer.stalls /\ modem[1].kind \in {"URC", "report"})
          /\ pc' = "strip"
          /\ UNCHANGED <<buffer, tty>>
    /\ UNCHANGED <<answer, modem, ATBuf, recv_tmp_buf, isRetryToRecv, URC_data, strip, reports>>

\* Where find_sub_content() finds a head with a length in ns, among what is counted as
\* not parsed.
Heads(ns) ==
    {p \in strip.cur..(strip.cur + Len(buffer) - strip.parsed_len - URC_header_len) :
        /\ p + 2 <= Len(buffer)
        /\ buffer[p + 1] = URC /\ buffer[p + 2] \in {IPD(n) : n \in ns}}

Lowest(S) == CHOOSE p \in S : \A q \in S : p <= q

\* memcpy() and memset(): the count bytes behind the head at p are moved onto it.
Moved(p, count) ==
    [i \in DOMAIN buffer |->
        IF i > strip.cur + Len(buffer) - URC_header_len THEN Data(0)
        ELSE IF i > p /\ i <= p + count /\ i + URC_header_len <= Len(buffer) THEN buffer[i + URC_header_len]
        ELSE buffer[i]]

\* Mutant: the search always goes on where it began.
RemoveHead_stay(p, c) ==
    LET parsed == strip.parsed_len + (p - strip.cur) + URC_header_len IN
    IF parsed > Len(buffer) THEN pc' = "crashed" /\ UNCHANGED <<buffer, strip>>
    ELSE /\ buffer' = Moved(p, Len(buffer) - parsed)
         /\ strip' = [strip EXCEPT !.parsed_len = parsed, !.valid_len = @ + (p - strip.cur)]
         /\ UNCHANGED pc

\* Remove the head at p; the search goes on at c.
RemoveHead(p, c) ==
    LET parsed == strip.parsed_len + (p - strip.cur) + URC_header_len IN
    IF parsed > Len(buffer) THEN pc' = "crashed" /\ UNCHANGED <<buffer, strip>>
    ELSE /\ buffer' = Moved(p, Len(buffer) - parsed)
         /\ strip' = [strip EXCEPT !.cur = c, !.parsed_len = parsed, !.valid_len = @ + (p - strip.cur)]
         /\ UNCHANGED pc

\* Mutant: the data must not be shorter than announced.
Accepted_longer(valid) == strip.total_len # 0 /\ valid >= strip.total_len

\* "valid_len != total_len+5"; without the head of the message total_len is not the length.
Accepted(valid) == strip.total_len # 0 /\ valid = strip.total_len

\* The end of the loop, and the check of the length.
Stripped(valid) ==
    /\ buffer' = SubSeq(buffer, 1, valid)
    /\ strip' = [strip EXCEPT !.valid_len = valid, !.parsed_len = Len(buffer)]
    /\ pc' = IF Accepted(valid) THEN "done" ELSE "again"

\* One turn of the loop: a head like the first one; or one of another length, after which
\* cur stays; or no head.
remove_heads ==
    /\ pc = "strip"
    /\ LET rest == Len(buffer) - strip.parsed_len
           same == Heads({URC_data})
           others == Heads(1..Total(segs))
       IN  \/ rest = 0 /\ Stripped(strip.valid_len)
           \/ rest > 0 /\ same # {} /\ RemoveHead(Lowest(same), Lowest(same))
           \/ rest > 0 /\ same = {} /\ others # {} /\ RemoveHead(Lowest(others), strip.cur)
           \/ rest > 0 /\ others = {} /\ Stripped(strip.valid_len + rest)
    /\ UNCHANGED <<answer, modem, tty, ATBuf, recv_tmp_buf, isRetryToRecv, URC_data, reports>>

Next ==
    \/ Transmit \/ Report
    \/ reader_recv_start \/ read_more \/ head \/ read
    \/ msg_len \/ silence \/ remove_heads

Spec == Init /\ [][Next]_vars

\* The modem sends what it has to send, and read() returns what has arrived.
FairSpec ==
    /\ Spec
    /\ WF_vars(Transmit)
    /\ WF_vars(reader_recv_start \/ read_more \/ head \/ read \/ msg_len \/ silence \/ remove_heads)

-----------------------------------------------------------------------------
(* Properties.                                                             *)

\* What is handed to proto_decode_wrapped_data() is what the server has sent: no byte of a head or
\* of a report in it, none missing, none twice.  (process_RECV)
Exact == pc = "done" => buffer = Sent(segs)

\* It is handed over at the first attempt, when it has come completely before the silence
\* and with no report in it.  The heads that arrive in parts are put together, but for one
\* behind whose second line the line pauses.  (process_RECV, "valid_len != total_len+5";
\* reader_recv_start, results -7 and -8)
Received ==
    "IPD" \notin answer.pauses =>
        <>(pc = "done" \/ (pc = "again" /\ (reports > 0 \/ tty # <<>> \/ modem # <<>>)))

=============================================================================
