# QlinkDataNode: a verification project in TLA+

QlinkDataNode is the daemon of a mobile hotspot that has no USIM of its own.
It owns two modems. **mdmImodem**, inside the box, gives the user the Internet
with a *virtual* USIM whose APDUs are answered by a real card on a distant
server. **mdmEmodem**, on a serial port, carries the TCP connection to that
server as long as mdmImodem has no network. Once mdmImodem has dialled up,
mdmEmodem is suspended and mdmImodem serves; when mdmImodem loses its network,
mdmEmodem is resumed. Two radios, one queue of requests, a dozen threads and
about thirty global booleans decide at any moment who talks to the server: that
decision is what this project models first. Around it are the parts that feed
it: the bytes of the serial port, the registration of mdmImodem, the reset of
the virtual USIM, and the traffic and the state that are shown to the user.

Contents: [1 Inventory](#1-inventory) · [2 Modules](#2-modules-and-the-code) ·
[3 Runs](#3-runs) · [4 Disagreements](#4-disagreements-between-the-code-and-its-comments) ·
[5 Exclusions](#5-what-the-passing-runs-exclude-and-why) · [6 Proofs](#6-proofs) ·
[7 Limits](#7-what-is-abstracted-and-what-is-left-out) · [8 Plan](#8-plan)

To run: `tlc -config EmodemService.cfg MCEmodemLink.tla` (any of the
configurations of section 3), `tlapm EvtPipes_proofs.tla` (any of the modules of
section 6; the longest takes five minutes).

**Line numbers.** Eight sources (`event_`, `at_rsp_`, `qmi_sender_`,
`qmi_receiver_`, `qmi_parser_`, `qmi_uim_sender_`, `qmi_dms_sender_`,
`qmi_nas_sender_qlinkdatanode.c`) end their lines with a bare CR, so that most
tools see one line. The map of `PROJECT.json` names line 1 for them and gives
the CR-counted lines next to the function. All other numbers count LF. Below,
`at_:4218` is line 4218 of `at_qlinkdatanode.c`.

## 1. Inventory

### Threads and what they share

| thread | waits on | role |
|---|---|---|
| EvtLoop | select() over the serial port, `evtloop_pipe`, timers | runs the AT engine of mdmEmodem; serves requests |
| MsgLoop | System V message queue | talks to yy_daemon, the rest of the box |
| Listener (`startUrcMonitorThread`) | URC port of mdmImodem, sockets | registration of mdmImodem, dial-up reports |
| Sender | a pipe | calls the QMI services of the virtual USIM |
| Parser, Receiver | a pipe, QMI callbacks | turn indications into APDU requests |
| UimSender, DmsSender, NasSender | a pipe each | one QMI service call per request |
| main (`startRstMonitor`) | a pipe, three-minute timeout | restarts the system if the USIM stays down |
| SockListener | a local socket | dial-up messages of another process |
| StatusReport | a pipe, one-minute timeout | periodic status reports, traffic counters |

Shared state and its protection: `ChannelNum` and the request queue (ChannelLock,
with unlocked reads), `acq_data_state` (acq_data_state_mtx), `isUimPwrDwn` and its
like (pd_mtx, in part), the pipes' writing side (evtloop_mtx, stat_inf_mtx), and
the booleans, most of which have no lock at all.

### Components

| component | state | operations | hard behaviour | what makes it correct | modelled in |
|---|---|---|---|---|---|
| **EvtLoop request pipes** (event_, main.c) | evtloop_pipe, three argument pipes, evtloop_mtx, transmit buffers | notify_EvtLoop, push_*, pop_*, process_events | a request and its arguments travel in different pipes; pops spin; a power-off drops requests half-way | every argument belongs to its request, none is left, no pop waits | EvtPipes |
| **mdmEmodem AT engine** (at_) | check_net_state, uartconfig_state, acq_data_state, suspend_state, callback of the serial event, ~30 flags | r_/w_ handlers of checkNet, uartConfig, acqData, suspend, resume | every handler must look at what other threads asked for meanwhile; dozens of early returns under ChannelLock | connects, serves, hands over, shuts down; never sends without a connection; releases its lock | Emodem … EmodemSusp |
| **its serial port** (at_) | ATBuf, recv_tmp_buf, counters of process_RECV | read_line, reader, get_OK, reader_recv_start, process_RECV | a read returns parts of lines, or several; reports come between answers and between data | each answer goes to its command; the data are exactly those sent | SerialLine, RecvData |
| **EvtLoop requests, ChannelNum** (event_, at_) | ChannelNum −1…4, ChannelLock | process_events for 0x00…0x06, enqueue_and_resume_mdmEmodem | requests arrive during a recovery, a suspension, a power-off | what is asked for is done, in the order the channel allows | EmodemReq |
| **Request queue** (queue_) | linked list, isQueued, StatInfReqNum | add_node, remove_first_node, remove_all_type_of_nodes_from_queue, queue_check_if_node_valid | outdated reports; APDUs of a USIM that went off | nothing but an APDU or a superseded report is dropped | Emodem |
| **EvtLoop timers** (event_) | timer_list, timeouts_list, one flag per timer | add_timer_*, clr_*, expire callbacks | a callback races the answer it replaces | no timer outlives what it guards | EmodemReq, Registration, UsimReset (callbacks) |
| **MsgLoop** (msq_) | isFTMPowerOffInd, isWaitToPwrDwn, qlinkdatanode_run_stat | power-off, AT commands, run states | power-off at any moment, partly without the lock | the server is told once, then the box goes down; the record is saved | EmodemReq, EvtPipes, Traffic, RunStat |
| **Listener** (socket_) | reg_urc_state, URC_array, isRegOn, isMifiConnected | urc_parse_hdlr, process_URC_array_v01, handle_reg_urc_state_var, mifi_status_hdlr | reports in batches and parts; a reset of the USIM in the middle of a handler | what it makes of the last report is what mdmImodem is; the traffic is taken back | Registration; its effects in EmodemReq |
| **Reset of the virtual USIM** (socket_, event_, at_, qmi_uim_sender_, qmi_sender_) | isRstingUsim, isUimPwrDwn, pd_mtx, rst_uim_cond, … | set LPM and power down; mark; ask the server; power up | four threads, two locks, flags without a lock | a USIM that lost its power gets it again, or the box restarts | UsimReset |
| **Sender** (qmi_sender_) | request pipe, virtual USIM data | ACQ_IMSI, DEL_SIMDATA, SET_ONLINE, APDU answers | calls back into the engine at any later time | the call finds the engine where it left it | EmodemReq (two calls), UsimReset (one) |
| **RstMonitor** (rst_) | rst_com_pipe, timeout | restart after 3 minutes, saving a counter | arming and disarming bytes of two threads | restarts only a USIM that stays down | UsimReset, Traffic |
| **Traffic control** (socket_ `flu_contrl_process`, msq_, protocol_) | three files, counters of the interface, limits | record, limit, end of booked traffic | restarts, power-offs, power failures, midnight | nothing counted twice or forgotten | Traffic |
| **Run states** (msq_) | qlinkdatanode_run_stat, last_status | msq_send_qlinkdatanode_run_stat_ind | bits shared by events, no lock | yy_daemon knows the last event about everything | RunStat |
| UIM, DMS, NAS senders | pipe each | reset, power, modes | one condition variable for several requests | each caller gets its own answer | the reset in UsimReset |
| QMI parser, receiver | one indication buffer, APDU channel | indications to requests | the buffer is overwritten; late answers | one answer per APDU | the request in EmodemReq |
| SockListener | socket | dial-up messages | reconnects | – | external input |
| Status reports | rsmp buffers | periodic report | – | – | Emodem, EvtPipes (requests) |
| AT commands of mdmImodem | none | format, parse | – | – | not modelled |
| Protocol codec | buffers | encode, decode | lengths, error codes | decode inverts encode | effects of an answer only |
| Cryptography | none | DES, DH | – | – | not modelled |
| Start-up, configuration, GPIO, log | files, pins | – | – | – | not modelled |

### How they interact

Whoever wants EvtLoop to act pushes arguments and writes one byte to
`evtloop_pipe`: `0x00` an APDU, `0x01` a status report, `0x02` a recovery of
mdmEmodem (with the new ChannelNum), `0x03` its suspension, `0x04` an AT command
of yy_daemon. EvtLoop serves it at once when the engine is idle
(`mdmEmodem_check_busy()`), otherwise it queues the request or sets one of
`isWaitToRcvr`, `isWaitToSusp`, and the handler that ends the present work has to
look. `isTermSuspNow`, `isTermRcvrNow` and `isWaitToPwrDwn` are set by Listener
and MsgLoop themselves and change the course of a suspension or recovery in
progress.

`ChannelNum` (common_qlinkdatanode.c:57-63) is the pivot:

| value | meaning | becomes |
|---|---|---|
| −1 | nobody has a connection, mdmEmodem is connecting | 0 |
| 0 | mdmEmodem is connected | 3 (dial-up), −1 (lost) |
| 3 | both are connected | 2 (suspension), 0, 4 (lost) |
| 2 | mdmEmodem is being suspended | 1, or −1/4 when cancelled |
| 1 | mdmImodem serves, mdmEmodem is off | 4 (request), −1 (recovery) |
| 4 | mdmImodem is registered, mdmEmodem is connecting | 3, 2, −1 |

The reset of the USIM runs beside it. A thread that finds the USIM of no use sets
`isRstingUsim`, has UimSender power it down and waits on `rst_uim_cond`; the modem
reports `+SIMCARD: NOT AVAILABLE`, which Listener marks in `isUimPwrDwn`; the ID is
sent again; the answer of the server has Sender power the USIM up, while EvtLoop
waits for it with `pd_mtx`. UimSender arms RstMonitor, Sender disarms it.

The hazards this leads to (locks left locked, stale checks, forgotten requests,
late timers, answers taken for those of other commands, a process that ends
between two writes) are listed with their lines and the properties that watch
them in `PROJECT.json`, "hazards".

## 2. Modules and the code

```
RequestChannel <- implemented by - EvtPipes → EvtPipes_proofs
                                      └─ MCEvtPipes
Emodem → EmodemNet → EmodemConn → EmodemXfer → EmodemSusp → EmodemReq → EmodemLink
                              EmodemLink → MCEmodemLink
                                 └─ EmodemLink_proofs
SerialLine → SerialLine_proofs
RecvData → MCRecvData         Registration → MCRegistration
     └─ RecvData_proofs          └─ Registration_proofs
UsimReset → MCUsimReset       Traffic → MCTraffic        RunStat → MCRunStat
     └─ UsimReset_proofs         └─ Traffic_proofs         └─ RunStat_proofs
```

An arrow is EXTENDS. The modules of the last three lines do not extend those of the
engine: each one opens up what the engine takes as an input or as one step. In
Emodem, a line of the modem is one of the causes "good answer", "bad answer",
"loss"; SerialLine and RecvData show how bytes become such a line. A URC is one
action of EmodemReq; Registration has the reports behind it, and the engine
reduced to what they need of it. A reset of the USIM is one step of UimSender in
Registration; UsimReset has its threads and locks.

### EvtPipes: the request channel of EvtLoop

One process per writing thread, at the granularity of single lock, push, write
and unlock calls (`pc`), and the reader `process_events()` one pop at a time
(`cur`). A value in a pipe is the ordinal of the request that pushed it, so that
"the argument belongs to the request" can be stated. The threads and the kinds
that each of them issues are constants. The status reports are prepared in both
orders the code has: `status_info_upload_preparatory_work()` encodes before it
locks, `trigger_rsmp_status_report()` after.

### RequestChannel: what the pipes promise

The abstract specification: whole requests are sent, taken in the order they were
sent, served one at a time with their own arguments, and discarded only during a
power-off and only if they carry none. `EvtPipes!Channel` instantiates it: a
request is *pending* from the byte in evtloop_pipe until its last argument is
popped, and *served* with whatever was popped.

### Emodem … EmodemLink: mdmEmodem's connection

| module | code | actions |
|---|---|---|
| Emodem | variables, `set_at_evt_waiting`, `dequeue_and_send_req`, `check_rsp_timers`, the w_ handlers as operators | – |
| EmodemNet | `r_checkNetHdlr`, `r_uartConfigHdlr`, `r_acqDataHdlr` from CGSN to CREG_3 | one per state |
| EmodemConn | `r_acqDataHdlr` NETOPEN, CIPOPEN_REQ, CIPCLOSE, CIPOPEN | one per state |
| EmodemXfer | `r_acqDataHdlr` CIPSEND_1/2, RECVING, WAITING, CATR_1/2, CUSTOM_AT | one per state |
| EmodemSusp | `r_suspendMdmHdlr` CIPCLOSE, NETCLOSE | one per state |
| EmodemReq | `process_events`, four timer callbacks, MsgLoop, Sender, Listener | one per request, timer, handler |
| EmodemLink | – | Next, fairness, properties |

* **The engine** is `at`: the four state variables, the callback armed on the
  serial event (`cb`, "none" if a handler returned without arming one), whether a
  socket number is held, and the ghost `link`: the connection is open, as far as
  EvtLoop was told. A handler reads one answer, changes the state and writes the
  next command; it is one action, the write handler it calls included.
* **Flags** are a set of the names of the booleans that are true; `Has(f)`.
* **ChannelLock** is held within an action only, except by `process_events()`,
  which is two actions (`req` is the request in between): other threads can read
  unlocked booleans in between, but not ChannelNum. A handler that returns with
  the lock held makes it `"lost"`; EvtLoop then stops for ever, and so does every
  other thread at its next lock.
* **flow**, **queue**: the request in transmission (flow_info) and those that
  wait. A status report in the queue becomes `OUTDATED` when a newer one is asked
  for (StatInfMsgSn).
* **Listener** handlers do several things, some with and some without a lock;
  `listener` holds the steps still to do, so other threads act in between.
* **Environment**: everything that comes from outside (a bad answer, a lost
  network, a refusal, a redirection, a silent server, an APDU, a report, a URC, a
  dial-up, an AT command, a power-off) is a *cause*. `Happens(c)` consumes one of
  `left[c]` and one of `left["any"]`; a run starts with one of the constant
  `Budgets`, which are the only bounds.

### SerialLine: the answers of the start-up commands

What the modem sends is a sequence of bytes, `Parts` to a line, with EOL between
the lines; `Transmit` brings a prefix that ends with a line to the serial port,
`TransmitPart` one that does not, and `Report` lets the modem say something
unasked behind what it has still to send. `Select` is select() with the callback
armed; `read_line` is one turn of the loop in `read_line()`: it takes the first
line of `ATBuf`, reads what has arrived, or gives up with EAGAIN. `parse_line` is
`reader()`, `get_OK` what the handlers do to the bytes behind an answer, and
`r_checkNetHdlr` the three parts of the handler, for ATE0, AT+CSQ and AT+CGREG?,
with the `goto __READER_AGAIN__` from one to the other (`label`).

### RecvData: the answer of the server

In state RECVING the modem hands bytes of the connection over in reports, a head
of two lines and data. `reader_recv_start`, `read_more` and `head` read the first
head, over several calls if it comes in parts (`recv_tmp_buf`, `isRetryToRecv`);
`read` the rest of an answer of one report; `msg_len`, `silence` and
`remove_heads` are `process_RECV()` for USIM data: everything is read until nothing
comes for five seconds, and one turn of the loop removes one head in place, with
`cur`, `parsed_len`, `valid_len` and `total_len` as in the code. A line of a head
is one byte here; the bytes of the data are numbered, so that `Exact` can say that
they are those the server has sent, in order. `Answers` says which answer comes, in
reports of which lengths, and where the line may pause.

### Registration: the Listener thread

`wire` holds the reports that mdmImodem has sent. `urc_parse_hdlr` reads any number
of them at once, possibly ending within one (`urc_fragment`), puts them into
`URC_array`, looks for the special ones (`Checked`), folds the others into a new
state (`process_URC`, `NextState`), and acts on the state that results
(`handle_reg_urc_state_var`): it takes the traffic back (`Released`, `Doubted`:
one case per ChannelNum) or resets the USIM, which splits the handler in two:
`UsimReset` is what follows once UimSender is done, with `pc.then` the things to do
then. EvtLoop is reduced to what it does to ChannelNum and the flags: the recovery
(`Resumes`, `Recovered`), the suspension (`HandsOver`), the APDU that is not
answered in time (`ApduRsp_timeout_ext_cb`, `AfterTimeout`), and the answer to the
ID that powers the USIM up (`IdAnswered`). `Cases` says what mdmImodem may report.

### UsimReset: the reset of the virtual USIM

`pc` says where each of EvtLoop, Listener, UimSender and Sender is; `lock` holds
ChannelLock and pd_mtx, `pipes` how often each thread is still to be asked,
`rst_pipe` the bytes for RstMonitor. `Tests` and `Sets` are the test of
`isRstingUsim` and the assignment behind it; they are two steps, as no lock keeps
them together. `UimSenderReads`, `Arms` and `UimSenderCompletes` are the request to
the modem, the byte for RstMonitor, and the completion. Listener reads the report
(`ListenerReads`), waits for pd_mtx (`MarksPoweredDown`) and goes on to the
handler of the report. EvtLoop connects, sends a status report for which it has
to wait for Listener (`Uploads`, `Recovered`, `Uploaded`), or the ID, and
powers the USIM up (`power_up_virtual_usim`), with pd_mtx until Sender is done
(`PoweredUp`). RstMonitor is armed, disarmed, or times out. A case of `Cases` says
how many fatal reports and time-outs there are, and which `hasty` moments it has:
each of the seven is a moment the code does not exclude but that it needs some
luck to meet, and most properties say which of them they cannot bear.

### Traffic: the record of the traffic

The thread of the status reports runs `flu_contrl_process()` every three minutes
(a *slot*). `FluReads` is its beginning up to the reading of the interface,
`FluWrites` the rest, so that the process can end in between. `disk` holds the three
files (the record of the day, the counter saved for the next process, the booked
traffic used up), `flu` the variables of the process, `limit` the limit of the speed
in the kernel. `IdAnswered` is what the answer to the ID does to them;
`RstMonitor` and `Restarts` end the process but not the box; `PowerOff` is what
MsgLoop saves; `PowerFails` saves nothing. `due` and `unread` are history variables:
the traffic that the record should have, and what no run has seen yet.

### RunStat: what yy_daemon is told

A call of `msq_send_qlinkdatanode_run_stat_ind()` goes through `Enters`, a `Reads`
and a `WritesBit` per `bit_set()`, one of each for the mask (`WritesMask`), `Encodes`,
`Sends` and `Returns`; `Sets`, `Clears` and `Masked` are the cases of its switch.
EvtLoop's reports follow the states of the engine in which they are made (`CheckNet`,
`NetOpen`, `CipOpen`, `IdAnswer`, `Service`), each of them a `Goes` from one state to
another, once if it has a flag like `isPoorSigNotified`; the other threads report at
any time. `said` is a history variable: the last event about each thing.

## 3. Runs

| run | bounds | about | distinct states |
|---|---|---|---|
| evt_pipes | 3 threads, 1–2 requests of each kind | pipes under every interleaving and a power-off at any moment | ≈ 752 000 |
| everything | any 2 causes of 12, or 2 power-offs and a lost connection | what no fault may break | 544 122 |
| service | 5 of 2 APDUs, 1 report, 1 AT command, 1 bad answer; 4 of 2 APDUs, 1 report, 1 dial-up; 4 of 1 APDU, 1 report, 1 AT command, 1 power-off | start, connect, serve, hand over, resume, shut down; liveness | 88 328 |
| serial_line | lines of 2 bytes, 3 reports | every delay between the bytes | 408 335 |
| recv_data | data of up to 8 bytes in up to 3 reports, 2 reports between | every pause of the serial line | 18 708 |
| registration | seven cases, 2–5 reports each, 1 APDU time-out | every batching of every sequence of reports | 1 830 105 |
| traffic | 2 days of 4 slots, 5 units of traffic, 2 restarts, 1 power-off, 1 power failure | the record over midnight and the end of processes | 115 782 |
| run_stat | 2 checks of the network, 3 reports of 2 other threads | every order of the events | 173 885 |
| usim_reset | 11 cases: 2 fatal reports and 2 time-outs, or 1 of each at a bad moment | every interleaving of the four threads and RstMonitor | 247 542 |

**evt_pipes.** `PopsMatchRequest`, `PopNeverBlocks`, `Drained`: see section 6.
`NewestReportServed`: a thread may encode its next report before EvtLoop has
transmitted the last one, which is then replaced, so a request need not transmit the
report it was issued for. What it transmits is the newest report of its thread, gone
only while that thread encodes another (the buffer is freed first), and if this is not its
own, a request of the newest is still to come. `ImplementsRequestChannel`: all of it together, as a refinement. Three threads
are those with different code paths (EvtLoop itself, Listener and MsgLoop); two
requests of a kind are what it takes to swap arguments.

**everything.** The properties that hold under every fault. `PowerOffInOrder`: the
power-off is only told or done when it was asked for, and told once, unless MsgLoop is
asked again: nothing at msq_:1188–1190 keeps a second request from setting the flags
once more, and with a connection lost in between the notice is transmitted and due at
the same time. The flag `asked_again` is a ghost that says so; the second budget of the
run has the case.
`HandsOverAfterClosing`: mdmImodem takes over only from a suspension whose
connection is closed. `RequestsKept`: queued requests leave the queue to be
transmitted, APDUs excepted. Two causes are enough to bring any two things
together, in any order and at any point of the engine's work; section 6 has the rest.

**service** names what may happen, in three cases, and claims more: the lock is
released (`LockReleased`), nothing is sent without a connection
(`SendsOnOpenLink`), the values of ChannelNum mean what their comments say
(`ChannelAsDocumented`: at −1 and 4 a recovery is at work, at 2 a suspension, at 1
mdmImodem has its network and mdmEmodem is stopped), and nothing is left behind
(`NothingLeftBehind`: the timer of an ID runs only for an ID in transmission, an idle
engine has no suspension left to do, and a waiting engine counts as idle).
Liveness: `Connects`, `SuspensionEnds`, and `ShutsDown`, with the connection
closed. `LockReleased` and `SendsOnOpenLink` are stated for a box whose mdmImodem
has not dialled up; section 5 says why.

**serial_line.** `AnswersInStep`: what is still to come is the answer of the
command that waits with its OK, and at most one OK before them. So no answer is taken for that of
another command, and none is thrown away; `CheckEnds` is the liveness that follows.
Two bytes per line give every position a line can be cut at; three
reports are one before, between and behind the answers of a command.

**recv_data.** `Exact`: what is handed to the decoder is what the server has sent.
`Received`: it is handed over, at the first attempt, when it has come completely.
Three reports have a first, a middle and a last head; the lengths are equal but for
the last, as the modem sends them.

**registration.** `LastReportCounts`: when everything was read and the USIM is on,
a registered modem is known to be registered; one that is not counts neither as
registered nor as dialled up, and the traffic is not left with it.
`IdleOncePoweredDown`: the sentence of socket_:1765. `HandledOnce`: a read takes the
reports it was given, each one once, as long as there is room for them (`Room`, section
5). Three reports are a registration, what ends it, and what comes on top.
`CHAR_REPORTS` is 6: a report has some 42 bytes and an unsigned char counts 255 of them.
The cases with three reports may have more than six on the wire, so longer reads do
occur, with what `Overrun` makes of them; the case with cuts has two reports and stays
within the bound. A case with five harmless reports and cuts does not; `late` excludes it
from the first two properties, so that it tests only `HandledOnce` and the types.

**traffic.** `Counted`: after every run the record is the traffic of the day, or all
of the booked traffic. `LimitHolds`: the speed is limited accordingly. `RecordKept`: the
end of a process does not make the record smaller. `EndsWhenUsedUp`: booked traffic
ends in the run that finds it used up and in no other. Two days have one midnight;
five units pass both limits and the amount that is booked; two restarts in a row are
one whose counter is read after another. The first minutes are two slots, as in the
code.

**run_stat.** `LastEventsShown`: when no thread is in the function, every bit is that
of the last event about its thing, and the last message says so.
`OutOfTrafficStays`: once it is recorded that there is no traffic left nothing else is
said.

**usim_reset.** `Recovers`: a USIM that has lost its power gets it again or the box
restarts, whatever the server does. `RestartsForAReason`: it restarts only when the
USIM is off or about to be, unless RstMonitor is told of the power-down late
("early"), and reboots only when nobody has marked it.
`PowerStateTrue`: the mark that the USIM is off does not outlive the power-down.
`ListenerAnswers`: EvtLoop and Listener do not wait for each other.

**Deadlock** is checked in `evt_pipes`, with quiescence as an explicit step. All
other systems really stop: after a shutdown, a restart or a lost lock, or when
nothing is left to happen.

**Fairness** is weak throughout, and only in specifications with a liveness property.

* EmodemLink: the engine (the modem answers every command it is given; how often
  it answers badly is bounded by its cause); EvtLoop serving its pipe and going on
  with the request it read (select() returns while a byte is in the pipe); the idle
  and the power-off timer (they expire after a fixed time and nothing has to happen
  first); the steps the other threads have begun. Not fair: the causes, and the timers
  of a silent server, which may always answer first.
* SerialLine, RecvData: the modem sends what it has to send, select() or read()
  returns when it has arrived, and EvtLoop goes on. The reports and the cuts are not
  fair.
* UsimReset: the four threads run, the modem obeys a power-down, RstMonitor reads its
  pipe and its three minutes pass. Not fair: reports, time-outs, the connection
  and the server; so `Recovers` cannot rest on an answer.

## 4. Disagreements between the code and its comments

Three runs check what a comment or a log line says, and TLC finds it violated. Every
one is a behaviour of the code as written; the lines are quoted in
`PROJECT.json`, "findings".

| run | property | what happens |
|---|---|---|
| busy_for_ever | `WaitingIsIdle`: check_busy 0 means idle | a dial-up before the first network check skips the serial set-up; the engine waits and counts as busy for ever |
| traffic_window | `Counted`: "the time is 0:00" begins the record of a day | the branch is taken by every run of the first six minutes, which are two: the second throws away what the first has recorded |
| run_stat_forgotten | `CardKept`: Evt9 "_ _ _ 1 _ _ _ _ : Fine signal." leaves the bits of the card | at_:6898 clears them whenever AT+CSQ is answered: the next message says that the card was rejected |

## 5. What the passing runs exclude, and why

The passing runs claim much, and *their restrictions are part of the result*. Each
of the following is something the code does, or permits, that would violate a
property; a run can be made to show it by changing the constant, or dropping the
premise, that is named.

**The engine** (Budgets of `service`; each shows with one more cause):

* `LockReleased` fails with one loss of the network, one silent server, one URC, or
  one dial-up (premise `OnItsOwn`): many handlers give up on an "unexpected"
  ChannelNum without unlocking, and a report of the modem, a timer or Listener can set
  it at any time.
* `SendsOnOpenLink` fails with one URC: Sender answers ACQ_IMSI or DEL_SIMDATA in the
  middle of a suspension. The USIM data request queued during a suspension is sent
  when it ends, at ChannelNum 1, though data should be sent at 0 or 3.
* `ShutsDown` fails with a network loss during the closing of the power-off
  (at_:12237: `isPwrDwnRspAcq` is ignored), and with a dial-up (the power-off
  timer finds ChannelNum 0 without a socket, writes `AT`, and waits for ever).
* `ChannelAsDocumented`: one unanswered ID sets −1, the second is answered, and nobody
  resets it; a dial-up sets 3 while mdmEmodem is still opening its first connection
  (3 should mean that both are connected); an AT command of yy_daemon takes over the
  serial event during a suspension, and 2 stays; two status reports make EvtLoop ask
  itself to suspend with mdmImodem off, and hand over to nobody; a loss of network
  during a cancelled suspension leaves a running mdmEmodem at 1.

**The serial line** (premise `Regular`): a line that arrives in two parts is thrown away
by INIT_ATBUF (at_:4218); an answer behind a report that `reader()` does not know is
swallowed by `get_OK()` (at_:5501); NETWORK CLOSED during AT+CSQ goes on at the
label of AT+CGREG? (at_:6943). `AnswersInStep` and `CheckEnds` fail with each of them.

**The answer of the server** (`Answers`, and the premise of `Received`): a pause behind
the second line of a head loses the length (at_:4963); three different lengths of
reports make the loop count a head twice (at_:5371); what is read behind an APDU answer is
dropped with it (at_:5110).

**Registration** (`late`, `good_signal`, `slow_server` of the cases, and the premises
`Silent`, `Answered`): a report of FAIL with a good signal restores the
state of before the batch (socket_:2018); a state REJECTED survives when reports come
during the reset (socket_:1440); an array whose last line is a fragment is handled once
more with its rest (socket_:2443); an answer of the server that comes before the USIM
is off leaves `isRstingUsim` set (at_:10857); after an APDU that was not answered
`isRegOn` stays as it was although the USIM is reset. A USIM that loses its power
without a reset makes the Listener reboot the box (socket_:1016).

How much one read may hold is bounded twice, and `Room` states both bounds. `URC_array`
has twenty elements: of more reports the rest is lost (socket_:2534). And
`parse_raw_URC_data()` counts the bytes of the read in `char buf_idx` (socket_:832),
while read() may return up to 1024 of them (socket_.h:15). Past 255 bytes (127 where a
char is signed, which would be `CHAR_REPORTS` = 3) `read_bytes == buf_idx` at 863, 891 and
899 is never true: the scan leaves the buffer, the first part of a report that is cut is
taken as all of it (`Misread` has what it may be taken for: a value that is missing is
0), whatever lies behind fills the array, and no fragment is stored (`Overrun`). Six
reports are enough for that, far fewer than twenty, and it is a premise of all three
properties in section 6: with it dropped, a registration that is cut can pass unnoticed
(`LastReportCounts`: TLC finds it with the last case of the run and `late` FALSE), although
socket_:263 says that such a fragment "will be stored into URC_frag". What is left out of the model is that the scan may also end the process: by
leaving the stack, or in `strchr()` of a cut "+REGREJ:", which returns NULL.

**Traffic** (`Hasty`, empty in the passing run): "restart": the thread of RstMonitor does
not cancel the one that counts, which may run once more behind the saved counter
(rst_:147); "traffic": the interface of a new boot has counted exactly as much as
was saved (socket_:5889); "power_off" before the first run records 0 (msq_:1218);
"power_failure" while the record, which is truncated first, is written (socket_:4218);
"answer": the answer that begins a booking is overwritten by a run in progress
(socket_:5906); "day": booked traffic is dropped when the process begins on another day
(socket_:5823); "midnight": section 4. The limits are an unsigned int of bytes: 4096
megabytes are none (socket_:5940); `Width` is large enough in the run. After
another booking the old limit stays.

**Run states** (`Hasty`, empty in the passing run). `msq_send_qlinkdatanode_run_stat_ind()`
has no lock although several threads call it, so what it promises is what it promises to
threads that happen to take turns. Three premises say so, and the theorems of section 6
have them in their statements:

* `InTurn`: every call finds the function empty. Without it ("overlap") two threads lose
  each other's bits (msq_:373) or send an older message last (msq_:537).
* `Fresh`: an event that is left out because it repeats the last one says nothing new.
  Without it ("repeat") an event repeated after it was forgotten is ignored (msq_:301).
* `NoApdu`: Evt20 is not reported. Evt4 behind it leaves the code of the card at 1100
  (msq_:342), which the table gives to another event; Parser, which reports Evt20, is not
  among the threads of the run. What is said about the modem does not rest on this.

**The reset of the USIM** (`hasty`; all of them are in the run, and a property that
cannot bear one says so):

* `RestartsForAReason`, its first part: when the USIM loses its power before UimSender
  has armed RstMonitor ("early"), and it is powered up and reset again in between
  ("overtaken"), RstMonitor counts although the USIM is on. The cases of the run with
  bad moments have one fatal report, which is too few for that; the attempt to prove the
  property without the exception showed it. Its second part: UimSender clears
  `isUimPwrDwnMssage` after the modem has obeyed ("early"), and under "race", "late",
  "overtaken", "stale" and "answered" RstMonitor may find the flag of another reset;
* `PowerStateTrue`: Listener marks a power-down that was already undone ("stale",
  "answered");
* `ListenerAnswers`: EvtLoop waits for Listener with ChannelLock ("answered");
* `Recovers`: the byte that disarms RstMonitor belongs to an older reset ("overtaken",
  "answered").

Outside of the cases: at_:10862 leaves its handler with pd_mtx locked (modelled, in
`SetsOnline`); EvtLoop waits for Listener with pd_mtx (at_:9213–9223, 4095) while
Listener waits for pd_mtx (socket_:1036), which "poor" admits and RstMonitor ends; the
flag of that wait is shared with another reader (socket_:3815).

## 6. Proofs

The theorems hold for every value of the constants: any number of threads, requests,
reports, restarts or days, any budget of faults. Their only assumptions are the named
ones of the modules (`EvtPipesAssumption`, `EmodemAssumption`, `TrafficAssumption`,
`UsimResetAssumption`, `RunStatAssumption`, `SerialLineAssumption`,
`RecvDataAssumption`, `RegistrationAssumption`), which TLC evaluates in the runs, and the
hypotheses of the last column.

| module | theorem | statement | hypotheses |
|---|---|---|---|
| EvtPipes_proofs | Invariance | `Spec => []IInv` | |
| | TypeCorrect | `Spec => []TypeOK` | |
| | ArgumentsMatch | `Spec => []PopsMatchRequest` | |
| | PopsReturn | `Spec => []PopNeverBlocks` | |
| | NothingLeftOver | `Spec => []Drained` | |
| | NewestReportAlwaysServed | `Spec => []NewestReportServed` | |
| | Implementation | `Spec => ImplementsRequestChannel` | |
| EmodemLink_proofs | Invariant | `Spec => []IInv` | |
| | TypeCorrect | `Spec => []TypeOK` | |
| | PowerOffOrderly | `Spec => []PowerOffInOrder` | |
| | HandedOverClosed | `Spec => HandsOverAfterClosing` | |
| | RequestsNotLost | `Spec => RequestsKept` | |
| SerialLine_proofs | TypeCorrect | `Spec => []TypeOK` | |
| | AnswersTakenInStep | `Spec => []AnswersInStep` | |
| | NoNullRead | `Spec => [](Regular => pc # "crashed")` | |
| RecvData_proofs | TypeCorrect | `Spec => []TypeOK` | |
| | ReceivedExactly | `Spec => [](Undisturbed(answer) => Exact)` | in the theorem: see below |
| Registration_proofs | TypeCorrect | `Spec => []TypeOK` | |
| | CalmAlways | `Spec /\ []Room => [](TypeOK /\ CalmInv)` | in the theorem |
| | LastReportAlwaysCounts | `Spec /\ []Room => []LastReportCounts` | in the theorem |
| | AlwaysIdleOncePoweredDown | `Spec /\ []Room => []IdleOncePoweredDown` | in the theorem |
| | ReportsHandledOnce | `Spec => HandledOnce` | `Room`, in the property |
| UsimReset_proofs | Invariant | `Spec => []IInv` | |
| | TypeCorrect | `Spec => []TypeOK` | |
| | MarkedWhileDown | `Spec => []PowerStateTrue` | |
| | NoDeadlockOnChannelLock | `Spec => []ListenerAnswers` | |
| | RestartedForAReason | `Spec => RestartsForAReason` | |
| Traffic_proofs | Invariant | `Spec => []IInv` | `Hasty = {}` |
| | TypeCorrect | `Spec => []TypeOK` | `Hasty = {}` |
| | CountedExactly | `Spec => []Counted` | `Hasty = {}` |
| | SpeedLimited | `Spec => []LimitHolds` | `Hasty = {}`; the limits rise, and fit into the integer |
| | BookedEnds | `Spec => EndsWhenUsedUp` | `Hasty = {}` |
| | RecordSurvives | `Spec => RecordKept` | `Hasty = {}` |
| RunStat_proofs | TypeCorrect | `Spec => []TypeOK` | |
| | Calm | `Spec /\ [][InTurn]_vars => []CalmInv` | in the theorem |
| | NoTrafficTold | `Spec /\ [][InTurn]_vars => []OutOfTrafficStays` | in the theorem |
| | ModemInvariant | `Spec /\ [][InTurn]_vars /\ [][Fresh]_vars => [](CalmInv /\ LatestInv /\ ModemInv)` | in the theorem |
| | ModemEventsShown | `Spec /\ [][InTurn]_vars /\ [][Fresh]_vars => []ModemShown` | in the theorem |
| | Invariant | `... /\ []NoApdu => []IInv` | in the theorem |
| | EventsShown | `... /\ []NoApdu => []LastEventsShown` | in the theorem |

Section 5 says what the code does without the hypotheses: `Hasty` of Traffic names the
moments at which a property does fail, and so do a limit of 4096 megabytes and more reports
than there is room for. The theorems of RunStat and Registration hold for every `Hasty` and
for every case: what they ask is said of the behaviour, step by step, and is not a
restriction of the constants. UsimReset needs none, since its properties name the bad
moments themselves, and the engine none, since no fault may break what is proved of it. The
runs meet the hypotheses, but for `Undisturbed`, and for `Room`, which the cases with three
reports also leave.

The invariants behind them are in the sections at the end of the component's module, as
conjunctions of named parts. Before it was proved each one was checked by TLC with the
constants of its run.

**The request pipes.** None of the four properties is inductive: they speak of the moment
of reading, and what is true then depends on what was pushed long before. `IInv` says what
the pipes hold at every moment:

* `MutexInv`: at most one thread is past the lock, at a place that fits its request;
* `ArgInv`: an argument pipe holds exactly the ordinals pushed and not popped, in
  order: its length is *notified + unannounced − popped*;
* `EvtInv`: evtloop_pipe holds, for each kind, exactly the ordinals notified and
  not read, in order, so the head of its kind is *fetched + 1*;
* `CurInv`: the request being read is the last one fetched of its kind, and what is popped
  so far is its own;
* `BufInv`: a transmit buffer holds its thread's latest report, unless it is being encoded,
  and of that report there is a request in the pipe or in hand, behind all older ones.

`PopsMatchRequest` then follows since the pop takes ordinal *popped + 1*, which is
the ordinal of the request. `Drained` and `PopNeverBlocks` follow from the length
in `ArgInv` and the lower bound in `EvtInv`; `NewestReportServed` is `BufInv` for the request
in hand.

The refinement needs the same invariant, before and after the step: notify_EvtLoop()
is a *Send*; process_events() is a *Take*, a *Discard* or, for a request with
arguments, no step; the last pop is the *Take* of those, with the right argument by
`PopsMatchRequest` in the next state; the rest are stuttering steps. Four lemmas
about sequences of requests carry the mapping of the pipe.

**The engine.** `PowerOffInOrder` looks at four flags and the request in hand; what they
become depends on those not named. A power-off that was asked for is, in turn,
`power_off_req`, `isWaitToPwrDwn`, `isNeedToSendOutReq0x65`, a `PWR_DOWN` in the queue and
the request in hand. `AskedInv` says that each of these, the power-off timer included,
implies `isFTMPowerOffInd`; `OnceInv`, that there is one of them at a time;
`RequestInv`, that an engine that transmits has a request to transmit; `ClosedInv`, that a
connection being suspended is not open. Since the many handlers end in a few ways
(`Waits`, `StartsOver`, `SuspendsWith`, …), each way is a lemma: given that the flags
it is handed are fine, so is the state it leaves.

`RequestsKept` compares the queue of two states, and the queue may be of any length.
The first lemmas say what a removed first element, an appended one and a changed one do to
the number of nodes of a kind; that `WithoutApdus` keeps every other node, in its recursive
definition, is proved by induction over the set of the indices up to *n* for which it
holds. Every end of a handler then either keeps the number of each kind, or takes the
first node and transmits it. The steps that drop APDUs each show one of the four excuses.

Two things came of the attempt to prove it: a second power-off is not guarded against
(section 3, `asked_again`), and the request of a recovery carries one of three values,
which the type now says.

**The serial line.** The answers are told apart by where they begin, so `AnswersInStep`
speaks of the places in `Coming`, what is read and not yet read in one sequence. It is
not inductive, since it says nothing of what lies between two answers: `Lines` says that
what comes is whole lines, every part behind its first one and an EOL behind the last, and
that every line is one that the reader knows; `Greeting`, what comes before AT+CSQ is
written. Two lemmas carry the proof: `InStepBehind`, dropping a first part of the
sequence that holds no answer, or only the OK before, keeps the commands in step; and
`NextLine`, the line that `read_line()` returns is the first whole line of the buffer, with
at most one answer in what is dropped. That the buffer never is empty where the reader
looks for a line (`NoNullRead`) is a part of the same invariant. No line has to be of the
two parts that it has in the run.

**The answer of the server.** `Exact` is a statement about the last moment only, and two
invariants lead to it. While the answer is read (`Reading`), what has been read, what has
arrived and what is still to come are, one behind the other, the stream that the modem has
sent, however the three are shared out between `recv_tmp_buf`, `ATBuf` and the buffer. While
the heads are removed (`Strips`), *J* reports are in the buffer and the first *c* heads are
out of it: its first `Sums(segs)[c]` bytes are the data, the rest is the stream, moved by
two bytes for each head; `valid_len` and `parsed_len` are what they have to be for *c*
heads. The lemmas under these are about the stream: where each report ends (`Ends`), what
each byte of it is (`ReportAt`), so that the lowest head the search can find is the
next one (`Searched`, `NextHead`) and the check of the length accepts only all *J* of
them. `Sums` and `Stream` are recursive functions, so that their values at every index
can be proved from their definition (`StepByStep`) by induction over a set of indices.

`Undisturbed(answer)` is: no other report comes; an answer to an ID or to an APDU is one
report; the reports of USIM data have one length, but for the last one. The first is
stronger than in the run, which has two other reports, but no pause of five seconds
together with them: bytes of a report could then make up for as many bytes that are
missing, and the check of the length would accept them. The last is what section 5 says
about three different lengths. The pauses, the stalls, `ReadMax`, the number of reports and
their lengths are arbitrary.

**The registration.** `LastReportCounts` compares what is folded from batches of reports,
which may begin and end within a report, with what mdmImodem is. The report that decides
may be on the wire, in `urc_fragment`, in the part of `URC_array` that the next read
handles once more (`Kept`), or handled. `CalmInv` has two halves. `NoReset`, while no USIM
is reset: a report that has the USIM reset is the last one that was said; the last report
that is not harmless, among those that were not read, is a registration if mdmImodem is
registered and a loss if not (`Decided`); if there is none (`Calm`), the state is right
already, and what is handled once more does not spoil it; the traffic is, or will be, with
mdmEmodem (`Taken`). `InReset`: nothing is left on the wire but the report of the
power-down, which may come in two parts, and the state is IDLE; after an APDU that was not
answered the wire may hold more, but then what is read is thrown away until the power
is back. The lemmas follow a read: which reports it takes (`ReadIs`, `UnheardAfter`), what
the loop over them makes of the state, of the flags and of the traffic (`FoldClean`,
`FoldTail`, `FoldDecided`, `FoldCalm`: a recursive function, so that its values are proved
by induction over a set of indices), that the end of the handler resets the USIM or
settles all of it (`HandledSettles`), and that what remains is decided or calm again
(`AfterRead`). All of it rests on `Room` in every state: a read that
overruns its buffer says nothing of what was reported.

**The reset of the USIM.** `RestartsForAReason` depends on what four threads have yet to
do. Each part of `IInv` is stated for the bad moments that it can bear:

* `SenderInv`: Sender powers the USIM up once for each time it is asked, and EvtLoop has
  pd_mtx meanwhile; `DownInv`: a USIM that is off is marked so, or the report is under way;
  `MarkInv`: Listener does not need ChannelLock while a power-down is marked, which is
  `ListenerAnswers`. All but "answered".
* `StaleInv`: no report of a power-down is left over when the USIM is powered up, from which
  `PowerStateTrue` follows. All but "answered" and "stale".
* `ArmedInv`: a byte that arms RstMonitor, when it is the last one in its pipe, belongs to
  a power-down that is not yet undone. All but "early".
* `ResetInv`, `QuietInv`, `ToldInv`: one reset at a time; none of the reports behind that of
  the power-down would have the USIM reset again; what Listener has marked is forgotten
  only when RstMonitor is disarmed. "poor" only.

**Traffic.** What is due, what is recorded and what the interface shows are three counters
that three kinds of restart reset differently. `SinceInv` ties them together: what no run
has seen is what the interface counted since `Base`, which is the value the thread
remembers or, in a new process, the one that RstMonitor saved. `DailyInv`, `BookInv` and
`MidnightInv` say whose the record is in between: due in full, or still that of another day,
to be dropped by the first run. `SpeedInv` follows the limit of the kernel. In the proof a
run of `flu_contrl_process()` is two steps, so every part is stated for the state
"counting" between them too.

**Run states.** "A bit shows the last event" is not true while a thread is in the function,
nor is it inductive: an event that is not reported again, being the last one, must not
have been forgotten. So there are three layers, each with what it asks of the threads
(section 5). In turn: `AloneInv`, a thread writes what it has read; `TrafficInv`, the end of
the traffic is told before it is recorded. In turn and with `Fresh`: `LatestInv`, EvtLoop is
where it can be after the latest event (`Places`), so that the one it reports again is the
one that was said; `ModemInv`, a bit of the modem is still to be written, with the right
value, or shows the last event. Without Evt20 too: `CardInv`, the same of the card, and
`SentInv`, the last message is the word unless a call is under way. `Goes` has an operator of facts beside it in the proof (`Way`), so that
the thirty ways of EvtLoop need not be told apart in each lemma.

**Only model-checked:**

* Liveness (`Connects`, `SuspensionEnds`, `ShutsDown`, `CheckEnds`, `Received`, `Recovers`),
  which under fairness is out of the prover's reach.
* What the engine promises when little goes wrong (`LockReleased`, `SendsOnOpenLink`,
  `ChannelAsDocumented`, `NothingLeftBehind`): it depends on the budgets, so an invariant
  has to count what may still happen.
* `Exact` with other reports between those of the data.

## 7. What is abstracted, and what is left out

Data are abstracted to what the control flow tells apart: an answer is good,
bad, or means a lost network; a request is its kind; times, serial numbers,
message contents, retry counts (a retry and giving up are both possible) and
logging do not appear, except in the modules that are about them.

* **Engine.** `StatInfReqNum` is a nondeterministic choice where it is read. The seven
  queries COPS_1 … CREG_1 are one state. Left out: the UDP link and the
  authentication of the soft card, the detours that read manufacturer information and
  the PDP context, the standby requests 0x05 and 0x06, errors of read() and write() on
  the port, the start with the virtual USIM already powered down, the extended timer of
  APDU answers, the retry loop over several open sockets, and which flow_info the Sender
  and Listener threads overwrite. Expired timers run at once, without the list of
  pending timeouts.
* **SerialLine** has the check of the network, whose three commands use the reader in
  the two ways it is used. **RecvData**: overlapping memcpy() is a move; memory outside
  of the buffer is not modelled ("crashed" stands for it); the line pauses for five
  seconds only between two reports.
* **Registration**: a handler is atomic but for its wait for a reset; a line comes in
  at most two parts; a request for a recovery is a flag; `isApduRspTimeout` is a
  #define for `isEnableManualApdu`; `last_reg_urc_state` and the versions of the report
  format are left out.
* **UsimReset**: left out are `isCancelRecoveryNet`, the power-off that ends
  RstMonitor's loop, the connection test (socket_:2358, which asks RstMonitor once
  only), Parser's reset (`qmi_parser_` CR lines 451–493), the buffers of the
  asynchronous QMI calls; PowerUpUsimAfterPowerDown has no caller.
* **Traffic**: the clock of the box is right, and the thread keeps its
  three minutes over a restart. Left out: limit commands that fail, FluMonitorProcess,
  changes of the mode, the first NTP, a file that is read while it is written.
* **RunStat**: the message queue keeps its order; the events 25, 26, 21 and 22 have no
  caller.

`PROJECT.json`, "components", gives the reason for each part that is left out or
partial. Not modelled at all: the AT commands of mdmImodem and the codec (formatting and
parsing without state), the cryptography (no state, and out of TLC's reach), start-up,
configuration, GPIO and log (files and pins, no decisions that others depend on).

## 8. Plan

Done: **M1** EvtPipes and RequestChannel with their proofs; **M2** Emodem …
EmodemLink; **M3** SerialLine and RecvData; **M4** Registration and UsimReset;
**M5** Traffic and RunStat; **M6** the proofs of
EmodemLink, UsimReset, Traffic, RunStat, SerialLine, RecvData and Registration.

Next, in this order:

1. **Proofs.** `NothingLeftBehind` of the engine, for the timers of an ID; then
   `ChannelAsDocumented`.
2. **LockOrder**: ChannelLock and acq_data_state_mtx, which Sender and EvtLoop take in
   opposite orders; deadlock.
3. **ReqQueue**: the linked list with isQueued and StatInfReqNum, refining the
   queue of Emodem.
4. **EvtTimers**: timer_list, timeouts_list and the expired flags, late callbacks.
5. **ApduChannel**: Parser, EvtLoop and Sender around one APDU, with its timers:
   one answer per APDU.
6. **Codec**: length and error-code functions of protocol_qlinkdatanode.c against
   reference definitions over bounded inputs; server fail-over and ID retry counters.
