--------------------------- MODULE RunStat_proofs ---------------------------
EXTENDS RunStat, TLAPS
(***************************************************************************)
(* Proofs about RunStat.  CalmInv is about the threads: the types, one     *)
(* thread at a time in change_dev_stat_and_inform_yydaemon(), and what     *)
(* EvtLoop has told of the traffic.  LatestInv says that the latest event  *)
(* about a thing is one that has not been forgotten; ModemInv and CardInv  *)
(* that each bit of the word shows the latest event about its thing or is  *)
(* still to be written; SentInv that the last message is the word.         *)
(***************************************************************************)

\* Binary(n) are the three bits of a small number.
LEMMA BinaryOf ==
    /\ Binary(0) = {} /\ Binary(1) = {1} /\ Binary(2) = {2} /\ Binary(3) = {1, 2}
    /\ Binary(4) = {3} /\ Binary(5) = {1, 3} /\ Binary(6) = {2, 3} /\ Binary(7) = 1..3
<1>1. \A b \in 1..3 : b = 1 \/ b = 2 \/ b = 3
    OBVIOUS
<1>2. <<1, 2, 4>>[1] = 1 /\ <<1, 2, 4>>[2] = 2 /\ <<1, 2, 4>>[3] = 4
    OBVIOUS
<1>3. \A n \in 0..7 : /\ 1 \in Binary(n) <=> n % 2 = 1
                      /\ 2 \in Binary(n) <=> (n \div 2) % 2 = 1
                      /\ 3 \in Binary(n) <=> (n \div 4) % 2 = 1
                      /\ Binary(n) \subseteq 1..3
    BY <1>2 DEF Binary
<1> HIDE DEF Binary
<1>4. Binary(0) = {} /\ Binary(1) = {1} /\ Binary(2) = {2} /\ Binary(3) = {1, 2}
    BY <1>1, <1>3
<1>5. Binary(4) = {3} /\ Binary(5) = {1, 3} /\ Binary(6) = {2, 3} /\ Binary(7) = 1..3
    BY <1>1, <1>3
<1> QED
    BY <1>4, <1>5

\* An event about the card sets its number's bits and clears the others of 1..3; the three
\* late ones also set bit 4.
LEMMA CardEvents ==
    ASSUME NEW e \in OfTheCard
    PROVE  /\ e \in 0..7 => Sets(e) = Binary(e)
           /\ e = 18 => Sets(e) = {4}
           /\ e = 19 => Sets(e) = {1, 4}
           /\ e = 20 => Sets(e) = {2, 4}
           /\ Clears(e) = (1..3) \ Sets(e)
           /\ Sets(e) \subseteq 1..4
           /\ Masked(e) \subseteq 1..4 /\ Masked(e) \intersect Sets(e) = {}
           /\ Thing(e) = CARD
           /\ 4 \in Sets(e) <=> e \in {18, 19, 20}
BY BinaryOf DEF OfTheCard, Sets, Clears, Masked, Thing

\* An event about mdmEmodem sets or clears bits that no other thing has.
LEMMA ModemEvents ==
    ASSUME NEW e \in OfTheModem
    PROVE  /\ Thing(e) \in SIG..CGREG2 /\ Sets(e) \union Clears(e) = {Thing(e)}
           /\ Masked(e) = {}
BY DEF OfTheModem, OfTheCard, Events40, Sets, Clears, Masked, Thing, SIG, REG, PDP_ACT,
   SERV_CONN, MDMEmodemPOWEROFF, CPINSTATUS, RECEIVEDATA, CGREG2

\* The events that forget what is known, and the one that says nothing.
LEMMA OtherEvents ==
    /\ Sets(16) = {} /\ Clears(16) = SIG..SERV_CONN /\ Masked(16) = {}
    /\ Sets(17) = {} /\ Clears(17) = {} /\ Masked(17) = {}
    /\ Sets(40) = {} /\ Clears(40) = {} /\ Masked(40) = {}
BY DEF Sets, Clears, Masked

\* Where EvtLoop is when an event of the card or of mdmEmodem can be the latest.
LEMMA PlacesOf ==
    /\ Places(8) = {"check", "csq"} /\ Places(16) = {"check", "csq"}
    /\ Places(9) = {"cgreg"} /\ Places(10) = {"cgreg"}
    /\ Places(23) = {"waiting"} /\ Places(24) = {"registered"}
    /\ Places(11) = {"netopen"} /\ Places(12) = {"failed"}
    /\ Places(13) = {"cipopen"} /\ Places(14) = {"cipopen"}
    /\ Places(3) = {"id"} /\ Places(15) = {"id"}
    /\ \A e \in {1, 2, 4, 27, 28} : Places(e) = {"service"}
    /\ \A e \in {0, 18, 19} : Places(e) = {"rejected"}
    /\ Places(17) = {"handed_over", "check", "csq"}
    /\ Places(40) = {"cancelling", "cancelled", "rejected"}
BY DEF Places

\* Where EvtLoop reports what.
Way(from, evt, to, flag) ==
    /\ from \in Points /\ to \in Points
    /\ evt \in Events40 \ {7, 20, 29, 30} /\ flag \in Flags \union {""}
    /\ from \notin {"check", "handed_over", "cancelling"} /\ to \notin {"csq", "cancelled"}
    /\ from = "csq" => evt \in {8, 9}
    /\ from \in {"cancelled", "rejected"} => to \in {"rejected", "handed_over"}
    /\ to = "cancelling" => evt = 40
    /\ to = "check" => evt \in {8, 16}
    /\ evt = 8 => flag = "poor"
    /\ evt = 10 => flag = "unregistered"
    /\ evt = 14 => flag = "disconnected"
    /\ evt = 40 => to = "cancelling" \/ from = "cancelled"
    /\ evt \in 0..4 => from \in {"id", "service"}
    /\ evt \notin {5, 6} => to \in Places(evt)
    /\ evt \notin {5, 6, 8, 10, 14, 40} /\ from \in Places(evt) => to = from
    /\ evt \in {16, 17} => from \notin Places(evt)

\* EvtLoop reports something in one of these ways.
Reported ==
    \E from, to, evt, flag : Goes(from, evt, to, flag) /\ Way(from, evt, to, flag)

\* (Way holds of each way from one point of EvtLoop to the next, so that a proof need not
\* look at all of them.)
LEMMA ReportedIn ==
    \A from, to, evt, flag : Goes(from, evt, to, flag) /\ Way(from, evt, to, flag) => Reported
BY DEF Reported

\* Whatever EvtLoop reports on its way, it reports in one of these ways.
LEMMA EvtLoopSteps ==
    ASSUME EvtLoopReports
    PROVE  Reported
<1> USE DEF Flags, Events40, Points
<1>1. CASE CheckNet
    <2>1. Goes("csq", 8, "check", "poor") => Reported
        <3>1. Way("csq", 8, "check", "poor")
            BY PlacesOf DEF Way
        <3> QED
            BY <3>1, ReportedIn, Zenon
    <2>2. Goes("csq", 9, "cgreg", "") => Reported
        <3>1. Way("csq", 9, "cgreg", "")
            BY PlacesOf DEF Way
        <3> QED
            BY <3>1, ReportedIn, Zenon
    <2>3. Goes("cgreg", 10, "cgreg", "unregistered") => Reported
        <3>1. Way("cgreg", 10, "cgreg", "unregistered")
            BY PlacesOf DEF Way
        <3> QED
            BY <3>1, ReportedIn, Zenon
    <2>4. Goes("cgreg", 23, "waiting", "") => Reported
        <3>1. Way("cgreg", 23, "waiting", "")
            BY PlacesOf DEF Way
        <3> QED
            BY <3>1, ReportedIn, Zenon
    <2>5. Goes("cgreg", 24, "registered", "") => Reported
        <3>1. Way("cgreg", 24, "registered", "")
            BY PlacesOf DEF Way
        <3> QED
            BY <3>1, ReportedIn, Zenon
    <2>6. Goes("registered", 11, "netopen", "") => Reported
        <3>1. Way("registered", 11, "netopen", "")
            BY PlacesOf DEF Way
        <3> QED
            BY <3>1, ReportedIn, Zenon
    <2> QED
        BY <1>1, <2>1, <2>2, <2>3, <2>4, <2>5, <2>6 DEF CheckNet
<1>2. CASE NetOpen
    <2>1. Goes("netopen", 12, "failed", "not_active") => Reported
        <3>1. Way("netopen", 12, "failed", "not_active")
            BY PlacesOf DEF Way
        <3> QED
            BY <3>1, ReportedIn, Zenon
    <2>2. Goes("failed", 16, "check", "") => Reported
        <3>1. Way("failed", 16, "check", "")
            BY PlacesOf DEF Way
        <3> QED
            BY <3>1, ReportedIn, Zenon
    <2>3. Goes("netopen", 16, "check", "") => Reported
        <3>1. Way("netopen", 16, "check", "")
            BY PlacesOf DEF Way
        <3> QED
            BY <3>1, ReportedIn, Zenon
    <2>4. Goes("netopen", 13, "cipopen", "") => Reported
        <3>1. Way("netopen", 13, "cipopen", "")
            BY PlacesOf DEF Way
        <3> QED
            BY <3>1, ReportedIn, Zenon
    <2> QED
        BY <1>2, <2>1, <2>2, <2>3, <2>4 DEF NetOpen
<1>3. CASE CipOpen
    <2>1. Goes("cipopen", 14, "cipopen", "disconnected") => Reported
        <3>1. Way("cipopen", 14, "cipopen", "disconnected")
            BY PlacesOf DEF Way
        <3> QED
            BY <3>1, ReportedIn, Zenon
    <2>2. Goes("cipopen", 16, "check", "") => Reported
        <3>1. Way("cipopen", 16, "check", "")
            BY PlacesOf DEF Way
        <3> QED
            BY <3>1, ReportedIn, Zenon
    <2>3. Goes("cipopen", 15, "id", "") => Reported
        <3>1. Way("cipopen", 15, "id", "")
            BY PlacesOf DEF Way
        <3> QED
            BY <3>1, ReportedIn, Zenon
    <2> QED
        BY <1>3, <2>1, <2>2, <2>3 DEF CipOpen
<1>4. CASE IdAnswer
    <2>1. Goes("id", 1, "service", "") => Reported
        <3>1. Way("id", 1, "service", "")
            BY PlacesOf DEF Way
        <3> QED
            BY <3>1, ReportedIn, Zenon
    <2>2. Goes("id", 2, "service", "") => Reported
        <3>1. Way("id", 2, "service", "")
            BY PlacesOf DEF Way
        <3> QED
            BY <3>1, ReportedIn, Zenon
    <2>3. Goes("id", 4, "service", "") => Reported
        <3>1. Way("id", 4, "service", "")
            BY PlacesOf DEF Way
        <3> QED
            BY <3>1, ReportedIn, Zenon
    <2>4. Goes("id", 3, "id", "") => Reported
        <3>1. Way("id", 3, "id", "")
            BY PlacesOf DEF Way
        <3> QED
            BY <3>1, ReportedIn, Zenon
    <2>5. Goes("id", 0, "rejected", "") => Reported
        <3>1. Way("id", 0, "rejected", "")
            BY PlacesOf DEF Way
        <3> QED
            BY <3>1, ReportedIn, Zenon
    <2>6. Goes("id", 40, "cancelling", "") => Reported
        <3>1. Way("id", 40, "cancelling", "")
            BY PlacesOf DEF Way
        <3> QED
            BY <3>1, ReportedIn, Zenon
    <2>7. Goes("cancelled", 40, "rejected", "") => Reported
        <3>1. Way("cancelled", 40, "rejected", "")
            BY PlacesOf DEF Way
        <3> QED
            BY <3>1, ReportedIn, Zenon
    <2>8. Goes("id", 5, "not_applicable", "") => Reported
        <3>1. Way("id", 5, "not_applicable", "")
            BY PlacesOf DEF Way
        <3> QED
            BY <3>1, ReportedIn, Zenon
    <2>9. Goes("not_applicable", 18, "rejected", "") => Reported
        <3>1. Way("not_applicable", 18, "rejected", "")
            BY PlacesOf DEF Way
        <3> QED
            BY <3>1, ReportedIn, Zenon
    <2>10. Goes("id", 6, "not_found", "") => Reported
        <3>1. Way("id", 6, "not_found", "")
            BY PlacesOf DEF Way
        <3> QED
            BY <3>1, ReportedIn, Zenon
    <2>11. Goes("not_found", 19, "rejected", "") => Reported
        <3>1. Way("not_found", 19, "rejected", "")
            BY PlacesOf DEF Way
        <3> QED
            BY <3>1, ReportedIn, Zenon
    <2> QED
        BY <1>4, <2>1, <2>2, <2>3, <2>4, <2>5, <2>6, <2>7, <2>8, <2>9, <2>10, <2>11
           DEF IdAnswer
<1>5. CASE Service
    <2>1. Goes("service", 4, "service", "") => Reported
        <3>1. Way("service", 4, "service", "")
            BY PlacesOf DEF Way
        <3> QED
            BY <3>1, ReportedIn, Zenon
    <2>2. Goes("service", 27, "service", "") => Reported
        <3>1. Way("service", 27, "service", "")
            BY PlacesOf DEF Way
        <3> QED
            BY <3>1, ReportedIn, Zenon
    <2>3. Goes("service", 28, "service", "") => Reported
        <3>1. Way("service", 28, "service", "")
            BY PlacesOf DEF Way
        <3> QED
            BY <3>1, ReportedIn, Zenon
    <2>4. Goes("service", 16, "check", "") => Reported
        <3>1. Way("service", 16, "check", "")
            BY PlacesOf DEF Way
        <3> QED
            BY <3>1, ReportedIn, Zenon
    <2>5. Goes("service", 17, "handed_over", "") => Reported
        <3>1. Way("service", 17, "handed_over", "")
            BY PlacesOf DEF Way
        <3> QED
            BY <3>1, ReportedIn, Zenon
    <2>6. Goes("rejected", 17, "handed_over", "") => Reported
        <3>1. Way("rejected", 17, "handed_over", "")
            BY PlacesOf DEF Way
        <3> QED
            BY <3>1, ReportedIn, Zenon
    <2> QED
        BY <1>5, <2>1, <2>2, <2>3, <2>4, <2>5, <2>6 DEF Service
<1> QED
    BY <1>1, <1>2, <1>3, <1>4, <1>5 DEF EvtLoopReports

-----------------------------------------------------------------------------
(* Types and the course of a call.                                         *)

\* What the operators on events return.
LEMMA Types ==
    /\ \A e \in Events40 : Sets(e) \subseteq Bits /\ Clears(e) \subseteq Bits /\
           Masked(e) \subseteq Bits
    /\ Forgotten \subseteq Bits /\ Forgotten # {} /\ CARD \in Things
    /\ \A e \in OfTheCard \union OfTheModem : Thing(e) \in Things
    /\ \A e \in OfTheCard \union OfTheModem : e \in 0..30 /\ e \notin {16, 17, 40}
    /\ Events40 = OfTheCard \union OfTheModem \union {16, 17, 40}
<1> USE DEF Bits, Things, CARD, SIG, REG, PDP_ACT, SERV_CONN, CGREG2
<1>1. \A e \in OfTheCard : Sets(e) \subseteq Bits /\ Clears(e) \subseteq Bits /\
          Masked(e) \subseteq Bits /\ Thing(e) \in Things
    BY CardEvents
<1>2. \A e \in OfTheModem : Sets(e) \subseteq Bits /\ Clears(e) \subseteq Bits /\
          Masked(e) \subseteq Bits /\ Thing(e) \in Things
    BY ModemEvents
<1>3. Events40 = OfTheCard \union OfTheModem \union {16, 17, 40}
    BY DEF Events40, OfTheCard, OfTheModem
<1>4. \A e \in OfTheCard \union OfTheModem : e \in 0..30 /\ e \notin {16, 17, 40}
    BY DEF Events40, OfTheCard, OfTheModem
<1>5. Forgotten \subseteq Bits /\ Forgotten # {} /\ CARD \in Things
    <2>1. 1 \in Forgotten
        BY DEF Forgotten
    <2> QED
        BY <2>1 DEF Forgotten
<1>6. \A e \in {16, 17, 40} : Sets(e) \subseteq Bits /\ Clears(e) \subseteq Bits /\
          Masked(e) \subseteq Bits
    BY OtherEvents
<1> QED
    BY <1>1, <1>2, <1>3, <1>4, <1>5, <1>6

\* No call.
LEMMA OutIs ==
    /\ Out \in Calls /\ Out.pc = "out" /\ Out.evt = None /\ Out.todo = {} /\ Out.mask = {}
    /\ State({}) \in Messages
BY DEF Out, Calls, Messages, State

\* A call that has just begun.
LEMMA InIs ==
    ASSUME NEW e \in Events40 \union {None}, NEW b \in SUBSET Bits, NEW m \in SUBSET Bits
    PROVE  LET c == In(e, b, m) IN
           c \in Calls /\ c.pc = "read" /\ c.evt = e /\ c.todo = b /\ c.mask = m
BY DEF In, Out, Calls, Messages, State

\* A thread begins with an event, or leaves it at that.
LEMMA Begins ==
    ASSUME TypeInv, CallInv, NEW t \in Reporters, NEW e \in Events40, Enters(t, e)
    PROVE  /\ call' \in [Reporters -> Calls]
           /\ call[t] = Out
           /\ \A u \in Reporters : u # t => call'[u] = call[u]
           /\ Repeated(e) => call' = call
           /\ ~Repeated(e) => /\ call'[t].pc = "read" /\ call'[t].evt = e
                              /\ call'[t].todo = Sets(e) \union Clears(e)
                              /\ call'[t].mask = Masked(e)
           /\ said' \in [Things -> {None} \union 0..30]
           /\ UNCHANGED <<qlinkdatanode_run_stat, last_status, isCancelRecoveryNet, sent>>
<1> DEFINE c == In(e, Sets(e) \union Clears(e), Masked(e))
<1>1. c \in Calls /\ c.pc = "read" /\ c.evt = e /\ c.todo = Sets(e) \union Clears(e) /\
          c.mask = Masked(e)
    BY InIs, Types
<1>2. call[t] = Out
    BY DEF Enters, MayEnter, CallInv
<1>3. said' \in [Things -> {None} \union 0..30]
    <2>1. said' = Said(e) /\ said \in [Things -> {None} \union 0..30]
        BY DEF Enters, TypeInv
    <2>2. CASE e \in {17, 40}
        BY <2>1, <2>2 DEF Said
    <2>3. CASE e = 16
        BY <2>1, <2>3 DEF Said
    <2>4. CASE e \in OfTheCard \union OfTheModem
        BY <2>1, <2>4, Types DEF Said
    <2> QED
        BY <2>2, <2>3, <2>4, Types
<1>4. call' = IF Repeated(e) THEN call ELSE [call EXCEPT ![t] = c]
    BY DEF Enters
<1> HIDE DEF c
<1>5. /\ call' \in [Reporters -> Calls]
      /\ \A u \in Reporters : u # t => call'[u] = call[u]
      /\ ~Repeated(e) => call'[t] = c
    BY <1>1, <1>4 DEF TypeInv
<1> QED
    BY <1>1, <1>2, <1>3, <1>4, <1>5 DEF Enters

\* EvtLoop forgets what it knows of mdmEmodem.
LEMMA Forgets ==
    ASSUME TypeInv, CallInv, ChecksNet
    PROVE  /\ call' \in [Reporters -> Calls]
           /\ call["EvtLoop"] = Out
           /\ \A u \in Reporters : u # "EvtLoop" => call'[u] = call[u]
           /\ call'["EvtLoop"].pc = "read" /\ call'["EvtLoop"].evt = None
           /\ call'["EvtLoop"].todo = {} /\ call'["EvtLoop"].mask = Forgotten
           /\ said' \in [Things -> {None} \union 0..30]
           /\ phase' = [phase EXCEPT !.at = "csq"] /\ phase.at = "check"
           /\ \A x \in Things : said'[x] = IF x = CGREG2 THEN said[x] ELSE None
           /\ ~isCancelRecoveryNet
           /\ UNCHANGED <<qlinkdatanode_run_stat, last_status, isCancelRecoveryNet, sent>>
<1> DEFINE c == In(None, {}, Forgotten)
<1>1. c \in Calls /\ c.pc = "read" /\ c.evt = None /\ c.todo = {} /\ c.mask = Forgotten
    BY SMTT(30), InIs, Types
<1>2. call' = [call EXCEPT !["EvtLoop"] = c] /\ call["EvtLoop"] = Out
    <2>1. "EvtLoop" \in Reporters
        BY DEF Reporters
    <2> QED
        BY <2>1 DEF ChecksNet, MayEnter, CallInv
<1> HIDE DEF c
<1>3. /\ call' \in [Reporters -> Calls] /\ call'["EvtLoop"] = c
      /\ \A u \in Reporters : u # "EvtLoop" => call'[u] = call[u]
    BY <1>1, <1>2 DEF TypeInv, Reporters
<1>4. /\ said' \in [Things -> {None} \union 0..30]
      /\ \A x \in Things : said'[x] = IF x = CGREG2 THEN said[x] ELSE None
    BY DEF ChecksNet, TypeInv
<1> QED
    BY <1>1, <1>2, <1>3, <1>4 DEF ChecksNet

\* The types hold at first.
LEMMA InitBase == Init => TypeInv /\ CallInv
<1> SUFFICES ASSUME Init PROVE TypeInv /\ CallInv
    OBVIOUS
<1>1. call \in [Reporters -> Calls] /\ \A t \in Reporters : call[t] = Out
    BY OutIs DEF Init, Reporters
<1>2. TypeInv
    BY <1>1, OutIs DEF Init, TypeInv, Points, Flags
<1>3. CallInv
    BY <1>1, OutIs DEF CallInv
<1> QED
    BY <1>2, <1>3

\* What a step changes of the call in which it is.
LEMMA Moves ==
    ASSUME TypeInv, NEW t \in Reporters, NEW c \in Calls, call' = [call EXCEPT ![t] = c]
    PROVE  /\ call' \in [Reporters -> Calls] /\ call'[t] = c
           /\ \A u \in Reporters : u # t => call'[u] = call[u]
BY DEF TypeInv

\* What each step of a call changes: reading the word,
LEMMA ReadsIs ==
    ASSUME TypeInv, CallInv, NEW t \in Reporters, Reads(t)
    PROVE  /\ call' \in [Reporters -> Calls]
           /\ \A u \in Reporters : u # t => call'[u] = call[u]
           /\ call[t].pc = "read" /\ call'[t].pc = "write" /\ call'[t].evt = call[t].evt
           /\ call'[t].todo = call[t].todo /\ call'[t].mask = call[t].mask
           /\ call'[t].read = qlinkdatanode_run_stat /\ call[t].todo \union call[t].mask # {}
<1> DEFINE c == [call[t] EXCEPT !.pc = "write", !.read = qlinkdatanode_run_stat]
<1>1. call' = [call EXCEPT ![t] = c] /\ call[t].pc = "read" /\
          call[t].todo \union call[t].mask # {}
    BY DEF Reads
<1>2. call[t] \in Calls /\ qlinkdatanode_run_stat \in SUBSET Bits
    BY DEF TypeInv
<1>3. /\ c \in Calls /\ c.pc = "write" /\ c.evt = call[t].evt /\ c.todo = call[t].todo
      /\ c.mask = call[t].mask /\ c.read = qlinkdatanode_run_stat
    BY <1>2 DEF Calls
<1> HIDE DEF c
<1> QED
    BY <1>1, <1>3, Moves

\* writing one bit,
LEMMA WritesBitIs ==
    ASSUME TypeInv, CallInv, NEW t \in Reporters, WritesBit(t)
    PROVE  /\ call' \in [Reporters -> Calls]
           /\ \A u \in Reporters : u # t => call'[u] = call[u]
           /\ call[t].pc = "write"
           /\ \E b \in call[t].todo :
                 /\ call'[t].pc = "read" /\ call'[t].evt = call[t].evt
                 /\ call'[t].todo = call[t].todo \ {b} /\ call'[t].mask = call[t].mask
                 /\ qlinkdatanode_run_stat' =
                       IF b \in Sets(call[t].evt) THEN call[t].read \union {b} ELSE call[t].read \ {b}
<1>1. call[t] \in Calls
    BY DEF TypeInv
<1>2. PICK b \in call[t].todo :
         /\ qlinkdatanode_run_stat' = IF b \in Sets(call[t].evt) THEN call[t].read \union {b}
                                      ELSE call[t].read \ {b}
         /\ call' = [call EXCEPT ![t] = [@ EXCEPT !.pc = "read", !.todo = call[t].todo \ {b}]]
    BY DEF WritesBit
<1> DEFINE c == [call[t] EXCEPT !.pc = "read", !.todo = call[t].todo \ {b}]
<1>3. /\ c \in Calls /\ c.pc = "read" /\ c.evt = call[t].evt /\ c.todo = call[t].todo \ {b}
      /\ c.mask = call[t].mask
    BY <1>1 DEF Calls
<1>4. call' = [call EXCEPT ![t] = c]
    BY <1>2
<1>5. call[t].pc = "write"
    BY DEF WritesBit
<1> HIDE DEF c
<1> QED
    BY <1>2, <1>3, <1>4, <1>5, Moves

\* writing the bits of a mask,
LEMMA WritesMaskIs ==
    ASSUME TypeInv, CallInv, NEW t \in Reporters, WritesMask(t)
    PROVE  /\ call' \in [Reporters -> Calls]
           /\ \A u \in Reporters : u # t => call'[u] = call[u]
           /\ call[t].pc = "write" /\ call[t].todo = {}
           /\ qlinkdatanode_run_stat' = call[t].read \ call[t].mask
           /\ call[t].evt = None => call'[t] = Out
           /\ call[t].evt # None =>
                 /\ call'[t].pc = "read" /\ call'[t].evt = call[t].evt
                 /\ call'[t].todo = {} /\ call'[t].mask = {}
<1> DEFINE c == [call[t] EXCEPT !.pc = "read", !.mask = {}]
<1>1. call[t] \in Calls
    BY DEF TypeInv
<1>2. c \in Calls /\ c.pc = "read" /\ c.evt = call[t].evt /\ c.todo = call[t].todo /\
          c.mask = {}
    BY <1>1 DEF Calls
<1>3. /\ call[t].pc = "write" /\ call[t].todo = {}
      /\ qlinkdatanode_run_stat' = call[t].read \ call[t].mask
      /\ call' = [call EXCEPT ![t] = IF call[t].evt = None THEN Out ELSE c]
    BY DEF WritesMask
<1> HIDE DEF c
<1> QED
    BY <1>2, <1>3, OutIs, Moves

\* encoding the message,
LEMMA EncodesIs ==
    ASSUME TypeInv, CallInv, NEW t \in Reporters, Encodes(t)
    PROVE  /\ call' \in [Reporters -> Calls]
           /\ \A u \in Reporters : u # t => call'[u] = call[u]
           /\ call[t].pc = "read" /\ call[t].evt # None /\ call[t].todo = {} /\
                  call[t].mask = {}
           /\ call'[t].pc = "send" /\ call'[t].evt = call[t].evt
           /\ call'[t].todo = {} /\ call'[t].mask = {} /\ call'[t].msg = Message(call[t].evt)
<1> DEFINE m == Message(call[t].evt)
           c == [call[t] EXCEPT !.pc = "send", !.msg = m]
<1>1. /\ call[t].pc = "read" /\ call[t].todo = {} /\ call[t].mask = {}
      /\ call' = [call EXCEPT ![t] = c]
    BY DEF Encodes
<1>2. call[t].evt # None
    BY <1>1, Types DEF CallInv
<1>3. m \in Messages /\ call[t] \in Calls
    BY DEF Message, Messages, OutOfTraffic, Suspended, State, TypeInv
<1> HIDE DEF m
<1>4. /\ c \in Calls /\ c.pc = "send" /\ c.evt = call[t].evt /\ c.todo = call[t].todo
      /\ c.mask = call[t].mask /\ c.msg = m
    BY <1>3 DEF Calls
<1> HIDE DEF c
<1> QED
    BY <1>1, <1>2, <1>4, Moves DEF m

\* sending it,
LEMMA SendsIs ==
    ASSUME TypeInv, CallInv, NEW t \in Reporters, Sends(t)
    PROVE  /\ call' \in [Reporters -> Calls]
           /\ \A u \in Reporters : u # t => call'[u] = call[u]
           /\ call[t].pc = "send" /\ call'[t].pc = "return" /\ call'[t].evt = call[t].evt
           /\ call'[t].todo = {} /\ call'[t].mask = {} /\ sent' = call[t].msg
<1> DEFINE c == [call[t] EXCEPT !.pc = "return"]
<1>1. call[t].pc = "send" /\ sent' = call[t].msg /\ call' = [call EXCEPT ![t] = c]
    BY DEF Sends
<1>2. call[t].todo = {} /\ call[t].mask = {}
    BY <1>1 DEF CallInv
<1>3. c \in Calls /\ c.pc = "return" /\ c.evt = call[t].evt /\ c.todo = call[t].todo /\
          c.mask = call[t].mask
    BY DEF TypeInv, Calls
<1> HIDE DEF c
<1> QED
    BY <1>1, <1>2, <1>3, Moves

\* and returning.
LEMMA ReturnsIs ==
    ASSUME TypeInv, CallInv, NEW t \in Reporters, Returns(t)
    PROVE  /\ call' \in [Reporters -> Calls]
           /\ \A u \in Reporters : u # t => call'[u] = call[u]
           /\ call[t].pc = "return" /\ call'[t] = Out /\ last_status' = call[t].evt
           /\ call[t].todo = {} /\ call[t].mask = {}
<1>1. call[t].pc = "return" /\ last_status' = call[t].evt /\ call' = [call EXCEPT ![t] = Out]
    BY DEF Returns
<1> QED
    BY <1>1, OutIs, Moves DEF CallInv

\* None of these steps breaks the types,
LEMMA WithinBase ==
    ASSUME TypeInv, CallInv, NEW t \in Reporters, Within(t)
    PROVE  TypeInv' /\ CallInv'
<1>1. CASE Reads(t)
    <2>1. TypeInv'
        BY <1>1, ReadsIs DEF Reads, TypeInv
    <2>2. CallInv'
        BY <1>1, ReadsIs DEF CallInv
    <2> QED
        BY <2>1, <2>2
<1>2. CASE WritesBit(t)
    <2>1. call[t].read \subseteq Bits /\ call[t].todo \subseteq Bits /\ call[t].todo # {}
        BY <1>2, WritesBitIs DEF TypeInv, Calls
    <2>2. qlinkdatanode_run_stat' \subseteq Bits
        BY <1>2, <2>1, WritesBitIs
    <2>3. TypeInv'
        <3>1. call' \in [Reporters -> Calls]
            BY <1>2, WritesBitIs
        <3> QED
            BY <1>2, <2>2, <3>1 DEF WritesBit, TypeInv
    <2>4. CallInv'
        BY <1>2, <2>1, WritesBitIs DEF CallInv
    <2> QED
        BY <2>3, <2>4
<1>3. CASE WritesMask(t)
    <2>1. qlinkdatanode_run_stat' \subseteq Bits
        BY <1>3, WritesMaskIs DEF TypeInv, Calls
    <2>2. TypeInv'
        BY <1>3, <2>1, WritesMaskIs DEF WritesMask, TypeInv
    <2>3. CallInv'
        BY <1>3, WritesMaskIs, OutIs DEF CallInv
    <2> QED
        BY <2>2, <2>3
<1>4. CASE Encodes(t)
    <2>1. TypeInv'
        BY <1>4, EncodesIs DEF Encodes, TypeInv
    <2>2. CallInv'
        BY <1>4, EncodesIs DEF CallInv
    <2> QED
        BY <2>1, <2>2
<1>5. CASE Sends(t)
    <2>1. call[t].msg \in Messages /\ call[t].evt # None
        BY <1>5, SendsIs DEF TypeInv, Calls, CallInv
    <2> QED
        <3>1. TypeInv'
            BY <1>5, <2>1, SendsIs DEF Sends, TypeInv
        <3>2. CallInv'
            BY <1>5, <2>1, SendsIs DEF CallInv
        <3> QED
            BY <3>1, <3>2
<1>6. CASE Returns(t)
    <2>1. call[t].evt \in Events40
        BY <1>6, ReturnsIs DEF TypeInv, Calls, CallInv
    <2> QED
        BY <1>6, <2>1, ReturnsIs, OutIs DEF Returns, TypeInv, CallInv
<1> QED
    BY <1>1, <1>2, <1>3, <1>4, <1>5, <1>6 DEF Within

\* nor does any other step.
LEMMA BaseStep ==
    ASSUME TypeInv, CallInv, [Next]_vars
    PROVE  TypeInv' /\ CallInv'
<1>1. ASSUME NEW t \in Reporters, NEW e \in Events40, Enters(t, e),
                 phase' \in [at : Points, told : SUBSET Flags]
      PROVE  TypeInv' /\ CallInv'
    <2>1. TypeInv'
        BY <1>1, Begins DEF TypeInv
    <2>2. CallInv'
        BY <1>1, Begins DEF CallInv, None, Events40
    <2> QED
        BY <2>1, <2>2
<1>2. CASE EvtLoopReports
    <2>1. PICK from, to, evt, flag : Goes(from, evt, to, flag) /\ Way(from, evt, to, flag)
        BY <1>2, EvtLoopSteps DEF Reported
    <2>2. phase' \in [at : Points, told : SUBSET Flags]
        <3>1. to \in Points /\ flag \in Flags \union {""}
            BY <2>1 DEF Way
        <3>2. PICK less : phase' = [at |-> to, told |-> IF flag # "" THEN phase.told \union {flag}
                                                       ELSE phase.told \ less]
            BY <2>1, Zenon DEF Goes
        <3> QED
            <4>1. phase.told \subseteq Flags
                BY DEF TypeInv
            <4>2. (IF flag # "" THEN phase.told \union {flag} ELSE phase.told \ less) \subseteq Flags
                BY <3>1, <4>1
            <4> QED
                BY <3>1, <3>2, <4>2
    <2> QED
        BY <1>1, <2>1, <2>2 DEF Goes, Way, Reporters
<1>3. CASE ChecksNet
    <2>1. TypeInv'
        BY <1>3, Forgets DEF TypeInv, Points
    <2>2. CallInv'
        BY <1>3, Forgets DEF CallInv
    <2> QED
        BY <2>1, <2>2
<1>4. CASE HandsOver
    BY <1>4 DEF HandsOver, TypeInv, CallInv, Points
<1>5. CASE Cancels
    BY <1>5 DEF Cancels, TypeInv, CallInv, Points
<1>6. ASSUME NEW t \in Threads, Reports(t) PROVE TypeInv' /\ CallInv'
    <2>1. PICK e \in EventsOf(t) : Enters(t, e)
        BY <1>6 DEF Reports
    <2>2. e \in Events40 /\ t \in Reporters
        BY <2>1, RunStatAssumption DEF Events40, Reporters
    <2> QED
        BY <1>1, <1>6, <2>1, <2>2 DEF Reports, TypeInv
<1>7. CASE \E t \in Reporters : Within(t)
    BY <1>7, WithinBase
<1>8. CASE UNCHANGED vars
    BY <1>8 DEF vars, TypeInv, CallInv
<1> QED
    BY <1>2, <1>3, <1>4, <1>5, <1>6, <1>7, <1>8 DEF Next, Reporters

\* The types, whatever the threads do.
THEOREM TypeCorrect == Spec => []TypeOK
<1>1. Init => TypeInv /\ CallInv
    BY InitBase
<1>2. (TypeInv /\ CallInv) /\ [Next]_vars => (TypeInv /\ CallInv)'
    BY BaseStep
<1>3. TypeInv /\ CallInv => TypeOK
    <2> SUFFICES ASSUME TypeInv PROVE TypeOK
        OBVIOUS
    <2>1. \A e \in Events40 : e \in 0..40
        BY DEF Events40
    <2>2. last_status \in 0..255
        BY <2>1 DEF TypeInv
    <2>3. \A t \in DOMAIN call :
            /\ call[t].pc \in {"out", "read", "write", "send", "return"}
            /\ call[t].evt \in {None} \union 0..40
            /\ call[t].todo \union call[t].mask \union call[t].read \subseteq Bits
        BY <2>1 DEF TypeInv, Calls
    <2>4. /\ sent.is \in {"state", "suspended", "out of traffic"} /\ sent.bits \subseteq Bits
          /\ DOMAIN said = Things /\ \A x \in Things : said[x] \in {None} \union 0..30
        BY DEF TypeInv, Messages
    <2> QED
        BY <2>2, <2>3, <2>4 DEF TypeInv, TypeOK
<1> QED
    BY <1>1, <1>2, <1>3, PTL DEF Spec

-----------------------------------------------------------------------------
(* One thread at a time.                                                   *)

\* Nobody is in an empty function.
LEMMA NobodyElse ==
    ASSUME Quiescent, TypeInv, CallInv
    PROVE  /\ \A u \in Reporters : call[u] = Out
           /\ phase.at \notin {"handed_over", "cancelling"}
BY DEF Quiescent, TypeInv, CallInv

\* At most one thread is in the function.
LEMMA AloneStep ==
    ASSUME TypeInv, CallInv, AloneInv, [Next /\ InTurn]_vars
    PROVE  AloneInv'
<1>1. ASSUME NEW t \in Reporters, NEW e \in Events40, Enters(t, e), Quiescent,
             phase'.at \in {"handed_over", "cancelling"} => t = "EvtLoop" \/ phase' = phase
      PROVE  AloneInv'
    <2>1. \A u \in Reporters : call[u] = Out
        BY <1>1, NobodyElse
    <2>2. phase.at \notin {"handed_over", "cancelling"}
        BY <1>1, NobodyElse
    <2>3. \A u \in Reporters : u # t => call'[u].pc = "out"
        BY <1>1, <2>1, Begins, OutIs
    <2>4. call'[t].pc \in {"out", "read"}
        BY <1>1, <2>1, Begins, OutIs
    <2>5. "EvtLoop" \notin Threads /\ Threads \subseteq Reporters
        BY RunStatAssumption DEF Reporters
    <2> QED
        BY <1>1, <2>2, <2>3, <2>4, <2>5 DEF AloneInv
<1>2. CASE EvtLoopReports /\ Quiescent
    <2>1. PICK from, to, evt, flag : Goes(from, evt, to, flag) /\ Way(from, evt, to, flag)
        BY <1>2, EvtLoopSteps DEF Reported
    <2> QED
        BY <1>1, <1>2, <2>1 DEF Goes, Way, Reporters
<1>3. CASE ChecksNet /\ Quiescent
    <2>1. \A u \in Reporters : call[u] = Out
        BY <1>3, NobodyElse
    <2>2. \A u \in Reporters : u # "EvtLoop" => call'[u].pc = "out"
        BY <1>3, <2>1, Forgets, OutIs
    <2>3. call'["EvtLoop"].pc = "read" /\ phase'.at = "csq"
        BY <1>3, Forgets DEF TypeInv
    <2> QED
        BY <2>2, <2>3 DEF AloneInv
<1>4. CASE HandsOver
    <2>1. phase'.at = "check" /\ call' = call /\ \A t \in Reporters : call[t].pc = "out"
        BY <1>4 DEF HandsOver, TypeInv, AloneInv, Reporters
    <2> QED
        BY <2>1 DEF AloneInv
<1>5. CASE Cancels
    <2>1. phase'.at = "cancelled" /\ call' = call /\
              qlinkdatanode_run_stat' = qlinkdatanode_run_stat
        BY <1>5 DEF Cancels, TypeInv
    <2> QED
        BY <2>1 DEF AloneInv
<1>6. ASSUME NEW t \in Threads, Reports(t), Quiescent PROVE AloneInv'
    <2>1. PICK e \in EventsOf(t) : Enters(t, e)
        BY <1>6 DEF Reports
    <2>2. e \in Events40 /\ t \in Reporters
        BY <2>1, RunStatAssumption DEF Events40, Reporters
    <2> QED
        BY <1>1, <1>6, <2>1, <2>2 DEF Reports
<1>7. ASSUME NEW t \in Reporters, Within(t) PROVE AloneInv'
    <2>1. \A u \in Reporters : u # t => call[u].pc = "out" /\ call'[u].pc = "out"
        BY <1>7, ReadsIs, WritesBitIs, WritesMaskIs, EncodesIs, SendsIs, ReturnsIs
           DEF Within, AloneInv
    <2>2. phase' = phase /\ (call[t].pc # "out")
        BY <1>7 DEF Within, Reads, WritesBit, WritesMask, Encodes, Sends, Returns
    <2>3. call'[t].pc = "write" => call'[t].read = qlinkdatanode_run_stat'
        BY <1>7, ReadsIs, WritesBitIs, WritesMaskIs, EncodesIs, SendsIs, ReturnsIs, OutIs
           DEF Within, Reads
    <2>4. \A u, v \in Reporters : call'[u].pc # "out" /\ call'[v].pc # "out" => u = v
        BY <2>1
    <2>5. phase'.at \in {"handed_over", "cancelling"} => \A u \in Threads : call'[u].pc = "out"
        <3> SUFFICES ASSUME phase.at \in {"handed_over", "cancelling"}
                     PROVE  \A u \in Threads : call'[u].pc = "out"
            BY <2>2
        <3>1. t \notin Threads
            BY <2>2 DEF AloneInv
        <3> QED
            BY <2>1, <3>1 DEF Reporters
    <2>6. \A u \in Reporters : call'[u].pc = "write" => call'[u].read = qlinkdatanode_run_stat'
        BY <2>1, <2>3
    <2> QED
        BY <2>4, <2>5, <2>6 DEF AloneInv
<1>8. CASE UNCHANGED vars
    BY <1>8 DEF vars, AloneInv
<1> QED
    BY <1>2, <1>3, <1>4, <1>5, <1>6, <1>7, <1>8 DEF Next, InTurn, Reporters

\* That there is no traffic left is told before it is recorded, and nothing after it.
LEMMA TrafficStep ==
    ASSUME TypeInv, CallInv, AloneInv, TrafficInv, [Next /\ InTurn]_vars
    PROVE  TrafficInv'
<1>0. "EvtLoop" \in Reporters /\ Threads \subseteq Reporters /\ "EvtLoop" \notin Threads
    BY RunStatAssumption DEF Reporters
<1>1. CASE EvtLoopReports /\ Quiescent
    <2>1. PICK from, to, evt, flag : Goes(from, evt, to, flag) /\ Way(from, evt, to, flag)
        BY <1>1, EvtLoopSteps DEF Reported
    <2>2. /\ phase.at = from /\ phase'.at = to /\ Enters("EvtLoop", evt) /\ evt \in Events40
        BY <2>1 DEF Goes, Way
    <2>3. /\ \A u \in Reporters : call[u] = Out
          /\ \A u \in Reporters : u # "EvtLoop" => call'[u] = Out
          /\ \/ call'["EvtLoop"].pc = "read" /\ call'["EvtLoop"].evt = evt
             \/ call' = call /\ evt = last_status
          /\ from \notin {"handed_over", "cancelling"}
          /\ UNCHANGED <<qlinkdatanode_run_stat, last_status, isCancelRecoveryNet, sent>>
        <3>1. \A u \in Reporters : call[u] = Out
            BY <1>1, NobodyElse
        <3>2. from \notin {"handed_over", "cancelling"}
            BY <2>1 DEF Way
        <3>3. \/ call'["EvtLoop"].pc = "read" /\ call'["EvtLoop"].evt = evt
              \/ call' = call /\ evt = last_status
            <4>1. CASE Repeated(evt)
                BY <2>2, <1>0, <4>1, Begins DEF Repeated
            <4>2. CASE ~Repeated(evt)
                <5>1. call'["EvtLoop"].pc = "read"
                    BY <2>2, <1>0, <4>2, Begins
                <5>2. call'["EvtLoop"].evt = evt
                    BY <2>2, <1>0, <4>2, Begins
                <5> QED
                    BY <5>1, <5>2
            <4> QED
                BY <4>1, <4>2
        <3>4. \A u \in Reporters : u # "EvtLoop" => call'[u] = Out
            BY <2>2, <1>0, <3>1, Begins
        <3>5. UNCHANGED <<qlinkdatanode_run_stat, last_status, isCancelRecoveryNet, sent>>
            BY <2>2 DEF Enters
        <3> QED
            BY <3>1, <3>2, <3>3, <3>4, <3>5
    <2>4. isCancelRecoveryNet => to \in {"rejected", "handed_over"}
        BY <2>1, <2>2 DEF Way, TrafficInv
    <2>5. to = "cancelling" => evt = 40 /\ ~isCancelRecoveryNet
        BY <2>1, <2>4 DEF Way
    <2>6. evt = 40 => to = "cancelling" \/ isCancelRecoveryNet
        <3>1. evt = 40 => to = "cancelling" \/ from = "cancelled"
            BY <2>1 DEF Way
        <3> QED
            BY <3>1, <2>2 DEF TrafficInv
    <2>7. to # "cancelled"
        BY <2>1 DEF Way
    <2> QED
        BY <2>2, <2>3, <2>4, <2>5, <2>6, <2>7, <1>0, OutIs DEF TrafficInv
<1>2. CASE ChecksNet /\ Quiescent
    <2>1. \A u \in Reporters : call[u] = Out
        BY <1>2, NobodyElse
    <2>2. phase'.at = "csq" /\ phase.at = "check"
        BY <1>2, Forgets DEF TypeInv
    <2> QED
        BY <1>0, <1>2, <2>1, <2>2, Forgets, OutIs DEF TrafficInv, None
<1>3. CASE HandsOver
    <2>1. phase'.at = "check" /\ phase.at = "handed_over"
        BY <1>3 DEF HandsOver, TypeInv
    <2> QED
        BY <1>3, <2>1 DEF HandsOver, TrafficInv
<1>4. CASE Cancels
    <2>1. phase'.at = "cancelled" /\ phase.at = "cancelling"
        BY <1>4 DEF Cancels, TypeInv
    <2>2. \A t \in Reporters : call[t].pc = "out"
        BY <1>4, <2>1 DEF Cancels, AloneInv, Reporters
    <2> QED
        BY <1>0, <1>4, <2>1, <2>2 DEF Cancels, TrafficInv
<1>5. ASSUME NEW t \in Threads, Reports(t), Quiescent PROVE TrafficInv'
    <2>1. PICK e \in EventsOf(t) : Enters(t, e)
        BY <1>5 DEF Reports
    <2>2. e \in Events40 /\ t \in Reporters /\ e # 40
        BY <2>1, RunStatAssumption DEF Events40, Reporters
    <2>3. /\ \A u \in Reporters : call[u] = Out
          /\ \A u \in Reporters : u # t => call'[u] = Out
          /\ \/ call'[t].pc = "read" /\ call'[t].evt = e
             \/ call' = call
          /\ phase.at \notin {"handed_over", "cancelling"} /\ phase' = phase
          /\ UNCHANGED <<qlinkdatanode_run_stat, last_status, isCancelRecoveryNet, sent>>
        BY <1>5, <2>1, <2>2, Begins, NobodyElse DEF Enters, Reports
    <2> QED
        BY <2>2, <2>3, OutIs DEF TrafficInv, None
<1>6. ASSUME NEW t \in Reporters, Within(t) PROVE TrafficInv'
    <2>1. /\ UNCHANGED <<isCancelRecoveryNet, phase>>
          /\ \A u \in Reporters : u # t => call'[u] = call[u] /\ call[u].pc = "out"
          /\ phase.at = "cancelling" => t = "EvtLoop"
        <3>1. call[t].pc # "out" /\ UNCHANGED <<isCancelRecoveryNet, phase>>
            BY <1>6 DEF Within, Reads, WritesBit, WritesMask, Encodes, Sends, Returns
        <3>2. \A u \in Reporters : u # t => call'[u] = call[u] /\ call[u].pc = "out"
            BY <1>6, <3>1, ReadsIs, WritesBitIs, WritesMaskIs, EncodesIs, SendsIs, ReturnsIs
               DEF Within, AloneInv
        <3> QED
            BY <3>1, <3>2 DEF AloneInv, Reporters
    <2>2. CASE Reads(t) \/ WritesBit(t) \/ WritesMask(t)
        <3>1. /\ UNCHANGED <<last_status, sent>> /\ call[t].pc \in {"read", "write"}
              /\ \/ call'[t].pc \in {"read", "write"} /\ call'[t].evt = call[t].evt
                 \/ call'[t] = Out /\ call[t].evt = None
            <4>1. CASE Reads(t)
                <5>1. UNCHANGED <<last_status, sent>>
                    BY <4>1 DEF Reads
                <5> QED
                    BY <4>1, <5>1, ReadsIs
            <4>2. CASE WritesBit(t)
                <5>1. UNCHANGED <<last_status, sent>>
                    BY <4>2 DEF WritesBit
                <5> QED
                    BY <4>2, <5>1, WritesBitIs
            <4>3. CASE WritesMask(t)
                <5>1. UNCHANGED <<last_status, sent>>
                    BY <4>3 DEF WritesMask
                <5> QED
                    BY <4>3, <5>1, WritesMaskIs
            <4> QED
                BY <2>2, <4>1, <4>2, <4>3
        <3>2. call'[t].evt = call[t].evt
            BY <3>1, OutIs
        <3> QED
            BY <2>1, <3>1, <3>2, OutIs DEF TrafficInv, None
    <2>3. CASE Encodes(t)
        <3>1. UNCHANGED <<last_status, sent>>
            BY <2>3 DEF Encodes
        <3>2. /\ call'[t].pc = "send" /\ call'[t].evt = call[t].evt
              /\ isCancelRecoveryNet \/ call[t].evt = 40 => call'[t].msg = OutOfTraffic
            BY <2>3, EncodesIs DEF Message
        <3>3. call[t].pc # "out"
            BY <2>3 DEF Encodes
        <3> QED
            BY <2>1, <3>1, <3>2, <3>3 DEF TrafficInv
    <2>4. CASE Sends(t)
        <3>1. UNCHANGED last_status
            BY <2>4 DEF Sends
        <3> QED
            BY <2>1, <2>4, <3>1, SendsIs DEF TrafficInv
    <2>5. CASE Returns(t)
        <3>1. UNCHANGED sent
            BY <2>5 DEF Returns
        <3> QED
            BY <2>1, <2>5, <3>1, ReturnsIs, OutIs DEF TrafficInv, None
    <2> QED
        BY <1>6, <2>2, <2>3, <2>4, <2>5 DEF Within
<1>7. CASE UNCHANGED vars
    BY <1>7 DEF vars, TrafficInv
<1> QED
    BY <1>1, <1>2, <1>3, <1>4, <1>5, <1>6, <1>7 DEF Next, InTurn, Reporters

\* All this holds at first.
LEMMA InitCalm == Init => CalmInv
<1> SUFFICES ASSUME Init PROVE CalmInv
    OBVIOUS
<1>1. TypeInv /\ CallInv
    BY InitBase
<1>2. \A t \in Reporters : call[t] = Out
    BY DEF Init, Reporters
<1>3. AloneInv
    BY <1>2, OutIs DEF AloneInv, Init, Reporters
<1>4. TrafficInv
    BY <1>2, OutIs DEF TrafficInv, Init, Reporters, None
<1> QED
    BY <1>1, <1>3, <1>4 DEF CalmInv

\* In turn: what is known of the traffic is what has been told of it.
THEOREM Calm == Spec /\ [][InTurn]_vars => []CalmInv
<1>1. Init => CalmInv
    BY InitCalm
<1>2. CalmInv /\ [Next]_vars /\ [InTurn]_vars => CalmInv'
    <2> SUFFICES ASSUME CalmInv, [Next]_vars, [InTurn]_vars PROVE CalmInv'
        OBVIOUS
    <2>1. TypeInv /\ CallInv /\ AloneInv /\ TrafficInv
        BY DEF CalmInv
    <2>2. TypeInv' /\ CallInv'
        BY <2>1, BaseStep
    <2> QED
        BY <2>1, <2>2, AloneStep, TrafficStep DEF CalmInv
<1> QED
    BY <1>1, <1>2, PTL DEF Spec

\* If every call finds the function empty, nothing else is told once it is known that there
\* is no traffic left.
THEOREM NoTrafficTold == Spec /\ [][InTurn]_vars => []OutOfTrafficStays
<1>1. CalmInv => OutOfTrafficStays
    BY DEF CalmInv, TrafficInv, OutOfTrafficStays
<1> QED
    BY <1>1, Calm, PTL

-----------------------------------------------------------------------------
(* Nothing is repeated after it has been forgotten.                        *)

\* What has been said after an event.
LEMMA SaidAfter ==
    ASSUME TypeInv, NEW t \in Reporters, NEW e \in Events40, Enters(t, e)
    PROVE  /\ e \in {17, 40} => said' = said
           /\ e = 16 => \A x \in Things :
                            said'[x] = IF x \in SIG..SERV_CONN THEN None ELSE said[x]
           /\ e \in OfTheCard \union OfTheModem =>
                 /\ said'[Thing(e)] = e
                 /\ \A x \in Things : x # Thing(e) => said'[x] = said[x]
<1>1. said' = Said(e) /\ said \in [Things -> {None} \union 0..30]
    BY DEF Enters, TypeInv
<1>2. CASE e \in {17, 40}
    BY <1>1, <1>2, Types DEF Said
<1>3. CASE e = 16
    BY <1>1, <1>3, Types DEF Said
<1>4. CASE e \in OfTheCard \union OfTheModem
    BY <1>1, <1>4, Types DEF Said
<1> QED
    BY <1>2, <1>3, <1>4, Types

\* Who begins is alone, and its event is the latest one.
LEMMA AloneWith ==
    ASSUME Quiescent, CalmInv, NEW t \in Reporters, NEW e \in Events40, Enters(t, e)
    PROVE  /\ \A u \in Reporters : call[u] = Out
           /\ \A u \in Reporters : u # t => call'[u] = Out
           /\ \A x \in Events40 : Latest(x)' => x = e
           /\ Repeated(e) => Latest(e) /\ call' = call
<1>1. TypeInv /\ CallInv
    BY DEF CalmInv
<1>2. \A u \in Reporters : call[u] = Out
    BY <1>1, NobodyElse
<1>3. \A u \in Reporters : u # t => call'[u] = Out
    BY <1>1, <1>2, Begins
<1>4. CASE Repeated(e)
    <2>1. call' = call /\ last_status' = last_status /\ last_status = e
        BY <1>1, <1>4, Begins DEF Repeated, Enters
    <2>2. \A x \in Events40 : x # None
        BY DEF Events40, None
    <2>3. \A u \in Reporters : call[u].evt = None
        BY <1>2, OutIs
    <2> QED
        BY <1>2, <1>3, <2>1, <2>2, <2>3 DEF Latest
<1>5. CASE ~Repeated(e)
    <2>1. call'[t].evt = e
        BY <1>1, <1>5, Begins
    <2>2. \A x \in Events40 : x # None
        BY DEF Events40, None
    <2> QED
        BY <1>2, <1>3, <1>5, <2>1, <2>2, OutIs DEF Latest
<1> QED
    BY <1>4, <1>5

\* What EvtLoop repeats has not been forgotten.
LEMMA NotForgotten ==
    ASSUME Quiescent, CalmInv, LatestInv, NEW from, NEW to, NEW evt, NEW flag,
           Goes(from, evt, to, flag), Way(from, evt, to, flag), Repeated(evt)
    PROVE  said' = said
<1>1. /\ evt \in Events40 /\ "EvtLoop" \in Reporters /\ Enters("EvtLoop", evt) /\
             phase.at = from
      /\ flag \notin phase.told
    BY DEF Goes, Way, Reporters
<1>2. Latest(evt)
    BY <1>1, AloneWith
<1>3. evt \notin {5, 6, 7, 20, 29, 30} => from \in Places(evt)
    BY <1>1, <1>2 DEF LatestInv
<1>4. evt \notin {16, 17}
    <2>1. evt \in {16, 17} => from \notin Places(evt)
        BY DEF Way
    <2> QED
        BY <1>3, <2>1
<1>5. from \notin {"check", "csq"}
    <2>1. from # "check"
        BY DEF Way
    <2>2. from = "csq" => evt \in {8, 9}
        BY DEF Way
    <2>3. evt = 8 => flag = "poor"
        BY DEF Way
    <2>4. evt # 8
        BY <1>1, <1>2, <2>3 DEF LatestInv
    <2>5. evt = 9 => from = "cgreg"
        BY <1>3, PlacesOf
    <2> QED
        BY <2>1, <2>2, <2>4, <2>5
<1>6. CASE evt = 40
    BY <1>1, <1>6, SaidAfter DEF CalmInv
<1>7. CASE evt \in OfTheCard \union OfTheModem
    <2>1. said[Thing(evt)] = evt
        BY <1>1, <1>2, <1>5, <1>7 DEF LatestInv
    <2>2. TypeInv /\ CallInv
        BY DEF CalmInv
    <2>3. /\ said \in [Things -> {None} \union 0..30] /\ said' \in [Things -> {None} \union
                 0..30]
        BY <1>1, <2>2, Begins DEF TypeInv
    <2>4. \A x \in Things : said'[x] = said[x]
        BY <1>1, <1>7, <2>1, <2>2, SaidAfter
    <2> QED
        BY <2>3, <2>4
<1> QED
    BY <1>1, <1>4, <1>6, <1>7, Types

\* A report of another thread that is left out changes nothing.
LEMMA NotForgottenByOthers ==
    ASSUME CalmInv, NEW t \in Threads, NEW e \in EventsOf(t), Enters(t, e), Reports(t), Fresh
    PROVE  /\ e \in Events40 /\ e \in {5, 6, 7, 20, 29, 30} /\ t \in Reporters
           /\ Repeated(e) => said' = said
<1>1. e \in Events40 /\ e \in {5, 6, 7, 20, 29, 30} /\ t \in Reporters /\
          e \in OfTheCard \union OfTheModem
    BY RunStatAssumption DEF Events40, Reporters, OfTheCard, OfTheModem
<1>2. TypeInv /\ CallInv
    BY DEF CalmInv
<1>3. Repeated(e) => call' = call
    BY <1>1, <1>2, Begins
<1> QED
    BY <1>1, <1>3 DEF Fresh

\* Within the function, the latest event stays the same.
LEMMA LatestWithin ==
    ASSUME CalmInv, NEW t \in Reporters, Within(t)
    PROVE  /\ \A u \in Reporters : u # t => call'[u] = Out /\ call[u] = Out
           /\ \A x \in Events40 : Latest(x)' => Latest(x)
           /\ UNCHANGED <<isCancelRecoveryNet, phase, said>>
<1>1. TypeInv /\ CallInv /\ AloneInv
    BY DEF CalmInv
<1>2. call[t].pc # "out" /\ UNCHANGED <<isCancelRecoveryNet, phase, said>>
    BY DEF Within, Reads, WritesBit, WritesMask, Encodes, Sends, Returns
<1>3. \A u \in Reporters : u # t => call'[u] = call[u]
    BY <1>1, ReadsIs, WritesBitIs, WritesMaskIs, EncodesIs, SendsIs, ReturnsIs DEF Within
<1>4. \A u \in Reporters : u # t => call[u] = Out
    BY <1>1, <1>2 DEF AloneInv, CallInv
<1>5. \A x \in Events40 : x # None
    BY DEF Events40, None
<1>6. CASE Returns(t)
    <2>1. call'[t] = Out /\ last_status' = call[t].evt
        BY <1>1, <1>6, ReturnsIs
    <2> QED
        BY <1>2, <1>3, <1>4, <1>5, <2>1, OutIs DEF Latest
<1>7. CASE ~Returns(t)
    <2>1. last_status' = last_status
        BY <1>7 DEF Within, Reads, WritesBit, WritesMask, Encodes, Sends
    <2>2. call'[t].evt = call[t].evt
        BY <1>1, <1>7, ReadsIs, WritesBitIs, WritesMaskIs, EncodesIs, SendsIs, OutIs DEF Within
    <2>3. \A u \in Reporters : call'[u].evt = call[u].evt
        BY <1>3, <2>2
    <2> QED
        BY <1>2, <1>3, <1>4, <2>1, <2>3 DEF Latest
<1> QED
    BY <1>6, <1>7

\* Whatever is done, an event that is reported again has not been forgotten.
LEMMA LatestStep ==
    ASSUME CalmInv, LatestInv, [Next /\ InTurn /\ Fresh]_vars
    PROVE  LatestInv'
<1>0. TypeInv /\ CallInv
    BY DEF CalmInv
<1>1. CASE EvtLoopReports /\ Quiescent
    <2>1. PICK from, to, evt, flag : Goes(from, evt, to, flag) /\ Way(from, evt, to, flag)
        BY <1>1, EvtLoopSteps DEF Reported
    <2>2. evt \in Events40 /\ "EvtLoop" \in Reporters /\ Enters("EvtLoop", evt) /\
              phase'.at = to
        BY <2>1 DEF Goes, Way, Reporters
    <2>3. \A x \in Events40 : Latest(x)' => x = evt
        BY <1>1, <2>2, AloneWith
    <2>4. evt \notin {5, 6, 7, 20, 29, 30} => to \in Places(evt)
        BY <2>1 DEF Way
    <2>5. flag # "" => flag \in phase'.told
        BY <2>1, Zenon DEF Goes
    <2>6. /\ evt = 8 => flag = "poor"
          /\ evt = 10 => flag = "unregistered"
          /\ evt = 14 => flag = "disconnected"
        BY <2>1 DEF Way
    <2>7. evt \in OfTheCard \union OfTheModem => said'[Thing(evt)] = evt
        BY <1>0, <2>2, SaidAfter
    <2> QED
        BY <2>2, <2>3, <2>4, <2>5, <2>6, <2>7 DEF LatestInv
<1>2. CASE ChecksNet /\ Quiescent
    <2>1. phase'.at = "csq" /\ phase.at = "check" /\ phase'.told = phase.told /\
              last_status' = last_status
        BY <1>0, <1>2, Forgets DEF TypeInv
    <2>2. \A u \in Reporters : call[u] = Out
        BY <1>0, <1>2, NobodyElse
    <2>3. \A u \in Reporters : call'[u].evt = None
        BY <1>0, <1>2, <2>2, Forgets, OutIs
    <2>4. \A x \in Events40 : Latest(x)' => Latest(x)
        <3>1. \A x \in Events40 : x # None
            BY DEF Events40, None
        <3> QED
            BY <2>1, <2>2, <2>3, <3>1, OutIs DEF Latest
    <2>5. \A x \in Events40 : x \notin {5, 6, 7, 20, 29, 30} /\ "check" \in Places(x) =>
              "csq" \in Places(x)
        BY PlacesOf DEF Events40
    <2> QED
        BY <2>1, <2>4, <2>5 DEF LatestInv
<1>3. CASE HandsOver
    <2>1. phase'.at = "check" /\ phase.at = "handed_over" /\ phase'.told = phase.told
        BY <1>0, <1>3 DEF HandsOver, TypeInv
    <2>2. \A x \in Events40 : Latest(x)' => Latest(x)
        BY <1>3 DEF HandsOver, Latest
    <2>3. \A x \in Events40 : x \notin {5, 6, 7, 20, 29, 30} /\
              "handed_over" \in Places(x) => "check" \in Places(x)
        BY PlacesOf DEF Events40
    <2> QED
        BY <2>1, <2>2, <2>3 DEF LatestInv
<1>4. CASE Cancels
    <2>1. phase'.at = "cancelled" /\ phase.at = "cancelling" /\ phase'.told = phase.told /\
              said' = said
        BY <1>0, <1>4 DEF Cancels, TypeInv
    <2>2. \A x \in Events40 : Latest(x)' => Latest(x)
        BY <1>4 DEF Cancels, Latest
    <2>3. \A x \in Events40 : x \notin {5, 6, 7, 20, 29, 30} /\
              "cancelling" \in Places(x) => "cancelled" \in Places(x)
        BY PlacesOf DEF Events40
    <2> QED
        BY <2>1, <2>2, <2>3 DEF LatestInv
<1>5. ASSUME NEW t \in Threads, Reports(t), Quiescent, Fresh PROVE LatestInv'
    <2>1. PICK e \in EventsOf(t) : Enters(t, e)
        BY <1>5 DEF Reports
    <2>2. e \in Events40 /\ e \in {5, 6, 7, 20, 29, 30} /\ t \in Reporters
        BY <1>5, <2>1, NotForgottenByOthers
    <2>3. \A x \in Events40 : Latest(x)' => x = e
        BY <1>5, <2>1, <2>2, AloneWith
    <2>4. said'[Thing(e)] = e
        BY <1>0, <2>1, <2>2, SaidAfter DEF OfTheCard, OfTheModem
    <2>5. e # 8 /\ e # 10 /\ e # 14
        BY <2>2
    <2> QED
        BY <2>2, <2>3, <2>4, <2>5, Zenon DEF LatestInv
<1>6. ASSUME NEW t \in Reporters, Within(t) PROVE LatestInv'
    BY <1>6, LatestWithin DEF LatestInv
<1>7. CASE UNCHANGED vars
    BY <1>7 DEF vars, LatestInv, Latest
<1> QED
    BY <1>1, <1>2, <1>3, <1>4, <1>5, <1>6, <1>7 DEF Next, InTurn, Reporters

-----------------------------------------------------------------------------
(* The bits.                                                               *)

\* No bit is pending when nobody is in the function.
LEMMA NothingPending ==
    ASSUME \A u \in Reporters : call[u] = Out
    PROVE  \A b : ~Pending(b)
BY OutIs DEF Pending

\* When a thread begins, or leaves it at that.
LEMMA EntersModem ==
    ASSUME Quiescent, CalmInv, ModemInv, NEW t \in Reporters, NEW e \in Events40,
               Enters(t, e),
           Repeated(e) => said' = said
    PROVE  ModemInv'
<1>0. TypeInv /\ CallInv
    BY DEF CalmInv
<1>1. /\ \A u \in Reporters : call[u] = Out
      /\ \A u \in Reporters : u # t => call'[u] = Out
      /\ Repeated(e) => call' = call
    BY AloneWith
<1>2. qlinkdatanode_run_stat' = qlinkdatanode_run_stat
    BY DEF Enters
<1>3. CASE Repeated(e)
    BY <1>1, <1>2, <1>3 DEF ModemInv, Pending, Shown
<1>4. CASE ~Repeated(e)
    <2>1. /\ call'[t].evt = e /\ call'[t].mask = Masked(e)
          /\ call'[t].todo = Sets(e) \union Clears(e)
        BY <1>0, <1>4, Begins
    <2> SUFFICES ASSUME NEW b \in SIG..CGREG2
                 PROVE  /\ ~Pending(b)' => Shown(b)'
                        /\ \A u \in Reporters : b \in call'[u].todo =>
                              (b \in Sets(call'[u].evt) <=> said'[b] # None /\
                                  b \in Sets(said'[b]))
                        /\ \A u \in Reporters : b \notin call'[u].mask
        BY DEF ModemInv
    <2>2. b \in Things /\ b # CARD /\ b \notin 1..4
        BY DEF Things, CARD, SIG, CGREG2
    <2>3. Shown(b)
        BY <1>1, NothingPending DEF ModemInv
    <2>4. ~Pending(b)' => b \notin Sets(e) \union Clears(e)
        BY <2>1 DEF Pending
    <2>5. \A u \in Reporters : u # t => b \notin call'[u].todo \union call'[u].mask
        BY <1>1, OutIs
    <2>6. CASE e \in OfTheCard
        <3>1. b \notin Sets(e) \union Clears(e) /\ b \notin Masked(e) /\ said'[b] = said[b]
            BY <1>0, <2>2, <2>6, CardEvents, SaidAfter
        <3> QED
            BY <1>2, <2>1, <2>3, <2>5, <3>1 DEF Shown
    <2>7. CASE e \in OfTheModem
        <3>1. Masked(e) = {} /\ Sets(e) \union Clears(e) = {Thing(e)} /\ said'[Thing(e)] = e
            BY <1>0, <2>7, ModemEvents, SaidAfter
        <3>2. e # None
            BY DEF Events40, None
        <3>3. b # Thing(e) => said'[b] = said[b]
            BY <1>0, <2>2, <2>7, SaidAfter
        <3> QED
            BY <1>2, <2>1, <2>3, <2>4, <2>5, <3>1, <3>2, <3>3 DEF Shown
    <2>8. CASE e = 16
        <3>1. Sets(e) = {} /\ Clears(e) = SIG..SERV_CONN /\ Masked(e) = {}
            BY <2>8, OtherEvents
        <3>2. said'[b] = IF b \in SIG..SERV_CONN THEN None ELSE said[b]
            BY <1>0, <2>2, <2>8, SaidAfter
        <3> QED
            BY <1>2, <2>1, <2>3, <2>4, <2>5, <3>1, <3>2 DEF Shown
    <2>9. CASE e \in {17, 40}
        <3>1. Sets(e) = {} /\ Clears(e) = {} /\ Masked(e) = {} /\ said' = said
            BY <1>0, <2>9, OtherEvents, SaidAfter
        <3> QED
            BY <1>2, <2>1, <2>3, <2>5, <3>1 DEF Shown
    <2> QED
        BY <2>6, <2>7, <2>8, <2>9, Types
<1> QED
    BY <1>3, <1>4

\* Within the function, a bit of mdmEmodem is pending or shown.
LEMMA WithinModem ==
    ASSUME CalmInv, ModemInv, NEW t \in Reporters, Within(t)
    PROVE  ModemInv'
<1>0. TypeInv /\ CallInv /\ AloneInv
    BY DEF CalmInv
<1>1. (\A u \in Reporters : u # t => call'[u] = Out /\ call[u] = Out) /\ said' = said
    BY LatestWithin
<1>2. \A b : /\ Pending(b) <=> b \in call[t].todo \union call[t].mask
             /\ Pending(b)' <=> b \in call'[t].todo \union call'[t].mask
    BY <1>1, OutIs DEF Pending
<1>3. ASSUME call'[t].todo = call[t].todo, call'[t].mask = call[t].mask,
                 call'[t].evt = call[t].evt,
             qlinkdatanode_run_stat' = qlinkdatanode_run_stat
      PROVE  ModemInv'
    BY <1>1, <1>2, <1>3, OutIs DEF ModemInv, Shown
<1>4. CASE Reads(t)
    BY <1>0, <1>3, <1>4, ReadsIs DEF Reads
<1>5. CASE WritesBit(t)
    <2>1. PICK n \in call[t].todo :
             /\ call'[t].evt = call[t].evt
             /\ call'[t].todo = call[t].todo \ {n} /\ call'[t].mask = call[t].mask
             /\ qlinkdatanode_run_stat' = IF n \in Sets(call[t].evt) THEN call[t].read \union {n}
                                          ELSE call[t].read \ {n}
        BY <1>0, <1>5, WritesBitIs
    <2>2. call[t].read = qlinkdatanode_run_stat
        BY <1>0, <1>5, WritesBitIs DEF AloneInv
    <2> SUFFICES ASSUME NEW b \in SIG..CGREG2
                 PROVE  /\ ~Pending(b)' => Shown(b)'
                        /\ \A u \in Reporters : b \in call'[u].todo =>
                              (b \in Sets(call'[u].evt) <=> said[b] # None /\
                                  b \in Sets(said[b]))
                        /\ \A u \in Reporters : b \in call'[u].mask =>
                               call'[u].evt = None /\ said[b] = None
        BY <1>1 DEF ModemInv
    <2>3. CASE b = n
        BY <1>1, <1>2, <2>1, <2>2, <2>3, OutIs DEF ModemInv, Shown
    <2>4. CASE b # n
        BY <1>1, <1>2, <2>1, <2>2, <2>4, OutIs DEF ModemInv, Shown
    <2> QED
        BY <2>3, <2>4
<1>6. CASE WritesMask(t)
    <2>1. /\ call[t].todo = {} /\ call'[t].todo = {} /\ call'[t].mask = {}
          /\ qlinkdatanode_run_stat' = qlinkdatanode_run_stat \ call[t].mask
        BY <1>0, <1>6, WritesMaskIs, OutIs DEF AloneInv
    <2>2. ASSUME NEW b \in SIG..CGREG2 PROVE Shown(b)'
        BY <1>1, <1>2, <2>1 DEF ModemInv, Shown
    <2> QED
        BY <1>1, <2>1, <2>2, OutIs DEF ModemInv
<1>7. CASE Encodes(t)
    BY <1>0, <1>3, <1>7, EncodesIs DEF Encodes
<1>8. CASE Sends(t)
    <2>1. call[t].todo = {} /\ call[t].mask = {}
        BY <1>0, <1>8, SendsIs DEF CallInv
    <2> QED
        BY <1>0, <1>3, <1>8, <2>1, SendsIs DEF Sends
<1>9. CASE Returns(t)
    <2>1. qlinkdatanode_run_stat' = qlinkdatanode_run_stat
        BY <1>9 DEF Returns
    <2> QED
        BY <1>0, <1>1, <1>2, <1>9, <2>1, ReturnsIs, OutIs DEF ModemInv, Shown
<1> QED
    BY <1>4, <1>5, <1>6, <1>7, <1>8, <1>9 DEF Within

\* A bit of mdmEmodem is pending or shows the latest event.
LEMMA ModemStep ==
    ASSUME CalmInv, LatestInv, ModemInv, [Next /\ InTurn /\ Fresh]_vars
    PROVE  ModemInv'
<1>0. TypeInv /\ CallInv
    BY DEF CalmInv
<1>1. CASE EvtLoopReports /\ Quiescent
    <2>1. PICK from, to, evt, flag : Goes(from, evt, to, flag) /\ Way(from, evt, to, flag)
        BY <1>1, EvtLoopSteps DEF Reported
    <2>2. Repeated(evt) => said' = said
        BY <1>1, <2>1, NotForgotten
    <2>3. evt \in Events40 /\ "EvtLoop" \in Reporters /\ Enters("EvtLoop", evt)
        BY <2>1 DEF Goes, Way, Reporters
    <2> QED
        BY <1>1, <2>2, <2>3, EntersModem
<1>2. CASE ChecksNet /\ Quiescent
    <2>1. \A u \in Reporters : call[u] = Out
        BY <1>0, <1>2, NobodyElse
    <2>2. \A u \in Reporters : u # "EvtLoop" => call'[u] = Out
        BY <1>0, <1>2, <2>1, Forgets
    <2>3. /\ call'["EvtLoop"].todo = {} /\ call'["EvtLoop"].mask = Forgotten
          /\ call'["EvtLoop"].evt = None /\ "EvtLoop" \in Reporters
          /\ qlinkdatanode_run_stat' = qlinkdatanode_run_stat
        BY <1>0, <1>2, Forgets DEF Reporters
    <2> SUFFICES ASSUME NEW b \in SIG..CGREG2
                 PROVE  /\ ~Pending(b)' => Shown(b)'
                        /\ \A u \in Reporters : b \notin call'[u].todo
                        /\ \A u \in Reporters : b \in call'[u].mask =>
                               call'[u].evt = None /\ said'[b] = None
        BY DEF ModemInv
    <2>4. b \in Things /\ (b \in Forgotten <=> b # CGREG2)
        BY DEF Things, CARD, SIG, CGREG2, Forgotten, Bits
    <2>5. said'[b] = IF b = CGREG2 THEN said[b] ELSE None
        BY <1>0, <1>2, <2>4, Forgets
    <2>6. Shown(b)
        BY <2>1, NothingPending DEF ModemInv
    <2>7. ~Pending(b)' => b = CGREG2
        BY <2>3, <2>4 DEF Pending
    <2> QED
        BY <2>2, <2>3, <2>4, <2>5, <2>6, <2>7, OutIs DEF Shown
<1>3. CASE HandsOver
    <2>1. \A u \in Reporters : call'[u] = Out
        BY <1>0, <1>3 DEF HandsOver, CalmInv, AloneInv, CallInv, Reporters
    <2>2. \A b \in SIG..CGREG2 : said'[b] = None /\ qlinkdatanode_run_stat' = {}
        BY <1>3 DEF HandsOver, Things, CARD, SIG, CGREG2
    <2> QED
        BY <2>1, <2>2, OutIs DEF ModemInv, Shown
<1>4. CASE Cancels
    BY <1>4 DEF Cancels, ModemInv, Pending, Shown
<1>5. ASSUME NEW t \in Threads, Reports(t), Quiescent, Fresh PROVE ModemInv'
    <2>1. PICK e \in EventsOf(t) : Enters(t, e)
        BY <1>5 DEF Reports
    <2>2. e \in Events40 /\ t \in Reporters /\ (Repeated(e) => said' = said)
        BY <1>5, <2>1, NotForgottenByOthers
    <2> QED
        BY <1>5, <2>1, <2>2, EntersModem
<1>6. ASSUME NEW t \in Reporters, Within(t) PROVE ModemInv'
    BY <1>6, WithinModem
<1>7. CASE UNCHANGED vars
    BY <1>7 DEF vars, ModemInv, Pending, Shown
<1> QED
    BY <1>1, <1>2, <1>3, <1>4, <1>5, <1>6, <1>7 DEF Next, InTurn, Reporters

-----------------------------------------------------------------------------
(* The card.                                                               *)

\* When a thread begins, or leaves it at that.
LEMMA EntersCard ==
    ASSUME Quiescent, CalmInv, CardInv, NEW t \in Reporters, NEW e \in Events40, Enters(t, e),
           Repeated(e) => said' = said, e # 20,
           e \in 0..4 => 4 \notin qlinkdatanode_run_stat,
           4 \in qlinkdatanode_run_stat => phase'.at \in {"rejected", "handed_over"}
    PROVE  CardInv'
<1>0. TypeInv /\ CallInv
    BY DEF CalmInv
<1>1. /\ \A u \in Reporters : call[u] = Out
      /\ \A u \in Reporters : u # t => call'[u] = Out
      /\ Repeated(e) => call' = call
    BY AloneWith
<1>2. qlinkdatanode_run_stat' = qlinkdatanode_run_stat
    BY DEF Enters
<1>3. CASE Repeated(e)
    BY <1>1, <1>2, <1>3 DEF CardInv, Pending
<1>4. CASE ~Repeated(e)
    <2>1. /\ call'[t].evt = e /\ call'[t].mask = Masked(e) /\ call'[t].pc = "read"
          /\ call'[t].todo = Sets(e) \union Clears(e)
        BY <1>0, <1>4, Begins
    <2>2. e # None /\ None \notin OfTheCard
        BY DEF Events40, OfTheCard, None
    <2>3. \A b : Pending(b)' <=> b \in call'[t].todo \union call'[t].mask
        BY <1>1, OutIs DEF Pending
    <2>4. CASE e \in OfTheCard
        <3>1. said'[CARD] = e
            BY <1>0, <2>4, CardEvents, SaidAfter
        <3>2. 1..3 \subseteq call'[t].todo
            BY <2>1, <2>4, CardEvents
        <3>3. 4 \in Sets(e) <=> e \in {18, 19, 20}
            BY <2>4, CardEvents
        <3>4. Masked(e) \intersect Sets(e) = {}
            BY <2>4, CardEvents
        <3>5. e \in OfTheCard \ {20}
            BY <2>4
        <3>6. ~Pending(4)' => e \notin {18, 19}
            BY <2>1, <2>3, <3>3
        <3> QED
            BY <1>1, <1>2, <2>1, <2>2, <2>3, <2>4, <3>1, <3>2, <3>4, <3>5, <3>6, OutIs
               DEF CardInv
    <2>5. CASE e \notin OfTheCard
        <3>1. said'[CARD] = said[CARD]
            <4>1. CASE e \in OfTheModem
                BY <1>0, <4>1, ModemEvents, SaidAfter DEF CARD, SIG, CGREG2, Things
            <4>2. CASE e \in {16, 17, 40}
                BY <1>0, <4>2, SaidAfter DEF CARD, SIG, SERV_CONN, CGREG2, Things
            <4> QED
                BY <2>5, <4>1, <4>2, Types
        <3>2. (Sets(e) \union Clears(e)) \intersect 1..4 = {} /\ Masked(e) = {}
            <4>1. CASE e \in OfTheModem
                BY <4>1, ModemEvents DEF SIG, CGREG2
            <4>2. CASE e \in {16, 17, 40}
                BY <4>2, OtherEvents DEF SIG, SERV_CONN
            <4> QED
                BY <2>5, <4>1, <4>2, Types
        <3>3. \A b : ~Pending(b)
            BY <1>1, NothingPending
        <3> QED
            BY <1>1, <1>2, <2>1, <2>2, <2>5, <3>1, <3>2, <3>3, OutIs DEF CardInv
    <2> QED
        BY <2>4, <2>5
<1> QED
    BY <1>3, <1>4

\* Within the function, a bit of the card is pending or shown.
LEMMA WithinCard ==
    ASSUME CalmInv, LatestInv, CardInv, NEW t \in Reporters, Within(t)
    PROVE  CardInv'
<1>0. TypeInv /\ CallInv /\ AloneInv
    BY DEF CalmInv
<1>1. /\ \A u \in Reporters : u # t => call'[u] = Out /\ call[u] = Out
      /\ UNCHANGED <<phase, said>>
    BY LatestWithin
<1>2. \A b : /\ Pending(b) <=> b \in call[t].todo \union call[t].mask
             /\ Pending(b)' <=> b \in call'[t].todo \union call'[t].mask
    BY <1>1, OutIs DEF Pending
<1>3. None \notin OfTheCard /\ call[t].evt \in {None} \union Events40 /\ None \notin Events40
    BY <1>0 DEF TypeInv, Calls, None, OfTheCard, Events40
<1>4. ASSUME call'[t].todo = call[t].todo, call'[t].mask = call[t].mask,
                 call'[t].evt = call[t].evt,
             qlinkdatanode_run_stat' = qlinkdatanode_run_stat, call[t].pc # "out"
      PROVE  CardInv'
    BY <1>1, <1>2, <1>4, OutIs DEF CardInv
<1>5. CASE Reads(t)
    BY <1>0, <1>4, <1>5, ReadsIs DEF Reads
<1>6. CASE WritesBit(t)
    <2>1. PICK n \in call[t].todo :
             /\ call'[t].evt = call[t].evt
             /\ call'[t].todo = call[t].todo \ {n} /\ call'[t].mask = call[t].mask
             /\ qlinkdatanode_run_stat' = IF n \in Sets(call[t].evt) THEN call[t].read \union {n}
                                          ELSE call[t].read \ {n}
        BY <1>0, <1>6, WritesBitIs
    <2>2. call[t].read = qlinkdatanode_run_stat /\ call[t].pc = "write"
        BY <1>0, <1>6, WritesBitIs DEF AloneInv
    <2>3. CASE n \in 1..4
        <3>1. /\ call[t].evt \in OfTheCard /\ said[CARD] = call[t].evt /\ call[t].evt # 20
              /\ said[CARD] # None
            <4>1. call[t].evt \in OfTheCard
                BY <2>3 DEF CardInv
            <4>2. said[CARD] = call[t].evt /\ said[CARD] \in {None} \union (OfTheCard \ {20})
                BY <4>1 DEF CardInv
            <4> QED
                BY <1>3, <4>1, <4>2
        <3>2. 4 \in Sets(call[t].evt) <=> call[t].evt \in {18, 19}
            BY <3>1, CardEvents
        <3>3. 4 \in qlinkdatanode_run_stat' => phase.at \in {"rejected", "handed_over"}
            <4>1. CASE n = 4
                <5> SUFFICES ASSUME 4 \in Sets(call[t].evt) PROVE phase.at = "rejected"
                    BY <2>1, <2>2, <4>1
                <5>1. call[t].evt \in {18, 19} /\ call[t].evt \in Events40
                    BY <3>2 DEF Events40
                <5>2. Latest(call[t].evt)
                    BY DEF Latest
                <5>3. phase.at \in Places(call[t].evt)
                    BY <5>1, <5>2 DEF LatestInv
                <5> QED
                    BY <5>1, <5>3, PlacesOf
            <4>2. CASE n # 4
                BY <2>1, <2>2, <4>2 DEF CardInv
            <4> QED
                BY <4>1, <4>2
        <3>4. ASSUME NEW b \in 1..4, ~Pending(b)'
              PROVE  b = n \/ ~Pending(b)
            BY <1>2, <2>1, <3>4
        <3>5. \A b \in 1..3 : ~Pending(b)' =>
                  (b \in qlinkdatanode_run_stat' <=> b \in Sets(said[CARD]))
            <4> SUFFICES ASSUME NEW b \in 1..3, ~Pending(b)'
                         PROVE  b \in qlinkdatanode_run_stat' <=> b \in Sets(said[CARD])
                OBVIOUS
            <4>1. b \in 1..4
                OBVIOUS
            <4>2. CASE b = n
                BY <2>1, <3>1, <4>2
            <4>3. CASE b # n
                BY <2>1, <2>2, <3>1, <3>4, <4>1, <4>3 DEF CardInv
            <4> QED
                BY <4>2, <4>3
        <3>6. ~Pending(4)' => /\ said[CARD] \in {18, 19} => 4 \in qlinkdatanode_run_stat'
                              /\ said[CARD] \in 0..4 => 4 \notin qlinkdatanode_run_stat'
            <4> SUFFICES ASSUME ~Pending(4)'
                         PROVE  /\ said[CARD] \in {18, 19} => 4 \in qlinkdatanode_run_stat'
                                /\ said[CARD] \in 0..4 => 4 \notin qlinkdatanode_run_stat'
                OBVIOUS
            <4>1. CASE n = 4
                BY <2>1, <3>1, <3>2, <4>1
            <4>2. CASE n # 4
                <5>1. ~Pending(4)
                    BY <3>4, <4>2
                <5>2. 4 \in qlinkdatanode_run_stat' <=> 4 \in qlinkdatanode_run_stat
                    BY <2>1, <2>2, <4>2
                <5> QED
                    BY <3>1, <5>1, <5>2 DEF CardInv
            <4> QED
                BY <4>1, <4>2
        <3> QED
            BY <1>1, <1>3, <2>1, <3>1, <3>3, <3>5, <3>6, OutIs DEF CardInv
    <2>4. CASE n \notin 1..4
        <3>1. \A b \in 1..4 : b \in qlinkdatanode_run_stat' <=> b \in qlinkdatanode_run_stat
            BY <2>1, <2>2, <2>4
        <3>2. \A b \in 1..4 : Pending(b)' <=> Pending(b)
            BY <1>2, <2>1, <2>4
        <3>3. \A b \in 1..3 : b \in 1..4
            OBVIOUS
        <3> QED
            BY <1>1, <1>3, <2>1, <2>2, <3>1, <3>2, <3>3, OutIs DEF CardInv
    <2> QED
        BY <2>3, <2>4
<1>7. CASE WritesMask(t)
    <2>1. /\ call[t].todo = {} /\ call'[t].todo = {} /\ call'[t].mask = {} /\
                 call[t].pc = "write"
          /\ call'[t].evt = call[t].evt
          /\ qlinkdatanode_run_stat' = qlinkdatanode_run_stat \ call[t].mask
          /\ call[t].evt = None => call'[t].pc = "out"
        BY <1>0, <1>7, WritesMaskIs, OutIs DEF AloneInv
    <2>2. CASE call[t].evt = None
        <3>1. said[CARD] = None
            BY <2>1, <2>2 DEF CardInv
        <3> QED
            BY <1>1, <1>3, <2>1, <2>2, <3>1, OutIs DEF CardInv
    <2>3. CASE call[t].evt # None
        <3>1. \A b \in call[t].mask \intersect 1..4 :
                  /\ said[CARD] = call[t].evt /\ call[t].evt \in OfTheCard
                  /\ b \notin Sets(said[CARD])
            BY <2>3 DEF CardInv
        <3>2. \A b \in 1..3 : said[CARD] # None =>
                  (b \in qlinkdatanode_run_stat' <=> b \in Sets(said[CARD]))
            BY <1>2, <2>1, <3>1 DEF CardInv
        <3>3. /\ said[CARD] \in {18, 19} => 4 \in qlinkdatanode_run_stat'
              /\ said[CARD] \in 0..4 => 4 \notin qlinkdatanode_run_stat'
            <4>1. CASE 4 \in call[t].mask
                <5>1. said[CARD] \notin {18, 19}
                    BY <3>1, <4>1, CardEvents
                <5> QED
                    BY <2>1, <4>1, <5>1
            <4>2. CASE 4 \notin call[t].mask
                <5>1. None \notin 0..4 /\ None \notin {18, 19}
                    BY DEF None
                <5> QED
                    BY <1>2, <2>1, <4>2, <5>1 DEF CardInv
            <4> QED
                BY <4>1, <4>2
        <3> QED
            BY <1>1, <1>3, <2>1, <2>3, <3>2, <3>3, OutIs DEF CardInv
    <2> QED
        BY <2>2, <2>3
<1>8. CASE Encodes(t)
    BY <1>0, <1>4, <1>8, EncodesIs DEF Encodes
<1>9. CASE Sends(t)
    <2>1. call[t].todo = {} /\ call[t].mask = {}
        BY <1>0, <1>9, SendsIs DEF CallInv
    <2> QED
        BY <1>0, <1>4, <1>9, <2>1, SendsIs DEF Sends
<1>10. CASE Returns(t)
    <2>1. qlinkdatanode_run_stat' = qlinkdatanode_run_stat
        BY <1>10 DEF Returns
    <2>2. /\ call[t].todo = {} /\ call[t].mask = {} /\ call'[t] = Out
        BY <1>0, <1>10, ReturnsIs
    <2> QED
        BY <1>1, <1>2, <1>3, <2>1, <2>2, OutIs DEF CardInv
<1> QED
    BY <1>5, <1>6, <1>7, <1>8, <1>9, <1>10 DEF Within

\* A bit of the card is pending or shows the latest event.
LEMMA CardStep ==
    ASSUME CalmInv, LatestInv, CardInv, NoApdu', [Next /\ InTurn /\ Fresh]_vars
    PROVE  CardInv'
<1>0. TypeInv /\ CallInv
    BY DEF CalmInv
<1>1. CASE EvtLoopReports /\ Quiescent
    <2>1. PICK from, to, evt, flag : Goes(from, evt, to, flag) /\ Way(from, evt, to, flag)
        BY <1>1, EvtLoopSteps DEF Reported
    <2>2. Repeated(evt) => said' = said
        BY <1>1, <2>1, NotForgotten
    <2>3. /\ evt \in Events40 /\ "EvtLoop" \in Reporters /\ Enters("EvtLoop", evt)
          /\ evt # 20 /\ phase.at = from /\ phase'.at = to
        BY <2>1 DEF Goes, Way, Reporters
    <2>4. evt \in 0..4 => from \in {"id", "service"}
        BY <2>1 DEF Way
    <2>5. from \in {"rejected", "handed_over"} => to \in {"rejected", "handed_over"}
        BY <2>1 DEF Way
    <2>6. 4 \in qlinkdatanode_run_stat => from \in {"rejected", "handed_over"}
        BY <2>3 DEF CardInv
    <2> QED
        BY <1>1, <2>2, <2>3, <2>4, <2>5, <2>6, EntersCard
<1>2. CASE ChecksNet /\ Quiescent
    <2>1. \A u \in Reporters : call[u] = Out
        BY <1>0, <1>2, NobodyElse
    <2>2. \A u \in Reporters : u # "EvtLoop" => call'[u] = Out
        BY <1>0, <1>2, <2>1, Forgets
    <2>3. /\ call'["EvtLoop"].todo = {} /\ call'["EvtLoop"].evt = None /\
                 "EvtLoop" \in Reporters
          /\ qlinkdatanode_run_stat' = qlinkdatanode_run_stat /\ phase.at = "check"
        BY <1>0, <1>2, Forgets DEF Reporters
    <2>4. said'[CARD] = None
        BY <1>0, <1>2, Forgets DEF Things, CARD, CGREG2
    <2>5. 4 \notin qlinkdatanode_run_stat
        BY <2>3 DEF CardInv
    <2>6. None \notin OfTheCard
        BY DEF None, OfTheCard
    <2> QED
        BY <2>2, <2>3, <2>4, <2>5, <2>6, OutIs DEF CardInv
<1>3. CASE HandsOver
    <2>1. \A u \in Reporters : call'[u] = Out
        BY <1>0, <1>3 DEF HandsOver, CalmInv, AloneInv, CallInv, Reporters
    <2>2. said'[CARD] = None /\ qlinkdatanode_run_stat' = {}
        BY <1>3 DEF HandsOver, Things, CARD, CGREG2
    <2>3. None \notin OfTheCard
        BY DEF None, OfTheCard
    <2> QED
        BY <2>1, <2>2, <2>3, OutIs DEF CardInv
<1>4. CASE Cancels
    <2>1. 4 \notin qlinkdatanode_run_stat
        BY <1>4 DEF Cancels, CardInv
    <2> QED
        BY <1>4, <2>1 DEF Cancels, CardInv, Pending
<1>5. ASSUME NEW t \in Threads, Reports(t), Quiescent, Fresh PROVE CardInv'
    <2>1. PICK e \in EventsOf(t) : Enters(t, e)
        BY <1>5 DEF Reports
    <2>2. /\ e \in Events40 /\ e \in {5, 6, 7, 20, 29, 30} /\ t \in Reporters
          /\ Repeated(e) => said' = said
        BY <1>5, <2>1, NotForgottenByOthers
    <2>3. e # 20 /\ e \notin 0..4
        <3>1. e = 20 => said'[CARD] = 20
            BY <1>0, <2>1, <2>2, CardEvents, SaidAfter DEF OfTheCard
        <3> QED
            BY <2>2, <3>1 DEF NoApdu
    <2>4. 4 \in qlinkdatanode_run_stat => phase'.at \in {"rejected", "handed_over"}
        BY <1>5 DEF Reports, CardInv
    <2> QED
        BY <1>5, <2>1, <2>2, <2>3, <2>4, EntersCard
<1>6. ASSUME NEW t \in Reporters, Within(t) PROVE CardInv'
    BY <1>6, WithinCard
<1>7. CASE UNCHANGED vars
    BY <1>7 DEF vars, CardInv, Pending
<1> QED
    BY <1>1, <1>2, <1>3, <1>4, <1>5, <1>6, <1>7 DEF Next, InTurn, Reporters

-----------------------------------------------------------------------------
(* What has been sent.                                                     *)

\* When a thread begins, or leaves it at that.
LEMMA EntersSent ==
    ASSUME Quiescent, CalmInv, SentInv, NEW t \in Reporters, NEW e \in Events40, Enters(t, e),
           Repeated(e) => said' = said
    PROVE  SentInv'
<1>0. TypeInv /\ CallInv
    BY DEF CalmInv
<1>1. /\ \A u \in Reporters : u # t => call'[u] = Out
      /\ Repeated(e) => call' = call
    BY AloneWith
<1>2. qlinkdatanode_run_stat' = qlinkdatanode_run_stat /\ sent' = sent
    BY DEF Enters
<1>3. CASE Repeated(e)
    BY <1>1, <1>2, <1>3 DEF SentInv
<1>4. CASE ~Repeated(e)
    <2>1. call'[t].evt = e /\ call'[t].pc = "read"
        BY <1>0, <1>4, Begins
    <2>2. e # None
        BY DEF Events40, None
    <2> QED
        BY <1>1, <2>1, <2>2, OutIs DEF SentInv
<1> QED
    BY <1>3, <1>4

\* Within the function, what is sent is the word as it is.
LEMMA WithinSent ==
    ASSUME CalmInv, CardInv, SentInv, NEW t \in Reporters, Within(t)
    PROVE  SentInv'
<1>0. TypeInv /\ CallInv /\ AloneInv
    BY DEF CalmInv
<1>1. /\ \A u \in Reporters : u # t => call'[u] = Out /\ call[u] = Out
      /\ UNCHANGED said
    BY LatestWithin
<1>2. ASSUME call'[t].evt # None, call'[t].pc \in {"read", "write"} PROVE SentInv'
    BY <1>1, <1>2, OutIs DEF SentInv
<1>3. CASE Reads(t)
    <2>1. UNCHANGED <<qlinkdatanode_run_stat, sent>>
        BY <1>3 DEF Reads
    <2> QED
        BY <1>0, <1>1, <1>3, <2>1, ReadsIs, OutIs DEF SentInv
<1>4. CASE WritesBit(t)
    <2>1. call[t].evt # None
        BY <1>0, <1>4, WritesBitIs DEF CallInv
    <2> QED
        BY <1>0, <1>2, <1>4, <2>1, WritesBitIs
<1>5. CASE WritesMask(t)
    <2>1. CASE call[t].evt # None
        BY <1>0, <1>2, <1>5, <2>1, WritesMaskIs
    <2>2. CASE call[t].evt = None
        <3>1. call'[t] = Out /\ qlinkdatanode_run_stat' \subseteq qlinkdatanode_run_stat
            BY <1>0, <1>5, <2>2, WritesMaskIs DEF AloneInv
        <3>2. said[CARD] = None /\ sent' = sent
            <4>1. call[t].pc = "write"
                BY <1>5 DEF WritesMask
            <4> QED
                BY <1>5, <2>2, <4>1 DEF CardInv, WritesMask
        <3>3. \A u \in Reporters : call[u].evt = None
            BY <1>1, <2>2, OutIs
        <3> QED
            BY <1>1, <3>1, <3>2, <3>3, OutIs DEF SentInv
    <2> QED
        BY <2>1, <2>2
<1>6. CASE Encodes(t)
    <2>1. /\ call'[t].pc = "send" /\ call'[t].evt # None /\ call'[t].msg = Message(call[t].evt)
        BY <1>0, <1>6, EncodesIs
    <2>2. UNCHANGED qlinkdatanode_run_stat
        BY <1>6 DEF Encodes
    <2>3. Message(call[t].evt).is = "state" =>
              Message(call[t].evt).bits = qlinkdatanode_run_stat
        BY DEF Message, OutOfTraffic, Suspended, State
    <2> QED
        BY <1>1, <2>1, <2>2, <2>3, OutIs DEF SentInv
<1>7. CASE Sends(t)
    <2>1. call[t].pc = "send" /\ call'[t].pc = "return" /\ sent' = call[t].msg
        BY <1>0, <1>7, SendsIs
    <2>2. UNCHANGED qlinkdatanode_run_stat
        BY <1>7 DEF Sends
    <2>3. sent'.is = "state" => sent'.bits = qlinkdatanode_run_stat
        BY <2>1 DEF SentInv
    <2> QED
        BY <1>1, <2>1, <2>2, <2>3, OutIs DEF SentInv
<1>8. CASE Returns(t)
    <2>1. UNCHANGED <<qlinkdatanode_run_stat, sent>> /\ call[t].pc = "return" /\ call'[t] = Out
        BY <1>0, <1>8, ReturnsIs DEF Returns
    <2> QED
        BY <1>1, <2>1, OutIs DEF SentInv
<1> QED
    BY <1>3, <1>4, <1>5, <1>6, <1>7, <1>8 DEF Within

\* What was sent last is the word, unless a call is still under way.
LEMMA SentStep ==
    ASSUME CalmInv, LatestInv, CardInv, SentInv, [Next /\ InTurn /\ Fresh]_vars
    PROVE  SentInv'
<1>0. TypeInv /\ CallInv
    BY DEF CalmInv
<1>1. CASE EvtLoopReports /\ Quiescent
    <2>1. PICK from, to, evt, flag : Goes(from, evt, to, flag) /\ Way(from, evt, to, flag)
        BY <1>1, EvtLoopSteps DEF Reported
    <2>2. Repeated(evt) => said' = said
        BY <1>1, <2>1, NotForgotten
    <2>3. evt \in Events40 /\ "EvtLoop" \in Reporters /\ Enters("EvtLoop", evt)
        BY <2>1 DEF Goes, Way, Reporters
    <2> QED
        BY <1>1, <2>2, <2>3, EntersSent
<1>2. CASE ChecksNet /\ Quiescent
    <2>1. \A u \in Reporters : call[u] = Out
        BY <1>0, <1>2, NobodyElse
    <2>2. \A u \in Reporters : u # "EvtLoop" => call'[u] = Out
        BY <1>0, <1>2, <2>1, Forgets
    <2>3. /\ call'["EvtLoop"].pc = "read" /\ "EvtLoop" \in Reporters
          /\ qlinkdatanode_run_stat' = qlinkdatanode_run_stat /\ sent' = sent
        BY <1>0, <1>2, Forgets DEF Reporters
    <2>4. said'[CARD] = None
        BY <1>0, <1>2, Forgets DEF Things, CARD, CGREG2
    <2> QED
        BY <2>1, <2>2, <2>3, <2>4, OutIs DEF SentInv
<1>3. CASE HandsOver
    <2>1. \A u \in Reporters : call'[u] = Out
        BY <1>0, <1>3 DEF HandsOver, CalmInv, AloneInv, CallInv, Reporters
    <2>2. said'[CARD] = None /\ qlinkdatanode_run_stat' = {}
        BY <1>3 DEF HandsOver, Things, CARD, CGREG2
    <2> QED
        BY <2>1, <2>2, OutIs DEF SentInv
<1>4. CASE Cancels
    BY <1>4 DEF Cancels, SentInv
<1>5. ASSUME NEW t \in Threads, Reports(t), Quiescent, Fresh PROVE SentInv'
    <2>1. PICK e \in EventsOf(t) : Enters(t, e)
        BY <1>5 DEF Reports
    <2>2. e \in Events40 /\ t \in Reporters /\ (Repeated(e) => said' = said)
        BY <1>5, <2>1, NotForgottenByOthers
    <2> QED
        BY <1>5, <2>1, <2>2, EntersSent
<1>6. ASSUME NEW t \in Reporters, Within(t) PROVE SentInv'
    BY <1>6, WithinSent
<1>7. CASE UNCHANGED vars
    BY <1>7 DEF vars, SentInv
<1> QED
    BY <1>1, <1>2, <1>3, <1>4, <1>5, <1>6, <1>7 DEF Next, InTurn, Reporters

-----------------------------------------------------------------------------
(* What yy_daemon knows.                                                   *)

\* All this holds at first.
LEMMA InitShown == Init => LatestInv /\ ModemInv /\ CardInv /\ SentInv
<1> SUFFICES ASSUME Init PROVE LatestInv /\ ModemInv /\ CardInv /\ SentInv
    OBVIOUS
<1>1. \A t \in Reporters : call[t] = Out
    BY DEF Init, Reporters
<1>2. LatestInv
    <2>1. \A e \in Events40 : e # None /\ e # 255
        BY DEF Events40, None
    <2> QED
        BY <1>1, <2>1, OutIs DEF LatestInv, Latest, Init
<1>3. \A x \in Things : said[x] = None
    BY DEF Init
<1>4. ModemInv
    <2>1. \A b \in SIG..CGREG2 : said[b] = None
        BY <1>3 DEF Things, CARD, SIG, CGREG2
    <2> QED
        BY <1>1, <2>1, OutIs DEF ModemInv, Shown, Init
<1>5. said[CARD] = None /\ None \notin OfTheCard
    BY <1>3 DEF Things, CARD, CGREG2, None, OfTheCard
<1>6. CardInv
    BY <1>1, <1>5, OutIs DEF CardInv, Init
<1>7. SentInv
    BY <1>1, <1>5, OutIs DEF SentInv, Init
<1> QED
    BY <1>2, <1>4, <1>6, <1>7

\* In turn and with nothing left out that would be new: what holds of mdmEmodem,
THEOREM ModemInvariant ==
    Spec /\ [][InTurn]_vars /\ [][Fresh]_vars => [](CalmInv /\ LatestInv /\ ModemInv)
<1> DEFINE I == CalmInv /\ LatestInv /\ ModemInv
<1>1. Init => I
    BY InitCalm, InitShown
<1>2. I /\ [Next]_vars /\ [InTurn]_vars /\ [Fresh]_vars => I'
    <2> SUFFICES ASSUME I, [Next]_vars, [InTurn]_vars, [Fresh]_vars PROVE I'
        OBVIOUS
    <2>1. TypeInv /\ CallInv /\ AloneInv /\ TrafficInv
        BY DEF CalmInv
    <2>2. CalmInv'
        BY <2>1, BaseStep, AloneStep, TrafficStep DEF CalmInv
    <2> QED
        BY <2>2, LatestStep, ModemStep
<1> QED
    BY <1>1, <1>2, PTL DEF Spec

\* and, without APDUs, of the card and of the messages.
THEOREM Invariant ==
    Spec /\ [][InTurn]_vars /\ [][Fresh]_vars /\ []NoApdu => []IInv
<1>1. Init => IInv
    BY InitCalm, InitShown DEF IInv
<1>2. IInv /\ [Next]_vars /\ [InTurn]_vars /\ [Fresh]_vars /\ NoApdu' => IInv'
    <2> SUFFICES ASSUME IInv, [Next]_vars, [InTurn]_vars, [Fresh]_vars, NoApdu' PROVE IInv'
        OBVIOUS
    <2>1. CalmInv /\ LatestInv /\ ModemInv /\ CardInv /\ SentInv
        BY DEF IInv
    <2>2. TypeInv /\ CallInv /\ AloneInv /\ TrafficInv
        BY <2>1 DEF CalmInv
    <2>3. CalmInv'
        BY <2>2, BaseStep, AloneStep, TrafficStep DEF CalmInv
    <2> QED
        BY <2>1, <2>3, LatestStep, ModemStep, CardStep, SentStep DEF IInv
<1> QED
    BY <1>1, <1>2, PTL DEF Spec

\* The bits that stand for an event about the card.
LEMMA CardOf ==
    ASSUME NEW bits \in SUBSET Bits, NEW e \in OfTheCard \ {20},
           \A b \in 1..3 : b \in bits <=> b \in Sets(e),
           e \in {18, 19} => 4 \in bits, e \in 0..4 => 4 \notin bits
    PROVE  Card(bits) = IF e = 18 THEN 0 ELSE e
<1>1. bits \intersect 1..3 = Sets(e) \intersect 1..3
    OBVIOUS
<1>2. \A n, m \in 0..7 : Binary(n) = Binary(m) => n = m
    BY BinaryOf
<1>3. CASE e \in {18, 19}
    <2>1. Sets(e) \intersect 1..3 = Binary(e - 18)
        BY <1>3, CardEvents, BinaryOf
    <2>2. e - 18 \in 0..4
        BY <1>3
    <2>3. (CHOOSE n \in 1..5 : bits \intersect 1..3 = Binary(n - 1)) = e - 17
        BY <1>1, <1>2, <1>3, <2>1
    <2>4. Card(bits) = <<0, 19, 20, 25, 26>>[e - 17]
        BY <1>1, <1>3, <2>1, <2>2, <2>3 DEF Card
    <2> QED
        BY <1>3, <2>4
<1>4. CASE e \in 0..7
    <2>1. bits \intersect 1..3 = Binary(e)
        BY <1>1, <1>4, CardEvents, BinaryOf
    <2>2. ~(4 \in bits /\ \E n \in 0..4 : bits \intersect 1..3 = Binary(n))
        BY <1>2, <1>4, <2>1
    <2>3. (CHOOSE n \in 0..7 : bits \intersect 1..3 = Binary(n)) = e
        BY <1>2, <1>4, <2>1
    <2>4. Card(bits) = CHOOSE n \in 0..7 : bits \intersect 1..3 = Binary(n)
        BY ONLY <2>2 DEF Card
    <2>5. (IF e = 18 THEN 0 ELSE e) = e
        BY <1>4
    <2> QED
        BY <2>3, <2>4, <2>5
<1> QED
    BY <1>3, <1>4 DEF OfTheCard

\* Nothing is pending in an empty function.
LEMMA ModemIsShown == ASSUME CalmInv, ModemInv PROVE ModemShown
<1> SUFFICES ASSUME Quiescent PROVE ModemShown
    BY DEF ModemShown
<1>1. \A u \in Reporters : call[u] = Out
    BY NobodyElse DEF CalmInv
<1> QED
    BY <1>1, NothingPending DEF ModemInv, ModemShown, Shown

\* The bits of mdmEmodem are those of the last events about it whatever else is reported,
\* APDUs included, if every call finds the function empty and no report is left out that
\* would be new.
THEOREM ModemEventsShown == Spec /\ [][InTurn]_vars /\ [][Fresh]_vars => []ModemShown
<1>1. CalmInv /\ LatestInv /\ ModemInv => ModemShown
    BY ModemIsShown
<1> QED
    BY <1>1, ModemInvariant, PTL

\* If every call finds the function empty, no report is left out that would be new, and no
\* APDU is reported, yy_daemon knows the last event about everything. The function itself
\* makes sure of none of these: it has no lock, and compares an event with the last one only.
THEOREM EventsShown ==
    Spec /\ [][InTurn]_vars /\ [][Fresh]_vars /\ []NoApdu => []LastEventsShown
<1>1. IInv => LastEventsShown
    <2> SUFFICES ASSUME IInv, Quiescent PROVE LastEventsShown
        BY DEF LastEventsShown, ModemShown, CardShown, StateTold
    <2>1. TypeInv /\ CallInv /\ ModemInv /\ CardInv /\ SentInv
        BY DEF IInv, CalmInv
    <2>2. \A u \in Reporters : call[u] = Out
        BY <2>1 DEF Quiescent, TypeInv, CallInv
    <2>3. \A b : ~Pending(b)
        BY <2>2, NothingPending
    <2>4. ModemShown
        BY <2>1, ModemIsShown DEF CalmInv, IInv
    <2>5. sent.is = "state" =>
            /\ qlinkdatanode_run_stat \subseteq sent.bits
            /\ said[CARD] # None =>
                   sent.bits \intersect 1..4 = qlinkdatanode_run_stat \intersect 1..4
        BY <2>1, <2>2, OutIs DEF SentInv
    <2>6. StateTold
        BY <2>5 DEF StateTold
    <2>7. CardShown
        <3> SUFFICES ASSUME said[CARD] # None, sent.is = "state"
                     PROVE  Card(sent.bits) = IF said[CARD] = 18 THEN 0 ELSE said[CARD]
            BY DEF CardShown
        <3>1. said[CARD] \in OfTheCard \ {20} /\ sent.bits \in SUBSET Bits
            BY <2>1 DEF CardInv, TypeInv, Messages
        <3>2. \A b \in 1..4 : b \in sent.bits <=> b \in qlinkdatanode_run_stat
            BY <2>5
        <3>3. \A b \in 1..3 : b \in sent.bits <=> b \in Sets(said[CARD])
            <4>1. \A b \in 1..3 : b \in 1..4
                OBVIOUS
            <4> QED
                BY <2>1, <2>3, <3>2, <4>1 DEF CardInv
        <3>4. /\ said[CARD] \in {18, 19} => 4 \in sent.bits
              /\ said[CARD] \in 0..4 => 4 \notin sent.bits
            BY <2>1, <2>3, <3>2 DEF CardInv
        <3> QED
            BY <3>1, <3>3, <3>4, CardOf
    <2> QED
        BY <2>4, <2>6, <2>7 DEF LastEventsShown
<1> QED
    BY <1>1, Invariant, PTL
=============================================================================
