------------------------- MODULE EmodemLink_proofs --------------------------
(***************************************************************************)
(* Proofs about mdmEmodem's connection, for every budget: that a power-off *)
(* is neither invented nor repeated, that mdmImodem takes over a closed    *)
(* connection only, and that queued requests are kept.                     *)
(***************************************************************************)
EXTENDS EmodemLink, TLAPS, WellFoundedInduction, NaturalsInduction,
        SequenceTheorems, FiniteSetTheorems

-----------------------------------------------------------------------------
(* Induction over a set of numbers, and the operators on sequences.        *)

\* The order of the natural numbers, as a set of pairs.
LEMMA LessThan ==
    ASSUME NEW m \in Nat, NEW n \in Nat, m < n
    PROVE  <<m, n>> \in OpToRel(<, Nat)
BY Zenon DEF OpToRel

\* Induction: a set that has 0, and with a number the next one, has them all.
LEMMA SetInduction ==
    ASSUME NEW T, 0 \in T, \A n \in Nat : n \in T => n + 1 \in T
    PROVE  Nat \subseteq T
<1>1. PICK R : IsWellFoundedOn(R, Nat) /\ \A m, n \in Nat : m < n => <<m, n>> \in R
    BY NatLessThanWellFounded, LessThan, Zenon
<1> SUFFICES ASSUME Nat \ T # {} PROVE FALSE
    OBVIOUS
<1>2. PICK x \in Nat \ T : \A y \in Nat \ T : ~(<<y, x>> \in R)
    <2>1. Nat \ T \subseteq Nat
        OBVIOUS
    <2> QED
        BY <1>1, <2>1, WFMin, Zenon
<1>3. x - 1 \in Nat /\ x - 1 < x
    BY <1>2
<1>4. x - 1 \notin T
    <2> SUFFICES ASSUME x - 1 \in T PROVE FALSE
        OBVIOUS
    <2>1. (x - 1) + 1 \in T
        BY <1>3
    <2> QED
        BY <1>2, <1>3, <2>1
<1> QED
    BY <1>1, <1>2, <1>3, <1>4

\* What is left of a sequence without its first element.
LEMMA TailOf ==
    ASSUME NEW S, NEW s \in Seq(S), s # <<>>
    PROVE  /\ Len(s) \in Nat \ {0} /\ Head(s) = s[1] /\ Head(s) \in S
           /\ Tail(s) \in Seq(S)
           /\ Len(Tail(s)) = Len(s) - 1
           /\ \A i \in 1..(Len(s) - 1) : Tail(s)[i] = s[i + 1]
OBVIOUS

\* An element is added at the end.
LEMMA AppendOf ==
    ASSUME NEW S, NEW s \in Seq(S), NEW e \in S
    PROVE  /\ Append(s, e) \in Seq(S)
           /\ Len(Append(s, e)) = Len(s) + 1
           /\ Append(s, e)[Len(s) + 1] = e
           /\ \A i \in 1..Len(s) : Append(s, e)[i] = s[i]
OBVIOUS

-----------------------------------------------------------------------------
(* The queue without its APDUs.                                            *)

\* The queue once its first i nodes have been looked at, from what it was before.
KeptNode(q, kept, i) ==
    IF i = 0 THEN <<>>
    ELSE IF q[i] = "APDU" THEN kept[i - 1] ELSE Append(kept[i - 1], q[i])

Keeping(q, n, kept) == kept = [i \in 0..n |-> KeptNode(q, kept, i)]

\* The nodes can be looked at one after another.
LEMMA KeepingExists == \A q : \A n \in Nat : \E kept : Keeping(q, n, kept)
<1> SUFFICES ASSUME NEW q PROVE \A n \in Nat : \E kept : Keeping(q, n, kept)
    OBVIOUS
<1> DEFINE T == {n \in Nat : \E kept : Keeping(q, n, kept)}
<1>1. 0 \in T
    <2> DEFINE k == [i \in 0..0 |-> <<>>]
    <2>1. Keeping(q, 0, k)
        BY DEF Keeping, KeptNode
    <2> QED
        BY <2>1
<1>2. ASSUME NEW n \in Nat, n \in T PROVE n + 1 \in T
    <2>1. PICK kept : Keeping(q, n, kept)
        BY <1>2
    <2> DEFINE k == [i \in 0..(n + 1) |-> IF i = n + 1 THEN KeptNode(q, kept, n + 1) ELSE kept[i]]
    <2>2. \A i \in 0..n : kept[i] = KeptNode(q, kept, i)
        BY <2>1 DEF Keeping
    <2>3. ASSUME NEW i \in 0..(n + 1) PROVE k[i] = KeptNode(q, k, i)
        <3>1. CASE i = n + 1
            <4>1. k[i] = KeptNode(q, kept, n + 1) /\ k[n] = kept[n]
                BY <3>1
            <4> QED
                BY <3>1, <4>1 DEF KeptNode
        <3>2. CASE i # n + 1
            <4>1. i \in 0..n /\ k[i] = kept[i] /\ (i # 0 => i - 1 \in 0..(n + 1) /\ k[i - 1] = kept[i - 1])
                BY <3>2
            <4> QED
                BY <2>2, <4>1 DEF KeptNode
        <3> QED
            BY <3>1, <3>2
    <2>4. Keeping(q, n + 1, k)
        BY <2>3 DEF Keeping
    <2> QED
        BY <2>4
<1>3. Nat \subseteq T
    <2> HIDE DEF T
    <2> QED
        BY <1>1, <1>2, SetInduction
<1> QED
    BY <1>3

\* The definition of WithoutApdus means what it says.
LEMMA WithoutApdusKeeps ==
    ASSUME NEW S, NEW q \in Seq(S)
    PROVE  \E kept : Keeping(q, Len(q), kept) /\ WithoutApdus(q) = kept[Len(q)]
<1> DEFINE kept == CHOOSE k : Keeping(q, Len(q), k)
<1>0. Len(q) \in Nat
    OBVIOUS
<1>1. Keeping(q, Len(q), kept)
    BY <1>0, KeepingExists, Zenon
<1>2. WithoutApdus(q) = kept[Len(q)]
    BY Zenon DEF WithoutApdus, Keeping, KeptNode
<1> QED
    BY <1>1, <1>2, Zenon

\* What is left are nodes of the queue.
LEMMA WithoutApdusSeq ==
    ASSUME NEW S, NEW q \in Seq(S)
    PROVE  WithoutApdus(q) \in Seq(S)
<1>1. PICK kept : Keeping(q, Len(q), kept) /\ WithoutApdus(q) = kept[Len(q)]
    BY WithoutApdusKeeps
<1>2. \A i \in 0..Len(q) : kept[i] = KeptNode(q, kept, i)
    BY <1>1 DEF Keeping
<1> DEFINE T == {n \in Nat : n <= Len(q) => kept[n] \in Seq(S)}
<1>3. 0 \in T
    <2>1. 0 \in 0..Len(q) /\ <<>> \in Seq(S)
        OBVIOUS
    <2> QED
        BY <1>2, <2>1 DEF KeptNode
<1>4. ASSUME NEW n \in Nat, n \in T PROVE n + 1 \in T
    <2> SUFFICES ASSUME n + 1 <= Len(q) PROVE kept[n + 1] \in Seq(S)
        OBVIOUS
    <2>1. q[n + 1] \in S /\ kept[n] \in Seq(S) /\ n + 1 \in 0..Len(q)
        BY <1>4
    <2>2. kept[n + 1] = IF q[n + 1] = "APDU" THEN kept[n] ELSE Append(kept[n], q[n + 1])
        BY <1>2, <2>1 DEF KeptNode
    <2> QED
        BY <2>1, <2>2
<1>5. Nat \subseteq T
    <2> HIDE DEF T
    <2> QED
        BY <1>3, <1>4, SetInduction
<1>6. Len(q) \in Nat
    OBVIOUS
<1> QED
    BY <1>1, <1>5, <1>6

-----------------------------------------------------------------------------
(* What the end of a handler keeps.                                        *)

Told(s, q) == s = "PWR_DOWN" \/ \E i \in DOMAIN q : q[i] = "PWR_DOWN"

\* The flags f, the request s in hand, the queue q and the timers t fit together.
Fine(f, s, q, t) ==
    /\ f \in SUBSET Flags /\ s \in Flows /\ q \in Seq(Nodes) /\ t \in SUBSET Timers
    /\ Ending \intersect f # {} \/ Told(s, q) \/ "power_down" \in t
       => "isFTMPowerOffInd" \in f
    /\ s = "IDLE" => "id_rsp" \notin t
    /\ "asked_again" \notin f =>
           /\ \A d, e \in Due \intersect f : d = e
           /\ Told(s, q) => Due \intersect f = {}

\* The engine a does, with the request s.
FineAt(a, s) ==
    /\ a \in Engine
    /\ a.cb = "suspend" => ~a.link
    /\ s = "IDLE" => a.acq \notin Sending

\* The invariant without what a handler does not change itself.
State ==
    /\ Fine(flags, flow, queue, timers)
    /\ FineAt(at, flow)
    /\ ChannelNum \in Channels
    /\ ChannelLock \in {"free", "lost"}
    /\ evtloop_pipe \in Seq(EvtRequest)
    /\ listener \in Seq(ListenerSteps)

\* Flags that have nothing to do with the power-off come and go.
LEMMA FineLess ==
    ASSUME NEW f, NEW s, NEW q, NEW t, Fine(f, s, q, t),
           NEW off, off \intersect {"isFTMPowerOffInd", "asked_again"} = {}
    PROVE  Fine(f \ off, s, q, t)
BY DEF Fine

LEMMA FineMore ==
    ASSUME NEW f, NEW s, NEW q, NEW t, Fine(f, s, q, t),
           NEW on \in SUBSET (Flags \ Ending)
    PROVE  Fine(f \union on, s, q, t)
BY DEF Fine, Due, Ending

LEMMA FineFlags ==
    ASSUME NEW f, NEW s, NEW q, NEW t, Fine(f, s, q, t),
           NEW off, off \intersect {"isFTMPowerOffInd", "asked_again"} = {},
           NEW on \in SUBSET (Flags \ Ending)
    PROVE  Fine((f \ off) \union on, s, q, t) /\ Fine((f \union on) \ off, s, q, t)
BY FineLess, FineMore

\* Timers are cancelled, and those of the other answers are added.
LEMMA FineTimers ==
    ASSUME NEW f, NEW s, NEW q, NEW t, Fine(f, s, q, t), NEW off
    PROVE  Fine(f, s, q, t \ off) /\ Fine(f, s, q, (t \ off) \union {"idle"})
BY DEF Fine, Timers

\* Another request is taken in hand than the notice of the power-off.
LEMMA FineFlow ==
    ASSUME NEW f, NEW s, NEW q, NEW t, Fine(f, s, q, t), NEW r \in Flows \ {"IDLE", "PWR_DOWN"}
    PROVE  Fine(f, r, q, t)
BY DEF Fine, Told

\* The engine goes where the write handlers take it.
States == {"IDLE", "CGSN", "COPS_1", "CREG_2", "CREG_3", "NETOPEN", "CIPOPEN_REQ", "CIPCLOSE",
           "CIPOPEN", "CIPSEND_1", "CIPSEND_2", "RECVING", "WAITING", "CATR_1", "CATR_2",
           "CUSTOM_AT"}

LEMMA AcqDataFine ==
    ASSUME NEW a \in Engine, NEW s, NEW x \in States, s = "IDLE" => x \notin Sending
    PROVE  FineAt(AcqData(a, x), s)
<1>1. \E u, v \in BOOLEAN :
          AcqData(a, x) = [a EXCEPT !.acq = x, !.cb = "acqData", !.socket = u, !.link = v]
    BY Zenon DEF AcqData
<1>2. AcqData(a, x) \in Engine
    <2>1. PICK u \in BOOLEAN, v \in BOOLEAN :
              AcqData(a, x) = [a EXCEPT !.acq = x, !.cb = "acqData", !.socket = u, !.link = v]
        BY <1>1
    <2> QED
        BY ZenonT(60), <2>1 DEF Engine, States
<1>3. AcqData(a, x).cb = "acqData" /\ AcqData(a, x).acq = x
    BY DEF Engine, AcqData
<1> QED
    BY <1>2, <1>3 DEF FineAt

LEMMA EngineFine ==
    ASSUME NEW a, NEW s, FineAt(a, s)
    PROVE  /\ FineAt(Waiting(a), s) /\ FineAt(Unarmed(a), s)
           /\ FineAt([a EXCEPT !.acq = "IDLE"], s)
           /\ \A x \in {"IDLE", "CSQ", "CGREG", "MAX"} : FineAt(CheckNet(a, x), s)
<1>1. FineAt(Waiting(a), s)
    BY ZenonT(60) DEF FineAt, Engine, Waiting, Sending
<1>2. FineAt(Unarmed(a), s)
    BY DEF FineAt, Engine, Unarmed
<1>3. FineAt([a EXCEPT !.acq = "IDLE"], s)
    BY DEF FineAt, Engine, Sending
<1>4. ASSUME NEW x \in {"IDLE", "CSQ", "CGREG", "MAX"} PROVE FineAt(CheckNet(a, x), s)
    BY ZenonT(60) DEF FineAt, Engine, CheckNet
<1> QED
    BY <1>1, <1>2, <1>3, <1>4

\* A state machine is left at its end, or at its beginning.
LEMMA FieldsFine ==
    ASSUME NEW a, NEW s, FineAt(a, s)
    PROVE  /\ FineAt([a EXCEPT !.chk = "MAX"], s) /\ FineAt([a EXCEPT !.conf = "MAX"], s)
           /\ FineAt([a EXCEPT !.susp = "MAX"], s) /\ FineAt([a EXCEPT !.susp = "IDLE"], s)
           /\ FineAt([a EXCEPT !.chk = "IDLE", !.acq = "IDLE"], s)
           /\ FineAt([a EXCEPT !.conf = "IPR", !.cb = "uartConfig"], s)
           /\ FineAt([a EXCEPT !.link = FALSE], s)
<1>1. FineAt([a EXCEPT !.chk = "MAX"], s)
    BY DEF FineAt, Engine
<1>2. FineAt([a EXCEPT !.conf = "MAX"], s)
    BY DEF FineAt, Engine
<1>3. FineAt([a EXCEPT !.susp = "MAX"], s)
    BY DEF FineAt, Engine
<1>4. FineAt([a EXCEPT !.susp = "IDLE"], s)
    BY DEF FineAt, Engine
<1>5. FineAt([a EXCEPT !.chk = "IDLE", !.acq = "IDLE"], s)
    BY DEF FineAt, Engine, Sending
<1>6. FineAt([a EXCEPT !.conf = "IPR", !.cb = "uartConfig"], s)
    BY ZenonT(60) DEF FineAt, Engine
<1>7. FineAt([a EXCEPT !.link = FALSE], s)
    BY DEF FineAt, Engine
<1> QED
    BY <1>1, <1>2, <1>3, <1>4, <1>5, <1>6, <1>7

LEMMA RestartFine ==
    ASSUME NEW a, NEW s, FineAt(a, s)
    PROVE  FineAt(Restart(a), s)
BY EngineFine DEF Restart

LEMMA SuspendFine ==
    ASSUME NEW a, NEW s, FineAt(a, s), NEW x \in {"CIPCLOSE", "NETCLOSE"}
    PROVE  FineAt(Suspend(a, x), s)
<1>1. CASE x = "CIPCLOSE" /\ ~a.socket
    BY ZenonT(60), <1>1 DEF FineAt, Engine, Suspend
<1>2. CASE ~(x = "CIPCLOSE" /\ ~a.socket)
    BY ZenonT(60), <1>2 DEF FineAt, Engine, Suspend
<1> QED
    BY <1>1, <1>2

LEMMA GoesFine ==
    ASSUME State, NEW a, NEW c \in Channels, NEW f,
           FineAt(a, flow), Fine(f, flow, queue, timers), Goes(a, c, f)
    PROVE  State'
BY DEF State, Goes, Fine, Told, FineAt

LEMMA SuspendsWithoutFine ==
    ASSUME State, NEW rsp, NEW a, FineAt(a, flow), NEW s \in {"CIPCLOSE", "NETCLOSE"},
           NEW c \in Channels, NEW f, Fine(f, flow, queue, timers),
           SuspendsWithout(rsp, a, s, c, f)
    PROVE  State'
<1>1. FineAt(Suspend(a, s), flow)
    BY SuspendFine
<1> QED
    BY <1>1 DEF State, SuspendsWithout, Fine, Told, FineAt

\* A node is added to the queue.
LEMMA FineAppended ==
    ASSUME NEW f, NEW s, NEW q, NEW t, Fine(f, s, q, t),
           NEW n \in Nodes, n = "PWR_DOWN" => s = "PWR_DOWN"
    PROVE  Fine(f, s, Append(q, n), t)
<1>1. q \in Seq(Nodes)
    BY DEF Fine
<1>2. /\ Append(q, n) \in Seq(Nodes)
      /\ DOMAIN Append(q, n) = 1..(Len(q) + 1) /\ Len(q) \in Nat /\ DOMAIN q = 1..Len(q)
      /\ Append(q, n)[Len(q) + 1] = n
      /\ \A i \in 1..Len(q) : Append(q, n)[i] = q[i]
    BY <1>1
<1>3. Told(s, Append(q, n)) <=> Told(s, q)
    BY <1>2 DEF Told
<1> QED
    BY <1>2, <1>3 DEF Fine

LEMMA RequeuesFine ==
    ASSUME State, flow # "IDLE", NEW a, NEW c \in Channels, NEW f,
           FineAt(a, flow), Fine(f, flow, queue, timers), Requeues(a, c, f)
    PROVE  State'
<1>1. InHand \in Nodes /\ (InHand = "PWR_DOWN" => flow = "PWR_DOWN")
    BY DEF InHand, Nodes, State, Fine, Flows
<1>2. Fine(f, flow, Append(queue, InHand), timers)
    BY <1>1, FineAppended
<1>3. Fine(flags, flow, queue, timers)'
    BY <1>2 DEF Requeues
<1> QED
    BY <1>3 DEF State, Requeues, FineAt

LEMMA LeaksFine == ASSUME State, Leaks PROVE State'
BY DEF State, Leaks, FineAt, Fine, Told

\* What leads to a power-off was asked for.
LEMMA AskedFor ==
    ASSUME NEW f, NEW s, NEW q, NEW t, Fine(f, s, q, t),
           Ending \intersect f # {} \/ "power_down" \in t
    PROVE  "isFTMPowerOffInd" \in f
BY DEF Fine

LEMMA PowersDownFine ==
    ASSUME State, NEW lock \in {"free", "lost"}, NEW f, Fine(f, flow, queue, timers),
           "isFTMPowerOffInd" \in f, PowersDownWith(lock, f)
    PROVE  State'
<1>1. FineAt(Waiting(at), flow)
    BY EngineFine DEF State
<1>2. Fine((f \ {"isMdmEmodemRunning"}) \union {"shutdown"}, flow, queue, timers)
    <2>1. Fine(f \ {"isMdmEmodemRunning"}, flow, queue, timers) /\ "shutdown" \notin Due
        BY FineLess DEF Due
    <2> QED
        BY <2>1 DEF Fine, Flags
<1> QED
    BY <1>1, <1>2 DEF State, PowersDownWith, Fine, Told, FineAt

-----------------------------------------------------------------------------
(* Transmitting and waiting.                                               *)

\* Nothing but a request of the queue is taken, and nothing is added to it.
LEMMA DequeuedFine ==
    ASSUME NEW q \in Seq(Nodes), NEW g
    PROVE  /\ Dequeued(q, g).flow \in Flows
           /\ Dequeued(q, g).queue \in Seq(Nodes)
           /\ Told(Dequeued(q, g).flow, Dequeued(q, g).queue) => Told("IDLE", q)
<1>1. CASE q = <<>>
    BY <1>1 DEF Dequeued, Flows, Told
<1>2. CASE q # <<>>
    <2>1. /\ Len(q) \in Nat \ {0} /\ Head(q) = q[1] /\ Head(q) \in Nodes
          /\ Tail(q) \in Seq(Nodes) /\ Len(Tail(q)) = Len(q) - 1
          /\ \A i \in 1..(Len(q) - 1) : Tail(q)[i] = q[i + 1]
        BY <1>2, TailOf
    <2>2. DOMAIN q = 1..Len(q) /\ DOMAIN Tail(q) = 1..(Len(q) - 1)
        BY <2>1
    <2>3. \A s : (s = "PWR_DOWN" => Head(q) = s) /\ Told(s, Tail(q)) => Told("IDLE", q)
        <3>1. 1 \in DOMAIN q /\ \A i \in DOMAIN Tail(q) : i + 1 \in DOMAIN q /\ Tail(q)[i] = q[i + 1]
            BY <2>1, <2>2
        <3> QED
            BY <2>1, <3>1 DEF Told
    <2>4. CASE Head(q) = "OUTDATED"
        BY <1>2, <2>1, <2>3, <2>4 DEF Dequeued, Flows
    <2>5. CASE Head(q) = "APDU" /\ "isUimPwrDwn" \in g
        <3>1. Dequeued(q, g) = [flow |-> "IDLE", queue |-> WithoutApdus(q)]
            BY <1>2, <2>5 DEF Dequeued
        <3>2. WithoutApdus(q) \in Seq(Nodes) /\ WithoutApdus(q) \in Seq({q[i] : i \in DOMAIN q})
            <4>1. q \in Seq({q[i] : i \in DOMAIN q})
                BY <2>1, <2>2
            <4> QED
                BY <4>1, WithoutApdusSeq
        <3>3. \A i \in DOMAIN WithoutApdus(q) : WithoutApdus(q)[i] \in {q[j] : j \in DOMAIN q}
            BY <3>2
        <3> QED
            BY <3>1, <3>2, <3>3 DEF Told, Flows
    <2>6. CASE Head(q) # "OUTDATED" /\ ~(Head(q) = "APDU" /\ "isUimPwrDwn" \in g)
        <3>1. Dequeued(q, g) = [flow |-> Head(q), queue |-> Tail(q)]
            BY <1>2, <2>6 DEF Dequeued
        <3> QED
            BY <2>1, <2>3, <2>6, <3>1 DEF Nodes, Flows
    <2> QED
        BY <2>4, <2>5, <2>6
<1> QED
    BY <1>1, <1>2

LEMMA DequeuedUnlessOffFine ==
    ASSUME NEW q \in Seq(Nodes), NEW g
    PROVE  /\ DequeuedUnlessOff(q, g).flow \in Flows
           /\ DequeuedUnlessOff(q, g).queue \in Seq(Nodes)
           /\ Told(DequeuedUnlessOff(q, g).flow, DequeuedUnlessOff(q, g).queue) => Told("IDLE", q)
<1>1. CASE "isFTMPowerOffInd" \in g
    BY <1>1 DEF DequeuedUnlessOff, Flows
<1>2. CASE "isFTMPowerOffInd" \notin g
    BY <1>2, DequeuedFine DEF DequeuedUnlessOff
<1> QED
    BY <1>1, <1>2

\* What is taken from the queue is sent, or nothing was.
LEMMA FineDequeued ==
    ASSUME NEW f, NEW s, NEW q, NEW t, Fine(f, s, q, t),
           NEW d, d.flow \in Flows, d.queue \in Seq(Nodes),
           Told(d.flow, d.queue) => Told("IDLE", q)
    PROVE  Fine(f, IF d.flow = "IDLE" THEN s ELSE d.flow, d.queue, t)
<1>1. Told(d.flow, d.queue) => Told(s, q)
    BY DEF Told
<1>2. Told(IF d.flow = "IDLE" THEN s ELSE d.flow, d.queue) => Told(s, q)
    BY <1>1 DEF Told
<1> QED
    BY <1>2 DEF Fine

LEMMA TransmitsFine ==
    ASSUME State, NEW a \in Engine, NEW s \in Flows \ {"IDLE"}, NEW q, NEW c \in Channels,
           NEW f, NEW t, Fine(f, s, q, t), Transmits(a, s, q, c, f, t)
    PROVE  State'
<1>1. CASE at' = AcqData(a, "CIPSEND_1") /\ flow' = s /\ queue' = q /\ UNCHANGED evtloop_pipe
    <2>1. FineAt(at', flow')
        BY <1>1, AcqDataFine DEF States
    <2>2. Fine(flags', flow', queue', timers')
        BY <1>1 DEF Transmits
    <2> QED
        BY <1>1, <2>1, <2>2 DEF State, Transmits
<1>2. CASE ~(at' = AcqData(a, "CIPSEND_1") /\ flow' = s /\ queue' = q /\ UNCHANGED evtloop_pipe)
    <2> DEFINE d == DequeuedUnlessOff(q, f)
    <2>1. /\ s = "STATUS"
          /\ evtloop_pipe' = Append(evtloop_pipe, Request("0x03"))
          /\ queue' = d.queue
          /\ flow' = IF d.flow = "IDLE" THEN s ELSE d.flow
          /\ at' = IF d.flow = "IDLE" THEN Waiting(a) ELSE AcqData(a, "CIPSEND_1")
          /\ ChannelNum' = c /\ flags' = f /\ timers' = t /\ UNCHANGED <<ChannelLock, listener>>
        BY <1>2 DEF Transmits
    <2>2. d.flow \in Flows /\ d.queue \in Seq(Nodes) /\ (Told(d.flow, d.queue) => Told("IDLE", q))
        BY DequeuedUnlessOffFine DEF Fine
    <2> HIDE DEF d
    <2>3. Fine(f, IF d.flow = "IDLE" THEN s ELSE d.flow, d.queue, t)
        BY <2>2, FineDequeued
    <2>4. FineAt(at', flow')
        <3>1. CASE d.flow = "IDLE"
            BY ZenonT(60), <2>1, <3>1 DEF FineAt, Waiting, Engine
        <3>2. CASE d.flow # "IDLE"
            BY <2>1, <3>2, AcqDataFine DEF States
        <3> QED
            BY <3>1, <3>2
    <2>5. evtloop_pipe' \in Seq(EvtRequest)
        <3>1. Request("0x03") \in EvtRequest
            BY DEF Request, EvtRequest, Channels
        <3> QED
            BY <2>1, <3>1 DEF State
    <2> QED
        BY <2>1, <2>3, <2>4, <2>5 DEF State
<1> QED
    BY <1>1, <1>2

LEMMA WaitsOrSendsFine ==
    ASSUME State, NEW a, FineAt(a, flow), NEW q, NEW c \in Channels, NEW f, NEW t, NEW w,
           Fine(f, flow, q, t), Fine(f, flow, q, w), WaitsOrSends(a, q, c, f, t, w)
    PROVE  State'
<1> DEFINE d == DequeuedUnlessOff(q, f)
<1>1. d.flow \in Flows /\ d.queue \in Seq(Nodes) /\ (Told(d.flow, d.queue) => Told("IDLE", q))
    BY DequeuedUnlessOffFine DEF Fine
<1>2. IF d.flow # "IDLE" THEN Transmits(a, d.flow, d.queue, c, f, t)
      ELSE /\ at' = Waiting(a) /\ ChannelNum' = c /\ flags' = f /\ timers' = w
           /\ queue' = d.queue
           /\ UNCHANGED <<ChannelLock, flow, evtloop_pipe, listener>>
    BY Zenon DEF WaitsOrSends
<1> HIDE DEF d
<1>3. CASE d.flow # "IDLE"
    <2>1. Fine(f, d.flow, d.queue, t)
        BY <1>1, <1>3, FineDequeued
    <2> QED
        BY <1>1, <1>2, <1>3, <2>1, TransmitsFine DEF FineAt
<1>4. CASE d.flow = "IDLE"
    <2>1. Fine(f, flow, d.queue, w)
        BY <1>1, <1>4, FineDequeued
    <2>2. FineAt(Waiting(a), flow)
        BY EngineFine
    <2> QED
        BY <1>2, <1>4, <2>1, <2>2 DEF State
<1> QED
    BY <1>3, <1>4

LEMMA WaitsFine ==
    ASSUME State, NEW a, FineAt(a, flow), NEW c \in Channels, NEW f,
           Fine(f, flow, queue, timers), Waits(a, c, f)
    PROVE  State'
BY WaitsOrSendsFine DEF Waits

LEMMA IdleTimerFine ==
    ASSUME NEW f, NEW s, NEW q, NEW t, Fine(f, s, q, t), NEW g
    PROVE  Fine(f, s, q, IdleTimer(g, t))
BY DEF IdleTimer, Fine, Timers

LEMMA TakesNextFine ==
    ASSUME State, NEW a, FineAt(a, flow), NEW c \in Channels, NEW f, NEW t,
           Fine(f, flow, queue, t), TakesNext(a, c, f, t)
    PROVE  State'
<1> DEFINE d == Dequeued(queue, f)
           idle == IdleTimer(f, t)
<1>1. d.flow \in Flows /\ d.queue \in Seq(Nodes) /\ (Told(d.flow, d.queue) => Told("IDLE", queue))
    BY DequeuedFine DEF Fine
<1>2. CASE d.flow # "IDLE"
    <2>1. Fine(f, d.flow, d.queue, t)
        <3> HIDE DEF d
        <3> QED
            BY <1>1, <1>2, FineDequeued
    <2>2. Transmits(a, d.flow, d.queue, c, f, t)
        BY <1>2 DEF TakesNext
    <2> QED
        BY <1>1, <1>2, <2>1, <2>2, TransmitsFine DEF FineAt
<1>3. CASE d.flow = "IDLE"
    <2>1. Fine(f, flow, d.queue, t)
        <3> HIDE DEF d
        <3> QED
            BY <1>1, <1>3, FineDequeued
    <2>2. CASE "isYYDaemonNeedtoSendATCmd" \in f
        <3>1. /\ at' = AcqData(a, "CUSTOM_AT") /\ ChannelNum' = c
              /\ flags' = f \ {"isYYDaemonNeedtoSendATCmd"}
              /\ timers' = t
              /\ queue' = d.queue
              /\ UNCHANGED <<ChannelLock, flow, evtloop_pipe, listener>>
            BY <1>3, <2>2 DEF TakesNext
        <3>2. FineAt(AcqData(a, "CUSTOM_AT"), flow)
            BY AcqDataFine DEF States, Sending, FineAt
        <3>3. Fine(f \ {"isYYDaemonNeedtoSendATCmd"}, flow, d.queue, t)
            BY <2>1, FineLess
        <3> HIDE DEF d
        <3> QED
            BY <3>1, <3>2, <3>3 DEF State
    <2>3. CASE "isYYDaemonNeedtoSendATCmd" \notin f
        <3>1. WaitsOrSends(a, d.queue, c, f, idle, idle)
            BY <1>3, <2>3 DEF TakesNext
        <3>2. Fine(f, flow, d.queue, idle)
            BY <2>1, IdleTimerFine
        <3> QED
            BY <3>1, <3>2, WaitsOrSendsFine
    <2> QED
        BY <2>2, <2>3
<1> QED
    BY <1>2, <1>3

-----------------------------------------------------------------------------
(* A power-off found pending by a handler that has no connection.          *)

LEMMA PowerOffFine ==
    ASSUME State, PowerOffGoesOn
    PROVE  ChannelPowerOff \in Channels /\ Fine(FlagsPowerOff, flow, queue, timers)
<1>1. CASE ~Has("isWaitToPwrDwn")
    BY <1>1 DEF ChannelPowerOff, FlagsPowerOff, State
<1>2. CASE Has("isWaitToPwrDwn")
    <2> DEFINE off == {"isWaitToPwrDwn", "isTermRcvrNow"}
                         \union IF ChannelNum = 4 THEN {"isMifiConnected"} ELSE {}
    <2>1. FlagsPowerOff = (flags \ off) \union {"isNeedToSendOutReq0x65"}
        BY <1>2 DEF FlagsPowerOff
    <2>2. Fine((flags \ off) \union {"isNeedToSendOutReq0x65"}, flow, queue, timers)
        BY <1>2 DEF Has, State, Fine, Due, Ending, Flags
    <2> QED
        BY <1>2, <2>1, <2>2 DEF ChannelPowerOff, Channels
<1> QED
    BY <1>1, <1>2

LEMMA PowerOffStopsFine ==
    ASSUME State, NEW lock \in {"free", "lost"}, PowerOffStops(lock)
    PROVE  State'
<1>1. Fine(flags \ {"isWaitToPwrDwn", "isTermRcvrNow"}, flow, queue, timers)
    BY FineLess DEF State
<1>2. "isFTMPowerOffInd" \in flags
    BY AskedFor DEF State, PowerOffStops, PowerOffGoesOn, Has, Due, Ending
<1> QED
    BY <1>1, <1>2, PowersDownFine, LeaksFine DEF PowerOffStops

-----------------------------------------------------------------------------
(* The handlers: mdmEmodem is brought up.                                  *)

LEMMA CheckNetIdleFine == ASSUME State, r_checkNetHdlr_IDLE PROVE State'
<1>1. Fine(flags \ {"isWaitToPwrDwn"}, flow, queue, timers)
    BY FineLess DEF State
<1>2. FineAt(CheckNet(at, "CSQ"), flow)
    BY EngineFine DEF State
<1>3. Has("isWaitToPwrDwn") => "isFTMPowerOffInd" \in flags
    BY AskedFor DEF State, Has, Due, Ending
<1> QED
    BY <1>1, <1>2, <1>3, PowersDownFine, GoesFine DEF r_checkNetHdlr_IDLE, PowersDown, State

LEMMA CheckNetCsqFine == ASSUME State, r_checkNetHdlr_CSQ PROVE State'
<1>1. CASE PowerOffStops("lost")
    BY <1>1, PowerOffStopsFine
<1>2. CASE PowerOffGoesOn
    <2>1. ChannelPowerOff \in Channels /\ Fine(FlagsPowerOff \ {"isTermRcvrNow"}, flow, queue, timers)
        BY <1>2, PowerOffFine, FineLess
    <2>2. FineAt(at, flow) /\ FineAt(CheckNet(at, "CGREG"), flow)
        BY EngineFine DEF State
    <2>3. \E a \in {at, CheckNet(at, "CGREG")} :
              Goes(a, ChannelPowerOff, FlagsPowerOff \ {"isTermRcvrNow"})
        BY <1>2 DEF r_checkNetHdlr_CSQ, PowerOffStops
    <2> QED
        BY <2>1, <2>2, <2>3, GoesFine
<1> QED
    BY <1>1, <1>2 DEF r_checkNetHdlr_CSQ

LEMMA CheckNetCgregFine == ASSUME State, r_checkNetHdlr_CGREG PROVE State'
<1>1. CASE PowerOffStops("lost")
    BY <1>1, PowerOffStopsFine
<1>2. CASE PowerOffGoesOn
    <2> DEFINE c == ChannelPowerOff
               f == FlagsPowerOff \ {"isTermRcvrNow"}
               registered == [at EXCEPT !.chk = "MAX"]
               configures == [registered EXCEPT !.conf = "IPR", !.cb = "uartConfig"]
               connects == AcqData(registered, "COPS_1")
               stops == [registered EXCEPT !.conf = "MAX"]
    <2>1. c \in Channels /\ Fine(f, flow, queue, timers)
        BY <1>2, PowerOffFine, FineLess
    <2>2. Fine(f \union {"isNotNeedIdleTimer"}, flow, queue, timers)
        BY <2>1, FineMore DEF Flags, Due, Ending
    <2>3. FineAt(at, flow) /\ FineAt(registered, flow) /\ FineAt(configures, flow) /\ FineAt(stops, flow)
        BY FieldsFine DEF State
    <2>4. FineAt(connects, flow)
        BY <2>3, AcqDataFine DEF FineAt, States, Sending
    <2>5. \/ \E a \in {at, configures, connects} : Goes(a, c, f)
          \/ Waits(stops, c, f \union {"isNotNeedIdleTimer"})
        BY <1>2 DEF r_checkNetHdlr_CGREG, PowerOffStops
    <2> HIDE DEF c, f, configures, connects, stops
    <2> QED
        BY <2>1, <2>2, <2>3, <2>4, <2>5, GoesFine, WaitsFine
<1> QED
    BY <1>1, <1>2 DEF r_checkNetHdlr_CGREG

LEMMA UartConfigFine == ASSUME State, r_uartConfigHdlr PROVE State'
<1>1. CASE UNCHANGED <<ChannelNum, ChannelLock, at, flags, queue, flow, evtloop_pipe, timers, listener>>
    BY <1>1 DEF State, Fine, Told, FineAt
<1>2. CASE Has("isWaitToPwrDwn") /\ PowersDown(flags \ {"isWaitToPwrDwn"})
    <2>1. Fine(flags \ {"isWaitToPwrDwn"}, flow, queue, timers)
        BY FineLess DEF State
    <2>2. "isFTMPowerOffInd" \in flags
        BY <1>2, AskedFor DEF State, Has, Due, Ending
    <2> QED
        BY <1>2, <2>1, <2>2, PowersDownFine DEF PowersDown, State
<1>3. CASE \E s \in {"CGSN", "COPS_1"} : Goes(AcqData([at EXCEPT !.conf = "MAX"], s), ChannelNum, flags)
    <2>1. [at EXCEPT !.conf = "MAX"] \in Engine
        BY FieldsFine DEF State, FineAt
    <2>2. \A s \in {"CGSN", "COPS_1"} : FineAt(AcqData([at EXCEPT !.conf = "MAX"], s), flow)
        BY <2>1, AcqDataFine DEF States, Sending
    <2> QED
        BY <1>3, <2>2, GoesFine DEF State
<1> QED
    BY <1>1, <1>2, <1>3 DEF r_uartConfigHdlr

\* The engine goes on, starts over, or stops, with flags of no account.
LEMMA GoesOnFine ==
    ASSUME State, NEW a, NEW off, NEW on,
           off \intersect {"isFTMPowerOffInd", "asked_again"} = {},
           on \in SUBSET (Flags \ Ending),
           FineAt(a, flow), NEW c \in Channels, Goes(a, c, (flags \ off) \union on)
    PROVE  State'
<1>1. Fine((flags \ off) \union on, flow, queue, timers)
    BY FineFlags DEF State
<1> QED
    BY <1>1, GoesFine

LEMMA StartsOverFine == ASSUME State, StartsOver PROVE State'
<1>1. FineAt(Restart(at), flow)
    BY RestartFine DEF State
<1> QED
    BY <1>1, GoesFine, FineLess DEF StartsOver, State

LEMMA AcqGoesFine ==
    ASSUME State, NEW s \in States \ Sending, Goes(AcqData(at, s), ChannelNum, flags)
    PROVE  State'
<1>1. FineAt(AcqData(at, s), flow)
    BY AcqDataFine DEF State, FineAt
<1> QED
    BY <1>1, GoesFine DEF State

LEMMA QueriesFine ==
    ASSUME State, r_acqDataHdlr_CGSN \/ r_acqDataHdlr_COPS_CREG_1 \/ r_acqDataHdlr_CREG_2
                  \/ r_acqDataHdlr_CREG_3
    PROVE  State'
<1>1. CASE StartsOver
    BY <1>1, StartsOverFine
<1>2. CASE Goes(Restart(at), ChannelNum, flags)
    BY <1>2, RestartFine, GoesFine DEF State
<1>3. CASE \E s \in {"COPS_1", "CREG_2"} : Goes(AcqData(at, s), ChannelNum, flags)
    BY <1>3, AcqGoesFine DEF States, Sending
<1>4. CASE Goes(AcqData([at EXCEPT !.chk = "MAX"], "CREG_3"), ChannelNum, flags)
    <2>1. [at EXCEPT !.chk = "MAX"] \in Engine
        BY FieldsFine DEF State, FineAt
    <2>2. FineAt(AcqData([at EXCEPT !.chk = "MAX"], "CREG_3"), flow)
        BY <2>1, AcqDataFine DEF States, Sending
    <2> QED
        BY <1>4, <2>2, GoesFine DEF State
<1>5. CASE Goes(Unarmed(at), ChannelNum, flags \union {"acq_imsi"})
    <2>1. Fine(flags \union {"acq_imsi"}, flow, queue, timers)
        BY FineMore DEF State, Flags, Due, Ending
    <2> QED
        BY <1>5, <2>1, EngineFine, GoesFine DEF State
<1> QED
    BY <1>1, <1>2, <1>3, <1>4, <1>5
    DEF r_acqDataHdlr_CGSN, r_acqDataHdlr_COPS_CREG_1, r_acqDataHdlr_CREG_2, r_acqDataHdlr_CREG_3

-----------------------------------------------------------------------------
(* The handlers: mdmEmodem connects.                                       *)

LEMMA SuspendedFine ==
    ASSUME State, NEW s \in {"CIPCLOSE", "NETCLOSE"}, NEW c, NEW f,
           Fine(f, flow, queue, timers), Suspended(s, c, f)
    PROVE  State'
<1>1. CASE Leaks
    BY <1>1, LeaksFine
<1>2. CASE Suspends(at, s, 2, f \ {"isWaitToSusp"})
    <2>1. Fine(f \ {"isWaitToSusp"}, flow, queue, timers)
        BY FineLess
    <2> QED
        BY <1>2, <2>1, SuspendsWithoutFine DEF Suspends, State, Channels
<1> QED
    BY <1>1, <1>2 DEF Suspended

LEMMA ClosesToRecoverFine ==
    ASSUME State, NEW s \in {"CIPCLOSE", "NETCLOSE"}, NEW c \in Channels, NEW f,
           Fine(f, flow, queue, timers), NEW a, FineAt(a, flow), ClosesToRecover(a, s, c, f)
    PROVE  State'
<1>1. Fine(f \union {"RcvrMdmEmodemConn"}, flow, queue, timers)
    BY FineMore DEF Flags, Due, Ending
<1> QED
    BY <1>1, SuspendsWithoutFine DEF ClosesToRecover, Suspends

LEMMA StartsOverUnlessLinkedFine ==
    ASSUME State, NEW a, FineAt(a, flow), StartsOverUnlessLinked(a)
    PROVE  State'
BY GoesFine, LeaksFine DEF StartsOverUnlessLinked, State

LEMMA NetOpenedFine ==
    ASSUME State, NEW c \in Channels, NEW f, Fine(f, flow, queue, timers), NetOpened(c, f)
    PROVE  State'
<1>1. CASE ClosesToRecover([at EXCEPT !.acq = "IDLE"], "NETCLOSE", c, f \ {"isTermRcvrNow"})
    <2>1. Fine(f \ {"isTermRcvrNow"}, flow, queue, timers)
        BY FineLess
    <2> QED
        BY <1>1, <2>1, ClosesToRecoverFine, EngineFine DEF State
<1>2. CASE Suspended("NETCLOSE", c, f)
    BY <1>2, SuspendedFine
<1>3. CASE \E a \in {Restart(at), AcqData(at, "CIPOPEN_REQ")} : Goes(a, c, f \ {"isWaitToSusp"})
    <2>1. FineAt(Restart(at), flow) /\ FineAt(AcqData(at, "CIPOPEN_REQ"), flow)
        BY RestartFine, AcqDataFine DEF State, FineAt, States, Sending
    <2>2. Fine(f \ {"isWaitToSusp"}, flow, queue, timers)
        BY FineLess
    <2> QED
        BY <1>3, <2>1, <2>2, GoesFine
<1> QED
    BY <1>1, <1>2, <1>3 DEF NetOpened

LEMMA NetopenFine == ASSUME State, r_acqDataHdlr_NETOPEN PROVE State'
<1>0. /\ FineAt(CheckNet(at, "CSQ"), flow) /\ FineAt(Restart(at), flow)
      /\ FineAt(AcqData(at, "CIPOPEN_REQ"), flow)
    BY RestartFine, EngineFine, AcqDataFine DEF State, FineAt, States, Sending
<1>1. CASE StartsOverUnlessLinked(CheckNet(at, "CSQ"))
    BY <1>0, <1>1, StartsOverUnlessLinkedFine
<1>2. CASE \E a \in {Restart(at), AcqData(at, "CIPOPEN_REQ")} : Goes(a, ChannelNum, flags)
    BY <1>0, <1>2, GoesFine DEF State
<1>3. CASE PowerOffStops("free")
    BY <1>3, PowerOffStopsFine
<1>4. CASE PowerOffGoesOn /\ NetOpened(ChannelPowerOff, FlagsPowerOff)
    BY <1>4, PowerOffFine, NetOpenedFine
<1> QED
    BY <1>1, <1>2, <1>3, <1>4 DEF r_acqDataHdlr_NETOPEN

LEMMA SocketsFine ==
    ASSUME State, r_acqDataHdlr_CIPOPEN_REQ \/ r_acqDataHdlr_CIPCLOSE
    PROVE  State'
<1>1. CASE StartsOver
    BY <1>1, StartsOverFine
<1>2. CASE \E s \in {"CIPCLOSE", "CIPOPEN"} : Goes(AcqData(at, s), ChannelNum, flags)
    BY <1>2, AcqGoesFine DEF States, Sending
<1> QED
    BY <1>1, <1>2 DEF r_acqDataHdlr_CIPOPEN_REQ, r_acqDataHdlr_CIPCLOSE

\* The flags with which the IMSI is asked for.
LEMMA AsksIMSIFine ==
    ASSUME NEW f, NEW s, NEW q, NEW t, Fine(f, s, q, t)
    PROVE  Fine(AsksIMSI(f), s, q, t)
BY FineFlags DEF AsksIMSI, Flags, Due, Ending

LEMMA ConnOpenedFine ==
    ASSUME State, NEW c \in Channels, NEW f, Fine(f, flow, queue, timers), ConnOpened(c, f),
           at.cb # "suspend"
    PROVE  State'
<1> DEFINE open == [at EXCEPT !.link = TRUE]
<1>0. open \in Engine /\ FineAt(open, flow) /\ 0 \in Channels /\ 3 \in Channels
    <2>1. FineAt(open, flow)
        BY DEF State, FineAt, Engine
    <2> QED
        BY <2>1 DEF FineAt, Channels
<1>1. CASE Transmits(open, "ID", queue, 0, f \ {"isProcOfInitApp"}, timers)
    <2>1. Fine(f \ {"isProcOfInitApp"}, "ID", queue, timers)
        BY FineLess, FineFlow DEF Flows
    <2> QED
        BY <1>0, <1>1, <2>1, TransmitsFine DEF Flows
<1>2. CASE /\ "isNeedToSendOutReq0x65" \in f
           /\ Transmits(open, "PWR_DOWN", queue, 0, PowerOffTold(f), timers)
    <2>1. Fine(PowerOffTold(f), "PWR_DOWN", queue, timers)
        BY <1>2 DEF Fine, Due, Ending, Told, PowerOffTold, Flows
    <2> QED
        BY <1>0, <1>2, <2>1, TransmitsFine DEF Flows
<1>3. CASE LET g == f \ {"isWaitToSusp"} IN
           Waits(open, 0, IF "isUimPwrDwn" \in g THEN AsksIMSI(g)
                          ELSE g \union {"PowerUpUsimAfterRecvingUrcRpt"})
    <2> DEFINE g == f \ {"isWaitToSusp"}
    <2>1. /\ Fine(AsksIMSI(g), flow, queue, timers)
          /\ Fine(g \union {"PowerUpUsimAfterRecvingUrcRpt"}, flow, queue, timers)
        BY FineLess, AsksIMSIFine, FineMore DEF Flags, Due, Ending
    <2>2. \E h \in {AsksIMSI(g), g \union {"PowerUpUsimAfterRecvingUrcRpt"}} : Waits(open, 0, h)
        BY <1>3
    <2> QED
        BY <1>0, <2>1, <2>2, WaitsFine
<1>4. CASE Transmits(open, "ID", queue, 0, f \ {"isNeedToSendIDMsg"}, timers)
    <2>1. Fine(f \ {"isNeedToSendIDMsg"}, "ID", queue, timers)
        BY FineLess, FineFlow DEF Flows
    <2> QED
        BY <1>0, <1>4, <2>1, TransmitsFine DEF Flows
<1>5. CASE LET d == Dequeued(queue, f)
               t == IdleTimer(f, timers)
           IN IF d.flow # "IDLE" THEN Transmits(open, d.flow, d.queue, 0, f, timers)
              ELSE WaitsOrSends(open, d.queue, 0, f, t, t)
    <2> DEFINE d == Dequeued(queue, f)
               t == IdleTimer(f, timers)
    <2>1. d.flow \in Flows /\ d.queue \in Seq(Nodes) /\ (Told(d.flow, d.queue) => Told("IDLE", queue))
        BY DequeuedFine DEF Fine
    <2>2. IF d.flow # "IDLE" THEN Transmits(open, d.flow, d.queue, 0, f, timers)
          ELSE WaitsOrSends(open, d.queue, 0, f, t, t)
        BY <1>5
    <2> HIDE DEF d
    <2>3. Fine(f, IF d.flow = "IDLE" THEN flow ELSE d.flow, d.queue, timers)
        BY <2>1, FineDequeued
    <2>4. Fine(f, IF d.flow = "IDLE" THEN flow ELSE d.flow, d.queue, t)
        BY <2>3, IdleTimerFine
    <2> HIDE DEF t, open
    <2> QED
        BY <1>0, <2>1, <2>2, <2>3, <2>4, TransmitsFine, WaitsOrSendsFine
<1>6. CASE TakesNext(open, 3, f, timers)
    BY <1>0, <1>6, TakesNextFine
<1>7. CASE Goes(Unarmed(open), c, f)
    BY <1>0, <1>7, EngineFine, GoesFine
<1> HIDE DEF open
<1> QED
    BY <1>1, <1>2, <1>3, <1>4, <1>5, <1>6, <1>7 DEF ConnOpened, open

LEMMA ConnRefusedFine ==
    ASSUME State, NEW c \in Channels, NEW f, Fine(f, flow, queue, timers), ConnRefused(c, f)
    PROVE  State'
<1>1. CASE \E s \in {"CIPCLOSE", "NETCLOSE"} :
               ClosesToRecover([at EXCEPT !.chk = IF s = "CIPCLOSE" THEN "IDLE" ELSE @,
                                          !.acq = "IDLE"], s, c, f)
    <2>1. PICK s \in {"CIPCLOSE", "NETCLOSE"} :
               ClosesToRecover([at EXCEPT !.chk = IF s = "CIPCLOSE" THEN "IDLE" ELSE @,
                                          !.acq = "IDLE"], s, c, f)
        BY <1>1
    <2>2. FineAt([at EXCEPT !.chk = IF s = "CIPCLOSE" THEN "IDLE" ELSE @, !.acq = "IDLE"], flow)
        <3>1. CASE s = "CIPCLOSE"
            BY <3>1 DEF State, FineAt, Engine, Sending
        <3>2. CASE s # "CIPCLOSE"
            BY <3>2 DEF State, FineAt, Engine, Sending
        <3> QED
            BY <3>1, <3>2
    <2> QED
        BY <2>1, <2>2, ClosesToRecoverFine
<1>2. CASE Goes(AcqData(at, "CIPOPEN_REQ"), c, f)
    BY <1>2, AcqDataFine, GoesFine DEF State, FineAt, States, Sending
<1> QED
    BY <1>1, <1>2 DEF ConnRefused

LEMMA ConnAnsweredFine ==
    ASSUME State, NEW opened, NEW c \in Channels, NEW f, Fine(f, flow, queue, timers),
           at.cb # "suspend", ConnAnswered(opened, c, f)
    PROVE  State'
<1>0. Fine(f \ {"isTermRcvrNow"}, flow, queue, timers) /\ Fine(f \ {"isWaitToSusp"}, flow, queue, timers)
    BY FineLess
<1>1. CASE ClosesToRecover([at EXCEPT !.acq = "IDLE"], "CIPCLOSE", c, f \ {"isTermRcvrNow"})
    BY <1>0, <1>1, ClosesToRecoverFine, EngineFine DEF State
<1>2. CASE Suspended("CIPCLOSE", c, f)
    BY <1>2, SuspendedFine
<1>3. CASE ConnOpened(c, f \ {"isWaitToSusp"})
    BY <1>0, <1>3, ConnOpenedFine
<1>4. CASE ConnRefused(c, f \ {"isWaitToSusp"})
    BY <1>0, <1>4, ConnRefusedFine
<1> QED
    BY <1>1, <1>2, <1>3, <1>4 DEF ConnAnswered

LEMMA CipopenFine == ASSUME State, r_acqDataHdlr_CIPOPEN PROVE State'
<1>0. /\ FineAt(at, flow) /\ FineAt(CheckNet(at, "CSQ"), flow)
      /\ FineAt(AcqData(at, "CIPOPEN_REQ"), flow)
      /\ FineAt([at EXCEPT !.chk = "IDLE", !.acq = "IDLE"], flow)
      /\ at.cb = "acqData" /\ ChannelNum \in Channels /\ Fine(flags, flow, queue, timers)
    BY EngineFine, AcqDataFine, FieldsFine
    DEF State, FineAt, States, Sending, r_acqDataHdlr_CIPOPEN, AcqArmed, Armed
<1>1. CASE StartsOverUnlessLinked(CheckNet(at, "CSQ")) \/ StartsOverUnlessLinked(AcqData(at, "CIPOPEN_REQ"))
    BY <1>0, <1>1, StartsOverUnlessLinkedFine
<1>2. CASE Suspends(at, "NETCLOSE", ChannelNum, flags \union {"isServConnClosed"})
    <2>1. Fine(flags \union {"isServConnClosed"}, flow, queue, timers)
        BY <1>0, FineMore DEF Flags, Due, Ending
    <2> QED
        BY <1>0, <1>2, <2>1, SuspendsWithoutFine DEF Suspends
<1>3. CASE Leaks
    BY <1>3, LeaksFine
<1>4. CASE ClosesToRecover([at EXCEPT !.chk = "IDLE", !.acq = "IDLE"], "NETCLOSE", ChannelNum, flags)
    BY <1>0, <1>4, ClosesToRecoverFine
<1>5. CASE PowerOffGoesOn /\ ConnAnswered(FALSE, ChannelPowerOff, FlagsPowerOff)
    BY <1>0, <1>5, PowerOffFine, ConnAnsweredFine
<1>6. CASE PowerOffStops("lost")
    BY <1>6, PowerOffStopsFine
<1>7. CASE ConnAnswered(TRUE, ChannelNum, flags)
    BY <1>0, <1>7, ConnAnsweredFine
<1> QED
    BY <1>1, <1>2, <1>3, <1>4, <1>5, <1>6, <1>7 DEF r_acqDataHdlr_CIPOPEN

-----------------------------------------------------------------------------
(* The handlers: a request is transmitted.                                 *)

LEMMA BrokenChannel == ASSUME NEW c \in Channels PROVE Broken[c] \in Channels
BY DEF Broken, Channels

LEMMA LosesFine ==
    ASSUME State, NEW a, FineAt(a, flow), Loses(a) \/ (LosesAndRequeues(a) /\ flow # "IDLE")
    PROVE  State'
BY BrokenChannel, GoesFine, RequeuesFine, LeaksFine DEF Loses, LosesAndRequeues, State

LEMMA RecoversFine ==
    ASSUME State, NEW rsp, NEW tolerated, NEW f, Fine(f, flow, queue, timers),
           Recovers(rsp, tolerated, f)
    PROVE  State'
<1>1. CASE Leaks
    BY <1>1, LeaksFine
<1>2. CASE SuspendsWithout(rsp, [at EXCEPT !.acq = "IDLE"], "CIPCLOSE", Broken[ChannelNum],
                           (f \ {"isWaitToRcvr"}) \union {"RcvrMdmEmodemConn"})
    <2>1. Fine((f \ {"isWaitToRcvr"}) \union {"RcvrMdmEmodemConn"}, flow, queue, timers)
        BY FineFlags DEF State, Flags, Due, Ending
    <2>2. FineAt([at EXCEPT !.acq = "IDLE"], flow)
        BY EngineFine DEF State
    <2> QED
        BY <1>2, <2>1, <2>2, BrokenChannel, SuspendsWithoutFine DEF State
<1> QED
    BY <1>1, <1>2 DEF Recovers

LEMMA SuspendsWhenDoneFine == ASSUME State, NEW rsp, SuspendsWhenDone(rsp) PROVE State'
<1>1. Fine(flags \ {"isWaitToSusp"}, flow, queue, timers)
    BY FineLess DEF State
<1> QED
    BY <1>1, SuspendsWithoutFine, LeaksFine DEF SuspendsWhenDone, State, Channels

LEMMA TellsPowerOffFine ==
    ASSUME State, Has("isWaitToPwrDwn"), TellsPowerOff
    PROVE  State'
<1> DEFINE off == {"isWaitToPwrDwn", "isWaitToSusp"}
                     \union IF ChannelNum = 3 THEN {"isMifiConnected"} ELSE {}
<1>1. Fine(flags \ off, "PWR_DOWN", queue, timers)
    BY DEF State, Fine, Due, Ending, Told, Has, Flows
<1> QED
    BY <1>1, TransmitsFine, LeaksFine DEF TellsPowerOff, State, FineAt, Flows, Channels

LEMMA ReportedWhileSuspendedFine ==
    ASSUME State, flow # "IDLE", NEW a, FineAt(a, flow), NEW f, Fine(f, flow, queue, timers),
           ReportedWhileSuspended(a, f)
    PROVE  State'
<1> DEFINE d == DequeuedUnlessOff(queue, f)
           s == IF d.flow = "IDLE" THEN "WAITING" ELSE "CIPSEND_1"
<1>1. d.flow \in Flows /\ d.queue \in Seq(Nodes) /\ (Told(d.flow, d.queue) => Told("IDLE", queue))
    BY DequeuedUnlessOffFine DEF Fine
<1>2. /\ at' = IF a.acq = "CIPSEND_1" THEN [a EXCEPT !.acq = s] ELSE a
      /\ flow' = IF d.flow = "IDLE" THEN flow ELSE d.flow
      /\ queue' = Append(d.queue, IF flow' = "STATUS" THEN "OUTDATED" ELSE flow')
      /\ flags' = f
      /\ UNCHANGED <<ChannelNum, ChannelLock, evtloop_pipe, timers, listener>>
    BY DEF ReportedWhileSuspended
<1> HIDE DEF d
<1>3. Fine(f, flow', d.queue, timers)
    BY <1>1, <1>2, FineDequeued
<1>4. flow' # "IDLE" /\ flow' \in Flows
    BY <1>1, <1>2 DEF State, Fine
<1>5. Fine(f, flow', queue', timers)
    BY <1>2, <1>3, <1>4, FineAppended DEF Nodes, Flows
<1>6. FineAt(at', flow')
    <2>1. s \in {"WAITING", "CIPSEND_1"}
        OBVIOUS
    <2> HIDE DEF s
    <2> QED
        BY <1>2, <1>4, <2>1 DEF FineAt, Engine
<1> QED
    BY <1>2, <1>5, <1>6 DEF State

\* The data are written, with which the timer of the answer starts.
LEMMA WritesDataFine == ASSUME State, flow # "IDLE", WritesData PROVE State'
<1>1. FineAt(AcqData(at, "CIPSEND_2"), flow)
    BY AcqDataFine DEF State, FineAt, States
<1>2. Fine(flags, flow, queue, timers')
    BY DEF State, Fine, RspTimer, Timers, WritesData
<1> QED
    BY <1>1, <1>2 DEF State, Fine, Told, FineAt, WritesData

LEMMA CipSend1Fine == ASSUME State, r_acqDataHdlr_CIPSEND_1 PROVE State'
<1> DEFINE lost == [at EXCEPT !.link = FALSE]
           f == flags \ {"isWaitForRptCIPERROR"}
           Reported(a, g) ==
               IF Has("isWaitForRptCIPERROR") THEN Requeues(a, ChannelNum, g)
               ELSE IF ChannelNum \in Connected THEN Requeues(a, Broken[ChannelNum], g)
               ELSE IF ChannelNum = 1 THEN ReportedWhileSuspended(a, g)
               ELSE Leaks
<1>0. /\ flow # "IDLE" /\ ChannelNum \in Channels /\ Broken[ChannelNum] \in Channels
      /\ FineAt(at, flow) /\ Fine(flags, flow, queue, timers)
    BY BrokenChannel DEF State, FineAt, Sending, r_acqDataHdlr_CIPSEND_1, AcqArmed
<1>1. ASSUME NEW a, NEW g, FineAt(a, flow), Fine(g, flow, queue, timers), Reported(a, g)
      PROVE  State'
    BY <1>0, <1>1, RequeuesFine, ReportedWhileSuspendedFine, LeaksFine
<1>2. /\ FineAt(lost, flow) /\ FineAt(CheckNet(at, "CSQ"), flow) /\ FineAt(Suspend(at, "NETCLOSE"), flow)
      /\ FineAt([at EXCEPT !.chk = "IDLE", !.acq = "IDLE"], flow)
      /\ FineAt(AcqData(at, "CIPOPEN_REQ"), flow)
    <2>1. FineAt(AcqData(at, "CIPOPEN_REQ"), flow)
        BY <1>0, AcqDataFine DEF FineAt, States, Sending
    <2> QED
        BY <1>0, <2>1, FieldsFine, EngineFine, SuspendFine
<1>3. /\ Fine(f, flow, queue, timers) /\ Fine(f \union {"isWaitRspError"}, flow, queue, timers)
      /\ Fine(f \union {"RcvrMdmEmodemConn"}, flow, queue, timers)
      /\ Fine(flags \union {"isWaitForRptCIPERROR", "isServConnClosed"}, flow, queue, timers)
      /\ Fine(flags \ {"isWaitRspError"}, flow, queue, timers)
    <2>1. Fine(f, flow, queue, timers)
        BY <1>0, FineLess
    <2> QED
        BY <1>0, <2>1, FineLess, FineMore DEF Flags, Due, Ending
<1>4. CASE WritesData
    BY <1>0, <1>4, WritesDataFine
<1>5. CASE LosesAndRequeues(CheckNet(at, "CSQ"))
    BY <1>0, <1>2, <1>5, LosesFine
<1>6. CASE Reported(lost, flags \union {"isWaitForRptCIPERROR", "isServConnClosed"})
    BY <1>1, <1>2, <1>3, <1>6
<1>7. CASE \/ Reported(lost, f \union {"isWaitRspError"})
           \/ \E g \in {f, flags} : Reported(AcqData(at, "CIPOPEN_REQ"), g)
           \/ Reported(Suspend(at, "NETCLOSE"), f \union {"RcvrMdmEmodemConn"})
    BY <1>0, <1>1, <1>2, <1>3, <1>7
<1>8. CASE Goes(AcqData(at, "CIPOPEN_REQ"), ChannelNum, flags \ {"isWaitRspError"})
    BY <1>0, <1>2, <1>3, <1>8, GoesFine
<1>9. CASE Suspends(at, "NETCLOSE", Broken[ChannelNum], flags \ {"isWaitRspError"})
    BY <1>0, <1>3, <1>9, SuspendsWithoutFine DEF Suspends
<1>10. CASE ClosesToRecover([at EXCEPT !.chk = "IDLE", !.acq = "IDLE"], "CIPCLOSE",
                            Broken[ChannelNum], flags)
    BY <1>0, <1>2, <1>10, ClosesToRecoverFine
<1>11. CASE Leaks
    BY <1>11, LeaksFine
<1> QED
    BY <1>4, <1>5, <1>6, <1>7, <1>8, <1>9, <1>10, <1>11 DEF r_acqDataHdlr_CIPSEND_1

LEMMA CipSend2Fine == ASSUME State, r_acqDataHdlr_CIPSEND_2 PROVE State'
<1> DEFINE f == flags \ {"isWaitToSusp"}
<1>0. /\ flow \in Flows \ {"IDLE"} /\ ChannelNum \in Channels /\ at \in Engine
      /\ FineAt(at, flow) /\ Fine(flags, flow, queue, timers) /\ Fine(f, flow, queue, timers)
    BY FineLess DEF State, Fine, FineAt, Sending, r_acqDataHdlr_CIPSEND_2, AcqArmed
<1>1. /\ FineAt(CheckNet(at, "CSQ"), flow) /\ FineAt(Waiting(at), flow)
      /\ \A s \in {"CIPOPEN_REQ", "CATR_1", "RECVING"} : FineAt(AcqData(at, s), flow)
    BY <1>0, EngineFine, AcqDataFine DEF States
<1>2. CASE \E a \in {CheckNet(at, "CSQ"), AcqData(at, "CIPOPEN_REQ")} : LosesAndRequeues(a)
    BY <1>0, <1>1, <1>2, LosesFine
<1>3. CASE WritesData
    BY <1>0, <1>3, WritesDataFine
<1>4. CASE \E s \in {"CATR_1", "RECVING"} : Goes(AcqData(at, s), ChannelNum, flags)
    BY <1>0, <1>1, <1>4, GoesFine
<1>5. CASE Has("isWaitToPwrDwn") /\ TellsPowerOff
    BY <1>5, TellsPowerOffFine
<1>6. CASE SuspendsWhenDone({}) \/ Recovers({}, {}, f)
    BY <1>0, <1>6, SuspendsWhenDoneFine, RecoversFine
<1>7. CASE TakesNext(at, ChannelNum, f, timers)
    BY <1>0, <1>7, TakesNextFine
<1>8. CASE Goes(Waiting(at), ChannelNum, AsksIMSI(f))
    BY <1>0, <1>1, <1>8, AsksIMSIFine, GoesFine
<1> QED
    BY <1>2, <1>3, <1>4, <1>5, <1>6, <1>7, <1>8 DEF r_acqDataHdlr_CIPSEND_2

LEMMA Catr1Fine == ASSUME State, r_acqDataHdlr_CATR_1 PROVE State'
<1>1. /\ flow # "IDLE" /\ at \in Engine /\ ChannelNum \in Channels
      /\ Fine(flags, flow, queue, timers)
    BY DEF State, FineAt, Sending, r_acqDataHdlr_CATR_1, AcqArmed
<1>2. FineAt(AcqData(at, "RECVING"), flow) /\ FineAt(AcqData(at, "CIPOPEN"), flow)
    BY <1>1, AcqDataFine DEF States
<1> QED
    BY <1>1, <1>2, StartsOverFine, GoesFine, LosesFine DEF r_acqDataHdlr_CATR_1

-----------------------------------------------------------------------------
(* The handlers: the answer of the server.                                 *)

\* The APDUs are dropped from the queue.
LEMMA WithoutApdusFine ==
    ASSUME NEW f, NEW s, NEW q, NEW t, Fine(f, s, q, t)
    PROVE  Fine(f, s, WithoutApdus(q), t)
<1>1. q \in Seq(Nodes)
    BY DEF Fine
<1>2. q \in Seq({q[i] : i \in DOMAIN q})
    BY <1>1
<1>3. WithoutApdus(q) \in Seq(Nodes) /\ WithoutApdus(q) \in Seq({q[i] : i \in DOMAIN q})
    BY <1>1, <1>2, WithoutApdusSeq
<1>4. \A i \in DOMAIN WithoutApdus(q) : \E j \in DOMAIN q : WithoutApdus(q)[i] = q[j]
    BY <1>3
<1>5. Told(s, WithoutApdus(q)) => Told(s, q)
    BY <1>4 DEF Told
<1> QED
    BY <1>3, <1>5 DEF Fine

LEMMA AfterSendingDataFine ==
    ASSUME State, NEW q, NEW f, NEW t, Fine(f, flow, q, t), AfterSendingData(q, f, t)
    PROVE  State'
<1>1. Fine(f, flow, q, IdleTimer(f, t))
    BY IdleTimerFine
<1>2. ChannelNum \in Channels /\ FineAt(at, flow)
    BY DEF State
<1> QED
    BY <1>1, <1>2, WaitsOrSendsFine, LeaksFine DEF AfterSendingData

LEMMA IDAcceptedFine ==
    ASSUME State, NEW f, NEW t, Fine(f, flow, queue, t), IDAccepted(f, t)
    PROVE  State'
<1>0. ChannelNum \in Channels /\ FineAt(at, flow) /\ at \in Engine
    BY DEF State, FineAt
<1>1. CASE Transmits(at, "RUIM", NoApdus, ChannelNum, f, t)
    <2>1. Fine(f, "RUIM", NoApdus, t)
        BY WithoutApdusFine, FineFlow DEF NoApdus, Flows
    <2> QED
        BY <1>0, <1>1, <2>1, TransmitsFine DEF Flows
<1>2. CASE WaitsOrSends(at, queue, ChannelNum, f \union {"del_simdata"}, t, t)
    <2>1. Fine(f \union {"del_simdata"}, flow, queue, t)
        BY FineMore DEF Flags, Due, Ending
    <2> QED
        BY <1>0, <1>2, <2>1, WaitsOrSendsFine
<1>3. CASE AfterSendingData(NoApdus, IF "isUimPwrDwn" \in f
                                     THEN f \ {"isUimPwrDwn", "isRegOffForPoorSig"} ELSE f, t)
    <2>1. Fine(f, flow, NoApdus, t) /\ Fine(f \ {"isUimPwrDwn", "isRegOffForPoorSig"}, flow, NoApdus, t)
        BY WithoutApdusFine, FineLess DEF NoApdus
    <2> QED
        BY <1>3, <2>1, AfterSendingDataFine
<1>4. CASE TakesNext(at, ChannelNum, f, t)
    BY <1>0, <1>4, TakesNextFine
<1> QED
    BY <1>1, <1>2, <1>3, <1>4 DEF IDAccepted

LEMMA AnsweredFine ==
    ASSUME State, NEW f, NEW t, Fine(f, flow, queue, t), Answered(f, t)
    PROVE  State'
<1>1. CASE IDAccepted(f, t)
    BY <1>1, IDAcceptedFine
<1>2. CASE /\ at' = AcqData(at, "CATR_2") /\ flags' = f /\ timers' = t
           /\ UNCHANGED <<ChannelNum, ChannelLock, queue, flow, evtloop_pipe, listener>>
    <2>1. FineAt(AcqData(at, "CATR_2"), flow)
        BY AcqDataFine DEF State, FineAt, States, Sending
    <2> QED
        BY <1>2, <2>1 DEF State, Fine, Told, FineAt
<1>3. CASE AfterSendingData(queue, f, t)
    BY <1>3, AfterSendingDataFine
<1> QED
    BY <1>1, <1>2, <1>3 DEF Answered

LEMMA SendsAgainFine ==
    ASSUME State, NEW a, FineAt(a, flow), NEW f, Fine(f, flow, queue, timers), SendsAgain(a, f)
    PROVE  State'
<1>1. Fine(f, flow, queue, timers \ RspTimer)
    BY FineTimers
<1> QED
    BY <1>1 DEF State, SendsAgain, Fine, Told, FineAt

LEMMA RecvingFine == ASSUME State, r_acqDataHdlr_RECVING PROVE State'
<1> DEFINE t == timers \ RspTimer
           f == flags \ {"isWaitToSusp"}
<1>0. /\ flow # "IDLE" /\ at \in Engine /\ ChannelNum \in Channels /\ FineAt(at, flow)
      /\ Fine(flags, flow, queue, timers) /\ Fine(f, flow, queue, t)
    BY FineLess, FineTimers DEF State, FineAt, Sending, r_acqDataHdlr_RECVING, AcqArmed
<1>1. /\ FineAt(CheckNet(at, "CSQ"), flow) /\ FineAt(AcqData(at, "CIPOPEN_REQ"), flow)
      /\ FineAt(AcqData(at, "CIPSEND_1"), flow)
    BY <1>0, EngineFine, AcqDataFine DEF States
<1>2. CASE \E a \in {CheckNet(at, "CSQ"), AcqData(at, "CIPOPEN_REQ")} : Loses(a)
    BY <1>1, <1>2, LosesFine
<1>3. CASE ClosesToRecover(at, "NETCLOSE", Broken[ChannelNum], flags) \/ Leaks
    BY <1>0, <1>3, BrokenChannel, ClosesToRecoverFine, LeaksFine
<1>4. CASE \/ SendsAgain(AcqData(at, "CIPSEND_1"), flags)
           \/ SendsAgain(AcqData(at, "CIPOPEN_REQ"), flags \union {"isProcOfInitApp"})
    <2>1. Fine(flags \union {"isProcOfInitApp"}, flow, queue, timers)
        BY <1>0, FineMore DEF Flags, Due, Ending
    <2> QED
        BY <1>0, <1>1, <1>4, <2>1, SendsAgainFine
<1>5. CASE Waits(at, ChannelNum, flags) \/ AfterSendingData(queue, flags, timers)
    BY <1>0, <1>5, WaitsFine, AfterSendingDataFine
<1>6. CASE Has("isWaitToPwrDwn") /\ TellsPowerOff
    BY <1>6, TellsPowerOffFine
<1>7. CASE SuspendsWithout(RspTimer, at, "CIPCLOSE", ChannelNum, flags \union {"g_closesocket_F9"})
    <2>1. Fine(flags \union {"g_closesocket_F9"}, flow, queue, timers)
        BY <1>0, FineMore DEF Flags, Due, Ending
    <2> QED
        BY <1>0, <1>7, <2>1, SuspendsWithoutFine
<1>8. CASE /\ flow = "PWR_DOWN"
           /\ SuspendsWithout({"power_down"}, at, "CIPCLOSE", -1, flags \union {"isPwrDwnRspAcq"})
    <2>1. Fine(flags \union {"isPwrDwnRspAcq"}, flow, queue, timers)
        BY <1>0, <1>8 DEF Fine, Told, Due, Ending, Flags
    <2> QED
        BY <1>0, <1>8, <2>1, SuspendsWithoutFine DEF Channels
<1>9. CASE Recovers(RspTimer, {}, flags) \/ SuspendsWhenDone(RspTimer)
    BY <1>0, <1>9, RecoversFine, SuspendsWhenDoneFine
<1>10. CASE Answered(f, t)
    BY <1>0, <1>10, AnsweredFine
<1> QED
    BY <1>2, <1>3, <1>4, <1>5, <1>6, <1>7, <1>8, <1>9, <1>10 DEF r_acqDataHdlr_RECVING

LEMMA Catr2Fine == ASSUME State, r_acqDataHdlr_CATR_2 PROVE State'
<1>1. /\ FineAt(AcqData(at, "CIPOPEN"), flow) /\ FineAt(Waiting(at), flow)
      /\ ChannelNum \in Channels /\ Fine(flags \ {"isWaitToSusp"}, flow, queue, timers)
    BY AcqDataFine, EngineFine, FineLess DEF State, FineAt, States, Sending
<1> QED
    BY <1>1, LosesFine, StartsOverFine, SuspendsWhenDoneFine, GoesFine DEF r_acqDataHdlr_CATR_2

LEMMA WaitingFine == ASSUME State, r_acqDataHdlr_WAITING PROVE State'
<1>0. /\ ChannelNum \in Channels /\ Broken[ChannelNum] \in Channels /\ FineAt(at, flow)
      /\ Fine(flags, flow, queue, timers)
      /\ Fine(flags \union {"isServConnClosed"}, flow, queue, timers)
    BY BrokenChannel, FineMore DEF State, Flags, Due, Ending
<1>1. FineAt(AcqData(at, "CIPOPEN_REQ"), flow)
    BY <1>0, AcqDataFine DEF FineAt, States, Sending
<1>2. CASE Recovers({}, {1}, flags) \/ Leaks
    BY <1>0, <1>2, RecoversFine, LeaksFine
<1>3. CASE /\ at' = IF ChannelNum \in Connected THEN CheckNet(at, "CSQ") ELSE Unarmed(at)
           /\ ChannelNum' = Broken[ChannelNum]
           /\ timers' = timers \ {"idle"}
           /\ UNCHANGED <<ChannelLock, flags, queue, flow, evtloop_pipe, listener>>
    <2>1. FineAt(at', flow) /\ Fine(flags, flow, queue, timers')
        BY <1>0, <1>3, EngineFine, FineTimers
    <2> QED
        BY <1>0, <1>3, <2>1 DEF State, Fine, Told, FineAt
<1>4. CASE Goes(AcqData(at, "CIPOPEN_REQ"), Broken[ChannelNum], flags)
    BY <1>0, <1>1, <1>4, GoesFine
<1>5. CASE Suspends(at, "NETCLOSE", Broken[ChannelNum], flags \union {"isServConnClosed"})
    BY <1>0, <1>5, SuspendsWithoutFine DEF Suspends
<1> QED
    BY <1>2, <1>3, <1>4, <1>5 DEF r_acqDataHdlr_WAITING

LEMMA XferFine == ASSUME State, XferSteps PROVE State'
<1>1. ASSUME r_acqDataHdlr_CUSTOM_AT_CMD PROVE State'
    <2>1. /\ Fine(flags, flow, queue, timers) /\ FineAt(at, flow) /\ ChannelNum \in Channels
          /\ Fine(flags, flow, queue, IdleTimer(flags, timers))
        BY IdleTimerFine DEF State
    <2> QED
        BY <1>1, <2>1, WaitsOrSendsFine DEF r_acqDataHdlr_CUSTOM_AT_CMD
<1> QED
    BY <1>1, CipSend1Fine, CipSend2Fine, Catr1Fine, RecvingFine, Catr2Fine, WaitingFine
       DEF XferSteps

-----------------------------------------------------------------------------
(* The handlers: mdmEmodem closes the connection.                          *)

\* A power-off found pending makes a recovery of the suspension.
LEMMA ToldFine ==
    ASSUME State, ~PowerOffMisplaced
    PROVE  ChannelTold \in Channels /\ Fine(FlagsTold, flow, queue, timers)
<1>1. CASE ~PowerOffFound
    BY <1>1 DEF ChannelTold, FlagsTold, State
<1>2. CASE PowerOffFound
    <2> DEFINE off == {"isWaitToPwrDwn"}
                         \union IF ChannelNum \in {2, 4} THEN {"isMifiConnected"} ELSE {}
               on == IF ChannelNum = 2 THEN {"RcvrMdmEmodemConn"} ELSE {}
               told == (flags \ off) \union {"isNeedToSendOutReq0x65"}
    <2>1. FlagsTold = told \union on
        BY <1>2 DEF FlagsTold
    <2>2. Fine(told, flow, queue, timers)
        BY <1>2 DEF PowerOffFound, Has, State, Fine, Due, Ending, Flags
    <2>3. on \in SUBSET (Flags \ Ending)
        BY DEF Flags, Due, Ending
    <2> HIDE DEF told, on
    <2> QED
        BY <1>2, <2>1, <2>2, <2>3, FineMore DEF ChannelTold, Channels
<1> QED
    BY <1>1, <1>2

LEMMA HandsOverFine ==
    ASSUME State, NEW c, NEW f, Fine(f, flow, queue, timers), HandsOver(c, f)
    PROVE  State'
<1>1. FineAt(Closed, flow) /\ Fine(f \ {"isMdmEmodemRunning"}, flow, queue, timers)
    BY FieldsFine, FineLess DEF Closed, State
<1>2. 1 \in Channels /\ -1 \in Channels
    BY DEF Channels
<1> QED
    BY <1>1, <1>2, WaitsFine, LeaksFine DEF HandsOver

LEMMA SocketClosedFine ==
    ASSUME State, NEW c \in Channels, NEW f, Fine(f, flow, queue, timers), SocketClosed(c, f)
    PROVE  State'
<1> DEFINE g == IF "isTermRcvrNow" \in f THEN (f \ {"isTermRcvrNow"}) \union {"RcvrMdmEmodemConn"}
                ELSE f
<1>1. Fine(g, flow, queue, timers)
    BY FineFlags DEF Flags, Due, Ending
<1>2. HandsOver(c, g) \/ Suspends(at, "NETCLOSE", c, g)
    BY DEF SocketClosed
<1> HIDE DEF g
<1> QED
    BY <1>1, <1>2, HandsOverFine, SuspendsWithoutFine DEF Suspends, State

LEMMA SocketClosedNotSuspendingFine ==
    ASSUME State, NEW c, NEW f, Fine(f, flow, queue, timers), SocketClosedNotSuspending(c, f)
    PROVE  State'
<1> DEFINE d == ChannelAfterSuspension(f)
           g == f \ {"isTermSuspNow", "RcvrMdmEmodemConnWhenSuspTerm"}
<1>0. d \in Channels
    BY DEF ChannelAfterSuspension, Channels
<1>1. Fine(g, flow, queue, timers)
    BY FineLess
<1>4. Fine(g \union {"RcvrMdmEmodemConn"}, flow, queue, timers)
    BY <1>1, FineMore DEF Flags, Due, Ending
<1>2. FineAt(AcqData([at EXCEPT !.susp = "IDLE"], "CIPOPEN_REQ"), flow)
    <2>1. [at EXCEPT !.susp = "IDLE"] \in Engine
        BY FieldsFine DEF State, FineAt
    <2> QED
        BY <2>1, AcqDataFine DEF States, Sending
<1>3. \/ Leaks \/ Goes(AcqData([at EXCEPT !.susp = "IDLE"], "CIPOPEN_REQ"), d, g)
      \/ SocketClosed(d, g \union {"RcvrMdmEmodemConn"})
    BY DEF SocketClosedNotSuspending
<1> HIDE DEF d, g
<1> QED
    BY <1>0, <1>1, <1>2, <1>3, <1>4, LeaksFine, GoesFine, SocketClosedFine

\* The network check starts over after a suspension.
LEMMA ChecksAgainFine ==
    ASSUME State, NEW c \in Channels, NEW f, Fine(f, flow, queue, timers),
           NEW off, off \intersect {"isFTMPowerOffInd", "asked_again"} = {},
           Goes(CheckNet(Closed, "CSQ"), c, f \ off)
    PROVE  State'
<1>1. FineAt(CheckNet(Closed, "CSQ"), flow) /\ Fine(f \ off, flow, queue, timers)
    BY FieldsFine, EngineFine, FineLess DEF Closed, State
<1> QED
    BY <1>1, GoesFine

LEMMA UnarmedFine ==
    ASSUME State, NEW c \in Channels, NEW f, Fine(f, flow, queue, timers), Goes(Unarmed(at), c, f)
    PROVE  State'
BY EngineFine, GoesFine DEF State

LEMMA SuspCipcloseFine == ASSUME State, r_suspendMdmHdlr_CIPCLOSE PROVE State'
<1>0. /\ ChannelNum \in Channels /\ 1 \in Channels /\ FineAt(at, flow)
      /\ Fine(flags, flow, queue, timers)
    BY DEF State, Channels
<1>1. CASE Goes(CheckNet(Closed, "CSQ"), ChannelNum, flags \ (Reasons \union {"isTermRcvrNow"}))
    BY <1>0, <1>1, ChecksAgainFine DEF Reasons
<1>2. CASE Goes(CheckNet(Closed, "CSQ"), 1,
                flags \ {"isTermSuspNow", "RcvrMdmEmodemConnWhenSuspTerm"})
    BY <1>0, <1>2, ChecksAgainFine
<1>3. CASE Waits(Closed, 1, flags \ {"isMdmEmodemRunning"})
    <2>1. FineAt(Closed, flow) /\ Fine(flags \ {"isMdmEmodemRunning"}, flow, queue, timers)
        BY <1>0, FieldsFine, FineLess DEF Closed
    <2> QED
        BY <1>0, <1>3, <2>1, WaitsFine
<1>4. CASE Leaks
    BY <1>4, LeaksFine
<1>5. CASE /\ ~PowerOffMisplaced
           /\ \/ Suspends(at, "CIPCLOSE", ChannelTold, FlagsTold)
              \/ "isPwrDwnRspAcq" \in FlagsTold /\ PowersDown(FlagsTold)
              \/ Goes(Unarmed(at), ChannelTold, FlagsTold)
              \/ SocketClosedNotSuspending(ChannelTold, FlagsTold)
              \/ SocketClosed(ChannelTold, FlagsTold)
    <2>1. ChannelTold \in Channels /\ Fine(FlagsTold, flow, queue, timers)
        BY <1>5, ToldFine
    <2>2. "isPwrDwnRspAcq" \in FlagsTold => "isFTMPowerOffInd" \in FlagsTold
        BY <2>1, AskedFor DEF Ending
    <2> QED
        BY <1>0, <1>5, <2>1, <2>2, SuspendsWithoutFine, PowersDownFine, UnarmedFine,
           SocketClosedNotSuspendingFine, SocketClosedFine DEF Suspends, PowersDown, State
<1> QED
    BY <1>1, <1>2, <1>3, <1>4, <1>5 DEF r_suspendMdmHdlr_CIPCLOSE

LEMMA NetClosedFine ==
    ASSUME State, NEW c \in Channels, NEW h, Fine(h, flow, queue, timers), NetClosed(c, h)
    PROVE  State'
<1> DEFINE f == IF {"isTermSuspNow", "isTermRcvrNow"} \subseteq h THEN h ELSE Forgets(h)
<1>1. Fine(f, flow, queue, timers)
    BY FineLess DEF Forgets
<1>2. \/ Goes(Unarmed(at), c, f)
      \/ HandsOver(c, f)
      \/ Leaks
      \/ Goes(CheckNet(Closed, "CSQ"), ChannelAfterSuspension(f),
              f \ {"isTermSuspNow", "RcvrMdmEmodemConnWhenSuspTerm"})
      \/ \E d \in {c, -1} : Goes(CheckNet(Closed, "CSQ"), d,
                                f \ {"isTermRcvrNow", "RcvrMdmEmodemConn", "isServConnClosed"})
      \/ Goes(CheckNet(Closed, "CSQ"), c, f \ {"isServConnClosed"})
    BY DEF NetClosed
<1> HIDE DEF f
<1>3. ChannelAfterSuspension(f) \in Channels /\ -1 \in Channels
    BY DEF ChannelAfterSuspension, Channels
<1> QED
    BY <1>1, <1>2, <1>3, UnarmedFine, HandsOverFine, LeaksFine, ChecksAgainFine

LEMMA SuspNetcloseFine == ASSUME State, r_suspendMdmHdlr_NETCLOSE PROVE State'
<1>0. ChannelNum \in Channels /\ FineAt(at, flow) /\ Fine(flags, flow, queue, timers)
    BY DEF State
<1>1. CASE Goes(Unarmed(at), ChannelNum, flags)
    BY <1>0, <1>1, UnarmedFine
<1>2. CASE Leaks
    BY <1>2, LeaksFine
<1>3. CASE Suspends(at, "CIPCLOSE", ChannelNum, flags)
    BY <1>0, <1>3, SuspendsWithoutFine DEF Suspends
<1>4. CASE /\ ~PowerOffMisplaced
           /\ \/ \E s \in {"CIPCLOSE", "NETCLOSE"} : Suspends(at, s, ChannelTold, FlagsTold)
              \/ NetClosed(ChannelTold, FlagsTold)
    <2>1. ChannelTold \in Channels /\ Fine(FlagsTold, flow, queue, timers)
        BY <1>4, ToldFine
    <2> QED
        BY <1>0, <1>4, <2>1, SuspendsWithoutFine, NetClosedFine DEF Suspends
<1> QED
    BY <1>1, <1>2, <1>3, <1>4 DEF r_suspendMdmHdlr_NETCLOSE

-----------------------------------------------------------------------------
(* The requests of EvtLoop.                                                *)

LEMMA ProcessEventsFine ==
    ASSUME State, process_events
    PROVE  State' /\ req' \in EvtRequest \union {NoRequest}
<1>1. /\ evtloop_pipe \in Seq(EvtRequest) /\ evtloop_pipe # <<>>
      /\ Tail(evtloop_pipe) \in Seq(EvtRequest) /\ Head(evtloop_pipe) \in EvtRequest
    BY TailOf DEF State, process_events
<1>2. Fine(flags', flow, queue, timers')
    <2>1. \A t : Fine(flags \ {"isWaitToSusp"}, flow, queue, timers \ t)
                 /\ Fine(flags, flow, queue, timers \ t)
        BY FineLess, FineTimers DEF State
    <2>2. timers \ {} = timers
        OBVIOUS
    <2> QED
        BY <2>1, <2>2 DEF process_events
<1> QED
    BY <1>1, <1>2 DEF State, process_events, Fine, Told, FineAt

\* A node is queued by EvtLoop, and nothing is sent.
LEMMA EnqueuesFine ==
    ASSUME State, NEW s \in {"APDU", "STATUS"}, NEW a, FineAt(a, flow), NEW c \in Channels,
           NEW f, Fine(f, flow, queue, timers), Enqueues(s, a, c, f)
    PROVE  State'
<1>1. PICK n \in {"APDU", "STATUS", "OUTDATED"} : queue' = Append(queue, n)
    BY DEF Enqueues
<1>2. Fine(f, flow, Append(queue, n), timers)
    BY FineAppended DEF Nodes, Flows
<1> QED
    BY <1>1, <1>2 DEF State, Enqueues, Fine, Told, FineAt

LEMMA ResumedFine ==
    ASSUME State
    PROVE  FineAt(Resumed, flow) /\ Fine(FlagsResumed, flow, queue, timers)
BY EngineFine, FineFlags DEF State, Resumed, FlagsResumed, Flags, Due, Ending

LEMMA ServesTransmitFine == ASSUME State, process_events_0x00_0x01 PROVE State'
<1> DEFINE s == IF req.kind = "0x00" THEN "APDU" ELSE "STATUS"
<1>0. /\ ChannelNum \in Channels /\ 4 \in Channels /\ 2 \in Channels /\ FineAt(at, flow)
      /\ at \in Engine /\ Fine(flags, flow, queue, timers) /\ s \in {"APDU", "STATUS"}
    BY DEF State, FineAt, Channels
<1>3. Fine(flags \union {"isTermSuspNow"}, flow, queue, timers)
    BY <1>0, FineMore DEF Flags, Due, Ending
<1>1. CASE \/ Enqueues(s, at, 4, flags) \/ Enqueues(s, Resumed, 4, FlagsResumed)
           \/ Enqueues(s, at, 2, flags \union {"isTermSuspNow"})
           \/ Enqueues(s, at, ChannelNum, flags)
    <2> HIDE DEF s
    <2> QED
        BY <1>0, <1>1, <1>3, EnqueuesFine, ResumedFine
<1>2. CASE Transmits(at, s, queue, ChannelNum, flags, timers)
    <2>1. s \in Flows \ {"IDLE", "PWR_DOWN"}
        BY DEF Flows
    <2> HIDE DEF s
    <2>2. Fine(flags, s, queue, timers)
        BY <1>0, <2>1, FineFlow
    <2> QED
        BY <1>0, <1>2, <2>1, <2>2, TransmitsFine
<1> HIDE DEF s
<1> QED
    BY <1>1, <1>2 DEF process_events_0x00_0x01, s

LEMMA ServesRecoverFine == ASSUME State, req.arg \in Channels, process_events_0x02 PROVE State'
<1>0. /\ ChannelNum \in Channels /\ FineAt(at, flow) /\ Fine(flags, flow, queue, timers)
      /\ Fine(flags \union {"isWaitToRcvr"}, flow, queue, timers)
    BY FineMore DEF State, Flags, Due, Ending
<1> QED
    BY <1>0, GoesFine, ResumedFine, ClosesToRecoverFine DEF process_events_0x02

LEMMA ServesSuspendFine == ASSUME State, process_events_0x03 PROVE State'
<1>0. ChannelNum \in Channels /\ FineAt(at, flow) /\ Fine(flags, flow, queue, timers)
    BY DEF State
<1>1. Fine(flags \union {"isWaitToSusp"}, flow, queue, timers)
    BY <1>0, FineMore DEF Flags, Due, Ending
<1>2. 2 \in Channels
    BY DEF Channels
<1> QED
    BY <1>0, <1>1, <1>2, GoesFine, SuspendsWithoutFine, LeaksFine DEF process_events_0x03,
       Suspends

LEMMA ServesCustomFine == ASSUME State, process_events_0x04 PROVE State'
<1>0. ChannelNum \in Channels /\ FineAt(at, flow) /\ Fine(flags, flow, queue, timers)
    BY DEF State
<1>1. ASSUME NEW f \in {flags, FlagsResumed}
      PROVE  Fine(f \union {"isYYDaemonNeedtoSendATCmd"}, flow, queue, timers)
    <2>1. Fine(f, flow, queue, timers)
        BY <1>0, ResumedFine
    <2> QED
        BY <2>1, FineMore DEF Flags, Due, Ending
<1>2. 4 \in Channels
    BY DEF Channels
<1> QED
    BY <1>0, <1>1, <1>2, GoesFine, ResumedFine, AcqGoesFine DEF process_events_0x04, States,
       Sending

LEMMA ServeFine == ASSUME State, req.arg \in Channels, ServeSteps PROVE State'
BY ServesTransmitFine, ServesRecoverFine, ServesSuspendFine, ServesCustomFine DEF ServeSteps

-----------------------------------------------------------------------------
(* The timers.                                                             *)

LEMMA AfterFine ==
    ASSUME State, NEW t, NEW a, FineAt(a, flow), NEW c \in Channels, NEW f,
           Fine(f, flow, queue, timers), After(t, a, c, f)
    PROVE  State'
<1>1. Fine(f, flow, queue, timers \ {t})
    BY FineTimers
<1> QED
    BY <1>1 DEF State, After, Fine, Told, FineAt

LEMMA IdleTimeoutFine == ASSUME State, Idle_Timer_timeout_cb PROVE State'
<1> DEFINE connected == (flags \union {"isMifiConnected"}) \ {"is1stRunOnMdmEmodem"}
<1>0. /\ ChannelNum \in Channels /\ 3 \in Channels /\ 4 \in Channels /\ FineAt(at, flow)
      /\ FineAt(AcqData(at, "CUSTOM_AT"), flow)
    BY AcqDataFine DEF State, Channels, FineAt, States, Sending
<1>1. /\ Fine(flags, flow, queue, timers) /\ Fine(connected, flow, queue, timers)
      /\ Fine(flags \union {"isWaitToSusp"}, flow, queue, timers)
    BY FineFlags, FineMore DEF State, Flags, Due, Ending
<1>2. CASE \/ After("idle", at, ChannelNum, flags)
           \/ \E c \in {3, 4} : After("idle", at, c, flags \union {"isWaitToSusp"})
    BY <1>0, <1>1, <1>2, AfterFine
<1>3. CASE \E f \in {flags, connected} :
              After("idle", AcqData(at, "CUSTOM_AT"), 3, f \ {"isYYDaemonNeedtoSendATCmd"})
    <2>1. \A f \in {flags, connected} : Fine(f \ {"isYYDaemonNeedtoSendATCmd"}, flow, queue, timers)
        BY <1>1, FineLess
    <2> QED
        BY <1>0, <1>3, <2>1, AfterFine
<1>4. CASE \E f \in {flags, connected} :
              /\ evtloop_pipe' = Append(evtloop_pipe, Request("0x03"))
              /\ ChannelNum' = 3 /\ flags' = f /\ timers' = timers \ {"idle"}
              /\ UNCHANGED <<ChannelLock, at, queue, flow, listener>>
    <2>1. Fine(flags', flow, queue, timers')
        <3>1. PICK f \in {flags, connected} : flags' = f /\ timers' = timers \ {"idle"}
            BY <1>4
        <3>2. Fine(f, flow, queue, timers)
            BY <1>1
        <3> QED
            BY <3>1, <3>2, FineTimers
    <2>2. Request("0x03") \in EvtRequest
        BY DEF Request, EvtRequest, Channels
    <2> QED
        BY <1>0, <1>4, <2>1, <2>2 DEF State, Fine, Told, FineAt
<1> HIDE DEF connected
<1> QED
    BY <1>2, <1>3, <1>4 DEF Idle_Timer_timeout_cb, connected

LEMMA AuthTimeoutFine == ASSUME State, ID_Auth_rsp_timeout_cb PROVE State'
<1> DEFINE f == flags \union {"isNeedToSendIDMsg"}
<1>0. /\ flow \in Flows \ {"IDLE"} /\ ChannelNum \in Channels /\ Broken[ChannelNum] \in Channels
      /\ FineAt(at, flow) /\ at \in Engine
    BY BrokenChannel DEF State, Fine, FineAt, ID_Auth_rsp_timeout_cb, Expires
<1>1. /\ Fine(f, flow, queue, timers) /\ Fine(f, flow, queue, timers \ {"id_rsp"})
      /\ Fine(f \union {"RcvrMdmEmodemConn"}, flow, queue, timers)
    <2>1. Fine(f, flow, queue, timers)
        BY FineMore DEF State, Flags, Due, Ending
    <2> QED
        BY <2>1, FineTimers, FineMore DEF Flags, Due, Ending
<1> QED
    BY <1>0, <1>1, LeaksFine, TransmitsFine, SuspendsWithoutFine DEF ID_Auth_rsp_timeout_cb

LEMMA UsimTimeoutFine == ASSUME State, Remote_USIM_Data_rsp_timeout_cb PROVE State'
<1>1. Fine(flags, "RUIM", NoApdus, timers \ {"ruim_rsp"})
    BY WithoutApdusFine, FineFlow, FineTimers DEF State, NoApdus, Flows
<1> QED
    BY <1>1, TransmitsFine DEF Remote_USIM_Data_rsp_timeout_cb, State, FineAt, Flows

LEMMA PowerDownTimeoutFine == ASSUME State, power_down_notification_timeout_cb PROVE State'
<1>1. Fine(flags \union {"isPwrDwnRspAcq"}, flow, queue, timers)
    BY DEF State, Fine, Due, Ending, Flags, power_down_notification_timeout_cb, Expires
<1>2. /\ Fine(flags, flow, queue, timers) /\ FineAt(at, flow) /\ -1 \in Channels
      /\ ChannelLock \in {"free", "lost"}
    BY DEF State, Channels
<1>3. "isFTMPowerOffInd" \in flags
    BY <1>2, AskedFor DEF power_down_notification_timeout_cb, Expires
<1> QED
    BY <1>1, <1>2, <1>3, SuspendsWithoutFine, PowersDownFine
    DEF power_down_notification_timeout_cb, PowersDown

LEMMA TimersFine == ASSUME State, TimerSteps PROVE State'
BY IdleTimeoutFine, AuthTimeoutFine, UsimTimeoutFine, PowerDownTimeoutFine DEF TimerSteps

-----------------------------------------------------------------------------
(* The other threads.                                                      *)

LEMMA PostsFine ==
    ASSUME State, NEW r \in EvtRequest, NEW f, Fine(f, flow, queue, timers), Posts(r, f)
    PROVE  State'
BY DEF State, Posts, Fine, Told, FineAt

LEMMA PowerOffAskedFine == ASSUME State, MsgLoop_POWER_DOWN_REQ PROVE State'
<1>1. Fine(flags', flow, queue, timers)
    <2>1. CASE Has("isFTMPowerOffInd")
        <3>1. flags' = flags \union {"isFTMPowerOffInd", "power_off_req", "asked_again"}
            BY <2>1 DEF MsgLoop_POWER_DOWN_REQ
        <3> QED
            BY <3>1 DEF State, Fine, Flags
    <2>2. CASE ~Has("isFTMPowerOffInd")
        <3>1. flags' = flags \union {"isFTMPowerOffInd", "power_off_req"}
            BY <2>2 DEF MsgLoop_POWER_DOWN_REQ
        <3>2. Ending \intersect flags = {} /\ ~Told(flow, queue)
            BY <2>2 DEF State, Fine, Has
        <3>3. Due \intersect flags' = {"power_off_req"}
            BY <3>1, <3>2 DEF Due, Ending
        <3> QED
            BY <3>1, <3>2, <3>3 DEF State, Fine, Flags
    <2> QED
        BY <2>1, <2>2
<1> QED
    BY <1>1 DEF State, MsgLoop_POWER_DOWN_REQ, Fine, Told, FineAt

\* The flag of the power-off is handed on: to a handler, or with the notice.
LEMMA PowerOffHandedOn ==
    ASSUME State, Has("power_off_req"), NEW off,
           off \intersect {"isFTMPowerOffInd", "asked_again"} = {}
    PROVE  /\ \A d \in Due : Fine((flags \ ({"power_off_req"} \union off)) \union {d}, flow, queue,
                                  TimersAtPowerOff)
           /\ Fine(flags \ ({"power_off_req"} \union off), "PWR_DOWN", queue, TimersAtPowerOff)
<1>1. "isFTMPowerOffInd" \in flags
    BY DEF Has, State, Fine, Due, Ending
<1>2. "asked_again" \notin flags => Due \intersect flags = {"power_off_req"} /\ ~Told(flow, queue)
    BY DEF Has, State, Fine, Due, Ending
<1>5. /\ TimersAtPowerOff \in SUBSET Timers /\ "id_rsp" \notin TimersAtPowerOff
      /\ flow \in Flows /\ "PWR_DOWN" \in Flows /\ queue \in Seq(Nodes)
    BY DEF State, Fine, TimersAtPowerOff, Timers, Flows
<1>3. ASSUME NEW d \in Due
      PROVE  Fine((flags \ ({"power_off_req"} \union off)) \union {d}, flow, queue, TimersAtPowerOff)
    <2> DEFINE f == (flags \ ({"power_off_req"} \union off)) \union {d}
    <2>1. f \in SUBSET Flags /\ "isFTMPowerOffInd" \in f
        BY <1>1 DEF State, Fine, Due, Ending, Flags
    <2>2. "asked_again" \notin f => Due \intersect f = {d} /\ ~Told(flow, queue)
        BY <1>2
    <2> SUFFICES Fine(f, flow, queue, TimersAtPowerOff)
        OBVIOUS
    <2> HIDE DEF f
    <2> QED
        BY <1>5, <2>1, <2>2 DEF Fine
<1>4. Fine(flags \ ({"power_off_req"} \union off), "PWR_DOWN", queue, TimersAtPowerOff)
    <2> DEFINE f == flags \ ({"power_off_req"} \union off)
    <2>1. f \in SUBSET Flags /\ "isFTMPowerOffInd" \in f
        BY <1>1 DEF State, Fine
    <2>2. "asked_again" \notin f => Due \intersect f = {}
        BY <1>2
    <2> SUFFICES Fine(f, "PWR_DOWN", queue, TimersAtPowerOff)
        OBVIOUS
    <2> HIDE DEF f
    <2> QED
        BY <1>5, <2>1, <2>2 DEF Fine
<1> QED
    BY <1>3, <1>4

LEMMA PowerOffLockedFine == ASSUME State, MsgLoop_POWER_DOWN_REQ_locked PROVE State'
<1> DEFINE g == flags \ {"power_off_req"}
           off == {"isWaitToSusp"} \union IF ChannelNum = 3 THEN {"isMifiConnected"} ELSE {}
<1>0. Has("power_off_req") /\ 0 \in Channels /\ 2 \in Channels /\ ChannelNum \in Channels
    BY DEF MsgLoop_POWER_DOWN_REQ_locked, State, Channels
<1>1. \A x : g \ x = flags \ ({"power_off_req"} \union x)
    OBVIOUS
<1>2. ASSUME NEW c \in Channels, ChannelNum' = c, Fine(flags', flow, queue, TimersAtPowerOff),
             timers' = TimersAtPowerOff,
             evtloop_pipe' \in Seq(EvtRequest), UNCHANGED <<ChannelLock, at, queue, flow, listener>>
      PROVE  State'
    BY <1>2 DEF State, Fine, Told, FineAt
<1>3. \A x : x \intersect {"isFTMPowerOffInd", "asked_again"} = {} =>
          /\ \A d \in Due : Fine((g \ x) \union {d}, flow, queue, TimersAtPowerOff)
          /\ Fine(g \ x, "PWR_DOWN", queue, TimersAtPowerOff)
    BY <1>0, <1>1, PowerOffHandedOn
<1>4. evtloop_pipe \in Seq(EvtRequest)
    BY DEF State
<1>5. CASE /\ flags' = (g \ {"isTermRcvrNow"}) \union {"isWaitToPwrDwn"} /\ ChannelNum' = ChannelNum
           /\ timers' = TimersAtPowerOff
           /\ UNCHANGED <<ChannelLock, at, queue, flow, evtloop_pipe, listener>>
    BY <1>0, <1>2, <1>3, <1>4, <1>5 DEF Due, Ending
<1>6. CASE /\ flags' = (g \ off) \union {"isWaitToPwrDwn"} /\ ChannelNum' = 0
           /\ timers' = TimersAtPowerOff
           /\ UNCHANGED <<ChannelLock, at, queue, flow, evtloop_pipe, listener>>
    BY <1>0, <1>2, <1>3, <1>4, <1>6 DEF Due, Ending
<1>7. CASE Transmits(at, "PWR_DOWN", queue, 0, g \ off, TimersAtPowerOff)
    <2>1. Fine(g \ off, "PWR_DOWN", queue, TimersAtPowerOff)
        BY <1>3
    <2> QED
        BY <1>0, <1>7, <2>1, TransmitsFine DEF State, FineAt, Flows
<1>8. CASE /\ evtloop_pipe' = Append(evtloop_pipe, Recovery(4))
           /\ flags' = (g \ {"isWaitToRcvr"}) \union {"isNeedToSendOutReq0x65"}
           /\ timers' = TimersAtPowerOff
           /\ UNCHANGED <<ChannelNum, ChannelLock, at, queue, flow, listener>>
    <2>1. Recovery(4) \in EvtRequest
        BY DEF Recovery, EvtRequest, Channels
    <2>2. evtloop_pipe' \in Seq(EvtRequest)
        BY <1>4, <1>8, <2>1
    <2> QED
        BY <1>0, <1>2, <1>3, <1>8, <2>2 DEF Due, Ending
<1>9. CASE /\ flags' = (g \ {"isTermSuspNow", "isWaitToRcvr"}) \union {"isWaitToPwrDwn"}
           /\ ChannelNum' = 2
           /\ timers' = TimersAtPowerOff
           /\ UNCHANGED <<ChannelLock, at, queue, flow, evtloop_pipe, listener>>
    BY <1>0, <1>2, <1>3, <1>4, <1>9 DEF Due, Ending
<1> QED
    BY <1>5, <1>6, <1>7, <1>8, <1>9 DEF MsgLoop_POWER_DOWN_REQ_locked

\* A report in the queue is outdated.
LEMMA SupersededFine ==
    ASSUME NEW f, NEW s, NEW q, NEW t, Fine(f, s, q, t)
    PROVE  Fine(f, s, Superseded(q), t)
<1>1. q \in Seq(Nodes)
    BY DEF Fine
<1>2. /\ DOMAIN Superseded(q) = DOMAIN q
      /\ \A i \in DOMAIN q : Superseded(q)[i] = IF q[i] = "STATUS" THEN "OUTDATED" ELSE q[i]
    BY DEF Superseded
<1>3. Superseded(q) \in Seq(Nodes)
    <2>1. \A i \in 1..Len(q) : Superseded(q)[i] \in Nodes
        BY <1>1, <1>2 DEF Nodes
    <2>2. DOMAIN q = 1..Len(q) /\ Len(q) \in Nat
        BY <1>1
    <2>3. Superseded(q) = [i \in 1..Len(q) |-> Superseded(q)[i]]
        BY <2>2 DEF Superseded
    <2>4. Superseded(q) \in [1..Len(q) -> Nodes]
        BY <2>1, <2>3, Zenon
    <2> QED
        BY <2>2, <2>4, SeqDef
<1>4. Told(s, Superseded(q)) <=> Told(s, q)
    BY <1>2 DEF Told
<1> QED
    BY <1>3, <1>4 DEF Fine

LEMMA ThreadsFine == ASSUME State, ThreadSteps PROVE State'
<1>0. /\ ChannelNum \in Channels /\ FineAt(at, flow) /\ at \in Engine
      /\ Fine(flags, flow, queue, timers)
      /\ \A k \in {"0x00", "0x01", "0x04"} : Request(k) \in EvtRequest
    BY DEF State, FineAt, Request, EvtRequest, Channels
<1>1. CASE MsgLoop_MDMEmodem_AT_CMD_REQ
    BY <1>0, <1>1, PostsFine DEF MsgLoop_MDMEmodem_AT_CMD_REQ
<1>2. CASE RequestPosted
    <2>1. Fine(flags, flow, queue', timers)
        BY <1>0, <1>2, SupersededFine DEF RequestPosted
    <2>2. evtloop_pipe' \in Seq(EvtRequest)
        BY <1>0, <1>2 DEF RequestPosted, State
    <2> QED
        BY <1>2, <2>1, <2>2 DEF RequestPosted, State, FineAt
<1>3. CASE Sender_ACQ_IMSI
    <2> DEFINE f == flags \ {"acq_imsi"}
    <2>1. Fine(f, flow, queue, timers) /\ Fine(f \ {"isSendIdAfterAcqIMSI"}, "ID", queue, timers)
        BY <1>0, FineLess, FineFlow DEF Flows
    <2>2. FineAt(AcqData(at, "NETOPEN"), flow)
        BY <1>0, AcqDataFine DEF States, Sending
    <2> QED
        BY <1>0, <1>3, <2>1, <2>2, TransmitsFine, GoesFine DEF Sender_ACQ_IMSI, Flows
<1>4. CASE Sender_DEL_SIMDATA
    <2> DEFINE f == flags \ {"del_simdata"}
    <2>1. Fine(f, flow, NoApdus, timers) /\ Fine(f, "RUIM", NoApdus, timers)
        BY <1>0, FineLess, WithoutApdusFine, FineFlow DEF NoApdus, Flows
    <2>2. CASE Transmits(at, "RUIM", NoApdus, ChannelNum, f, timers)
        BY <1>0, <2>1, <2>2, TransmitsFine DEF Flows
    <2>3. CASE /\ queue' = Append(NoApdus, "RUIM") /\ flags' = f
               /\ UNCHANGED <<ChannelNum, ChannelLock, at, flow, evtloop_pipe, timers, listener>>
        <3>1. Fine(f, flow, Append(NoApdus, "RUIM"), timers)
            BY <2>1, FineAppended DEF Nodes, Flows
        <3> QED
            BY <2>3, <3>1 DEF State, FineAt
    <2> QED
        BY <1>4, <2>2, <2>3 DEF Sender_DEL_SIMDATA
<1> QED
    BY <1>1, <1>2, <1>3, <1>4, PowerOffAskedFine, PowerOffLockedFine DEF ThreadSteps

-----------------------------------------------------------------------------
(* The Listener.                                                           *)

\* It changes the channel, the flags and what it has to do.
LEMMA ListensFine ==
    ASSUME State, ChannelNum' \in Channels, Fine(flags', flow, queue, timers),
           listener' \in Seq(ListenerSteps),
           UNCHANGED <<ChannelLock, at, queue, flow, evtloop_pipe, timers>>
    PROVE  State'
BY DEF State, Fine, Told, FineAt

LEMMA DisconnectedFine ==
    ASSUME State, NEW forces, NEW terms, NEW steps \in Seq(ListenerSteps),
           NEW off \in SUBSET {"isWaitToSusp"}, Disconnected(forces, terms, steps, off)
    PROVE  State'
<1> DEFINE c == ChannelNum
           resume == IF c = 1 \/ (forces /\ c \in Connected) THEN <<"resume">> ELSE <<>>
           on == IF c = 2 THEN {"isTermSuspNow", "RcvrMdmEmodemConnWhenSuspTerm"}
                 ELSE IF terms /\ (c = 4 \/ (c = -1 /\ forces)) THEN {"isTermRcvrNow"}
                 ELSE {}
<1>1. on \in SUBSET (Flags \ Ending)
    BY DEF Flags, Due, Ending
<1>2. resume \in Seq(ListenerSteps)
    <2>1. <<>> \in Seq(ListenerSteps) /\ <<"resume">> \in Seq(ListenerSteps)
        BY DEF ListenerSteps
    <2> QED
        BY <2>1
<1>3. flags' = (flags \ ({"isRegOn", "isMifiConnected"} \union off)) \union on
    BY DEF Disconnected
<1>4. listener' = steps \o resume
    BY DEF Disconnected
<1>5. ChannelNum' \in Channels
    BY DEF Disconnected, State, Channels
<1> HIDE DEF on, resume
<1>6. Fine(flags', flow, queue, timers)
    BY <1>1, <1>3, FineFlags DEF State
<1>7. listener' \in Seq(ListenerSteps)
    BY <1>2, <1>4
<1> QED
    BY <1>5, <1>6, <1>7, ListensFine DEF Disconnected

LEMMA UrcFine == ASSUME State, handle_reg_urc PROVE State'
<1>1. /\ <<>> \in Seq(ListenerSteps) /\ <<"id_needed", "report">> \in Seq(ListenerSteps)
      /\ <<"poor_signal", "report">> \in Seq(ListenerSteps) /\ <<"idle_timer">> \in Seq(ListenerSteps)
      /\ <<"report", "idle_timer">> \in Seq(ListenerSteps) /\ <<"report">> \in Seq(ListenerSteps)
    BY DEF ListenerSteps
<1>3. CASE /\ \/ flags' = (flags \union {"isRegOn"}) \ {"is1stRunOnMdmEmodem"}
              \/ flags' = (flags \union {"isUimPwrDwn"}) \ {"PowerUpUsimAfterRecvingUrcRpt"}
           /\ listener' \in {<<"idle_timer">>, <<"report", "idle_timer">>, <<"report">>, <<>>}
           /\ UNCHANGED <<ChannelNum, ChannelLock, at, queue, flow, evtloop_pipe, timers>>
    <2>1. /\ Fine((flags \union {"isRegOn"}) \ {"is1stRunOnMdmEmodem"}, flow, queue, timers)
          /\ Fine((flags \union {"isUimPwrDwn"}) \ {"PowerUpUsimAfterRecvingUrcRpt"}, flow, queue, timers)
        BY FineFlags DEF State, Flags, Due, Ending
    <2>2. ChannelNum' \in Channels
        BY <1>3 DEF State
    <2> QED
        BY <1>1, <1>3, <2>1, <2>2, ListensFine
<1>4. CASE \/ Disconnected(FALSE, FALSE, <<>>, {})
           \/ Disconnected(Has("isRegOn"), TRUE, <<>>, {})
           \/ Disconnected(FALSE, FALSE, <<"id_needed", "report">>, {"isWaitToSusp"})
           \/ Disconnected(TRUE, TRUE, <<"poor_signal", "report">>, {})
    <2>1. {} \in SUBSET {"isWaitToSusp"} /\ {"isWaitToSusp"} \in SUBSET {"isWaitToSusp"}
        OBVIOUS
    <2> QED
        BY <1>1, <1>4, <2>1, DisconnectedFine, Zenon
<1> QED
    BY <1>3, <1>4 DEF handle_reg_urc

LEMMA ListenerStepFine == ASSUME State, ListenerStep PROVE State'
<1>1. /\ listener \in Seq(ListenerSteps) /\ listener # <<>>
      /\ Tail(listener) \in Seq(ListenerSteps)
    BY TailOf DEF State, ListenerStep
<1>2. PICK on \in SUBSET {"isNeedToSendIDMsg", "isRegOffForPoorSig"},
           posts \in {<<>>, <<Request("0x01")>>, <<Recovery(-1)>>, <<Request("0x03")>>} :
          flags' = flags \union on /\ evtloop_pipe' = evtloop_pipe \o posts
    BY DEF ListenerStep
<1>3. /\ listener' = Tail(listener) /\ ChannelNum' \in {3, ChannelNum}
      /\ queue' \in {queue, Superseded(queue)} /\ timers' \in {timers, timers \union {"idle"}}
      /\ UNCHANGED <<ChannelLock, at, flow>>
    BY DEF ListenerStep
<1>4. Fine(flags', flow, queue', timers')
    <2>1. Fine(flags', flow, queue, timers)
        <3>1. on \in SUBSET (Flags \ Ending)
            BY DEF Flags, Due, Ending
        <3> QED
            BY <1>2, <3>1, FineMore DEF State
    <2>2. Fine(flags', flow, queue', timers)
        BY <1>3, <2>1, SupersededFine
    <2>3. Fine(flags', flow, queue', (timers \ {}) \union {"idle"})
        BY <2>2, FineTimers
    <2>4. (timers \ {}) \union {"idle"} = timers \union {"idle"}
        OBVIOUS
    <2> QED
        BY <1>3, <2>2, <2>3, <2>4
<1>5. evtloop_pipe' \in Seq(EvtRequest)
    <2>1. Request("0x01") \in EvtRequest /\ Request("0x03") \in EvtRequest /\ Recovery(-1) \in EvtRequest
        BY DEF Request, Recovery, EvtRequest, Channels
    <2>2. /\ <<>> \in Seq(EvtRequest) /\ <<Request("0x01")>> \in Seq(EvtRequest)
          /\ <<Recovery(-1)>> \in Seq(EvtRequest) /\ <<Request("0x03")>> \in Seq(EvtRequest)
        BY <2>1
    <2>3. posts \in Seq(EvtRequest)
        BY <2>2
    <2> QED
        BY <1>2, <2>3 DEF State
<1> QED
    BY <1>1, <1>3, <1>4, <1>5 DEF State, FineAt, Channels

LEMMA ListenerFine == ASSUME State, ListenerActions PROVE State'
<1>1. CASE handle_session_illegal
    <2>1. Fine(flags \union {"isNeedToSendIDMsg"}, flow, queue, timers)
        BY FineMore DEF State, Flags, Due, Ending
    <2>2. Recovery(-1) \in EvtRequest
        BY DEF Recovery, EvtRequest, Channels
    <2> QED
        BY <1>1, <2>1, <2>2, PostsFine DEF handle_session_illegal
<1>2. CASE mifi_status_hdlr
    <2>1. /\ Fine((flags \union {"isMifiConnected"}) \ {"is1stRunOnMdmEmodem"}, flow, queue, timers)
          /\ Fine(flags \ {"isMifiConnected"}, flow, queue, timers)
        BY FineFlags, FineLess DEF State, Flags, Due, Ending
    <2>2. listener' \in Seq(ListenerSteps)
        <3>1. <<>> \in Seq(ListenerSteps) /\ <<"set_3", "suspend">> \in Seq(ListenerSteps)
            BY DEF ListenerSteps
        <3> QED
            BY <1>2, <3>1 DEF mifi_status_hdlr, State
    <2>3. ChannelNum' \in Channels
        BY <1>2 DEF mifi_status_hdlr, State
    <2> QED
        BY <1>2, <2>1, <2>2, <2>3, ListensFine DEF mifi_status_hdlr
<1> QED
    BY <1>1, <1>2, UrcFine, ListenerStepFine DEF ListenerActions

-----------------------------------------------------------------------------
(* The invariant.                                                          *)

Whole ==
    State /\ req \in EvtRequest \union {NoRequest} /\ left \in [Causes \union {"any"} -> Nat]

LEMMA InvariantParts == IInv <=> Whole
BY DEF IInv, TypeOK, AskedInv, OnceInv, RequestInv, ClosedInv, BeingTold, State, Fine, Told,
   FineAt,
       Has, Whole

LEMMA InitEstablishes == ASSUME Init PROVE IInv
<1>1. Fine(flags, flow, queue, timers)
    <2>1. flags \in SUBSET Flags /\ Due \intersect flags = {} /\ Ending \intersect flags = {}
        BY DEF Init, Flags, Due, Ending
    <2>2. queue \in Seq(Nodes) /\ DOMAIN queue = {} /\ flow = "IDLE" /\ timers = {} /\ flow \in Flows
        BY DEF Init, Flows
    <2> QED
        BY <2>1, <2>2 DEF Fine, Told
<1>2. FineAt(at, flow)
    BY DEF Init, FineAt, Engine, Sending
<1>3. ChannelNum \in Channels /\ evtloop_pipe \in Seq(EvtRequest) /\ listener \in Seq(ListenerSteps)
    BY DEF Init, Channels
<1>4. left \in [Causes \union {"any"} -> Nat]
    BY EmodemAssumption DEF Init
<1> QED
    BY <1>1, <1>2, <1>3, <1>4, InvariantParts DEF Whole, State, Init

\* A cause that happens is counted.
LEMMA Counts ==
    ASSUME left \in [Causes \union {"any"} -> Nat], Keep \/ \E c \in Causes : Happens(c)
    PROVE  left' \in [Causes \union {"any"} -> Nat]
BY DEF Keep, Happens

LEMMA NetCounts == ASSUME NetSteps PROVE Keep \/ \E c \in Causes : Happens(c)
BY DEF NetSteps, r_checkNetHdlr_IDLE, r_checkNetHdlr_CSQ, r_checkNetHdlr_CGREG,
   r_uartConfigHdlr,
       r_acqDataHdlr_CGSN, r_acqDataHdlr_COPS_CREG_1, r_acqDataHdlr_CREG_2, r_acqDataHdlr_CREG_3,
       PowerOffStops, Causes

LEMMA ConnCounts == ASSUME ConnSteps PROVE Keep \/ \E c \in Causes : Happens(c)
BY DEF ConnSteps, r_acqDataHdlr_NETOPEN, NetOpened, r_acqDataHdlr_CIPOPEN_REQ,
       r_acqDataHdlr_CIPCLOSE, r_acqDataHdlr_CIPOPEN, PowerOffStops, Causes

LEMMA XferCounts == ASSUME XferSteps PROVE Keep \/ \E c \in Causes : Happens(c)
<1>1. CASE r_acqDataHdlr_CIPSEND_1
    BY <1>1 DEF r_acqDataHdlr_CIPSEND_1, Causes
<1>2. CASE r_acqDataHdlr_CIPSEND_2 \/ r_acqDataHdlr_CATR_1
    BY <1>2 DEF r_acqDataHdlr_CIPSEND_2, r_acqDataHdlr_CATR_1, Causes
<1>3. CASE r_acqDataHdlr_RECVING
    BY <1>3 DEF r_acqDataHdlr_RECVING, Causes
<1>4. CASE r_acqDataHdlr_CATR_2 \/ r_acqDataHdlr_WAITING \/ r_acqDataHdlr_CUSTOM_AT_CMD
    BY <1>4 DEF r_acqDataHdlr_CATR_2, r_acqDataHdlr_WAITING, r_acqDataHdlr_CUSTOM_AT_CMD,
       Causes
<1> QED
    BY <1>1, <1>2, <1>3, <1>4 DEF XferSteps

LEMMA SuspCounts == ASSUME SuspSteps PROVE Keep \/ \E c \in Causes : Happens(c)
BY DEF SuspSteps, r_suspendMdmHdlr_CIPCLOSE, r_suspendMdmHdlr_NETCLOSE, Causes

LEMMA OthersCount ==
    ASSUME TimerSteps \/ ThreadSteps \/ ListenerActions
    PROVE  Keep \/ \E c \in Causes : Happens(c)
<1>1. CASE TimerSteps
    BY <1>1 DEF TimerSteps, Idle_Timer_timeout_cb, ID_Auth_rsp_timeout_cb,
                Remote_USIM_Data_rsp_timeout_cb, power_down_notification_timeout_cb, Causes
<1>2. CASE ThreadSteps
    BY <1>2 DEF ThreadSteps, MsgLoop_MDMEmodem_AT_CMD_REQ, MsgLoop_POWER_DOWN_REQ,
                MsgLoop_POWER_DOWN_REQ_locked, RequestPosted, Sender_ACQ_IMSI, Sender_DEL_SIMDATA, Causes
<1>3. CASE ListenerActions
    BY <1>3 DEF ListenerActions, handle_reg_urc, handle_session_illegal, mifi_status_hdlr,
                ListenerStep, Causes
<1> QED
    BY <1>1, <1>2, <1>3

LEMMA SuspFine == ASSUME State, SuspSteps PROVE State'
BY SuspCipcloseFine, SuspNetcloseFine DEF SuspSteps

LEMMA NetFine == ASSUME State, NetSteps PROVE State'
BY CheckNetIdleFine, CheckNetCsqFine, CheckNetCgregFine, UartConfigFine, QueriesFine
   DEF NetSteps

LEMMA ConnFine == ASSUME State, ConnSteps PROVE State'
BY NetopenFine, SocketsFine, CipopenFine DEF ConnSteps

LEMMA NextPreserves == ASSUME IInv, Next PROVE IInv'
<1>0. State /\ req \in EvtRequest \union {NoRequest} /\ left \in [Causes \union {"any"} -> Nat]
    BY InvariantParts DEF Whole
<1>1. ASSUME (EngineSteps \/ TimerSteps \/ ThreadSteps \/ ListenerActions) /\ UNCHANGED req
      PROVE  Whole'
    <2>1. State'
        BY <1>0, <1>1, NetFine, ConnFine, XferFine, SuspFine, TimersFine, ThreadsFine,
           ListenerFine
        DEF EngineSteps
    <2>2. left' \in [Causes \union {"any"} -> Nat]
        BY <1>0, <1>1, Counts, NetCounts, ConnCounts, XferCounts, SuspCounts, OthersCount
           DEF EngineSteps
    <2>3. req' \in EvtRequest \union {NoRequest}
        BY <1>0, <1>1
    <2> QED
        BY <2>1, <2>2, <2>3 DEF Whole
<1>2. ASSUME process_events /\ Keep
      PROVE  Whole'
    <2>1. State' /\ req' \in EvtRequest \union {NoRequest}
        BY <1>0, <1>2, ProcessEventsFine
    <2>2. left' \in [Causes \union {"any"} -> Nat]
        BY <1>0, <1>2, Counts
    <2> QED
        BY <2>1, <2>2 DEF Whole
<1>3. ASSUME ServeSteps /\ Keep
      PROVE  Whole'
    <2>1. req.arg \in Channels
        BY <1>0 DEF EvtRequest, NoRequest, Channels
    <2>2. State'
        BY <1>0, <1>3, <2>1, ServeFine
    <2>3. req' \in EvtRequest \union {NoRequest}
        BY <1>3 DEF ServeSteps, process_events_0x00_0x01, process_events_0x02,
           process_events_0x03,
                    process_events_0x04, Serves
    <2>4. left' \in [Causes \union {"any"} -> Nat]
        BY <1>0, <1>3, Counts
    <2> QED
        BY <2>2, <2>3, <2>4 DEF Whole
<1>4. Whole'
    BY <1>1, <1>2, <1>3 DEF Next
<1> QED
    BY <1>4, InvariantParts, PTL

LEMMA StepPreserves == ASSUME IInv, [Next]_vars PROVE IInv'
<1>1. CASE UNCHANGED vars
    BY <1>1 DEF IInv, TypeOK, AskedInv, OnceInv, RequestInv, ClosedInv, BeingTold, Has, vars
<1> QED
    BY <1>1, NextPreserves

-----------------------------------------------------------------------------
(* What the invariant gives.                                               *)

\* Whatever the other threads do between two answers of the modem, the flags, the
\* queue, the timers and the request in hand fit together: a power-off is only on
\* its way if MsgLoop was asked for it (at_qlinkdatanode.c, event_qlinkdatanode.c,
\* msq_qlinkdatanode.c), at one place at a time, there is a request whenever one is
\* transmitted, and a connection that is being closed is not open.
THEOREM Invariant == Spec => []IInv
<1>1. Init => IInv
    BY InitEstablishes
<1>2. IInv /\ [Next]_vars => IInv'
    BY StepPreserves
<1> QED
    BY <1>1, <1>2, PTL DEF Spec

\* Every variable of mdmEmodem's connection keeps to the values that the code gives it.
THEOREM TypeCorrect == Spec => []TypeOK
<1>1. IInv => TypeOK
    BY DEF IInv
<1> QED
    BY <1>1, Invariant, PTL

\* The box is powered down, or the server is told so, only once MsgLoop was asked to;
\* and the server is told once, unless MsgLoop is asked again: the dozen handlers that
\* the flags pass through neither invent a power-off nor repeat it.
THEOREM PowerOffOrderly == Spec => []PowerOffInOrder
<1>1. IInv => PowersDownOnlyWhenAsked
    BY DEF IInv, AskedInv, BeingTold, PowersDownOnlyWhenAsked, Due, Ending
<1>2. IInv => PowerOffToldOnce
    BY DEF IInv, OnceInv, BeingTold, PowerOffToldOnce, Due, Has
<1>3. IInv => PowerOffInOrder
    BY <1>1, <1>2 DEF PowerOffInOrder
<1> QED
    BY <1>3, Invariant, PTL

-----------------------------------------------------------------------------
(* The hand-over to mdmImodem.                                             *)

\* How the ends of a handler set the channel.
LEMMA ChannelSet ==
    /\ \A a, c, f : Goes(a, c, f) => ChannelNum' = c
    /\ \A rsp, a, s, c, f : SuspendsWithout(rsp, a, s, c, f) => ChannelNum' = c
    /\ \A a, s, c, f : Suspends(a, s, c, f) => ChannelNum' = c
    /\ \A a, s, c, f : ClosesToRecover(a, s, c, f) => ChannelNum' = c
    /\ \A a, c, f : Requeues(a, c, f) => ChannelNum' = c
    /\ Leaks => ChannelNum' = ChannelNum
    /\ \A lock, f : PowersDownWith(lock, f) => ChannelNum' = ChannelNum
    /\ \A f : PowersDown(f) => ChannelNum' = ChannelNum
    /\ \A a, s, q, c, f, t : Transmits(a, s, q, c, f, t) => ChannelNum' = c
    /\ \A a, q, c, f, t, w : WaitsOrSends(a, q, c, f, t, w) => ChannelNum' = c
    /\ \A a, c, f : Waits(a, c, f) => ChannelNum' = c
    /\ \A a, c, f, t : TakesNext(a, c, f, t) => ChannelNum' = c
<1>1. \A a, s, q, c, f, t : Transmits(a, s, q, c, f, t) => ChannelNum' = c
    BY DEF Transmits
<1>2. \A a, q, c, f, t, w : WaitsOrSends(a, q, c, f, t, w) => ChannelNum' = c
    BY <1>1 DEF WaitsOrSends
<1>3. \A a, c, f, t : TakesNext(a, c, f, t) => ChannelNum' = c
    BY <1>1, <1>2 DEF TakesNext
<1>4. \A rsp, a, s, c, f : SuspendsWithout(rsp, a, s, c, f) => ChannelNum' = c
    BY DEF SuspendsWithout
<1>5. \A lock, f : PowersDownWith(lock, f) => ChannelNum' = ChannelNum
    BY DEF PowersDownWith
<1>6. /\ \A a, c, f : Goes(a, c, f) => ChannelNum' = c
      /\ \A a, c, f : Requeues(a, c, f) => ChannelNum' = c
      /\ Leaks => ChannelNum' = ChannelNum
    BY DEF Goes, Requeues, Leaks
<1> QED
    BY <1>1, <1>2, <1>3, <1>4, <1>5, <1>6 DEF Suspends, ClosesToRecover, PowersDown, Waits

\* mdmImodem has taken over, or does not take over.
NoHandOver == ChannelNum' = 1 => ChannelNum = 1

LEMMA BrokenNot1 == ASSUME ChannelNum \in Channels PROVE Broken[ChannelNum] = 1 => ChannelNum = 1
BY DEF Broken, Channels

LEMMA NetHandsNotOver == ASSUME NetSteps PROVE NoHandOver
BY ChannelSet
DEF NetSteps, r_checkNetHdlr_IDLE, r_checkNetHdlr_CSQ, r_checkNetHdlr_CGREG, r_uartConfigHdlr,
    r_acqDataHdlr_CGSN, r_acqDataHdlr_COPS_CREG_1, r_acqDataHdlr_CREG_2, r_acqDataHdlr_CREG_3,
    PowerOffStops, StartsOver, ChannelPowerOff, NoHandOver

LEMMA ConnHandsNotOver == ASSUME ConnSteps PROVE NoHandOver
<1>1. ASSUME NEW opened, NEW c, NEW f, ConnAnswered(opened, c, f)
      PROVE  ChannelNum' \in {0, 2, 3, c, ChannelNum}
    <2>1. ASSUME ConnOpened(c, f \ {"isWaitToSusp"}) PROVE ChannelNum' \in {0, 3, c}
        BY <2>1, ChannelSet DEF ConnOpened
    <2>2. ASSUME ConnRefused(c, f \ {"isWaitToSusp"}) PROVE ChannelNum' = c
        BY <2>2, ChannelSet DEF ConnRefused
    <2> QED
        BY <1>1, <2>1, <2>2, ChannelSet DEF ConnAnswered, Suspended
<1>2. ASSUME NEW c, NEW f, NetOpened(c, f) PROVE ChannelNum' \in {2, c, ChannelNum}
    BY <1>2, ChannelSet DEF NetOpened, Suspended
<1>3. ASSUME r_acqDataHdlr_NETOPEN PROVE NoHandOver
    BY <1>2, <1>3, ChannelSet
    DEF r_acqDataHdlr_NETOPEN, StartsOverUnlessLinked, PowerOffStops, ChannelPowerOff, NoHandOver
<1>4. ASSUME r_acqDataHdlr_CIPOPEN_REQ \/ r_acqDataHdlr_CIPCLOSE PROVE NoHandOver
    BY <1>4, ChannelSet
    DEF r_acqDataHdlr_CIPOPEN_REQ, r_acqDataHdlr_CIPCLOSE, StartsOver, NoHandOver
<1>5. ASSUME r_acqDataHdlr_CIPOPEN PROVE NoHandOver
    <2>1. ChannelPowerOff \in {-1, ChannelNum}
        BY DEF ChannelPowerOff
    <2>2. /\ \A a : StartsOverUnlessLinked(a) => ChannelNum' = ChannelNum
          /\ PowerOffStops("lost") => ChannelNum' = ChannelNum
        BY ChannelSet DEF StartsOverUnlessLinked, PowerOffStops
    <2>3. \/ \E opened \in BOOLEAN, c \in {ChannelPowerOff, ChannelNum} :
                \E f : ConnAnswered(opened, c, f)
          \/ ChannelNum' = ChannelNum
        BY <1>5, <2>2, ChannelSet DEF r_acqDataHdlr_CIPOPEN
    <2> QED
        BY <1>1, <2>1, <2>3 DEF NoHandOver
<1> QED
    BY <1>3, <1>4, <1>5 DEF ConnSteps

LEMMA XferHandsNotOver == ASSUME ChannelNum \in Channels, XferSteps PROVE NoHandOver
<1>1. /\ \A a : Loses(a) \/ LosesAndRequeues(a) => ChannelNum' \in {ChannelNum, Broken[ChannelNum]}
      /\ \A rsp, x, f : Recovers(rsp, x, f) => ChannelNum' \in {ChannelNum, Broken[ChannelNum]}
      /\ \A rsp : SuspendsWhenDone(rsp) => ChannelNum' \in {ChannelNum, 2}
      /\ TellsPowerOff => ChannelNum' \in {ChannelNum, 0}
      /\ StartsOver => ChannelNum' = ChannelNum
    BY ChannelSet DEF Loses, LosesAndRequeues, Recovers, SuspendsWhenDone, TellsPowerOff,
       StartsOver
<1>2. ASSUME NEW f, NEW t, Answered(f, t) PROVE ChannelNum' = ChannelNum
    BY <1>2, ChannelSet DEF Answered, IDAccepted, AfterSendingData
<1>3. ASSUME r_acqDataHdlr_CIPSEND_1 PROVE NoHandOver
    BY <1>1, <1>3, BrokenNot1, ChannelSet
    DEF r_acqDataHdlr_CIPSEND_1, ReportedWhileSuspended, WritesData, NoHandOver
<1>4. ASSUME r_acqDataHdlr_CIPSEND_2 \/ r_acqDataHdlr_CATR_1 PROVE NoHandOver
    BY <1>1, <1>4, BrokenNot1, ChannelSet DEF r_acqDataHdlr_CIPSEND_2, r_acqDataHdlr_CATR_1,
       WritesData, NoHandOver
<1>5. ASSUME r_acqDataHdlr_RECVING PROVE NoHandOver
    BY <1>1, <1>2, <1>5, BrokenNot1, ChannelSet
    DEF r_acqDataHdlr_RECVING, SendsAgain, AfterSendingData, NoHandOver
<1>6. ASSUME r_acqDataHdlr_CATR_2 \/ r_acqDataHdlr_WAITING \/ r_acqDataHdlr_CUSTOM_AT_CMD
      PROVE  NoHandOver
    BY <1>1, <1>6, BrokenNot1, ChannelSet
    DEF r_acqDataHdlr_CATR_2, r_acqDataHdlr_WAITING, r_acqDataHdlr_CUSTOM_AT_CMD, NoHandOver
<1> QED
    BY <1>3, <1>4, <1>5, <1>6 DEF XferSteps

\* Only the end of a suspension hands over.
LEMMA SuspHandsOver ==
    ASSUME SuspSteps
    PROVE  NoHandOver \/ (ChannelNum' = 1 => ChannelNum = 2 /\ at.cb = "suspend")
<1>1. ASSUME NEW c, NEW f, HandsOver(c, f) PROVE ChannelNum' = 1 => c = 2 \/ ChannelNum = 1
    BY <1>1, ChannelSet DEF HandsOver
<1>2. ASSUME NEW c, c # 1, NEW f, SocketClosed(c, f) PROVE ChannelNum' = 1 => c = 2 \/ ChannelNum = 1
    BY <1>1, <1>2, ChannelSet DEF SocketClosed
<1>3. ASSUME NEW c, NEW f, SocketClosedNotSuspending(c, f) PROVE ChannelNum' = 1 => ChannelNum = 1
    BY <1>2, <1>3, ChannelSet DEF SocketClosedNotSuspending, ChannelAfterSuspension
<1>4. ASSUME NEW c, NEW f, NetClosed(c, f) PROVE ChannelNum' = 1 => c \in {1, 2} \/ ChannelNum = 1
    BY <1>1, <1>4, ChannelSet DEF NetClosed, ChannelAfterSuspension
<1>5. ChannelTold \in {1, 2} => ChannelNum = ChannelTold
    BY DEF ChannelTold
<1>6. at.cb = "suspend"
    BY DEF SuspSteps, r_suspendMdmHdlr_CIPCLOSE, r_suspendMdmHdlr_NETCLOSE, SuspArmed, Armed
<1>7. ASSUME r_suspendMdmHdlr_CIPCLOSE PROVE ChannelNum' = 1 => ChannelNum \in {1, 2}
    BY <1>2, <1>3, <1>5, <1>7, ChannelSet DEF r_suspendMdmHdlr_CIPCLOSE, Unconnected
<1>8. ASSUME r_suspendMdmHdlr_NETCLOSE PROVE ChannelNum' = 1 => ChannelNum \in {1, 2}
    BY <1>4, <1>5, <1>8, ChannelSet DEF r_suspendMdmHdlr_NETCLOSE
<1> QED
    BY <1>6, <1>7, <1>8 DEF SuspSteps, NoHandOver

LEMMA OthersHandNotOver ==
    ASSUME ChannelNum \in Channels, TimerSteps \/ ThreadSteps \/ ListenerActions
    PROVE  NoHandOver
<1>1. CASE TimerSteps
    BY <1>1, BrokenNot1, ChannelSet
    DEF TimerSteps, Idle_Timer_timeout_cb, After, ID_Auth_rsp_timeout_cb,
        Remote_USIM_Data_rsp_timeout_cb, power_down_notification_timeout_cb, NoHandOver
<1>2. CASE ThreadSteps
    BY <1>2, ChannelSet
    DEF ThreadSteps, MsgLoop_MDMEmodem_AT_CMD_REQ, Posts, MsgLoop_POWER_DOWN_REQ,
        MsgLoop_POWER_DOWN_REQ_locked, RequestPosted, Sender_ACQ_IMSI, Sender_DEL_SIMDATA, NoHandOver
<1>3. CASE ListenerActions
    BY <1>3 DEF ListenerActions, handle_reg_urc, Disconnected, handle_session_illegal, Posts,
                mifi_status_hdlr, ListenerStep, NoHandOver
<1> QED
    BY <1>1, <1>2, <1>3

LEMMA ServesHandNotOver ==
    ASSUME req \in EvtRequest \union {NoRequest}, ServeSteps
    PROVE  NoHandOver
<1>1. req.arg # 1
    BY DEF EvtRequest, NoRequest
<1>2. ASSUME process_events_0x00_0x01 PROVE NoHandOver
    BY <1>2, ChannelSet DEF process_events_0x00_0x01, Enqueues, NoHandOver
<1>3. ASSUME process_events_0x02 PROVE NoHandOver
    BY <1>1, <1>3, ChannelSet DEF process_events_0x02, NoHandOver
<1>4. ASSUME process_events_0x03 PROVE NoHandOver
    <2>1. \/ \E f : Goes(at, ChannelNum, f) \/ Suspends(at, "CIPCLOSE", 2, flags) \/ Leaks
        BY <1>4 DEF process_events_0x03
    <2> QED
        BY <2>1, ChannelSet DEF NoHandOver
<1>5. ASSUME process_events_0x04 PROVE NoHandOver
    BY <1>5, ChannelSet DEF process_events_0x04, NoHandOver
<1> QED
    BY <1>2, <1>3, <1>4, <1>5 DEF ServeSteps

\* mdmImodem takes over (ChannelNum 1) only at the end of a suspension, by
\* r_suspendMdmHdlr(), and when the connection of mdmEmodem has been closed.
THEOREM HandedOverClosed == Spec => HandsOverAfterClosing
<1> DEFINE Closes == ChannelNum' = 1 /\ ChannelNum # 1 =>
                         ChannelNum = 2 /\ at.cb = "suspend" /\ ~at.link
<1>1. ASSUME IInv, [Next]_vars PROVE [Closes]_vars
    <2>1. CASE UNCHANGED vars
        BY <2>1
    <2>2. CASE Next
        <3>0. /\ ChannelNum \in Channels /\ req \in EvtRequest \union {NoRequest}
              /\ at.cb = "suspend" => ~at.link
            BY <1>1 DEF IInv, TypeOK, ClosedInv
        <3>1. CASE process_events
            BY <3>1 DEF process_events
        <3>2. CASE SuspSteps
            BY <3>0, <3>2, SuspHandsOver DEF NoHandOver
        <3>3. CASE NoHandOver
            BY <3>3 DEF NoHandOver
        <3> QED
            BY <2>2, <3>0, <3>1, <3>2, <3>3, NetHandsNotOver, ConnHandsNotOver,
               XferHandsNotOver,
               OthersHandNotOver, ServesHandNotOver
            DEF Next, EngineSteps
    <2> QED
        BY <1>1, <2>1, <2>2
<1>2. Spec => [][Closes]_vars
    <2> HIDE DEF Closes
    <2> QED
        BY <1>1, Invariant, PTL DEF Spec
<1> QED
    BY <1>2 DEF HandsOverAfterClosing

-----------------------------------------------------------------------------
(* Counting the requests of a queue.                                       *)

At(q, n) == {i \in DOMAIN q : q[i] = n}

Count(q, n) == Cardinality(At(q, n))

LEMMA CountFinite ==
    ASSUME NEW q \in Seq(Nodes), NEW n
    PROVE  IsFiniteSet(At(q, n)) /\ Count(q, n) \in Nat
<1>1. DOMAIN q = 1..Len(q) /\ Len(q) \in Nat
    OBVIOUS
<1>2. IsFiniteSet(1..Len(q))
    BY <1>1, FS_Interval
<1>3. At(q, n) \in SUBSET (1..Len(q))
    BY <1>1 DEF At
<1>4. IsFiniteSet(At(q, n))
    BY <1>2, <1>3, FS_Subset
<1> QED
    BY <1>4, FS_CardinalityType DEF Count

\* A node that is added counts.
LEMMA CountAppend ==
    ASSUME NEW q \in Seq(Nodes), NEW e \in Nodes, NEW n
    PROVE  Count(Append(q, e), n) = Count(q, n) + (IF e = n THEN 1 ELSE 0)
<1>1. /\ Len(q) \in Nat /\ DOMAIN q = 1..Len(q) /\ DOMAIN Append(q, e) = 1..(Len(q) + 1)
      /\ Append(q, e)[Len(q) + 1] = e
      /\ \A i \in 1..Len(q) : Append(q, e)[i] = q[i]
    BY AppendOf
<1>2. IsFiniteSet(At(q, n)) /\ Count(q, n) \in Nat
    BY CountFinite
<1>0. Len(q) + 1 \notin At(q, n)
    BY <1>1 DEF At
<1>3. CASE e = n
    <2>1. At(Append(q, e), n) = At(q, n) \union {Len(q) + 1}
        BY <1>1, <1>3 DEF At
    <2>2. Cardinality(At(q, n) \union {Len(q) + 1}) = Cardinality(At(q, n)) + 1
        BY <1>0, <1>2, FS_AddElement
    <2> QED
        BY <1>3, <2>1, <2>2 DEF Count
<1>4. CASE e # n
    <2>1. At(Append(q, e), n) = At(q, n)
        BY <1>1, <1>4 DEF At
    <2> QED
        BY <1>2, <1>4, <2>1 DEF Count
<1> QED
    BY <1>3, <1>4

\* The first node is all that Tail drops.
LEMMA CountTail ==
    ASSUME NEW q \in Seq(Nodes), q # <<>>, NEW n
    PROVE  Count(q, n) <= Count(Tail(q), n) + (IF Head(q) = n THEN 1 ELSE 0)
<1> DEFINE rest == At(q, n) \ {1}
           before == [i \in rest |-> i - 1]
<1>1. /\ Len(q) \in Nat \ {0} /\ DOMAIN q = 1..Len(q) /\ Tail(q) \in Seq(Nodes)
      /\ DOMAIN Tail(q) = 1..(Len(q) - 1) /\ Head(q) = q[1]
      /\ \A i \in 1..(Len(q) - 1) : Tail(q)[i] = q[i + 1]
    BY TailOf
<1>2. /\ IsFiniteSet(At(q, n)) /\ Count(q, n) \in Nat
      /\ IsFiniteSet(At(Tail(q), n)) /\ Count(Tail(q), n) \in Nat
    BY <1>1, CountFinite
<1>3. Cardinality(rest) <= Count(Tail(q), n)
    <2>1. \A i \in rest : i - 1 \in At(Tail(q), n)
        <3> SUFFICES ASSUME NEW i \in rest PROVE i - 1 \in At(Tail(q), n)
            OBVIOUS
        <3>1. i \in 2..Len(q) /\ q[i] = n
            BY <1>1 DEF At
        <3>2. i - 1 \in 1..(Len(q) - 1) /\ Tail(q)[i - 1] = q[i]
            BY <1>1, <3>1
        <3> QED
            BY <1>1, <3>1, <3>2 DEF At
    <2>2. rest \subseteq Int
        BY <1>1 DEF At
    <2>3. before \in Injection(rest, At(Tail(q), n))
        BY <2>1, <2>2 DEF Injection, IsInjective
    <2> HIDE DEF before, rest
    <2>4. Cardinality(rest) <= Cardinality(At(Tail(q), n))
        BY <1>2, <2>3, FS_Injection
    <2> QED
        BY <2>4 DEF Count
<1>4. IsFiniteSet(rest) /\ Cardinality(rest) \in Nat
    <2>1. rest \in SUBSET At(q, n)
        OBVIOUS
    <2> HIDE DEF rest
    <2>2. IsFiniteSet(rest)
        BY <1>2, <2>1, FS_Subset
    <2> QED
        BY <2>2, FS_CardinalityType
<1>0. 1 \notin rest
    OBVIOUS
<1>5. CASE Head(q) = n
    <2>1. At(q, n) = rest \union {1}
        BY <1>1, <1>5 DEF At
    <2> HIDE DEF rest
    <2>2. Cardinality(rest \union {1}) = Cardinality(rest) + 1
        BY <1>0, <1>4, FS_AddElement
    <2> QED
        BY <1>2, <1>3, <1>4, <1>5, <2>1, <2>2 DEF Count
<1>6. CASE Head(q) # n
    <2>1. At(q, n) = rest
        BY <1>1, <1>6 DEF At
    <2> HIDE DEF rest
    <2> QED
        BY <1>2, <1>3, <1>6, <2>1 DEF Count
<1> QED
    BY <1>5, <1>6

\* Only APDUs are dropped with the APDUs.
LEMMA CountWithoutApdus ==
    ASSUME NEW q \in Seq(Nodes), NEW n \in Nodes \ {"APDU"}
    PROVE  Count(q, n) <= Count(WithoutApdus(q), n)
<1>1. PICK kept : Keeping(q, Len(q), kept) /\ WithoutApdus(q) = kept[Len(q)]
    BY WithoutApdusKeeps
<1>2. \A i \in 0..Len(q) : kept[i] = KeptNode(q, kept, i)
    BY <1>1 DEF Keeping
<1>3. Len(q) \in Nat /\ DOMAIN q = 1..Len(q)
    OBVIOUS
<1> DEFINE upto(m) == {i \in 1..m : q[i] = n}
           T == {m \in Nat : m <= Len(q) => /\ kept[m] \in Seq(Nodes)
                                            /\ IsFiniteSet(upto(m))
                                            /\ Cardinality(upto(m)) <= Count(kept[m], n)}
<1>4. 0 \in T
    <2>1. 0 \in 0..Len(q)
        BY <1>3
    <2>2. kept[0] = <<>>
        BY <1>2, <2>1 DEF KeptNode
    <2>3. <<>> \in Seq(Nodes)
        OBVIOUS
    <2>4. Count(<<>>, n) \in Nat
        BY <2>3, CountFinite
    <2>5. upto(0) = {}
        OBVIOUS
    <2>6. IsFiniteSet(upto(0)) /\ Cardinality(upto(0)) = 0
        BY <2>5, FS_EmptySet
    <2> HIDE DEF upto
    <2>7. /\ kept[0] \in Seq(Nodes) /\ IsFiniteSet(upto(0))
          /\ Cardinality(upto(0)) <= Count(kept[0], n)
        BY <2>2, <2>3, <2>4, <2>6
    <2> QED
        BY <2>7
<1>5. ASSUME NEW m \in Nat, m \in T PROVE m + 1 \in T
    <2> SUFFICES ASSUME m + 1 <= Len(q)
                 PROVE  /\ kept[m + 1] \in Seq(Nodes)
                        /\ IsFiniteSet(upto(m + 1))
                        /\ Cardinality(upto(m + 1)) <= Count(kept[m + 1], n)
        OBVIOUS
    <2>1. /\ kept[m] \in Seq(Nodes) /\ IsFiniteSet(upto(m))
          /\ Cardinality(upto(m)) <= Count(kept[m], n)
          /\ m + 1 \in 0..Len(q) /\ q[m + 1] \in Nodes
        BY <1>3, <1>5
    <2>2. kept[m + 1] = IF q[m + 1] = "APDU" THEN kept[m] ELSE Append(kept[m], q[m + 1])
        BY <1>2, <2>1 DEF KeptNode
    <2>3. Count(kept[m], n) \in Nat /\ Cardinality(upto(m)) \in Nat
        BY <2>1, CountFinite, FS_CardinalityType
    <2>4. CASE q[m + 1] = n
        <3>1. upto(m + 1) = upto(m) \union {m + 1} /\ m + 1 \notin upto(m)
            BY <2>4
        <3>2. /\ IsFiniteSet(upto(m) \union {m + 1})
              /\ Cardinality(upto(m) \union {m + 1}) = Cardinality(upto(m)) + 1
            BY <2>1, <3>1, FS_AddElement
        <3>3. kept[m + 1] = Append(kept[m], n) /\ Append(kept[m], n) \in Seq(Nodes)
            BY <2>1, <2>2, <2>4
        <3>4. Count(Append(kept[m], n), n) = Count(kept[m], n) + 1
            BY <2>1, CountAppend
        <3> HIDE DEF upto
        <3>5. IsFiniteSet(upto(m + 1)) /\ Cardinality(upto(m + 1)) = Cardinality(upto(m)) + 1
            BY <3>1, <3>2
        <3>6. Cardinality(upto(m)) + 1 <= Count(Append(kept[m], n), n)
            BY <2>1, <2>3, <3>4
        <3>7. Count(kept[m + 1], n) = Count(Append(kept[m], n), n) /\ kept[m + 1] \in Seq(Nodes)
            BY <3>3
        <3> QED
            BY <3>5, <3>6, <3>7
    <2>5. CASE q[m + 1] # n
        <3>1. upto(m + 1) = upto(m)
            BY <2>5
        <3>2. CASE q[m + 1] = "APDU"
            BY <2>1, <2>2, <3>1, <3>2
        <3>3. CASE q[m + 1] # "APDU"
            <4>1. kept[m + 1] = Append(kept[m], q[m + 1]) /\ Append(kept[m], q[m + 1]) \in Seq(Nodes)
                BY <2>1, <2>2, <3>3
            <4>2. Count(Append(kept[m], q[m + 1]), n) = Count(kept[m], n)
                BY <2>1, <2>3, <2>5, CountAppend
            <4> HIDE DEF upto
            <4> QED
                BY <2>1, <3>1, <4>1, <4>2
        <3> QED
            BY <3>2, <3>3
    <2> QED
        BY <2>4, <2>5
<1>6. Nat \subseteq T
    <2> HIDE DEF T
    <2> QED
        BY <1>4, <1>5, SetInduction
<1>7. At(q, n) = upto(Len(q))
    BY <1>3 DEF At
<1>8. Cardinality(upto(Len(q))) <= Count(kept[Len(q)], n)
    <2>1. Len(q) \in T
        BY <1>3, <1>6
    <2> QED
        BY <1>3, <2>1
<1> HIDE DEF upto
<1> QED
    BY <1>1, <1>7, <1>8 DEF Count

\* No request but the reports is outdated.
LEMMA CountSuperseded ==
    ASSUME NEW q \in Seq(Nodes), NEW n \in {"ID", "RUIM", "APDU"}
    PROVE  Count(Superseded(q), n) = Count(q, n)
<1>1. At(Superseded(q), n) = At(q, n)
    BY DEF At, Superseded
<1> QED
    BY <1>1 DEF Count

\* What is taken from the queue is sent; only the APDUs of a USIM that is off are dropped.
LEMMA CountDequeued ==
    ASSUME NEW q \in Seq(Nodes), NEW f, NEW n \in {"ID", "RUIM", "APDU"},
           n = "APDU" => "isUimPwrDwn" \notin f
    PROVE  /\ Count(q, n) <= Count(Dequeued(q, f).queue, n)
                                + (IF Dequeued(q, f).flow = n THEN 1 ELSE 0)
           /\ Count(q, n) <= Count(DequeuedUnlessOff(q, f).queue, n)
                                + (IF DequeuedUnlessOff(q, f).flow = n THEN 1 ELSE 0)
<1>0. Count(q, n) \in Nat
    BY CountFinite
<1>1. Count(q, n) <= Count(Dequeued(q, f).queue, n) + (IF Dequeued(q, f).flow = n THEN 1 ELSE 0)
    <2>1. CASE q = <<>>
        <3>1. Dequeued(q, f) = [flow |-> "IDLE", queue |-> q]
            BY <2>1 DEF Dequeued
        <3> QED
            BY <1>0, <3>1
    <2>2. CASE q # <<>> /\ Head(q) = "OUTDATED"
        <3>1. Dequeued(q, f) = [flow |-> "IDLE", queue |-> Tail(q)]
            BY <2>2 DEF Dequeued
        <3> QED
            BY <2>2, <3>1, CountTail
    <2>3. CASE q # <<>> /\ Head(q) = "APDU" /\ "isUimPwrDwn" \in f
        <3>1. Dequeued(q, f) = [flow |-> "IDLE", queue |-> WithoutApdus(q)]
            BY <2>3 DEF Dequeued
        <3>2. Count(q, n) <= Count(WithoutApdus(q), n)
            BY <2>3, CountWithoutApdus DEF Nodes, Flows
        <3>3. Count(WithoutApdus(q), n) \in Nat
            BY WithoutApdusSeq, CountFinite
        <3> QED
            BY <1>0, <3>1, <3>2, <3>3
    <2>4. CASE q # <<>> /\ Head(q) # "OUTDATED" /\ ~(Head(q) = "APDU" /\ "isUimPwrDwn" \in f)
        <3>1. Dequeued(q, f) = [flow |-> Head(q), queue |-> Tail(q)]
            BY <2>4 DEF Dequeued
        <3> QED
            BY <2>4, <3>1, CountTail
    <2> QED
        BY <2>1, <2>2, <2>3, <2>4
<1>2. CASE "isFTMPowerOffInd" \in f
    BY <1>0, <1>1, <1>2 DEF DequeuedUnlessOff
<1>3. CASE "isFTMPowerOffInd" \notin f
    BY <1>1, <1>3 DEF DequeuedUnlessOff
<1> QED
    BY <1>1, <1>2, <1>3

-----------------------------------------------------------------------------
(* What the end of a handler leaves in the queue.                          *)

\* Of the requests n of the queue q none is gone, but for one that is being sent.
Kept(q, n) == Count(q, n) <= Count(queue', n) \/ (flow' = n /\ at'.acq = "CIPSEND_1")

KeptFor(q, f) ==
    /\ Kept(q, "ID") /\ Kept(q, "RUIM")
    /\ Kept(q, "APDU") \/ "isUimPwrDwn" \in f

\* What the lemmas about an end of a handler start from.
Queues == queue \in Seq(Nodes) /\ queue' \in Seq(Nodes) /\ at \in Engine

Wanted == {"ID", "RUIM", "APDU"}

LEMMA KeptFrom ==
    ASSUME Queues, NEW q \in Seq(Nodes), NEW r \in Seq(Nodes), NEW n,
           Count(q, n) <= Count(r, n), Kept(r, n)
    PROVE  Kept(q, n)
<1>1. Count(q, n) \in Nat /\ Count(r, n) \in Nat /\ Count(queue', n) \in Nat
    BY CountFinite DEF Queues
<1> QED
    BY <1>1 DEF Kept

LEMMA SendsAcq ==
    ASSUME NEW a \in Engine, NEW s
    PROVE  AcqData(a, s).acq = s
BY DEF AcqData, Engine

LEMMA Unchanged == ASSUME Queues, queue' = queue, NEW f PROVE KeptFor(queue, f)
<1>1. \A n : Count(queue, n) \in Nat
    BY CountFinite DEF Queues
<1> QED
    BY <1>1 DEF KeptFor, Kept

\* These ends do not touch the queue.
LEMMA QueueSet ==
    /\ \A a, c, f : Goes(a, c, f) => queue' = queue
    /\ \A rsp, a, s, c, f : SuspendsWithout(rsp, a, s, c, f) => queue' = queue
    /\ \A a, s, c, f : Suspends(a, s, c, f) => queue' = queue
    /\ \A a, s, c, f : ClosesToRecover(a, s, c, f) => queue' = queue
    /\ Leaks => queue' = queue
    /\ \A lock, f : PowersDownWith(lock, f) => queue' = queue
    /\ \A f : PowersDown(f) => queue' = queue
<1>1. \A rsp, a, s, c, f : SuspendsWithout(rsp, a, s, c, f) => queue' = queue
    BY DEF SuspendsWithout
<1>2. \A lock, f : PowersDownWith(lock, f) => queue' = queue
    BY DEF PowersDownWith
<1>3. /\ \A a, c, f : Goes(a, c, f) => queue' = queue
      /\ Leaks => queue' = queue
    BY DEF Goes, Leaks
<1> QED
    BY <1>1, <1>2, <1>3 DEF Suspends, ClosesToRecover, PowersDown

\* A node is added.
LEMMA AddedKept ==
    ASSUME Queues, NEW q \in Seq(Nodes), NEW e \in Nodes, queue' = Append(q, e), NEW n
    PROVE  /\ Kept(q, n)
           /\ Count(queue', n) = Count(q, n) + (IF e = n THEN 1 ELSE 0)
<1>1. Count(q, n) \in Nat
    BY CountFinite
<1>2. Count(queue', n) = Count(q, n) + (IF e = n THEN 1 ELSE 0)
    BY CountAppend
<1> QED
    BY <1>1, <1>2 DEF Kept

LEMMA RequeuesKept ==
    ASSUME Queues, flow \in Flows \ {"IDLE"}, NEW a, NEW c, NEW g, Requeues(a, c, g), NEW f
    PROVE  KeptFor(queue, f)
<1>1. InHand \in Nodes
    BY DEF InHand, Nodes
<1>2. queue' = Append(queue, InHand)
    BY DEF Requeues
<1> QED
    BY <1>1, <1>2, AddedKept DEF KeptFor, Queues

\* A request is transmitted, or another one of the queue is.
LEMMA TransmitsKept ==
    ASSUME Queues, NEW a \in Engine, NEW s, NEW q \in Seq(Nodes), NEW c, NEW f, NEW t,
           Transmits(a, s, q, c, f, t)
    PROVE  /\ KeptFor(q, f)
           /\ s # "STATUS" => flow' = s /\ at'.acq = "CIPSEND_1"
<1> DEFINE d == DequeuedUnlessOff(q, f)
<1>0. \A n \in Wanted : Count(q, n) \in Nat
    BY CountFinite
<1>1. CASE at' = AcqData(a, "CIPSEND_1") /\ flow' = s /\ queue' = q
    BY <1>0, <1>1, SendsAcq DEF KeptFor, Kept, Wanted
<1>2. CASE /\ s = "STATUS" /\ queue' = d.queue
           /\ flow' = IF d.flow = "IDLE" THEN s ELSE d.flow
           /\ at' = IF d.flow = "IDLE" THEN Waiting(a) ELSE AcqData(a, "CIPSEND_1")
    <2>1. ASSUME NEW n \in Wanted, n = "APDU" => "isUimPwrDwn" \notin f PROVE Kept(q, n)
        <3>1. Count(q, n) <= Count(d.queue, n) + (IF d.flow = n THEN 1 ELSE 0)
            BY <2>1, CountDequeued DEF Wanted
        <3>2. Count(d.queue, n) \in Nat
            BY <1>2, CountFinite DEF Queues
        <3>3. CASE d.flow = n
            BY <1>2, <3>3, SendsAcq DEF Kept, Wanted
        <3>4. CASE d.flow # n
            BY <1>0, <1>2, <3>1, <3>2, <3>4 DEF Kept
        <3> QED
            BY <3>3, <3>4
    <2> QED
        BY <1>2, <2>1 DEF KeptFor, Wanted
<1> QED
    BY <1>1, <1>2 DEF Transmits

\* The request taken from the queue is transmitted.
LEMMA TakenKept ==
    ASSUME Queues, NEW a \in Engine, NEW q \in Seq(Nodes), NEW d, d.queue \in Seq(Nodes),
           NEW c, NEW f, NEW t, Transmits(a, d.flow, d.queue, c, f, t),
           \A n \in Wanted : (n = "APDU" => "isUimPwrDwn" \notin f) =>
               Count(q, n) <= Count(d.queue, n) + (IF d.flow = n THEN 1 ELSE 0)
    PROVE  KeptFor(q, f)
<1>1. ASSUME NEW n \in Wanted, n = "APDU" => "isUimPwrDwn" \notin f PROVE Kept(q, n)
    <2>1. Kept(d.queue, n) /\ (d.flow # "STATUS" => flow' = d.flow /\ at'.acq = "CIPSEND_1")
        BY <1>1, TransmitsKept DEF KeptFor, Wanted
    <2>2. CASE d.flow = n
        BY <2>1, <2>2 DEF Kept, Wanted
    <2>3. CASE d.flow # n
        <3>1. Count(q, n) \in Nat /\ Count(d.queue, n) \in Nat
            BY CountFinite
        <3>2. Count(q, n) <= Count(d.queue, n)
            BY <1>1, <2>3, <3>1
        <3> QED
            BY <2>1, <3>2, KeptFrom
    <2> QED
        BY <2>2, <2>3
<1> QED
    BY <1>1 DEF KeptFor, Wanted

LEMMA WaitsOrSendsKept ==
    ASSUME Queues, NEW a \in Engine, NEW q \in Seq(Nodes), NEW c, NEW f, NEW t, NEW w,
           WaitsOrSends(a, q, c, f, t, w)
    PROVE  KeptFor(q, f)
<1> DEFINE d == DequeuedUnlessOff(q, f)
<1>1. \A n \in Wanted : (n = "APDU" => "isUimPwrDwn" \notin f) =>
          Count(q, n) <= Count(d.queue, n) + (IF d.flow = n THEN 1 ELSE 0)
    BY CountDequeued DEF Wanted
<1>2. d.queue \in Seq(Nodes)
    BY DequeuedUnlessOffFine
<1>3. IF d.flow # "IDLE" THEN Transmits(a, d.flow, d.queue, c, f, t) ELSE queue' = d.queue
    BY DEF WaitsOrSends
<1> HIDE DEF d
<1>4. CASE d.flow # "IDLE"
    BY <1>1, <1>2, <1>3, <1>4, TakenKept
<1>5. CASE d.flow = "IDLE"
    <2>1. ASSUME NEW n \in Wanted, n = "APDU" => "isUimPwrDwn" \notin f PROVE Kept(q, n)
        <3>1. Count(d.queue, n) \in Nat /\ d.flow # n
            BY <1>2, <1>5, CountFinite DEF Wanted
        <3>2. Count(q, n) <= Count(d.queue, n)
            BY <1>1, <2>1, <3>1
        <3> QED
            BY <1>3, <1>5, <3>2 DEF Kept
    <2> QED
        BY <2>1 DEF KeptFor, Wanted
<1> QED
    BY <1>4, <1>5

\* What is kept of a queue with the request taken out is kept of the queue.
LEMMA RestKept ==
    ASSUME Queues, NEW f, Dequeued(queue, f).flow = "IDLE",
           NEW g, KeptFor(Dequeued(queue, f).queue, g), "isUimPwrDwn" \in g => "isUimPwrDwn" \in f
    PROVE  KeptFor(queue, f)
<1> DEFINE d == Dequeued(queue, f)
<1>1. d.queue \in Seq(Nodes)
    BY DequeuedFine DEF Queues
<1>2. ASSUME NEW n \in Wanted, n = "APDU" => "isUimPwrDwn" \notin f PROVE Kept(queue, n)
    <2>1. Count(queue, n) <= Count(d.queue, n) + (IF d.flow = n THEN 1 ELSE 0)
        BY <1>2, CountDequeued DEF Wanted, Queues
    <2>2. Count(d.queue, n) \in Nat
        BY <1>1, CountFinite
    <2>3. Count(queue, n) <= Count(d.queue, n)
        BY <2>1, <2>2 DEF Wanted
    <2>4. Kept(d.queue, n)
        BY <1>2 DEF KeptFor, Wanted
    <2> QED
        BY <1>1, <2>3, <2>4, KeptFrom DEF Queues
<1> QED
    BY <1>2 DEF KeptFor, Wanted

LEMMA NextTakenKept ==
    ASSUME Queues, NEW a \in Engine, NEW c, NEW f, NEW t,
           Dequeued(queue, f).flow # "IDLE",
           Transmits(a, Dequeued(queue, f).flow, Dequeued(queue, f).queue, c, f, t)
    PROVE  KeptFor(queue, f)
<1> DEFINE d == Dequeued(queue, f)
<1>1. \A n \in Wanted : (n = "APDU" => "isUimPwrDwn" \notin f) =>
          Count(queue, n) <= Count(d.queue, n) + (IF d.flow = n THEN 1 ELSE 0)
    BY CountDequeued DEF Wanted, Queues
<1>2. d.queue \in Seq(Nodes)
    BY DequeuedFine DEF Queues
<1> QED
    BY <1>1, <1>2, TakenKept DEF Queues

LEMMA TakesNextKept ==
    ASSUME Queues, NEW a \in Engine, NEW c, NEW f, NEW t, TakesNext(a, c, f, t)
    PROVE  KeptFor(queue, f)
<1> DEFINE d == Dequeued(queue, f)
           idle == IdleTimer(f, t)
<1>0. d.queue \in Seq(Nodes)
    BY DequeuedFine DEF Queues
<1>1. \/ d.flow # "IDLE" /\ Transmits(a, d.flow, d.queue, c, f, t)
      \/ d.flow = "IDLE" /\ queue' = d.queue
      \/ d.flow = "IDLE" /\ WaitsOrSends(a, d.queue, c, f, idle, idle)
    BY DEF TakesNext
<1>2. CASE d.flow # "IDLE" /\ Transmits(a, d.flow, d.queue, c, f, t)
    BY <1>2, NextTakenKept
<1>3. CASE d.flow = "IDLE" /\ queue' = d.queue
    <2>1. \A n \in Wanted : Count(d.queue, n) \in Nat
        BY <1>0, CountFinite
    <2>2. KeptFor(d.queue, f)
        BY <1>3, <2>1 DEF KeptFor, Kept, Wanted
    <2> QED
        BY <1>3, <2>2, RestKept
<1>4. CASE d.flow = "IDLE" /\ WaitsOrSends(a, d.queue, c, f, idle, idle)
    <2>1. KeptFor(d.queue, f)
        BY <1>0, <1>4, WaitsOrSendsKept
    <2> QED
        BY <1>4, <2>1, RestKept
<1> QED
    BY <1>1, <1>2, <1>3, <1>4

\* The failure of a transmission reported at ChannelNum 1: what is taken goes back.
LEMMA ReportedKept ==
    ASSUME Queues, flow \in Flows \ {"IDLE"}, NEW a, NEW g, ReportedWhileSuspended(a, g)
    PROVE  KeptFor(queue, g)
<1> DEFINE d == DequeuedUnlessOff(queue, g)
           e == IF flow' = "STATUS" THEN "OUTDATED" ELSE flow'
<1>1. d.queue \in Seq(Nodes) /\ d.flow \in Flows
    BY DequeuedUnlessOffFine DEF Queues
<1>2. queue' = Append(d.queue, e) /\ flow' = IF d.flow = "IDLE" THEN flow ELSE d.flow
    BY DEF ReportedWhileSuspended
<1>3. e \in Nodes
    BY <1>1, <1>2 DEF Nodes, Flows
<1>4. ASSUME NEW n \in Wanted, n = "APDU" => "isUimPwrDwn" \notin g PROVE Kept(queue, n)
    <2>1. Count(queue, n) <= Count(d.queue, n) + (IF d.flow = n THEN 1 ELSE 0)
        BY <1>4, CountDequeued DEF Wanted, Queues
    <2>2. d.flow = n => e = n
        BY <1>2 DEF Wanted
    <2> HIDE DEF d, e
    <2>3. Count(queue', n) = Count(d.queue, n) + (IF e = n THEN 1 ELSE 0)
        BY <1>1, <1>2, <1>3, AddedKept
    <2>4. Count(d.queue, n) \in Nat /\ Count(queue, n) \in Nat
        BY <1>1, CountFinite DEF Queues
    <2> QED
        BY <2>1, <2>2, <2>3, <2>4 DEF Kept
<1> QED
    BY <1>4 DEF KeptFor, Wanted

\* Another report is asked for.
LEMMA SupersededKept ==
    ASSUME Queues, queue' = Superseded(queue), NEW f
    PROVE  KeptFor(queue, f)
<1>1. \A n \in Wanted : Count(queue', n) = Count(queue, n) /\ Count(queue, n) \in Nat
    BY CountSuperseded, CountFinite DEF Wanted, Queues
<1> QED
    BY <1>1 DEF KeptFor, Kept, Wanted

\* Only APDUs are dropped with the APDUs.
LEMMA NoApdusKept ==
    ASSUME Queues, NEW f, KeptFor(NoApdus, f)
    PROVE  Kept(queue, "ID") /\ Kept(queue, "RUIM")
<1>1. NoApdus \in Seq(Nodes)
    BY WithoutApdusSeq DEF NoApdus, Queues
<1>2. \A n \in {"ID", "RUIM"} : Count(queue, n) <= Count(NoApdus, n)
    BY CountWithoutApdus DEF NoApdus, Queues, Nodes, Flows
<1> QED
    BY <1>1, <1>2, KeptFrom DEF KeptFor, Queues

-----------------------------------------------------------------------------
(* What a step leaves in the queue.                                        *)

\* The APDUs may be dropped.
ApdusGo ==
    \/ Has("isUimPwrDwn")
    \/ at.acq = "RECVING" /\ flow = "ID"
    \/ flow' = "RUIM"
    \/ Has("del_simdata") /\ "del_simdata" \notin flags'

AllKept == Kept(queue, "ID") /\ Kept(queue, "RUIM") /\ (Kept(queue, "APDU") \/ ApdusGo)

\* What the lemmas about a step start from.
Before == State /\ queue' \in Seq(Nodes)

LEMMA BeforeQueues == ASSUME Before PROVE Queues /\ flow \in Flows /\ FineAt(at, flow)
BY DEF Before, Queues, State, Fine, FineAt

LEMMA EnoughKept ==
    ASSUME NEW f, KeptFor(queue, f), "isUimPwrDwn" \in f => Has("isUimPwrDwn")
    PROVE  AllKept
BY DEF KeptFor, AllKept, ApdusGo

LEMMA UnchangedKept == ASSUME Before, queue' = queue PROVE AllKept
<1>1. KeptFor(queue, flags)
    BY BeforeQueues, Unchanged
<1> QED
    BY <1>1, EnoughKept DEF Has

LEMMA NetKept == ASSUME Before, NetSteps PROVE AllKept
<1>1. queue' = queue \/ r_checkNetHdlr_CGREG
    BY QueueSet
    DEF NetSteps, r_checkNetHdlr_IDLE, r_checkNetHdlr_CSQ, r_uartConfigHdlr, r_acqDataHdlr_CGSN,
        r_acqDataHdlr_COPS_CREG_1, r_acqDataHdlr_CREG_2, r_acqDataHdlr_CREG_3, PowerOffStops, StartsOver
<1>2. CASE r_checkNetHdlr_CGREG
    <2> DEFINE f == (FlagsPowerOff \ {"isTermRcvrNow"}) \union {"isNotNeedIdleTimer"}
               a == [[at EXCEPT !.chk = "MAX"] EXCEPT !.conf = "MAX"]
    <2>1. queue' = queue \/ Waits(a, ChannelPowerOff, f)
        BY <1>2, QueueSet DEF r_checkNetHdlr_CGREG, PowerOffStops
    <2>2. a \in Engine
        BY FieldsFine, BeforeQueues DEF FineAt
    <2>3. "isUimPwrDwn" \in f => Has("isUimPwrDwn")
        BY DEF FlagsPowerOff, Has
    <2> HIDE DEF a, f
    <2>4. ASSUME Waits(a, ChannelPowerOff, f) PROVE KeptFor(queue, f)
        BY <2>2, <2>4, BeforeQueues, WaitsOrSendsKept DEF Waits, Queues
    <2> QED
        BY <2>1, <2>3, <2>4, EnoughKept, UnchangedKept
<1> QED
    BY <1>1, <1>2, UnchangedKept

LEMMA ConnOpenedKept ==
    ASSUME Before, NEW c, NEW f, ConnOpened(c, f), "isUimPwrDwn" \in f => Has("isUimPwrDwn")
    PROVE  AllKept
<1> DEFINE open == [at EXCEPT !.link = TRUE]
<1>0. open \in Engine /\ queue \in Seq(Nodes) /\ Queues
    BY BeforeQueues DEF Queues, Engine
<1>1. ASSUME NEW s, NEW g, Transmits(open, s, queue, 0, g, timers),
             "isUimPwrDwn" \in g => "isUimPwrDwn" \in f
      PROVE  AllKept
    BY <1>0, <1>1, TransmitsKept, EnoughKept
<1>2. CASE LET g == f \ {"isWaitToSusp"} IN
           Waits(open, 0, IF "isUimPwrDwn" \in g THEN AsksIMSI(g)
                          ELSE g \union {"PowerUpUsimAfterRecvingUrcRpt"})
    <2> DEFINE h == IF "isUimPwrDwn" \in f \ {"isWaitToSusp"} THEN AsksIMSI(f \ {"isWaitToSusp"})
                    ELSE (f \ {"isWaitToSusp"}) \union {"PowerUpUsimAfterRecvingUrcRpt"}
    <2>1. WaitsOrSends(open, queue, 0, h, timers, timers)
        BY <1>2 DEF Waits
    <2>2. "isUimPwrDwn" \in h => Has("isUimPwrDwn")
        BY DEF AsksIMSI
    <2> HIDE DEF h, open
    <2> QED
        BY <1>0, <2>1, <2>2, WaitsOrSendsKept, EnoughKept
<1>3. CASE LET d == Dequeued(queue, f)
               t == IdleTimer(f, timers)
           IN IF d.flow # "IDLE" THEN Transmits(open, d.flow, d.queue, 0, f, timers)
              ELSE WaitsOrSends(open, d.queue, 0, f, t, t)
    <2> DEFINE d == Dequeued(queue, f)
               t == IdleTimer(f, timers)
    <2>1. \/ d.flow # "IDLE" /\ Transmits(open, d.flow, d.queue, 0, f, timers)
          \/ d.flow = "IDLE" /\ WaitsOrSends(open, d.queue, 0, f, t, t)
        BY <1>3
    <2>2. d.queue \in Seq(Nodes)
        BY <1>0, DequeuedFine
    <2> HIDE DEF open, t
    <2>3. CASE d.flow # "IDLE" /\ Transmits(open, d.flow, d.queue, 0, f, timers)
        BY <1>0, <2>3, NextTakenKept, EnoughKept
    <2>4. CASE d.flow = "IDLE" /\ WaitsOrSends(open, d.queue, 0, f, t, t)
        <3>1. KeptFor(d.queue, f)
            BY <1>0, <2>2, <2>4, WaitsOrSendsKept
        <3> QED
            BY <1>0, <2>4, <3>1, RestKept, EnoughKept
    <2> QED
        BY <2>1, <2>3, <2>4
<1>4. CASE TakesNext(open, 3, f, timers)
    BY <1>0, <1>4, TakesNextKept, EnoughKept
<1>5. CASE Goes(Unarmed(open), c, f)
    BY <1>5, QueueSet, UnchangedKept
<1>6. CASE \/ Transmits(open, "ID", queue, 0, f \ {"isProcOfInitApp"}, timers)
           \/ Transmits(open, "PWR_DOWN", queue, 0, PowerOffTold(f), timers)
           \/ Transmits(open, "ID", queue, 0, f \ {"isNeedToSendIDMsg"}, timers)
    BY <1>1, <1>6 DEF PowerOffTold
<1> HIDE DEF open
<1> QED
    BY <1>2, <1>3, <1>4, <1>5, <1>6 DEF ConnOpened, open

LEMMA ConnKept == ASSUME Before, ConnSteps PROVE AllKept
<1>1. ASSUME NEW c, NEW f, NetOpened(c, f) PROVE queue' = queue
    BY <1>1, QueueSet DEF NetOpened, Suspended
<1>2. ASSUME r_acqDataHdlr_NETOPEN \/ r_acqDataHdlr_CIPOPEN_REQ \/ r_acqDataHdlr_CIPCLOSE
      PROVE  queue' = queue
    BY <1>1, <1>2, QueueSet
    DEF r_acqDataHdlr_NETOPEN, StartsOverUnlessLinked, PowerOffStops, r_acqDataHdlr_CIPOPEN_REQ,
        r_acqDataHdlr_CIPCLOSE, StartsOver
<1>3. ASSUME NEW opened, NEW c, NEW f, ConnAnswered(opened, c, f),
             "isUimPwrDwn" \in f => Has("isUimPwrDwn")
      PROVE  AllKept
    <2>1. queue' = queue \/ ConnOpened(c, f \ {"isWaitToSusp"})
        BY <1>3, QueueSet DEF ConnAnswered, Suspended, ConnRefused
    <2> QED
        BY <1>3, <2>1, ConnOpenedKept, UnchangedKept
<1>4. ASSUME r_acqDataHdlr_CIPOPEN PROVE AllKept
    <2>1. "isUimPwrDwn" \in FlagsPowerOff => Has("isUimPwrDwn")
        BY DEF FlagsPowerOff, Has
    <2>2. /\ \A a : StartsOverUnlessLinked(a) => queue' = queue
          /\ PowerOffStops("lost") => queue' = queue
        BY QueueSet DEF StartsOverUnlessLinked, PowerOffStops
    <2>3. \/ queue' = queue
          \/ ConnAnswered(FALSE, ChannelPowerOff, FlagsPowerOff)
          \/ ConnAnswered(TRUE, ChannelNum, flags)
        BY <1>4, <2>2, QueueSet DEF r_acqDataHdlr_CIPOPEN
    <2> QED
        BY <1>3, <2>1, <2>3, UnchangedKept DEF Has
<1> QED
    BY <1>2, <1>4, UnchangedKept DEF ConnSteps

LEMMA SendingNow ==
    ASSUME Before, at.acq \in Sending
    PROVE  flow \in Flows \ {"IDLE"}
BY BeforeQueues DEF FineAt

LEMMA CipSend1Kept == ASSUME Before, r_acqDataHdlr_CIPSEND_1 PROVE AllKept
<1>0. Queues /\ flow \in Flows \ {"IDLE"}
    BY SendingNow, BeforeQueues DEF r_acqDataHdlr_CIPSEND_1, AcqArmed, Sending
<1>1. ASSUME NEW a, NEW c, NEW g, Requeues(a, c, g) PROVE AllKept
    BY <1>0, <1>1, RequeuesKept, EnoughKept DEF Has
<1> DEFINE Reported(a, g) ==
               IF Has("isWaitForRptCIPERROR") THEN Requeues(a, ChannelNum, g)
               ELSE IF ChannelNum \in Connected THEN Requeues(a, Broken[ChannelNum], g)
               ELSE IF ChannelNum = 1 THEN ReportedWhileSuspended(a, g)
               ELSE Leaks
           f == flags \ {"isWaitForRptCIPERROR"}
<1>2. ASSUME NEW a, NEW g, Reported(a, g), "isUimPwrDwn" \in g => Has("isUimPwrDwn") PROVE AllKept
    <2>1. ASSUME ReportedWhileSuspended(a, g) PROVE AllKept
        BY <1>0, <1>2, <2>1, ReportedKept, EnoughKept
    <2> QED
        BY <1>1, <1>2, <2>1, QueueSet, UnchangedKept
<1>3. ASSUME LosesAndRequeues(CheckNet(at, "CSQ")) PROVE AllKept
    BY <1>1, <1>3, QueueSet, UnchangedKept DEF LosesAndRequeues
<1>4. \/ queue' = queue
      \/ LosesAndRequeues(CheckNet(at, "CSQ"))
      \/ \E a : \E g \in {flags \union {"isWaitForRptCIPERROR", "isServConnClosed"},
                          f \union {"isWaitRspError"}, f, flags, f \union {"RcvrMdmEmodemConn"}} :
             Reported(a, g)
    BY QueueSet DEF r_acqDataHdlr_CIPSEND_1, WritesData
<1>5. ASSUME NEW a, NEW g \in {flags \union {"isWaitForRptCIPERROR", "isServConnClosed"},
                          f \union {"isWaitRspError"}, f, flags, f \union {"RcvrMdmEmodemConn"}},
             Reported(a, g)
      PROVE  AllKept
    <2>1. "isUimPwrDwn" \in g => Has("isUimPwrDwn")
        BY DEF Has
    <2> QED
        BY <1>2, <1>5, <2>1
<1> HIDE DEF Reported
<1> QED
    BY <1>3, <1>4, <1>5, UnchangedKept

LEMMA TellsKept == ASSUME Before, TellsPowerOff PROVE AllKept
<1> DEFINE g == flags \ ({"isWaitToPwrDwn", "isWaitToSusp"}
                         \union IF ChannelNum = 3 THEN {"isMifiConnected"} ELSE {})
<1>1. queue' = queue \/ Transmits(at, "PWR_DOWN", queue, 0, g, timers)
    BY QueueSet DEF TellsPowerOff
<1>2. "isUimPwrDwn" \in g => Has("isUimPwrDwn")
    BY DEF Has
<1>3. ASSUME Transmits(at, "PWR_DOWN", queue, 0, g, timers) PROVE AllKept
    BY <1>2, <1>3, BeforeQueues, TransmitsKept, EnoughKept DEF Queues
<1> QED
    BY <1>1, <1>3, UnchangedKept

LEMMA CipSend2Kept == ASSUME Before, r_acqDataHdlr_CIPSEND_2 PROVE AllKept
<1> DEFINE f == flags \ {"isWaitToSusp"}
<1>0. Queues /\ flow \in Flows \ {"IDLE"} /\ at \in Engine /\ queue \in Seq(Nodes)
    BY SendingNow, BeforeQueues DEF r_acqDataHdlr_CIPSEND_2, AcqArmed, Sending, Queues
<1>1. ASSUME NEW a, LosesAndRequeues(a) PROVE AllKept
    <2>1. queue' = queue \/ Requeues(a, Broken[ChannelNum], flags)
        BY <1>1, QueueSet DEF LosesAndRequeues
    <2> QED
        BY <1>0, <2>1, UnchangedKept, RequeuesKept, EnoughKept DEF Has
<1>2. ASSUME TakesNext(at, ChannelNum, f, timers) PROVE AllKept
    BY <1>0, <1>2, TakesNextKept, EnoughKept DEF Has
<1>3. /\ \A rsp : SuspendsWhenDone(rsp) => queue' = queue
      /\ \A rsp, x, e : Recovers(rsp, x, e) => queue' = queue
    BY QueueSet DEF SuspendsWhenDone, Recovers
<1>4. \/ \E a : LosesAndRequeues(a)
      \/ TellsPowerOff
      \/ TakesNext(at, ChannelNum, f, timers)
      \/ queue' = queue
    BY <1>3, QueueSet DEF r_acqDataHdlr_CIPSEND_2, WritesData
<1> QED
    BY <1>1, <1>2, <1>4, TellsKept, UnchangedKept

\* The end of a transmission, with the queue or with what is left of it.
LEMMA AfterSendingDataKept ==
    ASSUME Before, NEW q \in Seq(Nodes), NEW f, NEW t, AfterSendingData(q, f, t)
    PROVE  queue' = queue \/ KeptFor(q, f)
BY BeforeQueues, WaitsOrSendsKept, QueueSet DEF AfterSendingData, Queues

LEMMA RecvingKept == ASSUME Before, r_acqDataHdlr_RECVING PROVE AllKept
<1> DEFINE t == timers \ RspTimer
           f == flags \ {"isWaitToSusp"}
<1>0. Queues /\ at \in Engine /\ queue \in Seq(Nodes) /\ at.acq = "RECVING" /\ NoApdus \in Seq(Nodes)
    BY BeforeQueues, WithoutApdusSeq DEF r_acqDataHdlr_RECVING, AcqArmed, Queues, NoApdus
<1>1. ASSUME NEW g, KeptFor(NoApdus, g), flow = "ID" PROVE AllKept
    <2>1. Kept(queue, "ID") /\ Kept(queue, "RUIM")
        BY <1>0, <1>1, NoApdusKept
    <2> QED
        BY <1>0, <1>1, <2>1 DEF AllKept, ApdusGo
<1>2. ASSUME flow = "ID", IDAccepted(f, t) PROVE AllKept
    <2>1. CASE Transmits(at, "RUIM", NoApdus, ChannelNum, f, t)
        BY <1>0, <1>1, <1>2, <2>1, TransmitsKept
    <2>2. CASE WaitsOrSends(at, queue, ChannelNum, f \union {"del_simdata"}, t, t)
        <3>1. KeptFor(queue, f \union {"del_simdata"})
            BY <1>0, <2>2, WaitsOrSendsKept
        <3> QED
            BY <3>1, EnoughKept DEF Has
    <2>3. CASE \E g : AfterSendingData(NoApdus, g, t)
        BY <1>0, <1>1, <1>2, <2>3, AfterSendingDataKept, UnchangedKept
    <2>4. CASE TakesNext(at, ChannelNum, f, t)
        BY <1>0, <2>4, TakesNextKept, EnoughKept DEF Has
    <2> QED
        BY <1>2, <2>1, <2>2, <2>3, <2>4 DEF IDAccepted
<1>3. ASSUME NEW g \in {flags, f}, NEW u, AfterSendingData(queue, g, u) PROVE AllKept
    <2>1. "isUimPwrDwn" \in g => Has("isUimPwrDwn")
        BY DEF Has
    <2> QED
        BY <1>0, <1>3, <2>1, AfterSendingDataKept, EnoughKept, UnchangedKept
<1>4. ASSUME Waits(at, ChannelNum, flags) PROVE AllKept
    BY <1>0, <1>4, WaitsOrSendsKept, EnoughKept DEF Waits, Has
<1>5. /\ \A rsp : SuspendsWhenDone(rsp) => queue' = queue
      /\ \A rsp, x, e : Recovers(rsp, x, e) => queue' = queue
      /\ \A a : Loses(a) => queue' = queue
      /\ \A a, g : SendsAgain(a, g) => queue' = queue
    BY QueueSet DEF SuspendsWhenDone, Recovers, Loses, SendsAgain
<1>6. ASSUME Answered(f, t) PROVE AllKept
    <2>1. \/ flow = "ID" /\ IDAccepted(f, t)
          \/ queue' = queue
          \/ AfterSendingData(queue, f, t)
        BY <1>6 DEF Answered
    <2> QED
        BY <1>2, <1>3, <2>1, UnchangedKept
<1>7. \/ queue' = queue
      \/ Waits(at, ChannelNum, flags)
      \/ AfterSendingData(queue, flags, timers)
      \/ TellsPowerOff
      \/ Answered(f, t)
    BY <1>5, QueueSet DEF r_acqDataHdlr_RECVING
<1> QED
    BY <1>3, <1>4, <1>6, <1>7, TellsKept, UnchangedKept

LEMMA XferKept == ASSUME Before, XferSteps PROVE AllKept
<1>1. /\ \A rsp : SuspendsWhenDone(rsp) => queue' = queue
      /\ \A rsp, x, f : Recovers(rsp, x, f) => queue' = queue
      /\ \A a : Loses(a) => queue' = queue
      /\ StartsOver => queue' = queue
    BY QueueSet DEF SuspendsWhenDone, Recovers, Loses, StartsOver
<1>2. ASSUME r_acqDataHdlr_CATR_1 \/ r_acqDataHdlr_CATR_2 \/ r_acqDataHdlr_WAITING
      PROVE  queue' = queue
    BY <1>1, <1>2, QueueSet DEF r_acqDataHdlr_CATR_1, r_acqDataHdlr_CATR_2,
       r_acqDataHdlr_WAITING
<1>3. ASSUME r_acqDataHdlr_CUSTOM_AT_CMD PROVE AllKept
    BY <1>3, BeforeQueues, WaitsOrSendsKept, EnoughKept DEF r_acqDataHdlr_CUSTOM_AT_CMD,
       Has, Queues
<1> QED
    BY <1>2, <1>3, CipSend1Kept, CipSend2Kept, RecvingKept, UnchangedKept DEF XferSteps

LEMMA SuspKept == ASSUME Before, SuspSteps PROVE AllKept
<1>0. Queues /\ Closed \in Engine /\ queue \in Seq(Nodes)
    BY BeforeQueues DEF Closed, Queues, Engine
<1> DEFINE HandedOver(f) == \E c : Waits(Closed, c, f \ {"isMdmEmodemRunning"})
<1>1. ASSUME NEW f, HandedOver(f), "isUimPwrDwn" \in f => Has("isUimPwrDwn") PROVE AllKept
    BY <1>0, <1>1, WaitsOrSendsKept, EnoughKept DEF Waits
<1>2. ASSUME NEW c, NEW f, HandsOver(c, f) PROVE queue' = queue \/ HandedOver(f)
    BY <1>2, QueueSet DEF HandsOver
<1> HIDE DEF HandedOver
<1>3. ASSUME NEW c, NEW f, SocketClosed(c, f), "isUimPwrDwn" \in f => Has("isUimPwrDwn") PROVE AllKept
    <2> DEFINE g == IF "isTermRcvrNow" \in f
                    THEN (f \ {"isTermRcvrNow"}) \union {"RcvrMdmEmodemConn"} ELSE f
    <2>1. queue' = queue \/ HandsOver(c, g)
        BY <1>3, QueueSet DEF SocketClosed
    <2>2. "isUimPwrDwn" \in g => Has("isUimPwrDwn")
        BY <1>3
    <2> HIDE DEF g
    <2> QED
        BY <1>1, <1>2, <2>1, <2>2, UnchangedKept
<1>4. ASSUME NEW c, NEW f, SocketClosedNotSuspending(c, f), "isUimPwrDwn" \in f => Has("isUimPwrDwn")
      PROVE  AllKept
    <2> DEFINE g == (f \ {"isTermSuspNow", "RcvrMdmEmodemConnWhenSuspTerm"})
                       \union {"RcvrMdmEmodemConn"}
    <2>1. queue' = queue \/ SocketClosed(ChannelAfterSuspension(f), g)
        BY <1>4, QueueSet DEF SocketClosedNotSuspending
    <2>2. "isUimPwrDwn" \in g => Has("isUimPwrDwn")
        BY <1>4
    <2> HIDE DEF g
    <2> QED
        BY <1>3, <2>1, <2>2, UnchangedKept
<1>5. ASSUME NEW c, NEW h, NetClosed(c, h), "isUimPwrDwn" \in h => Has("isUimPwrDwn") PROVE AllKept
    <2> DEFINE f == IF {"isTermSuspNow", "isTermRcvrNow"} \subseteq h THEN h ELSE Forgets(h)
    <2>1. queue' = queue \/ HandsOver(c, f)
        BY <1>5, QueueSet DEF NetClosed
    <2>2. "isUimPwrDwn" \in f => Has("isUimPwrDwn")
        BY <1>5 DEF Forgets
    <2> HIDE DEF f
    <2> QED
        BY <1>1, <1>2, <2>1, <2>2, UnchangedKept
<1>6. "isUimPwrDwn" \in FlagsTold => Has("isUimPwrDwn")
    BY DEF FlagsTold, Has
<1>7. ASSUME r_suspendMdmHdlr_CIPCLOSE PROVE AllKept
    <2>1. \/ queue' = queue
          \/ Waits(Closed, 1, flags \ {"isMdmEmodemRunning"})
          \/ SocketClosedNotSuspending(ChannelTold, FlagsTold)
          \/ SocketClosed(ChannelTold, FlagsTold)
        BY <1>7, QueueSet DEF r_suspendMdmHdlr_CIPCLOSE
    <2>2. ASSUME Waits(Closed, 1, flags \ {"isMdmEmodemRunning"}) PROVE AllKept
        BY <1>0, <2>2, WaitsOrSendsKept, EnoughKept DEF Waits, Has
    <2> QED
        BY <1>3, <1>4, <1>6, <2>1, <2>2, UnchangedKept
<1>8. ASSUME r_suspendMdmHdlr_NETCLOSE PROVE AllKept
    <2>1. queue' = queue \/ NetClosed(ChannelTold, FlagsTold)
        BY <1>8, QueueSet DEF r_suspendMdmHdlr_NETCLOSE
    <2> QED
        BY <1>5, <1>6, <2>1, UnchangedKept
<1> QED
    BY <1>7, <1>8 DEF SuspSteps

\* The virtual USIM is replaced: its APDUs go.
LEMMA ReplacedKept ==
    ASSUME Before, NEW f, KeptFor(NoApdus, f), ApdusGo
    PROVE  AllKept
BY BeforeQueues, NoApdusKept DEF AllKept

LEMMA TimersKept == ASSUME Before, TimerSteps PROVE AllKept
<1>0. Queues /\ at \in Engine /\ queue \in Seq(Nodes) /\ NoApdus \in Seq(Nodes)
    BY BeforeQueues, WithoutApdusSeq DEF Queues, NoApdus
<1>1. ASSUME Idle_Timer_timeout_cb \/ power_down_notification_timeout_cb PROVE queue' = queue
    BY <1>1, QueueSet DEF Idle_Timer_timeout_cb, After, power_down_notification_timeout_cb
<1>2. ASSUME ID_Auth_rsp_timeout_cb PROVE AllKept
    <2> DEFINE f == flags \union {"isNeedToSendIDMsg"}
    <2>1. \/ queue' = queue
          \/ Transmits(at, flow, queue, Broken[ChannelNum], f, timers \ {"id_rsp"})
        BY <1>2, QueueSet DEF ID_Auth_rsp_timeout_cb
    <2> QED
        BY <1>0, <2>1, TransmitsKept, EnoughKept, UnchangedKept DEF Has
<1>3. ASSUME Remote_USIM_Data_rsp_timeout_cb PROVE AllKept
    BY <1>0, <1>3, TransmitsKept, ReplacedKept DEF Remote_USIM_Data_rsp_timeout_cb, ApdusGo
<1> QED
    BY <1>1, <1>2, <1>3, UnchangedKept DEF TimerSteps

LEMMA ThreadsKept == ASSUME Before, ThreadSteps PROVE AllKept
<1>0. Queues /\ at \in Engine /\ queue \in Seq(Nodes) /\ NoApdus \in Seq(Nodes)
    BY BeforeQueues, WithoutApdusSeq DEF Queues, NoApdus
<1>1. ASSUME MsgLoop_MDMEmodem_AT_CMD_REQ \/ MsgLoop_POWER_DOWN_REQ PROVE queue' = queue
    BY <1>1 DEF MsgLoop_MDMEmodem_AT_CMD_REQ, Posts, MsgLoop_POWER_DOWN_REQ
<1>2. ASSUME MsgLoop_POWER_DOWN_REQ_locked PROVE AllKept
    <2> DEFINE f == (flags \ {"power_off_req"})
                       \ ({"isWaitToSusp"} \union IF ChannelNum = 3 THEN {"isMifiConnected"} ELSE {})
    <2>1. queue' = queue \/ Transmits(at, "PWR_DOWN", queue, 0, f, TimersAtPowerOff)
        BY <1>2 DEF MsgLoop_POWER_DOWN_REQ_locked
    <2>2. "isUimPwrDwn" \in f => Has("isUimPwrDwn")
        BY DEF Has
    <2> HIDE DEF f
    <2> QED
        BY <1>0, <2>1, <2>2, TransmitsKept, EnoughKept, UnchangedKept
<1>3. ASSUME RequestPosted PROVE AllKept
    <2>1. queue' = queue \/ queue' = Superseded(queue)
        BY <1>3 DEF RequestPosted
    <2> QED
        BY <1>0, <2>1, SupersededKept, EnoughKept, UnchangedKept DEF Has
<1>4. ASSUME Sender_ACQ_IMSI PROVE AllKept
    <2> DEFINE f == (flags \ {"acq_imsi"}) \ {"isSendIdAfterAcqIMSI"}
    <2>1. queue' = queue \/ Transmits(at, "ID", queue, ChannelNum, f, timers)
        BY <1>4, QueueSet DEF Sender_ACQ_IMSI
    <2> QED
        BY <1>0, <2>1, TransmitsKept, EnoughKept, UnchangedKept DEF Has
<1>5. ASSUME Sender_DEL_SIMDATA PROVE AllKept
    <2> DEFINE f == flags \ {"del_simdata"}
    <2>1. \/ Transmits(at, "RUIM", NoApdus, ChannelNum, f, timers)
          \/ queue' = Append(NoApdus, "RUIM")
        BY <1>5 DEF Sender_DEL_SIMDATA
    <2>2. KeptFor(NoApdus, f)
        <3>1. CASE Transmits(at, "RUIM", NoApdus, ChannelNum, f, timers)
            BY <1>0, <3>1, TransmitsKept
        <3>2. CASE queue' = Append(NoApdus, "RUIM")
            BY <1>0, <3>2, AddedKept DEF KeptFor, Nodes, Flows
        <3> QED
            BY <2>1, <3>1, <3>2
    <2>3. Has("del_simdata") /\ flags' = f
        BY <1>5 DEF Sender_DEL_SIMDATA, Transmits
    <2> QED
        BY <2>2, <2>3, ReplacedKept DEF ApdusGo
<1> QED
    BY <1>1, <1>2, <1>3, <1>4, <1>5, UnchangedKept DEF ThreadSteps

LEMMA ListenerKept == ASSUME Before, ListenerActions PROVE AllKept
<1>1. queue' = queue \/ queue' = Superseded(queue)
    BY DEF ListenerActions, handle_reg_urc, Disconnected, handle_session_illegal, Posts,
           mifi_status_hdlr, ListenerStep
<1> QED
    BY <1>1, BeforeQueues, SupersededKept, EnoughKept, UnchangedKept DEF Has

LEMMA ServesKept == ASSUME Before, ServeSteps PROVE AllKept
<1>0. Queues /\ at \in Engine /\ queue \in Seq(Nodes)
    BY BeforeQueues DEF Queues
<1>1. ASSUME process_events_0x02 \/ process_events_0x04 PROVE queue' = queue
    BY <1>1, QueueSet DEF process_events_0x02, process_events_0x04
<1>2. ASSUME process_events_0x03 PROVE queue' = queue
    <2>1. (\E f : Goes(at, ChannelNum, f)) \/ Suspends(at, "CIPCLOSE", 2, flags) \/ Leaks
        BY <1>2 DEF process_events_0x03
    <2> QED
        BY <2>1, QueueSet
<1>3. ASSUME process_events_0x00_0x01 PROVE AllKept
    <2> DEFINE s == IF req.kind = "0x00" THEN "APDU" ELSE "STATUS"
    <2>1. \/ \E a, c, f : Enqueues(s, a, c, f)
          \/ Transmits(at, s, queue, ChannelNum, flags, timers)
        BY <1>3 DEF process_events_0x00_0x01
    <2>2. ASSUME NEW a, NEW c, NEW f, Enqueues(s, a, c, f) PROVE AllKept
        <3>1. PICK n \in {s, "OUTDATED"} : queue' = Append(queue, n)
            BY <2>2 DEF Enqueues
        <3>2. n \in Nodes
            BY DEF Nodes, Flows
        <3> QED
            BY <1>0, <3>1, <3>2, AddedKept DEF AllKept
    <2>3. ASSUME Transmits(at, s, queue, ChannelNum, flags, timers) PROVE AllKept
        BY <1>0, <2>3, TransmitsKept, EnoughKept DEF Has
    <2> HIDE DEF s
    <2> QED
        BY <2>1, <2>2, <2>3
<1> QED
    BY <1>1, <1>2, <1>3, UnchangedKept DEF ServeSteps

\* A request of the queue (queue_qlinkdatanode.c) is not lost, whoever handles the queue
\* in between: an ID or a request for USIM data leaves it to be transmitted, and so do
\* APDUs, unless the virtual USIM that they are for is off, replaced or removed.
THEOREM RequestsNotLost == Spec => RequestsKept
<1> DEFINE Step ==
        /\ \A n \in {"ID", "RUIM"} :
              Queued(n)' < Queued(n) => flow' = n /\ at'.acq = "CIPSEND_1"
        /\ Queued("APDU")' < Queued("APDU") =>
              \/ flow' = "APDU" /\ at'.acq = "CIPSEND_1"
              \/ Has("isUimPwrDwn")
              \/ at.acq = "RECVING" /\ flow = "ID"
              \/ flow' = "RUIM"
              \/ Has("del_simdata") /\ ~Has("del_simdata")'
<1>1. ASSUME IInv, IInv', [Next]_vars PROVE [Step]_vars
    <2>1. CASE UNCHANGED vars
        BY <2>1
    <2>2. CASE Next
        <3>0. Before
            BY <1>1, InvariantParts DEF Whole, Before, IInv, TypeOK
        <3>1. ASSUME process_events PROVE AllKept
            BY <3>0, <3>1, UnchangedKept DEF process_events
        <3>2. AllKept
            BY <2>2, <3>0, <3>1, NetKept, ConnKept, XferKept, SuspKept, TimersKept,
               ThreadsKept,
               ListenerKept, ServesKept
            DEF Next, EngineSteps
        <3>3. \A n \in Wanted : /\ Queued(n) = Count(queue, n) /\ Queued(n)' = Count(queue', n)
                                /\ Count(queue, n) \in Nat /\ Count(queue', n) \in Nat
            BY <3>0, BeforeQueues, CountFinite DEF Queued, Count, At, Queues
        <3>4. \A n \in Wanted : Kept(queue, n) /\ Queued(n)' < Queued(n) =>
                                    flow' = n /\ at'.acq = "CIPSEND_1"
            BY <3>3 DEF Kept
        <3> QED
            BY <3>2, <3>4 DEF AllKept, ApdusGo, Wanted, Has
    <2> QED
        BY <1>1, <2>1, <2>2
<1>2. Spec => [][Step]_vars
    <2> HIDE DEF Step
    <2> QED
        BY <1>1, Invariant, PTL DEF Spec
<1> QED
    BY <1>2 DEF RequestsKept
=============================================================================
