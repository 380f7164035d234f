--------------------------- MODULE Traffic_proofs ---------------------------
(***************************************************************************)
(* Proofs about the accounting of the traffic, for any bounds and booking. *)
(* Those that say so assume that nothing happens at a bad moment, which is *)
(* what the passing runs check too.                                        *)
(***************************************************************************)
EXTENDS Traffic, TLAPS

-----------------------------------------------------------------------------
(* What the arithmetic of the code comes to.                               *)

\* 100 percent in whole percents is the whole of what is booked, and no less.
LEMMA OutOfTrafficIsTotal ==
    ASSUME NEW v \in Nat
    PROVE  OutOfTraffic(v) <=> v >= Total
<1> DEFINE q == (100 * v) \div Total
<1>1. Total \in Nat /\ Total > 0
    BY TrafficAssumption
<1>2. q \in Int /\ Total * q <= 100 * v /\ 100 * v < Total * (q + 1)
    BY <1>1
<1> HIDE DEF q
<1>3. ASSUME q >= 100 PROVE v >= Total
    <2>1. Total * 100 <= Total * q
        BY <1>1, <1>2, <1>3
    <2> QED
        BY <1>1, <1>2, <2>1
<1>4. ASSUME q <= 99 PROVE v < Total
    <2>1. Total * (q + 1) <= Total * 100
        BY <1>1, <1>2, <1>4
    <2> QED
        BY <1>1, <1>2, <2>1
<1> QED
    BY <1>1, <1>2, <1>3, <1>4 DEF OutOfTraffic, q

\* The limits are numbers whatever the server sends.
LEMMA BytesNat == \A l \in 1..2 : Bytes(l) \in Nat
<1> SUFFICES ASSUME NEW l \in 1..2 PROVE Bytes(l) \in Nat
    OBVIOUS
<1>1. Data[l] \in Nat /\ Mega \in Nat /\ Width \in Nat \ {0}
    BY TrafficAssumption
<1>2. Data[l] * Mega \in Nat
    BY <1>1
<1> QED
    BY <1>1, <1>2 DEF Bytes

\* A limit that an unsigned int can hold is the limit the server means.
LEMMA BytesFit ==
    ASSUME NEW l \in 1..2, Data[l] * Mega < Width
    PROVE  Bytes(l) = Data[l] * Mega
<1>1. Data[l] \in Nat /\ Mega \in Nat /\ Width \in Nat \ {0}
    BY TrafficAssumption
<1> DEFINE b == Data[l] * Mega
<1>2. b \in Nat /\ b < Width
    BY <1>1
<1> HIDE DEF b
<1>3. b % Width = b
    BY <1>1, <1>2
<1> QED
    BY <1>3 DEF Bytes, b

\* More traffic never asks for a higher speed.
LEMMA LevelRises ==
    /\ \A v \in Nat : Level(v) \in 0..2
    /\ \A v, w \in Nat : v <= w => Level(v) <= Level(w)
    /\ Level(0) = 0
<1>1. Bytes(1) \in Nat /\ Bytes(2) \in Nat
    BY BytesNat
<1> QED
    BY <1>1 DEF Level

-----------------------------------------------------------------------------
(* The inductive invariant, action by action.                              *)

\* Traffic comes: it is one more that is not recorded yet, on both sides of SinceInv.
LEMMA FlowsIInv == ASSUME Hasty = {}, IInv, Flows PROVE IInv'
<1> USE TrafficAssumption DEF IInv, TypeOK, Record, None
<1>1. TypeOK'
    BY DEF Flows
<1>2. PhaseInv'
    BY DEF Flows, Running, PhaseInv, BookMode
<1>3. SinceInv'
    BY DEF Flows, SinceInv, Base
<1>4. DailyInv'
    BY DEF Flows, DailyInv, RecordInDay, BookMode
<1>5. MidnightInv'
    BY DEF Flows, QuietMidnight, MidnightInv, BookMode
<1>6. BookInv'
    BY DEF Flows, Running, BookInv, BookMode
<1>7. CountInv'
    BY DEF Flows, CountInv, BookMode
<1>8. SpeedInv'
    BY LevelRises DEF Flows, SpeedInv, RecordInDay, BookMode
<1> QED
    BY <1>1, <1>2, <1>3, <1>4, <1>5, <1>6, <1>7, <1>8

\* A slot, or a day, passes: the record of today becomes the record of another day.
LEMMA TimePassesIInv == ASSUME Hasty = {}, IInv, TimePasses PROVE IInv'
<1> USE TrafficAssumption DEF IInv, TypeOK, Record, None
<1>1. CASE /\ now.slot < Slots - 1
           /\ now' = [now EXCEPT !.slot = @ + 1, !.ran = FALSE]
           /\ UNCHANGED fresh
    <2>1. now.slot + 1 \in 0..Slots - 1
        BY <1>1
    <2>2. now' \in [day : 0..MaxDay, slot : 0..Slots - 1, ran : BOOLEAN]
        BY <1>1, <2>1
    <2>3. now'.day = now.day /\ now'.slot = now.slot + 1 /\ now'.ran = FALSE
        BY <1>1
    <2> QED
        <3>1. TypeOK'
            BY <1>1, <2>2 DEF TimePasses
        <3>2. PhaseInv' /\ SinceInv' /\ CountInv'
            BY <1>1 DEF TimePasses, Counting, PhaseInv, SinceInv, CountInv, Base, BookMode
        <3>3. DailyInv'
            BY <1>1, <2>3 DEF TimePasses, Running, PhaseInv, DailyInv, RecordInDay, BookMode
        <3>4. MidnightInv'
            BY <1>1, <2>3 DEF TimePasses, MidnightInv, BookMode
        <3>5. BookInv'
            BY <1>1, <2>3 DEF TimePasses, BookInv, Running, BookMode
        <3>6. SpeedInv'
            BY <1>1, <2>3 DEF TimePasses, SpeedInv, RecordInDay, BookMode
        <3> QED
            BY <3>1, <3>2, <3>3, <3>4, <3>5, <3>6
<1>2. CASE /\ now.slot = Slots - 1 /\ now.day < MaxDay
           /\ now' = [day |-> now.day + 1, slot |-> 0, ran |-> FALSE]
           /\ fresh' = (fresh \/ ~BookMode)
           /\ QuietMidnight => unread = 0
           /\ ~BookMode \/ (Running /\ flu.flubcount) \/ "day" \in Hasty
    <2>1. now' \in [day : 0..MaxDay, slot : 0..Slots - 1, ran : BOOLEAN]
        BY <1>2
    <2>2. now'.day = now.day + 1 /\ now'.slot = 0 /\ now'.ran = FALSE
        BY <1>2
    <2> QED
        <3>1. TypeOK'
            BY <1>2, <2>1 DEF TimePasses
        <3>2. PhaseInv' /\ SinceInv' /\ CountInv'
            BY <1>2 DEF TimePasses, Counting, PhaseInv, SinceInv, CountInv, Base, BookMode
        <3>3. DailyInv'
            <4>1. CASE BookMode
                BY <4>1 DEF TimePasses, DailyInv, BookMode
            <4>2. CASE ~BookMode
                <5>1. fresh' /\ UNCHANGED <<disk, due>>
                    BY <1>2, <4>2 DEF TimePasses, BookMode
                <5>2. disk.flu.day \in Int /\ now'.day \in Int /\ disk.flu.day < now'.day
                    BY <2>2, <4>2 DEF DailyInv
                <5>3. ~RecordInDay' /\ disk'.flu.day <= now'.day
                    BY <5>1, <5>2 DEF RecordInDay
                <5> QED
                    BY <2>2, <5>1, <5>3 DEF DailyInv
            <4> QED
                BY <4>1, <4>2
        <3>4. MidnightInv'
            BY <1>2, <2>2 DEF TimePasses, QuietMidnight, MidnightInv, BookMode
        <3>5. BookInv'
            BY <1>2, <2>2 DEF TimePasses, BookInv, Running, BookMode
        <3>6. SpeedInv'
            BY <1>2, <2>2
            DEF TimePasses, Counting, DailyInv, SpeedInv, RecordInDay, BookMode
        <3> QED
            BY <3>1, <3>2, <3>3, <3>4, <3>5, <3>6
<1> QED
    BY <1>1, <1>2 DEF TimePasses

\* A run reads the record: it goes on from what is due, or from nothing on a new day.
LEMMA FluReadsIInv == ASSUME Hasty = {}, IInv, FluReads PROVE IInv'
<1> USE TrafficAssumption DEF IInv, TypeOK, Record, None
<1>1. TypeOK'
    <2>1. RecordOf \in Record \union {None}
        BY DEF RecordOf, Stamped
    <2>2. disk' \in [flu : Record \union {None}, pre : -1..MaxTraffic,
                     user : 0..(2 * MaxTraffic)]
        BY <2>1 DEF FluReads
    <2>3. RecordOf.value \in 0..(2 * MaxTraffic)
        BY DEF RecordOf, Stamped, PhaseInv
    <2>4. flu' \in [answered : BOOLEAN, isBookMode : BOOLEAN, used : 0..MaxTraffic,
                    flubcount : BOOLEAN, recordValue : 0..(2 * MaxTraffic),
                    maxValue_current : 0..(2 * MaxTraffic), net0Value : 0..MaxTraffic,
                    isrunflucommand : [1..2 -> BOOLEAN]]
        <3>1. 0 \in 0..(2 * MaxTraffic) /\ 0 \in 0..MaxTraffic
            OBVIOUS
        <3>2. disk.pre # -1 => disk.pre \in 0..MaxTraffic
            OBVIOUS
        <3>3. [l \in 1..2 |-> FALSE] \in [1..2 -> BOOLEAN]
            OBVIOUS
        <3> QED
            BY <2>3, <3>1, <3>2, <3>3 DEF FluReads
    <2>5. now' \in [day : 0..MaxDay, slot : 0..Slots - 1, ran : BOOLEAN]
        BY DEF FluReads
    <2>6. limit' \in 0..2
        BY DEF FluReads
    <2> QED
        BY <2>2, <2>4, <2>5, <2>6 DEF FluReads
<1>2. PhaseInv'
    BY DEF FluReads, RecordOf, Stamped, PhaseInv, BookMode
<1>3. SinceInv'
    BY DEF FluReads, SinceInv, Base
<1>4. DailyInv'
    BY DEF FluReads, RecordOf, Stamped, DailyInv, RecordInDay, BookMode
<1>5. MidnightInv'
    BY DEF FluReads, MidnightInv, BookMode
<1>6. BookInv'
    BY DEF FluReads, RecordOf, Stamped, BookInv, BookMode, Running
<1>7. CountInv'
    BY DEF FluReads, RecordOf, Stamped, NewDay, PhaseInv, DailyInv, MidnightInv, BookInv,
           CountInv, RecordInDay
<1>8. SpeedInv'
    BY LevelRises DEF FluReads, RecordOf, NewDay, DailyInv, SpeedInv, RecordInDay, BookMode
<1> QED
    BY <1>1, <1>2, <1>3, <1>4, <1>5, <1>6, <1>7, <1>8

\* A run writes the record: what the interface counted since the last run joins it.
LEMMA FluWritesIInv == ASSUME Hasty = {}, IInv, FluWrites PROVE IInv'
<1> USE TrafficAssumption DEF IInv, TypeOK, Record, None
<1>1. TypeOK'
    <2> DEFINE v == flu.recordValue + Since
    <2>1. v \in 0..MaxTraffic
        BY DEF FluWrites, Counting, Since, PhaseInv, SinceInv, Base, CountInv
    <2>2. UserTraffic(v) \in 0..MaxTraffic
        BY <2>1 DEF UserTraffic
    <2>3. Stamped(v) \in Record
        BY <2>1 DEF Stamped
    <2>4. Level(v) \in 0..2
        BY <2>1, LevelRises
    <2> HIDE DEF v
    <2>5. disk' \in [flu : Record \union {None}, pre : -1..MaxTraffic,
                     user : 0..(2 * MaxTraffic)]
        <3>1. UserTraffic(v) \in 0..(2 * MaxTraffic)
            BY <2>2
        <3> QED
            BY <2>3, <3>1 DEF FluWrites, v
    <2>6. flu' \in [answered : BOOLEAN, isBookMode : BOOLEAN, used : 0..MaxTraffic,
                    flubcount : BOOLEAN, recordValue : 0..(2 * MaxTraffic),
                    maxValue_current : 0..(2 * MaxTraffic), net0Value : 0..MaxTraffic,
                    isrunflucommand : [1..2 -> BOOLEAN]]
        <3>1. v \in 0..(2 * MaxTraffic)
            BY <2>1
        <3>2. Level(v) # 0 => Level(v) \in 1..2
            BY <2>4
        <3> QED
            BY <3>1, <3>2 DEF FluWrites, v
    <2>7. limit' \in 0..2
        BY <2>4 DEF FluWrites, v
    <2>8. due' \in 0..MaxTraffic /\ unread' \in 0..MaxTraffic /\ fresh' \in BOOLEAN
        <3>1. due' = (IF fresh THEN unread ELSE due + unread) /\ unread' = 0 /\ fresh' = FALSE
            BY DEF FluWrites
        <3>2. due + unread <= MaxTraffic
            BY DEF SinceInv
        <3>3. due \in Nat /\ unread \in 0..MaxTraffic /\ MaxTraffic \in Nat
            OBVIOUS
        <3>4. due + unread \in 0..MaxTraffic /\ 0 \in 0..MaxTraffic
            BY <3>2, <3>3
        <3> HIDE DEF IInv
        <3> QED
            BY <3>1, <3>3, <3>4
    <2>9. UNCHANGED <<now, interface, left>>
          /\ pc' \in {"select", "counting", "restarting", "counting_restarting", "off", "out"}
        BY DEF FluWrites
    <2> QED
        BY <2>5, <2>6, <2>7, <2>8, <2>9
<1>2. PhaseInv'
    BY DEF FluWrites, Since, Stamped, PhaseInv, BookMode, BookInv
<1>3. SinceInv'
    BY DEF FluWrites, Counting, PhaseInv, SinceInv, Base
<1>4. DailyInv'
    BY DEF FluWrites, Since, Stamped, Counting, PhaseInv, DailyInv, CountInv, RecordInDay,
           SinceInv, Base
<1>5. MidnightInv'
    BY DEF FluWrites, Counting, PhaseInv, MidnightInv, BookMode
<1>6. BookInv'
    BY DEF FluWrites, Since, Stamped, Counting, PhaseInv, BookInv, CountInv, SinceInv, Base
<1>7. CountInv'
    BY DEF FluWrites, Since, Stamped, Counting, PhaseInv, SinceInv, Base, CountInv
<1>8. SpeedInv'
    BY LevelRises
    DEF FluWrites, Since, Stamped, Counting, PhaseInv, SpeedInv, BookMode, SinceInv, Base,
        CountInv
<1> QED
    BY <1>1, <1>2, <1>3, <1>4, <1>5, <1>6, <1>7, <1>8

\* The server answers: booked traffic it has not heard of begins with nothing.
LEMMA IdAnsweredIInv == ASSUME Hasty = {}, IInv, IdAnswered PROVE IInv'
<1> USE TrafficAssumption DEF IInv, TypeOK, Record, None
<1>1. TypeOK'
    <2>1. PICK used \in 0..due :
              /\ disk' = IF used = 0 THEN Begins(BookMode)
                         ELSE [disk EXCEPT !.user = IF used <= @ THEN @ ELSE used]
              /\ flu' = [flu EXCEPT !.answered = TRUE, !.isBookMode = BookMode, !.used = used]
              /\ due' = IF BookMode /\ used = 0 THEN 0 ELSE due
        BY DEF IdAnswered
    <2>2. used \in 0..MaxTraffic /\ BookMode \in BOOLEAN
        BY DEF BookMode
    <2>3. Begins(BookMode) \in [flu : Record \union {None}, pre : -1..MaxTraffic,
                                user : 0..(2 * MaxTraffic)]
        <3>1. 0 \in 0..(2 * MaxTraffic) /\ 0 \in -1..MaxTraffic
            OBVIOUS
        <3>2. Stamped(0) \in Record
            BY <3>1 DEF Stamped
        <3> QED
            BY <3>1, <3>2 DEF Begins
    <2>4. disk' \in [flu : Record \union {None}, pre : -1..MaxTraffic,
                     user : 0..(2 * MaxTraffic)]
        BY <2>1, <2>2, <2>3
    <2> QED
        BY <2>1, <2>2, <2>4 DEF IdAnswered
<1>2. PhaseInv'
    BY DEF IdAnswered, Begins, Running, Stamped, PhaseInv, BookMode
<1>3. SinceInv'
    BY DEF IdAnswered, Begins, SinceInv, Base
<1>4. DailyInv'
    BY DEF IdAnswered, Begins, DailyInv, RecordInDay, BookMode
<1>5. MidnightInv'
    BY DEF IdAnswered, MidnightInv, BookMode
<1>6. BookInv'
    BY DEF IdAnswered, Begins, Stamped, PhaseInv, BookInv, BookMode
<1>7. CountInv'
    BY DEF IdAnswered, Begins, Stamped, CountInv, BookMode
<1>8. SpeedInv'
    BY LevelRises DEF IdAnswered, Begins, SpeedInv, RecordInDay, BookMode
<1> QED
    BY <1>1, <1>2, <1>3, <1>4, <1>5, <1>6, <1>7, <1>8

\* The process is restarted: the count of the interface is handed on in its file.
LEMMA RstMonitorIInv == ASSUME Hasty = {}, IInv, RstMonitor PROVE IInv'
<1> USE TrafficAssumption DEF IInv, TypeOK, Record, None
<1>1. TypeOK'
    BY DEF RstMonitor, Saved
<1>2. PhaseInv'
    BY DEF RstMonitor, Saved, PhaseInv, BookMode
<1>3. SinceInv'
    BY DEF RstMonitor, SinceInv, Base
<1>4. DailyInv'
    BY DEF RstMonitor, Saved, DailyInv, RecordInDay, BookMode
<1>5. MidnightInv'
    BY DEF RstMonitor, MidnightInv, BookMode
<1>6. BookInv'
    BY DEF RstMonitor, Saved, SameDay, BookInv, BookMode, Stamped
<1>7. CountInv'
    BY DEF RstMonitor, Saved, CountInv
<1>8. SpeedInv'
    BY LevelRises DEF RstMonitor, Saved, SpeedInv, RecordInDay, BookMode
<1> QED
    BY <1>1, <1>2, <1>3, <1>4, <1>5, <1>6, <1>7, <1>8

\* The next process begins: what it will find in the files is what was left there.
LEMMA RestartsIInv == ASSUME Hasty = {}, IInv, Restarts PROVE IInv'
<1> USE TrafficAssumption DEF IInv, TypeOK, Record, None
<1>1. TypeOK'
    BY DEF Restarts, NewProcess
<1>2. PhaseInv'
    BY DEF Restarts, NewProcess, PhaseInv
<1>3. SinceInv'
    BY DEF Restarts, NewProcess, Restarting, PhaseInv, SinceInv, Base
<1>4. DailyInv'
    BY DEF Restarts, NewProcess, DailyInv, RecordInDay, BookMode
<1>5. MidnightInv'
    BY DEF Restarts, MidnightInv, BookMode
<1>6. BookInv'
    BY DEF Restarts, Restarting, PhaseInv, BookInv, BookMode, Running
<1>7. CountInv'
    BY DEF Restarts, NewProcess, CountInv
<1>8. SpeedInv'
    BY LevelRises DEF Restarts, NewProcess, SpeedInv, RecordInDay, BookMode
<1> QED
    BY <1>1, <1>2, <1>3, <1>4, <1>5, <1>6, <1>7, <1>8

\* The box is powered off: what was counted is saved, and the interface begins anew.
LEMMA PowerOffIInv == ASSUME Hasty = {}, IInv, PowerOff PROVE IInv'
<1> USE TrafficAssumption DEF IInv, TypeOK, Record, None
<1>1. TypeOK'
    <2>1. PoweredOff \in [flu : Record \union {None}, pre : -1..MaxTraffic,
                          user : 0..(2 * MaxTraffic)]
        <3>1. Stamped(flu.maxValue_current) \in Record /\ 0 \in -1..MaxTraffic
            BY DEF Stamped
        <3> QED
            BY <3>1 DEF PoweredOff
    <2> QED
        BY <2>1 DEF PowerOff, Boots, NewProcess
<1>2. PhaseInv'
    BY DEF PowerOff, Boots, NewProcess, PhaseInv
<1>3. SinceInv'
    BY DEF PowerOff, PoweredOff, Boots, NewProcess, SinceInv, Base
<1>4. DailyInv'
    BY DEF PowerOff, PoweredOff, Stamped, DailyInv, CountInv, RecordInDay, BookMode
<1>5. MidnightInv'
    BY DEF PowerOff, MidnightInv, BookMode
<1>6. BookInv'
    BY DEF PowerOff, PoweredOff, Stamped, Boots, NewProcess, BookInv, CountInv
<1>7. CountInv'
    BY DEF PowerOff, PoweredOff, Stamped, Boots, NewProcess, CountInv
<1>8. SpeedInv'
    BY LevelRises DEF PowerOff, Boots, NewProcess, SpeedInv
<1> QED
    BY <1>1, <1>2, <1>3, <1>4, <1>5, <1>6, <1>7, <1>8

\* The box is switched on.
LEMMA PowerOnIInv == ASSUME Hasty = {}, IInv, PowerOn PROVE IInv'
<1> USE TrafficAssumption DEF IInv, TypeOK, Record, None
<1>1. TypeOK'
    BY DEF PowerOn
<1>2. PhaseInv'
    BY DEF PowerOn, PhaseInv, BookMode, NewProcess
<1>3. SinceInv'
    BY DEF PowerOn, SinceInv, Base
<1>4. DailyInv'
    BY DEF PowerOn, PhaseInv, DailyInv, RecordInDay, BookMode, NewProcess
<1>5. MidnightInv'
    BY DEF PowerOn, MidnightInv, BookMode
<1>6. BookInv'
    BY DEF PowerOn, BookInv, BookMode, Running
<1>7. CountInv'
    BY DEF PowerOn, PhaseInv, CountInv, NewProcess
<1>8. SpeedInv'
    BY LevelRises DEF PowerOn, PhaseInv, SpeedInv, NewProcess
<1> QED
    BY <1>1, <1>2, <1>3, <1>4, <1>5, <1>6, <1>7, <1>8

\* The power fails: the files are as they were, and the interface begins anew.
LEMMA PowerFailsIInv == ASSUME Hasty = {}, IInv, PowerFails PROVE IInv'
<1> USE TrafficAssumption DEF IInv, TypeOK, Record, None
<1>1. TypeOK'
    BY DEF PowerFails, Boots, NewProcess
<1>2. PhaseInv'
    BY DEF PowerFails, Boots, NewProcess, PhaseInv
<1>3. SinceInv'
    BY DEF PowerFails, Boots, NewProcess, SinceInv, Base
<1>4. DailyInv'
    BY DEF PowerFails, DailyInv, RecordInDay, BookMode
<1>5. MidnightInv'
    BY DEF PowerFails, MidnightInv, BookMode
<1>6. BookInv'
    BY DEF PowerFails, Boots, NewProcess, SameDay, BookInv, BookMode, Stamped
<1>7. CountInv'
    BY DEF PowerFails, Boots, NewProcess, CountInv
<1>8. SpeedInv'
    BY LevelRises DEF PowerFails, Boots, NewProcess, SpeedInv
<1> QED
    BY <1>1, <1>2, <1>3, <1>4, <1>5, <1>6, <1>7, <1>8

\* The program starts in a state that satisfies the inductive invariant.
LEMMA InitIInv == Init => IInv
<1> SUFFICES ASSUME Init PROVE IInv
    OBVIOUS
<1> USE TrafficAssumption DEF Init, NewProcess, None
<1>1. TypeOK
    <2>1. flu \in [answered : BOOLEAN, isBookMode : BOOLEAN, used : 0..MaxTraffic,
                   flubcount : BOOLEAN, recordValue : 0..(2 * MaxTraffic),
                   maxValue_current : 0..(2 * MaxTraffic), net0Value : 0..MaxTraffic,
                   isrunflucommand : [1..2 -> BOOLEAN]]
        <3>1. 0 \in 0..MaxTraffic /\ 0 \in 0..(2 * MaxTraffic)
            OBVIOUS
        <3> QED
            BY <3>1
    <2>2. disk \in [flu : Record \union {None}, pre : -1..MaxTraffic,
                    user : 0..(2 * MaxTraffic)]
        OBVIOUS
    <2>3. now \in [day : 0..MaxDay, slot : 0..Slots - 1, ran : BOOLEAN]
        <3>1. {0} \subseteq 0..MaxDay /\ {FALSE} \subseteq BOOLEAN
            OBVIOUS
        <3> QED
            BY <3>1
    <2>4. left \in [restarts : 0..MaxRestarts, offs : 0..MaxOffs, failures : 0..MaxFailures,
                    booked : BookModes]
        OBVIOUS
    <2>5. interface \in 0..MaxTraffic /\ due \in 0..MaxTraffic /\ unread \in 0..MaxTraffic
        OBVIOUS
    <2>6. limit \in 0..2 /\ pc = "select"
        OBVIOUS
    <2>7. fresh \in BOOLEAN
        OBVIOUS
    <2> HIDE DEF Init, NewProcess, None
    <2> QED
        BY <2>1, <2>2, <2>3, <2>4, <2>5, <2>6, <2>7 DEF TypeOK
<1>2. PhaseInv /\ SinceInv
    BY DEF PhaseInv, SinceInv, Base, BookMode
<1>3. DailyInv /\ MidnightInv /\ BookInv
    BY DEF DailyInv, MidnightInv, BookInv
<1>4. CountInv
    BY DEF CountInv
<1>5. SpeedInv
    BY LevelRises DEF SpeedInv, RecordInDay, BookMode
<1> QED
    BY <1>1, <1>2, <1>3, <1>4, <1>5 DEF IInv

\* It holds in every state of a run in which nothing comes at a bad moment.
THEOREM Invariant == Hasty = {} => (Spec => []IInv)
<1> SUFFICES ASSUME Hasty = {} PROVE Spec => []IInv
    OBVIOUS
<1>1. IInv /\ [Next]_vars => IInv'
    <2> SUFFICES ASSUME IInv, [Next]_vars PROVE IInv'
        OBVIOUS
    <2>1. CASE UNCHANGED vars
        BY <2>1
        DEF vars, IInv, TypeOK, PhaseInv, SinceInv, DailyInv, MidnightInv, BookInv,
            CountInv, SpeedInv, Base, RecordInDay, BookMode, Running
    <2> QED
        BY <2>1, FlowsIInv, TimePassesIInv, FluReadsIInv, FluWritesIInv, IdAnsweredIInv,
           RstMonitorIInv, RestartsIInv, PowerOffIInv, PowerOnIInv, PowerFailsIInv DEF Next
<1> QED
    BY InitIInv, <1>1, PTL DEF Spec

-----------------------------------------------------------------------------
(* What it is for.                                                         *)

\* The files and the variables of the thread keep their types; no record runs away.
THEOREM TypeCorrect == Hasty = {} => (Spec => []TypeOK)
<1>1. IInv => TypeOK
    BY DEF IInv
<1> QED
    BY <1>1, Invariant, PTL

\* The record of the day, or of the booked traffic, is exactly what is due.
THEOREM CountedExactly == Hasty = {} => (Spec => []Counted)
<1>1. IInv => Counted
    BY DEF IInv, Counted, PhaseInv, DailyInv, BookInv
<1> QED
    BY <1>1, Invariant, PTL

\* The speed is limited as the server has said, as long as its limits rise and an
\* unsigned int holds them in bytes.
THEOREM SpeedLimited ==
    Hasty = {} /\ Data[1] <= Data[2] /\ Data[2] * Mega < Width => (Spec => []LimitHolds)
<1> SUFFICES ASSUME Hasty = {}, Data[1] <= Data[2], Data[2] * Mega < Width
             PROVE  Spec => []LimitHolds
    OBVIOUS
<1>1. ASSUME IInv PROVE LimitHolds
    <2>1. Data[1] \in Nat /\ Data[2] \in Nat /\ Mega \in Nat \ {0} /\ Width \in Nat
        BY TrafficAssumption
    <2>2. Data[1] * Mega \in Nat /\ Data[2] * Mega \in Nat /\ Data[1] * Mega <= Data[2] * Mega
        BY <2>1
    <2>3. Bytes(1) = Data[1] * Mega /\ Bytes(2) = Data[2] * Mega
        BY <2>1, <2>2, BytesFit
    <2>4. (Bytes(1) = 0 <=> Data[1] = 0) /\ (Bytes(2) = 0 <=> Data[2] = 0)
        BY <2>1, <2>3
    <2>5. due \in Nat
        BY <1>1 DEF IInv, TypeOK
    <2>6. Level(due) = IF 0 \in {Data[1], Data[2]} \/ due < Data[1] * Mega THEN 0
                       ELSE IF due < Data[2] * Mega THEN 1 ELSE 2
        BY <2>2, <2>3, <2>4, <2>5 DEF Level
    <2> QED
        BY <1>1, <2>6 DEF IInv, SpeedInv, LimitHolds
<1> QED
    BY <1>1, Invariant, PTL

\* Booked traffic ends the service in the run that finds it used up, and in no other:
\* the whole percents of the code and what the server knows of make no difference.
THEOREM BookedEnds == Hasty = {} => (Spec => EndsWhenUsedUp)
<1> SUFFICES ASSUME Hasty = {} PROVE Spec => EndsWhenUsedUp
    OBVIOUS
<1>1. ASSUME IInv, [Next]_vars, pc = "counting", pc' \in {"select", "out"}
      PROVE  pc' = "out" <=> flu.isBookMode /\ due' >= Total
    <2> USE <1>1
    <2>1. FluWrites
        BY DEF Next, Flows, TimePasses, FluReads, IdAnswered, RstMonitor, Restarts,
               PowerOff, PowerOn, PowerFails, Restarting, vars
    <2> DEFINE v == flu.recordValue + Since
    <2>2. v \in Nat /\ v = due'
        BY <2>1 DEF FluWrites, IInv, TypeOK, CountInv, SinceInv, Base, Since, PhaseInv
    <2>3. flu.used \in Nat /\ flu.used <= v
        BY <2>1, <2>2 DEF FluWrites, IInv, TypeOK, PhaseInv, BookInv
    <2>4. UserTraffic(v) = v
        BY <2>3 DEF UserTraffic
    <2>5. OutOfTraffic(UserTraffic(v)) <=> v >= Total
        BY <2>2, <2>4, OutOfTrafficIsTotal
    <2>6. pc' = "out" <=> flu.isBookMode /\ OutOfTraffic(UserTraffic(v))
        BY <2>1 DEF FluWrites
    <2> QED
        BY <2>2, <2>5, <2>6
<1>2. IInv /\ [Next]_vars
      => [pc = "counting" /\ pc' \in {"select", "out"} =>
              (pc' = "out" <=> flu.isBookMode /\ due' >= Total)]_vars
    BY <1>1
<1> QED
    BY <1>2, Invariant, PTL DEF Spec, EndsWhenUsedUp

\* The power may go, by the button or not, at any time: what is recorded stays.
THEOREM RecordSurvives == Hasty = {} => (Spec => RecordKept)
<1> SUFFICES ASSUME Hasty = {} PROVE Spec => RecordKept
    OBVIOUS
<1>1. ASSUME IInv, [Next]_vars, pc # "off", disk.flu # None, pc' = "off"
      PROVE  disk'.flu # None /\ disk'.flu.value >= disk.flu.value
    <2> USE <1>1
    <2>1. PowerOff \/ PowerFails
        BY DEF Next, Flows, TimePasses, FluReads, FluWrites, IdAnswered, RstMonitor,
               Restarts, PowerOn, vars
    <2>2. disk.flu.value \in Int
        BY DEF IInv, TypeOK, Record, None
    <2>3. CASE PowerOff
        <3>1. flu.maxValue_current >= disk.flu.value /\ flu.maxValue_current \in Nat
            BY <2>3 DEF PowerOff, IInv, TypeOK, PhaseInv, DailyInv, BookInv, CountInv
        <3>2. disk'.flu = [value |-> flu.maxValue_current, day |-> now.day]
            BY <2>3 DEF PowerOff, PoweredOff, Stamped
        <3> QED
            BY <3>1, <3>2 DEF None
    <2>4. CASE PowerFails
        BY <2>2, <2>4 DEF PowerFails
    <2> QED
        BY <2>1, <2>3, <2>4
<1>2. IInv /\ [Next]_vars
      => [pc # "off" /\ disk.flu # None /\ pc' = "off" =>
              disk'.flu # None /\ disk'.flu.value >= disk.flu.value]_vars
    BY <1>1
<1> QED
    BY <1>2, Invariant, PTL DEF Spec, RecordKept
=============================================================================
