------------------------------ MODULE Traffic ------------------------------
(***************************************************************************)
(* The thread of the status reports as the accountant of the traffic:      *)
(* flu_contrl_process() adds what the interface has counted to the record  *)
(* of the day, in a file, limits the speed, and in book mode ends the      *)
(* service.  The files outlive the process, and the process may be         *)
(* restarted by RstMonitor, powered off by MsgLoop, or lose its power.     *)
(***************************************************************************)
EXTENDS Integers

CONSTANTS
    MaxTraffic,         \* how much traffic there is (a bound)
    MaxDay,             \* the last day (a bound)
    Slots,              \* a slot is the time between two runs of flu_contrl_process()
    FLU_COUNT_VALUE,    \* how many of them begin a new day
    MaxRestarts, MaxOffs, MaxFailures,      \* how often the process ends (bounds)
    BookModes,          \* whether the server may answer that the traffic is booked
    Total,              \* what is booked
    Data,               \* the two limits of the server, in megabytes
    Mega, Width,        \* a megabyte, and how many values an unsigned int has
    Hasty               \* what may happen at a bad moment

ASSUME TrafficAssumption ==
    /\ {MaxTraffic, MaxDay, MaxRestarts, MaxOffs, MaxFailures} \subseteq Nat
    /\ Slots \in Nat \ {0} /\ FLU_COUNT_VALUE \in 1..Slots
    /\ BookModes \subseteq BOOLEAN /\ Total \in Nat \ {0}
    /\ Data \in [1..2 -> Nat] /\ Mega \in Nat \ {0} /\ Width \in Nat \ {0}
    /\ Hasty \subseteq {"restart", "power_off", "power_failure", "answer", "traffic", "day",
                       "midnight"}

VARIABLES
    now,            \* the day, the slot, and whether the thread has had its run in it
    interface,      \* what the network interface has counted
    disk,           \* the files
    flu,            \* the variables of the thread
    limit,          \* the limit of the speed that is set in the kernel
    pc,             \* what the thread is doing, or that the process is not running
    left,           \* the restarts, power-offs and failures that may still come, and
                    \* whether the server answers that the traffic is booked
    due, unread, fresh      \* history: what the record should be, what is not in it
                            \* yet, and whether it is to begin with a new day

vars == <<now, interface, disk, flu, limit, pc, left, due, unread, fresh>>

BookMode == left.booked

Record == [value : 0..(2 * MaxTraffic), day : 0..MaxDay]
None == [value |-> -1, day |-> 0]

TypeOK ==
    /\ now \in [day : 0..MaxDay, slot : 0..Slots - 1, ran : BOOLEAN]
    /\ interface \in 0..MaxTraffic
    /\ disk \in [flu : Record \union {None}, pre : -1..MaxTraffic,
                 user : 0..(2 * MaxTraffic)]
    /\ flu \in [answered : BOOLEAN, isBookMode : BOOLEAN, used : 0..MaxTraffic,
                flubcount : BOOLEAN, recordValue : 0..(2 * MaxTraffic),
                maxValue_current : 0..(2 * MaxTraffic), net0Value : 0..MaxTraffic,
                isrunflucommand : [1..2 -> BOOLEAN]]
    /\ limit \in 0..2
    /\ pc \in {"select", "counting", "restarting", "counting_restarting", "off", "out"}
    /\ left \in [restarts : 0..MaxRestarts, offs : 0..MaxOffs, failures : 0..MaxFailures,
                 booked : BookModes]
    /\ due \in 0..MaxTraffic /\ unread \in 0..MaxTraffic /\ fresh \in BOOLEAN

NewProcess ==
    [answered |-> FALSE, isBookMode |-> FALSE, used |-> 0, flubcount |-> FALSE,
     recordValue |-> 0, maxValue_current |-> 0, net0Value |-> 0,
     isrunflucommand |-> [l \in 1..2 |-> FALSE]]

Init ==
    /\ now \in [day : {0}, slot : 0..Slots - 1, ran : {FALSE}]
    /\ interface = 0
    /\ disk = [flu |-> None, pre |-> -1, user |-> 0]
    /\ flu = NewProcess
    /\ limit = 0 /\ pc = "select"
    /\ left \in [restarts : {MaxRestarts}, offs : {MaxOffs}, failures : {MaxFailures},
                 booked : BookModes]
    /\ due = 0 /\ unread = 0 /\ fresh = FALSE

Stamped(v) == [value |-> v, day |-> now.day]

Counting == pc \in {"counting", "counting_restarting"}
Restarting == pc \in {"restarting", "counting_restarting"}
Running == pc \in {"select", "counting"}

\* The process does not begin on another day than that of the record.
SameDay == ~BookMode \/ disk.flu \in {None, Stamped(disk.flu.value)} \/ "day" \in Hasty

\* The day does not begin with traffic: what its first runs record, the last of them
\* throws away.
QuietMidnight == ~BookMode /\ "midnight" \notin Hasty

Flows ==
    /\ QuietMidnight => now.slot >= FLU_COUNT_VALUE - 1
    /\ Running /\ due + unread < MaxTraffic /\ interface < MaxTraffic
    /\ \/ interface + 1 # (IF flu.flubcount THEN flu.net0Value ELSE disk.pre)
       \/ "traffic" \in Hasty
    /\ interface' = interface + 1 /\ unread' = unread + 1
    /\ UNCHANGED <<now, disk, flu, limit, pc, left, due, fresh>>

\* The thread has its run in every slot, once the server and the time are known.
TimePasses ==
    /\ ~Counting
    /\ now.ran \/ ~flu.answered \/ ~Running
    /\ \/ /\ now.slot < Slots - 1
          /\ now' = [now EXCEPT !.slot = @ + 1, !.ran = FALSE]
          /\ UNCHANGED fresh
       \/ /\ now.slot = Slots - 1 /\ now.day < MaxDay
          /\ QuietMidnight => unread = 0
          /\ ~BookMode \/ (Running /\ flu.flubcount) \/ "day" \in Hasty
          /\ now' = [day |-> now.day + 1, slot |-> 0, ran |-> FALSE]
          /\ fresh' = (fresh \/ ~BookMode)
    /\ UNCHANGED <<interface, disk, flu, limit, pc, left, due, unread>>

-----------------------------------------------------------------------------
(* flu_contrl_process().                                                   *)

\* Mutant: yesterday's record is not dropped.
RecordOf_yesterday == IF disk.flu = None THEN Stamped(0) ELSE disk.flu

\* The first time, the record of another day is replaced, whatever the mode.
RecordOf ==
    IF ~flu.flubcount /\ (disk.flu = None \/ disk.flu.day # now.day)
    THEN Stamped(0) ELSE disk.flu

NewDay == now.slot < FLU_COUNT_VALUE

FluReads ==
    /\ pc = "select" \/ (pc = "restarting" /\ "restart" \in Hasty)
    /\ flu.answered /\ ~now.ran
    /\ pc' = IF pc = "select" THEN "counting" ELSE "counting_restarting"
    /\ now' = [now EXCEPT !.ran = TRUE]
    /\ disk' = [disk EXCEPT !.flu = RecordOf]
    /\ LET starts == ~flu.flubcount /\ disk.flu # None /\ disk.flu.day # now.day
           clean == starts \/ NewDay
       IN
       /\ flu' = [flu EXCEPT
                    !.flubcount = TRUE,
                    !.net0Value = IF flu.flubcount THEN @
                                  ELSE IF disk.pre = -1 THEN 0 ELSE disk.pre,
                    !.recordValue = IF NewDay /\ ~flu.isBookMode THEN 0 ELSE RecordOf.value,
                    !.isrunflucommand = IF clean THEN [l \in 1..2 |-> FALSE] ELSE @]
       /\ limit' = IF clean THEN 0 ELSE limit
    /\ UNCHANGED <<interface, left, due, unread, fresh>>

\* Mutant: an interface that begins anew is not expected.
Since_ever == interface - flu.net0Value

\* What the interface has counted since the last time, or since it was reset.
Since == IF interface < flu.net0Value THEN interface ELSE interface - flu.net0Value

\* The limits in bytes.
Bytes(l) == (Data[l] * Mega) % Width

\* Mutant: the second limit counts only above it.
Level_above(v) ==
    IF Bytes(1) = 0 \/ Bytes(2) = 0 \/ v < Bytes(1) THEN 0
    ELSE IF v <= Bytes(2) THEN 1 ELSE 2

Level(v) ==
    IF Bytes(1) = 0 \/ Bytes(2) = 0 THEN 0
    ELSE IF v >= Bytes(1) /\ v < Bytes(2) THEN 1
    ELSE IF v >= Bytes(2) THEN 2 ELSE 0

\* 100 percent.
OutOfTraffic(v) == (100 * v) \div Total >= 100

\* Mutant: what the server knows of is added.
UserTraffic_sum(v) == v + flu.used

\* reportTrafficStatusProcess(): the server may know of more than the box.
UserTraffic(v) == IF flu.used <= v THEN v ELSE flu.used

FluWrites ==
    /\ Counting
    /\ LET v == flu.recordValue + Since
           user == UserTraffic(v)
           out == flu.isBookMode /\ OutOfTraffic(user)
           l == Level(v)
           sets == ~out /\ l # 0 /\ ~flu.isrunflucommand[l]
       IN
       /\ disk' = [disk EXCEPT !.flu = Stamped(v),
                               !.user = IF flu.isBookMode THEN user ELSE @]
       /\ flu' = [flu EXCEPT !.net0Value = interface, !.maxValue_current = v,
                             !.isrunflucommand = IF sets THEN [@ EXCEPT ![l] = TRUE] ELSE @]
       /\ limit' = IF sets THEN l ELSE limit
       /\ pc' = IF pc = "counting_restarting" THEN "restarting"
                ELSE IF out THEN "out" ELSE "select"
    /\ due' = IF fresh THEN unread ELSE due + unread
    /\ unread' = 0 /\ fresh' = FALSE
    /\ UNCHANGED <<now, interface, left>>

-----------------------------------------------------------------------------
(* The answer of the server to the ID, which EvtLoop handles.              *)

\* Booked traffic that the server has not heard of yet begins with nothing.
Begins(book) == [disk EXCEPT !.user = 0, !.flu = IF book THEN Stamped(0) ELSE @,
                             !.pre = IF book THEN 0 ELSE @]

\* The server answers again whenever it is asked again; it may sell more traffic.
IdAnswered ==
    /\ Running
    /\ \E used \in 0..due :
          /\ ~BookMode => used = 0
          /\ IF used = 0 /\ BookMode
             THEN (pc = "select" /\ (flu.flubcount \/ interface = unread)) \/ "answer" \in Hasty
             ELSE ~flu.answered
          /\ disk' = IF used = 0 THEN Begins(BookMode)
                     ELSE [disk EXCEPT !.user = IF used <= @ THEN @ ELSE used]
          /\ flu' = [flu EXCEPT !.answered = TRUE, !.isBookMode = BookMode, !.used = used]
          /\ due' = IF BookMode /\ used = 0 THEN 0 ELSE due
    /\ UNCHANGED <<now, interface, limit, pc, left, unread, fresh>>

-----------------------------------------------------------------------------
(* The end of the process.                                                 *)

Boots == interface' = 0 /\ limit' = 0 /\ flu' = NewProcess

\* What was counted of the interface, for the next process.
Saved == [disk EXCEPT !.pre = flu.net0Value]

\* RstMonitor restarts the process, not the box: this thread is not cancelled.
RstMonitor ==
    /\ Running /\ left.restarts > 0 /\ SameDay
    /\ (pc = "select" /\ flu.flubcount /\ now.ran) \/ "restart" \in Hasty
    /\ disk' = Saved
    /\ left' = [left EXCEPT !.restarts = @ - 1]
    /\ pc' = IF pc = "select" THEN "restarting" ELSE "counting_restarting"
    /\ UNCHANGED <<now, interface, flu, limit, due, unread, fresh>>

Restarts ==
    /\ Restarting
    /\ pc' = "select" /\ flu' = NewProcess
    /\ UNCHANGED <<now, interface, disk, limit, left, due, unread, fresh>>

\* Mutant: what was read of the record is saved, without what was counted since.
PoweredOff_read == [disk EXCEPT !.flu = Stamped(flu.recordValue), !.pre = 0]

\* MsgLoop saves what was counted, and that the interface begins anew.
PoweredOff == [disk EXCEPT !.flu = Stamped(flu.maxValue_current), !.pre = 0]

PowerOff ==
    /\ Running /\ left.offs > 0 /\ SameDay
    /\ (pc = "select" /\ flu.flubcount /\ ~fresh) \/ "power_off" \in Hasty
    /\ disk' = PoweredOff
    /\ left' = [left EXCEPT !.offs = @ - 1]
    /\ pc' = "off" /\ unread' = 0
    /\ Boots
    /\ UNCHANGED <<now, due, fresh>>

PowerOn ==
    /\ pc = "off" /\ pc' = "select"
    /\ UNCHANGED <<now, interface, disk, flu, limit, left, due, unread, fresh>>

\* The power fails: a file that is being written is empty afterwards.
PowerFails ==
    /\ Running /\ left.failures > 0 /\ SameDay
    /\ left' = [left EXCEPT !.failures = @ - 1]
    /\ disk' \in {disk} \union IF Counting /\ "power_failure" \in Hasty THEN {[disk EXCEPT !.flu = None]} ELSE {}
    /\ pc' = "off" /\ unread' = 0
    /\ Boots
    /\ UNCHANGED <<now, due, fresh>>

-----------------------------------------------------------------------------
Next ==
    \/ Flows \/ TimePasses
    \/ FluReads \/ FluWrites \/ IdAnswered
    \/ RstMonitor \/ Restarts
    \/ PowerOff \/ PowerOn \/ PowerFails

Spec == Init /\ [][Next]_vars

-----------------------------------------------------------------------------
(* Properties.                                                             *)

\* After every run the record is the traffic of the day, or, of booked traffic, all
\* of it: nothing twice, nothing forgotten but what came after the last run before
\* the power went.
Counted == pc = "select" /\ flu.flubcount /\ ~fresh => disk.flu.value = due

\* After every run the speed is limited as the server has said of the traffic of the
\* day.  (After another booking the limit of the one before it stays.)
LimitHolds ==
    ~BookMode /\ pc = "select" /\ flu.flubcount /\ ~fresh =>
        limit = IF 0 \in {Data[1], Data[2]} \/ due < Data[1] * Mega THEN 0
                ELSE IF due < Data[2] * Mega THEN 1 ELSE 2

\* Booked traffic ends in the run that finds it used up, and in no other.
EndsWhenUsedUp ==
    [][pc = "counting" /\ pc' \in {"select", "out"} =>
          (pc' = "out" <=> flu.isBookMode /\ due' >= Total)]_vars

\* What was recorded of a day is not lost with the power, but for what came since.
RecordKept ==
    [][pc # "off" /\ disk.flu # None /\ pc' = "off" => disk'.flu # None /\ disk'.flu.value >= disk.flu.value]_vars

-----------------------------------------------------------------------------
(* The inductive invariant, for Hasty = {}.                                *)

\* What is known of the process: which phase goes with which variables.
PhaseInv ==
    /\ pc # "counting_restarting"
    /\ flu.isBookMode <=> flu.answered /\ BookMode
    /\ ~BookMode => flu.used = 0
    /\ flu.flubcount => flu.answered /\ disk.flu # None
    /\ pc = "counting" => flu.flubcount /\ now.ran
    /\ pc = "restarting" => flu.flubcount /\ disk.pre = flu.net0Value
    /\ pc = "off" => flu = NewProcess /\ interface = 0 /\ unread = 0 /\ limit = 0
    /\ flu.used <= due

\* What the counter of the interface stood at when it was last recorded.
Base ==
    IF flu.flubcount THEN flu.net0Value
    ELSE IF disk.pre = -1 THEN 0 ELSE disk.pre

\* What is not recorded yet is what the interface counted since.
SinceInv ==
    /\ unread = IF interface < Base THEN interface ELSE interface - Base
    /\ due + unread <= MaxTraffic

\* A record of today.
RecordInDay == disk.flu # None /\ disk.flu.day = now.day

\* The record without booked traffic: it is due in full, or, until the first run of
\* the day, of another day or empty.
DailyInv ==
    ~BookMode =>
        /\ disk.flu.day <= now.day
        /\ fresh /\ RecordInDay => disk.flu.value = 0
        /\ fresh /\ flu.flubcount /\ pc = "select" => now.slot = 0 /\ ~now.ran
        /\ ~fresh => (RecordInDay /\ disk.flu.value = due) \/ (disk.flu = None /\ due = 0)

\* No traffic of the day is recorded, or to be recorded, that its first runs drop.
MidnightInv ==
    ~BookMode =>
        /\ now.slot < FLU_COUNT_VALUE - 1 => unread = 0
        /\ now.slot < FLU_COUNT_VALUE - 1 \/ (now.slot = FLU_COUNT_VALUE - 1 /\ ~now.ran)
               => fresh \/ due = 0

\* The record of booked traffic: it is due in full as soon as the server has answered.
BookInv ==
    BookMode =>
        /\ ~fresh
        /\ flu.answered \/ due # 0 =>
               (disk.flu = None /\ due = 0) \/ (disk.flu # None /\ disk.flu.value = due)
        /\ disk.flu # None => disk.flu.day = now.day \/ (Running /\ flu.flubcount)

\* What the run has read of the record, and what it leaves for the power-off.
CountInv ==
    /\ pc = "counting" => flu.recordValue = IF fresh THEN 0 ELSE due
    /\ pc = "select" /\ flu.flubcount /\ ~fresh =>
           flu.maxValue_current = due \/ (BookMode /\ due = 0)
    /\ flu.recordValue <= MaxTraffic /\ flu.maxValue_current <= MaxTraffic
    /\ disk.flu.value <= MaxTraffic

\* The limit that is set is no more than the traffic of the day asks for, and after a
\* run what it asks for.
SpeedInv ==
    ~BookMode =>
        /\ disk.flu = None => limit = 0
        /\ fresh /\ (pc = "counting" \/ RecordInDay) => limit = 0
        /\ ~fresh => limit <= Level(due)
        /\ pc = "select" /\ flu.flubcount /\ ~fresh => limit = Level(due)
        /\ \A l \in 1..2 : flu.isrunflucommand[l] => l <= limit

IInv ==
    /\ TypeOK /\ PhaseInv /\ SinceInv /\ DailyInv /\ MidnightInv /\ BookInv
    /\ CountInv /\ SpeedInv
=============================================================================
