-------------------------- MODULE UsimReset_proofs --------------------------
(***************************************************************************)
(* Proofs about the reset of the virtual USIM, however often it is reset.  *)
(***************************************************************************)
EXTENDS UsimReset, TLAPS

-----------------------------------------------------------------------------
(* The reports that Listener has not read.                                 *)

\* What is left of a sequence without its first element.
LEMMA TailOf ==
    ASSUME NEW S, NEW s \in Seq(S), s # <<>>
    PROVE  /\ Len(s) \in Nat \ {0} /\ Head(s) = s[1]
           /\ Len(Tail(s)) = Len(s) - 1
           /\ \A i \in 1..(Len(s) - 1) : Tail(s)[i] = s[i + 1]
OBVIOUS

\* A new report is the last one.
LEMMA ListedAppended ==
    ASSUME urcs \in Seq(Urcs), NEW v \in Urcs, urcs' = Append(urcs, v), NEW u
    PROVE  Listed(u)' <=> Listed(u) \/ u = v
<1>1. Len(urcs') = Len(urcs) + 1 /\ urcs'[Len(urcs) + 1] = v
      /\ \A i \in 1..Len(urcs) : urcs'[i] = urcs[i]
    OBVIOUS
<1>2. DOMAIN urcs = 1..Len(urcs) /\ DOMAIN urcs' = 1..(Len(urcs) + 1) /\ Len(urcs) \in Nat
    OBVIOUS
<1> QED
    BY <1>1, <1>2 DEF Listed

\* The first report is read, and the others are left.
LEMMA ListedRead ==
    ASSUME urcs \in Seq(Urcs), urcs # <<>>, urcs' = Tail(urcs), NEW u
    PROVE  /\ Listed(Head(urcs))
           /\ Listed(u)' => Listed(u)
           /\ Listed(u) => Listed(u)' \/ u = Head(urcs)
<1>1. DOMAIN urcs = 1..Len(urcs) /\ Len(urcs) \in Nat \ {0} /\ Head(urcs) = urcs[1]
    OBVIOUS
<1>2. DOMAIN urcs' = 1..(Len(urcs) - 1)
      /\ \A i \in 1..(Len(urcs) - 1) : urcs'[i] = urcs[i + 1]
    OBVIOUS
<1>3. \A i \in 2..Len(urcs) : i - 1 \in 1..(Len(urcs) - 1) /\ urcs'[i - 1] = urcs[i]
    BY <1>1, <1>2
<1>4. Listed(Head(urcs))
    BY <1>1 DEF Listed
<1>5. ASSUME Listed(u)' PROVE Listed(u)
    <2>1. PICK i \in 1..(Len(urcs) - 1) : urcs'[i] = u
        BY <1>2, <1>5 DEF Listed
    <2> QED
        BY <1>1, <1>2, <2>1 DEF Listed
<1>6. ASSUME Listed(u), u # Head(urcs) PROVE Listed(u)'
    <2>1. PICK i \in 1..Len(urcs) : urcs[i] = u
        BY <1>1, <1>6 DEF Listed
    <2>2. i \in 2..Len(urcs) /\ urcs'[i - 1] = u /\ i - 1 \in DOMAIN urcs'
        BY <1>1, <1>2, <1>3, <1>6, <2>1
    <2> QED
        BY <2>2 DEF Listed
<1> QED
    BY <1>4, <1>5, <1>6

-----------------------------------------------------------------------------
(* The inductive invariant, part by part.                                  *)

\* What is left of the case is still a case, and with the same bad moments.
LEMMA HappensLeft ==
    ASSUME ShapeInv, NEW c \in {"illegal", "other", "timeouts"}, Happens(c)
    PROVE  /\ left' \in [illegal : Nat, other : Nat, timeouts : Nat, poor : BOOLEAN,
                        hasty : SUBSET Hastes]
           /\ left'.hasty = left.hasty
<1>1. left[c] \in Nat /\ left[c] > 0
    BY DEF ShapeInv, Happens
<1>2. left[c] - 1 \in Nat
    BY <1>1
<1>3. left' = [left EXCEPT ![c] = left[c] - 1]
    BY DEF Happens
<1>4. CASE c = "illegal"
    BY <1>2, <1>3, <1>4 DEF ShapeInv
<1>5. CASE c = "other"
    BY <1>2, <1>3, <1>5 DEF ShapeInv
<1>6. CASE c = "timeouts"
    BY <1>2, <1>3, <1>6 DEF ShapeInv
<1> QED
    BY <1>4, <1>5, <1>6

\* A thread is asked for something once more, or takes what it is asked.
LEMMA PipesType ==
    ASSUME TypeOK, NEW t \in {"UimSender", "Sender", "Listener"}, Asks(t) \/ Takes(t)
    PROVE  pipes' \in [{"UimSender", "Sender", "Listener"} -> Nat]
<1>1. pipes[t] \in Nat /\ pipes[t] + 1 \in Nat /\ (pipes[t] > 0 => pipes[t] - 1 \in Nat)
    BY DEF TypeOK
<1> QED
    BY <1>1 DEF TypeOK, Asks, Takes

\* One thread moves, and the others stay.
LEMMA GoesTo ==
    ASSUME ShapeInv, NEW t \in Threads, NEW l, Goes(t, l)
    PROVE  /\ pc' = [u \in Threads |-> pc'[u]]
           /\ \A u \in Threads : pc'[u] = IF u = t THEN l ELSE pc[u]
BY DEF ShapeInv, Goes

\* What may happen at a bad moment does not change.
LEMMA SparedStays ==
    ASSUME ShapeInv, [Next]_vars
    PROVE  \A hs : Spared(hs)' <=> Spared(hs)
<1> SUFFICES left'.hasty = left.hasty
    BY DEF Spared
<1>1. CASE PowersDown
    BY <1>1 DEF PowersDown
<1>2. CASE Reports
    BY HappensLeft, <1>2 DEF Reports
<1>3. CASE ApduTimesOut
    BY HappensLeft, <1>3 DEF ApduTimesOut
<1>4. CASE Connected
    BY <1>4 DEF Connected
<1>5. CASE IdAnswered
    BY <1>5 DEF AllRead, IdAnswered
<1>6. CASE ListenerReads
    BY <1>6 DEF ListenerReads
<1>7. CASE MarksPoweredDown
    BY <1>7 DEF MarksPoweredDown
<1>8. CASE Checked
    BY <1>8 DEF Checked
<1>9. CASE LooksAtChannel
    BY <1>9 DEF LooksAtChannel
<1>10. CASE Serves
    BY <1>10 DEF Serves
<1>11. CASE Tests("EvtLoop", "after")
    BY <1>11 DEF Tests
<1>12. CASE Tests("Listener", "wait")
    BY <1>12 DEF Tests
<1>13. CASE Sets("EvtLoop")
    BY <1>13 DEF Sets
<1>14. CASE Sets("Listener")
    BY <1>14 DEF Sets
<1>15. CASE Completes("EvtLoop")
    BY <1>15 DEF Completes
<1>16. CASE Completes("Listener")
    BY <1>16 DEF Completes
<1>17. CASE AfterTimeout
    BY <1>17 DEF AfterTimeout
<1>18. CASE Uploads
    BY <1>18 DEF Uploads
<1>19. CASE Uploaded
    BY <1>19 DEF Uploaded
<1>20. CASE Recovered
    BY <1>20 DEF Recovered
<1>21. CASE SetsOnline
    BY <1>21 DEF SetsOnline
<1>22. CASE power_up_virtual_usim
    BY <1>22 DEF power_up_virtual_usim
<1>23. CASE PoweredUp
    BY <1>23 DEF PoweredUp
<1>24. CASE UimSenderReads
    BY <1>24 DEF UimSenderReads
<1>25. CASE Arms
    BY <1>25 DEF Arms
<1>26. CASE UimSenderCompletes
    BY <1>26 DEF UimSenderCompletes
<1>27. CASE SenderReads
    BY <1>27 DEF SenderReads
<1>28. CASE do_uim_power_up
    BY <1>28 DEF do_uim_power_up
<1>29. CASE Disarms
    BY <1>29 DEF Disarms
<1>30. CASE Online
    BY <1>30 DEF Online
<1>31. CASE MonitorReads
    BY <1>31 DEF MonitorReads
<1>32. CASE TimesOut
    BY <1>32 DEF TimesOut
<1>33. CASE UNCHANGED vars
    BY <1>33 DEF vars
<1> QED
    BY <1>1, <1>2, <1>3, <1>4, <1>5, <1>6, <1>7, <1>8, <1>9, <1>10, <1>11, <1>12, <1>13,
       <1>14, <1>15, <1>16, <1>17, <1>18, <1>19, <1>20, <1>21, <1>22, <1>23, <1>24, <1>25,
       <1>26, <1>27, <1>28, <1>29, <1>30, <1>31, <1>32, <1>33
    DEF Next, ListenerSteps, EvtLoopSteps, UimSenderSteps, SenderSteps

\* The variables keep their types.
LEMMA NextTypeOK == ASSUME TypeOK, ShapeInv, [Next]_vars PROVE TypeOK' /\ ShapeInv'
<1> USE DEF Has, May, At, Goes, Asks, Takes, Locks, Unlocks, Happens, Threads
<1>1. CASE PowersDown
    BY <1>1 DEF TypeOK, ShapeInv, Urcs, PowersDown
<1>2. CASE Reports
    <2>1. \E v \in Urcs : urcs' = Append(urcs, v)
        BY <1>2 DEF Reports, Urcs
    <2>3. urcs' \in Seq(Urcs)
        BY <2>1 DEF TypeOK
    <2>2. left' \in [illegal : Nat, other : Nat, timeouts : Nat, poor : BOOLEAN,
                     hasty : SUBSET Hastes]
        BY <1>2, HappensLeft DEF Reports
    <2> QED
        BY <1>2, <2>2, <2>3 DEF Reports, TypeOK, ShapeInv
<1>3. CASE ApduTimesOut
    BY HappensLeft, <1>3 DEF TypeOK, ShapeInv, ApduTimesOut
<1>4. CASE Connected
    BY <1>4 DEF TypeOK, ShapeInv, Connected
<1>5. CASE IdAnswered
    BY <1>5 DEF TypeOK, ShapeInv, IdAnswered
<1>6. CASE ListenerReads
    <2>1. urcs' \in Seq(Urcs) /\ urc' \in Urcs
        BY <1>6 DEF ListenerReads, TypeOK
    <2>2. flags' \subseteq Flags /\ monitor' \in {"idle", "armed"} \union Ends
        BY <1>6 DEF ListenerReads, TypeOK, Flags, Ends
    <2> QED
        BY <1>6, <2>1, <2>2 DEF ListenerReads, TypeOK, ShapeInv
<1>7. CASE MarksPoweredDown
    BY <1>7 DEF TypeOK, ShapeInv, Flags, MarksPoweredDown
<1>8. CASE Checked
    <2>1. PICK l \in {"test", "ChannelLock", "wait"} : Goes("Listener", l)
        BY <1>8 DEF Checked
    <2>2. /\ pc' = [u \in Threads |-> pc'[u]]
          /\ \A u \in Threads : pc'[u] = IF u = "Listener" THEN l ELSE pc[u]
        BY <2>1, GoesTo
    <2> HIDE DEF Goes
    <2> QED
        BY <1>8, <2>1, <2>2 DEF Checked, TypeOK, ShapeInv
<1>9. CASE LooksAtChannel
    BY <1>9 DEF TypeOK, ShapeInv, LooksAtChannel
<1>10. CASE Serves
    BY <1>10 DEF TypeOK, ShapeInv, Flags, Serves
<1>11. CASE Tests("EvtLoop", "after")
    <2>1. PICK k \in {"after", "set"} : Goes("EvtLoop", k)
        BY <1>11 DEF Tests
    <2>2. /\ pc' = [u \in Threads |-> pc'[u]]
          /\ \A u \in Threads : pc'[u] = IF u = "EvtLoop" THEN k ELSE pc[u]
        BY <2>1, GoesTo
    <2> HIDE DEF Goes
    <2> QED
        BY <1>11, <2>1, <2>2 DEF Tests, TypeOK, ShapeInv
<1>12. CASE Tests("Listener", "wait")
    <2>1. PICK k \in {"wait", "set"} : Goes("Listener", k)
        BY <1>12 DEF Tests
    <2>2. /\ pc' = [u \in Threads |-> pc'[u]]
          /\ \A u \in Threads : pc'[u] = IF u = "Listener" THEN k ELSE pc[u]
        BY <2>1, GoesTo
    <2> HIDE DEF Goes
    <2> QED
        BY <1>12, <2>1, <2>2 DEF Tests, TypeOK, ShapeInv
<1>13. CASE Sets("EvtLoop")
    <2>1. pipes' \in [{"UimSender", "Sender", "Listener"} -> Nat]
        BY <1>13, PipesType DEF Sets
    <2>2. flags' \subseteq Flags
        BY <1>13 DEF Sets, TypeOK, Flags
    <2> HIDE DEF Asks
    <2> QED
        BY <1>13, <2>1, <2>2 DEF Sets, TypeOK, ShapeInv
<1>14. CASE Sets("Listener")
    <2>1. pipes' \in [{"UimSender", "Sender", "Listener"} -> Nat]
        BY <1>14, PipesType DEF Sets
    <2>2. flags' \subseteq Flags
        BY <1>14 DEF Sets, TypeOK, Flags
    <2> HIDE DEF Asks
    <2> QED
        BY <1>14, <2>1, <2>2 DEF Sets, TypeOK, ShapeInv
<1>15. CASE Completes("EvtLoop")
    BY <1>15 DEF TypeOK, ShapeInv, Completes
<1>16. CASE Completes("Listener")
    BY <1>16 DEF TypeOK, ShapeInv, Completes
<1>17. CASE AfterTimeout
    BY <1>17 DEF TypeOK, ShapeInv, Flags, AfterTimeout
<1>18. CASE Uploads
    <2>1. pipes' \in [{"UimSender", "Sender", "Listener"} -> Nat]
        BY <1>18, PipesType DEF Uploads, TypeOK
    <2>2. lock' \in [{"ChannelLock", "pd_mtx"} -> {"free", "EvtLoop"}]
        BY <1>18 DEF Uploads, TypeOK
    <2> HIDE DEF Asks, Takes, Locks
    <2> QED
        BY <1>18, <2>1, <2>2 DEF Uploads, TypeOK, ShapeInv
<1>19. CASE Uploaded
    <2>1. lock' \in [{"ChannelLock", "pd_mtx"} -> {"free", "EvtLoop"}]
        BY <1>19 DEF Uploaded, TypeOK
    <2>2. flags' \subseteq Flags /\ server' \in {"no", "connecting", "asked"}
        BY <1>19 DEF Uploaded, TypeOK
    <2> HIDE DEF Unlocks
    <2> QED
        BY <1>19, <2>1, <2>2 DEF Uploaded, TypeOK, ShapeInv
<1>20. CASE Recovered
    BY <1>20 DEF TypeOK, ShapeInv, Flags, Urcs, Recovered
<1>21. CASE SetsOnline
    <2>1. pipes' \in [{"UimSender", "Sender", "Listener"} -> Nat]
        BY <1>21, PipesType DEF SetsOnline, TypeOK
    <2>2. lock' \in [{"ChannelLock", "pd_mtx"} -> {"free", "EvtLoop"}]
        BY <1>21 DEF SetsOnline, TypeOK
    <2> HIDE DEF Asks, Takes, Locks
    <2> QED
        BY <1>21, <2>1, <2>2 DEF SetsOnline, TypeOK, ShapeInv
<1>22. CASE power_up_virtual_usim
    <2>1. pipes' \in [{"UimSender", "Sender", "Listener"} -> Nat]
        BY <1>22, PipesType DEF power_up_virtual_usim, TypeOK
    <2>2. lock' \in [{"ChannelLock", "pd_mtx"} -> {"free", "EvtLoop"}]
        BY <1>22 DEF power_up_virtual_usim, TypeOK
    <2> HIDE DEF Asks, Takes, Locks
    <2> QED
        BY <1>22, <2>1, <2>2 DEF power_up_virtual_usim, TypeOK, ShapeInv
<1>23. CASE PoweredUp
    BY <1>23 DEF TypeOK, ShapeInv, PoweredUp
<1>24. CASE UimSenderReads
    <2>1. pipes' \in [{"UimSender", "Sender", "Listener"} -> Nat]
        BY <1>24, PipesType DEF UimSenderReads, TypeOK
    <2>2. lock' \in [{"ChannelLock", "pd_mtx"} -> {"free", "EvtLoop"}]
        BY <1>24 DEF UimSenderReads, TypeOK
    <2> HIDE DEF Asks, Takes, Locks
    <2> QED
        BY <1>24, <2>1, <2>2 DEF UimSenderReads, TypeOK, ShapeInv, Flags
<1>25. CASE Arms
    <2>1. rst_pipe' \in Seq({0, 1})
        BY <1>25 DEF Arms, TypeOK
    <2> QED
        BY <1>25, <2>1 DEF Arms, TypeOK, ShapeInv
<1>26. CASE UimSenderCompletes
    BY <1>26 DEF TypeOK, ShapeInv, Flags, UimSenderCompletes
<1>27. CASE SenderReads
    <2>1. pipes' \in [{"UimSender", "Sender", "Listener"} -> Nat]
        BY <1>27, PipesType DEF SenderReads, TypeOK
    <2>2. lock' \in [{"ChannelLock", "pd_mtx"} -> {"free", "EvtLoop"}]
        BY <1>27 DEF SenderReads, TypeOK
    <2> HIDE DEF Asks, Takes, Locks
    <2> QED
        BY <1>27, <2>1, <2>2 DEF SenderReads, TypeOK, ShapeInv
<1>28. CASE do_uim_power_up
    BY <1>28 DEF TypeOK, ShapeInv, do_uim_power_up
<1>29. CASE Disarms
    <2>1. rst_pipe' \in Seq({0, 1})
        BY <1>29 DEF Disarms, TypeOK
    <2> QED
        BY <1>29, <2>1 DEF Disarms, TypeOK, ShapeInv
<1>30. CASE Online
    BY <1>30 DEF TypeOK, ShapeInv, Flags, Online
<1>31. CASE MonitorReads
    BY <1>31 DEF TypeOK, ShapeInv, MonitorReads
<1>32. CASE TimesOut
    BY <1>32 DEF TypeOK, ShapeInv, Ends, TimesOut
<1>33. CASE UNCHANGED vars
    BY <1>33 DEF TypeOK, ShapeInv, vars
<1> QED
    BY <1>1, <1>2, <1>3, <1>4, <1>5, <1>6, <1>7, <1>8, <1>9, <1>10, <1>11, <1>12, <1>13,
       <1>14, <1>15, <1>16, <1>17, <1>18, <1>19, <1>20, <1>21, <1>22, <1>23, <1>24, <1>25,
       <1>26, <1>27, <1>28, <1>29, <1>30, <1>31, <1>32, <1>33
    DEF Next, ListenerSteps, EvtLoopSteps, UimSenderSteps, SenderSteps

\* Sender powers the USIM up only when EvtLoop asks it to, once for every answer.
LEMMA NextSenderInv ==
    ASSUME TypeOK, ShapeInv, SenderInv, DownInv, Spared({"answered"}), [Next]_vars
    PROVE  SenderInv'
<1> USE DEF Has, May, At, Goes, Asks, Takes, Locks, Unlocks, Happens, Threads
<1>1. CASE PowersDown
    BY <1>1 DEF SenderInv, PoweringUp, PowersDown
<1>2. CASE Reports
    BY <1>2 DEF SenderInv, PoweringUp, ToPowerUp, Reports
<1>3. CASE ApduTimesOut
    BY <1>3 DEF SenderInv, PoweringUp, ToPowerUp, ApduTimesOut
<1>4. CASE Connected
    BY <1>4 DEF SenderInv, PoweringUp, ToPowerUp, ShapeInv, Connected
<1>5. CASE IdAnswered
    BY <1>5
    DEF SenderInv, DownInv, PoweringUp, ToPowerUp, Spared, ShapeInv, AllRead, IdAnswered,
        Listed
<1>6. CASE ListenerReads
    BY <1>6 DEF SenderInv, PoweringUp, ToPowerUp, ListenerReads
<1>7. CASE MarksPoweredDown
    BY <1>7 DEF SenderInv, PoweringUp, ToPowerUp, MarksPoweredDown
<1>8. CASE Checked
    BY <1>8 DEF SenderInv, PoweringUp, ToPowerUp, Checked
<1>9. CASE LooksAtChannel
    BY <1>9 DEF SenderInv, PoweringUp, ToPowerUp, LooksAtChannel
<1>10. CASE Serves
    BY <1>10 DEF SenderInv, PoweringUp, ToPowerUp, Serves
<1>11. CASE Tests("EvtLoop", "after")
    BY <1>11 DEF SenderInv, PoweringUp, ToPowerUp, Tests
<1>12. CASE Tests("Listener", "wait")
    BY <1>12 DEF SenderInv, PoweringUp, ToPowerUp, Tests
<1>13. CASE Sets("EvtLoop")
    BY <1>13 DEF SenderInv, PoweringUp, ToPowerUp, Sets
<1>14. CASE Sets("Listener")
    BY <1>14 DEF SenderInv, PoweringUp, ToPowerUp, Sets
<1>15. CASE Completes("EvtLoop")
    BY <1>15 DEF SenderInv, PoweringUp, ToPowerUp, Completes
<1>16. CASE Completes("Listener")
    BY <1>16 DEF SenderInv, PoweringUp, ToPowerUp, Completes
<1>17. CASE AfterTimeout
    BY <1>17 DEF SenderInv, PoweringUp, ToPowerUp, AfterTimeout
<1>18. CASE Uploads
    BY <1>18 DEF SenderInv, PoweringUp, ToPowerUp, Uploads
<1>19. CASE Uploaded
    BY <1>19 DEF SenderInv, PoweringUp, ToPowerUp, Uploaded
<1>20. CASE Recovered
    BY <1>20 DEF TypeOK, SenderInv, PoweringUp, ToPowerUp, ShapeInv, Recovered
<1>21. CASE SetsOnline
    BY <1>21 DEF SenderInv, SetsOnline
<1>22. CASE power_up_virtual_usim
    BY <1>22 DEF TypeOK, SenderInv, PoweringUp, ToPowerUp, ShapeInv, power_up_virtual_usim
<1>23. CASE PoweredUp
    BY <1>23 DEF SenderInv, PoweringUp, ToPowerUp, ShapeInv, PoweredUp
<1>24. CASE UimSenderReads
    BY <1>24 DEF SenderInv, PoweringUp, ToPowerUp, UimSenderReads
<1>25. CASE Arms
    BY <1>25 DEF SenderInv, PoweringUp, ToPowerUp, Arms
<1>26. CASE UimSenderCompletes
    BY <1>26 DEF SenderInv, PoweringUp, ToPowerUp, UimSenderCompletes
<1>27. CASE SenderReads
    BY <1>27 DEF TypeOK, SenderInv, PoweringUp, ToPowerUp, ShapeInv, SenderReads
<1>28. CASE do_uim_power_up
    BY <1>28 DEF SenderInv, PoweringUp, ToPowerUp, ShapeInv, do_uim_power_up
<1>29. CASE Disarms
    BY <1>29 DEF SenderInv, PoweringUp, ToPowerUp, Disarms
<1>30. CASE Online
    BY <1>30 DEF SenderInv, PoweringUp, ToPowerUp, ShapeInv, Online
<1>31. CASE MonitorReads
    BY <1>31 DEF SenderInv, PoweringUp, ToPowerUp, MonitorReads
<1>32. CASE TimesOut
    BY <1>32 DEF SenderInv, PoweringUp, ToPowerUp, TimesOut
<1>33. CASE UNCHANGED vars
    BY <1>33 DEF SenderInv, PoweringUp, ToPowerUp, vars
<1> QED
    BY <1>1, <1>2, <1>3, <1>4, <1>5, <1>6, <1>7, <1>8, <1>9, <1>10, <1>11, <1>12, <1>13,
       <1>14, <1>15, <1>16, <1>17, <1>18, <1>19, <1>20, <1>21, <1>22, <1>23, <1>24, <1>25,
       <1>26, <1>27, <1>28, <1>29, <1>30, <1>31, <1>32, <1>33
    DEF Next, ListenerSteps, EvtLoopSteps, UimSenderSteps, SenderSteps

\* A USIM that is off is marked so, or the report is under way.
LEMMA NextDownInv ==
    ASSUME TypeOK, ShapeInv, SenderInv, DownInv, Spared({"answered"}), [Next]_vars
    PROVE  DownInv'
<1> USE DEF Has, May, At, Goes, Asks, Takes, Locks, Unlocks, Happens, Threads
<1>0. UNCHANGED urcs => \A u : Listed(u)' <=> Listed(u)
    BY DEF Listed
<1>1. CASE PowersDown
    <2>1. modem.usim = "up" => Listed("NOT_AVAILABLE")'
        BY <1>1, ListedAppended DEF PowersDown, TypeOK, Urcs
    <2> QED
        BY <1>0, <1>1, <2>1 DEF PowersDown, TypeOK, DownInv
<1>2. CASE Reports
    <2>1. PICK v \in {"SESSION_ILLEGAL", "OTHER"} : urcs' = Append(urcs, v)
        BY <1>2 DEF Reports
    <2>2. Listed("NOT_AVAILABLE")' <=> Listed("NOT_AVAILABLE")
        BY <2>1, ListedAppended DEF TypeOK, Urcs
    <2> QED
        BY <1>2, <2>2 DEF Reports, DownInv
<1>3. CASE ApduTimesOut
    BY <1>0, <1>3 DEF DownInv, ApduTimesOut
<1>4. CASE Connected
    BY <1>0, <1>4 DEF DownInv, ShapeInv, Connected
<1>5. CASE IdAnswered
    BY <1>0, <1>5 DEF DownInv, ShapeInv, IdAnswered
<1>6. CASE ListenerReads
    BY <1>0, ListedRead, <1>6 DEF TypeOK, DownInv, ShapeInv, ListenerReads
<1>7. CASE MarksPoweredDown
    BY <1>0, <1>7 DEF SenderInv, DownInv, PoweringUp, MarksPoweredDown
<1>8. CASE Checked
    BY <1>0, <1>8 DEF DownInv, Checked
<1>9. CASE LooksAtChannel
    BY <1>0, <1>9 DEF DownInv, LooksAtChannel
<1>10. CASE Serves
    BY <1>0, <1>10 DEF DownInv, Serves
<1>11. CASE Tests("EvtLoop", "after")
    BY <1>0, <1>11 DEF DownInv, Tests
<1>12. CASE Tests("Listener", "wait")
    BY <1>0, <1>12 DEF DownInv, Tests
<1>13. CASE Sets("EvtLoop")
    BY <1>0, <1>13 DEF TypeOK, DownInv, Sets
<1>14. CASE Sets("Listener")
    BY <1>0, <1>14 DEF TypeOK, DownInv, Sets
<1>15. CASE Completes("EvtLoop")
    BY <1>0, <1>15 DEF DownInv, Completes
<1>16. CASE Completes("Listener")
    BY <1>0, <1>16 DEF DownInv, Completes
<1>17. CASE AfterTimeout
    BY <1>0, <1>17 DEF DownInv, AfterTimeout
<1>18. CASE Uploads
    BY <1>0, <1>18 DEF DownInv, Uploads
<1>19. CASE Uploaded
    BY <1>0, <1>19 DEF DownInv, Uploaded
<1>20. CASE Recovered
    BY <1>0, <1>20 DEF TypeOK, DownInv, ShapeInv, Recovered
<1>21. CASE SetsOnline
    BY <1>0, <1>21 DEF SenderInv, SetsOnline
<1>22. CASE power_up_virtual_usim
    BY <1>0, <1>22 DEF DownInv, power_up_virtual_usim
<1>23. CASE PoweredUp
    BY <1>0, <1>23 DEF DownInv, PoweredUp
<1>24. CASE UimSenderReads
    BY <1>0, <1>24 DEF DownInv, UimSenderReads
<1>25. CASE Arms
    BY <1>0, <1>25 DEF DownInv, Arms
<1>26. CASE UimSenderCompletes
    BY <1>0, <1>26 DEF DownInv, UimSenderCompletes
<1>27. CASE SenderReads
    BY <1>0, <1>27 DEF DownInv, SenderReads
<1>28. CASE do_uim_power_up
    BY <1>0, <1>28 DEF DownInv, ShapeInv, do_uim_power_up
<1>29. CASE Disarms
    BY <1>0, <1>29 DEF DownInv, Disarms
<1>30. CASE Online
    BY <1>0, <1>30 DEF DownInv, Online
<1>31. CASE MonitorReads
    BY <1>0, <1>31 DEF DownInv, MonitorReads
<1>32. CASE TimesOut
    BY <1>0, <1>32 DEF DownInv, TimesOut
<1>33. CASE UNCHANGED vars
    BY <1>0, <1>33 DEF DownInv, vars
<1> QED
    BY <1>1, <1>2, <1>3, <1>4, <1>5, <1>6, <1>7, <1>8, <1>9, <1>10, <1>11, <1>12, <1>13,
       <1>14, <1>15, <1>16, <1>17, <1>18, <1>19, <1>20, <1>21, <1>22, <1>23, <1>24, <1>25,
       <1>26, <1>27, <1>28, <1>29, <1>30, <1>31, <1>32, <1>33
    DEF Next, ListenerSteps, EvtLoopSteps, UimSenderSteps, SenderSteps

\* Listener does not need ChannelLock as long as a power-down is marked.
LEMMA NextMarkInv ==
    ASSUME TypeOK, ShapeInv, SenderInv, MarkInv, Spared({"answered"}), [Next]_vars
    PROVE  MarkInv'
<1> USE DEF Has, May, At, Goes, Asks, Takes, Locks, Unlocks, Happens, Threads
<1>1. CASE PowersDown
    BY <1>1 DEF MarkInv, PowersDown
<1>2. CASE Reports
    BY <1>2 DEF MarkInv, Reports
<1>3. CASE ApduTimesOut
    BY <1>3 DEF MarkInv, ApduTimesOut
<1>4. CASE Connected
    BY <1>4 DEF MarkInv, ShapeInv, Connected
<1>5. CASE IdAnswered
    BY <1>5 DEF MarkInv, ShapeInv, IdAnswered
<1>6. CASE ListenerReads
    BY <1>6 DEF MarkInv, ShapeInv, ListenerReads
<1>7. CASE MarksPoweredDown
    BY <1>7 DEF SenderInv, MarkInv, MarksPoweredDown
<1>8. CASE Checked
    BY <1>8 DEF MarkInv, Checked
<1>9. CASE LooksAtChannel
    BY <1>9 DEF MarkInv, LooksAtChannel
<1>10. CASE Serves
    BY <1>10 DEF MarkInv, Serves
<1>11. CASE Tests("EvtLoop", "after")
    BY <1>11 DEF MarkInv, Tests
<1>12. CASE Tests("Listener", "wait")
    BY <1>12 DEF MarkInv, Tests
<1>13. CASE Sets("EvtLoop")
    BY <1>13 DEF MarkInv, Sets
<1>14. CASE Sets("Listener")
    BY <1>14 DEF MarkInv, Sets
<1>15. CASE Completes("EvtLoop")
    BY <1>15 DEF MarkInv, Completes
<1>16. CASE Completes("Listener")
    BY <1>16 DEF MarkInv, Completes
<1>17. CASE AfterTimeout
    BY <1>17 DEF MarkInv, AfterTimeout
<1>18. CASE Uploads
    BY <1>18 DEF MarkInv, Uploads
<1>19. CASE Uploaded
    BY <1>19 DEF MarkInv, ShapeInv, Uploaded
<1>20. CASE Recovered
    BY <1>20 DEF MarkInv, ShapeInv, Recovered
<1>21. CASE SetsOnline
    BY <1>21 DEF MarkInv, SetsOnline
<1>22. CASE power_up_virtual_usim
    BY <1>22 DEF MarkInv, power_up_virtual_usim
<1>23. CASE PoweredUp
    BY <1>23 DEF MarkInv, PoweredUp
<1>24. CASE UimSenderReads
    BY <1>24 DEF MarkInv, UimSenderReads
<1>25. CASE Arms
    BY <1>25 DEF MarkInv, Arms
<1>26. CASE UimSenderCompletes
    BY <1>26 DEF MarkInv, UimSenderCompletes
<1>27. CASE SenderReads
    BY <1>27 DEF MarkInv, SenderReads
<1>28. CASE do_uim_power_up
    BY <1>28 DEF MarkInv, do_uim_power_up
<1>29. CASE Disarms
    BY <1>29 DEF MarkInv, Disarms
<1>30. CASE Online
    BY <1>30 DEF SenderInv, MarkInv, PoweringUp, Online
<1>31. CASE MonitorReads
    BY <1>31 DEF MarkInv, MonitorReads
<1>32. CASE TimesOut
    BY <1>32 DEF MarkInv, TimesOut
<1>33. CASE UNCHANGED vars
    BY <1>33 DEF MarkInv, vars
<1> QED
    BY <1>1, <1>2, <1>3, <1>4, <1>5, <1>6, <1>7, <1>8, <1>9, <1>10, <1>11, <1>12, <1>13,
       <1>14, <1>15, <1>16, <1>17, <1>18, <1>19, <1>20, <1>21, <1>22, <1>23, <1>24, <1>25,
       <1>26, <1>27, <1>28, <1>29, <1>30, <1>31, <1>32, <1>33
    DEF Next, ListenerSteps, EvtLoopSteps, UimSenderSteps, SenderSteps

\* No report of a power-down is left over when the USIM is powered up.
LEMMA NextStaleInv ==
    ASSUME TypeOK, ShapeInv, SenderInv, StaleInv, Spared({"stale", "answered"}), [Next]_vars
    PROVE  StaleInv'
<1> USE DEF Has, May, At, Goes, Asks, Takes, Locks, Unlocks, Happens, Threads
<1>0. UNCHANGED urcs => \A u : Listed(u)' <=> Listed(u)
    BY DEF Listed
<1>1. CASE PowersDown
    BY <1>0, ListedAppended, <1>1 DEF SenderInv, StaleInv, PoweringUp, ToPowerUp, PowersDown
<1>2. CASE Reports
    <2>1. PICK v \in {"SESSION_ILLEGAL", "OTHER"} : urcs' = Append(urcs, v)
        BY <1>2 DEF Reports
    <2>2. Listed("NOT_AVAILABLE")' <=> Listed("NOT_AVAILABLE")
        BY <2>1, ListedAppended DEF TypeOK, Urcs
    <2> QED
        BY <1>2, <2>2 DEF Reports, StaleInv, ToPowerUp, PoweringUp
<1>3. CASE ApduTimesOut
    BY <1>0, <1>3 DEF StaleInv, PoweringUp, ToPowerUp, ApduTimesOut
<1>4. CASE Connected
    BY <1>0, <1>4 DEF StaleInv, PoweringUp, ToPowerUp, ShapeInv, Connected
<1>5. CASE IdAnswered
    <2>1. ~Listed("NOT_AVAILABLE")
        BY <1>5 DEF IdAnswered, AllRead, Listed, Spared
    <2> QED
        BY <1>0, <1>5, <2>1 DEF StaleInv, PoweringUp, ToPowerUp, ShapeInv, IdAnswered
<1>6. CASE ListenerReads
    BY <1>0, ListedRead, <1>6 DEF TypeOK, StaleInv, PoweringUp, ToPowerUp, ListenerReads
<1>7. CASE MarksPoweredDown
    BY <1>0, <1>7 DEF StaleInv, PoweringUp, ToPowerUp, MarksPoweredDown
<1>8. CASE Checked
    BY <1>0, <1>8 DEF StaleInv, PoweringUp, ToPowerUp, Checked
<1>9. CASE LooksAtChannel
    BY <1>0, <1>9 DEF StaleInv, PoweringUp, ToPowerUp, LooksAtChannel
<1>10. CASE Serves
    BY <1>0, <1>10 DEF StaleInv, PoweringUp, ToPowerUp, Serves
<1>11. CASE Tests("EvtLoop", "after")
    BY <1>0, <1>11 DEF StaleInv, PoweringUp, ToPowerUp, Tests
<1>12. CASE Tests("Listener", "wait")
    BY <1>0, <1>12 DEF StaleInv, PoweringUp, ToPowerUp, Tests
<1>13. CASE Sets("EvtLoop")
    BY <1>0, <1>13 DEF StaleInv, PoweringUp, ToPowerUp, Sets
<1>14. CASE Sets("Listener")
    BY <1>0, <1>14 DEF StaleInv, PoweringUp, ToPowerUp, Sets
<1>15. CASE Completes("EvtLoop")
    BY <1>0, <1>15 DEF StaleInv, PoweringUp, ToPowerUp, Completes
<1>16. CASE Completes("Listener")
    BY <1>0, <1>16 DEF StaleInv, PoweringUp, ToPowerUp, Completes
<1>17. CASE AfterTimeout
    BY <1>0, <1>17 DEF StaleInv, PoweringUp, ToPowerUp, AfterTimeout
<1>18. CASE Uploads
    BY <1>0, <1>18 DEF StaleInv, PoweringUp, ToPowerUp, Uploads
<1>19. CASE Uploaded
    BY <1>0, <1>19 DEF StaleInv, PoweringUp, ToPowerUp, Uploaded
<1>20. CASE Recovered
    BY <1>0, <1>20 DEF StaleInv, PoweringUp, ToPowerUp, ShapeInv, Recovered
<1>21. CASE SetsOnline
    BY <1>0, <1>21 DEF StaleInv, PoweringUp, ToPowerUp, SetsOnline
<1>22. CASE power_up_virtual_usim
    BY <1>0, <1>22 DEF StaleInv, ToPowerUp, Spared, power_up_virtual_usim
<1>23. CASE PoweredUp
    BY <1>0, <1>23 DEF StaleInv, PoweringUp, ToPowerUp, ShapeInv, PoweredUp
<1>24. CASE UimSenderReads
    BY <1>0, <1>24 DEF StaleInv, PoweringUp, ToPowerUp, UimSenderReads
<1>25. CASE Arms
    BY <1>0, <1>25 DEF StaleInv, PoweringUp, ToPowerUp, Arms
<1>26. CASE UimSenderCompletes
    BY <1>0, <1>26 DEF StaleInv, PoweringUp, ToPowerUp, UimSenderCompletes
<1>27. CASE SenderReads
    BY <1>0, <1>27 DEF StaleInv, PoweringUp, ToPowerUp, SenderReads
<1>28. CASE do_uim_power_up
    BY <1>0, <1>28 DEF SenderInv, StaleInv, PoweringUp, ToPowerUp, do_uim_power_up
<1>29. CASE Disarms
    BY <1>0, <1>29 DEF StaleInv, ToPowerUp, Disarms
<1>30. CASE Online
    BY <1>0, <1>30 DEF SenderInv, StaleInv, PoweringUp, ToPowerUp, Online
<1>31. CASE MonitorReads
    BY <1>0, <1>31 DEF StaleInv, PoweringUp, ToPowerUp, MonitorReads
<1>32. CASE TimesOut
    BY <1>0, <1>32 DEF StaleInv, PoweringUp, ToPowerUp, TimesOut
<1>33. CASE UNCHANGED vars
    BY <1>0, <1>33 DEF StaleInv, PoweringUp, ToPowerUp, vars
<1> QED
    BY <1>1, <1>2, <1>3, <1>4, <1>5, <1>6, <1>7, <1>8, <1>9, <1>10, <1>11, <1>12, <1>13,
       <1>14, <1>15, <1>16, <1>17, <1>18, <1>19, <1>20, <1>21, <1>22, <1>23, <1>24, <1>25,
       <1>26, <1>27, <1>28, <1>29, <1>30, <1>31, <1>32, <1>33
    DEF Next, ListenerSteps, EvtLoopSteps, UimSenderSteps, SenderSteps

\* RstMonitor is armed only while the USIM is off, or is to be.
LEMMA NextArmedInv ==
    ASSUME TypeOK, ShapeInv, ArmedInv, Spared({"early"}), [Next]_vars
    PROVE  ArmedInv'
<1> USE DEF Has, May, At, Goes, Asks, Takes, Locks, Unlocks, Happens, Threads
<1>1. CASE PowersDown
    BY <1>1 DEF ArmedInv, Spared, PowersDown
<1>2. CASE Reports
    BY <1>2 DEF ArmedInv, WillBeArmed, Reports
<1>3. CASE ApduTimesOut
    BY <1>3 DEF ArmedInv, WillBeArmed, ApduTimesOut
<1>4. CASE Connected
    BY <1>4 DEF ArmedInv, WillBeArmed, ShapeInv, Connected
<1>5. CASE IdAnswered
    BY <1>5 DEF ArmedInv, WillBeArmed, ShapeInv, IdAnswered
<1>6. CASE ListenerReads
    BY <1>6 DEF ArmedInv, WillBeArmed, ListenerReads
<1>7. CASE MarksPoweredDown
    BY <1>7 DEF ArmedInv, WillBeArmed, MarksPoweredDown
<1>8. CASE Checked
    BY <1>8 DEF ArmedInv, WillBeArmed, Checked
<1>9. CASE LooksAtChannel
    BY <1>9 DEF ArmedInv, WillBeArmed, LooksAtChannel
<1>10. CASE Serves
    BY <1>10 DEF ArmedInv, WillBeArmed, Serves
<1>11. CASE Tests("EvtLoop", "after")
    BY <1>11 DEF ArmedInv, WillBeArmed, Tests
<1>12. CASE Tests("Listener", "wait")
    BY <1>12 DEF ArmedInv, WillBeArmed, Tests
<1>13. CASE Sets("EvtLoop")
    BY <1>13 DEF ArmedInv, WillBeArmed, Sets
<1>14. CASE Sets("Listener")
    BY <1>14 DEF ArmedInv, WillBeArmed, Sets
<1>15. CASE Completes("EvtLoop")
    BY <1>15 DEF ArmedInv, WillBeArmed, Completes
<1>16. CASE Completes("Listener")
    BY <1>16 DEF ArmedInv, WillBeArmed, Completes
<1>17. CASE AfterTimeout
    BY <1>17 DEF ArmedInv, WillBeArmed, AfterTimeout
<1>18. CASE Uploads
    BY <1>18 DEF ArmedInv, WillBeArmed, Uploads
<1>19. CASE Uploaded
    BY <1>19 DEF ArmedInv, WillBeArmed, Uploaded
<1>20. CASE Recovered
    BY <1>20 DEF ArmedInv, WillBeArmed, ShapeInv, Recovered
<1>21. CASE SetsOnline
    BY <1>21 DEF ArmedInv, WillBeArmed, SetsOnline
<1>22. CASE power_up_virtual_usim
    BY <1>22 DEF ArmedInv, WillBeArmed, power_up_virtual_usim
<1>23. CASE PoweredUp
    BY <1>23 DEF ArmedInv, WillBeArmed, PoweredUp
<1>24. CASE UimSenderReads
    BY <1>24 DEF ArmedInv, UimSenderReads
<1>25. CASE Arms
    BY <1>25 DEF ArmedInv, Arms
<1>26. CASE UimSenderCompletes
    BY <1>26 DEF ArmedInv, WillBeArmed, UimSenderCompletes
<1>27. CASE SenderReads
    BY <1>27 DEF ArmedInv, WillBeArmed, SenderReads
<1>28. CASE do_uim_power_up
    BY <1>28 DEF ArmedInv, ShapeInv, do_uim_power_up
<1>29. CASE Disarms
    BY <1>29 DEF ArmedInv, WillBeArmed, Disarms
<1>30. CASE Online
    BY <1>30 DEF ArmedInv, WillBeArmed, Online
<1>31. CASE MonitorReads
    <2>1. CASE Len(rst_pipe) = 1
        <3>1. rst_pipe' = <<>> /\ rst_pipe[Len(rst_pipe)] = Head(rst_pipe)
            BY <1>31, <2>1 DEF MonitorReads, TypeOK
        <3> QED
            BY <1>31, <3>1 DEF MonitorReads, ArmedInv, WillBeArmed
    <2>2. CASE Len(rst_pipe) # 1
        <3>0. rst_pipe \in Seq({0, 1}) /\ rst_pipe # <<>> /\ rst_pipe' = Tail(rst_pipe)
            BY <1>31 DEF MonitorReads, TypeOK
        <3>1. /\ Len(rst_pipe) \in Nat \ {0}
              /\ Len(rst_pipe') = Len(rst_pipe) - 1
              /\ \A i \in 1..(Len(rst_pipe) - 1) : rst_pipe'[i] = rst_pipe[i + 1]
            BY <3>0, TailOf
        <3>2. Len(rst_pipe') \in 1..(Len(rst_pipe) - 1) /\ Len(rst_pipe') + 1 = Len(rst_pipe)
            BY <2>2, <3>1
        <3>3. rst_pipe'[Len(rst_pipe')] = rst_pipe[Len(rst_pipe)]
            BY <3>1, <3>2
        <3>4. rst_pipe' # <<>>
            BY <3>0, <3>2
        <3> QED
            BY <1>31, <3>3, <3>4 DEF MonitorReads, ArmedInv, WillBeArmed
    <2> QED
        BY <2>1, <2>2
<1>32. CASE TimesOut
    BY <1>32 DEF ArmedInv, WillBeArmed, TimesOut
<1>33. CASE UNCHANGED vars
    BY <1>33 DEF ArmedInv, WillBeArmed, vars
<1> QED
    BY <1>1, <1>2, <1>3, <1>4, <1>5, <1>6, <1>7, <1>8, <1>9, <1>10, <1>11, <1>12, <1>13,
       <1>14, <1>15, <1>16, <1>17, <1>18, <1>19, <1>20, <1>21, <1>22, <1>23, <1>24, <1>25,
       <1>26, <1>27, <1>28, <1>29, <1>30, <1>31, <1>32, <1>33
    DEF Next, ListenerSteps, EvtLoopSteps, UimSenderSteps, SenderSteps

\* One reset at a time.
LEMMA NextResetInv ==
    ASSUME TypeOK, ShapeInv, SenderInv, MarkInv, StaleInv, ArmedInv, Spared(Hastes \ {"poor"}),
           ResetInv, QuietInv, [Next]_vars
    PROVE  ResetInv'
<1> USE DEF Has, May, At, Goes, Asks, Takes, Locks, Unlocks, Happens, Threads
<1>1. CASE PowersDown
    BY <1>1 DEF SenderInv, Spared, Hastes, ResetInv, PowerDownAsked, PowersDown
<1>2. CASE Reports
    BY <1>2 DEF PoweringUp, ResetInv, PowerDownAsked, Reports
<1>3. CASE ApduTimesOut
    BY <1>3 DEF PoweringUp, ResetInv, PowerDownAsked, ApduTimesOut
<1>4. CASE Connected
    BY <1>4 DEF PoweringUp, ShapeInv, ResetInv, PowerDownAsked, Resetters, Connected
<1>5. CASE IdAnswered
    BY <1>5
    DEF PoweringUp, Spared, ShapeInv, ArmedInv, ResetInv, PowerDownAsked, Resetters,
        AllRead, IdAnswered
<1>6. CASE ListenerReads
    BY <1>6 DEF PoweringUp, ResetInv, PowerDownAsked, ListenerReads
<1>7. CASE MarksPoweredDown
    BY <1>7 DEF PoweringUp, StaleInv, ResetInv, PowerDownAsked, MarksPoweredDown
<1>8. CASE Checked
    BY <1>8 DEF PoweringUp, ResetInv, PowerDownAsked, Checked
<1>9. CASE LooksAtChannel
    BY <1>9 DEF PoweringUp, ResetInv, PowerDownAsked, LooksAtChannel
<1>10. CASE Serves
    BY <1>10 DEF PoweringUp, ResetInv, PowerDownAsked, Serves
<1>11. CASE Tests("EvtLoop", "after")
    BY <1>11 DEF PoweringUp, Spared, Hastes, ResetInv, PowerDownAsked, Resetters, Tests
<1>12. CASE Tests("Listener", "wait")
    BY <1>12 DEF PoweringUp, Spared, Hastes, ResetInv, PowerDownAsked, Resetters, Tests
<1>13. CASE Sets("EvtLoop")
    BY <1>13 DEF TypeOK, PoweringUp, ShapeInv, ResetInv, PowerDownAsked, Resetters, Sets
<1>14. CASE Sets("Listener")
    BY <1>14
    DEF TypeOK, SenderInv, PoweringUp, Spared, ShapeInv, StaleInv, ResetInv, QuietInv,
        PowerDownAsked, Resetters, Sets
<1>15. CASE Completes("EvtLoop")
    BY <1>15 DEF PoweringUp, ResetInv, PowerDownAsked, Completes
<1>16. CASE Completes("Listener")
    BY <1>16 DEF PoweringUp, ResetInv, PowerDownAsked, Completes
<1>17. CASE AfterTimeout
    BY <1>17 DEF PoweringUp, ResetInv, PowerDownAsked, AfterTimeout
<1>18. CASE Uploads
    BY <1>18 DEF PoweringUp, ResetInv, PowerDownAsked, Uploads
<1>19. CASE Uploaded
    BY <1>19 DEF PoweringUp, ResetInv, PowerDownAsked, Uploaded
<1>20. CASE Recovered
    BY <1>20
    DEF TypeOK, SenderInv, PoweringUp, ShapeInv, Hastes, ResetInv, QuietInv,
        PowerDownAsked, Resetters, Recovered
<1>21. CASE SetsOnline
    BY <1>21 DEF SenderInv, SetsOnline
<1>22. CASE power_up_virtual_usim
    BY <1>22
    DEF SenderInv, PoweringUp, ShapeInv, ResetInv, PowerDownAsked, power_up_virtual_usim
<1>23. CASE PoweredUp
    BY <1>23 DEF PoweringUp, ShapeInv, ResetInv, PowerDownAsked, PoweredUp
<1>24. CASE UimSenderReads
    BY <1>24 DEF TypeOK, PoweringUp, ResetInv, PowerDownAsked, UimSenderReads
<1>25. CASE Arms
    BY <1>25 DEF PoweringUp, ResetInv, PowerDownAsked, Arms
<1>26. CASE UimSenderCompletes
    BY <1>26 DEF PoweringUp, ResetInv, PowerDownAsked, UimSenderCompletes
<1>27. CASE SenderReads
    BY <1>27 DEF SenderInv, PoweringUp, ResetInv, PowerDownAsked, SenderReads
<1>28. CASE do_uim_power_up
    BY <1>28 DEF PoweringUp, ResetInv, PowerDownAsked, do_uim_power_up
<1>29. CASE Disarms
    BY <1>29 DEF PoweringUp, ResetInv, PowerDownAsked, Disarms
<1>30. CASE Online
    BY <1>30 DEF PoweringUp, ResetInv, PowerDownAsked, Online
<1>31. CASE MonitorReads
    BY <1>31 DEF PoweringUp, ResetInv, PowerDownAsked, MonitorReads
<1>32. CASE TimesOut
    BY <1>32 DEF PoweringUp, ResetInv, PowerDownAsked, TimesOut
<1>33. CASE UNCHANGED vars
    BY <1>33 DEF PoweringUp, ResetInv, PowerDownAsked, vars
<1> QED
    BY <1>1, <1>2, <1>3, <1>4, <1>5, <1>6, <1>7, <1>8, <1>9, <1>10, <1>11, <1>12, <1>13,
       <1>14, <1>15, <1>16, <1>17, <1>18, <1>19, <1>20, <1>21, <1>22, <1>23, <1>24, <1>25,
       <1>26, <1>27, <1>28, <1>29, <1>30, <1>31, <1>32, <1>33
    DEF Next, ListenerSteps, EvtLoopSteps, UimSenderSteps, SenderSteps

\* Behind a report of the power-down there is none that would have the USIM reset again.
LEMMA NextQuietInv ==
    ASSUME TypeOK, ShapeInv, SenderInv, MarkInv, StaleInv, ArmedInv, Spared(Hastes \ {"poor"}),
           ResetInv, QuietInv, [Next]_vars
    PROVE  QuietInv'
<1> USE DEF Has, May, At, Goes, Asks, Takes, Locks, Unlocks, Happens, Threads
<1>0. UNCHANGED urcs => \A u : Listed(u)' <=> Listed(u)
    BY DEF Listed
<1>1. CASE PowersDown
    BY <1>0, ListedAppended, <1>1 DEF SenderInv, StaleInv, ResetInv, QuietInv, PowersDown
<1>2. CASE Reports
    <2>1. PICK v \in {"SESSION_ILLEGAL", "OTHER"} :
              /\ urcs' = Append(urcs, v) /\ (v = "SESSION_ILLEGAL" => modem.usim = "up")
              /\ UNCHANGED <<modem, urc, flags, pc>>
        BY <1>2 DEF Reports
    <2>2. Listed("SESSION_ILLEGAL")' <=> Listed("SESSION_ILLEGAL") \/ v = "SESSION_ILLEGAL"
        BY <2>1, ListedAppended DEF TypeOK, Urcs
    <2>3. /\ Len(urcs) \in Nat /\ DOMAIN urcs = 1..Len(urcs)
          /\ DOMAIN urcs' = 1..(Len(urcs) + 1) /\ urcs'[Len(urcs) + 1] = v
          /\ \A i \in 1..Len(urcs) : urcs'[i] = urcs[i]
        BY <2>1 DEF TypeOK, Urcs
    <2>4. ASSUME NEW i \in DOMAIN urcs', NEW j \in DOMAIN urcs', i < j,
                     urcs'[i] = "NOT_AVAILABLE"
          PROVE  urcs'[j] # "SESSION_ILLEGAL"
        <3>1. i \in 1..Len(urcs) /\ urcs[i] = "NOT_AVAILABLE"
            BY <2>3, <2>4
        <3>2. modem.usim = "down"
            BY <2>3, <3>1 DEF StaleInv, Listed
        <3> QED
            BY <2>1, <2>3, <2>4, <3>1, <3>2 DEF QuietInv
    <2> QED
        BY <2>1, <2>2, <2>4 DEF QuietInv, StaleInv
<1>3. CASE ApduTimesOut
    BY <1>0, <1>3 DEF QuietInv, ApduTimesOut
<1>4. CASE Connected
    BY <1>0, <1>4 DEF ShapeInv, QuietInv, Connected
<1>5. CASE IdAnswered
    BY <1>0, <1>5 DEF ShapeInv, QuietInv, IdAnswered
<1>6. CASE ListenerReads
    <2>1. urcs \in Seq(Urcs) /\ urcs # <<>> /\ urcs' = Tail(urcs) /\ urc' = Head(urcs)
        BY <1>6 DEF ListenerReads, TypeOK
    <2>2. DOMAIN urcs = 1..Len(urcs) /\ Len(urcs) \in Nat \ {0} /\ Head(urcs) = urcs[1]
          /\ DOMAIN urcs' = 1..(Len(urcs) - 1)
          /\ \A i \in 1..(Len(urcs) - 1) : urcs'[i] = urcs[i + 1]
        BY <2>1
    <2>3. Listed("SESSION_ILLEGAL")' => Listed("SESSION_ILLEGAL")
        BY <2>1, ListedRead
    <2>4. Head(urcs) = "NOT_AVAILABLE" => ~Listed("SESSION_ILLEGAL")'
        <3> SUFFICES ASSUME Head(urcs) = "NOT_AVAILABLE",
            Listed("SESSION_ILLEGAL")' PROVE FALSE
            OBVIOUS
        <3>1. PICK i \in 1..(Len(urcs) - 1) : urcs'[i] = "SESSION_ILLEGAL"
            BY <2>2 DEF Listed
        <3>2. 1 \in DOMAIN urcs /\ i + 1 \in DOMAIN urcs /\ 1 < i + 1
            BY <2>2
        <3>3. urcs[1] = "NOT_AVAILABLE" /\ urcs[i + 1] = "SESSION_ILLEGAL"
            BY <2>2, <3>1
        <3> QED
            BY <3>2, <3>3 DEF QuietInv
    <2>5. Has("NOT_AVAILABLE") => Has("isUimPwrDwn") /\ modem.usim = "down"
        BY <1>6 DEF ListenerReads, MarkInv, StaleInv
    <2>6. Has("NOT_AVAILABLE") => Head(urcs) # "SESSION_ILLEGAL" /\ ~Listed("SESSION_ILLEGAL")
        BY <2>1, <2>5, ListedRead DEF QuietInv
    <2>7. ASSUME NEW i \in DOMAIN urcs', NEW j \in DOMAIN urcs', i < j,
                     urcs'[i] = "NOT_AVAILABLE"
          PROVE  urcs'[j] # "SESSION_ILLEGAL"
        <3>1. i + 1 \in DOMAIN urcs /\ j + 1 \in DOMAIN urcs /\ i + 1 < j + 1
            BY <2>2, <2>7
        <3>2. urcs'[i] = urcs[i + 1] /\ urcs'[j] = urcs[j + 1]
            BY <2>2
        <3> QED
            BY <2>7, <3>1, <3>2 DEF QuietInv
    <2>8. (At("Listener", "pd_mtx") \/ (Has("isUimPwrDwn") /\ modem.usim = "down"))'
          => /\ pc'["Listener"] \in {"pd_mtx", "checked"} /\ urc' # "SESSION_ILLEGAL"
             /\ ~Listed("SESSION_ILLEGAL")'
        BY <1>6, <2>1, <2>3, <2>4, <2>6, ListedRead DEF ListenerReads, QuietInv, ShapeInv
    <2> QED
        BY <2>7, <2>8 DEF QuietInv
<1>7. CASE MarksPoweredDown
    BY <1>0, <1>7 DEF QuietInv, MarksPoweredDown
<1>8. CASE Checked
    BY <1>0, <1>8 DEF QuietInv, Checked
<1>9. CASE LooksAtChannel
    BY <1>0, <1>9 DEF QuietInv, LooksAtChannel
<1>10. CASE Serves
    BY <1>0, <1>10 DEF QuietInv, Serves
<1>11. CASE Tests("EvtLoop", "after")
    BY <1>0, <1>11 DEF QuietInv, Tests
<1>12. CASE Tests("Listener", "wait")
    BY <1>0, <1>12 DEF QuietInv, Tests
<1>13. CASE Sets("EvtLoop")
    BY <1>0, <1>13 DEF QuietInv, Sets
<1>14. CASE Sets("Listener")
    BY <1>0, <1>14 DEF QuietInv, Sets
<1>15. CASE Completes("EvtLoop")
    BY <1>0, <1>15 DEF QuietInv, Completes
<1>16. CASE Completes("Listener")
    BY <1>0, <1>16 DEF QuietInv, Completes
<1>17. CASE AfterTimeout
    BY <1>0, <1>17 DEF QuietInv, AfterTimeout
<1>18. CASE Uploads
    BY <1>0, <1>18 DEF QuietInv, Uploads
<1>19. CASE Uploaded
    BY <1>0, <1>19 DEF QuietInv, Uploaded
<1>20. CASE Recovered
    BY <1>0, <1>20 DEF ShapeInv, QuietInv, Recovered
<1>21. CASE SetsOnline
    BY <1>0, <1>21 DEF QuietInv, SetsOnline
<1>22. CASE power_up_virtual_usim
    BY <1>0, <1>22 DEF QuietInv, power_up_virtual_usim
<1>23. CASE PoweredUp
    BY <1>0, <1>23 DEF QuietInv, PoweredUp
<1>24. CASE UimSenderReads
    BY <1>0, <1>24 DEF QuietInv, UimSenderReads
<1>25. CASE Arms
    BY <1>0, <1>25 DEF QuietInv, Arms
<1>26. CASE UimSenderCompletes
    BY <1>0, <1>26 DEF QuietInv, UimSenderCompletes
<1>27. CASE SenderReads
    BY <1>0, <1>27 DEF QuietInv, SenderReads
<1>28. CASE do_uim_power_up
    BY <1>0, <1>28 DEF QuietInv, do_uim_power_up
<1>29. CASE Disarms
    BY <1>0, <1>29 DEF QuietInv, Disarms
<1>30. CASE Online
    BY <1>0, <1>30 DEF QuietInv, Online
<1>31. CASE MonitorReads
    BY <1>0, <1>31 DEF QuietInv, MonitorReads
<1>32. CASE TimesOut
    BY <1>0, <1>32 DEF QuietInv, TimesOut
<1>33. CASE UNCHANGED vars
    BY <1>0, <1>33 DEF QuietInv, vars
<1> QED
    BY <1>1, <1>2, <1>3, <1>4, <1>5, <1>6, <1>7, <1>8, <1>9, <1>10, <1>11, <1>12, <1>13,
       <1>14, <1>15, <1>16, <1>17, <1>18, <1>19, <1>20, <1>21, <1>22, <1>23, <1>24, <1>25,
       <1>26, <1>27, <1>28, <1>29, <1>30, <1>31, <1>32, <1>33
    DEF Next, ListenerSteps, EvtLoopSteps, UimSenderSteps, SenderSteps

\* RstMonitor is disarmed last, and what Listener has marked is not forgotten before.
LEMMA NextToldInv ==
    ASSUME TypeOK, ShapeInv, SenderInv, MarkInv, StaleInv, ArmedInv, Spared(Hastes \ {"poor"}),
           ResetInv, QuietInv, ToldInv, [Next]_vars
    PROVE  ToldInv'
<1> USE DEF Has, May, At, Goes, Asks, Takes, Locks, Unlocks, Happens, Threads
<1>1. CASE PowersDown
    BY <1>1 DEF ToldInv, PowersDown
<1>2. CASE Reports
    BY <1>2 DEF ToldInv, PowerDownAsked, Reports
<1>3. CASE ApduTimesOut
    BY <1>3 DEF ToldInv, PowerDownAsked, ApduTimesOut
<1>4. CASE Connected
    BY <1>4 DEF ShapeInv, ToldInv, PowerDownAsked, Connected
<1>5. CASE IdAnswered
    BY <1>5 DEF ShapeInv, ToldInv, PowerDownAsked, IdAnswered
<1>6. CASE ListenerReads
    BY <1>6 DEF ToldInv, PowerDownAsked, ListenerReads
<1>7. CASE MarksPoweredDown
    BY <1>7 DEF StaleInv, ToldInv, MarksPoweredDown
<1>8. CASE Checked
    BY <1>8 DEF ToldInv, PowerDownAsked, Checked
<1>9. CASE LooksAtChannel
    BY <1>9 DEF ToldInv, PowerDownAsked, LooksAtChannel
<1>10. CASE Serves
    BY <1>10 DEF ToldInv, PowerDownAsked, Serves
<1>11. CASE Tests("EvtLoop", "after")
    BY <1>11 DEF ToldInv, PowerDownAsked, Tests
<1>12. CASE Tests("Listener", "wait")
    BY <1>12 DEF ToldInv, PowerDownAsked, Tests
<1>13. CASE Sets("EvtLoop")
    BY <1>13 DEF Spared, Hastes, ToldInv, Sets
<1>14. CASE Sets("Listener")
    BY <1>14 DEF Spared, Hastes, ToldInv, Sets
<1>15. CASE Completes("EvtLoop")
    BY <1>15 DEF ToldInv, PowerDownAsked, Completes
<1>16. CASE Completes("Listener")
    BY <1>16 DEF ToldInv, PowerDownAsked, Completes
<1>17. CASE AfterTimeout
    BY <1>17 DEF ToldInv, PowerDownAsked, AfterTimeout
<1>18. CASE Uploads
    BY <1>18 DEF ToldInv, PowerDownAsked, Uploads
<1>19. CASE Uploaded
    BY <1>19 DEF ToldInv, PowerDownAsked, Uploaded
<1>20. CASE Recovered
    BY <1>20
    DEF SenderInv, PoweringUp, ShapeInv, StaleInv, ToldInv, PowerDownAsked, Recovered
<1>21. CASE SetsOnline
    BY <1>21 DEF SenderInv, SetsOnline
<1>22. CASE power_up_virtual_usim
    BY <1>22 DEF ToldInv, PowerDownAsked, power_up_virtual_usim
<1>23. CASE PoweredUp
    BY <1>23 DEF ToldInv, PowerDownAsked, PoweredUp
<1>24. CASE UimSenderReads
    BY <1>24 DEF ToldInv, PowerDownAsked, UimSenderReads
<1>25. CASE Arms
    BY <1>25 DEF StaleInv, ResetInv, ToldInv, PowerDownAsked, Arms
<1>26. CASE UimSenderCompletes
    BY <1>26 DEF ToldInv, PowerDownAsked, UimSenderCompletes
<1>27. CASE SenderReads
    BY <1>27 DEF ToldInv, PowerDownAsked, SenderReads
<1>28. CASE do_uim_power_up
    BY <1>28 DEF SenderInv, ToPowerUp, ToldInv, do_uim_power_up
<1>29. CASE Disarms
    BY <1>29 DEF SenderInv, ShapeInv, ResetInv, ToldInv, PowerDownAsked, Disarms
<1>30. CASE Online
    BY <1>30 DEF StaleInv, ResetInv, ToldInv, PowerDownAsked, Online
<1>31. CASE MonitorReads
    BY <1>31
    DEF TypeOK, SenderInv, ToPowerUp, Spared, StaleInv, ToldInv, PowerDownAsked,
        MonitorReads
<1>32. CASE TimesOut
    BY <1>32 DEF ToldInv, TimesOut
<1>33. CASE UNCHANGED vars
    BY <1>33 DEF ToldInv, PowerDownAsked, vars
<1> QED
    BY <1>1, <1>2, <1>3, <1>4, <1>5, <1>6, <1>7, <1>8, <1>9, <1>10, <1>11, <1>12, <1>13,
       <1>14, <1>15, <1>16, <1>17, <1>18, <1>19, <1>20, <1>21, <1>22, <1>23, <1>24, <1>25,
       <1>26, <1>27, <1>28, <1>29, <1>30, <1>31, <1>32, <1>33
    DEF Next, ListenerSteps, EvtLoopSteps, UimSenderSteps, SenderSteps

-----------------------------------------------------------------------------
(* The theorems.                                                           *)

\* The invariant holds at the start, when nothing has been reported or asked for.
LEMMA InitIInv == Init => IInv
<1> SUFFICES ASSUME Init PROVE IInv
    OBVIOUS
<1> USE DEF Has, At, Threads
<1>0. left \in [illegal : Nat, other : Nat, timeouts : Nat, poor : BOOLEAN,
          hasty : SUBSET Hastes]
    BY UsimResetAssumption DEF Init
<1>1. TypeOK
    BY DEF Init, TypeOK, Flags, Urcs
<1>2. ShapeInv
    BY <1>0 DEF Init, ShapeInv
<1>3. ~Listed("NOT_AVAILABLE") /\ ~Listed("SESSION_ILLEGAL") /\ DOMAIN urcs = {} /\
          DOMAIN rst_pipe = {}
    BY DEF Init, Listed
<1>4. SenderInv /\ DownInv /\ MarkInv
    BY <1>3 DEF Init, SenderInv, DownInv, MarkInv, PoweringUp, ToPowerUp
<1>5. StaleInv /\ ArmedInv
    BY <1>3 DEF Init, StaleInv, ArmedInv, WillBeArmed
<1>6. ResetInv /\ QuietInv /\ ToldInv
    BY <1>3 DEF Init, ResetInv, QuietInv, ToldInv, PowerDownAsked
<1> QED
    BY <1>1, <1>2, <1>4, <1>5, <1>6 DEF IInv

\* Every step keeps the invariant, whatever happens at a bad moment.
LEMMA NextIInv == IInv /\ [Next]_vars => IInv'
<1> SUFFICES ASSUME IInv, [Next]_vars PROVE IInv'
    OBVIOUS
<1>1. TypeOK /\ ShapeInv
    BY DEF IInv
<1>2. TypeOK' /\ ShapeInv'
    BY <1>1, NextTypeOK
<1>3. \A hs : Spared(hs)' <=> Spared(hs)
    BY <1>1, SparedStays
<1>4. ASSUME Spared({"answered"}) PROVE (SenderInv /\ DownInv /\ MarkInv)'
    <2>1. SenderInv /\ DownInv /\ MarkInv
        BY <1>4 DEF IInv
    <2> QED
        BY <1>1, <1>4, <2>1, NextSenderInv, NextDownInv, NextMarkInv
<1>5. ASSUME Spared({"stale", "answered"}) PROVE StaleInv'
    <2>1. Spared({"answered"})
        BY <1>5 DEF Spared
    <2> QED
        BY <1>1, <1>5, <2>1, NextStaleInv DEF IInv
<1>6. ASSUME Spared({"early"}) PROVE ArmedInv'
    BY <1>1, <1>6, NextArmedInv DEF IInv
<1>7. ASSUME Spared(Hastes \ {"poor"}) PROVE (ResetInv /\ QuietInv /\ ToldInv)'
    <2>1. Spared({"answered"}) /\ Spared({"stale", "answered"}) /\ Spared({"early"})
        BY <1>7 DEF Spared, Hastes
    <2>2. SenderInv /\ MarkInv /\ StaleInv /\ ArmedInv /\ ResetInv /\ QuietInv /\ ToldInv
        BY <1>7, <2>1 DEF IInv
    <2> QED
        BY <1>1, <1>7, <2>2, NextResetInv, NextQuietInv, NextToldInv
<1> QED
    BY <1>2, <1>3, <1>4, <1>5, <1>6, <1>7 DEF IInv

\* The inductive invariant holds in every state, however often the USIM is reset.
THEOREM Invariant == Spec => []IInv
    BY InitIInv, NextIInv, PTL DEF Spec

\* Every variable keeps its type: no byte but 0 and 1 is written for RstMonitor, and a
\* thread is only where its code leads.
THEOREM TypeCorrect == Spec => []TypeOK
<1>1. IInv => TypeOK
    BY DEF IInv
<1> QED
    BY <1>1, Invariant, PTL

\* isUimPwrDwn is not left over from a power-down that has been undone, unless the USIM
\* is powered up while Listener waits to mark it, or the server answers too early.
THEOREM MarkedWhileDown == Spec => []PowerStateTrue
<1>1. IInv => PowerStateTrue
    BY DEF IInv, PowerStateTrue, StaleInv
<1> QED
    BY <1>1, Invariant, PTL

\* EvtLoop, which has Listener send a status report and keeps ChannelLock meanwhile, finds
\* Listener not in need of ChannelLock.
THEOREM NoDeadlockOnChannelLock == Spec => []ListenerAnswers
<1>1. IInv => ListenerAnswers
    BY DEF IInv, ListenerAnswers, MarkInv
<1> QED
    BY <1>1, Invariant, PTL

\* RstMonitor restarts the box only when the USIM has no power or is to lose it, unless it
\* is armed late, and reboots it only when nobody has marked the power-down.
THEOREM RestartedForAReason == Spec => RestartsForAReason
<1> DEFINE Reason ==
        /\ Spared({"early"}) /\ TimesOut =>
               modem.usim = "down" \/ modem.todo \/ At("Sender", "powered")
        /\ Spared(Hastes \ {"poor"}) /\ monitor' = "rebooted" /\ Runs => ~Has("isUimPwrDwn")
<1>1. IInv /\ [Next]_vars => [Reason]_vars
    <2> SUFFICES ASSUME IInv, Next PROVE Reason
        BY DEF vars
    <2>1. ASSUME Spared({"early"}), TimesOut
          PROVE  modem.usim = "down" \/ modem.todo \/ At("Sender", "powered")
        BY <2>1 DEF IInv, ArmedInv, WillBeArmed, TimesOut
    <2>2. ASSUME Spared(Hastes \ {"poor"}), monitor' = "rebooted", Runs
          PROVE  ~Has("isUimPwrDwn")
        <3>1. ToldInv
            BY <2>2 DEF IInv
        <3>2. monitor' # monitor
            BY <2>2 DEF Runs, Ends
        <3>3. ListenerReads \/ MonitorReads \/ TimesOut
            BY <3>2
            DEF Next, ListenerSteps, EvtLoopSteps, UimSenderSteps, SenderSteps,
                PowersDown, Reports, ApduTimesOut, Connected, IdAnswered,
                MarksPoweredDown, Checked, LooksAtChannel, Serves, Tests, Sets, Completes,
                AfterTimeout, Uploads, Uploaded, Recovered, SetsOnline,
                power_up_virtual_usim, PoweredUp, UimSenderReads, Arms,
                UimSenderCompletes, SenderReads, do_uim_power_up, Disarms, Online
        <3>4. CASE ListenerReads
            BY <2>2, <3>1, <3>2, <3>4 DEF ToldInv, ListenerReads
        <3>5. CASE MonitorReads
            BY <2>2, <3>5 DEF MonitorReads
        <3>6. CASE TimesOut
            BY <2>2, <3>1, <3>6 DEF ToldInv, TimesOut
        <3> QED
            BY <3>3, <3>4, <3>5, <3>6
    <2> QED
        BY <2>1, <2>2
<1> QED
    BY <1>1, Invariant, PTL DEF Spec, RestartsForAReason
=============================================================================
