--------------------------- MODULE EvtPipes_proofs ---------------------------
(* Proofs about the request channel of EvtLoop, for any threads and bounds. *)
EXTENDS EvtPipes, SequenceTheorems, TLAPS

\* The kinds and pipes are distinct strings and every pipe belongs to a kind.
LEMMA Pipes ==
    /\ \A p \in ArgPipes : KindOf(p) \in Kinds
    /\ KindOf("chan_num_pipe") = "0x02"
    /\ KindOf("flow_state_pipe") = "0x01"
    /\ KindOf("thread_idx_pipe") = "0x01"
BY DEF ArgPipes, KindOf, Kinds

\* The program starts in a state that satisfies the inductive invariant.
LEMMA InitIInv == Init => IInv
<1> SUFFICES ASSUME Init PROVE IInv
    OBVIOUS
<1>1. TypeOK
    <2>1. arg_pipe \in [ArgPipes -> Seq(Nat)] /\ evtloop_pipe \in Seq(Request)
        BY DEF Init
    <2>2. cur_req \in Request
        BY EvtPipesAssumption DEF Init, Request, Kinds
    <2> QED
        BY <2>1, <2>2 DEF Init, TypeOK, Kinds, Freed
<1>2. MutexInv
    BY DEF Init, MutexInv
<1>3. ArgInv
    BY Pipes DEF Init, ArgInv, Unannounced, Unpopped, Popped
<1>4. EvtInv
    BY DEF Init, EvtInv
<1>5. CurInv
    BY DEF Init, CurInv, PopsMatchRequest
<1>6. BufInv
    BY EvtPipesAssumption DEF Init, BufInv, Freed
<1> QED
    BY <1>1, <1>2, <1>3, <1>4, <1>5, <1>6 DEF IInv

\* Type correctness is preserved by every step.
LEMMA NextTypeOK == TypeOK /\ [Next]_vars => TypeOK'
<1> SUFFICES ASSUME TypeOK, [Next]_vars PROVE TypeOK'
    OBVIOUS
<1> USE Pipes, EvtPipesAssumption
<1>1. ASSUME NEW t \in Threads, ResetBuffer(t) PROVE TypeOK'
    BY <1>1 DEF TypeOK, ResetBuffer, Reader, Freed, Kinds
<1>2. ASSUME NEW t \in Threads, Lock(t) PROVE TypeOK'
    BY <1>2 DEF TypeOK, Lock, Reader
<1>3. ASSUME NEW t \in Threads, LockReport(t) PROVE TypeOK'
    BY <1>3 DEF TypeOK, LockReport, Reader, Freed, Kinds
<1>4. ASSUME NEW t \in Threads, Encode(t) PROVE TypeOK'
    BY <1>4 DEF TypeOK, Encode, Reader
<1>5. ASSUME NEW t \in Threads, NEW k \in Kinds, LockRequest(t, k) PROVE TypeOK'
    BY <1>5 DEF TypeOK, LockRequest, Reader
<1>0. ASSUME NEW t \in Threads PROVE Ordinal(t) \in Nat
    BY DEF TypeOK, Ordinal
<1>6. ASSUME NEW t \in Threads, PushFirst(t) PROVE TypeOK'
    <2> DEFINE p == IF kind[t] = "0x02" THEN "chan_num_pipe" ELSE "flow_state_pipe"
    <2>1. p \in ArgPipes
        BY DEF ArgPipes
    <2>2. Append(arg_pipe[p], Ordinal(t)) \in Seq(Nat)
        BY <1>0, <2>1 DEF TypeOK
    <2>3. arg_pipe' = [arg_pipe EXCEPT ![p] = Append(arg_pipe[p], Ordinal(t))]
        BY <1>6 DEF PushFirst
    <2>4. arg_pipe' \in [ArgPipes -> Seq(Nat)]
        BY <2>1, <2>2, <2>3 DEF TypeOK
    <2> QED
        BY <1>6, <2>4 DEF TypeOK, PushFirst, Reader
<1>7. ASSUME NEW t \in Threads, push_thread_idx(t) PROVE TypeOK'
    <2>1. Append(arg_pipe["thread_idx_pipe"], Ordinal(t)) \in Seq(Nat)
        BY <1>0 DEF TypeOK, ArgPipes
    <2>2. arg_pipe' \in [ArgPipes -> Seq(Nat)]
        BY <1>7, <2>1 DEF TypeOK, push_thread_idx
    <2> QED
        BY <1>7, <2>2 DEF TypeOK, push_thread_idx, Reader
<1>8. ASSUME NEW t \in Threads, notify_EvtLoop(t) PROVE TypeOK'
    <2> DEFINE r == [kind |-> kind[t], from |-> t, n |-> Ordinal(t), report |-> reports[t]]
    <2>1. r \in Request
        BY <1>0 DEF TypeOK, Request
    <2>2. evtloop_pipe' \in Seq(Request)
        BY <1>8, <2>1 DEF TypeOK, notify_EvtLoop
    <2>3. notified' \in [Kinds -> Nat] /\ pc' \in [Threads -> {"idle", "encode", "lock", "push",
                                               "push_tid", "notify", "unlock"}]
        BY <1>8 DEF TypeOK, notify_EvtLoop
    <2>4. UNCHANGED <<arg_pipe, evtloop_mtx, kind, rsmp_buffer, reports, Reader>>
        BY <1>8 DEF notify_EvtLoop
    <2> QED
        BY <2>2, <2>3, <2>4 DEF TypeOK, Reader
<1>9. ASSUME NEW t \in Threads, Unlock(t) PROVE TypeOK'
    BY <1>9 DEF TypeOK, Unlock, Reader
<1>11. CASE process_events
    <2>1. Head(evtloop_pipe) \in Request /\ Tail(evtloop_pipe) \in Seq(Request)
        BY <1>11 DEF process_events, TypeOK
    <2> QED
        <3>1. evtloop_pipe' \in Seq(Request) /\ cur_req' \in Request
            BY <1>11, <2>1 DEF process_events
        <3>2. fetched' \in [Kinds -> Nat]
            <4> DEFINE k == Head(evtloop_pipe).kind
            <4>1. k \in Kinds
                BY <2>1 DEF Request
            <4>2. fetched' = [fetched EXCEPT ![k] = fetched[k] + 1]
                BY <1>11 DEF process_events
            <4> HIDE DEF k
            <4> QED
                BY <4>1, <4>2 DEF TypeOK
        <3>3. cur' \in {"idle", "pop_tid", "pop_fs", "pop_chan", "serve"}
            BY <1>11 DEF process_events, AfterRead
        <3>4. UNCHANGED <<arg_pipe, popped_arg, Writers>>
            BY <1>11 DEF process_events
        <3> QED
            BY <3>1, <3>2, <3>3, <3>4 DEF TypeOK, Writers
<1>12. ASSUME NEW p \in ArgPipes, NEW here, NEW next \in {"pop_fs", "serve"}, Pop(p, here, next)
       PROVE TypeOK'
    <2>1. Head(arg_pipe[p]) \in Nat /\ Tail(arg_pipe[p]) \in Seq(Nat)
        BY <1>12 DEF Pop, TypeOK
    <2> QED
        BY <1>12, <2>1 DEF TypeOK, Pop, Writers
<1>13. CASE pop_thread_idx \/ pop_flow_state \/ pop_ChannelNum
    BY <1>12, <1>13 DEF pop_thread_idx, pop_flow_state, pop_ChannelNum, ArgPipes
<1>14. CASE Serve
    BY <1>14 DEF TypeOK, Serve, Writers
<1>15. CASE PowerOff
    BY <1>15 DEF TypeOK, PowerOff
<1>16. CASE UNCHANGED vars
    BY <1>16 DEF TypeOK, vars
<1> QED
    BY <1>1, <1>2, <1>3, <1>4, <1>5, <1>6, <1>7, <1>8, <1>9, <1>11, <1>13, <1>14,
       <1>15, <1>16 DEF Next, ThreadStep, ReaderStep, Quiescent

\* Only the holder of evtloop_mtx pushes and notifies, whatever the step.
LEMMA NextMutexInv == TypeOK /\ MutexInv /\ [Next]_vars => MutexInv'
<1> SUFFICES ASSUME TypeOK, MutexInv, [Next]_vars PROVE MutexInv'
    OBVIOUS
<1>1. ASSUME NEW t \in Threads, ResetBuffer(t) PROVE MutexInv'
    BY <1>1 DEF TypeOK, MutexInv, ResetBuffer
<1>2. ASSUME NEW t \in Threads, Lock(t) PROVE MutexInv'
    BY <1>2 DEF TypeOK, MutexInv, Lock
<1>3. ASSUME NEW t \in Threads, LockReport(t) PROVE MutexInv'
    BY <1>3 DEF TypeOK, MutexInv, LockReport
<1>4. ASSUME NEW t \in Threads, Encode(t) PROVE MutexInv'
    BY <1>4 DEF TypeOK, MutexInv, Encode
<1>5. ASSUME NEW t \in Threads, NEW k \in Kinds, LockRequest(t, k) PROVE MutexInv'
    BY <1>5 DEF TypeOK, MutexInv, LockRequest
<1>6. ASSUME NEW t \in Threads, PushFirst(t) PROVE MutexInv'
    BY <1>6 DEF TypeOK, MutexInv, PushFirst
<1>7. ASSUME NEW t \in Threads, push_thread_idx(t) PROVE MutexInv'
    BY <1>7 DEF TypeOK, MutexInv, push_thread_idx
<1>8. ASSUME NEW t \in Threads, notify_EvtLoop(t) PROVE MutexInv'
    BY <1>8 DEF TypeOK, MutexInv, notify_EvtLoop
<1>9. ASSUME NEW t \in Threads, Unlock(t) PROVE MutexInv'
    BY <1>9 DEF TypeOK, MutexInv, Unlock
<1>10. CASE UNCHANGED <<evtloop_mtx, pc, kind>>
    BY <1>10 DEF MutexInv
<1>11. CASE ReaderStep \/ PowerOff \/ UNCHANGED vars
    BY <1>10, <1>11 DEF ReaderStep, process_events, pop_thread_idx,
       pop_flow_state, pop_ChannelNum, Pop, Serve, PowerOff, Writers, vars
<1> QED
    BY <1>1, <1>2, <1>3, <1>4, <1>5, <1>6, <1>7, <1>8, <1>9, <1>11
       DEF Next, ThreadStep, Quiescent

\* The tail of a non-empty sequence is the sequence shifted by one.
LEMMA TailShifts ==
    ASSUME NEW S, NEW s \in Seq(S), s # <<>>
    PROVE  /\ Len(s) \in Nat \ {0} /\ Len(Tail(s)) = Len(s) - 1
           /\ Head(s) = s[1] /\ Head(s) \in S /\ Tail(s) \in Seq(S)
           /\ \A i \in 1 .. Len(Tail(s)) : i + 1 \in 1 .. Len(s) /\ Tail(s)[i] = s[i + 1]
<1>1. Len(s) \in Nat \ {0}
    OBVIOUS
<1>2. Len(Tail(s)) = Len(s) - 1 /\ Head(s) = s[1] /\ Head(s) \in S /\ Tail(s) \in Seq(S)
    BY <1>1
<1>3. ASSUME NEW i \in 1 .. Len(Tail(s))
      PROVE  i + 1 \in 1 .. Len(s) /\ Tail(s)[i] = s[i + 1]
    BY <1>1, <1>2
<1> QED
    BY <1>1, <1>2, <1>3

\* A step that neither pushes, pops, fetches nor notifies keeps the argument
\* pipes aligned, if it leaves the unannounced arguments alone.
LEMMA ArgStutter ==
    ASSUME ArgInv, UNCHANGED <<arg_pipe, notified, fetched, cur>>,
           \A p \in ArgPipes : Unannounced(p)' = Unannounced(p)
    PROVE  ArgInv'
<1>1. \A p \in ArgPipes : Popped(p)' = Popped(p)
    BY DEF Popped, Unpopped
<1> QED
    BY <1>1 DEF ArgInv

\* Pushing the next ordinal onto a pipe with nothing unannounced keeps it aligned.
LEMMA ArgPush ==
    ASSUME TypeOK, ArgInv, NEW q \in ArgPipes, NEW t \in Threads,
           kind[t] = KindOf(q), Unannounced(q) = 0, Unannounced(q)' = 1,
           \A p \in ArgPipes \ {q} : Unannounced(p)' = Unannounced(p),
           arg_pipe' = [arg_pipe EXCEPT ![q] = Append(@, Ordinal(t))],
           UNCHANGED <<notified, fetched, cur>>
    PROVE  ArgInv'
<1>1. \A p \in ArgPipes : Popped(p)' = Popped(p)
    BY DEF Popped, Unpopped
<1>2. KindOf(q) \in Kinds /\ notified[KindOf(q)] \in Nat /\ fetched[KindOf(q)] \in Nat
    BY Pipes DEF TypeOK
<1>3. Popped(q) \in Int
    BY <1>2 DEF Popped, Unpopped
<1>4. arg_pipe[q] \in Seq(Nat) /\ Ordinal(t) \in Nat
    BY <1>2 DEF TypeOK, Ordinal
<1>5. Ordinal(t) = Popped(q) + Len(arg_pipe[q]) + 1
    BY <1>2, <1>3, <1>4 DEF ArgInv, Ordinal
<1>6. /\ Len(arg_pipe'[q]) = notified[KindOf(q)] + 1 - Popped(q)
      /\ \A i \in 1 .. Len(arg_pipe'[q]) : arg_pipe'[q][i] = Popped(q) + i
    <2>1. arg_pipe'[q] = Append(arg_pipe[q], Ordinal(t))
        BY DEF TypeOK
    <2>2. /\ Len(arg_pipe[q]) = notified[KindOf(q)] - Popped(q)
          /\ \A i \in 1 .. Len(arg_pipe[q]) : arg_pipe[q][i] = Popped(q) + i
        BY <1>2, <1>3 DEF ArgInv
    <2> QED
        BY <1>2, <1>3, <1>4, <1>5, <2>1, <2>2
<1>7. ASSUME NEW p \in ArgPipes, p # q
      PROVE  /\ Len(arg_pipe'[p]) = notified[KindOf(p)]' + Unannounced(p)' - Popped(p)'
             /\ \A i \in 1 .. Len(arg_pipe'[p]) : arg_pipe'[p][i] = Popped(p)' + i
    BY <1>1, <1>7 DEF ArgInv, TypeOK
<1> QED
    BY <1>1, <1>6, <1>7 DEF ArgInv

\* Popping from a non-empty aligned pipe keeps it aligned, and pops the ordinal
\* that follows those popped before.
LEMMA ArgPop ==
    ASSUME TypeOK, ArgInv, NEW q \in ArgPipes, arg_pipe[q] # <<>>,
           Unpopped(q) = 1, Unpopped(q)' = 0,
           \A p \in ArgPipes \ {q} : Unpopped(p)' = Unpopped(p),
           \A p \in ArgPipes : Unannounced(p)' = Unannounced(p),
           arg_pipe' = [arg_pipe EXCEPT ![q] = Tail(@)],
           UNCHANGED <<notified, fetched>>
    PROVE  ArgInv' /\ Head(arg_pipe[q]) = fetched[KindOf(q)]
<1>1. KindOf(q) \in Kinds /\ notified[KindOf(q)] \in Nat /\ fetched[KindOf(q)] \in Nat
    BY Pipes DEF TypeOK
<1>2. Popped(q) = fetched[KindOf(q)] - 1 /\ Popped(q)' = fetched[KindOf(q)]
    BY <1>1 DEF Popped
<1>3. arg_pipe[q] \in Seq(Nat) /\ arg_pipe'[q] = Tail(arg_pipe[q])
    BY DEF TypeOK
<1>4. /\ Len(arg_pipe[q]) = notified[KindOf(q)] + Unannounced(q) - Popped(q)
      /\ \A i \in 1 .. Len(arg_pipe[q]) : arg_pipe[q][i] = Popped(q) + i
    BY DEF ArgInv
<1>5. Unannounced(q) \in Int
    BY DEF Unannounced
<1>6. Head(arg_pipe[q]) = fetched[KindOf(q)]
    <2>1. Head(arg_pipe[q]) = arg_pipe[q][1] /\ 1 \in 1 .. Len(arg_pipe[q])
        BY <1>3
    <2> QED
        BY <1>1, <1>2, <1>4, <2>1
<1>7. /\ Len(arg_pipe'[q]) = Len(arg_pipe[q]) - 1
      /\ \A i \in 1 .. Len(arg_pipe'[q]) : /\ i + 1 \in 1 .. Len(arg_pipe[q])
                                          /\ arg_pipe'[q][i] = arg_pipe[q][i + 1]
    <2>1. Len(Tail(arg_pipe[q])) = Len(arg_pipe[q]) - 1
        BY <1>3, TailShifts
    <2>2. \A i \in 1 .. Len(Tail(arg_pipe[q])) :
              i + 1 \in 1 .. Len(arg_pipe[q]) /\ Tail(arg_pipe[q])[i] = arg_pipe[q][i + 1]
        BY <1>3, TailShifts, Zenon
    <2> QED
        BY <1>3, <2>1, <2>2, Zenon
<1>8. /\ Len(arg_pipe'[q]) = notified[KindOf(q)]' + Unannounced(q)' - Popped(q)'
      /\ \A i \in 1 .. Len(arg_pipe'[q]) : arg_pipe'[q][i] = Popped(q)' + i
    <2>1. Len(arg_pipe[q]) \in Nat
        BY <1>3
    <2>2. Len(arg_pipe'[q]) = notified[KindOf(q)]' + Unannounced(q)' - Popped(q)'
        BY <1>1, <1>2, <1>4, <1>5, <1>7
    <2>3. ASSUME NEW i \in 1 .. Len(arg_pipe'[q])
          PROVE  arg_pipe'[q][i] = Popped(q)' + i
        <3>1. i + 1 \in 1 .. Len(arg_pipe[q])
            BY <1>7
        <3>2. arg_pipe'[q][i] = Popped(q) + (i + 1)
            BY <1>4, <1>7, <3>1
        <3>3. i \in Int
            BY <1>7, <2>1
        <3>4. fetched[KindOf(q)] - 1 + (i + 1) = fetched[KindOf(q)] + i
            BY <1>1, <3>3
        <3> QED
            BY <1>2, <3>2, <3>4
    <2> QED
        BY <2>2, <2>3
<1>9. ASSUME NEW p \in ArgPipes, p # q
      PROVE  /\ Len(arg_pipe'[p]) = notified[KindOf(p)]' + Unannounced(p)' - Popped(p)'
             /\ \A i \in 1 .. Len(arg_pipe'[p]) : arg_pipe'[p][i] = Popped(p)' + i
    BY <1>9 DEF ArgInv, TypeOK, Popped
<1> QED
    BY <1>6, <1>8, <1>9 DEF ArgInv

\* Every step keeps the argument pipes aligned with the requests.
LEMMA NextArgInv ==
    TypeOK /\ MutexInv /\ ArgInv /\ [Next]_vars => ArgInv'
<1> SUFFICES ASSUME TypeOK, MutexInv, ArgInv, [Next]_vars PROVE ArgInv'
    OBVIOUS
<1>1. ASSUME NEW t \in Threads, ResetBuffer(t) PROVE ArgInv'
    <2>1. t \notin evtloop_mtx
        BY <1>1 DEF MutexInv, ResetBuffer
    <2>2. \A p \in ArgPipes : Unannounced(p)' = Unannounced(p)
        BY <1>1, <2>1 DEF TypeOK, ResetBuffer, Unannounced
    <2> QED
        BY <1>1, <2>2, ArgStutter DEF ResetBuffer, Reader
<1>2. ASSUME NEW t \in Threads, Lock(t) PROVE ArgInv'
    <2>1. \A p \in ArgPipes : Unannounced(p)' = Unannounced(p)
        BY <1>2 DEF TypeOK, Lock, Unannounced
    <2> QED
        BY <1>2, <2>1, ArgStutter DEF Lock, Reader
<1>3. ASSUME NEW t \in Threads, LockReport(t) PROVE ArgInv'
    <2>1. \A p \in ArgPipes : Unannounced(p)' = Unannounced(p)
        BY <1>3 DEF TypeOK, LockReport, Unannounced
    <2> QED
        BY <1>3, <2>1, ArgStutter DEF LockReport, Reader
<1>4. ASSUME NEW t \in Threads, Encode(t) PROVE ArgInv'
    <2>1. \A p \in ArgPipes : Unannounced(p)' = Unannounced(p)
        BY <1>4 DEF TypeOK, Encode, Unannounced
    <2> QED
        BY <1>4, <2>1, ArgStutter DEF Encode, Reader
<1>5. ASSUME NEW t \in Threads, NEW k \in Kinds, LockRequest(t, k) PROVE ArgInv'
    <2>1. ASSUME NEW p \in ArgPipes PROVE Unannounced(p)' = Unannounced(p)
        <3>1. k # KindOf(p) \/ k = "0x02"
            BY <1>5 DEF LockRequest, KindOf
        <3> QED
            BY <1>5, <3>1 DEF TypeOK, LockRequest, Unannounced
    <2> QED
        BY <1>5, <2>1, ArgStutter DEF LockRequest, Reader
<1>6. ASSUME NEW t \in Threads, PushFirst(t) PROVE ArgInv'
    <2>1. evtloop_mtx = {t} /\ kind[t] \in {"0x01", "0x02"}
        BY <1>6 DEF MutexInv, PushFirst, TypeOK
    <2>2. \A p \in ArgPipes : Unannounced(p) = 0
        BY <1>6, <2>1 DEF PushFirst, Unannounced
    <2>3. /\ pc'[t] = IF kind[t] = "0x02" THEN "notify" ELSE "push_tid"
          /\ evtloop_mtx' = {t} /\ UNCHANGED <<kind, notified, fetched, cur>>
        BY <1>6, <2>1 DEF PushFirst, Reader, TypeOK
    <2>4. CASE kind[t] = "0x02"
        <3> DEFINE q == "chan_num_pipe"
        <3>1. q \in ArgPipes /\ kind[t] = KindOf(q) /\ Unannounced(q) = 0
            BY <2>2, <2>4 DEF ArgPipes, KindOf
        <3>2. Unannounced(q)' = 1
            BY <2>3, <2>4 DEF Unannounced, KindOf
        <3>3. \A p \in ArgPipes \ {q} : Unannounced(p)' = Unannounced(p)
            BY <2>2, <2>3, <2>4 DEF Unannounced, KindOf
        <3>4. /\ arg_pipe' = [arg_pipe EXCEPT ![q] = Append(@, Ordinal(t))]
              /\ UNCHANGED <<notified, fetched, cur>>
            BY <1>6, <2>3, <2>4 DEF PushFirst
        <3> HIDE DEF q
        <3> QED
            BY <3>1, <3>2, <3>3, <3>4, ArgPush
    <2>5. CASE kind[t] = "0x01"
        <3> DEFINE q == "flow_state_pipe"
        <3>1. q \in ArgPipes /\ kind[t] = KindOf(q) /\ Unannounced(q) = 0
            BY <2>2, <2>5 DEF ArgPipes, KindOf
        <3>2. Unannounced(q)' = 1
            BY <2>3, <2>5 DEF Unannounced
        <3>3. \A p \in ArgPipes \ {q} : Unannounced(p)' = Unannounced(p)
            BY <2>2, <2>3, <2>5 DEF Unannounced
        <3>4. /\ arg_pipe' = [arg_pipe EXCEPT ![q] = Append(@, Ordinal(t))]
              /\ UNCHANGED <<notified, fetched, cur>>
            BY <1>6, <2>3, <2>5 DEF PushFirst
        <3> HIDE DEF q
        <3> QED
            BY <3>1, <3>2, <3>3, <3>4, ArgPush
    <2> QED
        BY <2>1, <2>4, <2>5
<1>7. ASSUME NEW t \in Threads, push_thread_idx(t) PROVE ArgInv'
    <2> DEFINE q == "thread_idx_pipe"
    <2>1. q \in ArgPipes /\ kind[t] = KindOf(q)
        BY <1>7 DEF ArgPipes, KindOf, push_thread_idx, MutexInv
    <2>2. evtloop_mtx = {t}
        BY <1>7 DEF MutexInv, push_thread_idx, TypeOK
    <2>3. Unannounced(q) = 0 /\ Unannounced(q)' = 1
        BY <1>7, <2>1, <2>2 DEF TypeOK, push_thread_idx, Unannounced
    <2>4. \A p \in ArgPipes \ {q} : Unannounced(p)' = Unannounced(p)
        BY <1>7, <2>1, <2>2 DEF TypeOK, push_thread_idx, Unannounced, ArgPipes, KindOf
    <2>5. /\ arg_pipe' = [arg_pipe EXCEPT ![q] = Append(@, Ordinal(t))]
          /\ UNCHANGED <<notified, fetched, cur>>
        BY <1>7 DEF push_thread_idx, Reader
    <2> HIDE DEF q
    <2> QED
        BY <2>1, <2>3, <2>4, <2>5, ArgPush
<1>8. ASSUME NEW t \in Threads, notify_EvtLoop(t) PROVE ArgInv'
    <2>1. evtloop_mtx = {t}
        BY <1>8 DEF MutexInv, notify_EvtLoop, TypeOK
    <2>2. \A p \in ArgPipes : Popped(p)' = Popped(p)
        BY <1>8 DEF notify_EvtLoop, Reader, Popped, Unpopped
    <2>3. ASSUME NEW p \in ArgPipes
          PROVE  notified'[KindOf(p)] + Unannounced(p)' = notified[KindOf(p)] + Unannounced(p)
        <3>1. KindOf(p) \in Kinds /\ notified[KindOf(p)] \in Nat
            BY Pipes DEF TypeOK
        <3>2. Unannounced(p)' = 0
            BY <1>8, <2>1 DEF TypeOK, notify_EvtLoop, Unannounced
        <3>3. CASE kind[t] = KindOf(p)
            <4>1. Unannounced(p) = 1
                BY <1>8, <2>1, <3>3 DEF notify_EvtLoop, Unannounced
            <4>2. notified'[KindOf(p)] = notified[KindOf(p)] + 1
                BY <1>8, <3>1, <3>3 DEF notify_EvtLoop, TypeOK
            <4> QED
                BY <3>1, <3>2, <4>1, <4>2
        <3>4. CASE kind[t] # KindOf(p)
            <4>1. Unannounced(p) = 0
                BY <1>8, <2>1, <3>4 DEF notify_EvtLoop, Unannounced
            <4>2. notified'[KindOf(p)] = notified[KindOf(p)]
                BY <1>8, <3>1, <3>4 DEF notify_EvtLoop, TypeOK
            <4> QED
                BY <3>2, <4>1, <4>2
        <3> QED
            BY <3>3, <3>4
    <2> QED
        <3>1. arg_pipe' = arg_pipe
            BY <1>8 DEF notify_EvtLoop
        <3> QED
            <4>1. ASSUME NEW p \in ArgPipes
                  PROVE  Len(arg_pipe[p]) = notified'[KindOf(p)] + Unannounced(p)' - Popped(p)
                <5>1. Len(arg_pipe[p]) = notified[KindOf(p)] + Unannounced(p) - Popped(p)
                    BY DEF ArgInv
                <5>2. notified'[KindOf(p)] + Unannounced(p)' = notified[KindOf(p)] + Unannounced(p)
                    BY <2>3, Zenon
                <5>3. /\ notified[KindOf(p)] \in Int /\ notified'[KindOf(p)] \in Int
                      /\ Unannounced(p) \in Int /\ Unannounced(p)' \in Int
                      /\ Popped(p) \in Int
                    <6>1. KindOf(p) \in Kinds
                        BY Pipes
                    <6>2. notified[KindOf(p)] \in Int /\ fetched[KindOf(p)] \in Int
                        BY <6>1 DEF TypeOK
                    <6>3. notified'[KindOf(p)] \in Int
                        BY <6>1, NextTypeOK DEF TypeOK
                    <6> QED
                        BY <6>2, <6>3 DEF Unannounced, Popped, Unpopped
                <5> QED
                    BY <5>1, <5>2, <5>3
            <4> QED
                BY <2>2, <3>1, <4>1 DEF ArgInv
<1>9. ASSUME NEW t \in Threads, Unlock(t) PROVE ArgInv'
    <2>1. \A p \in ArgPipes : Unannounced(p)' = Unannounced(p)
        BY <1>9 DEF TypeOK, MutexInv, Unlock, Unannounced
    <2> QED
        BY <1>9, <2>1, ArgStutter DEF Unlock, Reader
<1>11. CASE process_events
    <2> DEFINE k == Head(evtloop_pipe).kind
    <2>1. k \in Kinds
        <3>1. Head(evtloop_pipe) \in Request
            BY <1>11, TailShifts DEF process_events, TypeOK
        <3> QED
            BY <3>1 DEF Request
    <2>2. fetched' = [fetched EXCEPT ![k] = fetched[k] + 1]
        BY <1>11 DEF process_events
    <2>3. cur = "idle" /\ cur' = IF Dropped(k) THEN "idle" ELSE AfterRead(k)
        BY <1>11 DEF process_events
    <2> HIDE DEF k
    <2>4. ASSUME NEW p \in ArgPipes PROVE Popped(p)' = Popped(p)
        <3>1. fetched[KindOf(p)] \in Nat
            BY Pipes DEF TypeOK
        <3>2. Unpopped(p) = 0
            BY <2>3 DEF Unpopped
        <3>3. CASE k = KindOf(p)
            <4>1. cur' = IF p = "chan_num_pipe" THEN "pop_chan" ELSE "pop_tid"
                BY <2>3, <3>3 DEF Dropped, ServedAtPowerOff, AfterRead, KindOf
            <4>2. Unpopped(p)' = 1
                BY <4>1 DEF Unpopped
            <4>3. fetched'[KindOf(p)] = fetched[KindOf(p)] + 1
                BY <2>1, <2>2, <3>3 DEF TypeOK
            <4> QED
                BY <3>1, <3>2, <4>2, <4>3 DEF Popped
        <3>4. CASE k # KindOf(p)
            <4>1. Unpopped(p)' = 0
                BY <2>3, <3>4 DEF Dropped, AfterRead, Unpopped, KindOf, ArgPipes
            <4>2. fetched'[KindOf(p)] = fetched[KindOf(p)]
                BY <2>1, <2>2, <3>4, Pipes DEF TypeOK
            <4> QED
                BY <3>2, <4>1, <4>2 DEF Popped
        <3> QED
            BY <3>3, <3>4
    <2>5. \A p \in ArgPipes : Unannounced(p)' = Unannounced(p)
        BY <1>11 DEF process_events, Writers, Unannounced
    <2>6. arg_pipe' = arg_pipe /\ notified' = notified
        BY <1>11 DEF process_events, Writers
    <2> QED
        BY <2>4, <2>5, <2>6 DEF ArgInv
<1>12. ASSUME NEW p \in ArgPipes, NEW here, NEW next, Pop(p, here, next),
              Unpopped(p) = 1, Unpopped(p)' = 0,
              \A q \in ArgPipes \ {p} : Unpopped(q)' = Unpopped(q)
       PROVE  ArgInv'
    <2>1. \A q \in ArgPipes : Unannounced(q)' = Unannounced(q)
        BY <1>12 DEF Pop, Writers, Unannounced
    <2>2. /\ arg_pipe[p] # <<>>
          /\ arg_pipe' = [arg_pipe EXCEPT ![p] = Tail(@)]
          /\ UNCHANGED <<notified, fetched>>
        BY <1>12 DEF Pop, Writers
    <2> QED
        BY <1>12, <2>1, <2>2, ArgPop
<1>13. CASE pop_thread_idx
    BY <1>12, <1>13 DEF pop_thread_idx, Pop, Unpopped, ArgPipes
<1>14. CASE pop_flow_state
    BY <1>12, <1>14 DEF pop_flow_state, Pop, Unpopped, ArgPipes
<1>15. CASE pop_ChannelNum
    BY <1>12, <1>15 DEF pop_ChannelNum, Pop, Unpopped, ArgPipes
<1>16. CASE Serve
    <2>1. \A p \in ArgPipes : Popped(p)' = Popped(p) /\ Unannounced(p)' = Unannounced(p)
        BY <1>16 DEF Serve, Popped, Unpopped, Unannounced, Writers
    <2> QED
        BY <1>16, <2>1 DEF ArgInv, Serve, Writers
<1>17. CASE PowerOff \/ UNCHANGED vars
    <2>1. \A p \in ArgPipes : Unannounced(p)' = Unannounced(p)
        BY <1>17 DEF PowerOff, vars, Unannounced
    <2> QED
        BY <1>17, <2>1, ArgStutter DEF PowerOff, vars
<1> QED
    BY <1>1, <1>2, <1>3, <1>4, <1>5, <1>6, <1>7, <1>8, <1>9, <1>11, <1>13, <1>14,
       <1>15, <1>16, <1>17 DEF Next, ThreadStep, ReaderStep, Quiescent

\* Notifying a request with the next ordinal of its kind keeps evtloop_pipe complete.
LEMMA EvtAppend ==
    ASSUME TypeOK, EvtInv, NEW r \in Request, r.n = notified[r.kind] + 1,
           evtloop_pipe' = Append(evtloop_pipe, r),
           notified' = [notified EXCEPT ![r.kind] = @ + 1], fetched' = fetched
    PROVE  EvtInv'
<1> DEFINE N == Len(evtloop_pipe)
<1>1. /\ evtloop_pipe \in Seq(Request) /\ N \in Nat /\ Len(evtloop_pipe') = N + 1
      /\ evtloop_pipe'[N + 1] = r /\ \A i \in 1 .. N : evtloop_pipe'[i] = evtloop_pipe[i]
    <2>1. evtloop_pipe \in Seq(Request)
        BY DEF TypeOK
    <2> HIDE DEF Request
    <2> QED
        BY <2>1
<1>2. /\ r.kind \in Kinds /\ r.n \in Nat
      /\ \A i \in 1 .. N : evtloop_pipe[i].kind \in Kinds /\ evtloop_pipe[i].n \in Nat
    <2>1. \A i \in 1 .. N : evtloop_pipe[i] \in Request
        BY <1>1
    <2> QED
        BY <2>1 DEF Request
<1>3. \A k \in Kinds : /\ notified[k] \in Nat /\ fetched[k] \in Nat
                       /\ notified'[k] = IF k = r.kind THEN notified[k] + 1 ELSE notified[k]
    BY <1>2 DEF TypeOK
<1>4. \A k \in Kinds : fetched'[k] <= notified'[k]
    BY <1>3 DEF EvtInv
<1>5. ASSUME NEW i \in 1 .. N + 1
      PROVE  /\ evtloop_pipe'[i].n > fetched'[evtloop_pipe'[i].kind]
             /\ evtloop_pipe'[i].n <= notified'[evtloop_pipe'[i].kind]
    <2>1. CASE i = N + 1
        BY <1>1, <1>2, <1>3, <2>1 DEF EvtInv
    <2>2. CASE i \in 1 .. N
        BY <1>1, <1>2, <1>3, <2>2 DEF EvtInv
    <2> QED
        BY <1>1, <2>1, <2>2
<1>6. ASSUME NEW i \in 1 .. N + 1, NEW j \in 1 .. N + 1, i < j,
             evtloop_pipe'[i].kind = evtloop_pipe'[j].kind
      PROVE  evtloop_pipe'[i].n < evtloop_pipe'[j].n
    <2>1. i \in 1 .. N
        BY <1>1, <1>6
    <2>2. CASE j = N + 1
        <3>1. evtloop_pipe[i].n <= notified[evtloop_pipe[i].kind]
            BY <2>1 DEF EvtInv
        <3> QED
            BY <1>1, <1>2, <1>3, <1>6, <2>1, <2>2, <3>1
    <2>3. CASE j \in 1 .. N
        BY <1>1, <1>6, <2>1, <2>3 DEF EvtInv
    <2> QED
        BY <1>1, <2>2, <2>3
<1>7. ASSUME NEW k \in Kinds, NEW m \in fetched'[k] + 1 .. notified'[k]
      PROVE  \E i \in 1 .. N + 1 : evtloop_pipe'[i].kind = k /\ evtloop_pipe'[i].n = m
    <2>1. CASE m \in fetched[k] + 1 .. notified[k]
        <3>1. PICK i \in 1 .. N : evtloop_pipe[i].kind = k /\ evtloop_pipe[i].n = m
            BY <2>1 DEF EvtInv
        <3> QED
            BY <1>1, <3>1
    <2>2. CASE m \notin fetched[k] + 1 .. notified[k]
        <3>1. k = r.kind /\ m = notified[k] + 1
            BY <1>3, <1>7, <2>2
        <3> QED
            BY <1>1, <3>1
    <2> QED
        BY <2>1, <2>2
<1> QED
    BY <1>1, <1>4, <1>5, <1>6, <1>7 DEF EvtInv

\* The request read is the oldest unread one of its kind, and reading it keeps
\* evtloop_pipe complete.
LEMMA EvtFetch ==
    ASSUME TypeOK, EvtInv, evtloop_pipe # <<>>, evtloop_pipe' = Tail(evtloop_pipe),
           notified' = notified,
           fetched' = [fetched EXCEPT ![Head(evtloop_pipe).kind] = @ + 1]
    PROVE  EvtInv' /\ Head(evtloop_pipe).n = fetched'[Head(evtloop_pipe).kind]
<1> DEFINE N == Len(evtloop_pipe)
           r == evtloop_pipe[1]
<1>1. /\ evtloop_pipe \in Seq(Request) /\ N \in Nat \ {0} /\ Len(evtloop_pipe') = N - 1
      /\ \A i \in 1 .. N - 1 : i + 1 \in 1 .. N /\ evtloop_pipe'[i] = evtloop_pipe[i + 1]
    <2>1. evtloop_pipe \in Seq(Request)
        BY DEF TypeOK
    <2>2. /\ N \in Nat \ {0} /\ Len(Tail(evtloop_pipe)) = N - 1
          /\ \A i \in 1 .. Len(Tail(evtloop_pipe)) :
                 i + 1 \in 1 .. N /\ Tail(evtloop_pipe)[i] = evtloop_pipe[i + 1]
        BY <2>1, TailShifts, Zenon
    <2> QED
        BY <2>1, <2>2
<1>2. Head(evtloop_pipe) = r /\ 1 \in 1 .. N
    BY <1>1
<1>3. \A i \in 1 .. N : evtloop_pipe[i].kind \in Kinds /\ evtloop_pipe[i].n \in Nat
    <2>1. \A i \in 1 .. N : evtloop_pipe[i] \in Request
        BY <1>1
    <2> QED
        BY <2>1 DEF Request
<1>4. \A k \in Kinds : notified[k] \in Nat /\ fetched[k] \in Nat
    BY DEF TypeOK
<1>5. r.kind \in Kinds /\ r.n \in Nat
    BY <1>2, <1>3
<1>6. \A k \in Kinds : fetched'[k] = IF k = r.kind THEN fetched[k] + 1 ELSE fetched[k]
    BY <1>2, <1>5 DEF TypeOK
<1>7. r.n = fetched[r.kind] + 1
    <2>1. r.n > fetched[r.kind] /\ r.n <= notified[r.kind]
        BY <1>2 DEF EvtInv
    <2>2. fetched[r.kind] + 1 \in fetched[r.kind] + 1 .. notified[r.kind]
        BY <1>4, <1>5, <2>1
    <2>3. PICK i \in 1 .. N : evtloop_pipe[i].kind = r.kind
                              /\ evtloop_pipe[i].n = fetched[r.kind] + 1
        BY <1>5, <2>2 DEF EvtInv
    <2>4. CASE i = 1
        BY <2>3, <2>4
    <2>5. CASE i # 1
        <3>1. 1 < i
            BY <1>1, <2>5
        <3>2. r.n < evtloop_pipe[i].n
            BY <1>2, <2>3, <3>1 DEF EvtInv
        <3> QED
            BY <1>4, <1>5, <2>1, <2>3, <3>2
    <2> QED
        BY <2>4, <2>5
<1>8. ASSUME NEW i \in 1 .. N - 1
      PROVE  /\ evtloop_pipe'[i].n > fetched'[evtloop_pipe'[i].kind]
             /\ evtloop_pipe'[i].n <= notified'[evtloop_pipe'[i].kind]
    <2>1. i + 1 \in 1 .. N /\ evtloop_pipe'[i] = evtloop_pipe[i + 1] /\ 1 < i + 1
        BY <1>1
    <2>2. evtloop_pipe[i + 1].kind \in Kinds /\ evtloop_pipe[i + 1].n \in Nat
        BY <1>3, <2>1
    <2>3. /\ evtloop_pipe[i + 1].n > fetched[evtloop_pipe[i + 1].kind]
          /\ evtloop_pipe[i + 1].n <= notified[evtloop_pipe[i + 1].kind]
          /\ evtloop_pipe[i + 1].kind = r.kind => r.n < evtloop_pipe[i + 1].n
        BY <1>2, <2>1 DEF EvtInv
    <2> QED
        BY <1>4, <1>5, <1>6, <1>7, <2>1, <2>2, <2>3
<1>9. ASSUME NEW i \in 1 .. N - 1, NEW j \in 1 .. N - 1, i < j,
             evtloop_pipe'[i].kind = evtloop_pipe'[j].kind
      PROVE  evtloop_pipe'[i].n < evtloop_pipe'[j].n
    <2>1. i + 1 \in 1 .. N /\ j + 1 \in 1 .. N /\ i + 1 < j + 1
        BY <1>1, <1>9
    <2> QED
        BY <1>1, <1>9, <2>1 DEF EvtInv
<1>10. ASSUME NEW k \in Kinds, NEW m \in fetched'[k] + 1 .. notified[k]
       PROVE  \E i \in 1 .. N - 1 : evtloop_pipe'[i].kind = k /\ evtloop_pipe'[i].n = m
    <2>1. m \in fetched[k] + 1 .. notified[k] /\ (k = r.kind => m # r.n)
        BY <1>4, <1>5, <1>6, <1>7
    <2>2. PICK i \in 1 .. N : evtloop_pipe[i].kind = k /\ evtloop_pipe[i].n = m
        BY <2>1 DEF EvtInv
    <2>3. i # 1
        BY <2>1, <2>2
    <2>4. i - 1 \in 1 .. N - 1 /\ (i - 1) + 1 = i
        BY <1>1, <2>3
    <2>5. evtloop_pipe'[i - 1] = evtloop_pipe[i]
        BY <1>1, <2>4
    <2> QED
        BY <2>2, <2>4, <2>5
<1>11. \A k \in Kinds : fetched'[k] <= notified'[k]
    <2>1. r.n <= notified[r.kind]
        BY <1>2 DEF EvtInv
    <2> QED
        BY <1>4, <1>5, <1>6, <1>7, <2>1 DEF EvtInv
<1>12. Head(evtloop_pipe).n = fetched'[Head(evtloop_pipe).kind]
    BY <1>2, <1>4, <1>5, <1>6, <1>7
<1> QED
    BY <1>1, <1>8, <1>9, <1>10, <1>11, <1>12 DEF EvtInv

\* Every step keeps evtloop_pipe complete and in order.
LEMMA NextEvtInv == TypeOK /\ MutexInv /\ EvtInv /\ [Next]_vars => EvtInv'
<1> SUFFICES ASSUME TypeOK, MutexInv, EvtInv, [Next]_vars PROVE EvtInv'
    OBVIOUS
<1>1. CASE UNCHANGED <<evtloop_pipe, notified, fetched>>
    BY <1>1 DEF EvtInv
<1>2. ASSUME NEW t \in Threads, ThreadStep(t), ~ notify_EvtLoop(t) PROVE EvtInv'
    BY <1>1, <1>2 DEF ThreadStep, ResetBuffer, Lock, LockReport, Encode, LockRequest,
       PushFirst, push_thread_idx, Unlock, Reader
<1>3. ASSUME NEW t \in Threads, notify_EvtLoop(t) PROVE EvtInv'
    <2> DEFINE r == [kind |-> kind[t], from |-> t, n |-> Ordinal(t), report |-> reports[t]]
    <2>1. /\ r \in Request /\ r.n = notified[r.kind] + 1
          /\ r.kind = kind[t]
        BY DEF TypeOK, Request, Ordinal
    <2>2. /\ evtloop_pipe' = Append(evtloop_pipe, r)
          /\ notified' = [notified EXCEPT ![r.kind] = @ + 1] /\ fetched' = fetched
        BY <1>3 DEF notify_EvtLoop, Reader
    <2> HIDE DEF r
    <2> QED
        BY <2>1, <2>2, EvtAppend
<1>5. CASE process_events
    BY <1>5, EvtFetch DEF process_events, Writers
<1>6. CASE pop_thread_idx \/ pop_flow_state \/ pop_ChannelNum \/ Serve \/ PowerOff
           \/ UNCHANGED vars
    BY <1>1, <1>6 DEF pop_thread_idx, pop_flow_state, pop_ChannelNum, Pop, Serve, PowerOff,
       Writers, vars
<1> QED
    BY <1>2, <1>3, <1>5, <1>6 DEF Next, ReaderStep, Quiescent

\* What process_events() has read and popped so far belongs to one request.
LEMMA NextCurInv ==
    TypeOK /\ MutexInv /\ ArgInv /\ EvtInv /\ CurInv /\ [Next]_vars => CurInv'
<1> SUFFICES ASSUME TypeOK, MutexInv, ArgInv, EvtInv, CurInv, [Next]_vars PROVE CurInv'
    OBVIOUS
<1>1. CASE UNCHANGED <<cur, cur_req, popped_arg, fetched>>
    BY <1>1 DEF CurInv, PopsMatchRequest
<1>2. ASSUME NEW t \in Threads, ThreadStep(t) PROVE CurInv'
    BY <1>1, <1>2 DEF ThreadStep, ResetBuffer, Lock, LockReport, Encode, LockRequest,
       PushFirst, push_thread_idx, notify_EvtLoop, Unlock, Reader
<1>3. CASE process_events
    <2> DEFINE r == Head(evtloop_pipe)
    <2>1. r \in Request
        BY <1>3, TailShifts DEF process_events, TypeOK
    <2>2. r.n = fetched'[r.kind]
        BY <1>3, EvtFetch DEF process_events, Writers
    <2>3. fetched[r.kind] \in Nat /\ fetched'[r.kind] = fetched[r.kind] + 1
        BY <1>3, <2>1 DEF process_events, TypeOK, Request
    <2>4. cur_req' = r /\ cur' = IF Dropped(r.kind) THEN "idle" ELSE AfterRead(r.kind)
        BY <1>3 DEF process_events
    <2> HIDE DEF r
    <2>5. cur' = "serve" => r.kind \notin {"0x01", "0x02"}
        BY <2>4 DEF AfterRead
    <2>6. \A p \in ArgPipes : KindOf(p) \in {"0x01", "0x02"}
        BY DEF KindOf
    <2> QED
        BY <2>2, <2>3, <2>4, <2>5, <2>6 DEF CurInv, PopsMatchRequest, AfterRead
<1>4. ASSUME NEW p \in ArgPipes, NEW here, NEW next, Pop(p, here, next),
             Unpopped(p) = 1, Unpopped(p)' = 0,
             \A q \in ArgPipes \ {p} : Unpopped(q)' = Unpopped(q)
      PROVE  popped_arg'[p] = fetched[KindOf(p)]
    <2>1. \A q \in ArgPipes : Unannounced(q)' = Unannounced(q)
        BY <1>4 DEF Pop, Writers, Unannounced
    <2>2. /\ arg_pipe[p] # <<>>
          /\ arg_pipe' = [arg_pipe EXCEPT ![p] = Tail(@)]
          /\ UNCHANGED <<notified, fetched>>
        BY <1>4 DEF Pop, Writers
    <2>3. Head(arg_pipe[p]) = fetched[KindOf(p)]
        BY <1>4, <2>1, <2>2, ArgPop
    <2> QED
        BY <1>4, <2>3 DEF Pop, TypeOK
<1>5. CASE pop_thread_idx
    <2>1. popped_arg'["thread_idx_pipe"] = fetched["0x01"]
        BY <1>4, <1>5, Pipes DEF pop_thread_idx, Pop, Unpopped, ArgPipes
    <2> QED
        BY <1>5, <2>1 DEF pop_thread_idx, Pop, CurInv, PopsMatchRequest
<1>6. CASE pop_flow_state
    <2>1. popped_arg'["flow_state_pipe"] = fetched["0x01"]
        BY <1>4, <1>6, Pipes DEF pop_flow_state, Pop, Unpopped, ArgPipes
    <2>2. popped_arg'["thread_idx_pipe"] = popped_arg["thread_idx_pipe"]
        BY <1>6 DEF pop_flow_state, Pop, TypeOK, ArgPipes
    <2> QED
        BY <1>6, <2>1, <2>2 DEF pop_flow_state, Pop, CurInv, PopsMatchRequest, ArgPipes, KindOf
<1>7. CASE pop_ChannelNum
    <2>1. popped_arg'["chan_num_pipe"] = fetched["0x02"]
        BY <1>4, <1>7, Pipes DEF pop_ChannelNum, Pop, Unpopped, ArgPipes
    <2> QED
        BY <1>7, <2>1 DEF pop_ChannelNum, Pop, CurInv, PopsMatchRequest, KindOf, ArgPipes
<1>8. CASE Serve
    BY <1>8 DEF Serve, CurInv, PopsMatchRequest, Writers
<1>9. CASE PowerOff \/ UNCHANGED vars
    BY <1>1, <1>9 DEF Reader, PowerOff, vars
<1> QED
    BY <1>2, <1>3, <1>5, <1>6, <1>7, <1>8, <1>9 DEF Next, ReaderStep, Quiescent

\* The requests come from threads.
LEMMA FromThreads ==
    ASSUME TypeOK
    PROVE  /\ \A i \in 1 .. Len(evtloop_pipe) : evtloop_pipe[i].from \in Threads
           /\ cur_req.from \in Threads
<1>1. \A i \in 1 .. Len(evtloop_pipe) : evtloop_pipe[i] \in Request
    BY DEF TypeOK
<1> QED
    BY <1>1 DEF TypeOK, Request

\* The buffers and the requests for reports are as they should be after a step that touches
\* neither, encodes nothing and notifies nothing.
LEMMA BufInvStays ==
    ASSUME TypeOK, BufInv, UNCHANGED <<evtloop_pipe, cur_req, rsmp_buffer, reports>>,
           \A t \in Threads : pc'[t] = "encode" <=> pc[t] = "encode",
           \A t \in Threads : Preparing(t) => Preparing(t)'
    PROVE  BufInv'
<1>1. \A t \in Threads : \A r, i : NewestFollows(t, r, i) => NewestFollows(t, r, i)'
    BY DEF NewestFollows
<1> QED
    BY <1>1, FromThreads DEF BufInv

\* A buffer holds the newest report of its thread, whose request is not notified yet or
\* follows every other of the thread.
LEMMA NextBufInv == TypeOK /\ MutexInv /\ BufInv /\ [Next]_vars => BufInv'
<1> SUFFICES ASSUME TypeOK, MutexInv, BufInv, [Next]_vars PROVE BufInv'
    OBVIOUS
<1> DEFINE N == Len(evtloop_pipe)
<1>1. evtloop_pipe \in Seq(Request) /\ N \in Nat
    BY DEF TypeOK
<1>2. pc \in [Threads -> {"idle", "encode", "lock", "push", "push_tid", "notify", "unlock"}]
    BY DEF TypeOK
<1>3. CASE UNCHANGED <<evtloop_pipe, cur_req, rsmp_buffer, reports, pc, kind>>
    BY <1>3, BufInvStays DEF Preparing
<1>4. ASSUME NEW t \in Threads, ResetBuffer(t) \/ LockReport(t) PROVE BufInv'
    <2>1. /\ pc[t] = "idle" /\ pc' = [pc EXCEPT ![t] = "encode"]
          /\ kind' = [kind EXCEPT ![t] = "0x01"]
          /\ rsmp_buffer' = [rsmp_buffer EXCEPT ![t] = Freed]
          /\ UNCHANGED <<evtloop_pipe, cur_req, reports>>
        BY <1>4 DEF ResetBuffer, LockReport, Reader
    <2>2. \A u \in Threads : Preparing(u) => Preparing(u)'
        BY <1>2, <2>1 DEF Preparing, TypeOK
    <2>3. \A u \in Threads : \A r, i : NewestFollows(u, r, i) => NewestFollows(u, r, i)'
        BY <2>1, <2>2 DEF NewestFollows
    <2>4. \A u \in Threads : rsmp_buffer'[u] = IF pc'[u] = "encode" THEN Freed ELSE reports'[u]
        BY <1>2, <2>1 DEF BufInv, TypeOK
    <2> QED
        BY <2>1, <2>3, <2>4, FromThreads DEF BufInv
<1>5. ASSUME NEW t \in Threads, Encode(t) PROVE BufInv'
    <2>1. /\ pc[t] = "encode" /\ kind[t] = "0x01"
          /\ pc' = [pc EXCEPT ![t] = IF t \in evtloop_mtx THEN "push" ELSE "lock"]
          /\ reports' = [reports EXCEPT ![t] = @ + 1]
          /\ rsmp_buffer' = [rsmp_buffer EXCEPT ![t] = reports[t] + 1]
          /\ UNCHANGED <<evtloop_pipe, cur_req, kind>>
        BY <1>5 DEF Encode, Reader, MutexInv
    <2>2. Preparing(t)'
        BY <1>2, <2>1 DEF Preparing
    <2>3. \A u \in Threads : u # t => pc'[u] = pc[u] /\ reports'[u] = reports[u]
        BY <1>2, <2>1 DEF TypeOK
    <2>4. \A u \in Threads : Preparing(u) => Preparing(u)'
        BY <2>1, <2>2, <2>3 DEF Preparing
    <2>5. \A u \in Threads : \A r, i : NewestFollows(u, r, i) => NewestFollows(u, r, i)'
        BY <2>1, <2>2, <2>3, <2>4 DEF NewestFollows
    <2>6. \A u \in Threads : rsmp_buffer'[u] = IF pc'[u] = "encode" THEN Freed ELSE reports'[u]
        BY <1>2, <2>1 DEF BufInv, TypeOK
    <2> QED
        BY <2>1, <2>5, <2>6, FromThreads DEF BufInv
<1>6. ASSUME NEW t \in Threads, notify_EvtLoop(t) PROVE BufInv'
    <2> DEFINE q == [kind |-> kind[t], from |-> t, n |-> Ordinal(t), report |-> reports[t]]
    <2>1. /\ pc[t] = "notify" /\ pc' = [pc EXCEPT ![t] = "unlock"]
          /\ evtloop_pipe' = Append(evtloop_pipe, q)
          /\ UNCHANGED <<cur_req, kind, rsmp_buffer, reports>>
        BY <1>6 DEF notify_EvtLoop, Reader
    <2>2. q.kind = kind[t] /\ q.from = t /\ q.report = reports[t]
        OBVIOUS
    <2> HIDE DEF q
    <2>3. /\ Len(evtloop_pipe') = N + 1 /\ evtloop_pipe'[N + 1] = q
          /\ \A i \in 1 .. N : evtloop_pipe'[i] = evtloop_pipe[i]
        BY <1>1, <2>1
    <2>4. \A u \in Threads : Preparing(u) => Preparing(u)' \/ (u = t /\ kind[t] = "0x01")
        BY <1>2, <2>1 DEF Preparing
    <2>5. ASSUME NEW u \in Threads, NEW r, NEW i \in 0 .. N, NewestFollows(u, r, i)
          PROVE  NewestFollows(u, r, i)'
        <3>1. CASE r = reports[u] \/ Preparing(u)'
            BY <2>1, <3>1 DEF NewestFollows
        <3>2. CASE u = t /\ kind[t] = "0x01"
            <4>1. N + 1 \in i + 1 .. Len(evtloop_pipe')
                BY <1>1, <2>3
            <4> QED
                BY <2>1, <2>2, <2>3, <3>2, <4>1 DEF NewestFollows
        <3>3. ASSUME NEW j \in i + 1 .. N, evtloop_pipe[j].kind = "0x01",
                     evtloop_pipe[j].from = u, evtloop_pipe[j].report = reports[u]
              PROVE  NewestFollows(u, r, i)'
            <4>1. j \in i + 1 .. Len(evtloop_pipe') /\ evtloop_pipe'[j] = evtloop_pipe[j]
                BY <1>1, <2>3
            <4> QED
                BY <2>1, <3>3, <4>1 DEF NewestFollows
        <3> QED
            BY <2>4, <2>5, <3>1, <3>2, <3>3 DEF NewestFollows
    <2>6. ASSUME NEW i \in 1 .. N, evtloop_pipe'[i].kind = "0x01"
          PROVE  NewestFollows(evtloop_pipe[i].from, evtloop_pipe[i].report, i)'
        <3>1. i \in 0 .. N /\ evtloop_pipe'[i] = evtloop_pipe[i]
            BY <1>1, <2>3
        <3>2. PICK u, r : u \in Threads /\ u = evtloop_pipe[i].from /\ r = evtloop_pipe[i].report
            BY FromThreads
        <3>3. NewestFollows(u, r, i)'
            BY <2>5, <2>6, <3>1, <3>2 DEF BufInv
        <3> QED
            BY <3>1, <3>2, <3>3 DEF NewestFollows
    <2>7. ASSUME NEW i, i = N + 1
          PROVE  NewestFollows(evtloop_pipe[i].from, evtloop_pipe[i].report, i)'
        BY <2>1, <2>2, <2>3, <2>7 DEF NewestFollows
    <2>8. ASSUME cur_req'.kind = "0x01"
          PROVE  NewestFollows(cur_req.from, cur_req.report, 0)'
        <3>1. 0 \in 0 .. N
            BY <1>1
        <3>2. PICK u, r : u \in Threads /\ u = cur_req.from /\ r = cur_req.report
            BY FromThreads
        <3>3. NewestFollows(u, r, 0)'
            BY <2>1, <2>5, <2>8, <3>1, <3>2 DEF BufInv
        <3> QED
            BY <2>1, <3>2, <3>3 DEF NewestFollows
    <2>9. \A u \in Threads : rsmp_buffer'[u] = IF pc'[u] = "encode" THEN Freed ELSE reports'[u]
        BY <1>2, <2>1 DEF BufInv
    <2>10. \A i \in 1 .. Len(evtloop_pipe') : i \in 1 .. N \/ i = N + 1
        BY <1>1, <2>3
    <2> QED
        BY <2>6, <2>7, <2>8, <2>9, <2>10 DEF BufInv
<1>7. CASE process_events
    <2>1. /\ Head(evtloop_pipe) = evtloop_pipe[1] /\ 1 \in 1 .. N
          /\ Len(evtloop_pipe') = N - 1
          /\ \A i \in 1 .. Len(evtloop_pipe') : /\ i + 1 \in 1 .. N
                                                /\ evtloop_pipe'[i] = evtloop_pipe[i + 1]
        <3>1. evtloop_pipe # <<>> /\ evtloop_pipe' = Tail(evtloop_pipe)
            BY <1>7 DEF process_events
        <3>2. /\ Len(evtloop_pipe) \in Nat \ {0} /\ Len(Tail(evtloop_pipe)) = N - 1
              /\ Head(evtloop_pipe) = evtloop_pipe[1]
              /\ \A i \in 1 .. Len(Tail(evtloop_pipe)) :
                     i + 1 \in 1 .. N /\ Tail(evtloop_pipe)[i] = evtloop_pipe[i + 1]
            BY <1>1, <3>1, TailShifts, Zenon
        <3> QED
            BY <3>1, <3>2
    <2>2. cur_req' = Head(evtloop_pipe) /\ UNCHANGED <<rsmp_buffer, reports, pc, kind>>
        BY <1>7 DEF process_events, Writers
    <2>3. \A u \in Threads : Preparing(u)' <=> Preparing(u)
        BY <2>2 DEF Preparing
    <2>4. ASSUME NEW u \in Threads, NEW r, NEW i \in 0 .. N - 1, NewestFollows(u, r, i + 1)
          PROVE  NewestFollows(u, r, i)'
        <3>1. ASSUME NEW j \in (i + 1) + 1 .. N, evtloop_pipe[j].kind = "0x01",
                     evtloop_pipe[j].from = u, evtloop_pipe[j].report = reports[u]
              PROVE  NewestFollows(u, r, i)'
            <4>1. j - 1 \in i + 1 .. Len(evtloop_pipe') /\ j - 1 \in 1 .. Len(evtloop_pipe')
                BY <1>1, <2>1
            <4>2. evtloop_pipe'[j - 1] = evtloop_pipe[(j - 1) + 1] /\ (j - 1) + 1 = j
                BY <2>1, <4>1
            <4> QED
                BY <2>2, <3>1, <4>1, <4>2 DEF NewestFollows
        <3> QED
            BY <2>2, <2>3, <2>4, <3>1 DEF NewestFollows
    <2>5. ASSUME NEW i \in 1 .. Len(evtloop_pipe'), evtloop_pipe'[i].kind = "0x01"
          PROVE  NewestFollows(evtloop_pipe[i].from, evtloop_pipe[i].report, i)'
        <3>1. i \in 0 .. N - 1 /\ i + 1 \in 1 .. N /\ evtloop_pipe'[i] = evtloop_pipe[i + 1]
            BY <1>1, <2>1
        <3>2. PICK u, r : /\ u \in Threads /\ u = evtloop_pipe[i + 1].from
                          /\ r = evtloop_pipe[i + 1].report
            BY <3>1, FromThreads
        <3>3. NewestFollows(u, r, i + 1)
            BY <2>5, <3>1, <3>2 DEF BufInv
        <3>4. NewestFollows(u, r, i)'
            BY <2>4, <3>1, <3>2, <3>3
        <3> QED
            BY <3>1, <3>2, <3>4 DEF NewestFollows
    <2>6. ASSUME cur_req'.kind = "0x01"
          PROVE  NewestFollows(cur_req.from, cur_req.report, 0)'
        <3>1. 0 \in 0 .. N - 1 /\ 0 + 1 = 1
            BY <1>1, <2>1
        <3>2. PICK u, r : u \in Threads /\ u = evtloop_pipe[1].from /\ r = evtloop_pipe[1].report
            BY <2>1, FromThreads
        <3>3. NewestFollows(u, r, 0 + 1)
            BY <2>1, <2>2, <2>6, <3>1, <3>2 DEF BufInv
        <3>4. NewestFollows(u, r, 0)'
            BY <2>4, <3>1, <3>2, <3>3
        <3> QED
            BY <2>1, <2>2, <3>2, <3>4 DEF NewestFollows
    <2>7. \A u \in Threads : rsmp_buffer'[u] = IF pc'[u] = "encode" THEN Freed ELSE reports'[u]
        BY <2>2 DEF BufInv
    <2> QED
        BY <2>5, <2>6, <2>7 DEF BufInv
<1>8. ASSUME NEW t \in Threads, NEW k \in Kinds,
             Lock(t) \/ LockRequest(t, k) \/ PushFirst(t) \/ push_thread_idx(t) \/ Unlock(t)
      PROVE  BufInv'
    <2>1. UNCHANGED <<evtloop_pipe, cur_req, rsmp_buffer, reports>>
        BY <1>8 DEF Lock, LockRequest, PushFirst, push_thread_idx, Unlock, Reader
    <2>2. \A u \in Threads : pc'[u] = "encode" <=> pc[u] = "encode"
        BY <1>2, <1>8 DEF Lock, LockRequest, PushFirst, push_thread_idx, Unlock
    <2>3. \A u \in Threads : Preparing(u) => Preparing(u)'
        <3>1. \A u \in Threads : u # t => pc'[u] = pc[u] /\ kind'[u] = kind[u]
            BY <1>2, <1>8 DEF Lock, LockRequest, PushFirst, push_thread_idx, Unlock, TypeOK
        <3>2. CASE Lock(t)
            BY <1>2, <3>1, <3>2 DEF Lock, Preparing, MutexInv
        <3>3. CASE LockRequest(t, k) \/ Unlock(t)
            BY <1>2, <3>1, <3>3 DEF LockRequest, Unlock, Preparing
        <3>4. CASE PushFirst(t) \/ push_thread_idx(t)
            BY <1>2, <3>1, <3>4 DEF PushFirst, push_thread_idx, Preparing, MutexInv
        <3> QED
            BY <1>8, <3>2, <3>3, <3>4
    <2> QED
        BY <2>1, <2>2, <2>3, BufInvStays
<1>9. CASE pop_thread_idx \/ pop_flow_state \/ pop_ChannelNum \/ Serve \/ PowerOff
           \/ UNCHANGED vars
    BY <1>3, <1>9 DEF pop_thread_idx, pop_flow_state, pop_ChannelNum, Pop, Serve, PowerOff,
       Writers, vars
<1>10. "0x00" \in Kinds
    BY DEF Kinds
<1> QED
    BY <1>4, <1>5, <1>6, <1>7, <1>8, <1>9, <1>10
       DEF Next, ThreadStep, ReaderStep, Quiescent

\* The inductive invariant holds in every reachable state of the channel.
THEOREM Invariance == Spec => []IInv
<1>1. IInv /\ [Next]_vars => IInv'
    BY NextTypeOK, NextMutexInv, NextArgInv, NextEvtInv, NextCurInv, NextBufInv DEF IInv
<1> QED
    BY InitIInv, <1>1, PTL DEF Spec

\* The pipes, the mutex and both sides' positions stay well-typed.
THEOREM TypeCorrect == Spec => []TypeOK
<1>1. IInv => TypeOK
    BY DEF IInv
<1> QED
    BY Invariance, <1>1, PTL

\* process_events() acts on the arguments of the request it read: the flow
\* state, thread index or ChannelNum popped was pushed for that very request.
THEOREM ArgumentsMatch == Spec => []PopsMatchRequest
<1>1. IInv => PopsMatchRequest
    BY DEF IInv, CurInv
<1> QED
    BY Invariance, <1>1, PTL

\* pop_thread_idx(), pop_flow_state() and pop_ChannelNum() never spin on an
\* empty pipe.
THEOREM PopsReturn == Spec => []PopNeverBlocks
<1>1. ASSUME IInv, NEW p \in ArgPipes, Unpopped(p) = 1 PROVE arg_pipe[p] # <<>>
    <2>1. KindOf(p) \in Kinds
        BY Pipes
    <2>2. /\ notified[KindOf(p)] \in Nat /\ fetched[KindOf(p)] \in Nat
          /\ fetched[KindOf(p)] <= notified[KindOf(p)]
        BY <1>1, <2>1 DEF IInv, TypeOK, EvtInv
    <2>3. Unannounced(p) \in {0, 1}
        BY DEF Unannounced
    <2>4. Len(arg_pipe[p]) = notified[KindOf(p)] + Unannounced(p) - (fetched[KindOf(p)] - 1)
        BY <1>1 DEF IInv, ArgInv, Popped
    <2>5. Len(arg_pipe[p]) # 0
        BY <2>2, <2>3, <2>4
    <2> QED
        BY <2>5
<1>2. IInv => PopNeverBlocks
    BY <1>1 DEF PopNeverBlocks, Unpopped, ArgPipes
<1> QED
    BY Invariance, <1>2, PTL

\* When nobody writes and nothing is left to read, no argument is left over.
THEOREM NothingLeftOver == Spec => []Drained
<1>1. ASSUME IInv, evtloop_mtx = {}, evtloop_pipe = <<>>, cur = "idle", NEW p \in ArgPipes
      PROVE  arg_pipe[p] = <<>>
    <2>1. KindOf(p) \in Kinds
        BY Pipes
    <2>2. notified[KindOf(p)] \in Nat /\ fetched[KindOf(p)] \in Nat
        BY <1>1, <2>1 DEF IInv, TypeOK
    <2>3. notified[KindOf(p)] = fetched[KindOf(p)]
        <3>1. fetched[KindOf(p)] <= notified[KindOf(p)]
            BY <1>1, <2>1 DEF IInv, EvtInv
        <3>2. ASSUME fetched[KindOf(p)] < notified[KindOf(p)] PROVE FALSE
            <4>1. fetched[KindOf(p)] + 1 \in fetched[KindOf(p)] + 1 .. notified[KindOf(p)]
                BY <2>2, <3>2
            <4>2. \E i \in 1 .. Len(evtloop_pipe) : evtloop_pipe[i].n = fetched[KindOf(p)] + 1
                BY <1>1, <2>1, <4>1 DEF IInv, EvtInv
            <4> QED
                BY <1>1, <4>2
        <3> QED
            BY <2>2, <3>1, <3>2
    <2>4. Unannounced(p) = 0 /\ Unpopped(p) = 0
        BY <1>1 DEF Unannounced, Unpopped
    <2>5. Len(arg_pipe[p]) = 0
        BY <1>1, <2>2, <2>3, <2>4 DEF IInv, ArgInv, Popped
    <2>6. arg_pipe[p] \in Seq(Nat)
        BY <1>1 DEF IInv, TypeOK
    <2> QED
        BY <2>5, <2>6
<1>2. IInv => Drained
    BY <1>1 DEF Drained
<1> QED
    BY Invariance, <1>2, PTL

\* What a status request transmits is the newest report of its thread, gone only while that
\* thread encodes another, for any number of threads and requests; and if it is not the one
\* the request was issued for, the request of the newest is still to come.
THEOREM NewestReportAlwaysServed == Spec => []NewestReportServed
<1>1. ASSUME IInv PROVE NewestReportServed
    <2>1. cur_req.from \in Threads
        BY <1>1 DEF IInv, TypeOK, Request
    <2> QED
        BY <1>1, <2>1 DEF IInv, BufInv, NewestReportServed
<1> QED
    BY Invariance, <1>1, PTL

-----------------------------------------------------------------------------
(* The pipes of EvtLoop implement a channel of whole requests: the proof.   *)

\* What is known of the briefs of a sequence of requests.
LEMMA BriefsSeq ==
    ASSUME NEW s \in Seq(Request)
    PROVE  /\ Briefs(s) \in Seq([kind : Kinds, from : Threads, n : Nat])
           /\ Len(Briefs(s)) = Len(s)
           /\ \A i \in 1 .. Len(s) : Briefs(s)[i] = Brief(s[i])
<1> DEFINE B == [kind : Kinds, from : Threads, n : Nat]
<1>1. Len(s) \in Nat /\ \A i \in 1 .. Len(s) : s[i] \in Request
    OBVIOUS
<1>2. \A r \in Request : Brief(r) \in B
    BY DEF Request, Brief
<1>3. \A i \in 1 .. Len(s) : Brief(s[i]) \in B
    BY <1>1, <1>2
<1> HIDE DEF B
<1>4. Briefs(s) \in [1 .. Len(s) -> B]
    BY <1>3 DEF Briefs
<1>5. Briefs(s) \in Seq(B) /\ Len(Briefs(s)) = Len(s)
    BY <1>1, <1>4
<1> QED
    BY <1>5 DEF Briefs, B

\* A request sent last is the last of the briefs.
LEMMA BriefsAppend ==
    ASSUME NEW s \in Seq(Request), NEW r \in Request
    PROVE  Briefs(Append(s, r)) = Append(Briefs(s), Brief(r))
<1> DEFINE B == [kind : Kinds, from : Threads, n : Nat]
<1>1. Append(s, r) \in Seq(Request) /\ Len(Append(s, r)) = Len(s) + 1 /\ Len(s) \in Nat
    OBVIOUS
<1>2. Brief(r) \in B
    BY DEF Request, Brief
<1>3. /\ Briefs(s) \in Seq(B) /\ Len(Briefs(s)) = Len(s)
      /\ Briefs(Append(s, r)) \in Seq(B) /\ Len(Briefs(Append(s, r))) = Len(s) + 1
    BY <1>1, BriefsSeq
<1>4. Append(Briefs(s), Brief(r)) \in Seq(B) /\ Len(Append(Briefs(s), Brief(r))) = Len(s) + 1
    BY <1>2, <1>3
<1>5. ASSUME NEW i \in 1 .. Len(s) + 1
      PROVE  Briefs(Append(s, r))[i] = Append(Briefs(s), Brief(r))[i]
    <2>1. Briefs(Append(s, r))[i] = Brief(Append(s, r)[i])
        BY <1>1, BriefsSeq
    <2>2. CASE i = Len(s) + 1
        BY <1>1, <1>3, <2>1, <2>2
    <2>3. CASE i \in 1 .. Len(s)
        <3>1. Append(s, r)[i] = s[i] /\ Briefs(s)[i] = Brief(s[i])
            BY <2>3, BriefsSeq
        <3>2. Append(Briefs(s), Brief(r))[i] = Briefs(s)[i]
            BY <1>2, <1>3, <2>3
        <3> QED
            BY <2>1, <3>1, <3>2
    <2>4. i = Len(s) + 1 \/ i \in 1 .. Len(s)
        BY <1>1
    <2> QED
        BY <2>2, <2>3, <2>4
<1> HIDE DEF B
<1> QED
    BY <1>3, <1>4, <1>5, SeqEqual

\* The first request is the first of the briefs, the others are the rest.
LEMMA BriefsTail ==
    ASSUME NEW s \in Seq(Request), s # <<>>
    PROVE  /\ Briefs(s) # <<>>
           /\ Head(Briefs(s)) = Brief(Head(s))
           /\ Tail(Briefs(s)) = Briefs(Tail(s))
<1> DEFINE B == [kind : Kinds, from : Threads, n : Nat]
<1>1. /\ Len(s) \in Nat \ {0} /\ Len(Tail(s)) = Len(s) - 1
      /\ Head(s) = s[1] /\ Tail(s) \in Seq(Request)
      /\ \A i \in 1 .. Len(Tail(s)) : i + 1 \in 1 .. Len(s) /\ Tail(s)[i] = s[i + 1]
    BY TailShifts, Zenon
<1>2. /\ Briefs(s) \in Seq(B) /\ Len(Briefs(s)) = Len(s)
      /\ \A i \in 1 .. Len(s) : Briefs(s)[i] = Brief(s[i])
    BY BriefsSeq
<1>3. /\ Briefs(Tail(s)) \in Seq(B) /\ Len(Briefs(Tail(s))) = Len(s) - 1
      /\ \A i \in 1 .. Len(Tail(s)) : Briefs(Tail(s))[i] = Brief(Tail(s)[i])
    BY <1>1, BriefsSeq
<1> HIDE DEF B
<1>4. Briefs(s) # <<>>
    BY <1>1, <1>2
<1>5. /\ Len(Tail(Briefs(s))) = Len(s) - 1 /\ Tail(Briefs(s)) \in Seq(B)
      /\ Head(Briefs(s)) = Briefs(s)[1]
      /\ \A i \in 1 .. Len(Tail(Briefs(s))) : Tail(Briefs(s))[i] = Briefs(s)[i + 1]
    BY <1>2, <1>4, TailShifts, Zenon
<1>6. Tail(Briefs(s)) = Briefs(Tail(s))
    BY <1>1, <1>2, <1>3, <1>5, SeqEqual
<1> QED
    BY <1>1, <1>2, <1>4, <1>5, <1>6

\* A request in front of a sequence.
LEMMA InFront ==
    ASSUME NEW x \in Request, NEW s \in Seq(Request)
    PROVE  /\ <<x>> \o s \in Seq(Request) /\ <<x>> \o s # <<>>
           /\ Head(<<x>> \o s) = x /\ Tail(<<x>> \o s) = s
           /\ \A r \in Request : <<x>> \o Append(s, r) = Append(<<x>> \o s, r)
<1>1. <<x>> \in Seq(Request) /\ Len(<<x>>) = 1 /\ <<x>>[1] = x
    OBVIOUS
<1>2. /\ <<x>> \o s \in Seq(Request) /\ Len(<<x>> \o s) = Len(s) + 1
      /\ (<<x>> \o s)[1] = x
      /\ \A i \in 1 .. Len(s) : (<<x>> \o s)[i + 1] = s[i]
    BY <1>1
<1>3. <<x>> \o s # <<>> /\ Head(<<x>> \o s) = x
    BY <1>2
<1>4. /\ Tail(<<x>> \o s) \in Seq(Request) /\ Len(Tail(<<x>> \o s)) = Len(s)
      /\ \A i \in 1 .. Len(s) : Tail(<<x>> \o s)[i] = (<<x>> \o s)[i + 1]
    <2>1. Len(s) \in Nat
        OBVIOUS
    <2> QED
        BY <1>2, <1>3, <2>1, TailShifts
<1>5. Tail(<<x>> \o s) = s
    BY <1>2, <1>4, SeqEqual
<1>6. \A r \in Request : <<x>> \o Append(s, r) = Append(<<x>> \o s, r)
    BY <1>1, AppendIsConcat, ConcatAssociative
<1> QED
    BY <1>2, <1>3, <1>5, <1>6
----------------------------------------------------------------------------
\* Where the requests that are not taken yet are.
LEMMA PendingSeq ==
    ASSUME TypeOK
    PROVE  /\ cur \notin {"pop_tid", "pop_fs", "pop_chan"} => Pending = Briefs(evtloop_pipe)
           /\ cur \in {"pop_tid", "pop_fs", "pop_chan"} =>
                 Pending = Briefs(<<cur_req>> \o evtloop_pipe)
<1>1. evtloop_pipe \in Seq(Request)
    BY DEF TypeOK
<1>2. <<>> \o evtloop_pipe = evtloop_pipe
    BY <1>1, ConcatEmptySeq
<1> QED
    BY <1>2 DEF Pending, Unserved

\* A request written to evtloop_pipe is sent.
LEMMA NotifySends ==
    ASSUME TypeOK, NEW t \in Threads, notify_EvtLoop(t)
    PROVE  Channel!Send(t, kind[t])
<1> DEFINE r == [kind |-> kind[t], from |-> t, n |-> Ordinal(t), report |-> reports[t]]
           s == Unserved \o evtloop_pipe
<1>1. r \in Request /\ Brief(r) = [kind |-> kind[t], from |-> t, n |-> notified[kind[t]] + 1]
    BY DEF TypeOK, Request, Ordinal, Brief
<1>2. /\ evtloop_pipe' = Append(evtloop_pipe, r)
      /\ notified' = [notified EXCEPT ![kind[t]] = @ + 1]
      /\ UNCHANGED <<cur, cur_req, popped_arg, isFTMPowerOffInd>>
    BY DEF notify_EvtLoop, Reader
<1> HIDE DEF r
<1>3. evtloop_pipe \in Seq(Request) /\ cur_req \in Request
    BY DEF TypeOK
<1>4. s \in Seq(Request) /\ Unserved' \o evtloop_pipe' = Append(s, r)
    <2>1. CASE cur \in {"pop_tid", "pop_fs", "pop_chan"}
        BY <1>1, <1>2, <1>3, <2>1, InFront DEF Unserved
    <2>2. CASE cur \notin {"pop_tid", "pop_fs", "pop_chan"}
        <3>1. Append(evtloop_pipe, r) \in Seq(Request)
            BY <1>1, <1>3
        <3>2. Unserved = <<>> /\ Unserved' = <<>>
            BY <1>2, <2>2 DEF Unserved
        <3>3. s = evtloop_pipe /\ <<>> \o Append(evtloop_pipe, r) = Append(evtloop_pipe, r)
            BY <1>3, <3>1, <3>2, ConcatEmptySeq
        <3> QED
            BY <1>2, <1>3, <3>2, <3>3
    <2> QED
        BY <2>1, <2>2
<1>5. Pending' = Append(Pending, Brief(r))
    BY <1>1, <1>4, BriefsAppend DEF Pending, Briefs
<1>6. Serving' = Serving
    BY <1>2 DEF Serving, PoppedFor
<1> QED
    BY <1>1, <1>2, <1>5, <1>6 DEF Channel!Send

\* A request read from evtloop_pipe is taken at once if it carries no argument, is
\* discarded, or waits for its arguments.
LEMMA ReadTakes ==
    ASSUME IInv, process_events
    PROVE  Channel!Take \/ Channel!Discard \/ UNCHANGED Channel!cvars
<1> DEFINE r == Head(evtloop_pipe)
<1>1. evtloop_pipe \in Seq(Request) /\ evtloop_pipe # <<>> /\ cur = "idle"
    BY DEF IInv, TypeOK, process_events
<1>2. /\ evtloop_pipe' = Tail(evtloop_pipe) /\ cur_req' = r
      /\ cur' = IF Dropped(r.kind) THEN "idle" ELSE AfterRead(r.kind)
      /\ UNCHANGED <<popped_arg, notified, isFTMPowerOffInd>>
    BY DEF process_events, Writers
<1>3. r \in Request /\ Tail(evtloop_pipe) \in Seq(Request)
    BY <1>1, TailShifts, Zenon
<1>4. /\ Briefs(evtloop_pipe) # <<>>
      /\ Head(Briefs(evtloop_pipe)) = Brief(r)
      /\ Tail(Briefs(evtloop_pipe)) = Briefs(Tail(evtloop_pipe))
    BY <1>1, BriefsTail
<1>5. Pending = Briefs(evtloop_pipe) /\ Serving = {}
    BY <1>1, PendingSeq DEF IInv, Serving
<1>6. <<>> \o Tail(evtloop_pipe) = Tail(evtloop_pipe)
    BY <1>3, ConcatEmptySeq
<1> HIDE DEF r
<1>7. CASE Dropped(r.kind)
    <2>1. Pending' = Tail(Pending) /\ Serving' = {}
        BY <1>2, <1>4, <1>5, <1>6, <1>7 DEF Pending, Unserved, Serving, Briefs
    <2>2. isFTMPowerOffInd /\ Brief(r).kind \notin Carrying
        BY <1>7 DEF Dropped, ServedAtPowerOff, Brief, Carrying
    <2> QED
        BY <1>2, <1>4, <1>5, <2>1, <2>2 DEF Channel!Discard
<1>8. CASE ~Dropped(r.kind) /\ r.kind \in {"0x01", "0x02"}
    <2>1. cur' \in {"pop_tid", "pop_chan"}
        BY <1>2, <1>8 DEF AfterRead
    <2>2. <<r>> \o Tail(evtloop_pipe) = evtloop_pipe
        <3>1. /\ Len(evtloop_pipe) \in Nat \ {0} /\ evtloop_pipe[1] = r
              /\ Len(Tail(evtloop_pipe)) = Len(evtloop_pipe) - 1
              /\ \A i \in 1 .. Len(Tail(evtloop_pipe)) : Tail(evtloop_pipe)[i] = evtloop_pipe[i + 1]
            BY <1>1, TailShifts DEF r
        <3>2. <<r>> \in Seq(Request) /\ Len(<<r>>) = 1 /\ <<r>>[1] = r
            BY <1>3
        <3>3. /\ <<r>> \o Tail(evtloop_pipe) \in Seq(Request)
              /\ Len(<<r>> \o Tail(evtloop_pipe)) = Len(evtloop_pipe)
              /\ \A i \in 1 .. Len(evtloop_pipe) :
                     (<<r>> \o Tail(evtloop_pipe))[i] =
                        IF i <= 1 THEN r ELSE Tail(evtloop_pipe)[i - 1]
            BY <1>3, <3>1, <3>2, ConcatProperties
        <3>4. ASSUME NEW i \in 1 .. Len(evtloop_pipe)
              PROVE  (<<r>> \o Tail(evtloop_pipe))[i] = evtloop_pipe[i]
            <4>1. CASE i = 1
                BY <3>1, <3>3, <4>1
            <4>2. CASE i # 1
                <5>1. i - 1 \in 1 .. Len(Tail(evtloop_pipe)) /\ (i - 1) + 1 = i /\ ~(i <= 1)
                    BY <3>1, <4>2
                <5>2. Tail(evtloop_pipe)[i - 1] = evtloop_pipe[i]
                    BY <3>1, <5>1
                <5> QED
                    BY <3>3, <5>1, <5>2
            <4> QED
                BY <4>1, <4>2
        <3> QED
            BY <1>1, <3>3, <3>4, SeqEqual
    <2>3. Pending' = Pending /\ Serving' = Serving
        BY <1>2, <1>5, <2>1, <2>2 DEF Pending, Unserved, Serving, Briefs
    <2> QED
        BY <1>2, <2>3 DEF Channel!cvars
<1>9. CASE ~Dropped(r.kind) /\ r.kind \notin {"0x01", "0x02"}
    <2>1. cur' = "serve"
        BY <1>2, <1>9 DEF AfterRead
    <2>2. Pending' = Tail(Pending)
        BY <1>2, <1>4, <1>5, <1>6, <2>1 DEF Pending, Unserved, Briefs
    <2>3. \A q \in ArgPipes : KindOf(q) # cur_req'.kind
        BY <1>2, <1>9 DEF KindOf
    <2>4. Serving' = {[request |-> Brief(r), args |-> {}]}
        BY <1>2, <2>1, <2>3 DEF Serving, PoppedFor
    <2>5. Channel!Served(Brief(r)) = [request |-> Brief(r), args |-> {}]
        BY <1>9 DEF Channel!Served, Carrying, Brief
    <2> QED
        BY <1>2, <1>4, <1>5, <2>2, <2>4, <2>5 DEF Channel!Take
<1> QED
    BY <1>7, <1>8, <1>9

\* The last pop of a request takes it, with the arguments popped for it.
LEMMA LastPopTakes ==
    ASSUME IInv, IInv', cur \in {"pop_tid", "pop_fs", "pop_chan"}, cur' = "serve",
           UNCHANGED <<evtloop_pipe, cur_req, notified, isFTMPowerOffInd>>
    PROVE  Channel!Take
<1>1. evtloop_pipe \in Seq(Request) /\ cur_req \in Request
    BY DEF IInv, TypeOK
<1>2. cur_req.kind \in {"0x01", "0x02"}
    BY DEF IInv, CurInv
<1>3. PopsMatchRequest'
    BY DEF IInv, CurInv
<1>4. \A p \in ArgPipes : KindOf(p) = cur_req.kind => popped_arg'[p] = cur_req.n
    BY <1>3 DEF PopsMatchRequest
<1>5. \E p \in ArgPipes : KindOf(p) = cur_req.kind
    BY <1>2 DEF ArgPipes, KindOf
<1>6. {popped_arg'[p] : p \in {q \in ArgPipes : KindOf(q) = cur_req.kind}} = {cur_req.n}
    BY <1>4, <1>5
<1>7. Serving' = {[request |-> Brief(cur_req), args |-> {cur_req.n}]}
    BY <1>6 DEF Serving, PoppedFor
<1>8. Channel!Served(Brief(cur_req)) = [request |-> Brief(cur_req), args |-> {cur_req.n}]
    BY <1>2 DEF Channel!Served, Carrying, Brief
<1>9. Pending = Briefs(<<cur_req>> \o evtloop_pipe) /\ Pending' = Briefs(evtloop_pipe)
    BY <1>1, ConcatEmptySeq DEF Pending, Unserved, Briefs
<1>10. /\ <<cur_req>> \o evtloop_pipe \in Seq(Request) /\ <<cur_req>> \o evtloop_pipe # <<>>
       /\ Head(<<cur_req>> \o evtloop_pipe) = cur_req
       /\ Tail(<<cur_req>> \o evtloop_pipe) = evtloop_pipe
    BY <1>1, InFront
<1>11. Pending # <<>> /\ Head(Pending) = Brief(cur_req) /\ Pending' = Tail(Pending)
    BY <1>9, <1>10, BriefsTail
<1>12. Serving = {}
    BY DEF Serving
<1> QED
    BY <1>7, <1>8, <1>11, <1>12 DEF Channel!Take

\* A step that the channel does not see.
LEMMA ChannelStutters ==
    ASSUME UNCHANGED <<evtloop_pipe, cur, cur_req, popped_arg, notified, isFTMPowerOffInd>>
    PROVE  UNCHANGED Channel!cvars
BY DEF Channel!cvars, Pending, Briefs, Unserved, Serving, PoppedFor

\* Every step of the pipes is a step of the channel, or none.
LEMMA StepImplements == IInv /\ IInv' /\ [Next]_vars => [Channel!Next]_(Channel!cvars)
<1> SUFFICES ASSUME IInv, IInv', [Next]_vars PROVE Channel!Next \/ UNCHANGED Channel!cvars
    OBVIOUS
<1>1. ASSUME NEW t \in Threads, notify_EvtLoop(t) PROVE Channel!Next
    <2>1. kind[t] \in Kinds
        BY DEF IInv, TypeOK
    <2> QED
        BY <1>1, <2>1, NotifySends DEF Channel!Next, IInv
<1>2. ASSUME NEW t \in Threads, NEW k \in Kinds,
             \/ ResetBuffer(t) \/ Lock(t) \/ LockReport(t) \/ Encode(t) \/ LockRequest(t, k)
             \/ PushFirst(t) \/ push_thread_idx(t) \/ Unlock(t)
      PROVE  UNCHANGED Channel!cvars
    BY <1>2, ChannelStutters DEF ResetBuffer, Lock, LockReport, Encode, LockRequest, PushFirst,
       push_thread_idx, Unlock, Reader
<1>3. CASE process_events
    BY <1>3, ReadTakes DEF Channel!Next
<1>4. CASE pop_thread_idx
    <2>1. Pending' = Pending /\ Serving' = Serving
        BY <1>4 DEF pop_thread_idx, Pop, Writers, Pending, Unserved, Briefs, Serving
    <2> QED
        BY <1>4, <2>1 DEF pop_thread_idx, Pop, Writers, Channel!cvars
<1>5. CASE pop_flow_state \/ pop_ChannelNum
    BY <1>5, LastPopTakes DEF pop_flow_state, pop_ChannelNum, Pop, Writers, Channel!Next
<1>6. CASE Serve
    <2>1. Pending' = Pending /\ Serving # {} /\ Serving' = {}
        BY <1>6 DEF Serve, Writers, Pending, Unserved, Briefs, Serving
    <2> QED
        BY <1>6, <2>1 DEF Serve, Writers, Channel!Finish, Channel!Next
<1>7. CASE PowerOff
    <2>1. Pending' = Pending /\ Serving' = Serving
        BY <1>7 DEF PowerOff, Pending, Unserved, Briefs, Serving, PoppedFor
    <2> QED
        BY <1>7, <2>1 DEF PowerOff, Channel!PowerOff, Channel!Next
<1>8. CASE UNCHANGED vars
    BY <1>8, ChannelStutters DEF vars
<1>9. "0x00" \in Kinds
    BY DEF Kinds
<1> QED
    BY <1>1, <1>2, <1>3, <1>4, <1>5, <1>6, <1>7, <1>8, <1>9
       DEF Next, ThreadStep, ReaderStep, Quiescent

\* Whatever threads interleave, and with a power-off at any moment, requests are
\* served in the order they were notified, each once and with its own arguments.
THEOREM Implementation == Spec => ImplementsRequestChannel
<1>1. Init => Channel!Init
    <2> SUFFICES ASSUME Init PROVE Channel!Init
        OBVIOUS
    <2>1. Pending = <<>>
        BY DEF Init, Pending, Unserved, Briefs
    <2>2. Serving = {}
        BY DEF Init, Serving
    <2> QED
        BY <2>1, <2>2 DEF Init, Channel!Init
<1> QED
    BY <1>1, StepImplements, Invariance, PTL DEF Spec, ImplementsRequestChannel, Channel!Spec
=============================================================================
