------------------------------ MODULE EvtPipes ------------------------------
(***************************************************************************)
(* The request channel of EvtLoop.  A thread that wants EvtLoop to act     *)
(* writes one byte, the kind of the request, to evtloop_pipe.  The         *)
(* arguments of the request travel through pipes of their own: the flow    *)
(* state and the thread index of an 0x01 request, the ChannelNum of an     *)
(* 0x02 request.  The content of an 0x01 request travels in the transmit   *)
(* buffer of its thread.  evtloop_mtx keeps the pipes aligned on the       *)
(* writing side; process_events() is their only reader.                    *)
(*                                                                         *)
(* A value in a pipe is abstracted to the ordinal of the request, among    *)
(* those of its kind, that pushed it.                                      *)
(***************************************************************************)
EXTENDS Integers, Sequences

CONSTANTS Threads,      \* the threads that call notify_EvtLoop()
          EvtLoopThread,
          Issues,       \* the pairs <<thread, kind of request it issues>>
          MaxRequests   \* bound: requests of each kind, reports of each thread

ArgPipes == {"chan_num_pipe", "flow_state_pipe", "thread_idx_pipe"}

\* 0x00 APDU, 0x01 status report, 0x02 recovery, 0x03 suspension, 0x04 AT command
Kinds == {"0x00", "0x01", "0x02", "0x03", "0x04"}

ASSUME EvtPipesAssumption ==
    /\ EvtLoopThread \in Threads
    /\ Issues \subseteq Threads \X Kinds
    /\ MaxRequests \in [Kinds -> Nat]

VARIABLES
    evtloop_pipe,     \* the requests notified and not yet read
    arg_pipe,         \* the three argument pipes
    evtloop_mtx,      \* the threads inside the critical section
    pc,               \* where each thread is in its call
    kind,             \* the kind of request each thread issues
    rsmp_buffer,      \* g_rsmp_transmit_buffer: the report it holds, 0 once reset
    reports,          \* ghost: reports each thread has encoded
    cur,              \* what process_events() does next
    cur_req,          \* the request process_events() handles
    popped_arg,       \* the value last popped from each argument pipe
    notified,         \* ghost: requests of each kind written to evtloop_pipe
    fetched,          \* ghost: requests of each kind read from evtloop_pipe
    isFTMPowerOffInd

vars == <<evtloop_pipe, arg_pipe, evtloop_mtx, pc, kind, rsmp_buffer, reports, cur,
          cur_req, popped_arg, notified, fetched, isFTMPowerOffInd>>

----------------------------------------------------------------------------
KindOf(p) == IF p = "chan_num_pipe" THEN "0x02" ELSE "0x01"

\* Mutant: the recovery requests are dropped at power-off, as the others are.
ServedAtPowerOff_reports == {"0x01"}

\* The kinds process_events() still serves once the box is being powered off.
ServedAtPowerOff == {"0x01", "0x02"}

Freed == 0

Request == [kind : Kinds, from : Threads, n : Nat, report : Nat]

Init ==
    /\ evtloop_pipe = <<>>
    /\ arg_pipe = [p \in ArgPipes |-> <<>>]
    /\ evtloop_mtx = {}
    /\ pc = [t \in Threads |-> "idle"]
    /\ kind = [t \in Threads |-> "0x00"]
    /\ rsmp_buffer = [t \in Threads |-> Freed]
    /\ reports = [t \in Threads |-> 0]
    /\ cur = "idle"
    /\ cur_req = [kind |-> "0x00", from |-> EvtLoopThread, n |-> 0, report |-> 0]
    /\ popped_arg = [p \in ArgPipes |-> 0]
    /\ notified = [k \in Kinds |-> 0]
    /\ fetched = [k \in Kinds |-> 0]
    /\ isFTMPowerOffInd = FALSE

----------------------------------------------------------------------------
(* The writing side.                                                       *)

\* EvtLoop issues requests from its callbacks, when it is not in process_events().
MayRun(t) == t = EvtLoopThread => cur = "idle"

\* The ordinal of the request thread t is issuing.
Ordinal(t) == notified[kind[t]] + 1

Reader == <<cur, cur_req, popped_arg, fetched, isFTMPowerOffInd>>

\* status_info_upload_preparatory_work() prepares the report before it locks:
\* the old report is freed, then the new one encoded.
ResetBuffer(t) ==
    /\ pc[t] = "idle" /\ MayRun(t)
    /\ <<t, "0x01">> \in Issues
    /\ reports[t] < MaxRequests["0x01"]
    /\ pc' = [pc EXCEPT ![t] = "encode"]
    /\ kind' = [kind EXCEPT ![t] = "0x01"]
    /\ rsmp_buffer' = [rsmp_buffer EXCEPT ![t] = Freed]
    /\ UNCHANGED <<evtloop_pipe, arg_pipe, evtloop_mtx, reports, notified, Reader>>

\* pthread_mutex_lock(&evtloop_mtx) for a prepared report.
Lock(t) ==
    /\ pc[t] = "lock"
    /\ evtloop_mtx = {}
    /\ evtloop_mtx' = {t}
    /\ pc' = [pc EXCEPT ![t] = "push"]
    /\ UNCHANGED <<evtloop_pipe, arg_pipe, kind, rsmp_buffer, reports, notified, Reader>>

\* trigger_rsmp_status_report() locks first, then resets and encodes.
LockReport(t) ==
    /\ pc[t] = "idle" /\ MayRun(t)
    /\ <<t, "0x01">> \in Issues
    /\ reports[t] < MaxRequests["0x01"]
    /\ evtloop_mtx = {}
    /\ evtloop_mtx' = {t}
    /\ pc' = [pc EXCEPT ![t] = "encode"]
    /\ kind' = [kind EXCEPT ![t] = "0x01"]
    /\ rsmp_buffer' = [rsmp_buffer EXCEPT ![t] = Freed]
    /\ UNCHANGED <<evtloop_pipe, arg_pipe, reports, notified, Reader>>

\* Mutant: the thread is not found, and the buffer of EvtLoop taken for its own.
Encode_no_thread(t) ==
    /\ pc[t] = "encode"
    /\ reports' = [reports EXCEPT ![t] = @ + 1]
    /\ rsmp_buffer' = [rsmp_buffer EXCEPT ![EvtLoopThread] = reports[t] + 1]
    /\ pc' = [pc EXCEPT ![t] = IF t \in evtloop_mtx THEN "push" ELSE "lock"]
    /\ UNCHANGED <<evtloop_pipe, arg_pipe, evtloop_mtx, kind, notified, Reader>>

Encode(t) ==
    /\ pc[t] = "encode"
    /\ reports' = [reports EXCEPT ![t] = @ + 1]
    /\ rsmp_buffer' = [rsmp_buffer EXCEPT ![t] = reports[t] + 1]
    /\ pc' = [pc EXCEPT ![t] = IF t \in evtloop_mtx THEN "push" ELSE "lock"]
    /\ UNCHANGED <<evtloop_pipe, arg_pipe, evtloop_mtx, kind, notified, Reader>>

\* Mutant: the request is issued without waiting for evtloop_mtx.
LockRequest_unlocked(t, k) ==
    /\ pc[t] = "idle" /\ MayRun(t)
    /\ k # "0x01" /\ <<t, k>> \in Issues
    /\ notified[k] < MaxRequests[k]
    /\ evtloop_mtx' = evtloop_mtx \union {t}
    /\ pc' = [pc EXCEPT ![t] = IF k = "0x02" THEN "push" ELSE "notify"]
    /\ kind' = [kind EXCEPT ![t] = k]
    /\ UNCHANGED <<evtloop_pipe, arg_pipe, rsmp_buffer, reports, notified, Reader>>

\* Every other request is a lock, the push of a recovery's ChannelNum, a byte.
LockRequest(t, k) ==
    /\ pc[t] = "idle" /\ MayRun(t)
    /\ k # "0x01" /\ <<t, k>> \in Issues
    /\ notified[k] < MaxRequests[k]
    /\ evtloop_mtx = {}
    /\ evtloop_mtx' = {t}
    /\ pc' = [pc EXCEPT ![t] = IF k = "0x02" THEN "push" ELSE "notify"]
    /\ kind' = [kind EXCEPT ![t] = k]
    /\ UNCHANGED <<evtloop_pipe, arg_pipe, rsmp_buffer, reports, notified, Reader>>

\* push_flow_state() or push_ChannelNum()
PushFirst(t) ==
    LET p == IF kind[t] = "0x02" THEN "chan_num_pipe" ELSE "flow_state_pipe" IN
    /\ pc[t] = "push"
    /\ arg_pipe' = [arg_pipe EXCEPT ![p] = Append(@, Ordinal(t))]
    /\ pc' = [pc EXCEPT ![t] = IF kind[t] = "0x02" THEN "notify" ELSE "push_tid"]
    /\ UNCHANGED <<evtloop_pipe, evtloop_mtx, kind, rsmp_buffer, reports, notified, Reader>>

\* Mutant: the thread index is not pushed.
push_thread_idx_skipped(t) ==
    /\ pc[t] = "push_tid"
    /\ pc' = [pc EXCEPT ![t] = "notify"]
    /\ UNCHANGED <<evtloop_pipe, arg_pipe, evtloop_mtx, kind, rsmp_buffer, reports,
                   notified, Reader>>

push_thread_idx(t) ==
    /\ pc[t] = "push_tid"
    /\ arg_pipe' = [arg_pipe EXCEPT !["thread_idx_pipe"] = Append(@, Ordinal(t))]
    /\ pc' = [pc EXCEPT ![t] = "notify"]
    /\ UNCHANGED <<evtloop_pipe, evtloop_mtx, kind, rsmp_buffer, reports, notified, Reader>>

\* Mutant: the thread is not found and the request carries THD_IDX_MAX.
notify_EvtLoop_no_thread(t) ==
    /\ pc[t] = "notify"
    /\ evtloop_pipe' = Append(evtloop_pipe, [kind |-> kind[t], from |-> "THD_IDX_MAX",
                                             n |-> Ordinal(t), report |-> reports[t]])
    /\ notified' = [notified EXCEPT ![kind[t]] = @ + 1]
    /\ pc' = [pc EXCEPT ![t] = "unlock"]
    /\ UNCHANGED <<arg_pipe, evtloop_mtx, kind, rsmp_buffer, reports, Reader>>

notify_EvtLoop(t) ==
    /\ pc[t] = "notify"
    /\ evtloop_pipe' = Append(evtloop_pipe, [kind |-> kind[t], from |-> t,
                                             n |-> Ordinal(t), report |-> reports[t]])
    /\ notified' = [notified EXCEPT ![kind[t]] = @ + 1]
    /\ pc' = [pc EXCEPT ![t] = "unlock"]
    /\ UNCHANGED <<arg_pipe, evtloop_mtx, kind, rsmp_buffer, reports, Reader>>

Unlock(t) ==
    /\ pc[t] = "unlock"
    /\ evtloop_mtx' = evtloop_mtx \ {t}
    /\ pc' = [pc EXCEPT ![t] = "idle"]
    /\ UNCHANGED <<evtloop_pipe, arg_pipe, kind, rsmp_buffer, reports, notified, Reader>>

----------------------------------------------------------------------------
(* process_events(), the reading side.                                     *)

Writers == <<evtloop_mtx, pc, kind, rsmp_buffer, reports, notified, isFTMPowerOffInd>>

\* What a request that passes the filter needs before it is acted upon.
AfterRead(k) ==
    IF k = "0x01" THEN "pop_tid" ELSE IF k = "0x02" THEN "pop_chan" ELSE "serve"

\* Mutant: whatever is read is dropped.
Dropped_all(k) == isFTMPowerOffInd

\* During a power-off only the kinds that carry arguments are still handled.
Dropped(k) == isFTMPowerOffInd /\ k \notin ServedAtPowerOff

process_events ==
    LET r == Head(evtloop_pipe) IN
    /\ cur = "idle" /\ pc[EvtLoopThread] = "idle"
    /\ evtloop_pipe # <<>>
    /\ evtloop_pipe' = Tail(evtloop_pipe)
    /\ fetched' = [fetched EXCEPT ![r.kind] = @ + 1]
    /\ cur_req' = r
    /\ cur' = IF Dropped(r.kind) THEN "idle" ELSE AfterRead(r.kind)
    /\ UNCHANGED <<arg_pipe, popped_arg, Writers>>

\* A pop spins until its pipe has a value.
Pop(p, here, next) ==
    /\ cur = here
    /\ arg_pipe[p] # <<>>
    /\ popped_arg' = [popped_arg EXCEPT ![p] = Head(arg_pipe[p])]
    /\ arg_pipe' = [arg_pipe EXCEPT ![p] = Tail(@)]
    /\ cur' = next
    /\ UNCHANGED <<evtloop_pipe, cur_req, fetched, Writers>>

pop_thread_idx == Pop("thread_idx_pipe", "pop_tid", "pop_fs")

pop_flow_state == Pop("flow_state_pipe", "pop_fs", "serve")

pop_ChannelNum == Pop("chan_num_pipe", "pop_chan", "serve")

\* The request is acted upon: queued, transmitted or recorded.
Serve ==
    /\ cur = "serve"
    /\ cur' = "idle"
    /\ UNCHANGED <<evtloop_pipe, arg_pipe, cur_req, popped_arg, fetched, Writers>>

\* MsgLoop records a power-off notification; nothing ever takes it back.
PowerOff ==
    /\ ~isFTMPowerOffInd
    /\ isFTMPowerOffInd' = TRUE
    /\ UNCHANGED <<evtloop_pipe, arg_pipe, evtloop_mtx, pc, kind, rsmp_buffer, reports,
                   cur, cur_req, popped_arg, notified, fetched>>

\* Every thread has issued all it may and EvtLoop has read all of it.
Quiescent ==
    /\ \A t \in Threads : pc[t] = "idle"
    /\ cur = "idle" /\ evtloop_pipe = <<>>
    /\ UNCHANGED vars

ThreadStep(t) ==
    \/ ResetBuffer(t) \/ Lock(t) \/ LockReport(t) \/ Encode(t)
    \/ \E k \in Kinds : LockRequest(t, k)
    \/ PushFirst(t) \/ push_thread_idx(t) \/ notify_EvtLoop(t) \/ Unlock(t)

ReaderStep ==
    process_events \/ pop_thread_idx \/ pop_flow_state \/ pop_ChannelNum \/ Serve

Next ==
    \/ \E t \in Threads : ThreadStep(t)
    \/ ReaderStep
    \/ PowerOff
    \/ Quiescent

Spec == Init /\ [][Next]_vars

----------------------------------------------------------------------------
(* What the channel promises.                                              *)

\* Type correctness of the pipes, the mutex and the two sides' positions.
TypeOK ==
    /\ evtloop_pipe \in Seq(Request)
    /\ arg_pipe \in [ArgPipes -> Seq(Nat)]
    /\ evtloop_mtx \in SUBSET Threads
    /\ pc \in [Threads -> {"idle", "encode", "lock", "push", "push_tid", "notify", "unlock"}]
    /\ kind \in [Threads -> Kinds]
    /\ rsmp_buffer \in [Threads -> Nat]
    /\ reports \in [Threads -> Nat]
    /\ cur \in {"idle", "pop_tid", "pop_fs", "pop_chan", "serve"}
    /\ cur_req \in Request
    /\ popped_arg \in [ArgPipes -> Nat]
    /\ notified \in [Kinds -> Nat]
    /\ fetched \in [Kinds -> Nat]
    /\ isFTMPowerOffInd \in BOOLEAN

\* process_events() acts on the arguments of the very request it read: the
\* flow state, thread index or ChannelNum it popped was pushed for that request
\* and for no other, whatever the threads' interleaving and the power-off filter.
PopsMatchRequest ==
    cur = "serve" =>
        \A p \in ArgPipes : cur_req.kind = KindOf(p) => popped_arg[p] = cur_req.n

\* A pop never spins on an empty pipe: pop_*() loops on EAGAIN with ChannelLock
\* held, so one missing argument would freeze EvtLoop and every thread that
\* needs ChannelNum.
PopNeverBlocks ==
    /\ cur = "pop_tid" => arg_pipe["thread_idx_pipe"] # <<>>
    /\ cur = "pop_fs" => arg_pipe["flow_state_pipe"] # <<>>
    /\ cur = "pop_chan" => arg_pipe["chan_num_pipe"] # <<>>

\* No argument outlives its request: when nobody is in the critical section, no
\* request waits and none is being read, the argument pipes are empty too (a
\* leftover would shift every later request by one, and fill the pipe).
Drained ==
    evtloop_mtx = {} /\ evtloop_pipe = <<>> /\ cur = "idle" =>
        \A p \in ArgPipes : arg_pipe[p] = <<>>

\* Thread t prepares a report whose request was not notified yet.
Preparing(t) ==
    \/ pc[t] \in {"encode", "lock"}
    \/ pc[t] \in {"push", "push_tid", "notify"} /\ kind[t] = "0x01"

\* The newest report of thread t is r, or its request follows the first i in the pipe.
NewestFollows(t, r, i) ==
    \/ r = reports[t]
    \/ Preparing(t)
    \/ \E j \in i + 1 .. Len(evtloop_pipe) :
           /\ evtloop_pipe[j].kind = "0x01" /\ evtloop_pipe[j].from = t
           /\ evtloop_pipe[j].report = reports[t]

\* A thread may encode its next report while EvtLoop has not transmitted the last one,
\* which is then replaced.  What a status request transmits is nevertheless the newest
\* report of its thread, gone only while that thread encodes another; and if this is not
\* the report the request was issued for, the request of the newest is still to come.
NewestReportServed ==
    cur = "serve" /\ cur_req.kind = "0x01" =>
        LET t == cur_req.from IN
        /\ rsmp_buffer[t] = IF pc[t] = "encode" THEN Freed ELSE reports[t]
        /\ NewestFollows(t, cur_req.report, 0)

----------------------------------------------------------------------------
(* The pipes implement a channel of whole requests.                        *)

Carrying == {"0x01", "0x02"}

Brief(r) == [kind |-> r.kind, from |-> r.from, n |-> r.n]

\* A request whose arguments are being popped is not taken yet.
Unserved == IF cur \in {"pop_tid", "pop_fs", "pop_chan"} THEN <<cur_req>> ELSE <<>>

Briefs(s) == [i \in 1 .. Len(s) |-> Brief(s[i])]

Pending == Briefs(Unserved \o evtloop_pipe)

PoppedFor(k) == {popped_arg[p] : p \in {q \in ArgPipes : KindOf(q) = k}}

Serving ==
    IF cur = "serve" THEN {[request |-> Brief(cur_req), args |-> PoppedFor(cur_req.kind)]} ELSE {}

Channel == INSTANCE RequestChannel WITH
    Senders <- Threads, WithArguments <- Carrying, Kept <- Carrying,
    sent <- notified, pending <- Pending, serving <- Serving, off <- isFTMPowerOffInd

\* Bytes and arguments that travel through four pipes arrive like whole requests:
\* in order, each once, with its own arguments; a power-off discards only the
\* kinds that carry none.
ImplementsRequestChannel == Channel!Spec

----------------------------------------------------------------------------
(* The inductive invariant.                                                *)

\* Arguments already pushed by the holder of the mutex for a request that is
\* not notified yet.
Unannounced(p) ==
    IF \E t \in evtloop_mtx : \/ pc[t] = "push_tid" /\ p = "flow_state_pipe"
                              \/ pc[t] = "notify" /\ kind[t] = KindOf(p)
    THEN 1 ELSE 0

\* Arguments of the request being read that are not popped yet.
Unpopped(p) ==
    IF \/ cur = "pop_tid" /\ p # "chan_num_pipe"
       \/ cur = "pop_fs" /\ p = "flow_state_pipe"
       \/ cur = "pop_chan" /\ p = "chan_num_pipe"
    THEN 1 ELSE 0

Popped(p) == fetched[KindOf(p)] - Unpopped(p)

\* Only the holder of the mutex is past the lock, and it issues the kind that
\* its position belongs to.
MutexInv ==
    /\ \A t, u \in evtloop_mtx : t = u
    /\ \A t \in evtloop_mtx : pc[t] \in {"encode", "push", "push_tid", "notify", "unlock"}
    /\ \A t \in Threads : pc[t] \in {"push", "push_tid", "notify", "unlock"} => t \in evtloop_mtx
    /\ \A t \in Threads : pc[t] \in {"encode", "lock", "push_tid"} => kind[t] = "0x01"
    /\ \A t \in Threads : pc[t] = "push" => kind[t] \in {"0x01", "0x02"}

\* An argument pipe holds exactly the ordinals pushed and not popped, in order.
ArgInv ==
    \A p \in ArgPipes :
        /\ Len(arg_pipe[p]) = notified[KindOf(p)] + Unannounced(p) - Popped(p)
        /\ \A i \in 1 .. Len(arg_pipe[p]) : arg_pipe[p][i] = Popped(p) + i

\* evtloop_pipe holds, for each kind, exactly the ordinals notified and not
\* read, in order.
EvtInv ==
    /\ \A k \in Kinds : fetched[k] <= notified[k]
    /\ \A i \in 1 .. Len(evtloop_pipe) :
           /\ evtloop_pipe[i].n > fetched[evtloop_pipe[i].kind]
           /\ evtloop_pipe[i].n <= notified[evtloop_pipe[i].kind]
    /\ \A i, j \in 1 .. Len(evtloop_pipe) :
           i < j /\ evtloop_pipe[i].kind = evtloop_pipe[j].kind
               => evtloop_pipe[i].n < evtloop_pipe[j].n
    /\ \A k \in Kinds : \A m \in fetched[k] + 1 .. notified[k] :
           \E i \in 1 .. Len(evtloop_pipe) :
               evtloop_pipe[i].kind = k /\ evtloop_pipe[i].n = m

\* The request being read is the last one fetched of its kind, and what is
\* popped so far is its own.
CurInv ==
    /\ cur # "idle" => cur_req.n = fetched[cur_req.kind] /\ cur_req.n > 0
    /\ cur \in {"pop_tid", "pop_fs"} => cur_req.kind = "0x01"
    /\ cur = "pop_chan" => cur_req.kind = "0x02"
    /\ cur = "pop_fs" => popped_arg["thread_idx_pipe"] = cur_req.n
    /\ PopsMatchRequest

\* A buffer holds the newest report of its thread, unless that is being encoded; the
\* request of the newest report follows every other of the same thread.
BufInv ==
    /\ \A t \in Threads : rsmp_buffer[t] = IF pc[t] = "encode" THEN Freed ELSE reports[t]
    /\ \A i \in 1 .. Len(evtloop_pipe) :
           evtloop_pipe[i].kind = "0x01" =>
               NewestFollows(evtloop_pipe[i].from, evtloop_pipe[i].report, i)
    /\ cur_req.kind = "0x01" => NewestFollows(cur_req.from, cur_req.report, 0)

IInv == TypeOK /\ MutexInv /\ ArgInv /\ EvtInv /\ CurInv /\ BufInv
=============================================================================
