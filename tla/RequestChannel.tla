--------------------------- MODULE RequestChannel ---------------------------
(***************************************************************************)
(* What a thread that asks EvtLoop for something may rely on: requests are *)
(* served one at a time, in the order they were sent, each once and with   *)
(* its own arguments.  Once the box is being powered off, the kinds that   *)
(* only matter to a running box are discarded.                             *)
(***************************************************************************)
EXTENDS Integers, Sequences

CONSTANTS Senders, Kinds,
          WithArguments,   \* the kinds that carry arguments
          Kept             \* the kinds served during a power-off too

VARIABLES
    sent,      \* how many requests of each kind have been sent
    pending,   \* the requests sent and not taken, with their number
    serving,   \* the request being served, and the arguments it is served with
    off        \* the box is being powered off

cvars == <<sent, pending, serving, off>>

\* The argument of a request is identified by the number of the request.
Served(r) == [request |-> r, args |-> IF r.kind \in WithArguments THEN {r.n} ELSE {}]

Init ==
    /\ sent = [k \in Kinds |-> 0]
    /\ pending = <<>>
    /\ serving = {}
    /\ off = FALSE

Send(t, k) ==
    /\ sent' = [sent EXCEPT ![k] = @ + 1]
    /\ pending' = Append(pending, [kind |-> k, from |-> t, n |-> sent[k] + 1])
    /\ UNCHANGED <<serving, off>>

Take ==
    /\ serving = {} /\ pending # <<>>
    /\ serving' = {Served(Head(pending))}
    /\ pending' = Tail(pending)
    /\ UNCHANGED <<sent, off>>

Discard ==
    /\ off /\ serving = {} /\ pending # <<>>
    /\ Head(pending).kind \notin Kept
    /\ pending' = Tail(pending)
    /\ UNCHANGED <<sent, serving, off>>

Finish ==
    /\ serving # {}
    /\ serving' = {}
    /\ UNCHANGED <<sent, pending, off>>

PowerOff ==
    /\ ~off
    /\ off' = TRUE
    /\ UNCHANGED <<sent, pending, serving>>

Next ==
    \/ \E t \in Senders, k \in Kinds : Send(t, k)
    \/ Take \/ Discard \/ Finish \/ PowerOff

Spec == Init /\ [][Next]_cvars
=============================================================================
