---------------------------- MODULE MCUsimReset -----------------------------
(***************************************************************************)
(* UsimReset with what happens in each case, for TLC.                      *)
(***************************************************************************)
EXTENDS UsimReset

Case(n, hasty, poor) == [illegal |-> n, other |-> 1, timeouts |-> n, poor |-> poor, hasty |-> hasty]

\* Two reports and two timeouts at their time, or one of each, at one bad moment or at any.
All ==
    {Case(2, {}, poor) : poor \in BOOLEAN}
        \union {Case(1, hs, TRUE) : hs \in {{h} : h \in Hastes} \union {Hastes \ {"overtaken", "answered"}, Hastes}}
=============================================================================
