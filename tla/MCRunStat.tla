----------------------------- MODULE MCRunStat -----------------------------
(***************************************************************************)
(* RunStat with the threads that report, for TLC.                          *)
(***************************************************************************)
EXTENDS RunStat

\* The card was not accepted, was powered down, or is ready; an APDU is sent to the
\* server; the second modem has lost its PDP context or has it again.
Events(t) ==
    CASE t = "Listener" -> {5, 6, 7}
      [] t = "Parser" -> {20}
      [] t = "SockListener" -> {29, 30}
=============================================================================
