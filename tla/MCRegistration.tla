-------------------------- MODULE MCRegistration ---------------------------
(* What mdmImodem may report in one life of the Listener, for TLC.         *)
EXTENDS Registration

Case(says, n, t) ==
    [says |-> says, urcs |-> n, timeouts |-> t, cuts |-> FALSE, late |-> FALSE,
     good_signal |-> FALSE, slow_server |-> TRUE]

Resets == {"CARD_ERROR", "REJ_V01", "SESSION_ILLEGAL", "NOT_AVAILABLE", "FAIL"}

\* Losses, rejections and resets, with an APDU that times out; the same with a signal that
\* is good, or a server that is fast; parts of reports; reports during the reset; and parts
\* of more reports than the bytes of a read are counted for, where only HandledOnce and the
\* types are claimed.
All == {Case(Losses \ {"FAIL"}, 3, 1),
        Case(Losses \union {"SYS_MODE", "OTHER"}, 3, 0),
        [Case({"FAIL", "SEARCHING", "REJ_V02"}, 2, 0) EXCEPT !.good_signal = TRUE],
        [Case({"SEARCHING", "REJ_V01"}, 2, 0) EXCEPT !.slow_server = FALSE],
        [Case({"SEARCHING", "REJ_V01", "REJ_V02", "REJ_V04", "OTHER"}, 2, 0) EXCEPT !.cuts = TRUE],
        [Case(Resets, 2, 1) EXCEPT !.late = TRUE],
        [Case({"SYS_MODE"}, 5, 0) EXCEPT !.cuts = TRUE, !.late = TRUE]}
=============================================================================
