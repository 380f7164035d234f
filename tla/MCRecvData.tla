----------------------------- MODULE MCRecvData -----------------------------
(* Answers of the server, and how the modem may hand them over, for TLC.   *)
EXTENDS RecvData

Answer(f, s, p, st, n) == [flow |-> f, segs |-> s, pauses |-> p, stalls |-> st, reports |-> n]

\* The answer to an APDU or to an ID fits into one report.
OneSegment == {<<n>> : n \in 2..7}

\* Reports of one length, and a last one that is not longer.
EqualSegments == {<<3>>, <<3, 2>>, <<3, 3>>, <<3, 3, 1>>, <<3, 3, 2>>}

\* USIM data come with pauses of five seconds between some reports, or with other reports in
\* between and pauses anywhere else.
Regular ==
    {Answer(f, s, {"URC", "data"}, TRUE, 0) : f \in {"APDU_COMM", "ID_AUTH"}, s \in OneSegment}
    \union {Answer("REMOTE_UIM_DATA_REQ", s, {"URC", "data"}, TRUE, 0) : s \in EqualSegments}
    \union {Answer("REMOTE_UIM_DATA_REQ", s, Kinds, FALSE, 2) : s \in EqualSegments}
=============================================================================
