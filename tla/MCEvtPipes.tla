----------------------------- MODULE MCEvtPipes -----------------------------
(* EvtPipes for TLC: the requests the code's threads really issue.         *)
EXTENDS EvtPipes

CONSTANTS EvtLoop, Listener, MsgLoop

MCThreads == {EvtLoop, Listener, MsgLoop}

MCIssues ==
    {<<EvtLoop, "0x01">>, <<EvtLoop, "0x03">>, <<Listener, "0x01">>, <<Listener, "0x02">>,
     <<MsgLoop, "0x02">>}

MCMaxRequests == [k \in Kinds |-> IF k \in {"0x01", "0x02"} THEN 2 ELSE 1]
=============================================================================
