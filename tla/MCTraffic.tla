----------------------------- MODULE MCTraffic -----------------------------
(***************************************************************************)
(* Traffic with values for TLC.                                            *)
(***************************************************************************)
EXTENDS Traffic

Both == BOOLEAN
Daily == {FALSE}

NoLimits == <<0, 0>>
Limits == <<1, 3>>
=============================================================================
