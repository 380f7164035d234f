--------------------------- MODULE MCEmodemLink -----------------------------
(* EmodemLink for TLC: what happens around the engine in each run, and how *)
(* often.                                                                  *)
EXTENDS EmodemLink

\* The causes that are not named do not happen.
Only(n, times) ==
    [c \in Causes \union {"any"} |->
        IF c = "any" THEN n ELSE IF c \in DOMAIN times THEN times[c] ELSE 0]

\* Any two things; or two power-offs and a lost connection, so that MsgLoop is asked
\* again while the notice is on its way.
Everything == {[c \in Causes \union {"any"} |-> 2], Only(3, [pwrdwn |-> 2, lost |-> 1])}

\* mdmEmodem serves on its own; mdmImodem takes over; the box is powered off.
Service == {Only(5, [apdu |-> 2, report |-> 1, custom |-> 1, bad |-> 1]),
            Only(4, [apdu |-> 2, report |-> 1, dialup |-> 1]),
            Only(4, [apdu |-> 1, report |-> 1, custom |-> 1, pwrdwn |-> 1])}

\* mdmImodem dials up before the engine has begun.
Dialup == {Only(1, [dialup |-> 1])}
=============================================================================
