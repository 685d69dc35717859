----------------------------- MODULE MC_Messages -----------------------------
(* Small instances of Messages. *)
EXTENDS Messages

\* One byte, two bytes and, for a negative number, ten; 1.0 and -0.0; two strings.
MCSample == [int32 |-> {7, 300, -2},
             float |-> {<<0, 0, 128, 63>>, <<0, 0, 0, 128>>},
             bytes |-> {<<65>>, <<66, 67>>}]

MCExplored == Types

\* Three calls where they say more than two: make, clear and use again.
MCSteps == [t \in Types |-> IF t \in {"JoinReply", "PlayerAnimation", "AoiUpdate", "AoiUpdates",
                                     "EntitiesLeaveSight", "QueryPathResult", "Pong"}
                            THEN 3 ELSE 2]
=============================================================================
