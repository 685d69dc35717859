-------------------------------- MODULE Pipe --------------------------------
(***************************************************************************)
(* What a connection promises: messages arrive whole, in the order in      *)
(* which they were sent, each once.  A connection may be lost; what has    *)
(* not arrived by then need not arrive.                                    *)
(***************************************************************************)
EXTENDS Integers, Sequences

CONSTANT Message

VARIABLES sent, received, lost

pipeVars == <<sent, received, lost>>

PipeInit ==
    /\ sent = << >>
    /\ received = << >>
    /\ lost = FALSE

Put(m) ==
    /\ ~lost
    /\ sent' = Append(sent, m)
    /\ UNCHANGED <<received, lost>>

\* One read may bring several messages.
Get(n) ==
    /\ received' = SubSeq(sent, 1, n)
    /\ UNCHANGED <<sent, lost>>

Lose ==
    /\ lost' = TRUE
    /\ UNCHANGED <<sent, received>>

PipeNext ==
    \/ \E m \in Message : Put(m)
    \/ \E n \in (Len(received) + 1) .. Len(sent) : Get(n)
    \/ Lose

PipeSpec == PipeInit /\ [][PipeNext]_pipeVars
=============================================================================
