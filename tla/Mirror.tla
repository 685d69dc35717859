------------------------------- MODULE Mirror -------------------------------
(***************************************************************************)
(* What a synchronised value promises its reader: whole values travel, in  *)
(* the order they were sent, and the reader's copy is always one the owner *)
(* has had.                                                                *)
(***************************************************************************)
EXTENDS Sequences

CONSTANT Contents       \* what the value may be

VARIABLES
    value,      \* the owner's
    sent,       \* on their way to the reader
    copy        \* the reader's

mirrorVars == <<value, sent, copy>>

Init ==
    /\ value \in Contents
    /\ sent = <<>>
    /\ copy = value

Change == value' \in Contents /\ UNCHANGED <<sent, copy>>

Send == sent' = Append(sent, value) /\ UNCHANGED <<value, copy>>

Receive ==
    /\ sent # <<>>
    /\ copy' = Head(sent)
    /\ sent' = Tail(sent)
    /\ UNCHANGED value

Spec == Init /\ [][Change \/ Send \/ Receive]_mirrorVars
=============================================================================
