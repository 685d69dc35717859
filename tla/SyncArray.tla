------------------------------ MODULE SyncArray ------------------------------
(***************************************************************************)
(* A TSyncArray, the deltas it writes and the array that reads them        *)
(* (src/src/sync_array.h), used the way it is meant to be: every delta is  *)
(* followed by reset_dirty, and the reader starts as a copy.  The stream   *)
(* between them is a TCP connection: it delays, but loses and reorders     *)
(* nothing.                                                                *)
(*                                                                         *)
(* Elements are arithmetic: the delta of an element of class type is       *)
(* written by net_delta_serialize but read by net_serialize, which no such *)
(* type of the repository defines for an input stream.  replace is left    *)
(* out: its writers call net_serialize with an argument missing and cannot *)
(* be instantiated.                                                        *)
(***************************************************************************)
EXTENDS SyncLog

CONSTANTS
    Values,     \* the elements
    MaxLen,     \* bound: elements of the array
    MaxCalls    \* bound: calls of its methods

ASSUME DefaultAssumption == Default \in Values
\* Vectors are written with a uint16_t for their length, and bit_stream.h asserts it.
ASSUME LengthAssumption == MaxLen \in Nat /\ MaxLen < Width
ASSUME CallsAssumption == MaxCalls \in Nat

VARIABLES
    vec,        \* _vec
    log,        \* _dirty_log
    wire,       \* deltas on their way to the reader
    replica,    \* the reader's _vec
    calls       \* how many methods were called

arrayVars == <<vec, log, wire, replica, calls>>

-----------------------------------------------------------------------------
ArrayInit ==
    /\ vec = <<>>
    /\ log = <<>>
    /\ wire = <<>>
    /\ replica = <<>>
    /\ calls = 0

\* A method writes its operation behind the log.
Logged(o) == log' = Append(log, o)

\* A method of the array changes the vector as the standard says and logs itself.
Changed(o, new) ==
    /\ calls < MaxCalls
    /\ calls' = calls + 1
    /\ Len(new) <= MaxLen
    /\ vec' = new
    /\ Logged(o)
    /\ UNCHANGED <<wire, replica>>

CallPushBack(v) == Changed(PushBack(v), vec \o <<v>>)

CallPopBack == vec # <<>> /\ Changed(PopBack, SubSeq(vec, 1, Len(vec) - 1))

CallInsert(i, v) ==
    /\ i <= Len(vec)
    /\ Changed(Insert(i, v), SubSeq(vec, 1, i) \o <<v>> \o SubSeq(vec, i + 1, Len(vec)))

CallErase(i) ==
    /\ i < Len(vec)
    /\ Changed(Erase(i), SubSeq(vec, 1, i) \o SubSeq(vec, i + 2, Len(vec)))

CallResize(n) == Changed(Resize(n), [i \in 1 .. n |-> IF i \in DOMAIN vec THEN vec[i] ELSE Default])

\* operator[] and mark_dirty of the element written.
CallMarkDirty(i, v) ==
    /\ i < Len(vec)
    /\ Changed(MarkDirty(i, v), [vec EXCEPT ![i + 1] = v])

\* Faulty variant: the log is kept, and the next delta repeats it.
Flushed_KeepsLog == log

\* The log after reset_dirty.
Flushed == <<>>

\* net_delta_serialize, for a log that is not empty, and reset_dirty.
Flush ==
    /\ log # <<>>
    /\ wire' = Append(wire, log)
    /\ log' = Flushed
    /\ UNCHANGED <<vec, replica, calls>>

\* The reader reads the next delta to its end.
ReadDelta ==
    /\ wire # <<>>
    /\ wire' = Tail(wire)
    /\ replica' = Replay(replica, Head(wire))
    /\ UNCHANGED <<vec, log, calls>>

\* All calls are made and all deltas read.
Finished ==
    /\ calls = MaxCalls /\ log = <<>> /\ wire = <<>>
    /\ UNCHANGED arrayVars

ArrayNext ==
    \/ \E v \in Values : CallPushBack(v)
    \/ CallPopBack
    \/ \E i \in 0 .. MaxLen, v \in Values : CallInsert(i, v) \/ CallMarkDirty(i, v)
    \/ \E i \in 0 .. MaxLen : CallErase(i) \/ CallResize(i)
    \/ Flush
    \/ ReadDelta
    \/ Finished

ArraySpec == ArrayInit /\ [][ArrayNext]_arrayVars

-----------------------------------------------------------------------------
(* Properties *)

\* The arrays hold elements, and no position that is logged is cut off.
TypeOK ==
    /\ vec \in Seq(Values) /\ Len(vec) <= MaxLen
    /\ replica \in Seq(Values)
    /\ calls \in 0 .. MaxCalls
    /\ \A i \in DOMAIN log : "pos" \in DOMAIN log[i] => log[i].pos < MaxLen

\* Nothing is lost, doubled or applied in the wrong order: a reader that reads the
\* deltas on their way and the log not yet sent has the array of the owner.
ReplicaCatchesUp ==
    /\ TypeOK
    /\ Replay(replica, FlattenSeq(wire) \o log) = vec

\* The deltas on their way, read as the arrays they will make of the reader's.
Arriving ==
    [i \in 1 .. Len(wire) |-> Replay(replica, FlattenSeq(SubSeq(wire, 1, i)))]

\* Sending deltas is as good as sending whole arrays: the reader's array is at every
\* moment one the owner had when it flushed, in the same order.
Whole == INSTANCE Mirror WITH
    Contents <- Seq(Values),
    value <- vec, sent <- Arriving, copy <- replica

KeepsMirror == Whole!Spec
=============================================================================
