------------------------------- MODULE SyncLog -------------------------------
(***************************************************************************)
(* The operations a TSyncArray logs and what its reader makes of them      *)
(* (src/src/sync_array.h).  Positions count from 0 and travel as uint16_t. *)
(* clear is left out: nobody calls it, and the reader has no case for it.  *)
(***************************************************************************)
EXTENDS Integers, SequencesExt

CONSTANTS
    Default,    \* T()
    Width       \* 2^16

ASSUME WidthAssumption == Width \in Nat \ {0}

\* A cast to uint16_t.
Index(i) == i % Width

Resized(vec, n) ==
    IF n <= Len(vec) THEN SubSeq(vec, 1, n) ELSE vec \o [i \in 1 .. n - Len(vec) |-> Default]

-----------------------------------------------------------------------------
(* What the methods of the array write into its log. *)

PushBack(v)  == [op |-> "push_back", value |-> v]
PopBack      == [op |-> "pop_back"]
Insert(i, v) == [op |-> "insert", pos |-> Index(i), value |-> v]
Erase(i)     == [op |-> "erase", pos |-> Index(i)]
Resize(n)    == [op |-> "resize", count |-> Index(n)]
MarkDirty(i, v) == [op |-> "update", pos |-> Index(i), value |-> v]

(* The reader of the log: TSyncArray::net_delta_serialize of an input stream. *)

\* Faulty variant: insert puts the element behind the position.
ApplyOp_InsertsBehind(vec, o) ==
    CASE o.op = "update"    -> [vec EXCEPT ![o.pos + 1] = o.value]
      [] o.op = "push_back" -> Append(vec, o.value)
      [] o.op = "pop_back"  -> Front(vec)
      [] o.op = "insert"    -> IF o.pos = Len(vec) THEN Append(vec, o.value)
                               ELSE InsertAt(vec, o.pos + 2, o.value)
      [] o.op = "erase"     -> RemoveAt(vec, o.pos + 1)
      [] o.op = "resize"    -> Resized(vec, o.count)

ApplyOp(vec, o) ==
    CASE o.op = "update"    -> [vec EXCEPT ![o.pos + 1] = o.value]
      [] o.op = "push_back" -> Append(vec, o.value)
      [] o.op = "pop_back"  -> Front(vec)
      [] o.op = "insert"    -> InsertAt(vec, o.pos + 1, o.value)
      [] o.op = "erase"     -> RemoveAt(vec, o.pos + 1)
      [] o.op = "resize"    -> Resized(vec, o.count)

\* An array after a whole log.
Replay(vec, log) ==
    LET after[i \in 0 .. Len(log)] == IF i = 0 THEN vec ELSE ApplyOp(after[i - 1], log[i])
    IN  after[Len(log)]
=============================================================================
