------------------------------ MODULE Messages ------------------------------
(***************************************************************************)
(* One message object of proto/space_service.pb.{h,cc} in the hands of the *)
(* server: its accessors, Clear, MergeImpl, CopyFrom, serialising and      *)
(* parsing.  An object is not just its value: a field that holds a message *)
(* is a has-bit and a pointer, and clearing it keeps the object behind the *)
(* pointer for the next use.  Values says what a user may rely on.         *)
(*                                                                         *)
(* has is _has_bits_; slot[n] is the storage of field n: four bytes, a     *)
(* number, a string, a repeated field, or the object behind a pointer as a *)
(* sequence of at most one.                                                *)
(***************************************************************************)
EXTENDS Values

CONSTANTS
    Explored,   \* the messages to explore
    Sample,     \* per kind of field, the values it is set to
    MaxSteps    \* bound: calls on an object of each class

ASSUME MessagesAssumption == Explored \subseteq Types /\ MaxSteps \in [Explored -> Nat]

VARIABLES
    type,     \* the message's class
    msg,      \* the object
    worth,    \* history: what it should be worth by Values
    steps

messagesVars == <<type, msg, worth, steps>>

-----------------------------------------------------------------------------
(* The generated functions, over any schema *)

Default(f) == IF f.repeated \/ f.kind \in {"bytes", "message"} THEN << >>
              ELSE IF f.kind = "float" THEN <<0, 0, 0, 0>> ELSE 0

New(t) == [has |-> {}, slot |-> [n \in Nums(t) |-> Default(FieldAt[t][n])]]

\* The object with what g makes of each of its fields.
Each(t, o, has, g(_)) ==
    [has |-> has, slot |-> [n \in Nums(t) |-> g(FieldAt[t][n])]]

\* Clear looks into the fields that are present only, and keeps their objects.
RECURSIVE Clear(_, _)
Clear(t, o) ==
    LET Cleared(f) == IF f.kind = "message" /\ f.presence
                      THEN IF f.num \in o.has THEN <<Clear(f.of, o.slot[f.num][1])>>
                                              ELSE o.slot[f.num]
                      ELSE Default(f)
    IN  Each(t, o, {}, Cleared)

\* The copy constructor copies the objects of fields that are present.
RECURSIVE Copy(_, _)
Copy(t, o) ==
    LET Copied(f) == IF f.kind # "message" THEN o.slot[f.num]
                     ELSE IF f.presence /\ f.num \notin o.has THEN << >>
                     ELSE [i \in DOMAIN o.slot[f.num] |-> Copy(f.of, o.slot[f.num][i])]
    IN  Each(t, o, o.has, Copied)

\* Faulty variant: floats are compared as numbers, so that -0.0 is left out.
Present_AsNumber(f, o) ==
    IF f.presence THEN f.num \in o.has
    ELSE IF f.kind = "float" THEN o.slot[f.num] \notin {<<0, 0, 0, 0>>, <<0, 0, 0, 128>>}
    ELSE o.slot[f.num] # Default(f)

\* A field without presence counts when it is not zero; of a float, when its bits are not.
Present(f, o) == IF f.presence THEN f.num \in o.has ELSE o.slot[f.num] # Default(f)

RECURSIVE MergeImpl(_, _, _)
MergeImpl(t, to, from) ==
    LET Merged(f) ==
            LET mine == to.slot[f.num]
                its  == from.slot[f.num]
            IN  CASE ~Present(f, from) -> mine
                  [] f.repeated -> mine \o (IF f.kind = "message"
                                            THEN [i \in DOMAIN its |-> Copy(f.of, its[i])]
                                            ELSE its)
                  [] f.kind = "message" /\ ~f.repeated ->
                        <<IF mine = << >> THEN Copy(f.of, its[1])
                                          ELSE MergeImpl(f.of, mine[1], its[1])>>
                  [] OTHER -> its
    IN  Each(t, to, to.has \cup from.has, Merged)

CopyFrom(t, to, from) == MergeImpl(t, Clear(t, to), from)

\* s[1] \o s[2] \o ..., and their sum.
Joined(s) == LET upto[i \in 0 .. Len(s)] == IF i = 0 THEN << >> ELSE upto[i - 1] \o s[i]
             IN  upto[Len(s)]
Total(s)  == LET upto[i \in 0 .. Len(s)] == IF i = 0 THEN 0 ELSE upto[i - 1] + s[i]
             IN  upto[Len(s)]

RECURSIVE InternalSerialize(_, _)
InternalSerialize(t, o) ==
    LET Written(f) ==
            LET v == o.slot[f.num]
                Element(i) == <<Tag(f)>> \o Delimited(InternalSerialize(f.of, v[i]))
            IN  CASE ~Present(f, o) -> << >>
                  [] f.kind = "message" -> Joined([i \in DOMAIN v |-> Element(i)])
                  [] f.repeated -> <<Tag(f)>> \o Delimited(Joined(
                                        [i \in DOMAIN v |-> Varint(v[i])]))
                  [] f.kind = "bytes" -> <<Tag(f)>> \o Delimited(v)
                  [] f.kind = "float" -> <<Tag(f)>> \o v
                  [] OTHER -> <<Tag(f)>> \o Varint(v)
    IN  Joined([i \in DOMAIN Schema[t] |-> Written(Schema[t][i])])

Int32Size(v) == Len(Varint(v))

\* What the receiver of the lengths relies on: it is computed apart from the bytes.
RECURSIVE ByteSizeLong(_, _)
ByteSizeLong(t, o) ==
    LET Prefixed(n) == Len(Varint(n)) + n
        Size(f)     ==
            LET v == o.slot[f.num]
            IN  CASE ~Present(f, o) -> 0
                  [] f.kind = "message" ->
                        Total([i \in DOMAIN v |-> 1 + Prefixed(ByteSizeLong(f.of, v[i]))])
                  [] f.repeated -> 1 + Prefixed(Total([i \in DOMAIN v |-> Int32Size(v[i])]))
                  [] f.kind = "bytes" -> 1 + Prefixed(Len(v))
                  [] f.kind = "float" -> 5
                  [] OTHER -> 1 + Int32Size(v)
    IN  Total([i \in DOMAIN Schema[t] |-> Size(Schema[t][i])])

RECURSIVE Numbers(_)
Numbers(bytes) ==
    IF bytes = << >> THEN << >>
    ELSE <<ReadVarint(bytes)>> \o Numbers(SubSeq(bytes, VarintLen(bytes) + 1, Len(bytes)))

\* A message is read into the object that is there.
Target(f, old) == IF old = << >> THEN New(f.of) ELSE old[1]

\* What parsing does with one field: a tag and the value behind it.
RECURSIVE MergeFromWire(_, _, _)
ParseField(t, o, f, value) ==
    LET old == o.slot[f.num]
        new == CASE f.kind = "message" /\ f.repeated ->
                        Append(old, MergeFromWire(f.of, New(f.of), value))
                 [] f.kind = "message" /\ ~f.repeated -> <<MergeFromWire(f.of, Target(f, old), value)>>
                 [] f.repeated  -> old \o Numbers(value)
                 [] f.kind = "int32" /\ ~f.repeated -> ReadVarint(value)
                 [] OTHER -> value
    IN  [has  |-> IF f.presence THEN o.has \cup {f.num} ELSE o.has,
         slot |-> [o.slot EXCEPT ![f.num] = new]]

\* The parse loop: the parse table finds the field of a tag.
MergeFromWire(t, o, bytes) ==
    IF bytes = << >> THEN o
    ELSE LET f    == CHOOSE g \in Fields(t) : Tag(g) = Head(bytes)
             rest == Tail(bytes)
             size == ValueSize(f, rest)
             read == ParseField(t, o, f, SubSeq(rest, LengthSize(f, rest) + 1, size))
         IN  MergeFromWire(t, read, SubSeq(rest, size + 1, Len(rest)))

ParseFromString(t, o, bytes) == MergeFromWire(t, Clear(t, o), bytes)

-----------------------------------------------------------------------------
(* What the accessors show: a field that is not present shows its default, *)
(* whatever is kept behind it.                                             *)

RECURSIVE Value(_, _)
Value(t, o) ==
    [n \in Nums(t) |->
        LET f == FieldAt[t][n]
        IN  CASE f.presence /\ n \notin o.has -> << >>
              [] f.kind = "message" -> [i \in DOMAIN o.slot[n] |-> Value(f.of, o.slot[n][i])]
              [] f.presence /\ f.kind # "message" -> <<o.slot[n]>>
              [] OTHER -> o.slot[n]]

\* Objects to merge, assign and parse from: one with all fields set, and each field on
\* its own with its values.
With(o, f, v) == [has  |-> IF f.presence THEN o.has \cup {f.num} ELSE o.has,
                  slot |-> [o.slot EXCEPT ![f.num] = v]]

RECURSIVE Full(_)
Full(t) ==
    [has |-> {f.num : f \in {g \in Fields(t) : g.presence}},
     slot |-> [n \in Nums(t) |->
                LET f == FieldAt[t][n]
                IN  IF f.kind = "message" THEN <<Full(f.of)>>
                    ELSE IF f.repeated THEN SetToSeq(Sample[f.kind])
                    ELSE CHOOSE v \in Sample[f.kind] : TRUE]]

FieldValues(f) ==
    IF f.kind = "message" THEN {<<Full(f.of)>>, <<New(f.of)>>}
    ELSE IF f.repeated THEN {<<v>> : v \in Sample[f.kind]}
    ELSE Sample[f.kind]

ObjectsOf == [t \in Types |->
    {Full(t)} \cup UNION {{With(New(t), f, v) : v \in FieldValues(f)} : f \in Fields(t)}]

-----------------------------------------------------------------------------
(* The object in use *)

Init ==
    /\ type \in Explored
    /\ msg = New(type)
    /\ worth = Empty(type)
    /\ steps = 0

\* Every call below is one of these.
Call(new, newWorth) ==
    /\ steps < MaxSteps[type]
    /\ steps' = steps + 1
    /\ msg' = new
    /\ worth' = newWorth
    /\ UNCHANGED type

\* set_x() of a number or a string.
SetField(f, v) ==
    /\ f.kind # "message" /\ ~f.repeated
    /\ Call(With(msg, f, v), Put(worth, f, IF f.presence THEN <<v>> ELSE v))

\* Faulty variant: only the bit is cleared.
Emptied_BitOnly(o, f) ==
    [has  |-> o.has \ {f.num},
     slot |-> IF f.kind = "message" /\ ~f.repeated THEN o.slot
              ELSE [o.slot EXCEPT ![f.num] = Default(f)]]

\* clear_x() keeps the object and clears it, present or not.
Emptied(o, f) ==
    [has  |-> o.has \ {f.num},
     slot |-> [o.slot EXCEPT ![f.num] =
                 IF f.kind = "message" /\ ~f.repeated /\ @ # << >>
                 THEN <<Clear(f.of, @[1])>> ELSE Default(f)]]

ClearField(f) == Call(Emptied(msg, f), Drop(worth, f))

\* Faulty variant: mutable_x() makes an object even when there is one.
Mutable_AlwaysNew(o, f) == With(o, f, <<New(f.of)>>)

\* mutable_x() makes the object if there is none; the caller then writes it.
Mutable(o, f) == With(o, f, IF o.slot[f.num] = << >> THEN <<New(f.of)>> ELSE o.slot[f.num])

MutableField(f, w) ==
    LET o == Mutable(msg, f)
    IN  /\ f.kind = "message" /\ f.presence
        /\ Call([o EXCEPT !.slot[f.num] = <<MergeImpl(f.of, @[1], w)>>],
                Write(worth, f, Value(f.of, w)))

\* set_allocated_x() takes over an object, or none.
SetAllocated(f, w) ==
    /\ f.kind = "message" /\ f.presence
    /\ Call([has  |-> IF w = << >> THEN msg.has \ {f.num} ELSE msg.has \cup {f.num},
             slot |-> [msg.slot EXCEPT ![f.num] = w]],
            Put(worth, f, [i \in DOMAIN w |-> Value(f.of, w[i])]))

\* release_x() hands the object out.
Release(f) ==
    /\ ~f.repeated /\ f.kind \in {"bytes", "message"}
    /\ Call([has |-> msg.has \ {f.num}, slot |-> [msg.slot EXCEPT ![f.num] = << >>]],
            Drop(worth, f))

\* add_x(); the element of a message is then written by the caller.
AddElement(f, v) ==
    /\ f.repeated
    /\ Call([msg EXCEPT !.slot[f.num] = Append(@, v)],
            Extend(worth, f, IF f.kind = "message" THEN Value(f.of, v) ELSE v))

ClearMessage == Call(Clear(type, msg), Empty(type))
MergeFrom(w) == Call(MergeImpl(type, msg, w), Overlaid(type, worth, Value(type, w)))
Assign(w)    == Call(CopyFrom(type, msg, w), Value(type, w))
Parse(w)     == Call(ParseFromString(type, msg, InternalSerialize(type, w)), Value(type, w))
MergeParsed(w) == Call(MergeFromWire(type, msg, InternalSerialize(type, w)),
                       Overlaid(type, worth, Value(type, w)))

Next ==
    \/ \E f \in Fields(type) :
        \/ \E v \in FieldValues(f) : SetField(f, v) \/ (f.repeated /\ AddElement(f, v[1]))
        \/ ClearField(f)
        \/ Release(f)
        \/ /\ f.kind = "message"
           /\ \/ \E w \in ObjectsOf[f.of] : MutableField(f, w)
              \/ \E w \in FieldValues(f) \cup {<< >>} : SetAllocated(f, w)
    \/ ClearMessage
    \/ \E w \in ObjectsOf[type] : MergeFrom(w) \/ Assign(w) \/ Parse(w) \/ MergeParsed(w)

Spec == Init /\ [][Next]_messagesVars

-----------------------------------------------------------------------------
(* Properties *)

\* has_x() promises a pointer, and an object kept behind a field that is not present is
\* blank, at every depth: no later mutable_x(), merge or parse brings old data back.
RECURSIVE KeepsBlank(_, _)
KeepsBlank(f, o) ==
    f.kind = "message" =>
        /\ f.presence => /\ Len(o.slot[f.num]) <= 1
                         /\ f.num \in o.has => o.slot[f.num] # << >>
                         /\ f.num \notin o.has /\ o.slot[f.num] # << >> =>
                                Value(f.of, o.slot[f.num][1]) = Value(f.of, New(f.of))
        /\ \A i \in DOMAIN o.slot[f.num] : \A g \in Fields(f.of) : KeepsBlank(g, o.slot[f.num][i])

KeptIsBlank == \A f \in Fields(type) : KeepsBlank(f, msg)

\* What is sent is what is received, into a new object and into one used before: zero
\* fields are left out, yet negative zero is a value.
RoundTrip ==
    \A used \in {New(type), Full(type)} :
        Value(type, ParseFromString(type, used, InternalSerialize(type, msg)))
            = Value(type, msg)

\* The size announced, for the message and for each message inside, is the size written.
SizeIsExact == ByteSizeLong(type, msg) = Len(InternalSerialize(type, msg))

\* The two together: what the receiver of a message relies on.
WireExact == RoundTrip /\ SizeIsExact

\* The object is worth its value: whatever was cleared, released, allocated, merged or
\* parsed, nothing that is kept shows, and nothing is lost.
ActsAsValue == Value(type, msg) = worth
=============================================================================
