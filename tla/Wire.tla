-------------------------------- MODULE Wire --------------------------------
(***************************************************************************)
(* The schemas of the messages in proto/space_service.pb.{h,cc}, and the   *)
(* bytes of their fields.  The generated code repeats, for each message,   *)
(* a parse table and the functions Clear, _InternalSerialize, ByteSizeLong *)
(* and MergeImpl, field by field: here that is one schema per message, and *)
(* Messages has the functions, once, over any schema.                      *)
(*                                                                         *)
(* The bytes themselves are written and read by the protobuf library,      *)
(* which is not in the repository.  A float is its four bytes.             *)
(***************************************************************************)
EXTENDS Integers, Sequences, SequencesExt

\* A field without presence is written when it is not zero; one with presence has a
\* has-bit; a repeated one is a sequence.
Scalar(n, kind)   == [num |-> n, kind |-> kind, presence |-> FALSE, repeated |-> FALSE, of |-> ""]
Optional(n, kind) == [Scalar(n, kind) EXCEPT !.presence = TRUE]
Sub(n, type)      == [Optional(n, "message") EXCEPT !.of = type]
Many(n, type)     == [Scalar(n, "message") EXCEPT !.repeated = TRUE, !.of = type]
Packed(n, kind)   == [Scalar(n, kind) EXCEPT !.repeated = TRUE]

-----------------------------------------------------------------------------
(* The messages.  Enumerations travel as int32, strings as bytes.          *)

Vector3f           == <<Scalar(1, "float"), Scalar(2, "float"), Scalar(3, "float")>>
Movement           == [n \in 1 .. 5 |-> Sub(n, "Vector3f")]
                        \o <<Scalar(6, "int32"), Scalar(7, "float")>>
LoginRequest       == <<Scalar(1, "bytes")>>
LoginReply         == <<Scalar(1, "int32"), Scalar(2, "int32")>>
JoinReply          == <<Scalar(1, "int32"), Sub(2, "Vector3f")>>
PlayerInfo         == <<Scalar(1, "int32"), Scalar(2, "bytes")>>
PlayerDeltaInfo    == <<Scalar(1, "int32"), Scalar(2, "bytes")>>
AoiEntity          == <<Scalar(1, "bytes"), Scalar(2, "bytes"),
                        Sub(3, "Vector3f"), Sub(4, "Vector3f")>>
EntitiesEnterSight == <<Many(1, "AoiEntity")>>
EntitiesLeaveSight == <<Packed(1, "int32")>>
AoiUpdate          == <<Scalar(1, "int32"), Optional(2, "bytes")>>
AoiUpdates         == <<Many(1, "AoiUpdate")>>
Ping               == <<Scalar(1, "float")>>
Pong               == <<Scalar(1, "float"), Scalar(2, "int32")>>
NormalAttack       == <<Scalar(1, "int32")>>
SkillAttack        == <<Scalar(1, "int32")>>
Animation          == <<Scalar(1, "bytes"), Scalar(2, "int32"), Scalar(3, "float")>>
PlayerAnimation    == <<Scalar(1, "int32"), Sub(2, "Animation")>>
TakeDamage         == <<Scalar(1, "int32"), Scalar(2, "int32")>>
QueryPath          == <<Sub(1, "Vector3f"), Sub(2, "Vector3f")>>
QueryPathResult    == <<Many(1, "Vector3f")>>

Schema ==
    [Vector3f |-> Vector3f, Movement |-> Movement, LoginRequest |-> LoginRequest,
     LoginReply |-> LoginReply, JoinReply |-> JoinReply, PlayerInfo |-> PlayerInfo,
     PlayerDeltaInfo |-> PlayerDeltaInfo, AoiEntity |-> AoiEntity,
     EntitiesEnterSight |-> EntitiesEnterSight, EntitiesLeaveSight |-> EntitiesLeaveSight,
     AoiUpdate |-> AoiUpdate, AoiUpdates |-> AoiUpdates, Ping |-> Ping, Pong |-> Pong,
     NormalAttack |-> NormalAttack, SkillAttack |-> SkillAttack, Animation |-> Animation,
     PlayerAnimation |-> PlayerAnimation, TakeDamage |-> TakeDamage,
     QueryPath |-> QueryPath, QueryPathResult |-> QueryPathResult]

Types == DOMAIN Schema

Fields(type) == ToSet(Schema[type])

FieldAt == [t \in Types |-> [n \in {f.num : f \in Fields(t)} |->
                CHOOSE f \in Fields(t) : f.num = n]]

Nums(t) == DOMAIN FieldAt[t]

-----------------------------------------------------------------------------
(* Bytes *)

\* Seven bits to a byte, the lowest first; a negative int32 is extended to 64 bits.
RECURSIVE Groups(_, _)
Groups(v, n) == IF n = 10 THEN <<1>> ELSE <<128 + (v % 128)>> \o Groups(v \div 128, n + 1)

RECURSIVE Varint(_)
Varint(v) == IF v < 0 THEN Groups(v, 1)
             ELSE IF v < 128 THEN <<v>>
             ELSE <<128 + (v % 128)>> \o Varint(v \div 128)

VarintLen(s) == CHOOSE n \in 1 .. Len(s) : s[n] < 128 /\ \A i \in 1 .. (n - 1) : s[i] >= 128

\* The int32 a varint at the head of s stands for: what is above 32 bits is dropped.
ReadVarint(s) ==
    LET d(i) == IF i <= VarintLen(s) THEN s[i] % 128 ELSE 0
        top  == IF d(5) % 16 >= 8 THEN (d(5) % 16) - 16 ELSE d(5) % 16
    IN  d(1) + 128 * d(2) + 16384 * d(3) + 2097152 * d(4) + 268435456 * top

Delimited(bytes) == Varint(Len(bytes)) \o bytes

Tag(f) == 8 * f.num + (CASE f.kind = "int32" /\ ~f.repeated -> 0
                         [] f.kind = "float" -> 5
                         [] OTHER -> 2)

\* How long the value after the tag is, and how much of that is its own length.
LengthSize(f, s) == IF Tag(f) % 8 = 2 THEN VarintLen(s) ELSE 0
ValueSize(f, s) ==
    CASE Tag(f) % 8 = 0 -> VarintLen(s)
      [] Tag(f) % 8 = 5 -> 4
      [] Tag(f) % 8 = 2 -> VarintLen(s) + ReadVarint(s)
=============================================================================
