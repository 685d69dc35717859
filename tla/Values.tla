------------------------------- MODULE Values -------------------------------
(***************************************************************************)
(* What a message promises its users: a value per field, and operations on *)
(* that value alone.  A field with presence is << >> or one value.  How an *)
(* object got to its value (which fields were cleared, released, allocated *)
(* or parsed before) makes no difference to anything it does later.        *)
(***************************************************************************)
EXTENDS Wire

Unset(f) == IF f.presence \/ f.repeated \/ f.kind \in {"bytes", "message"} THEN << >>
            ELSE IF f.kind = "float" THEN <<0, 0, 0, 0>> ELSE 0

Empty(t) == [n \in Nums(t) |-> Unset(FieldAt[t][n])]

\* b laid over a: what b has set wins, messages are merged, sequences joined.
RECURSIVE Overlaid(_, _, _)
Overlaid(t, a, b) ==
    [n \in Nums(t) |->
        LET f == FieldAt[t][n]
        IN  CASE f.repeated -> a[n] \o b[n]
              [] ~f.repeated /\ b[n] = Unset(f) -> a[n]
              [] f.kind = "message" /\ ~f.repeated /\ a[n] # << >> /\ b[n] # << >> ->
                    <<Overlaid(f.of, a[n][1], b[n][1])>>
              [] OTHER -> b[n]]

Put(value, f, v)    == [value EXCEPT ![f.num] = v]
Drop(value, f)      == Put(value, f, Unset(f))
Extend(value, f, v) == Put(value, f, Append(value[f.num], v))

\* The message in field f, a new one if there is none, is written to.
Write(value, f, v) ==
    LET old == IF value[f.num] = << >> THEN Empty(f.of) ELSE value[f.num][1]
    IN  Put(value, f, <<Overlaid(f.of, old, v)>>)
=============================================================================
