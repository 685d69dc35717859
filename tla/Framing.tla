------------------------------ MODULE Framing ------------------------------
(***************************************************************************)
(* network/tcp_connection.cpp: how a message becomes bytes, how bytes that *)
(* arrive cut anywhere become messages again (RecvBuffer), and what a full *)
(* send buffer does.  One direction of one connection; both ends run the   *)
(* same code.  The receiver hands each frame to handle_msg, which splits   *)
(* it into a name and the rest (space_service.cpp).                        *)
(*                                                                         *)
(* A byte is a number; its high bit is worth Radix (128 in the code), so   *)
(* that short frames have lengths of more than one byte in an instance.    *)
(***************************************************************************)
EXTENDS Integers, Sequences

CONSTANTS
    Radix,            \* 128: what seven bits count up to
    MaxLenSize,       \* RecvBuffer::MAX_LEN_SIZE, bytes kept of a length
    SendBufferSize,   \* SEND_BUFFER_SIZE
    ChunkSize,        \* what socket_read_cb reads at a time, 2048
    Name,             \* the names of messages, as sequences of bytes
    Payload,          \* what follows the name
    MaxSent           \* bound: how many messages are sent

ASSUME FramingAssumption ==
    /\ Radix \in Nat \ {0, 1}
    /\ MaxLenSize \in Nat \ {0}
    /\ SendBufferSize \in Nat
    /\ ChunkSize \in Nat \ {0}
    /\ MaxSent \in Nat
    /\ Name \subseteq Seq(0 .. (2 * Radix - 1))
    /\ Payload \subseteq Seq(0 .. (2 * Radix - 1))

VARIABLES
    out,       \* the output buffer of the sender's bufferevent
    net,       \* bytes the kernel has taken and the receiver has not read
    recv,      \* the receiver's RecvBuffer
    lost,      \* the sender has freed its bufferevent
    fault,     \* a deleted connection has been used
    sent,      \* history: what was written whole
    received   \* what the handler was given

framingVars == <<out, net, recv, lost, fault, sent, received>>

Message == [name : Name, payload : Payload]

P == INSTANCE Pipe

-----------------------------------------------------------------------------
(* bit_utils.cpp: seven bits to a byte, the lowest first, the high bit set *)
(* on all but the last.                                                    *)

write_7bit_encoded_int[value \in Nat] ==
    IF value < Radix
        THEN <<value>>
        ELSE <<(value % Radix) + Radix>> \o write_7bit_encoded_int[value \div Radix]

More(byte) == byte >= Radix

\* RecvBuffer has room for the length of a frame: what it may count fits 5 bytes, and
\* SEND_BUFFER_SIZE, 16 MiB, 4 of them.
ASSUME LengthsFit ==
    \A n \in 0 .. SendBufferSize : Len(write_7bit_encoded_int[n]) <= MaxLenSize

\* The first byte of s without the high bit ends the number.
EncodedLen(s) == CHOOSE i \in 1 .. Len(s) :
                    ~More(s[i]) /\ \A j \in 1 .. (i - 1) : More(s[j])

read_7bit_encoded_int(s) ==
    LET last == EncodedLen(s)
        value[i \in 1 .. last] ==
            IF i = last THEN s[i] ELSE (s[i] - Radix) + Radix * value[i + 1]
    IN  value[1]

-----------------------------------------------------------------------------
(* RecvBuffer.  lenBytes is _len_bytes up to _len_bytes_position, buffer   *)
(* is _buffer up to _position.                                             *)

RecvBuffer == [stage |-> "LEN", lenBytes |-> << >>, need |-> 1, buffer |-> << >>, size |-> 0]

\* What is left of a chunk, the buffer, and the messages cut so far.
Cursor(rb, bytes) == [rb |-> rb, left |-> bytes, msgs |-> << >>]

TakeLen(c) ==
    LET byte     == Head(c.left)
        lenBytes == Append(c.rb.lenBytes, byte)
        length   == read_7bit_encoded_int(lenBytes)
    IN  [c EXCEPT !.left = Tail(@),
                  !.rb = IF More(byte)
                            THEN [@ EXCEPT !.lenBytes = lenBytes]
                            ELSE [@ EXCEPT !.lenBytes = << >>, !.stage = "DATA",
                                           !.need = length, !.size = length]]

\* Faulty variant: need is not reduced by what has been copied.
TakeData_NeedsAll(c) ==
    LET n == Len(c.left)
    IN  IF n < c.rb.need
            THEN [c EXCEPT !.left = << >>, !.rb.buffer = @ \o c.left]
            ELSE [c EXCEPT !.left = SubSeq(@, c.rb.need + 1, n),
                           !.msgs = Append(@, c.rb.buffer \o SubSeq(c.left, 1, c.rb.need)),
                           !.rb = RecvBuffer]

\* Faulty variant: <= for <: a frame that ends with the chunk is not finished.
TakeData_Late(c) ==
    LET n == Len(c.left)
    IN  IF n <= c.rb.need
            THEN [c EXCEPT !.left = << >>,
                           !.rb.buffer = @ \o c.left,
                           !.rb.need = @ - n]
            ELSE [c EXCEPT !.left = SubSeq(@, c.rb.need + 1, n),
                           !.msgs = Append(@, c.rb.buffer \o SubSeq(c.left, 1, c.rb.need)),
                           !.rb = RecvBuffer]

\* Faulty variant: of the messages of one chunk, the last is handled first.
TakeData_Prepends(c) ==
    LET n == Len(c.left)
    IN  IF n < c.rb.need
            THEN [c EXCEPT !.left = << >>,
                           !.rb.buffer = @ \o c.left,
                           !.rb.need = @ - n]
            ELSE [c EXCEPT !.left = SubSeq(@, c.rb.need + 1, n),
                           !.msgs = <<c.rb.buffer \o SubSeq(c.left, 1, c.rb.need)>> \o @,
                           !.rb = RecvBuffer]

TakeData(c) ==
    LET n == Len(c.left)
    IN  IF n < c.rb.need
            THEN [c EXCEPT !.left = << >>,
                           !.rb.buffer = @ \o c.left,
                           !.rb.need = @ - n]
            ELSE [c EXCEPT !.left = SubSeq(@, c.rb.need + 1, n),
                           !.msgs = Append(@, c.rb.buffer \o SubSeq(c.left, 1, c.rb.need)),
                           !.rb = RecvBuffer]

\* A turn of the loop.  A frame of length zero would end it for good: need stays 0.
Turn(c) ==
    IF c.rb.need = 0 \/ c.left = << >>
        THEN c
        ELSE IF c.rb.stage = "LEN" THEN TakeLen(c) ELSE TakeData(c)

\* The loop.  A turn takes a byte at least, so that as many turns as bytes end it.
Cut(c) ==
    LET after[i \in 0 .. Len(c.left)] == IF i = 0 THEN c ELSE Turn(after[i - 1])
    IN  after[Len(c.left)]

\* SpaceService::handle_msg.
Split(msg) ==
    LET i == EncodedLen(msg)
        n == read_7bit_encoded_int(msg)
    IN  [name |-> SubSeq(msg, i + 1, i + n), payload |-> SubSeq(msg, i + n + 1, Len(msg))]

-----------------------------------------------------------------------------
(* Sending.                                                                *)

\* send_data on the sender's state s; a connection that is lost has been
\* deleted by its service, and is used again if there is more to send.
send_data(s, data) ==
    IF s.lost
        THEN [s EXCEPT !.fault = TRUE]
        ELSE IF Len(s.out) + Len(data) > SendBufferSize
            THEN [s EXCEPT !.out = << >>, !.lost = TRUE]
            ELSE [s EXCEPT !.out = @ \o data]

send_msg(s, msg) ==
    send_data(send_data(s, write_7bit_encoded_int[Len(msg)]), msg)

\* send_raw_msg; the faulty process ends.
Send(m) ==
    LET msg == write_7bit_encoded_int[Len(m.name)] \o m.name \o m.payload
        s   == send_msg([out |-> out, lost |-> lost, fault |-> fault], msg)
    IN  /\ ~lost
        /\ Len(sent) < MaxSent
        /\ out' = s.out
        /\ lost' = s.lost
        /\ fault' = s.fault
        /\ sent' = IF s.lost THEN sent ELSE Append(sent, m)
        /\ UNCHANGED <<net, recv, received>>

\* libevent hands some of the output buffer to the kernel.
Flush(n) ==
    /\ net' = net \o SubSeq(out, 1, n)
    /\ out' = SubSeq(out, n + 1, Len(out))
    /\ UNCHANGED <<recv, lost, fault, sent, received>>

\* One turn of the loop of socket_read_cb: n bytes, whatever the kernel has.
handle_data(n) ==
    LET c == Cut(Cursor(recv, SubSeq(net, 1, n)))
    IN  /\ net' = SubSeq(net, n + 1, Len(net))
        /\ recv' = c.rb
        /\ received' = received \o [i \in 1 .. Len(c.msgs) |-> Split(c.msgs[i])]
        /\ UNCHANGED <<out, lost, fault, sent>>

\* The sender's peer goes away or an error says so.
LoseConnection ==
    /\ ~lost
    /\ lost' = TRUE
    /\ out' = << >>
    /\ UNCHANGED <<net, recv, fault, sent, received>>

SomeFlush == \E n \in 1 .. Len(out) : Flush(n)
SomeRead  == \E n \in 1 .. Len(net) : n <= ChunkSize /\ handle_data(n)

Init ==
    /\ out = << >>
    /\ net = << >>
    /\ recv = RecvBuffer
    /\ lost = FALSE
    /\ fault = FALSE
    /\ sent = << >>
    /\ received = << >>

Next ==
    \/ \E m \in Message : Send(m)
    \/ SomeFlush
    \/ SomeRead
    \/ LoseConnection

Spec == Init /\ [][Next]_framingVars

\* Both ends' event loops turn.
FairSpec == Spec /\ WF_framingVars(SomeFlush) /\ WF_framingVars(SomeRead)

-----------------------------------------------------------------------------
(* Properties                                                              *)

Bytes == Seq(0 .. (2 * Radix - 1))

\* The variables have their types, and at most one frame is in the buffer.
FramingTypeOK ==
    /\ out \in Bytes /\ Len(out) <= SendBufferSize
    /\ net \in Bytes
    /\ recv.stage \in {"LEN", "DATA"}
    /\ recv.lenBytes \in Bytes /\ recv.buffer \in Bytes
    /\ recv.need \in Nat /\ recv.size \in Nat
    /\ lost \in BOOLEAN /\ fault \in BOOLEAN
    /\ sent \in Seq(Message)

\* RecvBuffer writes inside its two arrays whatever the cuts: the bytes of a
\* length fit _len_bytes, what a frame still needs is just what its buffer has
\* room for, and no frame is longer than what may be sent at once (the assert of
\* recv: MAX_PACKAGE_SIZE is SEND_BUFFER_SIZE).  And nothing stays behind in it: a receiver that has read all
\* there is has handled all that was sent, and waits for a new length.
BuffersFit ==
    /\ FramingTypeOK
    /\ Len(recv.lenBytes) < MaxLenSize
    /\ recv.stage = "DATA" => Len(recv.buffer) + recv.need = recv.size
    /\ recv.size <= SendBufferSize
    /\ out = << >> /\ net = << >> /\ ~lost =>
          received = sent /\ recv = RecvBuffer

\* What arrives is what was sent, whole and in order, however the stream is
\* cut and also when a full buffer drops the end of it.
KeepsPipe == P!PipeSpec

\* What was sent arrives, or the connection is lost.
SentArrives == <>[](lost \/ received = sent)

=============================================================================
