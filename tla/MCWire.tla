------------------------------- MODULE MCWire -------------------------------
(***************************************************************************)
(* Buffers and messages for WireRelay: every short sequence of a few       *)
(* telling cells, and every sample message, whole, cut short, or with one  *)
(* cell replaced.                                                          *)
(***************************************************************************)
EXTENDS WireRelay, FiniteSets

CONSTANTS
    ShortLength,    \* the length of the exhaustive buffers
    ShortMessages,  \* the messages they are read as
    LongLength      \* the length of a field whose length takes two bytes

RECURSIVE sample(_, _, _)

\* A value of a kind: a small one, a long one, an empty one or nil; the embedded message
\* has all of its fields, and of a oneof the last, or, if it is to be nil, none at all.
sampleValue(msg, n, how) ==
    LET kind == Schema[msg][n].kind
    IN  CASE kind = "varint" -> [small |-> 1, long |-> -1, empty |-> 0, nil |-> 1][how]
          [] kind = "CallUnaryResponse" /\ how = "nil" -> sample(kind, {1}, how)
          [] kind \in Messages ->
               IF how = "nil" THEN Empty(kind) ELSE sample(kind, Fields(kind), how)
          [] how = "nil" /\ Schema[msg][n].label = "oneof" -> Nil
          [] OTHER -> [small |-> <<7>>, long |-> [i \in 1 .. LongLength |-> 7],
                       empty |-> <<>>, nil |-> <<7>>][how]

lastOneof(msg, S) ==
    {n \in S : \A k \in S : Schema[msg][n].label = "oneof" =>
                 (Schema[msg][k].label = "oneof" => k <= n)}

\* The message with its required fields and the fields S.
sample(msg, S, how) ==
    [f |-> [n \in Fields(msg) |->
              IF Schema[msg][n].label # "required" /\ n \notin lastOneof(msg, S) THEN <<>>
              ELSE IF Schema[msg][n].label = "repeated"
              THEN <<sampleValue(msg, n, how), sampleValue(msg, n, how)>>
              ELSE <<sampleValue(msg, n, how)>>],
     unk |-> <<>>]

samples(how) ==
    UNION {{[msg |-> x, m |-> sample(x, S, how)] :
              S \in {T \in SUBSET Fields(x) :
                       Cardinality(T) <= 1 \/ (how = "small" /\ T = Fields(x))}} :
           x \in Messages}

\* A required field that is nil, or not set.
unset ==
    UNION {{[msg |-> x, m |-> [sample(x, {}, "small") EXCEPT !.f[n] = <<>>]] :
              n \in {k \in Fields(x) : Schema[x][k].label = "required"}} :
           x \in Messages}

MCSamples == samples("small") \cup samples("long") \cup samples("empty") \cup samples("nil")
             \cup unset

\* Tags: field 1 as a number and as bytes, fields 2 and 3 as bytes, field 15 as a
\* number, 8 bytes, bytes, a group, its end, 4 bytes and nothing legal.  The rest are
\* lengths, legal or not.
TellingCells == {8, 10, 18, 26, 120, 121, 122, 123, 124, 125, 126, 0, 1, -1, MaxInt, Cont}

DamageCells == {10, 122, 123, 124, 0, MaxInt, Cont}

ShortBuffers == {<<c>> : c \in TellingCells} \cup
    {<<8, 0>> \o s : s \in [1 .. ShortLength -> TellingCells]} \cup
    {<<10, 0>> \o s : s \in [1 .. ShortLength -> TellingCells]}

damaged(b) ==
    {b} \cup {SubSeq(b, 1, i) : i \in 0 .. Len(b)}
        \cup {[b EXCEPT ![i] = c] : i \in 1 .. Len(b), c \in DamageCells}

MCInputs ==
    {[msg |-> x, buf |-> b] : x \in ShortMessages, b \in ShortBuffers}
    \cup UNION {{[msg |-> s.msg, buf |-> b] : b \in damaged(Marshal(s.msg, s.m).bytes)} :
                s \in samples("small")}
    \cup {[msg |-> "PSMessage", buf |-> <<123, 121, 0, 0, 0, 0, 0, 0, 0, 0, 123, 124, 124>>]}
    \* an optional message that comes twice, the second time whole or without its field
    \cup {[msg |-> "Request", buf |-> <<8, 0, 18, 3, 10, 1, 7>> \o b] :
            b \in {<<18, 2, 10, 0>>, <<18, 3, 18, 1, 7>>, <<18, 0>>}}
=============================================================================
