----------------------------- MODULE WireRelay ------------------------------
(***************************************************************************)
(* A message on its way through a process of the system: it is read from a *)
(* buffer (Wire), written again by Marshal, and read once more by the next *)
(* process.  The daemons do this with every unary call and its answer.     *)
(***************************************************************************)
EXTENDS Wire

CONSTANTS
    VarintBits,     \* the bits of a number in one byte of a varint, 7
    Samples         \* messages a process makes itself, each with its type

\* The longest varint holds every uint64.
ASSUME VarintAssumption ==
    VarintBits \in Nat \ {0} /\ 2 * (MaxInt + 1) <= 2 ^ (VarintBits * VarintBytes)

VARIABLE sent       \* the message that was marshalled, if one was

relayVars == <<vars, sent>>
-----------------------------------------------------------------------------
(***************************************************************************)
(* Numbers, as uint64.                                                     *)
(***************************************************************************)
uint64(v) == IF v < 0 THEN v + 2 * (MaxInt + 1) ELSE v

\* math_bits.Len64
Len64(x) == CHOOSE n \in 0 .. (VarintBits * VarintBytes) :
              x < 2 ^ n /\ (n > 0 => 2 ^ (n - 1) <= x)

\* Variant: a number that just fits is given a byte less.
sovShort(v) == (Len64(IF uint64(v) = 0 THEN 1 ELSE uint64(v)) + VarintBits - 2) \div VarintBits

\* How many bytes the varint of v takes: seven bits each, and at least one.
sovP2Pd(v) == (Len64(IF uint64(v) = 0 THEN 1 ELSE uint64(v)) + VarintBits - 1) \div VarintBits

RECURSIVE goesOn(_)

\* The loop of encodeVarintP2Pd: a byte that goes on for every seven bits but the last.
goesOn(x) == IF x >= 2 ^ VarintBits THEN <<Cont>> \o goesOn(x \div 2 ^ VarintBits) ELSE <<>>

\* The loop starts at the first of the sovP2Pd(v) bytes made for the number.
encodeVarintP2Pd(v) ==
    LET cells == goesOn(uint64(v)) \o <<v>>
    IN  [i \in 1 .. sovP2Pd(v) |-> IF i <= Len(cells) THEN cells[i] ELSE 0]
-----------------------------------------------------------------------------
(***************************************************************************)
(* Size and MarshalToSizedBuffer, of which every message has its own.      *)
(***************************************************************************)
\* The bytes of a oneof member whose slice is nil.  (Any other field that is nil is not
\* set.)  No content is like it.
Nil == <<-(MaxInt + 2)>>

isNil(msg, n, v) ==
    Schema[msg][n].label = "oneof" /\ Schema[msg][n].kind = "bytes" /\ v = Nil

RECURSIVE sizeFrom(_, _, _, _)
RECURSIVE bytesFrom(_, _, _, _)

\* The size of m from value i of field n on: a byte for the tag, the number or the
\* length, and the content; nothing for a nil member; at the end XXX_unrecognized.
sizeFrom(msg, m, n, i) ==
    IF n > Len(Schema[msg]) THEN Len(m.unk)
    ELSE IF i > Len(m.f[n]) THEN sizeFrom(msg, m, n + 1, 1)
    ELSE LET kind == Schema[msg][n].kind
             v == m.f[n][i]
             l == IF kind \in Messages THEN sizeFrom(kind, v, 1, 1) ELSE Len(v)
         IN  (CASE kind = "varint" -> 1 + sovP2Pd(v)
                [] isNil(msg, n, v) -> 0
                [] OTHER -> 1 + l + sovP2Pd(l))
             + sizeFrom(msg, m, n, i + 1)

Size(msg, m) == sizeFrom(msg, m, 1, 1)

\* What is written from value i of field n on: the fields by their numbers, and
\* XXX_unrecognized.  A field that is not set is not written, nor is a nil member.
bytesFrom(msg, m, n, i) ==
    IF n > Len(Schema[msg]) THEN m.unk
    ELSE IF i > Len(m.f[n]) THEN bytesFrom(msg, m, n + 1, 1)
    ELSE LET kind == Schema[msg][n].kind
             v == m.f[n][i]
             content == IF kind \in Messages THEN bytesFrom(kind, v, 1, 1) ELSE v
         IN  (CASE kind = "varint" -> <<8 * n>> \o encodeVarintP2Pd(v)
                [] isNil(msg, n, v) -> <<>>
                [] OTHER -> <<8 * n + 2>> \o encodeVarintP2Pd(Len(content)) \o content)
             \o bytesFrom(msg, m, n, i + 1)

MarshalToSizedBuffer(msg, m) == bytesFrom(msg, m, 1, 1)

\* Marshal makes a buffer of Size bytes, fills it from the end and returns as many bytes
\* from its start as were written; too small a buffer makes it panic.  It refuses a
\* message without one of its required fields.
Marshal(msg, m) ==
    LET written == MarshalToSizedBuffer(msg, m)
        spare == Size(msg, m) - Len(written)
    IN  IF spare < 0 THEN [ok |-> FALSE, bytes |-> <<>>]
        ELSE [ok |-> complete(msg, m),
              bytes |-> SubSeq([i \in 1 .. spare |-> 0] \o written, 1, Len(written))]

-----------------------------------------------------------------------------
\* A buffer comes in, or a process marshals a message of its own.
RelayInit ==
    \/ Init /\ sent = <<>>
    \/ \E s \in Samples :
         LET b == Marshal(s.msg, s.m)
         IN  /\ sent = <<s.m>>
             /\ buf = b.bytes
             /\ stack = <<Frame(s.msg, 0, Len(b.bytes), Empty(s.msg), 0)>>
             /\ skip = noSkip
             /\ status = IF b.ok THEN "run" ELSE "err"
             /\ result = <<>>

Read == Unmarshal /\ UNCHANGED sent

\* The message that was read is marshalled, and the next process reads the bytes.
Relay ==
    /\ status = "ok"
    /\ sent = <<>>
    /\ LET msg == stack[1].msg
           b == Marshal(msg, result)
       IN  /\ sent' = <<result>>
           /\ buf' = b.bytes
           /\ stack' = <<Frame(msg, 0, Len(b.bytes), Empty(msg), 0)>>
           /\ status' = IF b.ok THEN "run" ELSE "err"
           /\ result' = <<>>
           /\ UNCHANGED skip

Done ==
    /\ status # "run"
    /\ UNCHANGED relayVars

RelayNext == Read \/ Relay \/ Done

RelaySpec == RelayInit /\ [][RelayNext]_relayVars
-----------------------------------------------------------------------------
RECURSIVE arriving(_, _)

\* The message without the members that are nil, at any depth.
arriving(msg, m) ==
    [m EXCEPT !.f = [n \in Fields(msg) |->
       LET there == SelectSeq(m.f[n], LAMBDA v : ~isNil(msg, n, v))
       IN  IF Schema[msg][n].kind \in Messages
           THEN [i \in DOMAIN there |-> arriving(Schema[msg][n].kind, there[i])]
           ELSE there]]

(***************************************************************************)
(* What a process passes on arrives as it was: a message that was read, or *)
(* made, is refused by Marshal only if a required field is not set, and    *)
(* else the next process reads the same fields, the unknown ones included, *)
(* whatever the order, repetition, nesting or length they first came in.   *)
(* A nil answer is the exception: the answer then has no member at all.    *)
(***************************************************************************)
RelayPreserves ==
    sent # <<>> =>
      /\ status = "err" <=> ~complete(stack[1].msg, sent[1])
      /\ status = "ok" => result = arriving(stack[1].msg, sent[1])
=============================================================================
