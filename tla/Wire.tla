-------------------------------- MODULE Wire --------------------------------
(***************************************************************************)
(* How a message of the control protocol is read from its bytes: the       *)
(* generated Unmarshal methods of pb/p2pd.pb.go and skipP2Pd.              *)
(*                                                                         *)
(* The Unmarshal methods differ only in their tables of fields, so there   *)
(* is one machine and one table for each message.  A buffer is a sequence  *)
(* of cells.  A cell read as part of a varint is its last byte and stands  *)
(* for the number, or is Cont, a byte with the continuation bit; a cell    *)
(* inside a length-delimited field is a byte.  Unmarshal calls itself for  *)
(* an embedded message: the calls are the frames of a stack.               *)
(***************************************************************************)
EXTENDS Integers, Sequences

CONSTANTS
    MaxInt,         \* the largest int, 2^63-1
    VarintBytes,    \* the longest varint, 10 bytes
    Inputs          \* the buffers to read, each with the message it is read as

ASSUME BoundsAssumption == MaxInt \in Nat /\ MaxInt >= 8 /\ VarintBytes \in Nat \ {0}

VARIABLES
    buf,        \* the bytes being read
    stack,      \* the active calls of Unmarshal, the innermost last
    skip,       \* the call of skipP2Pd, if there is one
    status,     \* running, or how the outermost Unmarshal ended
    result      \* the message, when it returned nil

vars == <<buf, stack, skip, status, result>>
-----------------------------------------------------------------------------
(***************************************************************************)
(* The tables, one entry for each field number.                            *)
(***************************************************************************)
req(kind) == [label |-> "required", kind |-> kind]
opt(kind) == [label |-> "optional", kind |-> kind]
rep(kind) == [label |-> "repeated", kind |-> kind]
one(kind) == [label |-> "oneof", kind |-> kind]

Request ==
    <<req("varint"), opt("ConnectRequest"), opt("StreamOpenRequest"),
      opt("StreamHandlerRequest"), opt("DHTRequest"), opt("ConnManagerRequest"),
      opt("DisconnectRequest"), opt("PSRequest")>>

Response ==
    <<req("varint"), opt("ErrorResponse"), opt("StreamInfo"), opt("IdentifyResponse"),
      opt("DHTResponse"), rep("PeerInfo"), opt("PSResponse")>>

PersistentConnectionRequest ==
    <<req("bytes"), one("AddUnaryHandlerRequest"), one("CallUnaryRequest"),
      one("CallUnaryResponse"), one("Cancel")>>

PersistentConnectionResponse ==
    <<req("bytes"), one("CallUnaryResponse"), one("CallUnaryRequest"),
      one("DaemonError"), one("Cancel")>>

IdentifyResponse == <<req("bytes"), rep("bytes")>>

ConnectRequest == <<req("bytes"), rep("bytes"), opt("varint")>>

StreamOpenRequest == <<req("bytes"), rep("string"), opt("varint")>>

StreamHandlerRequest == <<req("bytes"), rep("string")>>

ErrorResponse == <<req("string")>>

StreamInfo == <<req("bytes"), req("bytes"), req("string")>>

DHTRequest ==
    <<req("varint"), opt("bytes"), opt("bytes"), opt("bytes"), opt("bytes"),
      opt("varint"), opt("varint")>>

DHTResponse == <<req("varint"), opt("PeerInfo"), opt("bytes")>>

PeerInfo == <<req("bytes"), rep("bytes")>>

ConnManagerRequest == <<req("varint"), opt("bytes"), opt("string"), opt("varint")>>

DisconnectRequest == <<req("bytes")>>

PSRequest == <<req("varint"), opt("string"), opt("bytes")>>

PSMessage ==
    <<opt("bytes"), opt("bytes"), opt("bytes"), rep("string"), opt("bytes"),
      opt("bytes")>>

PSResponse == <<rep("string"), rep("bytes")>>

CallUnaryRequest == <<req("bytes"), req("string"), req("bytes")>>

CallUnaryResponse == <<one("bytes"), one("bytes")>>

AddUnaryHandlerRequest == <<req("string")>>

DaemonError == <<opt("string")>>

Cancel == <<>>

Schema ==
    [Request |-> Request, Response |-> Response,
     PersistentConnectionRequest |-> PersistentConnectionRequest,
     PersistentConnectionResponse |-> PersistentConnectionResponse,
     IdentifyResponse |-> IdentifyResponse, ConnectRequest |-> ConnectRequest,
     StreamOpenRequest |-> StreamOpenRequest,
     StreamHandlerRequest |-> StreamHandlerRequest, ErrorResponse |-> ErrorResponse,
     StreamInfo |-> StreamInfo, DHTRequest |-> DHTRequest, DHTResponse |-> DHTResponse,
     PeerInfo |-> PeerInfo, ConnManagerRequest |-> ConnManagerRequest,
     DisconnectRequest |-> DisconnectRequest, PSRequest |-> PSRequest,
     PSMessage |-> PSMessage, PSResponse |-> PSResponse,
     CallUnaryRequest |-> CallUnaryRequest, CallUnaryResponse |-> CallUnaryResponse,
     AddUnaryHandlerRequest |-> AddUnaryHandlerRequest, DaemonError |-> DaemonError,
     Cancel |-> Cancel]

Messages == DOMAIN Schema
Scalars == {"varint", "bytes", "string"}
Fields(msg) == DOMAIN Schema[msg]
wireTypeOf(kind) == IF kind = "varint" THEN 0 ELSE 2

\* A message as its struct holds it: the values of each field (none, one, or several
\* for a repeated field) and XXX_unrecognized.
Empty(msg) == [f |-> [n \in Fields(msg) |-> <<>>], unk |-> <<>>]
-----------------------------------------------------------------------------
(***************************************************************************)
(* Numbers.                                                                *)
(***************************************************************************)
Cont == MaxInt + 1      \* a byte whose varint goes on

\* A cell is an int, or Cont; a buffer has an int of them.
Cells == -(MaxInt + 1) .. Cont

ASSUME InputsAssumption ==
    \A in \in Inputs :
      in.msg \in Messages /\ in.buf \in Seq(Cells) /\ Len(in.buf) <= MaxInt

\* Addition of ints.
wrap(x) == ((x + MaxInt + 1) % (2 * (MaxInt + 1))) - (MaxInt + 1)

\* The loop over shift, on the l cells behind base, from index i.
readVarint(base, l, i) ==
    LET last == {n \in 0 .. (VarintBytes - 1) :
                   /\ i + n < l
                   /\ buf[base + i + n + 1] # Cont
                   /\ \A j \in 0 .. (n - 1) : buf[base + i + j + 1] = Cont}
        n == CHOOSE m \in last : TRUE
    IN  IF last = {}
        THEN [ok |-> FALSE, val |-> 0, next |-> i]
        ELSE [ok |-> TRUE, val |-> buf[base + i + n + 1], next |-> i + n + 1]
-----------------------------------------------------------------------------
(***************************************************************************)
(* One call of Unmarshal: the message, the slice it got, iNdEx, the struct *)
(* so far, the fields this call has seen (hasFields), and the caller's     *)
(* field the struct is for.                                                *)
(***************************************************************************)
Frame(msg, base, l, m, slot) ==
    [msg |-> msg, base |-> base, l |-> l, iNdEx |-> 0, f |-> m.f, unk |-> m.unk,
     has |-> {}, slot |-> slot]

noSkip == [on |-> FALSE, pre |-> 0, iNdEx |-> 0, depth |-> 0]

top == stack[Len(stack)]
setTop(fr) == [stack EXCEPT ![Len(stack)] = fr]

Init ==
    /\ \E in \in Inputs :
         /\ buf = in.buf
         /\ stack = <<Frame(in.msg, 0, Len(in.buf), Empty(in.msg), 0)>>
    /\ skip = noSkip
    /\ status = "run"
    /\ result = <<>>

\* A return with an error goes all the way up.
Fail ==
    /\ status' = "err"
    /\ UNCHANGED <<buf, stack, skip, result>>

\* A slice expression out of range.
Panic ==
    /\ status' = "panic"
    /\ UNCHANGED <<buf, stack, skip, result>>

\* The head of the loop reads a tag (a number that fits int32 when shifted).
Looping == status = "run" /\ ~skip.on /\ top.iNdEx < top.l
tag == readVarint(top.base, top.l, top.iNdEx)
fieldNum == tag.val \div 8
wireType == tag.val % 8

BadTag ==
    /\ Looping
    /\ ~tag.ok \/ wireType = 4 \/ fieldNum <= 0
    /\ Fail

GoodTag == Looping /\ tag.ok /\ wireType # 4 /\ fieldNum > 0

\* A case of the switch for a field of one of these kinds.
Field(kinds) ==
    /\ GoodTag
    /\ fieldNum \in Fields(top.msg)
    /\ Schema[top.msg][fieldNum].kind \in kinds

WrongWireType ==
    /\ Field(Scalars \cup Messages)
    /\ wireType # wireTypeOf(Schema[top.msg][fieldNum].kind)
    /\ Fail

\* The struct m with v stored in field n: appended, or the last value wins.  A oneof
\* is one interface value: storing a member drops the others.
assign(m, msg, n, v) ==
    CASE Schema[msg][n].label = "repeated" -> [m EXCEPT !.f[n] = Append(@, v)]
      [] Schema[msg][n].label = "oneof" ->
           [m EXCEPT !.f = [k \in Fields(msg) |->
                              IF k = n THEN <<v>>
                              ELSE IF Schema[msg][k].label = "oneof" THEN <<>>
                              ELSE m.f[k]]]
      [] OTHER -> [m EXCEPT !.f[n] = <<v>>]

VarintField ==
    /\ Field({"varint"})
    /\ wireType = 0
    /\ LET v == readVarint(top.base, top.l, tag.next)
       IN  IF v.ok
           THEN /\ stack' = setTop([assign(top, top.msg, fieldNum, v.val)
                                      EXCEPT !.iNdEx = v.next,
                                             !.has = @ \cup {fieldNum}])
                /\ UNCHANGED <<buf, skip, status, result>>
           ELSE Fail

\* Variant: the end of the field is not checked for overflow.
spanUnchecked(i) ==
    LET v == readVarint(top.base, top.l, i)
        post == wrap(v.next + v.val)
    IN  [ok |-> v.ok /\ v.val >= 0 /\ post <= top.l, first |-> v.next, post |-> post]

\* The length of a length-delimited field and the slice it stands for.
span(i) ==
    LET v == readVarint(top.base, top.l, i)
        post == wrap(v.next + v.val)
    IN  [ok |-> v.ok /\ v.val >= 0 /\ post >= 0 /\ post <= top.l,
         first |-> v.next, post |-> post]

inRange(i, j, l) == 0 <= i /\ i <= j /\ j <= l

BytesField ==
    /\ Field({"bytes", "string"})
    /\ wireType = 2
    /\ LET s == span(tag.next)
       IN  CASE ~s.ok -> Fail
             [] s.ok /\ ~inRange(s.first, s.post, top.l) -> Panic
             [] OTHER ->
                  /\ stack' = setTop([assign(top, top.msg, fieldNum,
                                             SubSeq(buf, top.base + s.first + 1,
                                                         top.base + s.post))
                                        EXCEPT !.iNdEx = s.post,
                                               !.has = @ \cup {fieldNum}])
                  /\ UNCHANGED <<buf, skip, status, result>>

\* An embedded message: Unmarshal is called on its slice, with the struct an optional
\* field already holds or a new one.
MessageField ==
    /\ Field(Messages)
    /\ wireType = 2
    /\ LET s == span(tag.next)
           entry == Schema[top.msg][fieldNum]
           m == IF entry.label = "optional" /\ top.f[fieldNum] # <<>>
                THEN top.f[fieldNum][1] ELSE Empty(entry.kind)
       IN  CASE ~s.ok -> Fail
             [] s.ok /\ ~inRange(s.first, s.post, top.l) -> Panic
             [] OTHER ->
                  /\ stack' = Append(setTop([top EXCEPT !.iNdEx = s.post]),
                                     Frame(entry.kind, top.base + s.first,
                                           s.post - s.first, m, fieldNum))
                  /\ UNCHANGED <<buf, skip, status, result>>

\* Variant: Unmarshal returns without looking at hasFields.
ReturnUnchecked ==
    /\ status = "run" /\ ~skip.on
    /\ top.iNdEx >= top.l
    /\ LET m == [f |-> top.f, unk |-> top.unk]
           caller == stack[Len(stack) - 1]
       IN  IF Len(stack) = 1
           THEN /\ status' = "ok"
                /\ result' = m
                /\ UNCHANGED <<buf, stack, skip>>
           ELSE /\ stack' = Append(SubSeq(stack, 1, Len(stack) - 2),
                                   assign(caller, caller.msg, top.slot, m))
                /\ UNCHANGED <<buf, skip, status, result>>

\* The required fields were in the slice of this call.  What an earlier occurrence of
\* the same optional message left in the struct does not count.
hasFields == \A n \in Fields(top.msg) : Schema[top.msg][n].label = "required" => n \in top.has

\* The loop is over: the required fields must have been there, and the struct is the
\* caller's.
Return ==
    /\ status = "run" /\ ~skip.on
    /\ top.iNdEx >= top.l
    /\ LET m == [f |-> top.f, unk |-> top.unk]
           caller == stack[Len(stack) - 1]
       IN  CASE ~hasFields -> Fail
             [] hasFields /\ Len(stack) = 1 ->
                  /\ status' = "ok"
                  /\ result' = m
                  /\ UNCHANGED <<buf, stack, skip>>
             [] OTHER ->
                  /\ stack' = Append(SubSeq(stack, 1, Len(stack) - 2),
                                     assign(caller, caller.msg, top.slot, m))
                  /\ UNCHANGED <<buf, skip, status, result>>
-----------------------------------------------------------------------------
(***************************************************************************)
(* A field that is not in the table: skipP2Pd runs from its tag on, and    *)
(* what it passed goes to XXX_unrecognized.                                *)
(***************************************************************************)
StartSkip ==
    /\ GoodTag
    /\ fieldNum \notin Fields(top.msg)
    /\ skip' = [on |-> TRUE, pre |-> top.iNdEx, iNdEx |-> 0, depth |-> 0]
    /\ UNCHANGED <<buf, stack, status, result>>

\* Variant: the index is set back to the start of the field.
SkipStays(n) ==
    /\ stack' = setTop([top EXCEPT !.iNdEx = skip.pre])
    /\ skip' = noSkip
    /\ UNCHANGED <<buf, status, result>>

\* skipP2Pd returns n: the caller copies the n cells and goes on behind them.
SkipReturns(n) ==
    LET post == wrap(skip.pre + n)
    IN  IF post < 0 \/ post > top.l
        THEN Fail
        ELSE /\ stack' = setTop([top EXCEPT
                           !.unk = @ \o SubSeq(buf, top.base + skip.pre + 1,
                                                    top.base + post),
                           !.iNdEx = post])
             /\ skip' = noSkip
             /\ UNCHANGED <<buf, status, result>>

\* One turn of skipP2Pd's loop.  A group is skipped with everything in it.
SkipStep ==
    /\ status = "run" /\ skip.on
    /\ LET base == top.base + skip.pre
           l == top.l - skip.pre
           t == readVarint(base, l, skip.iNdEx)
           v == readVarint(base, l, t.next)
           wt == t.val % 8
           depth == skip.depth + (CASE wt = 3 -> 1 [] wt = 4 -> -1 [] OTHER -> 0)
           next == CASE wt = 0 -> v.next
                     [] wt = 1 -> wrap(t.next + 8)
                     [] wt = 2 -> wrap(v.next + v.val)
                     [] wt = 5 -> wrap(t.next + 4)
                     [] OTHER -> t.next
           bad == \/ ~t.ok
                  \/ wt \in {0, 2} /\ ~v.ok
                  \/ wt = 2 /\ v.val < 0
                  \/ wt \in {6, 7}
                  \/ depth < 0
                  \/ next < 0
       IN  CASE bad -> Fail
             [] ~bad /\ depth = 0 -> SkipReturns(next)
             [] ~bad /\ depth > 0 /\ next >= l -> Fail
             [] OTHER -> /\ skip' = [skip EXCEPT !.iNdEx = next, !.depth = depth]
                         /\ UNCHANGED <<buf, stack, status, result>>

Unmarshal ==
    \/ BadTag \/ WrongWireType
    \/ VarintField \/ BytesField \/ MessageField
    \/ StartSkip \/ SkipStep
    \/ Return

Spec == Init /\ [][Unmarshal]_vars
-----------------------------------------------------------------------------
(***************************************************************************)
(* The indexes stay in the slice, and an embedded slice in its caller's.   *)
(***************************************************************************)
TypeOK ==
    /\ status \in {"run", "ok", "err", "panic"}
    /\ Len(stack) \in 1 .. 3
    /\ \A k \in 1 .. Len(stack) :
         /\ stack[k].msg \in Messages
         /\ DOMAIN stack[k].f = Fields(stack[k].msg)
         /\ stack[k].iNdEx \in 0 .. stack[k].l
         /\ stack[k].base + stack[k].l <= Len(buf)
         /\ k > 1 => /\ stack[k].base >= stack[k - 1].base
                     /\ stack[k].base + stack[k].l <= stack[k - 1].base + stack[k - 1].l
    /\ skip.on => skip.iNdEx \in 0 .. (top.l - skip.pre)
    /\ skip.depth >= 0

(***************************************************************************)
(* No buffer makes Unmarshal take a slice out of range, which would end    *)
(* the process: a length that overflows iNdEx is refused first.            *)
(***************************************************************************)
NoPanic == status # "panic"

(***************************************************************************)
(* At most one member of a oneof is set, in the message and in every call  *)
(* still running: the goroutine that switches on the member type sees the  *)
(* last one sent.                                                          *)
(***************************************************************************)
OneofIsOne ==
    \A k \in 1 .. Len(stack) :
      \A i, j \in Fields(stack[k].msg) :
        /\ i # j
        /\ Schema[stack[k].msg][i].label = "oneof"
        /\ Schema[stack[k].msg][j].label = "oneof"
        => stack[k].f[i] = <<>> \/ stack[k].f[j] = <<>>

(***************************************************************************)
(* What holds of a read at any moment: its indexes are in range, it does not *)
(* panic, and a oneof has one member.                                      *)
(***************************************************************************)
ReadInv == TypeOK /\ NoPanic /\ OneofIsOne

\* Every required field of m is set, and what holds of the messages in it, which are
\* nested three deep at most.
isSet(msg, m) ==
    \A n \in Fields(msg) : Schema[msg][n].label = "required" => m.f[n] # <<>>

inside(msg, m, Holds(_, _)) ==
    \A n \in Fields(msg) :
      Schema[msg][n].kind \in Messages =>
        \A i \in DOMAIN m.f[n] : Holds(Schema[msg][n].kind, m.f[n][i])

complete2(msg, m) == isSet(msg, m) /\ inside(msg, m, isSet)
complete(msg, m) == isSet(msg, m) /\ inside(msg, m, complete2)

(***************************************************************************)
(* A message Unmarshal accepts has every required field, at every depth:   *)
(* the code dereferences their pointers (Proto, Type) without a check.     *)
(***************************************************************************)
AcceptedIsComplete ==
    status = "ok" => complete(stack[1].msg, result)

(***************************************************************************)
(* Unmarshal ends on every buffer: each turn of its loop, and of the loop  *)
(* of skipP2Pd, moves on to cells it has not read, or returns.  The value  *)
(* of `remaining' is a natural number (TypeOK bounds it) and every step of *)
(* a read that goes on lowers it.                                          *)
(***************************************************************************)
position == top.base + (IF skip.on THEN skip.pre + skip.iNdEx ELSE top.iNdEx)
remaining == 4 * (Len(buf) - position) + Len(stack) + (IF skip.on THEN 0 ELSE 1)

EveryStepConsumes ==
    [][status = "run" /\ status' = "run" => remaining' < remaining]_vars
=============================================================================
