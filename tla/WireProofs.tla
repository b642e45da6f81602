----------------------------- MODULE WireProofs -----------------------------
(***************************************************************************)
(* What holds of reading a message for every buffer, every int width and   *)
(* every length of varint: the indexes stay in range, nothing panics, an   *)
(* accepted message is complete, and the read comes to its end.            *)
(*                                                                         *)
(* The invariant follows the nesting of messages, which is three deep: the *)
(* struct of the k-th call holds structs that were accepted, and each call *)
(* ends where its caller goes on.  That a length overflows is visible in   *)
(* the sign of the sum, which is all the checks of Unmarshal look at.      *)
(***************************************************************************)
EXTENDS Wire, SequenceTheorems, TLAPS

(***************************************************************************)
(* How deep messages nest: a flat one holds no message, and what a message *)
(* holds is flat or holds flat ones.                                       *)
(***************************************************************************)
Flat(msg) == \A n \in Fields(msg) : Schema[msg][n].kind \notin Messages

Nested(msg) ==
    \A n \in Fields(msg) : Schema[msg][n].kind \in Messages => Flat(Schema[msg][n].kind)

(***************************************************************************)
(* The struct of a message: a sequence of values for each field, one       *)
(* member of a oneof at most, and structs that were accepted for the       *)
(* embedded messages, Shape1 for a message that holds flat ones and Shape2 *)
(* for any.                                                                *)
(***************************************************************************)
isSeq(s) == s \in Seq({s[i] : i \in 1 .. Len(s)})

oneMember(msg, m) ==
    \A i, j \in Fields(msg) :
      i # j /\ Schema[msg][i].label = "oneof" /\ Schema[msg][j].label = "oneof" =>
        m.f[i] = <<>> \/ m.f[j] = <<>>

Shape0(msg, m) ==
    /\ DOMAIN m.f = Fields(msg)
    /\ \A n \in Fields(msg) : isSeq(m.f[n])
    /\ oneMember(msg, m)

Whole0(msg, m) == Shape0(msg, m) /\ isSet(msg, m)

Shape1(msg, m) ==
    /\ Shape0(msg, m)
    /\ \A n \in Fields(msg) : Schema[msg][n].kind \in Messages =>
         \A i \in 1 .. Len(m.f[n]) : Whole0(Schema[msg][n].kind, m.f[n][i])

Whole1(msg, m) == Shape1(msg, m) /\ isSet(msg, m)

Shape2(msg, m) ==
    /\ Shape0(msg, m)
    /\ \A n \in Fields(msg) : Schema[msg][n].kind \in Messages =>
         \A i \in 1 .. Len(m.f[n]) : Whole1(Schema[msg][n].kind, m.f[n][i])

(***************************************************************************)
(* A call of Unmarshal: its indexes, and the required fields it has seen.  *)
(***************************************************************************)
IsFrame(fr) ==
    fr = [msg |-> fr.msg, base |-> fr.base, l |-> fr.l, iNdEx |-> fr.iNdEx, f |-> fr.f,
          unk |-> fr.unk, has |-> fr.has, slot |-> fr.slot]

FrameOK(fr, size) ==
    /\ IsFrame(fr)
    /\ fr.msg \in Messages
    /\ fr.base \in Nat /\ fr.l \in Nat /\ fr.iNdEx \in 0 .. fr.l
    /\ fr.base + fr.l <= size
    /\ Shape0(fr.msg, fr)
    /\ \A n \in fr.has \cap Fields(fr.msg) :
         Schema[fr.msg][n].label = "required" => fr.f[n] # <<>>

\* The call fr of Unmarshal for a field of the call up: it ends where up goes on.
Embedded(up, fr) ==
    /\ fr.slot \in Fields(up.msg) /\ Schema[up.msg][fr.slot].kind = fr.msg
    /\ up.base <= fr.base /\ fr.base + fr.l = up.base + up.iNdEx

\* What the k-th call has in its struct, and how deep its message nests.
LevelOK(k, fr) ==
    /\ k = 1 => Shape2(fr.msg, fr)
    /\ k = 2 => Nested(fr.msg) /\ Shape1(fr.msg, fr)
    /\ k = 3 => Flat(fr.msg)

StackOK(calls, size) ==
    /\ isSeq(calls) /\ Len(calls) \in 1 .. 3
    /\ \A k \in 1 .. Len(calls) : FrameOK(calls[k], size) /\ LevelOK(k, calls[k])
    /\ \A k \in 2 .. Len(calls) : Embedded(calls[k - 1], calls[k])

BufOK == buf \in Seq(Cells) /\ Len(buf) <= MaxInt

SkipOK ==
    /\ skip \in [on : BOOLEAN, pre : Nat, iNdEx : Nat, depth : Nat]
    /\ skip.on => skip.pre = top.iNdEx /\ skip.pre + skip.iNdEx < top.l

IndInv ==
    /\ status \in {"run", "ok", "err"}
    /\ BufOK
    /\ StackOK(stack, Len(buf))
    /\ SkipOK
    /\ AcceptedIsComplete

\* What a step does to the measure of EveryStepConsumes.
Consumes == status = "run" /\ status' = "run" => remaining' < remaining
-----------------------------------------------------------------------------

(***************************************************************************)
(* An addition of ints that overflows is negative.                         *)
(***************************************************************************)
LEMMA Overflow ==
    ASSUME NEW a \in 0 .. MaxInt, NEW b \in 0 .. MaxInt
    PROVE  /\ wrap(a + b) \in Int /\ wrap(a + b) <= MaxInt
           /\ wrap(a + b) >= 0 => wrap(a + b) = a + b
<1> DEFINE M == 2 * (MaxInt + 1)
<1>1. M \in Nat \ {0} /\ MaxInt \in Nat
  BY BoundsAssumption
<1>2. CASE a + b <= MaxInt
  <2>1. a + b + MaxInt + 1 \in 0 .. (M - 1)
    BY <1>1, <1>2
  <2>2. (a + b + MaxInt + 1) % M = a + b + MaxInt + 1
    BY <1>1, <2>1
  <2> QED BY <1>1, <1>2, <2>2 DEF wrap
<1>3. CASE a + b > MaxInt
  <2>1. /\ a + b + MaxInt + 1 = M * 1 + (a + b - MaxInt - 1)
        /\ a + b - MaxInt - 1 \in 0 .. (M - 1)
    BY <1>1, <1>3
  <2>2. (a + b + MaxInt + 1) % M = a + b - MaxInt - 1
    BY <1>1, <2>1
  <2> QED BY <1>1, <1>3, <2>2 DEF wrap
<1> QED BY <1>1, <1>2, <1>3

(***************************************************************************)
(* The types of messages, and what they hold.                              *)
(***************************************************************************)
LEMMA MessageNames ==
    Messages =
      {"Request", "Response", "PersistentConnectionRequest",
       "PersistentConnectionResponse", "IdentifyResponse", "ConnectRequest",
       "StreamOpenRequest", "StreamHandlerRequest", "ErrorResponse", "StreamInfo",
       "DHTRequest", "DHTResponse", "PeerInfo", "ConnManagerRequest",
       "DisconnectRequest", "PSRequest", "PSMessage", "PSResponse", "CallUnaryRequest",
       "CallUnaryResponse", "AddUnaryHandlerRequest", "DaemonError", "Cancel"}
  BY DEF Messages, Schema

(***************************************************************************)
(* No kind is a scalar and a message.                                      *)
(***************************************************************************)
LEMMA ScalarNames == Scalars \cap Messages = {}
  BY MessageNames DEF Scalars

(***************************************************************************)
(* All but five messages hold scalars only.                                *)
(***************************************************************************)
LEMMA FlatNames ==
    \A msg \in Messages \ {"Request", "Response", "PersistentConnectionRequest",
                           "PersistentConnectionResponse", "DHTResponse"} : Flat(msg)
<1> USE MessageNames DEF Flat, Fields, Schema, req, opt, rep, one
<1>1. Flat("IdentifyResponse") /\ Flat("ConnectRequest") /\ Flat("StreamOpenRequest")
  BY DEF IdentifyResponse, ConnectRequest, StreamOpenRequest
<1>2. Flat("StreamHandlerRequest") /\ Flat("ErrorResponse") /\ Flat("StreamInfo")
  BY DEF StreamHandlerRequest, ErrorResponse, StreamInfo
<1>3. Flat("DHTRequest") /\ Flat("PeerInfo") /\ Flat("ConnManagerRequest")
  BY DEF DHTRequest, PeerInfo, ConnManagerRequest
<1>4. Flat("DisconnectRequest") /\ Flat("PSRequest") /\ Flat("PSMessage")
  BY DEF DisconnectRequest, PSRequest, PSMessage
<1>5. Flat("PSResponse") /\ Flat("CallUnaryRequest") /\ Flat("CallUnaryResponse")
  BY DEF PSResponse, CallUnaryRequest, CallUnaryResponse
<1>6. Flat("AddUnaryHandlerRequest") /\ Flat("DaemonError") /\ Flat("Cancel")
  BY DEF AddUnaryHandlerRequest, DaemonError, Cancel
<1> HIDE DEF Flat, Schema
<1> QED BY <1>1, <1>2, <1>3, <1>4, <1>5, <1>6

(***************************************************************************)
(* A message in a message is flat or holds flat ones.                      *)
(***************************************************************************)
LEMMA ThreeDeep ==
    ASSUME NEW msg \in Messages, NEW n \in Fields(msg), Schema[msg][n].kind \in Messages
    PROVE  Nested(Schema[msg][n].kind)
<1>1. \A x \in Messages : Flat(x) => Nested(x)
  BY DEF Flat, Nested
<1>2. Nested("DHTResponse")
  <2>1. Flat("PeerInfo")
    BY FlatNames, MessageNames
  <2>2. \A k \in Fields("DHTResponse") :
          Schema["DHTResponse"][k].kind \in {"varint", "PeerInfo", "bytes"}
    BY DEF Fields, Schema, DHTResponse, req, opt
  <2> QED BY <2>1, <2>2, MessageNames DEF Nested
<1>3. Schema[msg][n].kind \notin {"Request", "Response", "PersistentConnectionRequest",
                                 "PersistentConnectionResponse"}
  <2> DEFINE tops == {"Request", "Response", "PersistentConnectionRequest",
                      "PersistentConnectionResponse"}
  <2>1. Flat(msg) => FALSE
    BY DEF Flat
  <2>2. msg \in tops \cup {"DHTResponse"}
    BY <2>1, FlatNames
  <2> USE DEF Fields, Schema, req, opt, rep, one
  <2>3. CASE msg = "Request"
    BY <2>3 DEF Request
  <2>4. CASE msg = "Response"
    BY <2>4 DEF Response
  <2>5. CASE msg = "PersistentConnectionRequest"
    BY <2>5 DEF PersistentConnectionRequest
  <2>6. CASE msg = "PersistentConnectionResponse"
    BY <2>6 DEF PersistentConnectionResponse
  <2>7. CASE msg = "DHTResponse"
    BY <2>7 DEF DHTResponse
  <2> QED BY <2>2, <2>3, <2>4, <2>5, <2>6, <2>7
<1> QED BY <1>1, <1>2, <1>3, FlatNames

(***************************************************************************)
(* Sequences, whatever they hold.                                          *)
(***************************************************************************)
LEMMA AnySeq ==
    ASSUME NEW S, NEW s \in Seq(S)
    PROVE  isSeq(s)
<1> DEFINE T == {s[i] : i \in 1 .. Len(s)}
<1>1. Len(s) \in Nat /\ s \in [1 .. Len(s) -> S]
  BY LenProperties
<1>2. s \in [1 .. Len(s) -> T]
  BY <1>1
<1>3. s \in Seq(T)
  BY <1>1, <1>2, SeqDef
<1> QED BY <1>3 DEF isSeq

(***************************************************************************)
(* Appending a value to a sequence.                                        *)
(***************************************************************************)
Longer(t, s, v) ==
    /\ Len(s) \in Nat /\ isSeq(t) /\ t # <<>> /\ Len(t) = Len(s) + 1
    /\ t[Len(s) + 1] = v
    /\ \A i \in 1 .. Len(s) : t[i] = s[i]

LEMMA Appended ==
    ASSUME NEW s, isSeq(s), NEW v
    PROVE  Longer(Append(s, v), s, v)
<1> DEFINE S == {s[i] : i \in 1 .. Len(s)}
<1>1. s \in Seq(S)
  BY DEF isSeq
<1> HIDE DEF S
<1>2. s \in Seq(S \cup {v})
  BY <1>1
<1>3. /\ Append(s, v) \in Seq(S \cup {v})
      /\ Len(Append(s, v)) = Len(s) + 1 /\ Append(s, v)[Len(s) + 1] = v
      /\ \A i \in 1 .. Len(s) : Append(s, v)[i] = s[i]
      /\ Len(s) \in Nat /\ Append(s, v) # <<>>
  BY <1>2
<1>4. isSeq(Append(s, v))
  BY <1>3, AnySeq
<1> QED BY <1>3, <1>4 DEF Longer

(***************************************************************************)
(* No value, and one value.                                                *)
(***************************************************************************)
LEMMA ShortSeqs ==
    /\ isSeq(<<>>)
    /\ \A v : isSeq(<<v>>) /\ <<v>> # <<>> /\ Len(<<v>>) = 1 /\ <<v>>[1] = v
  BY DEF isSeq

(***************************************************************************)
(* A varint that was read is an int, and ends behind its start and in the  *)
(* slice.                                                                  *)
(***************************************************************************)
LEMMA VarintFacts ==
    ASSUME BufOK, NEW base \in Nat, NEW l \in Nat, base + l <= Len(buf), NEW i \in Nat,
           readVarint(base, l, i).ok
    PROVE  /\ readVarint(base, l, i).val \in Int
           /\ readVarint(base, l, i).val <= MaxInt
           /\ readVarint(base, l, i).next \in (i + 1) .. l
<1> DEFINE last == {n \in 0 .. (VarintBytes - 1) :
                      /\ i + n < l
                      /\ buf[base + i + n + 1] # Cont
                      /\ \A j \in 0 .. (n - 1) : buf[base + i + j + 1] = Cont}
           n == CHOOSE m \in last : TRUE
<1>1. readVarint(base, l, i) = IF last = {} THEN [ok |-> FALSE, val |-> 0, next |-> i]
        ELSE [ok |-> TRUE, val |-> buf[base + i + n + 1], next |-> i + n + 1]
  BY DEF readVarint
<1>2. last # {}
  <2> HIDE DEF n, last
  <2> QED BY <1>1
<1>3. n \in last
  BY <1>2
<1>4. n \in Nat /\ i + n < l /\ buf[base + i + n + 1] # Cont
  BY <1>3, BoundsAssumption
<1> HIDE DEF n, last
<1>5. base + i + n + 1 \in 1 .. Len(buf)
  BY <1>4 DEF BufOK
<1>6. buf[base + i + n + 1] \in Cells
  BY <1>5 DEF BufOK
<1> QED BY <1>1, <1>2, <1>4, <1>6, BoundsAssumption DEF Cells, Cont

(***************************************************************************)
(* The slice a length stands for: an overflow has been refused.            *)
(***************************************************************************)
LEMMA SpanFacts ==
    ASSUME BufOK, FrameOK(top, Len(buf)), NEW i \in 0 .. top.l, span(i).ok
    PROVE  span(i).first \in (i + 1) .. top.l /\ span(i).post \in span(i).first .. top.l
<1> DEFINE v == readVarint(top.base, top.l, i)
           post == wrap(v.next + v.val)
<1>1. span(i) = [ok |-> v.ok /\ v.val >= 0 /\ post >= 0 /\ post <= top.l,
                 first |-> v.next, post |-> post]
  BY DEF span
<1>2. v.ok /\ v.val >= 0 /\ post >= 0 /\ post <= top.l
  BY DEF span
<1> HIDE DEF v, post
<1>3. top.base \in Nat /\ top.l \in Nat /\ top.base + top.l <= Len(buf) /\ i \in Nat
  BY DEF FrameOK
<1>4. v.val \in Int /\ v.val <= MaxInt /\ v.next \in (i + 1) .. top.l
  BY <1>2, <1>3, VarintFacts DEF v
<1>5. v.val \in 0 .. MaxInt /\ v.next \in 0 .. MaxInt
  BY <1>2, <1>3, <1>4, BoundsAssumption DEF BufOK
<1>6. post = v.next + v.val
  BY <1>2, <1>5, Overflow DEF post
<1> QED BY <1>1, <1>2, <1>4, <1>5, <1>6

(***************************************************************************)
(* What storing a value in a field of a call's struct does.                *)
(***************************************************************************)
Stored(a, fr, msg, n, v) ==
    /\ a = [fr EXCEPT !.f = a.f]
    /\ Shape0(msg, a) /\ a.f[n] # <<>>
    /\ \A k \in Fields(msg) \ {n} :
         a.f[k] = fr.f[k] \/ (a.f[k] = <<>> /\ Schema[msg][k].label = "oneof")
    /\ \A i \in 1 .. Len(a.f[n]) :
         a.f[n][i] = v \/ (i \in 1 .. Len(fr.f[n]) /\ a.f[n][i] = fr.f[n][i])

LEMMA Assigned ==
    ASSUME NEW fr, IsFrame(fr), NEW msg \in Messages, Shape0(msg, fr),
           NEW n \in Fields(msg), NEW v,
           NEW a, a = assign(fr, msg, n, v)
    PROVE  Stored(a, fr, msg, n, v)
<1>1. DOMAIN fr.f = Fields(msg) /\ \A k \in Fields(msg) : isSeq(fr.f[k])
  BY DEF Shape0
<1>2. CASE Schema[msg][n].label = "repeated"
  <2>1. a = [fr EXCEPT !.f = [fr.f EXCEPT ![n] = Append(fr.f[n], v)]]
    BY <1>2 DEF assign, IsFrame
  <2>2. a.f = [fr.f EXCEPT ![n] = Append(fr.f[n], v)]
    BY <2>1 DEF IsFrame
  <2>3. /\ DOMAIN a.f = Fields(msg) /\ a.f[n] = Append(fr.f[n], v)
        /\ \A k \in Fields(msg) \ {n} : a.f[k] = fr.f[k]
    BY <1>1, <2>2
  <2>4. isSeq(fr.f[n])
    BY <1>1
  <2>5. /\ isSeq(a.f[n]) /\ a.f[n] # <<>>
        /\ Len(fr.f[n]) \in Nat /\ Len(a.f[n]) = Len(fr.f[n]) + 1
        /\ a.f[n][Len(fr.f[n]) + 1] = v
        /\ \A i \in 1 .. Len(fr.f[n]) : a.f[n][i] = fr.f[n][i]
    <3>1. Longer(Append(fr.f[n], v), fr.f[n], v)
      BY <2>4, Appended
    <3>2. Longer(a.f[n], fr.f[n], v)
      BY <2>3, <3>1
    <3> QED BY <3>2 DEF Longer
  <2>7. \A i \in 1 .. Len(a.f[n]) :
          a.f[n][i] = v \/ (i \in 1 .. Len(fr.f[n]) /\ a.f[n][i] = fr.f[n][i])
    <3>1. \A i \in 1 .. Len(a.f[n]) : i \in 1 .. Len(fr.f[n]) \/ i = Len(fr.f[n]) + 1
      BY <2>5
    <3> QED BY <2>5, <3>1
  <2>6. oneMember(msg, a)
    BY <1>2, <2>3 DEF Shape0, oneMember
  <2>8. Shape0(msg, a)
    BY <1>1, <2>3, <2>5, <2>6 DEF Shape0
  <2>9. a = [fr EXCEPT !.f = a.f]
    BY <2>1, <2>2
  <2> QED BY <2>3, <2>5, <2>7, <2>8, <2>9 DEF Stored
<1>3. CASE Schema[msg][n].label = "oneof"
  <2> DEFINE g == [k \in Fields(msg) |->
                     IF k = n THEN <<v>>
                     ELSE IF Schema[msg][k].label = "oneof" THEN <<>> ELSE fr.f[k]]
  <2>1. a = [fr EXCEPT !.f = g] /\ a.f = g
    BY <1>3 DEF assign, IsFrame
  <2>2. /\ DOMAIN a.f = Fields(msg) /\ a.f[n] = <<v>>
        /\ \A k \in Fields(msg) \ {n} :
             a.f[k] = IF Schema[msg][k].label = "oneof" THEN <<>> ELSE fr.f[k]
    BY <2>1
  <2> HIDE DEF g
  <2>3. \A k \in Fields(msg) : isSeq(a.f[k])
    BY <1>1, <2>2, ShortSeqs
  <2>4. oneMember(msg, a)
    BY <2>2 DEF oneMember
  <2>5. a.f[n] # <<>> /\ \A i \in 1 .. Len(a.f[n]) : a.f[n][i] = v
    BY <2>2, ShortSeqs
  <2>6. Shape0(msg, a)
    BY <2>2, <2>3, <2>4 DEF Shape0
  <2>7. a = [fr EXCEPT !.f = a.f]
    BY <2>1
  <2> QED BY <2>2, <2>5, <2>6, <2>7 DEF Stored
<1>4. CASE Schema[msg][n].label \notin {"repeated", "oneof"}
  <2>1. a = [fr EXCEPT !.f = [fr.f EXCEPT ![n] = <<v>>]]
    BY <1>4 DEF assign, IsFrame
  <2>2. a.f = [fr.f EXCEPT ![n] = <<v>>]
    BY <2>1 DEF IsFrame
  <2>3. /\ DOMAIN a.f = Fields(msg) /\ a.f[n] = <<v>>
        /\ \A k \in Fields(msg) \ {n} : a.f[k] = fr.f[k]
    BY <1>1, <2>2
  <2>4. \A k \in Fields(msg) : isSeq(a.f[k])
    BY <1>1, <2>3, ShortSeqs
  <2>5. oneMember(msg, a)
    BY <1>4, <2>3 DEF Shape0, oneMember
  <2>6. a.f[n] # <<>> /\ \A i \in 1 .. Len(a.f[n]) : a.f[n][i] = v
    BY <2>3, ShortSeqs
  <2>7. Shape0(msg, a)
    BY <2>3, <2>4, <2>5 DEF Shape0
  <2>8. a = [fr EXCEPT !.f = a.f]
    BY <2>1, <2>2
  <2> QED BY <2>3, <2>6, <2>7, <2>8 DEF Stored
<1> QED BY <1>2, <1>3, <1>4

(***************************************************************************)
(* A struct whose embedded messages were there before has the shape it had *)
(* before.                                                                 *)
(***************************************************************************)
KeepsInside(msg, old, new) ==
    \A n \in Fields(msg) : Schema[msg][n].kind \in Messages =>
      \A i \in 1 .. Len(new.f[n]) :
        i \in 1 .. Len(old.f[n]) /\ new.f[n][i] = old.f[n][i]

LEMMA LevelKept ==
    ASSUME NEW k \in 1 .. 3, NEW old, LevelOK(k, old), NEW new, new.msg = old.msg,
           Shape0(new.msg, new), KeepsInside(old.msg, old, new)
    PROVE  LevelOK(k, new)
<1>1. Shape2(old.msg, old) => Shape2(old.msg, new)
  BY DEF Shape2, KeepsInside
<1>2. Shape1(old.msg, old) => Shape1(old.msg, new)
  BY DEF Shape1, KeepsInside
<1> QED BY <1>1, <1>2 DEF LevelOK

(***************************************************************************)
(* The stack when its last frame is replaced.                              *)
(***************************************************************************)
LEMMA Replaced ==
    ASSUME isSeq(stack), stack # <<>>, NEW x, NEW t, t = setTop(x)
    PROVE  /\ isSeq(t) /\ Len(t) = Len(stack) /\ Len(stack) \in Nat \ {0}
           /\ t[Len(stack)] = x
           /\ \A k \in 1 .. (Len(stack) - 1) : t[k] = stack[k]
<1> DEFINE S == {stack[i] : i \in 1 .. Len(stack)}
<1>0. t = [stack EXCEPT ![Len(stack)] = x]
  BY DEF setTop
<1>1. stack \in Seq(S)
  BY DEF isSeq
<1> HIDE DEF S
<1>2. stack \in Seq(S \cup {x})
  BY <1>1
<1>3. t \in Seq(S \cup {x}) /\ Len(t) = Len(stack)
  BY <1>0, <1>2
<1>4. Len(stack) \in Nat \ {0} /\ DOMAIN stack = 1 .. Len(stack)
  BY <1>1
<1>5. t[Len(stack)] = x /\ \A k \in 1 .. (Len(stack) - 1) : t[k] = stack[k]
  <2> DEFINE d == Len(stack)
  <2>1. d \in Nat \ {0} /\ DOMAIN stack = 1 .. d /\ t = [stack EXCEPT ![d] = x]
    BY <1>0, <1>4
  <2> HIDE DEF d
  <2>2. d \in 1 .. d /\ \A k \in 1 .. (d - 1) : k \in 1 .. d /\ k # d
    BY <2>1
  <2>3. t[d] = x
    BY <2>1, <2>2, Zenon
  <2>4. \A k \in 1 .. (d - 1) : t[k] = stack[k]
    BY <2>1, <2>2, Zenon
  <2> QED BY <2>3, <2>4 DEF d
<1>6. isSeq(t)
  BY <1>3, AnySeq
<1> QED BY <1>3, <1>4, <1>5, <1>6

(***************************************************************************)
(* The first elements of a sequence.                                       *)
(***************************************************************************)
LEMMA CutShort ==
    ASSUME NEW s, isSeq(s), NEW d \in 0 .. Len(s), Len(s) \in Nat,
           NEW u, u = SubSeq(s, 1, d)
    PROVE  isSeq(u) /\ Len(u) = d /\ \A k \in 1 .. d : u[k] = s[k]
<1> DEFINE S == {s[i] : i \in 1 .. Len(s)}
<1>1. d \in Int /\ 1 \in Int /\ \A i \in 1 .. d : s[i] \in S
  OBVIOUS
<1> HIDE DEF S
<1>2. /\ u \in Seq(S)
      /\ Len(u) = IF 1 <= d THEN d - 1 + 1 ELSE 0
      /\ \A k \in 1 .. (d - 1 + 1) : u[k] = s[1 + k - 1]
  BY <1>1, SubSeqProperties
<1>3. isSeq(u)
  BY <1>2, AnySeq
<1>4. d - 1 + 1 = d /\ \A k \in 1 .. d : 1 + k - 1 = k
  OBVIOUS
<1> QED BY <1>2, <1>3, <1>4

(***************************************************************************)
(* The stack when its last two frames become one.                          *)
(***************************************************************************)
returned(s, d, x) == Append(SubSeq(s, 1, d), x)

LEMMA Popped ==
    ASSUME NEW s, isSeq(s), NEW d \in 0 .. Len(s), Len(s) \in Nat, NEW x, NEW t,
           t = returned(s, d, x)
    PROVE  /\ isSeq(t) /\ Len(t) = d + 1 /\ t[d + 1] = x
           /\ \A k \in 1 .. d : t[k] = s[k]
<1>1. PICK u : u = SubSeq(s, 1, d)
  OBVIOUS
<1>2. isSeq(u) /\ Len(u) = d /\ \A k \in 1 .. d : u[k] = s[k]
  BY <1>1, CutShort, Zenon
<1>3. Longer(Append(u, x), u, x) /\ t = Append(u, x)
  BY <1>1, <1>2, Appended DEF returned
<1>4. Longer(t, u, x)
  BY <1>3
<1> QED BY <1>2, <1>4 DEF Longer

(***************************************************************************)
(* The facts about a read that goes on that every step uses.               *)
(***************************************************************************)
LEMMA Basics ==
    ASSUME IndInv
    PROVE  /\ isSeq(stack) /\ stack # <<>> /\ Len(stack) \in 1 .. 3
           /\ FrameOK(top, Len(buf)) /\ LevelOK(Len(stack), top) /\ IsFrame(top)
           /\ top.msg \in Messages /\ Shape0(top.msg, top)
           /\ top.base \in Nat /\ top.l \in Nat /\ top.iNdEx \in 0 .. top.l
           /\ top.base + top.l <= Len(buf) /\ Len(buf) \in Nat /\ Len(buf) <= MaxInt
           /\ BufOK
<1>1. isSeq(stack) /\ Len(stack) \in 1 .. 3 /\ BufOK
  BY DEF IndInv, StackOK
<1>2. Len(stack) \in 1 .. Len(stack) /\ stack # <<>>
  BY <1>1
<1>3. FrameOK(top, Len(buf)) /\ LevelOK(Len(stack), top)
  BY <1>2 DEF IndInv, StackOK, top
<1> QED BY <1>1, <1>2, <1>3 DEF FrameOK, BufOK

(***************************************************************************)
(* A step that only changes the innermost call, and keeps what it has      *)
(* embedded, keeps the stack in order.                                     *)
(***************************************************************************)
LEMMA TopKept ==
    ASSUME IndInv, NEW fr, NEW t, t = setTop(fr), FrameOK(fr, Len(buf)),
           fr.msg = top.msg, fr.slot = top.slot, fr.base = top.base, fr.l = top.l,
           KeepsInside(top.msg, top, fr)
    PROVE  StackOK(t, Len(buf)) /\ Len(t) = Len(stack) /\ t[Len(stack)] = fr
<1>1. /\ isSeq(t) /\ Len(t) = Len(stack) /\ t[Len(stack)] = fr
      /\ \A k \in 1 .. (Len(stack) - 1) : t[k] = stack[k]
  BY Basics, Replaced
<1>2. Len(stack) \in 1 .. 3
  BY Basics
<1>3. LevelOK(Len(stack), fr)
  BY <1>2, Basics, LevelKept DEF FrameOK
<1>4. ASSUME NEW k \in 1 .. Len(t) PROVE FrameOK(t[k], Len(buf)) /\ LevelOK(k, t[k])
  <2>1. CASE k = Len(stack)
    BY <1>1, <1>3, <2>1
  <2>2. CASE k \in 1 .. (Len(stack) - 1)
    BY <1>1, <2>2 DEF IndInv, StackOK
  <2> QED BY <1>1, <1>2, <2>1, <2>2
<1>5. ASSUME NEW k \in 2 .. Len(t) PROVE Embedded(t[k - 1], t[k])
  <2>1. k - 1 \in 1 .. (Len(stack) - 1) /\ t[k - 1] = stack[k - 1]
    BY <1>1, <1>2
  <2>2. Embedded(stack[k - 1], stack[k])
    BY <1>1 DEF IndInv, StackOK
  <2>3. CASE k = Len(stack)
    BY <1>1, <2>1, <2>2, <2>3 DEF Embedded, top
  <2>4. CASE k \in 1 .. (Len(stack) - 1)
    BY <1>1, <2>1, <2>2, <2>4
  <2> QED BY <1>1, <1>2, <2>3, <2>4
<1> QED BY <1>1, <1>2, <1>4, <1>5 DEF StackOK

(***************************************************************************)
(* A read that goes on in the loop of Unmarshal: what is left to show of a *)
(* step that changes only the calls.                                       *)
(***************************************************************************)
LEMMA GoesOn ==
    ASSUME IndInv, status = "run", StackOK(stack', Len(buf)),
           UNCHANGED <<buf, status, result>>, skip' \in {skip, noSkip}, ~skip'.on,
           4 * (Len(buf) - (top.base + top.iNdEx)') + Len(stack') + 1 < remaining
    PROVE  IndInv' /\ Consumes
<1>1. BufOK' /\ StackOK(stack, Len(buf))' /\ AcceptedIsComplete'
  BY DEF IndInv, BufOK, AcceptedIsComplete
<1>2. SkipOK'
  <2> DEFINE R == [on : BOOLEAN, pre : Nat, iNdEx : Nat, depth : Nat]
  <2>1. skip \in R /\ noSkip \in R
    BY DEF IndInv, SkipOK, noSkip
  <2>2. skip' \in R
    BY <2>1
  <2> QED BY <2>2 DEF SkipOK
<1>3. remaining' < remaining
  BY DEF remaining, position
<1> QED BY <1>1, <1>2, <1>3 DEF IndInv, Consumes

(***************************************************************************)
(* The measure of a read that is not in skipP2Pd.                          *)
(***************************************************************************)
LEMMA Measure ==
    ASSUME IndInv, ~skip.on, NEW p \in Int, NEW k \in Int,
           4 * p - k > 4 * (top.base + top.iNdEx) - Len(stack)
    PROVE  4 * (Len(buf) - p) + k + 1 < remaining
<1> DEFINE q == top.base + top.iNdEx
<1>1. remaining = 4 * (Len(buf) - q) + Len(stack) + 1
  BY DEF remaining, position
<1>2. q \in Int /\ Len(buf) \in Int /\ Len(stack) \in Int
  BY Basics
<1> HIDE DEF q
<1>3. 4 * p - k > 4 * q - Len(stack)
  BY DEF q
<1> QED BY <1>1, <1>2, <1>3

(***************************************************************************)
(* A return with an error.                                                 *)
(***************************************************************************)
LEMMA FailStep ==
    ASSUME IndInv, Fail
    PROVE  IndInv' /\ Consumes
<1>1. BufOK' /\ StackOK(stack, Len(buf))' /\ AcceptedIsComplete'
  BY DEF IndInv, BufOK, AcceptedIsComplete, Fail
<1>2. SkipOK'
  BY DEF IndInv, SkipOK, Fail, top
<1> QED BY <1>1, <1>2 DEF IndInv, Consumes, Fail

(***************************************************************************)
(* The tag that was read ends in the slice, behind the index.              *)
(***************************************************************************)
LEMMA TagFacts ==
    ASSUME IndInv, tag.ok
    PROVE  tag.next \in (top.iNdEx + 1) .. top.l /\ tag.next \in 0 .. top.l
<1>1. top.iNdEx \in Nat
  BY Basics
<1>2. tag.next \in (top.iNdEx + 1) .. top.l
  BY <1>1, Basics, VarintFacts DEF tag
<1> QED BY <1>1, <1>2, Basics

(***************************************************************************)
(* A call whose struct got a value, and whose index moved, is still in     *)
(* order.                                                                  *)
(***************************************************************************)
LEMMA FrameKept ==
    ASSUME NEW fr, NEW size, FrameOK(fr, size), NEW n \in Fields(fr.msg), NEW v,
           NEW a, a = assign(fr, fr.msg, n, v),
           NEW b, IsFrame(b), b.msg = fr.msg, b.base = fr.base, b.l = fr.l, b.f = a.f,
           b.iNdEx \in 0 .. fr.l, b.has \subseteq fr.has \cup {n}
    PROVE  FrameOK(b, size)
<1>1. IsFrame(fr) /\ fr.msg \in Messages /\ Shape0(fr.msg, fr)
  BY DEF FrameOK
<1>2. /\ Shape0(fr.msg, a) /\ a.f[n] # <<>>
      /\ \A k \in Fields(fr.msg) \ {n} :
           a.f[k] = fr.f[k] \/ (a.f[k] = <<>> /\ Schema[fr.msg][k].label = "oneof")
  <2>1. Stored(a, fr, fr.msg, n, v)
    BY <1>1, Assigned
  <2> QED BY <2>1 DEF Stored
<1>3. Shape0(b.msg, b)
  BY <1>2 DEF Shape0, oneMember
<1>4. ASSUME NEW k \in b.has \cap Fields(b.msg), Schema[b.msg][k].label = "required"
      PROVE  b.f[k] # <<>>
  BY <1>2, <1>4 DEF FrameOK
<1> QED BY <1>1, <1>3, <1>4 DEF FrameOK

(***************************************************************************)
(* A call with another index.                                              *)
(***************************************************************************)
advanced(a, i, n) == [a EXCEPT !.iNdEx = i, !.has = @ \cup {n}]

LEMMA Advanced ==
    ASSUME NEW a, IsFrame(a), NEW i, NEW n, NEW b, b = advanced(a, i, n)
    PROVE  /\ IsFrame(b) /\ b.msg = a.msg /\ b.base = a.base /\ b.l = a.l
           /\ b.slot = a.slot /\ b.f = a.f /\ b.iNdEx = i /\ b.has = a.has \cup {n}
<1> DEFINE e == [a EXCEPT !.iNdEx = i]
<1>1. b = [e EXCEPT !.has = a.has \cup {n}]
  BY DEF advanced
<1>2. e = [msg |-> a.msg, base |-> a.base, l |-> a.l, iNdEx |-> i, f |-> a.f,
           unk |-> a.unk, has |-> a.has, slot |-> a.slot]
  BY DEF IsFrame
<1> HIDE DEF e
<1>3. b = [msg |-> a.msg, base |-> a.base, l |-> a.l, iNdEx |-> i, f |-> a.f,
           unk |-> a.unk, has |-> a.has \cup {n}, slot |-> a.slot]
  BY <1>1, <1>2
<1> QED BY <1>3 DEF IsFrame

(***************************************************************************)
(* A scalar field that was read: the index is behind it.                   *)
(***************************************************************************)
LEMMA ScalarStep ==
    ASSUME IndInv, status = "run", ~skip.on,
           NEW n \in Fields(top.msg), Schema[top.msg][n].kind \in Scalars, NEW v,
           NEW i \in (top.iNdEx + 1) .. top.l,
           stack' = setTop([assign(top, top.msg, n, v)
                              EXCEPT !.iNdEx = i, !.has = @ \cup {n}]),
           UNCHANGED <<buf, skip, status, result>>
    PROVE  IndInv' /\ Consumes
<1> DEFINE a == assign(top, top.msg, n, v)
           b == [a EXCEPT !.iNdEx = i, !.has = @ \cup {n}]
<1>1. /\ a = [top EXCEPT !.f = a.f]
      /\ \A k \in Fields(top.msg) \ {n} : a.f[k] = top.f[k] \/ a.f[k] = <<>>
  <2>1. Stored(a, top, top.msg, n, v)
    BY Basics, Assigned
  <2> HIDE DEF a
  <2> QED BY <2>1 DEF Stored
<1>2. stack' = setTop(b)
  OBVIOUS
<1> HIDE DEF a
<1>3. /\ IsFrame(b) /\ b.msg = top.msg /\ b.base = top.base /\ b.l = top.l
      /\ b.slot = top.slot /\ b.f = a.f /\ b.iNdEx = i /\ b.has = top.has \cup {n}
  <2>1. /\ IsFrame(a) /\ a.msg = top.msg /\ a.base = top.base /\ a.l = top.l
        /\ a.slot = top.slot /\ a.has = top.has
    BY <1>1, Basics DEF IsFrame
  <2>2. b = advanced(a, i, n)
    BY DEF advanced
  <2> HIDE DEF b
  <2>3. /\ IsFrame(b) /\ b.msg = a.msg /\ b.base = a.base /\ b.l = a.l
        /\ b.slot = a.slot /\ b.f = a.f /\ b.iNdEx = i /\ b.has = a.has \cup {n}
    <3>1. IsFrame(a)
      BY <2>1
    <3> QED BY <2>2, <3>1, Advanced
  <2> QED BY <2>1, <2>3
<1> HIDE DEF b
<1>4. i \in 0 .. top.l /\ i > top.iNdEx /\ i \in Int
  BY Basics
<1>5. FrameOK(b, Len(buf))
  BY <1>3, <1>4, Basics, FrameKept DEF a
<1>6. KeepsInside(top.msg, top, b)
  <2>1. Schema[top.msg][n].kind \notin Messages
    BY ScalarNames
  <2>2. \A k \in Fields(top.msg) \ {n} : b.f[k] = top.f[k] \/ b.f[k] = <<>>
    BY <1>1, <1>3
  <2> QED BY <2>1, <2>2 DEF KeepsInside
<1>7. StackOK(stack', Len(buf)) /\ Len(stack') = Len(stack) /\ stack'[Len(stack)] = b
  BY <1>2, <1>3, <1>5, <1>6, TopKept
<1>8. (top.base + top.iNdEx)' = top.base + i
  BY <1>3, <1>7 DEF top
<1>9. 4 * (Len(buf) - (top.base + top.iNdEx)') + Len(stack') + 1 < remaining
  <2>1. top.base \in Int /\ top.iNdEx \in Int /\ Len(stack) \in Int
    BY Basics
  <2>2. 4 * (top.base + i) - Len(stack) > 4 * (top.base + top.iNdEx) - Len(stack)
    BY <1>4, <2>1
  <2>3. top.base + i \in Int
    BY <1>4, <2>1
  <2> QED BY <1>7, <1>8, <2>1, <2>2, <2>3, Measure
<1> QED BY <1>7, <1>9, GoesOn

(***************************************************************************)
(* A varint field: the number ends in the slice, or the read fails.        *)
(***************************************************************************)
LEMMA VarintStep ==
    ASSUME IndInv, VarintField
    PROVE  IndInv' /\ Consumes
<1> DEFINE v == readVarint(top.base, top.l, tag.next)
<1>1. /\ status = "run" /\ ~skip.on /\ tag.ok /\ fieldNum \in Fields(top.msg)
      /\ Schema[top.msg][fieldNum].kind \in {"varint"}
  BY DEF VarintField, Field, GoodTag, Looping
<1>2. tag.next \in (top.iNdEx + 1) .. top.l /\ tag.next \in 0 .. top.l
  BY <1>1, TagFacts
<1>3. CASE v.ok
  <2>1. /\ stack' = setTop([assign(top, top.msg, fieldNum, v.val)
                              EXCEPT !.iNdEx = v.next, !.has = @ \cup {fieldNum}])
        /\ UNCHANGED <<buf, skip, status, result>>
    BY <1>3 DEF VarintField
  <2>2. v.next \in (tag.next + 1) .. top.l
    BY <1>2, <1>3, Basics, VarintFacts
  <2> HIDE DEF v
  <2>3. v.next \in (top.iNdEx + 1) .. top.l
    BY <1>2, <2>2, Basics
  <2>4. Schema[top.msg][fieldNum].kind \in Scalars
    BY <1>1 DEF Scalars
  <2> QED BY <1>1, <2>1, <2>3, <2>4, ScalarStep
<1>4. CASE ~v.ok
  <2>1. Fail
    BY <1>4 DEF VarintField
  <2> QED BY <2>1, FailStep
<1> QED BY <1>3, <1>4

(***************************************************************************)
(* A field of bytes: the slice is in range whenever the length was not     *)
(* refused, so the slice expression does not panic.                        *)
(***************************************************************************)
LEMMA BytesStep ==
    ASSUME IndInv, BytesField
    PROVE  IndInv' /\ Consumes
<1> DEFINE s == span(tag.next)
           v == SubSeq(buf, top.base + s.first + 1, top.base + s.post)
<1>1. /\ status = "run" /\ ~skip.on /\ tag.ok /\ fieldNum \in Fields(top.msg)
      /\ Schema[top.msg][fieldNum].kind \in {"bytes", "string"}
  BY DEF BytesField, Field, GoodTag, Looping
<1>2. tag.next \in (top.iNdEx + 1) .. top.l /\ tag.next \in 0 .. top.l
  BY <1>1, TagFacts
<1>3. CASE s.ok
  <2>1. s.first \in (tag.next + 1) .. top.l /\ s.post \in s.first .. top.l
    BY <1>2, <1>3, Basics, SpanFacts
  <2>2. inRange(s.first, s.post, top.l)
    <3> HIDE DEF s
    <3> QED BY <1>2, <2>1, Basics DEF inRange
  <2>3. /\ stack' = setTop([assign(top, top.msg, fieldNum, v)
                              EXCEPT !.iNdEx = s.post, !.has = @ \cup {fieldNum}])
        /\ UNCHANGED <<buf, skip, status, result>>
    BY <1>3, <2>2 DEF BytesField
  <2> HIDE DEF s, v
  <2>4. s.post \in (top.iNdEx + 1) .. top.l
    BY <1>2, <2>1, Basics
  <2>5. Schema[top.msg][fieldNum].kind \in Scalars
    BY <1>1 DEF Scalars
  <2> QED BY <1>1, <2>3, <2>4, <2>5, ScalarStep
<1>4. CASE ~s.ok
  <2>1. Fail
    BY <1>4 DEF BytesField
  <2> QED BY <2>1, FailStep
<1> QED BY <1>3, <1>4

(***************************************************************************)
(* A new struct has the shape any call needs.                              *)
(***************************************************************************)
LEMMA EmptyShape ==
    ASSUME NEW msg
    PROVE  Shape0(msg, Empty(msg)) /\ Shape1(msg, Empty(msg))
<1>1. /\ DOMAIN Empty(msg).f = Fields(msg)
      /\ \A n \in Fields(msg) : Empty(msg).f[n] = <<>>
  BY DEF Empty
<1>2. Shape0(msg, Empty(msg))
  BY <1>1, ShortSeqs DEF Shape0, oneMember
<1>3. \A i : i \notin 1 .. Len(<<>>)
  OBVIOUS
<1>4. Shape1(msg, Empty(msg))
  BY <1>1, <1>2, <1>3 DEF Shape1
<1> QED BY <1>2, <1>4

(***************************************************************************)
(* A struct that a field of the caller already holds was accepted before.  *)
(***************************************************************************)
LEMMA StructInCaller ==
    ASSUME NEW fr, IsFrame(fr), NEW d \in 1 .. 3, LevelOK(d, fr), Shape0(fr.msg, fr),
           NEW n \in Fields(fr.msg), Schema[fr.msg][n].kind \in Messages,
           fr.f[n] # <<>>
    PROVE  /\ d = 1 => Shape1(Schema[fr.msg][n].kind, fr.f[n][1])
           /\ d = 2 => Shape0(Schema[fr.msg][n].kind, fr.f[n][1])
<1>1. 1 \in 1 .. Len(fr.f[n])
  <2>1. isSeq(fr.f[n])
    BY DEF Shape0
  <2> QED BY <2>1 DEF isSeq
<1>2. CASE d = 1
  BY <1>1, <1>2 DEF LevelOK, Shape2, Whole1
<1>3. CASE d = 2
  BY <1>1, <1>3 DEF LevelOK, Shape1, Whole0
<1> QED BY <1>2, <1>3

(***************************************************************************)
(* The stack when Unmarshal calls itself on the end of what its caller has *)
(* read.                                                                   *)
(***************************************************************************)
called(up, fr) == Append(setTop(up), fr)

LEMMA Pushed ==
    ASSUME IndInv, NEW up, NEW fr, NEW t, t = called(up, fr),
           FrameOK(up, Len(buf)), up.msg = top.msg, up.slot = top.slot,
           up.base = top.base, up.l = top.l, KeepsInside(top.msg, top, up),
           FrameOK(fr, Len(buf)), LevelOK(Len(stack) + 1, fr), Embedded(up, fr),
           Len(stack) \in 1 .. 2
    PROVE  StackOK(t, Len(buf)) /\ Len(t) = Len(stack) + 1 /\ t[Len(t)] = fr
<1> DEFINE u == setTop(up)
           d == Len(stack)
<1>1. StackOK(u, Len(buf)) /\ Len(u) = d /\ u[d] = up
  BY TopKept
<1>2. d \in 1 .. 2
  OBVIOUS
<1> HIDE DEF u, d
<1>3. Longer(Append(u, fr), u, fr) /\ t = Append(u, fr)
  BY <1>1, Appended DEF StackOK, u, called
<1>4. Longer(t, u, fr)
  BY <1>3
<1>5. isSeq(t) /\ Len(t) = d + 1 /\ t[d + 1] = fr /\ \A k \in 1 .. d : t[k] = u[k]
  BY <1>1, <1>4 DEF Longer
<1>6. ASSUME NEW k \in 1 .. Len(t) PROVE FrameOK(t[k], Len(buf)) /\ LevelOK(k, t[k])
  <2>1. CASE k = d + 1
    BY <1>5, <2>1 DEF d
  <2>2. CASE k \in 1 .. d
    BY <1>1, <1>5, <2>2 DEF StackOK
  <2> QED BY <1>2, <1>5, <2>1, <2>2
<1>7. ASSUME NEW k \in 2 .. Len(t) PROVE Embedded(t[k - 1], t[k])
  <2>1. CASE k = d + 1
    <3>1. t[k - 1] = up /\ t[k] = fr
      BY <1>1, <1>2, <1>5, <2>1
    <3> QED BY <3>1
  <2>2. CASE k \in 2 .. d
    <3>1. t[k - 1] = u[k - 1] /\ t[k] = u[k]
      BY <1>2, <1>5, <2>2
    <3> QED BY <1>1, <2>2, <3>1 DEF StackOK
  <2> QED BY <1>2, <1>5, <2>1, <2>2
<1>8. Len(t) \in 1 .. 3 /\ Len(t) = d + 1 /\ t[Len(t)] = fr
  BY <1>2, <1>5
<1>9. StackOK(t, Len(buf))
  BY <1>5, <1>6, <1>7, <1>8 DEF StackOK
<1> QED BY <1>8, <1>9 DEF d

(***************************************************************************)
(* An embedded message: a call for the slice it stands for.                *)
(***************************************************************************)
LEMMA MessageStep ==
    ASSUME IndInv, MessageField
    PROVE  IndInv' /\ Consumes
<1> DEFINE s == span(tag.next)
           entry == Schema[top.msg][fieldNum]
           m == IF entry.label = "optional" /\ top.f[fieldNum] # <<>>
                THEN top.f[fieldNum][1] ELSE Empty(entry.kind)
           up == [top EXCEPT !.iNdEx = s.post]
           fr == Frame(entry.kind, top.base + s.first, s.post - s.first, m, fieldNum)
<1>1. /\ status = "run" /\ ~skip.on /\ tag.ok /\ fieldNum \in Fields(top.msg)
      /\ entry.kind \in Messages
  BY DEF MessageField, Field, GoodTag, Looping
<1>2. tag.next \in (top.iNdEx + 1) .. top.l /\ tag.next \in 0 .. top.l
  BY <1>1, TagFacts
<1>3. CASE s.ok
  <2>1. s.first \in (tag.next + 1) .. top.l /\ s.post \in s.first .. top.l
    BY <1>2, <1>3, Basics, SpanFacts
  <2>2. inRange(s.first, s.post, top.l)
    <3> HIDE DEF s
    <3> QED BY <1>2, <2>1, Basics DEF inRange
  <2>3. stack' = Append(setTop(up), fr) /\ UNCHANGED <<buf, skip, status, result>>
    BY <1>3, <2>2 DEF MessageField
  <2> HIDE DEF s
  <2>4. /\ top.base \in Nat /\ top.l \in Nat /\ top.iNdEx \in Nat /\ Len(stack) \in 1 .. 3
        /\ s.first \in Nat /\ s.post \in Nat /\ s.first > top.iNdEx + 1
        /\ s.first <= s.post /\ s.post <= top.l /\ top.base + top.l <= Len(buf)
        /\ Len(buf) \in Nat
    <3>1. /\ top.base \in Nat /\ top.l \in Nat /\ top.iNdEx \in Nat
          /\ Len(stack) \in 1 .. 3 /\ top.base + top.l <= Len(buf) /\ Len(buf) \in Nat
      BY Basics
    <3>2. \A i, l \in Nat : \A j \in (i + 1) .. l : \A x \in (j + 1) .. l :
            \A y \in x .. l :
              x \in Nat /\ y \in Nat /\ x > i + 1 /\ x <= y /\ y <= l
      OBVIOUS
    <3> QED BY <1>2, <2>1, <3>1, <3>2
  <2>5. Len(stack) \in 1 .. 2
    <3>1. Len(stack) # 3
      BY <1>1, Basics DEF LevelOK, Flat
    <3> QED BY <2>4, <3>1
  <2>6. /\ Shape0(entry.kind, m)
        /\ Len(stack) = 1 => Shape1(entry.kind, m)
    <3>1. CASE entry.label = "optional" /\ top.f[fieldNum] # <<>>
      <4>1. /\ Len(stack) = 1 => Shape1(entry.kind, top.f[fieldNum][1])
            /\ Len(stack) = 2 => Shape0(entry.kind, top.f[fieldNum][1])
        BY <1>1, <2>4, <3>1, Basics, StructInCaller
      <4>2. m = top.f[fieldNum][1]
        BY <3>1
      <4> HIDE DEF m
      <4>3. Len(stack) = 1 => Shape1(entry.kind, m) /\ Shape0(entry.kind, m)
        BY <4>1, <4>2 DEF Shape1
      <4>4. Len(stack) = 2 => Shape0(entry.kind, m)
        BY <4>1, <4>2
      <4>5. Len(stack) = 1 \/ Len(stack) = 2
        BY <2>5
      <4> QED BY <4>3, <4>4, <4>5
    <3>2. CASE ~(entry.label = "optional" /\ top.f[fieldNum] # <<>>)
      BY <3>2, EmptyShape
    <3> QED BY <3>1, <3>2
  <2> HIDE DEF m
  <2>7. /\ fr = [msg |-> entry.kind, base |-> top.base + s.first, l |-> s.post - s.first,
                 iNdEx |-> 0, f |-> m.f, unk |-> m.unk, has |-> {}, slot |-> fieldNum]
        /\ IsFrame(fr)
    BY DEF Frame, IsFrame
  <2>8. /\ up = [msg |-> top.msg, base |-> top.base, l |-> top.l, iNdEx |-> s.post,
                 f |-> top.f, unk |-> top.unk, has |-> top.has, slot |-> top.slot]
        /\ IsFrame(up)
    BY Basics DEF IsFrame
  <2> HIDE DEF fr, up
  <2>9. FrameOK(up, Len(buf)) /\ KeepsInside(top.msg, top, up)
    <3>1. Shape0(top.msg, up)
      BY <2>8, Basics DEF Shape0, oneMember
    <3>2. \A n \in up.has \cap Fields(up.msg) :
            Schema[up.msg][n].label = "required" => up.f[n] # <<>>
      BY <2>8, Basics DEF FrameOK
    <3>3. KeepsInside(top.msg, top, up)
      BY <2>8 DEF KeepsInside
    <3>4. up.iNdEx \in 0 .. up.l
      BY <2>4, <2>8
    <3> QED BY <2>4, <2>8, <3>1, <3>2, <3>3, <3>4, Basics DEF FrameOK
  <2>10. Shape0(fr.msg, fr) /\ (Len(stack) = 1 => Shape1(fr.msg, fr))
    BY <2>6, <2>7 DEF Shape0, Shape1, oneMember
  <2>11. FrameOK(fr, Len(buf))
    <3>1. /\ fr.base \in Nat /\ fr.l \in Nat /\ fr.iNdEx \in 0 .. fr.l
          /\ fr.base + fr.l <= Len(buf)
      BY <2>4, <2>7
    <3>2. fr.has = {} /\ fr.msg \in Messages
      BY <1>1, <2>7
    <3> QED BY <2>7, <2>10, <3>1, <3>2 DEF FrameOK
  <2>12. LevelOK(Len(stack) + 1, fr)
    <3>1. Nested(fr.msg)
      BY <1>1, <2>7, Basics, ThreeDeep
    <3>2. CASE Len(stack) = 1
      BY <2>10, <3>1, <3>2 DEF LevelOK
    <3>3. CASE Len(stack) = 2
      <4>1. Flat(fr.msg)
        BY <1>1, <2>7, <3>3, Basics DEF LevelOK, Nested
      <4> QED BY <3>3, <4>1 DEF LevelOK
    <3> QED BY <2>5, <3>2, <3>3
  <2>13. Embedded(up, fr)
    BY <1>1, <2>4, <2>7, <2>8 DEF Embedded
  <2>14. /\ StackOK(stack', Len(buf)) /\ Len(stack') = Len(stack) + 1
         /\ stack'[Len(stack')] = fr
    <3>1. up.msg = top.msg /\ up.slot = top.slot /\ up.base = top.base /\ up.l = top.l
      BY <2>8
    <3>2. stack' = called(up, fr)
      BY <2>3 DEF called
    <3> QED BY <2>5, <2>9, <2>11, <2>12, <2>13, <3>1, <3>2, Pushed
  <2>15. (top.base + top.iNdEx)' = top.base + s.first
    BY <2>4, <2>7, <2>14 DEF top
  <2>16. 4 * (Len(buf) - (top.base + top.iNdEx)') + Len(stack') + 1 < remaining
    <3>0. \A b, x, i, z \in Int :
            x > i + 1 => /\ b + x \in Int /\ z + 1 \in Int
                         /\ 4 * (b + x) - (z + 1) > 4 * (b + i) - z
      OBVIOUS
    <3>1. /\ top.base + s.first \in Int /\ Len(stack) + 1 \in Int
          /\ 4 * (top.base + s.first) - (Len(stack) + 1)
               > 4 * (top.base + top.iNdEx) - Len(stack)
      <4>1. /\ top.base \in Int /\ s.first \in Int /\ top.iNdEx \in Int
            /\ Len(stack) \in Int /\ s.first > top.iNdEx + 1
        BY <2>4
      <4> QED BY <3>0, <4>1
    <3> QED BY <1>1, <2>14, <2>15, <3>1, Measure
  <2> QED BY <1>1, <2>3, <2>14, <2>16, GoesOn
<1>4. CASE ~s.ok
  <2>1. Fail
    BY <1>4 DEF MessageField
  <2> QED BY <2>1, FailStep
<1> QED BY <1>3, <1>4

(***************************************************************************)
(* A call that returns: what its struct is in the caller's eyes.           *)
(***************************************************************************)
LEMMA Accepted ==
    ASSUME IndInv, hasFields, NEW m, m.f = top.f
    PROVE  /\ Whole0(top.msg, m)
           /\ Len(stack) = 2 => Whole1(top.msg, m)
           /\ Len(stack) = 1 => Shape2(top.msg, m) /\ isSet(top.msg, m)
<1>1. isSet(top.msg, m)
  BY Basics DEF isSet, hasFields, FrameOK
<1>2. Shape0(top.msg, m)
  BY Basics DEF Shape0, oneMember
<1>3. ASSUME Len(stack) = 2 PROVE Shape1(top.msg, m)
  BY <1>2, <1>3, Basics DEF LevelOK, Shape1
<1>4. ASSUME Len(stack) = 1 PROVE Shape2(top.msg, m)
  BY <1>2, <1>4, Basics DEF LevelOK, Shape2
<1> QED BY <1>1, <1>2, <1>3, <1>4 DEF Whole0, Whole1

(***************************************************************************)
(* The outermost call accepts a complete message.                          *)
(***************************************************************************)
LEMMA CompleteMessage ==
    ASSUME NEW msg, NEW m, Shape2(msg, m), isSet(msg, m)
    PROVE  complete(msg, m)
<1>1. \A s : isSeq(s) => DOMAIN s = 1 .. Len(s)
  BY DEF isSeq
<1>2. ASSUME NEW n \in Fields(msg), Schema[msg][n].kind \in Messages,
             NEW i \in DOMAIN m.f[n]
      PROVE  complete2(Schema[msg][n].kind, m.f[n][i])
  <2> DEFINE kind == Schema[msg][n].kind
             x == m.f[n][i]
  <2>1. Whole1(kind, x)
    BY <1>1, <1>2 DEF Shape2, Shape0
  <2> HIDE DEF kind, x
  <2>2. ASSUME NEW k \in Fields(kind), Schema[kind][k].kind \in Messages,
               NEW j \in DOMAIN x.f[k]
        PROVE  isSet(Schema[kind][k].kind, x.f[k][j])
    BY <1>1, <2>1, <2>2 DEF Whole1, Shape1, Shape0, Whole0
  <2>3. isSet(kind, x)
    BY <2>1 DEF Whole1
  <2>4. complete2(kind, x)
    BY <2>2, <2>3 DEF complete2, inside
  <2> QED BY <2>4 DEF kind, x
<1> QED BY <1>2 DEF complete, inside

(***************************************************************************)
(* The caller of a call that returns has its struct in the field.          *)
(***************************************************************************)
LEMMA ReturnToCaller ==
    ASSUME IndInv, Len(stack) \in 2 .. 3, hasFields, NEW m, m.f = top.f,
           NEW up, up = stack[Len(stack) - 1],
           NEW a, a = assign(up, up.msg, top.slot, m)
    PROVE  /\ FrameOK(a, Len(buf)) /\ LevelOK(Len(stack) - 1, a)
           /\ a.msg = up.msg /\ a.base = up.base /\ a.l = up.l /\ a.iNdEx = up.iNdEx
           /\ a.slot = up.slot
<1> DEFINE d == Len(stack) - 1
           n == top.slot
<1>1. d \in 1 .. 2 /\ d \in 1 .. Len(stack) /\ Len(stack) \in 2 .. Len(stack)
  <2>1. \A z \in 2 .. 3 : z - 1 \in 1 .. 2 /\ z - 1 \in 1 .. z /\ z \in 2 .. z
    OBVIOUS
  <2> QED BY <2>1
<1>2. FrameOK(up, Len(buf)) /\ LevelOK(d, up)
  BY <1>1 DEF IndInv, StackOK
<1>3. Embedded(up, top)
  BY <1>1 DEF IndInv, StackOK, top
<1>4. n \in Fields(up.msg) /\ Schema[up.msg][n].kind = top.msg
  BY <1>3 DEF Embedded
<1>5. IsFrame(up) /\ up.msg \in Messages /\ Shape0(up.msg, up) /\ up.iNdEx \in 0 .. up.l
  BY <1>2 DEF FrameOK
<1> HIDE DEF n
<1>6. /\ a = [up EXCEPT !.f = a.f] /\ Shape0(up.msg, a)
      /\ \A k \in Fields(up.msg) \ {n} : a.f[k] = up.f[k] \/ a.f[k] = <<>>
      /\ \A i \in 1 .. Len(a.f[n]) :
           a.f[n][i] = m \/ (i \in 1 .. Len(up.f[n]) /\ a.f[n][i] = up.f[n][i])
  <2>1. a = assign(up, up.msg, n, m)
    BY DEF n
  <2>2. Stored(a, up, up.msg, n, m)
    BY <1>4, <1>5, <2>1, Assigned
  <2> QED BY <2>2 DEF Stored
<1>7. /\ IsFrame(a) /\ a.msg = up.msg /\ a.base = up.base /\ a.l = up.l
      /\ a.iNdEx = up.iNdEx /\ a.slot = up.slot /\ a.has = up.has
  BY <1>5, <1>6 DEF IsFrame
<1>8. FrameOK(a, Len(buf))
  BY <1>2, <1>4, <1>5, <1>7, FrameKept DEF n
<1>9. \A i : i \notin 1 .. Len(<<>>)
  OBVIOUS
<1>10. CASE d = 1
  <2>1. Shape2(up.msg, up) /\ Whole1(top.msg, m)
    BY <1>2, <1>10, Accepted DEF LevelOK
  <2>2. ASSUME NEW k \in Fields(up.msg), Schema[up.msg][k].kind \in Messages,
               NEW i \in 1 .. Len(a.f[k])
        PROVE  Whole1(Schema[up.msg][k].kind, a.f[k][i])
    <3>1. CASE k = n
      BY <1>4, <1>6, <2>1, <2>2, <3>1 DEF Shape2
    <3>2. CASE k # n
      BY <1>6, <1>9, <2>1, <2>2, <3>2 DEF Shape2
    <3> QED BY <3>1, <3>2
  <2>3. Shape2(up.msg, a)
    BY <1>6, <2>2 DEF Shape2
  <2>4. LevelOK(d, a)
    <3> HIDE DEF d
    <3> QED BY <1>10, <1>7, <2>3 DEF LevelOK
  <2> QED BY <1>7, <1>8, <2>4
<1>11. CASE d = 2
  <2>1. Nested(up.msg) /\ Shape1(up.msg, up) /\ Whole0(top.msg, m)
    BY <1>2, <1>11, Accepted DEF LevelOK
  <2>2. ASSUME NEW k \in Fields(up.msg), Schema[up.msg][k].kind \in Messages,
               NEW i \in 1 .. Len(a.f[k])
        PROVE  Whole0(Schema[up.msg][k].kind, a.f[k][i])
    <3>1. CASE k = n
      BY <1>4, <1>6, <2>1, <2>2, <3>1 DEF Shape1
    <3>2. CASE k # n
      BY <1>6, <1>9, <2>1, <2>2, <3>2 DEF Shape1
    <3> QED BY <3>1, <3>2
  <2>3. Shape1(up.msg, a)
    BY <1>6, <2>2 DEF Shape1
  <2>4. LevelOK(d, a)
    <3> HIDE DEF d
    <3> QED BY <1>11, <1>7, <2>1, <2>3 DEF LevelOK
  <2> QED BY <1>7, <1>8, <2>4
<1> QED BY <1>1, <1>10, <1>11

(***************************************************************************)
(* The end of a call: the outermost one ends the read, another one hands   *)
(* its struct to the caller.                                               *)
(***************************************************************************)
LEMMA ReturnStep ==
    ASSUME IndInv, Return
    PROVE  IndInv' /\ Consumes
<1> DEFINE m == [f |-> top.f, unk |-> top.unk]
           z == Len(stack)
<1>1. status = "run" /\ ~skip.on /\ top.iNdEx >= top.l
  BY DEF Return
<1>2. CASE ~hasFields
  <2>1. Fail
    BY <1>2 DEF Return
  <2> QED BY <2>1, FailStep
<1>3. CASE hasFields /\ z = 1
  <2>1. status' = "ok" /\ result' = m /\ UNCHANGED <<buf, stack, skip>>
    BY <1>3 DEF Return
  <2>2. complete(top.msg, m)
    BY <1>3, Accepted, CompleteMessage
  <2>3. stack'[1].msg = top.msg
    BY <1>3, <2>1 DEF top
  <2>4. AcceptedIsComplete'
    <3> HIDE DEF m
    <3> QED BY <2>1, <2>2, <2>3 DEF AcceptedIsComplete
  <2>5. BufOK' /\ StackOK(stack, Len(buf))'
    BY <2>1 DEF IndInv, BufOK
  <2>6. SkipOK'
    BY <2>1 DEF IndInv, SkipOK, top
  <2> QED BY <2>1, <2>4, <2>5, <2>6 DEF IndInv, Consumes
<1>4. CASE hasFields /\ z # 1
  <2> DEFINE up == stack[z - 1]
             a == assign(up, up.msg, top.slot, m)
  <2>1. /\ stack' = Append(SubSeq(stack, 1, Len(stack) - 2), a)
        /\ UNCHANGED <<buf, skip, status, result>>
    BY <1>4 DEF Return
  <2>2. z \in 1 .. 3 /\ isSeq(stack)
    BY Basics
  <2>3. stack' = returned(stack, z - 2, a)
    BY <2>1 DEF returned
  <2>4. Embedded(up, top)
    <3>1. z \in 2 .. z
      <4> HIDE DEF z
      <4> QED BY <1>4, <2>2
    <3> QED BY <3>1 DEF IndInv, StackOK, top
  <2>5. /\ FrameOK(a, Len(buf)) /\ LevelOK(z - 1, a)
        /\ a.msg = up.msg /\ a.base = up.base /\ a.l = up.l /\ a.iNdEx = up.iNdEx
        /\ a.slot = up.slot
    <3>1. z \in 2 .. 3
      <4> HIDE DEF z
      <4> QED BY <1>4, <2>2
    <3> HIDE DEF a, m, up
    <3>2. m.f = top.f
      BY DEF m
    <3>3. up = stack[Len(stack) - 1] /\ a = assign(up, up.msg, top.slot, m)
      BY DEF up, a
    <3> QED BY <1>4, <3>1, <3>2, <3>3, ReturnToCaller
  <2> HIDE DEF a, m
  <2>6. /\ isSeq(stack') /\ Len(stack') = z - 1 /\ stack'[z - 1] = a
        /\ \A k \in 1 .. (z - 2) : stack'[k] = stack[k]
    <3>1. z - 2 \in 0 .. z /\ z \in Nat /\ z - 2 + 1 = z - 1
      <4> HIDE DEF z
      <4> QED BY <1>4, <2>2
    <3> DEFINE d == z - 2
    <3>2. d \in 0 .. Len(stack) /\ Len(stack) \in Nat /\ stack' = returned(stack, d, a)
      BY <2>3, <3>1
    <3> HIDE DEF d
    <3>3. /\ isSeq(stack') /\ Len(stack') = d + 1 /\ stack'[d + 1] = a
          /\ \A k \in 1 .. d : stack'[k] = stack[k]
      BY <2>2, <3>2, Popped
    <3> QED BY <3>1, <3>3 DEF d
  <2>7. z \in 2 .. 3
    <3> HIDE DEF z
    <3> QED BY <1>4, <2>2
  <2>8. ASSUME NEW k \in 1 .. Len(stack')
        PROVE  FrameOK(stack'[k], Len(buf)) /\ LevelOK(k, stack'[k])
    <3>1. k \in 1 .. (z - 2) \/ k = z - 1
      <4> HIDE DEF z
      <4> QED BY <2>6, <2>7
    <3>2. CASE k = z - 1
      BY <2>5, <2>6, <3>2
    <3>3. CASE k \in 1 .. (z - 2)
      <4>1. k \in 1 .. z
        <5> HIDE DEF z
        <5> QED BY <2>7, <3>3
      <4> QED BY <2>6, <3>3, <4>1 DEF IndInv, StackOK
    <3> QED BY <3>1, <3>2, <3>3
  <2>9. ASSUME NEW k \in 2 .. Len(stack') PROVE Embedded(stack'[k - 1], stack'[k])
    <3>1. k = 2 /\ z = 3 /\ k - 1 = 1 /\ z - 1 = 2 /\ 1 \in 1 .. (z - 2)
      <4> HIDE DEF z
      <4> QED BY <2>6, <2>7
    <3>2. stack'[1] = stack[1] /\ stack'[2] = a /\ up = stack[2]
      BY <2>6, <3>1
    <3>3. Embedded(stack[1], up)
      BY <3>1, <3>2 DEF IndInv, StackOK
    <3> QED BY <2>5, <3>1, <3>2, <3>3 DEF Embedded
  <2>10. StackOK(stack', Len(buf))
    <3>1. Len(stack') \in 1 .. 3
      <4> HIDE DEF z
      <4> QED BY <2>6, <2>7
    <3> QED BY <2>6, <2>8, <2>9, <3>1 DEF StackOK
  <2>11. (top.base + top.iNdEx)' = top.base + top.iNdEx
    <3>1. top' = a
      BY <2>6 DEF top
    <3>2. top.base + top.l = up.base + up.iNdEx /\ top.l = top.iNdEx
      BY <1>1, <2>4, Basics DEF Embedded
    <3> QED BY <2>5, <3>1, <3>2
  <2>12. 4 * (Len(buf) - (top.base + top.iNdEx)') + Len(stack') + 1 < remaining
    <3>1. /\ top.base + top.iNdEx \in Int /\ z - 1 \in Int
          /\ 4 * (top.base + top.iNdEx) - (z - 1) > 4 * (top.base + top.iNdEx) - z
      <4>1. top.base + top.iNdEx \in Int
        BY Basics
      <4> HIDE DEF z
      <4> QED BY <2>7, <4>1
    <3> QED BY <1>1, <2>6, <2>11, <3>1, Measure
  <2> QED BY <1>1, <2>1, <2>10, <2>12, GoesOn
<1> QED BY <1>2, <1>3, <1>4

(***************************************************************************)
(* A field that is not in the table.                                       *)
(***************************************************************************)
LEMMA StartSkipStep ==
    ASSUME IndInv, StartSkip
    PROVE  IndInv' /\ Consumes
<1>1. /\ status = "run" /\ ~skip.on /\ top.iNdEx < top.l
      /\ skip' = [on |-> TRUE, pre |-> top.iNdEx, iNdEx |-> 0, depth |-> 0]
      /\ UNCHANGED <<buf, stack, status, result>>
  BY DEF StartSkip, GoodTag, Looping
<1>2. top' = top /\ BufOK' /\ StackOK(stack, Len(buf))' /\ AcceptedIsComplete'
  BY <1>1 DEF IndInv, BufOK, AcceptedIsComplete, top
<1>3. /\ top.iNdEx \in Nat /\ top.l \in Nat /\ top.base \in Nat
      /\ Len(stack) \in Int /\ Len(buf) \in Int
  BY Basics
<1>4. SkipOK'
  BY <1>1, <1>2, <1>3 DEF SkipOK
<1>5. position' = top.base + top.iNdEx /\ position = top.base + top.iNdEx
  BY <1>1, <1>2, <1>3 DEF position
<1>6. remaining' < remaining
  BY <1>1, <1>3, <1>5 DEF remaining
<1> QED BY <1>1, <1>2, <1>4, <1>6 DEF IndInv, Consumes

(***************************************************************************)
(* The measure of a read that is in skipP2Pd.                              *)
(***************************************************************************)
LEMMA SkipMeasure ==
    ASSUME IndInv, skip.on
    PROVE  remaining = 4 * (Len(buf) - (top.base + (skip.pre + skip.iNdEx))) + Len(stack)
<1>1. position = top.base + (skip.pre + skip.iNdEx)
  BY DEF position
<1>2. remaining = 4 * (Len(buf) - position) + Len(stack) + 0
  BY DEF remaining
<1>3. Len(stack) \in Int /\ Len(buf) \in Int /\ position \in Int
  BY <1>1, Basics DEF IndInv, SkipOK
<1> QED BY <1>1, <1>2, <1>3

(***************************************************************************)
(* skipP2Pd returns: its caller goes on behind what it has passed.         *)
(***************************************************************************)
skipped(i) == [top EXCEPT !.unk = @ \o SubSeq(buf, top.base + skip.pre + 1, top.base + i),
                          !.iNdEx = i]

LEMMA SkippedFrame ==
    ASSUME IsFrame(top), NEW i
    PROVE  /\ IsFrame(skipped(i)) /\ skipped(i).iNdEx = i /\ skipped(i).msg = top.msg
           /\ skipped(i).base = top.base /\ skipped(i).l = top.l /\ skipped(i).f = top.f
           /\ skipped(i).has = top.has /\ skipped(i).slot = top.slot
<1> DEFINE u == top.unk \o SubSeq(buf, top.base + skip.pre + 1, top.base + i)
           e == [top EXCEPT !.unk = u]
<1>1. skipped(i) = [e EXCEPT !.iNdEx = i]
  BY DEF skipped
<1> HIDE DEF u
<1>2. e = [msg |-> top.msg, base |-> top.base, l |-> top.l, iNdEx |-> top.iNdEx,
           f |-> top.f, unk |-> u, has |-> top.has, slot |-> top.slot]
  BY DEF IsFrame
<1> HIDE DEF e
<1>3. skipped(i) = [msg |-> top.msg, base |-> top.base, l |-> top.l, iNdEx |-> i,
                    f |-> top.f, unk |-> u, has |-> top.has, slot |-> top.slot]
  BY <1>1, <1>2
<1> QED BY <1>3 DEF IsFrame

(***************************************************************************)
(* The caller of skipP2Pd checks the sum of the two indexes before it      *)
(* slices.                                                                 *)
(***************************************************************************)
LEMMA SkipReturnsStep ==
    ASSUME IndInv, status = "run", skip.on, NEW n \in 0 .. MaxInt, n > skip.iNdEx,
           SkipReturns(n)
    PROVE  IndInv' /\ Consumes
<1> DEFINE post == wrap(skip.pre + n)
<1>1. CASE post < 0 \/ post > top.l
  <2>1. Fail
    BY <1>1 DEF SkipReturns
  <2> QED BY <2>1, FailStep
<1>2. CASE ~(post < 0 \/ post > top.l)
  <2> DEFINE fr == skipped(post)
  <2>1. stack' = setTop(fr) /\ skip' = noSkip /\ UNCHANGED <<buf, status, result>>
    BY <1>2 DEF SkipReturns, skipped
  <2>2. /\ skip.pre \in Nat /\ skip.iNdEx \in Nat /\ skip.pre = top.iNdEx
        /\ skip.pre + skip.iNdEx < top.l
    BY DEF IndInv, SkipOK
  <2>3. skip.pre \in 0 .. MaxInt
    BY <2>2, Basics, BoundsAssumption
  <2>4. post \in Int /\ post = skip.pre + n
    <3>1. post \in Int /\ (post >= 0 => post = skip.pre + n)
      BY <2>3, Overflow
    <3> HIDE DEF post
    <3> QED BY <1>2, <3>1
  <2> HIDE DEF post
  <2>5. post \in 0 .. top.l /\ post > skip.pre + skip.iNdEx
    <3>1. \A p, i, j, q, y \in Int :
            /\ q = p + j /\ j > i /\ p >= 0 /\ i >= 0 /\ ~(q < 0 \/ q > y)
            => q \in 0 .. y /\ q > p + i
      OBVIOUS
    <3>2. /\ skip.pre \in Int /\ skip.iNdEx \in Int /\ n \in Int /\ top.l \in Int
          /\ skip.pre >= 0 /\ skip.iNdEx >= 0
      BY <2>2, Basics, BoundsAssumption
    <3> QED BY <1>2, <2>4, <3>1, <3>2
  <2>6. /\ IsFrame(fr) /\ fr.iNdEx = post /\ fr.msg = top.msg /\ fr.base = top.base
        /\ fr.l = top.l /\ fr.f = top.f /\ fr.has = top.has /\ fr.slot = top.slot
    BY Basics, SkippedFrame
  <2> HIDE DEF fr
  <2>7. FrameOK(fr, Len(buf)) /\ KeepsInside(top.msg, top, fr)
    <3>1. Shape0(top.msg, fr)
      BY <2>6, Basics DEF Shape0, oneMember
    <3>2. \A k \in fr.has \cap Fields(fr.msg) :
            Schema[fr.msg][k].label = "required" => fr.f[k] # <<>>
      BY <2>6, Basics DEF FrameOK
    <3>3. KeepsInside(top.msg, top, fr)
      BY <2>6 DEF KeepsInside
    <3> QED BY <2>5, <2>6, <3>1, <3>2, <3>3, Basics DEF FrameOK
  <2>8. StackOK(stack', Len(buf)) /\ Len(stack') = Len(stack) /\ stack'[Len(stack)] = fr
    BY <2>1, <2>6, <2>7, TopKept
  <2>9. (top.base + top.iNdEx)' = top.base + post
    BY <2>6, <2>8 DEF top
  <2>10. 4 * (Len(buf) - (top.base + top.iNdEx)') + Len(stack') + 1 < remaining
    <3>1. remaining = 4 * (Len(buf) - (top.base + (skip.pre + skip.iNdEx))) + Len(stack)
      BY SkipMeasure
    <3>2. /\ top.base \in Int /\ Len(buf) \in Int /\ Len(stack) \in Int /\ post \in Int
          /\ skip.pre + skip.iNdEx \in Int
      BY <2>2, <2>4, Basics
    <3>3. 4 * (Len(buf) - (top.base + post)) + Len(stack) + 1
            < 4 * (Len(buf) - (top.base + (skip.pre + skip.iNdEx))) + Len(stack)
      BY <2>5, <3>2
    <3> QED BY <2>8, <2>9, <3>1, <3>3
  <2>11. ~skip'.on
    BY <2>1 DEF noSkip
  <2> QED BY <2>1, <2>8, <2>10, <2>11, GoesOn
<1> QED BY <1>1, <1>2

(***************************************************************************)
(* A turn of the loop of skipP2Pd: the index goes up, since a sum that     *)
(* overflows is refused.                                                   *)
(***************************************************************************)
LEMMA SkipStepKeeps ==
    ASSUME IndInv, SkipStep
    PROVE  IndInv' /\ Consumes
<1> DEFINE base == top.base + skip.pre
           l == top.l - skip.pre
           t == readVarint(base, l, skip.iNdEx)
           v == readVarint(base, l, t.next)
           wt == t.val % 8
           depth == skip.depth + (CASE wt = 3 -> 1 [] wt = 4 -> -1 [] OTHER -> 0)
           next == CASE wt = 0 -> v.next
                     [] wt = 1 -> wrap(t.next + 8)
                     [] wt = 2 -> wrap(v.next + v.val)
                     [] wt = 5 -> wrap(t.next + 4)
                     [] OTHER -> t.next
           bad == \/ ~t.ok
                  \/ wt \in {0, 2} /\ ~v.ok
                  \/ wt = 2 /\ v.val < 0
                  \/ wt \in {6, 7}
                  \/ depth < 0
                  \/ next < 0
<1>1. status = "run" /\ skip.on
  BY DEF SkipStep
<1>2. (CASE bad -> Fail
         [] ~bad /\ depth = 0 -> SkipReturns(next)
         [] ~bad /\ depth > 0 /\ next >= l -> Fail
         [] OTHER -> /\ skip' = [skip EXCEPT !.iNdEx = next, !.depth = depth]
                     /\ UNCHANGED <<buf, stack, status, result>>)
  BY DEF SkipStep
<1>3. /\ skip.pre \in Nat /\ skip.iNdEx \in Nat /\ skip.depth \in Nat
      /\ skip.pre = top.iNdEx /\ skip.pre + skip.iNdEx < top.l
      /\ skip \in [on : BOOLEAN, pre : Nat, iNdEx : Nat, depth : Nat]
  BY <1>1 DEF IndInv, SkipOK
<1>4. base \in Nat /\ l \in Nat /\ l <= MaxInt /\ base + l <= Len(buf) /\ BufOK
  BY <1>3, Basics, BoundsAssumption
<1> HIDE DEF base, l, t, v, wt, depth, next, bad
<1>5. CASE bad
  <2>1. Fail
    BY <1>2, <1>5
  <2> QED BY <2>1, FailStep
<1>6. CASE ~bad
  <2>1. /\ t.ok /\ (wt \in {0, 2} => v.ok) /\ (wt = 2 => ~(v.val < 0)) /\ wt \notin {6, 7}
        /\ ~(depth < 0) /\ ~(next < 0)
    BY <1>6 DEF bad
  <2>2. t.val \in Int /\ t.next \in (skip.iNdEx + 1) .. l
    BY <1>3, <1>4, <2>1, VarintFacts DEF t
  <2>3. t.next \in Nat /\ t.next > skip.iNdEx /\ t.next \in 0 .. MaxInt
    BY <1>3, <1>4, <2>2, BoundsAssumption
  <2>4. wt \in 0 .. 7 /\ depth \in Int
    BY <1>3, <2>2 DEF wt, depth
  <2>5. next \in 0 .. MaxInt /\ next > skip.iNdEx
    <3>1. CASE wt = 0
      <4>1. v.ok
        BY <2>1, <3>1
      <4>2. v.next \in (t.next + 1) .. l
        BY <1>4, <2>3, <4>1, VarintFacts DEF v
      <4>3. next = v.next
        BY <3>1 DEF next
      <4> QED BY <1>3, <1>4, <2>3, <4>2, <4>3, BoundsAssumption
    <3>2. CASE wt = 1
      <4>1. next = wrap(t.next + 8)
        BY <3>2 DEF next
      <4>2. 8 \in 0 .. MaxInt
        BY BoundsAssumption
      <4>3. next \in Int /\ next <= MaxInt /\ (next >= 0 => next = t.next + 8)
        BY <2>3, <4>1, <4>2, Overflow
      <4> QED BY <1>3, <2>1, <2>3, <4>3, BoundsAssumption
    <3>3. CASE wt = 2
      <4>1. v.ok /\ ~(v.val < 0)
        BY <2>1, <3>3
      <4>2. v.val \in Int /\ v.val <= MaxInt /\ v.next \in (t.next + 1) .. l
        BY <1>4, <2>3, <4>1, VarintFacts DEF v
      <4>3. next = wrap(v.next + v.val)
        BY <3>3 DEF next
      <4>4. v.val \in 0 .. MaxInt /\ v.next \in 0 .. MaxInt
        BY <1>4, <2>3, <4>1, <4>2, BoundsAssumption
      <4>5. next \in Int /\ next <= MaxInt /\ (next >= 0 => next = v.next + v.val)
        BY <4>3, <4>4, Overflow
      <4> QED BY <1>3, <2>1, <2>3, <4>2, <4>4, <4>5, BoundsAssumption
    <3>4. CASE wt = 5
      <4>1. next = wrap(t.next + 4)
        BY <3>4 DEF next
      <4>2. 4 \in 0 .. MaxInt
        BY BoundsAssumption
      <4>3. next \in Int /\ next <= MaxInt /\ (next >= 0 => next = t.next + 4)
        BY <2>3, <4>1, <4>2, Overflow
      <4> QED BY <1>3, <2>1, <2>3, <4>3, BoundsAssumption
    <3>5. CASE wt \in {3, 4}
      <4>1. next = t.next
        BY <3>5 DEF next
      <4> QED BY <2>3, <4>1
    <3> QED BY <2>1, <2>4, <3>1, <3>2, <3>3, <3>4, <3>5
  <2>6. CASE depth = 0
    <3>1. SkipReturns(next)
      BY <1>2, <1>6, <2>6
    <3> QED BY <1>1, <2>5, <3>1, SkipReturnsStep
  <2>7. CASE depth # 0 /\ next >= l
    <3>1. Fail
      BY <1>2, <1>6, <2>1, <2>4, <2>7
    <3> QED BY <3>1, FailStep
  <2>8. CASE depth # 0 /\ ~(next >= l)
    <3>1. /\ skip' = [skip EXCEPT !.iNdEx = next, !.depth = depth]
          /\ UNCHANGED <<buf, stack, status, result>>
      BY <1>2, <1>6, <2>8
    <3>2. top' = top /\ BufOK' /\ StackOK(stack, Len(buf))' /\ AcceptedIsComplete'
      BY <3>1 DEF IndInv, BufOK, AcceptedIsComplete, top
    <3>3. depth \in Nat /\ next \in Nat /\ skip.pre + next < top.l
      BY <1>3, <2>1, <2>4, <2>5, <2>8, Basics DEF l
    <3>4. /\ skip' \in [on : BOOLEAN, pre : Nat, iNdEx : Nat, depth : Nat]
          /\ skip'.on = skip.on /\ skip'.pre = skip.pre /\ skip'.iNdEx = next
      BY <1>3, <3>1, <3>3
    <3>5. SkipOK'
      BY <1>3, <3>2, <3>3, <3>4 DEF SkipOK
    <3>6. /\ remaining = 4 * (Len(buf) - (top.base + (skip.pre + skip.iNdEx))) + Len(stack)
          /\ remaining' = 4 * (Len(buf) - (top.base + (skip.pre + next))) + Len(stack)
      <4>1. /\ position' = top.base + (skip.pre + next)
            /\ remaining' = 4 * (Len(buf) - position') + Len(stack) + 0
        BY <1>1, <3>1, <3>2, <3>4 DEF remaining, position
      <4>2. /\ Len(stack) \in Int /\ Len(buf) \in Int /\ top.base \in Int
            /\ skip.pre \in Int /\ next \in Int
        BY <1>3, <3>3, Basics
      <4> QED BY <1>1, <4>1, <4>2, SkipMeasure
    <3>7. /\ top.base \in Int /\ Len(buf) \in Int /\ Len(stack) \in Int /\ next \in Int
          /\ skip.pre \in Int /\ skip.iNdEx \in Int /\ next > skip.iNdEx
      BY <1>3, <2>5, <3>3, Basics
    <3>8. 4 * (Len(buf) - (top.base + (skip.pre + next))) + Len(stack)
            < 4 * (Len(buf) - (top.base + (skip.pre + skip.iNdEx))) + Len(stack)
      <4>1. \A b, c, p, i, j, z \in Int :
              j > i => 4 * (c - (b + (p + j))) + z < 4 * (c - (b + (p + i))) + z
        OBVIOUS
      <4> QED BY <3>7, <4>1
    <3> QED BY <3>1, <3>2, <3>5, <3>6, <3>8 DEF IndInv, Consumes
  <2> QED BY <2>6, <2>7, <2>8
<1> QED BY <1>5, <1>6

(***************************************************************************)
(* The invariant holds before the first step.                              *)
(***************************************************************************)
LEMMA InitIndInv ==
    ASSUME Init
    PROVE  IndInv
<1>1. PICK in \in Inputs :
        /\ buf = in.buf
        /\ stack = <<Frame(in.msg, 0, Len(in.buf), Empty(in.msg), 0)>>
  BY DEF Init
<1>2. skip = noSkip /\ status = "run"
  BY DEF Init
<1>3. in.msg \in Messages /\ buf \in Seq(Cells) /\ Len(buf) <= MaxInt
  BY <1>1, InputsAssumption
<1> DEFINE fr == Frame(in.msg, 0, Len(buf), Empty(in.msg), 0)
<1>4. stack = <<fr>>
  BY <1>1
<1>5. /\ fr = [msg |-> in.msg, base |-> 0, l |-> Len(buf), iNdEx |-> 0,
               f |-> Empty(in.msg).f, unk |-> Empty(in.msg).unk, has |-> {}, slot |-> 0]
      /\ IsFrame(fr)
  BY DEF Frame, IsFrame
<1> HIDE DEF fr
<1>6. Shape0(in.msg, Empty(in.msg)) /\ \A n \in Fields(in.msg) : fr.f[n] = <<>>
  BY <1>5, EmptyShape DEF Empty
<1>7. Shape0(fr.msg, fr)
  BY <1>5, <1>6 DEF Shape0, oneMember
<1>8. Shape2(fr.msg, fr)
  <2>1. \A i : i \notin 1 .. Len(<<>>)
    OBVIOUS
  <2> QED BY <1>5, <1>6, <1>7, <2>1 DEF Shape2
<1>9. FrameOK(fr, Len(buf))
  <2>1. Len(buf) \in Nat
    BY <1>3
  <2>2. /\ fr.base = 0 /\ fr.l = Len(buf) /\ fr.iNdEx = 0 /\ fr.has = {}
        /\ fr.msg \in Messages
    BY <1>3, <1>5
  <2> QED BY <1>5, <1>7, <2>1, <2>2 DEF FrameOK
<1>10. isSeq(stack) /\ Len(stack) = 1 /\ stack[1] = fr
  BY <1>4, ShortSeqs
<1>11. StackOK(stack, Len(buf))
  BY <1>8, <1>9, <1>10 DEF StackOK, LevelOK
<1> QED BY <1>2, <1>3, <1>11 DEF IndInv, BufOK, SkipOK, noSkip, AcceptedIsComplete

(***************************************************************************)
(* Every step keeps the invariant and lowers the measure.                  *)
(***************************************************************************)
LEMMA Step ==
    ASSUME IndInv, Unmarshal
    PROVE  IndInv' /\ Consumes
<1>1. CASE BadTag \/ WrongWireType
  <2>1. Fail
    BY <1>1 DEF BadTag, WrongWireType
  <2> QED BY <2>1, FailStep
<1>2. CASE VarintField
  BY <1>2, VarintStep
<1>3. CASE BytesField
  BY <1>3, BytesStep
<1>4. CASE MessageField
  BY <1>4, MessageStep
<1>5. CASE StartSkip
  BY <1>5, StartSkipStep
<1>6. CASE SkipStep
  BY <1>6, SkipStepKeeps
<1>7. CASE Return
  BY <1>7, ReturnStep
<1> QED BY <1>1, <1>2, <1>3, <1>4, <1>5, <1>6, <1>7 DEF Unmarshal

(***************************************************************************)
(* A step that changes nothing keeps the invariant.                        *)
(***************************************************************************)
LEMMA Stutters ==
    ASSUME IndInv, UNCHANGED vars
    PROVE  IndInv'
<1>1. BufOK' /\ StackOK(stack, Len(buf))' /\ AcceptedIsComplete'
  BY DEF IndInv, BufOK, AcceptedIsComplete, vars
<1>2. SkipOK'
  BY DEF IndInv, SkipOK, top, vars
<1> QED BY <1>1, <1>2 DEF IndInv, vars

(***************************************************************************)
(* The invariant implies what the run checks.                              *)
(***************************************************************************)
LEMMA Reads ==
    ASSUME IndInv
    PROVE  ReadInv
<1>1. Len(stack) \in 1 .. 3 /\ \A k \in 1 .. Len(stack) : FrameOK(stack[k], Len(buf))
  BY DEF IndInv, StackOK
<1>2. OneofIsOne
  BY <1>1 DEF OneofIsOne, FrameOK, Shape0, oneMember
<1>3. ASSUME NEW k \in 1 .. Len(stack), k > 1
      PROVE  /\ stack[k].base >= stack[k - 1].base
             /\ stack[k].base + stack[k].l <= stack[k - 1].base + stack[k - 1].l
  <2>1. k \in 2 .. Len(stack) /\ k - 1 \in 1 .. Len(stack)
    BY <1>1, <1>3
  <2>2. /\ Embedded(stack[k - 1], stack[k])
        /\ FrameOK(stack[k - 1], Len(buf)) /\ FrameOK(stack[k], Len(buf))
    BY <1>1, <2>1 DEF IndInv, StackOK
  <2> QED BY <2>2 DEF Embedded, FrameOK
<1>4. \A k \in 1 .. Len(stack) :
        /\ stack[k].msg \in Messages
        /\ DOMAIN stack[k].f = Fields(stack[k].msg)
        /\ stack[k].iNdEx \in 0 .. stack[k].l
        /\ stack[k].base + stack[k].l <= Len(buf)
  BY <1>1 DEF FrameOK, Shape0
<1>5. (skip.on => skip.iNdEx \in 0 .. (top.l - skip.pre)) /\ skip.depth >= 0
  BY Basics DEF IndInv, SkipOK
<1>6. status \in {"run", "ok", "err"}
  BY DEF IndInv
<1>7. TypeOK
  BY <1>1, <1>3, <1>4, <1>5, <1>6 DEF TypeOK
<1> QED BY <1>2, <1>6, <1>7 DEF ReadInv, NoPanic

(***************************************************************************)
(* The inductive invariant.                                                *)
(***************************************************************************)
THEOREM Invariance == Spec => []IndInv
<1>1. Init => IndInv
  BY InitIndInv
<1>2. IndInv /\ [Unmarshal]_vars => IndInv'
  BY Step, Stutters
<1> QED BY <1>1, <1>2, PTL DEF Spec

(***************************************************************************)
(* Whatever the buffer and the message it is read as, the indexes of       *)
(* Unmarshal and skipP2Pd stay in their slices, no slice expression        *)
(* panics, and a oneof never has two members.                              *)
(***************************************************************************)
THEOREM ReadSafe == Spec => []ReadInv
<1>1. IndInv => ReadInv
  BY Reads
<1> QED BY <1>1, Invariance, PTL

(***************************************************************************)
(* Whatever the buffer, a message Unmarshal accepts has every required     *)
(* field, at every depth.                                                  *)
(***************************************************************************)
THEOREM AcceptedSafe == Spec => []AcceptedIsComplete
<1>1. IndInv => AcceptedIsComplete
  BY DEF IndInv
<1> QED BY <1>1, Invariance, PTL

(***************************************************************************)
(* Whatever the buffer, every step of Unmarshal and of skipP2Pd that does  *)
(* not end the read lowers the measure: no buffer makes them loop.         *)
(***************************************************************************)
THEOREM ConsumesSafe == Spec => EveryStepConsumes
<1>1. IndInv /\ [Unmarshal]_vars =>
        [status = "run" /\ status' = "run" => remaining' < remaining]_vars
  BY Step DEF Consumes
<1> QED BY <1>1, Invariance, PTL DEF Spec, EveryStepConsumes

(***************************************************************************)
(* The measure is a natural number, so a read has finitely many steps: as  *)
(* many as its first state has cells to read, four times over, plus two.   *)
(***************************************************************************)
THEOREM MeasureSafe == Spec => [](remaining \in Nat)
<1>1. ASSUME IndInv PROVE remaining \in Nat
  <2>1. /\ top.base \in Nat /\ top.iNdEx \in Nat /\ top.l \in Nat /\ Len(buf) \in Nat
        /\ top.iNdEx <= top.l /\ top.base + top.l <= Len(buf)
    BY <1>1, Basics
  <2>2. Len(stack) \in Nat
    BY <1>1, Basics
  <2>3. CASE skip.on
    <3>1. /\ skip.pre \in Nat /\ skip.iNdEx \in Nat
          /\ skip.pre + skip.iNdEx < top.l
      BY <1>1, <2>3 DEF IndInv, SkipOK
    <3>2. Len(buf) - (top.base + (skip.pre + skip.iNdEx)) \in Nat
      BY <2>1, <3>1
    <3> QED BY <1>1, <2>2, <2>3, <3>2, SkipMeasure
  <2>4. CASE ~skip.on
    <3>1. Len(buf) - (top.base + top.iNdEx) \in Nat
      BY <2>1
    <3>2. remaining = 4 * (Len(buf) - (top.base + top.iNdEx)) + Len(stack) + 1
      BY <2>4 DEF remaining, position
    <3> QED BY <2>2, <3>1, <3>2
  <2> QED BY <2>3, <2>4
<1> QED BY <1>1, Invariance, PTL
=============================================================================
