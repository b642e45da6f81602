----------------------- MODULE ClientRequestsProofs ------------------------
(***************************************************************************)
(* The safety properties of ClientRequests, proved for any number of       *)
(* streamed values, whichever of them parse, and any capacity of the       *)
(* caller's channel.                                                       *)
(***************************************************************************)
EXTENDS ClientRequests, TLAPS

(***************************************************************************)
(* What the daemon sent behind the first k cells of the wire: the values   *)
(* the reader has not read, and then the END it sent, if it did.           *)
(***************************************************************************)
Unread(k) ==
    /\ server.pc \in {"streaming", "done"}
    /\ kind = "subscribe" => server.pc = "streaming"
    /\ Len(wire) = k + (server.n - reader.v) + (IF server.pc = "done" THEN 1 ELSE 0)
    /\ \A i \in 1 .. (server.n - reader.v) : wire[k + i] = reader.v + i
    /\ server.pc = "done" => wire[Len(wire)] = END

Active == {"checking", "reading", "offering"}

(***************************************************************************)
(* The order of the call: an answer comes after the request, and the       *)
(* goroutines after the first answer.                                      *)
(***************************************************************************)
CallOrder ==
    /\ api.pc \in {"start", "dialed"} => server.pc = "idle"
    /\ server.pc \in {"idle", "asked"} => wire = <<>> /\ server.n = 0
    /\ api.pc = "returned" <=> api.outcome # "none"
    /\ api.pc \in {"dialed", "reading"} => control = "open"
    /\ reader.pc # "none" <=> api.outcome = "ok" /\ kind \in streaming
    /\ conv.pc # "none" <=> reader.pc # "none" /\ kind = "dht"
    /\ caller.pc # "waiting" <=> reader.pc # "none"
    /\ reader.pc = "none" => reader.v = 0
    /\ kind # "dht" => bad = {} /\ buffer = <<>> /\ reader.pc # "checking"

(***************************************************************************)
(* What is on the wire: the answer and, once it is read, the values the    *)
(* reader has yet to read.                                                 *)
(***************************************************************************)
WireOK ==
    /\ /\ api.pc = "reading" /\ kind \in streaming
       /\ server.pc \in {"streaming", "done"}
       => \/ wire = <<"error">> /\ server.pc = "done"
          \/ wire # <<>> /\ Head(wire) \in {"ok", "other"} /\ Unread(1)
    /\ reader.pc \in Active => Unread(0)

(***************************************************************************)
(* The values a reader has handed on are, in order, with the caller, in    *)
(* its channel or with the converter.                                      *)
(***************************************************************************)
passed == IF reader.pc = "offering" THEN reader.v - 1 ELSE reader.v

converting == IF conv.pc = "offering" THEN {conv.v} ELSE {}

Flow ==
    /\ reader.v <= server.n
    /\ reader.pc = "offering" => reader.v >= 1
    /\ valuesOf(caller.got) \cup valuesOf(buffer) \cup converting = (1 .. passed) \ bad
    /\ increasing(caller.got) /\ increasing(buffer)
    /\ \A x \in valuesOf(caller.got) : \A y \in valuesOf(buffer) \cup converting : x < y
    /\ \A x \in valuesOf(buffer) : \A y \in converting : x < y

(***************************************************************************)
(* Who ends first: the reader, for a reason, then the converter, then the  *)
(* caller.                                                                 *)
(***************************************************************************)
EndOrder ==
    /\ reader.pc = "done" =>
         /\ control = "closed"
         /\ \/ expired \/ server.gone
            \/ kind = "dht" /\ server.pc = "done" /\ reader.v = server.n
    /\ reader.pc \in Active => control = "open" \/ expired
    /\ kind = "dht" /\ reader.pc \in Active => control = "open"
    /\ conv.pc = "done" => reader.pc = "done"
    /\ caller.pc = "ended" =>
         IF kind = "dht" THEN buffer = <<>> /\ conv.pc = "done" ELSE reader.pc = "done"

(***************************************************************************)
(* What is on the wire are answers and values; with the assumption on the  *)
(* constants at hand, this is the inductive invariant.                     *)
(***************************************************************************)
Cells == {"ok", "error", "other"} \cup Nat

Sizes == MaxValues \in Nat /\ Cap \in Nat

IndInv ==
    /\ Sizes
    /\ TypeOK
    /\ wire \in Seq(Cells)
    /\ CallOrder
    /\ WireOK
    /\ Flow
    /\ EndOrder
    /\ OpenForReader

-----------------------------------------------------------------------------
(***************************************************************************)
(* What a channel carries when a value is put into it.                     *)
(***************************************************************************)
LEMMA PutFacts ==
    ASSUME NEW M \in Nat, NEW s \in Seq(1 .. M), NEW x \in 1 .. M
    PROVE  /\ Append(s, x) \in Seq(1 .. M) /\ Len(Append(s, x)) = Len(s) + 1
           /\ valuesOf(Append(s, x)) = valuesOf(s) \cup {x}
           /\ increasing(s) /\ (\A y \in valuesOf(s) : y < x) => increasing(Append(s, x))
<1> DEFINE t == Append(s, x)
<1>1. /\ t \in Seq(1 .. M) /\ Len(t) = Len(s) + 1 /\ t[Len(s) + 1] = x
      /\ \A i \in 1 .. Len(s) : t[i] = s[i]
      /\ Len(s) \in Nat
  OBVIOUS
<1> HIDE DEF t
<1>2. \A i \in 1 .. Len(t) : i \in 1 .. Len(s) \/ i = Len(s) + 1
  BY <1>1
<1>3. valuesOf(t) = valuesOf(s) \cup {x}
  <2>1. \A y \in valuesOf(t) : y \in valuesOf(s) \cup {x}
    BY <1>1, <1>2 DEF valuesOf
  <2>2. \A y \in valuesOf(s) : y \in valuesOf(t)
    BY <1>1 DEF valuesOf
  <2>3. x \in valuesOf(t)
    BY <1>1 DEF valuesOf
  <2> QED BY <2>1, <2>2, <2>3
<1>4. ASSUME increasing(s), \A y \in valuesOf(s) : y < x PROVE increasing(t)
  <2>1. \A i \in 1 .. Len(s) : s[i] < x
    BY <1>4 DEF valuesOf
  <2> SUFFICES ASSUME NEW i \in 1 .. Len(t), NEW j \in 1 .. Len(t), i < j
               PROVE  t[i] < t[j]
    BY DEF increasing
  <2>2. i \in 1 .. Len(s) /\ t[i] = s[i]
    <3>1. i \in 1 .. Len(s)
      BY <1>1
    <3> QED BY <1>1, <3>1
  <2>3. CASE j \in 1 .. Len(s)
    BY <1>1, <1>4, <2>2, <2>3 DEF increasing
  <2>4. CASE j = Len(s) + 1
    BY <1>1, <2>1, <2>2, <2>4
  <2> QED BY <1>2, <2>3, <2>4
<1> QED BY <1>1, <1>3, <1>4 DEF t

(***************************************************************************)
(* What a channel carries when its first value is taken.                   *)
(***************************************************************************)
LEMMA TakeFacts ==
    ASSUME NEW M \in Nat, NEW s \in Seq(1 .. M), s # <<>>
    PROVE  /\ Head(s) \in 1 .. M
           /\ Tail(s) \in Seq(1 .. M) /\ Len(Tail(s)) = Len(s) - 1
           /\ valuesOf(s) = {Head(s)} \cup valuesOf(Tail(s))
           /\ increasing(s) => /\ increasing(Tail(s))
                               /\ \A y \in valuesOf(Tail(s)) : Head(s) < y
<1> DEFINE t == Tail(s)
<1>1. /\ t \in Seq(1 .. M) /\ Len(t) = Len(s) - 1 /\ Head(s) = s[1] /\ Head(s) \in 1 .. M
      /\ \A i \in 1 .. Len(t) : t[i] = s[i + 1] /\ i + 1 \in 1 .. Len(s)
      /\ Len(s) \in Nat \ {0} /\ 1 \in 1 .. Len(s)
  OBVIOUS
<1> HIDE DEF t
<1>2. \A i \in 1 .. Len(s) : i = 1 \/ (i - 1 \in 1 .. Len(t) /\ s[i] = t[i - 1])
  BY <1>1
<1>3. valuesOf(s) = {Head(s)} \cup valuesOf(t)
  <2>1. ASSUME NEW i \in 1 .. Len(s) PROVE s[i] \in {Head(s)} \cup valuesOf(t)
    <3>1. CASE i = 1 BY <1>1, <3>1
    <3>2. CASE i - 1 \in 1 .. Len(t) /\ s[i] = t[i - 1] BY <3>2 DEF valuesOf
    <3> QED BY <1>2, <3>1, <3>2
  <2>2. ASSUME NEW i \in 1 .. Len(t) PROVE t[i] \in valuesOf(s)
    <3>1. t[i] = s[i + 1] /\ i + 1 \in 1 .. Len(s)
      BY <1>1
    <3> QED BY <3>1 DEF valuesOf
  <2>3. Head(s) \in valuesOf(s)
    BY <1>1 DEF valuesOf
  <2> QED BY <2>1, <2>2, <2>3 DEF valuesOf
<1>4. ASSUME increasing(s)
      PROVE  increasing(t) /\ \A y \in valuesOf(t) : Head(s) < y
  <2>1. \A i, j \in 1 .. Len(s) : i < j => s[i] < s[j]
    BY <1>4 DEF increasing
  <2>2. ASSUME NEW i \in 1 .. Len(t), NEW j \in 1 .. Len(t), i < j PROVE t[i] < t[j]
    <3>1. t[i] = s[i + 1] /\ t[j] = s[j + 1] /\ i + 1 \in 1 .. Len(s) /\ j + 1 \in 1 .. Len(s)
      BY <1>1
    <3>2. i + 1 < j + 1 BY <2>2
    <3> QED BY <2>1, <3>1, <3>2
  <2>3. ASSUME NEW i \in 1 .. Len(t) PROVE Head(s) < t[i]
    <3>1. t[i] = s[i + 1] /\ i + 1 \in 1 .. Len(s) /\ 1 < i + 1
      BY <1>1
    <3> QED BY <1>1, <2>1, <3>1
  <2> QED BY <2>2, <2>3 DEF increasing, valuesOf
<1> QED BY <1>1, <1>3, <1>4 DEF t

(***************************************************************************)
(* The next cell for a running reader is the next value or the END.        *)
(***************************************************************************)
LEMMA NextCell ==
    ASSUME IndInv, reader.pc \in Active, wire # <<>>
    PROVE  \/ reader.v < server.n /\ Head(wire) = reader.v + 1 /\ Head(wire) # END
           \/ /\ reader.v = server.n /\ server.pc = "done"
              /\ Head(wire) = END /\ kind = "dht"
<1> USE DEF IndInv, TypeOK, Sizes
<1>1. Unread(0) BY DEF WireOK
<1>2. /\ Head(wire) = wire[1] /\ Len(wire) \in Nat \ {0}
      /\ server.n \in Nat /\ reader.v \in Nat /\ reader.v <= server.n
  BY DEF Flow
<1>3. CASE reader.v < server.n
  <2>1. 1 \in 1 .. (server.n - reader.v)
    BY <1>2, <1>3
  <2>2. wire[1] = reader.v + 1
    BY <1>1, <2>1 DEF Unread
  <2> QED BY <1>2, <1>3, <2>2 DEF END
<1>4. CASE reader.v = server.n
  <2>1. server.pc = "done" /\ Len(wire) = 1
    BY <1>1, <1>2, <1>4 DEF Unread
  <2>2. wire[1] = END
    BY <1>1, <2>1 DEF Unread
  <2>3. kind \in streaming
    BY DEF CallOrder, Active
  <2> QED BY <1>1, <1>2, <1>4, <2>1, <2>2, <2>3 DEF Unread, streaming
<1> QED BY <1>2, <1>3, <1>4

(***************************************************************************)
(* The values on their way are values of the daemon.                       *)
(***************************************************************************)
LEMMA OnTheWay ==
    ASSUME IndInv
    PROVE  /\ reader.pc = "offering" => reader.v \in Values
           /\ conv.pc = "offering" => conv.v \in Values
           /\ passed \in 0 .. server.n
           /\ \A x \in valuesOf(caller.got) \cup valuesOf(buffer) \cup converting :
                x \in 1 .. passed /\ x \notin bad
<1> USE DEF IndInv, TypeOK, Sizes, Values, Flow, passed, converting
<1>1. passed \in 0 .. server.n OBVIOUS
<1>2. \A x \in valuesOf(caller.got) \cup valuesOf(buffer) \cup converting :
        x \in 1 .. passed /\ x \notin bad
  OBVIOUS
<1>3. conv.pc = "offering" => conv.v \in 1 .. passed
  BY <1>2
<1> QED BY <1>1, <1>2, <1>3

(***************************************************************************)
(* Every step keeps the types.                                             *)
(***************************************************************************)
LEMMA TypeStep == IndInv /\ [Next]_vars => TypeOK' /\ wire' \in Seq(Cells)
<1> SUFFICES ASSUME IndInv, [Next]_vars PROVE TypeOK' /\ wire' \in Seq(Cells)
    OBVIOUS
<1>t. TypeOK /\ wire \in Seq(Cells) /\ Sizes
  BY DEF IndInv
<1>w. wire # <<>> => Tail(wire) \in Seq(Cells)
  BY <1>t
<1>a. \A x \in Cells : Append(wire, x) \in Seq(Cells)
  BY <1>t
<1>1. CASE Dial \/ WriteRequest \/ ReadFails
  <2>1. /\ api' \in [pc : {"start", "dialed", "reading", "returned"},
                     outcome : {"none", "ok", "err"}]
        /\ control' \in {"none", "open", "closed"}
    BY <1>t, <1>1 DEF Dial, WriteRequest, ReadFails, returns, TypeOK
  <2>2. server' \in [pc : {"idle", "asked", "streaming", "done"}, n : 0 .. MaxValues,
                     gone : BOOLEAN]
    BY <1>t, <1>1 DEF Dial, WriteRequest, ReadFails, TypeOK
  <2>3. UNCHANGED <<kind, bad, wire, reader, conv, buffer, caller, expired>>
    BY <1>1 DEF Dial, WriteRequest, ReadFails, goroutines
  <2> QED BY <1>t, <2>1, <2>2, <2>3 DEF TypeOK
<1>2. CASE ReadSimple \/ ReadRefusal
  <2>1. /\ wire' \in Seq(Cells) /\ control' \in {control, "closed"}
        /\ \E o \in {"ok", "err"} : api' = [pc |-> "returned", outcome |-> o]
        /\ UNCHANGED <<kind, bad, server, reader, conv, buffer, caller, expired>>
    BY <1>w, <1>2 DEF ReadSimple, ReadRefusal, returns, goroutines
  <2> QED BY <1>t, <2>1 DEF TypeOK
<1>3. CASE ReadBegin
  BY <1>t, <1>w, <1>3 DEF ReadBegin, returns, TypeOK
<1>4. CASE Expire \/ CloseOnDone
  BY <1>t, <1>4 DEF Expire, CloseOnDone, goroutines, TypeOK
<1>5. CASE CheckContext \/ ReadValueFails
  BY <1>t, <1>5 DEF CheckContext, ReadValueFails, readerEnds, TypeOK
<1>6. CASE ReadValue
  <2>1. Head(wire) # END => Head(wire) \in 0 .. MaxValues
    BY <1>6, <1>t, NextCell DEF ReadValue, Active, TypeOK, Sizes
  <2> QED BY <1>t, <1>w, <1>6, <2>1 DEF ReadValue, readerEnds, TypeOK
<1>7. CASE OfferToConverter
  <2>1. conv' \in [pc : {"none", "ranging", "offering", "done"}, v : 0 .. MaxValues]
    BY <1>t, <1>7 DEF OfferToConverter, TypeOK
  <2>2. reader' \in [pc : {"none", "checking", "reading", "offering", "done"},
                     v : 0 .. MaxValues]
    BY <1>t, <1>7 DEF OfferToConverter, afterOffer, TypeOK
  <2>3. UNCHANGED <<kind, bad, api, control, wire, server, buffer, caller, expired>>
    BY <1>7 DEF OfferToConverter
  <2> QED BY <1>t, <2>1, <2>2, <2>3 DEF TypeOK
<1>8. CASE OfferToCaller
  <2>1. Append(caller.got, reader.v) \in Seq(Values)
    BY <1>t, <1>8, OnTheWay, PutFacts DEF OfferToCaller, TypeOK, Values, Sizes
  <2>2. caller' \in [pc : {"waiting", "reading", "stopped", "ended"}, got : Seq(Values)]
    BY <1>t, <1>8, <2>1 DEF OfferToCaller, TypeOK
  <2>3. reader' \in [pc : {"none", "checking", "reading", "offering", "done"},
                     v : 0 .. MaxValues]
    BY <1>t, <1>8 DEF OfferToCaller, afterOffer, TypeOK
  <2>4. UNCHANGED <<kind, bad, api, control, wire, server, conv, buffer, expired>>
    BY <1>8 DEF OfferToCaller
  <2> QED BY <1>t, <2>2, <2>3, <2>4 DEF TypeOK
<1>9. CASE Convert
  <2>1. Append(buffer, conv.v) \in Seq(Values) /\ Len(Append(buffer, conv.v)) <= Cap
    BY <1>t, <1>9, OnTheWay, PutFacts DEF Convert, TypeOK, Values, Sizes
  <2> QED BY <1>t, <1>9, <2>1 DEF Convert, TypeOK
<1>10. CASE ConvertEnds
  BY <1>t, <1>10 DEF ConvertEnds, TypeOK
<1>11. CASE TakeValue
  <2>1. /\ Append(caller.got, Head(buffer)) \in Seq(Values)
        /\ Tail(buffer) \in Seq(Values) /\ Len(Tail(buffer)) <= Cap
    BY <1>t, <1>11, TakeFacts, PutFacts DEF TakeValue, TypeOK, Values, Sizes
  <2>2. caller' = [caller EXCEPT !.got = Append(caller.got, Head(buffer))]
    BY <1>11 DEF TakeValue
  <2>3. caller' \in [pc : {"waiting", "reading", "stopped", "ended"}, got : Seq(Values)]
    BY <1>t, <2>1, <2>2 DEF TypeOK
  <2> QED BY <1>t, <1>11, <2>1, <2>3 DEF TakeValue, TypeOK
<1>12. CASE TakeEnd \/ CallerStops
  BY <1>t, <1>12 DEF TakeEnd, CallerStops, TypeOK
<1>13. CASE Answer
  <2>1. wire' \in Seq(Cells)
    BY <1>a, <1>13 DEF Answer, Cells
  <2>2. server' \in [pc : {"idle", "asked", "streaming", "done"}, n : 0 .. MaxValues,
                     gone : BOOLEAN]
    BY <1>t, <1>13 DEF Answer, TypeOK
  <2>3. UNCHANGED <<kind, bad, api, control, reader, conv, buffer, caller, expired>>
    BY <1>13 DEF Answer, goroutines
  <2> QED BY <1>t, <2>1, <2>2, <2>3 DEF TypeOK
<1>14. CASE SendValue
  <2>1. server.n + 1 \in 0 .. MaxValues /\ server.n + 1 \in Cells
    BY <1>t, <1>14 DEF SendValue, TypeOK, Sizes, Cells
  <2>2. wire' \in Seq(Cells) /\ server' = [server EXCEPT !.n = server.n + 1]
    BY <1>a, <1>14, <2>1 DEF SendValue
  <2>3. server' \in [pc : {"idle", "asked", "streaming", "done"}, n : 0 .. MaxValues,
                     gone : BOOLEAN]
    BY <1>t, <2>1, <2>2 DEF TypeOK
  <2> QED BY <1>t, <1>14, <2>2, <2>3 DEF SendValue, goroutines, TypeOK
<1>15. CASE SendEnd \/ ServerGone
  <2>1. END \in Cells BY DEF END, Cells
  <2>2. wire' \in Seq(Cells)
    BY <1>t, <1>a, <1>15, <2>1 DEF SendEnd, ServerGone
  <2> QED BY <1>t, <1>15, <2>2 DEF SendEnd, ServerGone, goroutines, TypeOK
<1>16. CASE Rest \/ UNCHANGED vars
  BY <1>t, <1>16 DEF Rest, vars, TypeOK
<1> QED BY <1>1, <1>2, <1>3, <1>4, <1>5, <1>6, <1>7, <1>8, <1>9, <1>10, <1>11, <1>12,
           <1>13, <1>14, <1>15, <1>16 DEF Next, ApiStep, ReaderStep, ConvStep

(***************************************************************************)
(* The first answer to a streamed request, as the call reads it.           *)
(***************************************************************************)
LEMMA FirstAnswer ==
    ASSUME IndInv, api.pc = "reading", kind \in streaming, wire # <<>>
    PROVE  \/ Head(wire) = "error" /\ server.pc = "done"
           \/ Head(wire) \in {"ok", "other"} /\ Unread(1)
<1>1. server.pc \in {"streaming", "done"}
  BY DEF IndInv, TypeOK, CallOrder
<1>2. CASE wire = <<"error">> /\ server.pc = "done"
  BY <1>2
<1>3. CASE Head(wire) \in {"ok", "other"} /\ Unread(1)
  BY <1>3
<1> QED BY <1>1, <1>2, <1>3 DEF IndInv, WireOK

(***************************************************************************)
(* Every step keeps the order in which the call, the goroutines and the    *)
(* caller begin and end, and closes the connection with its reader.        *)
(***************************************************************************)
LEMMA OrderStep ==
    IndInv /\ [Next]_vars => CallOrder' /\ EndOrder' /\ OpenForReader'
<1> SUFFICES ASSUME IndInv, [Next]_vars PROVE CallOrder' /\ EndOrder' /\ OpenForReader'
    OBVIOUS
<1>o. TypeOK /\ CallOrder /\ EndOrder /\ OpenForReader
  BY DEF IndInv
<1> USE DEF CallOrder, EndOrder, OpenForReader, Active
<1>1. CASE Dial \/ WriteRequest \/ ReadFails
  BY <1>o, <1>1 DEF Dial, WriteRequest, ReadFails, returns, goroutines, TypeOK, streaming
<1>2. CASE ReadSimple
  BY <1>o, <1>2 DEF ReadSimple, returns, goroutines, TypeOK, streaming
<1>3. CASE ReadRefusal
  <2>1. kind = "subscribe" => server.pc = "done"
    BY <1>3, FirstAnswer DEF ReadRefusal
  <2> QED BY <1>o, <1>3, <2>1 DEF ReadRefusal, returns, goroutines, TypeOK, streaming
<1>4. CASE ReadBegin
  BY <1>o, <1>4 DEF ReadBegin, returns, TypeOK, streaming
<1>5. CASE Expire \/ CloseOnDone
  BY <1>o, <1>5 DEF Expire, CloseOnDone, goroutines, TypeOK, streaming
<1>6. CASE CheckContext \/ ReadValueFails
  BY <1>o, <1>6 DEF CheckContext, ReadValueFails, readerEnds, TypeOK, streaming
<1>7. CASE ReadValue
  <2>1. Head(wire) = END => kind = "dht" /\ server.pc = "done" /\ reader.v = server.n
    BY <1>7, NextCell DEF ReadValue
  <2> QED BY <1>o, <1>7, <2>1 DEF ReadValue, readerEnds, TypeOK, streaming
<1>8. CASE OfferToConverter \/ OfferToCaller
  BY <1>o, <1>8 DEF OfferToConverter, OfferToCaller, afterOffer, TypeOK, streaming
<1>9. CASE Convert \/ ConvertEnds
  BY <1>o, <1>9 DEF Convert, ConvertEnds, TypeOK, streaming
<1>10. CASE TakeValue \/ TakeEnd \/ CallerStops
  BY <1>o, <1>10 DEF TakeValue, TakeEnd, CallerStops, TypeOK, streaming
<1>11. CASE Answer \/ SendValue \/ SendEnd \/ ServerGone
  BY <1>o, <1>11 DEF Answer, SendValue, SendEnd, ServerGone, goroutines, TypeOK, streaming
<1>12. CASE Rest \/ UNCHANGED vars
  BY <1>o, <1>12 DEF Rest, vars
<1> QED BY <1>1, <1>2, <1>3, <1>4, <1>5, <1>6, <1>7, <1>8, <1>9, <1>10, <1>11, <1>12
        DEF Next, ApiStep, ReaderStep, ConvStep

(***************************************************************************)
(* Reading a cell leaves what was behind it.                               *)
(***************************************************************************)
LEMMA AfterHead ==
    ASSUME wire \in Seq(Cells), wire # <<>>, wire' = Tail(wire)
    PROVE  /\ Len(wire) \in Nat \ {0} /\ Len(wire') = Len(wire) - 1
           /\ \A i \in 1 .. (Len(wire) - 1) : wire'[i] = wire[i + 1]
OBVIOUS

(***************************************************************************)
(* Sending a cell puts it behind the ones that are there.                  *)
(***************************************************************************)
LEMMA AfterSend ==
    ASSUME wire \in Seq(Cells), NEW x \in Cells, wire' = Append(wire, x)
    PROVE  /\ Len(wire) \in Nat /\ Len(wire') = Len(wire) + 1
           /\ wire'[Len(wire) + 1] = x
           /\ \A i \in 1 .. Len(wire) : wire'[i] = wire[i]
OBVIOUS

(***************************************************************************)
(* What is on the wire behind k cells when the daemon sends the next value *)
(* or the END.                                                             *)
(***************************************************************************)
LEMMA UnreadGrows ==
    ASSUME IndInv, SendValue \/ SendEnd, NEW k \in Nat, Unread(k)
    PROVE  Unread(k)'
<1>1. /\ server.n \in 0 .. MaxValues /\ reader.v \in Nat /\ reader.v <= server.n
      /\ wire \in Seq(Cells) /\ MaxValues \in Nat
      /\ server = [pc |-> server.pc, n |-> server.n, gone |-> server.gone]
  BY DEF IndInv, TypeOK, Flow, Sizes
<1>n. server.n \in Nat
  BY <1>1
<1>2. PICK d \in Nat : d = server.n - reader.v /\ reader.v + d = server.n
  <2>1. server.n - reader.v \in Nat /\ reader.v + (server.n - reader.v) = server.n
    BY <1>1, <1>n
  <2> QED BY <2>1
<1>3. server.pc = "streaming" /\ UNCHANGED <<kind, reader>>
  BY DEF SendValue, SendEnd, goroutines
<1>4. Len(wire) = k + d /\ \A i \in 1 .. d : wire[k + i] = reader.v + i
  BY <1>1, <1>2, <1>3 DEF Unread
<1>5. CASE SendValue
  <2>1. /\ wire' = Append(wire, server.n + 1) /\ server.n + 1 \in Cells
        /\ server'.n = server.n + 1 /\ server'.pc = "streaming"
    BY <1>1, <1>3, <1>5 DEF SendValue, Cells
  <2>2. /\ Len(wire') = (k + d) + 1 /\ wire'[(k + d) + 1] = server.n + 1
        /\ \A i \in 1 .. (k + d) : wire'[i] = wire[i]
    BY <1>1, <1>4, <2>1, AfterSend
  <2>3. server'.n - reader'.v = d + 1
    <3>1. (server.n + 1) - reader.v = (server.n - reader.v) + 1
      BY <1>1, <1>n
    <3> QED BY <1>2, <1>3, <2>1, <3>1
  <2>4. ASSUME NEW i \in 1 .. (d + 1) PROVE wire'[k + i] = reader.v + i
    <3>1. CASE i \in 1 .. d
      <4>1. k + i \in 1 .. (k + d)
        BY <3>1
      <4> QED BY <1>4, <2>2, <3>1, <4>1
    <3>2. CASE i = d + 1
      <4>1. k + i = (k + d) + 1 /\ reader.v + i = server.n + 1
        <5>1. reader.v + (d + 1) = (reader.v + d) + 1
          BY <1>1
        <5> QED BY <1>2, <3>2, <5>1
      <4> QED BY <2>2, <4>1
    <3> QED BY <3>1, <3>2
  <2> QED BY <1>3, <2>1, <2>2, <2>3, <2>4 DEF Unread
<1>6. CASE SendEnd
  <2>1. /\ wire' = Append(wire, END) /\ END \in Cells /\ kind = "dht"
        /\ server'.n = server.n /\ server'.pc = "done"
    BY <1>1, <1>6 DEF SendEnd, Cells, END
  <2>2. /\ Len(wire') = (k + d) + 1 /\ wire'[(k + d) + 1] = END
        /\ \A i \in 1 .. (k + d) : wire'[i] = wire[i]
    BY <1>1, <1>4, <2>1, AfterSend
  <2>3. server'.n - reader'.v = d
    BY <1>1, <1>2, <1>3, <2>1
  <2>4. ASSUME NEW i \in 1 .. d PROVE wire'[k + i] = reader.v + i
    <3>1. k + i \in 1 .. (k + d)
      OBVIOUS
    <3> QED BY <1>4, <2>2, <3>1
  <2> QED BY <1>3, <2>1, <2>2, <2>3, <2>4 DEF Unread
<1> QED BY <1>5, <1>6

(***************************************************************************)
(* Every step keeps what is on the wire.                                   *)
(***************************************************************************)
LEMMA WireStep == IndInv /\ [Next]_vars => WireOK'
<1> SUFFICES ASSUME IndInv, [Next]_vars PROVE WireOK'
    OBVIOUS
<1>t. /\ TypeOK /\ CallOrder /\ WireOK /\ wire \in Seq(Cells)
      /\ reader.v \in Nat /\ server.n \in Nat /\ reader.v <= server.n
  BY DEF IndInv, Flow, TypeOK, Sizes
<1>s. reader.pc # "none" => api.pc = "returned"
  BY <1>t DEF CallOrder
<1>1. CASE Dial \/ WriteRequest \/ ReadFails \/ ReadSimple \/ ReadRefusal
  <2>1. api'.pc = "reading" => server'.pc \in {"idle", "asked"}
    BY <1>1, <1>t DEF Dial, WriteRequest, ReadFails, ReadSimple, ReadRefusal, returns,
                      CallOrder, TypeOK
  <2>2. reader'.pc = "none"
    BY <1>1, <1>t, <1>s DEF Dial, WriteRequest, ReadFails, ReadSimple, ReadRefusal,
                            goroutines, Active, TypeOK
  <2> QED BY <2>1, <2>2 DEF WireOK, Active
<1>2. CASE ReadBegin
  <2>1. Unread(1) /\ wire # <<>> /\ wire' = Tail(wire) /\ UNCHANGED <<kind, server>>
    BY <1>2, FirstAnswer DEF ReadBegin
  <2>2. reader'.v = reader.v /\ api'.pc = "returned"
    BY <1>2, <1>t DEF ReadBegin, returns, TypeOK
  <2>3. Unread(0)'
    BY <1>t, <2>1, <2>2, AfterHead DEF Unread
  <2> QED BY <2>2, <2>3 DEF WireOK
<1>3. CASE UNCHANGED <<kind, api, wire, server, reader>>
  BY <1>t, <1>3 DEF WireOK, Unread
<1>4. CASE CheckContext \/ ReadValueFails \/ OfferToConverter \/ OfferToCaller
  <2>1. /\ reader.pc \in Active /\ reader'.v = reader.v
        /\ UNCHANGED <<kind, api, wire, server>>
    BY <1>4, <1>t DEF CheckContext, ReadValueFails, OfferToConverter, OfferToCaller,
                      readerEnds, afterOffer, Active, TypeOK
  <2> QED BY <1>t, <1>s, <2>1 DEF WireOK, Unread, Active
<1>5. CASE ReadValue
  <2>1. /\ reader.pc \in Active /\ wire # <<>> /\ wire' = Tail(wire)
        /\ UNCHANGED <<kind, api, server>> /\ api.pc = "returned"
    BY <1>5, <1>s DEF ReadValue, Active
  <2>2. CASE Head(wire) = END
    <3>1. reader'.pc = "done"
      BY <1>5, <1>t, <2>2 DEF ReadValue, readerEnds, TypeOK
    <3> QED BY <2>1, <3>1 DEF WireOK, Active
  <2>3. CASE Head(wire) # END
    <3>1. reader'.v = reader.v + 1 /\ reader.v < server.n
      BY <1>5, <2>1, <2>3, NextCell DEF ReadValue
    <3>2. Unread(0)
      BY <1>t, <2>1 DEF WireOK
    <3>3. /\ Len(wire) \in Nat \ {0} /\ Len(wire') = Len(wire) - 1
          /\ \A i \in 1 .. (Len(wire) - 1) : wire'[i] = wire[i + 1]
      BY <1>t, <2>1, AfterHead
    <3>4. /\ server.pc = "done" => wire'[Len(wire')] = END
          /\ Len(wire') = (server.n - (reader.v + 1))
                           + (IF server.pc = "done" THEN 1 ELSE 0)
      <4>1. Len(wire) = (server.n - reader.v) + (IF server.pc = "done" THEN 1 ELSE 0)
        BY <1>t, <3>2 DEF Unread
      <4>2. Len(wire') = (server.n - (reader.v + 1))
                           + (IF server.pc = "done" THEN 1 ELSE 0)
        BY <1>t, <3>1, <3>3, <4>1
      <4>3. ASSUME server.pc = "done" PROVE wire'[Len(wire')] = wire[Len(wire)]
        <5>1. Len(wire') \in 1 .. (Len(wire) - 1) /\ Len(wire') + 1 = Len(wire)
          BY <1>t, <3>1, <3>3, <4>1, <4>3
        <5> QED BY <3>3, <5>1
      <4> QED BY <3>2, <4>2, <4>3 DEF Unread
    <3>5. ASSUME NEW i \in 1 .. (server.n - (reader.v + 1))
          PROVE  wire'[i] = (reader.v + 1) + i
      <4>1. /\ i + 1 \in 1 .. (server.n - reader.v)
            /\ i \in 1 .. (Len(wire) - 1)
        BY <1>t, <3>1, <3>2, <3>3 DEF Unread
      <4>2. /\ 0 + (i + 1) = i + 1 /\ reader.v + (i + 1) = (reader.v + 1) + i
        BY <1>t, <4>1
      <4>3. wire[0 + (i + 1)] = reader.v + (i + 1)
        BY <3>2, <4>1 DEF Unread
      <4> QED BY <3>3, <4>1, <4>2, <4>3
    <3>6. Unread(0)'
      <4>1. server.n - reader'.v = server.n - (reader.v + 1)
        BY <3>1
      <4>2. /\ Len(wire') = 0 + (server.n - reader'.v)
                            + (IF server.pc = "done" THEN 1 ELSE 0)
            /\ \A i \in 1 .. (server.n - reader'.v) : wire'[0 + i] = reader'.v + i
        BY <1>t, <3>1, <3>4, <3>5, <4>1
      <4> QED BY <2>1, <3>2, <3>4, <4>2 DEF Unread
    <3> QED BY <2>1, <3>6 DEF WireOK
  <2> QED BY <2>2, <2>3
<1>6. CASE Answer
  <2>1. server.pc = "asked" /\ wire = <<>> /\ server.n = 0 /\ reader.pc \notin Active
    BY <1>6, <1>t DEF Answer, CallOrder, WireOK, Unread
  <2>2. PICK a \in {"ok", "error", "other"} :
          /\ wire' = Append(wire, a)
          /\ server' = [server EXCEPT !.pc =
                         IF a = "error" \/ kind = "simple" THEN "done" ELSE "streaming"]
    BY <1>6 DEF Answer
  <2>3. UNCHANGED <<kind, api, reader>>
    BY <1>6 DEF Answer, goroutines
  <2>4. /\ wire' = <<a>> /\ server'.n = 0
        /\ server'.pc = IF a = "error" \/ kind = "simple" THEN "done" ELSE "streaming"
    BY <1>t, <2>1, <2>2 DEF TypeOK
  <2>5. ASSUME api'.pc = "reading", kind \in streaming, a # "error" PROVE Unread(1)'
    <3>1. reader'.v = 0 /\ server'.pc = "streaming"
      BY <1>t, <1>s, <2>3, <2>4, <2>5 DEF CallOrder, TypeOK, streaming
    <3> QED BY <2>4, <3>1 DEF Unread
  <2>6. a # "error" => Head(wire') \in {"ok", "other"} /\ wire' # <<>>
    BY <2>4
  <2>7. a = "error" => server'.pc = "done" /\ wire' = <<"error">>
    BY <2>4
  <2> QED BY <2>1, <2>3, <2>5, <2>6, <2>7 DEF WireOK
<1>7. CASE SendValue \/ SendEnd
  <2>0. PICK x \in Cells : wire' = Append(wire, x)
    BY <1>7, <1>t DEF SendValue, SendEnd, Cells, END
  <2>1. /\ server.pc = "streaming" /\ server'.pc \in {"streaming", "done"}
        /\ UNCHANGED <<kind, api, reader>>
        /\ wire' # <<>> /\ (wire # <<>> => Head(wire') = Head(wire))
    <3>1. /\ server.pc = "streaming" /\ server'.pc \in {"streaming", "done"}
          /\ UNCHANGED <<kind, api, reader>>
      BY <1>7, <1>t DEF SendValue, SendEnd, goroutines, TypeOK
    <3>2. wire' # <<>> /\ (wire # <<>> => Head(wire') = Head(wire))
      BY <1>t, <2>0
    <3> QED BY <3>1, <3>2
  <2>2. ASSUME api.pc = "reading", kind \in streaming
        PROVE  wire' # <<>> /\ Head(wire') \in {"ok", "other"} /\ Unread(1)'
    <3>1. wire # <<>> /\ Head(wire) \in {"ok", "other"} /\ Unread(1)
      BY <1>t, <2>1, <2>2 DEF WireOK
    <3> QED BY <1>7, <2>1, <3>1, UnreadGrows
  <2>3. ASSUME reader.pc \in Active PROVE Unread(0)'
    BY <1>7, <1>t, <2>3, UnreadGrows DEF WireOK
  <2> QED BY <2>1, <2>2, <2>3 DEF WireOK
<1>8. CASE ServerGone
  <2>1. /\ server'.pc = server.pc /\ server'.n = server.n
        /\ UNCHANGED <<kind, api, wire, reader>>
    BY <1>8, <1>t DEF ServerGone, goroutines, TypeOK
  <2> QED BY <1>t, <2>1 DEF WireOK, Unread
<1>9. CASE Expire \/ CloseOnDone \/ Convert \/ ConvertEnds \/ TakeValue \/ TakeEnd \/ CallerStops
           \/ Rest \/ UNCHANGED vars
  BY <1>3, <1>9 DEF Expire, CloseOnDone, Convert, ConvertEnds, TakeValue, TakeEnd,
                    CallerStops, Rest, vars, goroutines
<1> QED BY <1>1, <1>2, <1>4, <1>5, <1>6, <1>7, <1>8, <1>9
        DEF Next, ApiStep, ReaderStep, ConvStep

(***************************************************************************)
(* Every step keeps the values in order on their way to the caller.        *)
(***************************************************************************)
LEMMA FlowStep == IndInv /\ [Next]_vars => Flow'
<1> SUFFICES ASSUME IndInv, [Next]_vars PROVE Flow'
    OBVIOUS
<1>t. /\ TypeOK /\ CallOrder /\ Flow /\ MaxValues \in Nat
      /\ reader.v \in Nat /\ server.n \in Nat /\ reader.v <= server.n
  BY DEF IndInv, Flow, TypeOK, Sizes
<1>1. ASSUME UNCHANGED <<bad, reader, conv, buffer, caller>>,
             server'.n \in Nat, server'.n >= server.n
      PROVE  Flow'
  BY <1>t, <1>1 DEF Flow, passed, converting
<1>2. CASE Dial \/ WriteRequest \/ ReadFails \/ ReadSimple \/ ReadRefusal \/ Expire
           \/ CloseOnDone \/ Answer \/ SendValue \/ SendEnd \/ ServerGone \/ Rest
           \/ UNCHANGED vars
  <2>1. /\ UNCHANGED <<bad, reader, conv, buffer, caller>>
        /\ server'.n \in Nat /\ server'.n >= server.n
    BY <1>t, <1>2 DEF Dial, WriteRequest, ReadFails, ReadSimple, ReadRefusal, Expire,
         CloseOnDone, Answer, SendValue, SendEnd, ServerGone, Rest, vars, goroutines, TypeOK
  <2> QED BY <1>1, <2>1
<1>3. ASSUME UNCHANGED <<bad, server, buffer>>, caller'.got = caller.got,
             converting' = converting, passed' = passed, reader'.v <= server.n,
             reader'.pc = "offering" => reader'.v >= 1
      PROVE  Flow'
  BY <1>t, <1>3 DEF Flow
<1>4. CASE ReadBegin
  <2>1. /\ UNCHANGED <<bad, server, buffer>> /\ caller'.got = caller.got
        /\ reader'.v = reader.v /\ reader.pc = "none" /\ conv.pc = "none"
        /\ reader'.pc # "offering" /\ conv'.pc # "offering"
    BY <1>t, <1>4 DEF ReadBegin, CallOrder, TypeOK
  <2> QED BY <1>t, <1>3, <2>1 DEF passed, converting
<1>5. CASE CheckContext \/ ReadValueFails
  <2>1. /\ UNCHANGED <<bad, server, conv, buffer, caller>>
        /\ reader'.v = reader.v /\ reader.pc # "offering" /\ reader'.pc # "offering"
    BY <1>t, <1>5 DEF CheckContext, ReadValueFails, readerEnds, TypeOK
  <2> QED BY <1>t, <1>3, <2>1 DEF passed, converting
<1>6. CASE ReadValue
  <2>1. UNCHANGED <<bad, server, conv, buffer, caller>> /\ reader.pc = "reading"
    BY <1>6 DEF ReadValue
  <2>2. \/ reader'.pc = "done" /\ reader'.v = reader.v
        \/ reader'.pc = "offering" /\ reader'.v = reader.v + 1 /\ reader.v < server.n
    BY <1>t, <1>6, NextCell DEF ReadValue, readerEnds, Active, TypeOK
  <2>3. /\ passed' = passed /\ reader'.v <= server.n
        /\ reader'.pc = "offering" => reader'.v >= 1
    BY <1>t, <2>1, <2>2 DEF passed
  <2> QED BY <1>3, <2>1, <2>3 DEF converting
<1>7. CASE OfferToConverter
  <2>1. /\ UNCHANGED <<bad, server, buffer, caller>> /\ conv.pc # "offering"
        /\ reader'.v = reader.v /\ reader'.pc # "offering" /\ reader.pc = "offering"
        /\ conv' = IF reader.v \in bad THEN conv ELSE [pc |-> "offering", v |-> reader.v]
    BY <1>t, <1>7 DEF OfferToConverter, afterOffer, TypeOK
  <2>2. reader.v >= 1 /\ passed = reader.v - 1 /\ passed' = reader.v
    BY <1>t, <2>1 DEF Flow, passed
  <2>3. 1 .. reader.v = (1 .. passed) \cup {reader.v}
    BY <1>t, <2>2
  <2>4. converting = {} /\ converting' = IF reader.v \in bad THEN {} ELSE {reader.v}
    BY <2>1 DEF converting
  <2>5. valuesOf(caller.got) \cup valuesOf(buffer) = (1 .. passed) \ bad
    BY <1>t, <2>4 DEF Flow
  <2>6. \A x \in valuesOf(caller.got) \cup valuesOf(buffer) : x < reader.v
    BY <1>t, <2>2, <2>5
  <2>7. valuesOf(caller.got) \cup valuesOf(buffer) \cup converting' = (1 .. passed') \ bad
    BY <2>2, <2>3, <2>4, <2>5
  <2> QED BY <1>t, <2>1, <2>4, <2>6, <2>7 DEF Flow
<1>8. CASE OfferToCaller
  <2>1. /\ UNCHANGED <<bad, server, buffer, conv>> /\ conv.pc = "none"
        /\ bad = {} /\ buffer = <<>>
        /\ reader'.v = reader.v /\ reader'.pc # "offering" /\ reader.pc = "offering"
        /\ caller'.got = Append(caller.got, reader.v)
    BY <1>t, <1>8 DEF OfferToCaller, afterOffer, TypeOK, CallOrder
  <2>2. reader.v >= 1 /\ passed = reader.v - 1 /\ passed' = reader.v
    BY <1>t, <2>1 DEF Flow, passed
  <2>3. 1 .. reader.v = (1 .. passed) \cup {reader.v}
    BY <1>t, <2>2
  <2>4. converting = {} /\ converting' = {} /\ valuesOf(buffer) = {}
    BY <2>1 DEF converting, valuesOf
  <2>5. valuesOf(caller.got) = 1 .. passed /\ increasing(caller.got)
    BY <1>t, <2>1, <2>4 DEF Flow
  <2>6. \A x \in valuesOf(caller.got) : x < reader.v
    BY <1>t, <2>2, <2>5
  <2>7. /\ valuesOf(caller'.got) = valuesOf(caller.got) \cup {reader.v}
        /\ increasing(caller'.got)
    BY <1>t, <2>1, <2>5, <2>6, OnTheWay, PutFacts DEF TypeOK, Values
  <2>8. valuesOf(caller'.got) \cup valuesOf(buffer) \cup converting' = (1 .. passed') \ bad
    BY <2>1, <2>2, <2>3, <2>4, <2>5, <2>7
  <2> QED BY <1>t, <2>1, <2>4, <2>7, <2>8 DEF Flow
<1>9. CASE Convert
  <2>1. /\ UNCHANGED <<bad, server, reader, caller>> /\ conv.pc = "offering"
        /\ conv'.pc # "offering" /\ buffer' = Append(buffer, conv.v)
    BY <1>t, <1>9 DEF Convert, TypeOK
  <2>2. converting = {conv.v} /\ converting' = {} /\ passed' = passed
    BY <2>1 DEF converting, passed
  <2>3. /\ \A x \in valuesOf(buffer) : x < conv.v
        /\ \A x \in valuesOf(caller.got) : x < conv.v
    BY <1>t, <2>2 DEF Flow
  <2>4. /\ valuesOf(buffer') = valuesOf(buffer) \cup {conv.v}
        /\ increasing(buffer')
    BY <1>t, <2>1, <2>3, OnTheWay, PutFacts DEF TypeOK, Values, Flow
  <2>5. valuesOf(caller'.got) \cup valuesOf(buffer') \cup converting' = (1 .. passed') \ bad
    BY <1>t, <2>1, <2>2, <2>4 DEF Flow
  <2> QED BY <1>t, <2>1, <2>2, <2>3, <2>4, <2>5 DEF Flow
<1>10. CASE ConvertEnds
  <2>1. /\ UNCHANGED <<bad, server, reader, buffer, caller>>
        /\ conv.pc # "offering" /\ conv'.pc # "offering"
    BY <1>t, <1>10 DEF ConvertEnds, TypeOK
  <2> QED BY <1>t, <1>3, <2>1 DEF passed, converting, Flow
<1>11. CASE TakeValue
  <2>1. /\ UNCHANGED <<bad, server, reader, conv>> /\ buffer # <<>>
        /\ caller'.got = Append(caller.got, Head(buffer)) /\ buffer' = Tail(buffer)
    BY <1>t, <1>11 DEF TakeValue, TypeOK
  <2>2. /\ Head(buffer) \in 1 .. MaxValues
        /\ valuesOf(buffer) = {Head(buffer)} \cup valuesOf(buffer')
        /\ increasing(buffer') /\ \A y \in valuesOf(buffer') : Head(buffer) < y
    BY <1>t, <2>1, TakeFacts DEF TypeOK, Values, Flow
  <2>3. \A x \in valuesOf(caller.got) : x < Head(buffer)
    BY <1>t, <2>2 DEF Flow
  <2>4. /\ valuesOf(caller'.got) = valuesOf(caller.got) \cup {Head(buffer)}
        /\ increasing(caller'.got)
    BY <1>t, <2>1, <2>2, <2>3, PutFacts DEF TypeOK, Values, Flow
  <2>5. passed' = passed /\ converting' = converting
    BY <2>1 DEF passed, converting
  <2>6. valuesOf(caller'.got) \cup valuesOf(buffer') \cup converting' = (1 .. passed') \ bad
    BY <1>t, <2>2, <2>4, <2>5 DEF Flow
  <2>7. \A y \in valuesOf(buffer') \cup converting : Head(buffer) < y
    BY <1>t, <2>2 DEF Flow
  <2> QED BY <1>t, <2>1, <2>2, <2>4, <2>5, <2>6, <2>7 DEF Flow
<1>12. CASE TakeEnd \/ CallerStops
  <2>1. /\ UNCHANGED <<bad, server, reader, conv, buffer>>
        /\ caller'.got = caller.got
    BY <1>t, <1>12 DEF TakeEnd, CallerStops, TypeOK
  <2> QED BY <1>t, <1>3, <2>1 DEF passed, converting, Flow
<1> QED BY <1>2, <1>4, <1>5, <1>6, <1>7, <1>8, <1>9, <1>10, <1>11, <1>12
        DEF Next, ApiStep, ReaderStep, ConvStep

(***************************************************************************)
(* The inductive invariant holds at the start.                             *)
(***************************************************************************)
LEMMA InitIndInv == Init => IndInv
<1> SUFFICES ASSUME Init PROVE IndInv
    OBVIOUS
<1> USE RequestAssumption DEF Init
<1>1. TypeOK /\ wire \in Seq(Cells) /\ Sizes
  <2>1. <<>> \in Seq(Values) /\ <<>> \in Seq(Cells) /\ Len(<<>>) <= Cap
    OBVIOUS
  <2>2. /\ server \in [pc : {"idle", "asked", "streaming", "done"}, n : 0 .. MaxValues,
                       gone : BOOLEAN]
        /\ reader.v = 0 /\ conv.v = 0 /\ 0 \in 0 .. MaxValues
    OBVIOUS
  <2>3. caller \in [pc : {"waiting", "reading", "stopped", "ended"}, got : Seq(Values)]
    BY <2>1
  <2>4. /\ reader \in [pc : {"none", "checking", "reading", "offering", "done"},
                       v : 0 .. MaxValues]
        /\ conv \in [pc : {"none", "ranging", "offering", "done"}, v : 0 .. MaxValues]
    BY <2>2
  <2> QED BY <2>1, <2>2, <2>3, <2>4 DEF TypeOK, Values, Sizes
<1>2. CallOrder /\ WireOK /\ EndOrder /\ OpenForReader
  BY DEF CallOrder, WireOK, EndOrder, OpenForReader, Active, streaming
<1>3. /\ valuesOf(caller.got) = {} /\ valuesOf(buffer) = {} /\ converting = {}
      /\ passed = 0 /\ increasing(caller.got) /\ increasing(buffer)
  BY DEF valuesOf, increasing, converting, passed
<1>4. Flow
  BY <1>3 DEF Flow
<1> QED BY <1>1, <1>2, <1>4 DEF IndInv

(***************************************************************************)
(* What is in flight being above what the caller has, the caller has every *)
(* value that parses up to the one before the first in flight.             *)
(***************************************************************************)
LEMMA PrefixDelivered ==
    ASSUME IndInv
    PROVE  /\ ValuesInOrder
           /\ buffer = <<>> /\ converting = {} => carries(caller.got, passed)
<1>1. /\ TypeOK /\ Flow /\ MaxValues \in Nat /\ passed \in 0 .. server.n
      /\ server.n \in Nat
  BY OnTheWay DEF IndInv, TypeOK, Sizes
<1>2. ASSUME NEW x \in valuesOf(buffer) \cup converting,
             \A y \in valuesOf(buffer) \cup converting : x <= y
      PROVE  x - 1 \in 0 .. server.n /\ carries(caller.got, x - 1)
  <2>1. x \in 1 .. passed /\ x \notin bad
    BY <1>2, OnTheWay
  <2>2. \A y \in valuesOf(caller.got) : y < x /\ y \in 1 .. passed /\ y \notin bad
    BY <1>1, <1>2, OnTheWay DEF Flow
  <2>3. \A y \in 1 .. (x - 1) : y \notin bad => y \in valuesOf(caller.got)
    <3> SUFFICES ASSUME NEW y \in 1 .. (x - 1), y \notin bad
                 PROVE  y \in valuesOf(caller.got)
      OBVIOUS
    <3>1. y \in (1 .. passed) \ bad /\ ~(x <= y)
      BY <1>1, <2>1
    <3> QED BY <1>1, <1>2, <3>1 DEF Flow
  <2>4. valuesOf(caller.got) = (1 .. (x - 1)) \ bad
    <3>1. \A y \in valuesOf(caller.got) : y \in (1 .. (x - 1)) \ bad
      BY <1>1, <2>1, <2>2
    <3> QED BY <2>3, <3>1
  <2> QED BY <1>1, <2>1, <2>4 DEF carries, Flow
<1>3. CASE buffer # <<>>
  <2>1. /\ Head(buffer) \in valuesOf(buffer)
        /\ \A y \in valuesOf(buffer) : Head(buffer) = y \/ Head(buffer) < y
        /\ Head(buffer) \in Nat /\ \A y \in valuesOf(buffer) \cup converting : y \in Nat
    BY <1>1, <1>3, TakeFacts, OnTheWay DEF TypeOK, Values, Flow
  <2>2. \A y \in valuesOf(buffer) \cup converting : Head(buffer) <= y
    BY <1>1, <2>1 DEF Flow
  <2> QED BY <1>2, <1>3, <2>1, <2>2 DEF ValuesInOrder
<1>4. CASE buffer = <<>>
  <2>1. valuesOf(buffer) = {}
    BY <1>4 DEF valuesOf
  <2>2. CASE converting # {}
    <3>1. converting = {conv.v} /\ conv.v \in Nat
      BY <1>1, <2>2 DEF converting, TypeOK
    <3>2. \A y \in valuesOf(buffer) \cup converting : conv.v <= y
      BY <2>1, <3>1
    <3>3. conv.v - 1 \in 0 .. server.n /\ carries(caller.got, conv.v - 1)
      BY <1>2, <3>1, <3>2
    <3> QED BY <1>4, <2>2, <3>3 DEF ValuesInOrder
  <2>3. CASE converting = {}
    <3>1. carries(caller.got, passed)
      BY <1>1, <2>1, <2>3 DEF Flow, carries
    <3> QED BY <1>1, <3>1 DEF ValuesInOrder
  <2> QED BY <2>2, <2>3
<1> QED BY <1>3, <1>4

(***************************************************************************)
(* The invariant is what the model promises about a streamed answer.       *)
(***************************************************************************)
LEMMA Delivered == IndInv => DeliveryInv
<1> SUFFICES ASSUME IndInv PROVE DeliveryInv
    OBVIOUS
<1>1. TypeOK /\ CallOrder /\ EndOrder
  BY DEF IndInv
<1>2. ASSUME caller.pc = "ended", ~expired, ~server.gone
      PROVE  kind = "dht" /\ server.pc = "done" /\ carries(caller.got, server.n)
  <2>1. reader.pc = "done"
    BY <1>1, <1>2 DEF EndOrder
  <2>2. kind = "dht" /\ server.pc = "done" /\ reader.v = server.n
    BY <1>1, <1>2, <2>1 DEF EndOrder
  <2>3. buffer = <<>> /\ converting = {} /\ passed = server.n
    BY <1>1, <1>2, <2>1, <2>2 DEF EndOrder, converting, passed
  <2> QED BY <2>2, <2>3, PrefixDelivered
<1> QED BY <1>1, <1>2, PrefixDelivered DEF DeliveryInv, ShortOnlyIfCut

(***************************************************************************)
(* Every step keeps the invariant.                                         *)
(***************************************************************************)
LEMMA Preserved == IndInv /\ [Next]_vars => IndInv'
<1> SUFFICES ASSUME IndInv, [Next]_vars PROVE IndInv'
    OBVIOUS
<1>1. Sizes'
  BY DEF IndInv, Sizes
<1> QED BY <1>1, TypeStep, OrderStep, WireStep, FlowStep DEF IndInv

(***************************************************************************)
(* The inductive invariant holds in every reachable state.                 *)
(***************************************************************************)
THEOREM Invariance == Spec => []IndInv
  BY InitIndInv, Preserved, PTL DEF Spec

(***************************************************************************)
(* However the goroutines of a streamed answer run, the caller has every   *)
(* value that parses up to the last one it got, once and in order, and a   *)
(* closed channel carried all of them unless the context or the loss of    *)
(* the connection cut it short.                                            *)
(***************************************************************************)
THEOREM DeliverySafe == Spec => []DeliveryInv
  BY Invariance, Delivered, PTL

(***************************************************************************)
(* A call that has returned leaves its connection open only to a running   *)
(* reader, but for the three error returns that leave it open for good.    *)
(***************************************************************************)
THEOREM OpenSafe == Spec => []OpenForReader
<1>1. IndInv => OpenForReader
  BY DEF IndInv
<1> QED BY <1>1, Invariance, PTL
=============================================================================
