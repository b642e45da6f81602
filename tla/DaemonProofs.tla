---------------------------- MODULE DaemonProofs ----------------------------
(***************************************************************************)
(* The safety properties of three parts of the daemon:                     *)
(*                                                                         *)
(*   - a control connection (ControlConn), for any number of requests and  *)
(*     results, any capacity of the socket, and with the DHT and pubsub on *)
(*     or off;                                                             *)
(*   - the pipe such a connection can become (StreamPipe), for streams of *)
(*     any length;                                                         *)
(*   - the life of the process that serves it (Lifecycle), for any finite  *)
(*     set of connections, with and without -idleTimeout.                  *)
(***************************************************************************)
EXTENDS ControlConn, StreamPipe, Lifecycle, FiniteSetTheorems, TLAPS

-----------------------------------------------------------------------------
(***************************************************************************)
(* The control connection.                                                 *)
(***************************************************************************)
last == log[Len(log)]

Final == {"ok", "error", "end"}

(***************************************************************************)
(* What has been written when handleConn is at a stage: the answers to all *)
(* requests before the current one, and of its answer the part that the    *)
(* stage says.                                                             *)
(***************************************************************************)
LastOK ==
    /\ stage = "reading" =>
         IF log = <<>> THEN cur.n = 0 ELSE last.n = cur.n /\ last.msg \in Final
    /\ stage = "answering" =>
         /\ cur.result \in {"ok", "error"}
         /\ IF log = <<>> THEN cur.n = 1 ELSE last.n + 1 = cur.n /\ last.msg \in Final
    /\ stage \in {"streaming", "writing"} =>
         log # <<>> /\ last.n = cur.n /\ last.msg \in {"begin", "value"}
    /\ stage = "writing" => cur.v = last.v + 1
    /\ stage = "subscribed" =>
         log # <<>> /\ last.n = cur.n /\ last.msg \in {"ok", "psmsg"}

(***************************************************************************)
(* Nothing has been written for a request that is still to come, and the   *)
(* last value of a streamed answer has the number of values written.       *)
(***************************************************************************)
Numbered ==
    \A i \in 1 .. Len(log) :
      log[i].n <= cur.n /\ (stage = "answering" => log[i].n < cur.n)

ResultsCounted ==
    stage \in {"streaming", "writing"} => Cardinality(ValuesOf(cur.n)) = last.v

(***************************************************************************)
(* A streamed answer is under way, and how many results handleConn has     *)
(* taken: the forwarder holds at most one more, and has given none up      *)
(* unless the timeout expired.  At any other time no forwarder runs on an  *)
(* open connection.                                                        *)
(***************************************************************************)
Streaming ==
    \/ stage \in {"streaming", "writing"}
    \/ stage = "answering" /\ cur.type = "DHT_STREAM" /\ cur.result = "ok"

taken == IF stage = "answering" THEN 0 ELSE IF stage = "writing" THEN cur.v ELSE last.v

ForwarderOK ==
    /\ Streaming =>
         /\ forwarder # "none"
         /\ forwarder = "offering" => found = taken + 1
         /\ forwarder = "receiving" => found = taken
         /\ forwarder = "ended" /\ ~timedOut => found = taken
         /\ forwarder \in {"receiving", "offering"} /\ ctxDone => timedOut
    /\ ~Streaming /\ stage # "closed" => forwarder \in {"none", "ended"}

(***************************************************************************)
(* Who will release what the connection holds: the pipe its stream, the    *)
(* reading goroutine the subscription.                                     *)
(***************************************************************************)
HeldOK ==
    /\ held = "stream" =>
         \/ stage = "piping"
         \/ stage = "answering" /\ cur.type = "STREAM_OPEN" /\ cur.result = "ok"
    /\ held = "sub" =>
         \/ watcher = "reading"
         \/ stage = "answering" /\ cur.type = "SUBSCRIBE" /\ cur.result = "ok"
    /\ watcher # "none" => stage \in {"subscribed", "closed"}

LogOK == WellFramed /\ LastOK /\ Numbered /\ ResultsCounted

IndInv == TypeOK /\ LogOK /\ ForwarderOK /\ HeldOK
-----------------------------------------------------------------------------
(***************************************************************************)
(* What a write makes of the messages written so far.                      *)
(***************************************************************************)
LEMMA AppendFacts ==
    ASSUME NEW M, NEW z \in Seq(M), NEW m \in M
    PROVE  /\ Append(z, m) \in Seq(M) /\ Append(z, m) # <<>>
           /\ Len(Append(z, m)) = Len(z) + 1
           /\ Append(z, m)[Len(z) + 1] = m
           /\ \A i \in 1 .. Len(z) : Append(z, m)[i] = z[i]
           /\ \A i \in 1 .. Len(z) + 1 : i \in 1 .. Len(z) \/ i = Len(z) + 1
OBVIOUS

(***************************************************************************)
(* The types of the request handleConn reads next.                         *)
(***************************************************************************)
LEMMA HeadType ==
    ASSUME TypeOK, inbox # <<>>
    PROVE  Head(inbox) \in Requests /\ Tail(inbox) \in Seq(Requests)
BY DEF TypeOK

(***************************************************************************)
(* The types of the record of the request being served.                    *)
(***************************************************************************)
LEMMA CurType ==
    ASSUME TypeOK
    PROVE  /\ cur \in Served /\ cur.n \in Nat /\ cur.n + 1 \in Nat /\ cur.v \in Nat
           /\ cur.type \in Types \cup {"none"} /\ cur.result \in {"none", "ok", "error"}
BY ControlAssumption DEF TypeOK, Served

(***************************************************************************)
(* Every result of a handler is "ok" or "error".                           *)
(***************************************************************************)
LEMMA ResultsType ==
    ASSUME NEW q PROVE Results(q) \subseteq {"ok", "error"}
BY DEF Results, doConnManager, doDHT, DhtAnswers, doPubsub, hostAnswers

(***************************************************************************)
(* Every step keeps the types.                                             *)
(***************************************************************************)
LEMMA TypeStep == IndInv /\ [Next]_vars => TypeOK'
<1> SUFFICES ASSUME IndInv, [Next]_vars PROVE TypeOK'
    OBVIOUS
<1>t. TypeOK BY DEF IndInv
<1> USE ControlAssumption
<1> USE DEF client, dht
<1>w. ASSUME NEW msg \in {"ok", "error", "begin", "value", "end", "psmsg"}, NEW v \in Nat,
             Write(msg, v)
      PROVE  log' \in Seq(Messages)
  <2>1. [n |-> cur.n, msg |-> msg, v |-> v] \in Messages BY <1>t, CurType DEF Messages
  <2> QED BY <1>t, <1>w, <2>1, AppendFacts DEF Write, TypeOK
<1>1. ASSUME NEW q \in Requests, ClientSends(q) PROVE TypeOK'
  BY <1>1, <1>t DEF ClientSends, TypeOK
<1>2. CASE ClientReads \/ ClientGoes
  <2>1. seen' \in Nat BY <1>2, <1>t DEF ClientReads, ClientGoes, TypeOK
  <2>2. gone' \in BOOLEAN BY <1>2, <1>t DEF ClientReads, ClientGoes, TypeOK
  <2>3. UNCHANGED <<sent, inbox, log, stage, cur, dht, held, watcher>>
    BY <1>2 DEF ClientReads, ClientGoes
  <2> QED BY <1>t, <2>1, <2>2, <2>3 DEF TypeOK
<1>3. CASE HandleRequest
  <2>1. PICK res \in Results(Head(inbox)) :
          /\ cur' = [n |-> cur.n + 1, type |-> Head(inbox).type, result |-> res, v |-> 0]
          /\ held' \in {held, "stream", "sub"}
    BY <1>3 DEF HandleRequest
  <2>2. Head(inbox).type \in Types /\ res \in {"ok", "error"}
    BY <1>3, <1>t, HeadType, ResultsType DEF HandleRequest, Requests
  <2>3. cur' \in Served BY <1>t, <2>1, <2>2, CurType DEF Served
  <2>4. inbox' \in Seq(Requests) BY <1>3, <1>t, HeadType DEF HandleRequest
  <2>5. /\ query' \in {query, "running"} /\ forwarder' \in {forwarder, "receiving"}
        /\ found' \in {found, 0} /\ ctxDone' \in {ctxDone, FALSE}
        /\ timedOut' \in {timedOut, FALSE} /\ stage' = "answering"
        /\ UNCHANGED <<sent, log, seen, gone, watcher>>
    BY <1>3 DEF HandleRequest
  <2>6. ctxDone' \in BOOLEAN /\ timedOut' \in BOOLEAN BY <1>t, <2>5 DEF TypeOK
  <2>7. found' \in 0 .. MaxValues BY <1>t, <2>5 DEF TypeOK
  <2> QED BY <1>t, <2>1, <2>3, <2>4, <2>5, <2>6, <2>7 DEF TypeOK
<1>4. CASE LeaveLoop BY <1>4, <1>t, HeadType DEF LeaveLoop, TypeOK
<1>5. CASE ReadFails BY <1>5, <1>t DEF ReadFails, TypeOK
<1>6. CASE WriteAnswer
  <2>1. cur.result \in {"ok", "error"} BY <1>6 DEF WriteAnswer, IndInv, LogOK, LastOK
  <2>2. log' \in Seq(Messages) BY <1>6, <1>w, <2>1 DEF WriteAnswer
  <2> QED BY <1>6, <1>t, <2>2 DEF WriteAnswer, TypeOK
<1>7. CASE WriteAnswerFails BY <1>7, <1>t DEF WriteAnswerFails, WriteFails, TypeOK
<1>8. CASE TakeValue
  <2>1. cur' \in Served BY <1>8, <1>t DEF TakeValue, TypeOK, Served
  <2> QED BY <1>8, <1>t, <2>1 DEF TakeValue, TypeOK
<1>9. CASE WriteValue
  <2>1. log' \in Seq(Messages) BY <1>9, <1>t, <1>w, CurType DEF WriteValue
  <2> QED BY <1>9, <1>t, <2>1 DEF WriteValue, TypeOK
<1>10. CASE WriteValueFails BY <1>10, <1>t DEF WriteValueFails, WriteFails, TypeOK
<1>11. CASE WriteEnd
  <2>1. log' \in Seq(Messages) BY <1>11, <1>t, <1>w DEF WriteEnd, WriteFails, TypeOK
  <2> QED BY <1>11, <1>t, <2>1 DEF WriteEnd, TypeOK
<1>12. CASE PubsubMessage
  <2>1. log' \in Seq(Messages) BY <1>12, <1>w DEF PubsubMessage
  <2> QED BY <1>12, <1>t, <2>1 DEF PubsubMessage, TypeOK
<1>13. CASE WatcherDiscards BY <1>13, <1>t, HeadType DEF WatcherDiscards, TypeOK
<1>14. CASE QueryYields BY <1>14, <1>t DEF QueryYields, TypeOK
<1>15. CASE QueryEnds \/ TimesOut \/ ForwarderStep
  <2> USE DEF QueryEnds, TimesOut, ForwarderStep, ForwarderEnds, ForwarderGivesUp
  <2>1. ctxDone' \in BOOLEAN /\ timedOut' \in BOOLEAN BY <1>15, <1>t DEF TypeOK
  <2>2. query' \in {query, "closed"} /\ forwarder' \in {forwarder, "ended"} BY <1>15
  <2>3. UNCHANGED <<client, log, stage, cur, found, held, watcher>> BY <1>15
  <2> QED BY <1>t, <2>1, <2>2, <2>3 DEF TypeOK
<1>16. CASE PipeEnds \/ PubsubNextFails \/ PubsubWriteFails \/ WatcherCancels
  BY <1>16, <1>t
     DEF PipeEnds, PubsubNextFails, PubsubWriteFails, WriteFails, WatcherCancels, TypeOK
<1>17. CASE UNCHANGED vars BY <1>17, <1>t DEF vars, TypeOK
<1> QED
  BY <1>1, <1>2, <1>3, <1>4, <1>5, <1>6, <1>7, <1>8, <1>9, <1>10, <1>11, <1>12, <1>13,
     <1>14, <1>15, <1>16, <1>17
     DEF Next, HandlerStep, WatcherStep, Rest

(***************************************************************************)
(* What a connection holds is always somebody's to release.                *)
(***************************************************************************)
LEMMA HeldStep == IndInv /\ [Next]_vars => HeldOK'
<1> SUFFICES ASSUME IndInv, [Next]_vars PROVE HeldOK'
    OBVIOUS
<1>t. TypeOK /\ HeldOK BY DEF IndInv
<1> USE DEF client, dht, HeldOK
<1>1. CASE HandleRequest
  <2>1. held = "none" /\ watcher = "none" BY <1>1, <1>t DEF HandleRequest, TypeOK
  <2>2. PICK res \in Results(Head(inbox)) :
          /\ cur' = [n |-> cur.n + 1, type |-> Head(inbox).type, result |-> res, v |-> 0]
          /\ held' = IF res = "error" THEN held
                     ELSE CASE Head(inbox).type = "STREAM_OPEN" -> "stream"
                            [] Head(inbox).type = "SUBSCRIBE" -> "sub"
                            [] OTHER -> held
    BY <1>1 DEF HandleRequest
  <2>3. res \in {"ok", "error"} BY ResultsType
  <2>4. cur'.type = Head(inbox).type /\ cur'.result = res BY <2>2
  <2>5. stage' = "answering" /\ watcher' = "none" BY <1>1, <2>1 DEF HandleRequest
  <2> QED BY <2>1, <2>2, <2>3, <2>4, <2>5
<1>2. CASE WriteAnswer
  <2>1. watcher = "none" BY <1>2, <1>t DEF WriteAnswer, TypeOK
  <2> QED BY <1>2, <1>t, <2>1 DEF WriteAnswer, TypeOK
<1>3. CASE TakeValue BY <1>3, <1>t DEF TakeValue, TypeOK
<1>4. CASE \/ \E q \in Requests : ClientSends(q)
           \/ ClientReads \/ ClientGoes \/ LeaveLoop \/ ReadFails \/ WriteAnswerFails
           \/ WriteValue \/ WriteValueFails \/ WriteEnd \/ PubsubNextFails
  BY <1>4, <1>t
     DEF ClientSends, ClientReads, ClientGoes, LeaveLoop, ReadFails, WriteAnswerFails,
         WriteValue, WriteValueFails, WriteEnd, PubsubNextFails, TypeOK
<1>5. CASE \/ QueryYields \/ QueryEnds \/ TimesOut \/ ForwarderStep \/ PipeEnds
           \/ PubsubMessage \/ PubsubWriteFails \/ WatcherStep
  BY <1>5, <1>t
     DEF QueryYields, QueryEnds, TimesOut, ForwarderStep, ForwarderEnds, ForwarderGivesUp,
         PipeEnds, PubsubMessage, PubsubWriteFails, WatcherStep, WatcherDiscards,
         WatcherCancels, TypeOK
<1>6. CASE UNCHANGED vars BY <1>6, <1>t DEF vars
<1> QED
  BY <1>1, <1>2, <1>3, <1>4, <1>5, <1>6 DEF Next, HandlerStep, Rest

(***************************************************************************)
(* A message that may follow the last one keeps the answers framed.        *)
(***************************************************************************)
LEMMA Appended ==
    ASSUME TypeOK, WellFramed, NEW m \in Messages, log' = Append(log, m),
           IF log = <<>> THEN m.n = 1 /\ m.msg \in Header ELSE Follows(last, m)
    PROVE  /\ log' # <<>> /\ last' = m /\ WellFramed'
           /\ Len(log') = Len(log) + 1 /\ Len(log) \in Nat
           /\ \A i \in 1 .. Len(log) : log'[i] = log[i]
           /\ DOMAIN log = 1 .. Len(log) /\ DOMAIN log' = 1 .. Len(log')
<1>1. log \in Seq(Messages) BY DEF TypeOK
<1>2. /\ log' \in Seq(Messages) /\ log' # <<>>
      /\ Len(log') = Len(log) + 1 /\ log'[Len(log) + 1] = m
      /\ \A i \in 1 .. Len(log) : log'[i] = log[i]
      /\ \A i \in 1 .. Len(log) + 1 : i \in 1 .. Len(log) \/ i = Len(log) + 1
  BY <1>1, AppendFacts
<1>3. DOMAIN log = 1 .. Len(log) /\ DOMAIN log' = 1 .. Len(log') /\ Len(log) \in Nat
  BY <1>1, <1>2
<1>4. last' = m BY <1>2 DEF last
<1>5. ASSUME NEW i \in DOMAIN log'
      PROVE  IF i = 1 THEN log'[i].n = 1 /\ log'[i].msg \in Header
             ELSE Follows(log'[i - 1], log'[i])
  <2>1. CASE i \in 1 .. Len(log)
    <3>1. log'[i] = log[i] /\ i \in DOMAIN log BY <1>2, <1>3, <2>1
    <3>2. i # 1 => log'[i - 1] = log[i - 1]
      <4> HAVE i # 1
      <4>1. i - 1 \in 1 .. Len(log) BY <1>3, <2>1
      <4> QED BY <4>1, <1>2
    <3> QED BY <3>1, <3>2 DEF WellFramed
  <2>2. CASE i = Len(log) + 1
    <3>1. CASE log = <<>> BY <1>2, <2>2, <3>1
    <3>2. CASE log # <<>>
      <4>1. Len(log) \in 1 .. Len(log) BY <1>1, <3>2
      <4>2. i # 1 /\ i - 1 = Len(log) BY <4>1, <2>2, <1>3
      <4>3. log'[i - 1] = last /\ log'[i] = m BY <1>2, <2>2, <4>1, <4>2 DEF last
      <4> QED BY <3>2, <4>2, <4>3
    <3> QED BY <3>1, <3>2
  <2> QED BY <1>2, <1>3, <2>1, <2>2
<1>6. WellFramed' BY <1>5 DEF WellFramed
<1> QED BY <1>2, <1>3, <1>4, <1>6

(***************************************************************************)
(* How the number of values of an answer grows with the message m.         *)
(***************************************************************************)
LEMMA CountStep ==
    ASSUME TypeOK, NEW m, log' # <<>>, last' = m,
           Len(log') = Len(log) + 1, Len(log) \in Nat,
           \A i \in 1 .. Len(log) : log'[i] = log[i],
           DOMAIN log = 1 .. Len(log), DOMAIN log' = 1 .. Len(log'),
           cur' = cur, m.n = cur.n
    PROVE  /\ Cardinality(ValuesOf(cur.n)) \in Nat
           /\ m.msg = "value" =>
                Cardinality(ValuesOf(cur.n)') = Cardinality(ValuesOf(cur.n)) + 1
           /\ m.msg # "value" => ValuesOf(cur.n)' = ValuesOf(cur.n)
<1>1. log'[Len(log) + 1] = m BY DEF last
<1>2. IsFiniteSet(ValuesOf(cur.n))
  <2>1. IsFiniteSet(1 .. Len(log)) BY FS_Interval
  <2> QED BY <2>1, FS_Subset DEF ValuesOf
<1>3. Cardinality(ValuesOf(cur.n)) \in Nat BY <1>2, FS_CardinalityType
<1>4. Len(log) + 1 \notin ValuesOf(cur.n) BY DEF ValuesOf
<1>5. ASSUME m.msg = "value" PROVE ValuesOf(cur.n)' = ValuesOf(cur.n) \cup {Len(log) + 1}
  BY <1>1, <1>5 DEF ValuesOf
<1>6. ASSUME m.msg # "value" PROVE ValuesOf(cur.n)' = ValuesOf(cur.n)
  BY <1>1, <1>6 DEF ValuesOf
<1> QED BY <1>2, <1>3, <1>4, <1>5, <1>6, FS_AddElement

(***************************************************************************)
(* handleConn's stage tells what has been written last, and the answers    *)
(* stay framed.                                                            *)
(***************************************************************************)
LEMMA LogStep == IndInv /\ [Next]_vars => LogOK'
<1> SUFFICES ASSUME IndInv, [Next]_vars PROVE LogOK'
    OBVIOUS
<1>t. TypeOK /\ WellFramed /\ LastOK /\ Numbered /\ ResultsCounted BY DEF IndInv, LogOK
<1>c. /\ cur \in Served /\ cur.n \in Nat /\ cur.n + 1 \in Nat /\ cur.v \in Nat
      /\ cur.type \in Types \cup {"none"} /\ cur.result \in {"none", "ok", "error"}
  BY <1>t, CurType
<1>l. log \in Seq(Messages) /\ Len(log) \in Nat /\ DOMAIN log = 1 .. Len(log)
  BY <1>t DEF TypeOK
<1>e. log # <<>> => Len(log) \in 1 .. Len(log) /\ last \in Messages /\ last.n \in Nat
                     /\ last.v \in Nat
  <2> HAVE log # <<>>
  <2>1. Len(log) \in 1 .. Len(log) BY <1>l
  <2>2. last \in Messages BY <1>l, <2>1 DEF last
  <2> QED BY <2>1, <2>2 DEF Messages
<1>n. \A i \in 1 .. Len(log) : log[i].n \in Nat
  <2>1. \A i \in 1 .. Len(log) : log[i] \in Messages BY <1>l
  <2> QED BY <2>1 DEF Messages
<1>k. ASSUME UNCHANGED log PROVE last' = last /\ WellFramed'
  BY <1>k, <1>t DEF last, WellFramed
<1>v. ASSUME UNCHANGED <<log, cur>> PROVE ValuesOf(cur.n)' = ValuesOf(cur.n)
  BY <1>v DEF ValuesOf
<1> USE DEF client, dht
<1>1. CASE HandleRequest
  <2>1. PICK res \in {"ok", "error"} :
          cur' = [n |-> cur.n + 1, type |-> Head(inbox).type, result |-> res, v |-> 0]
    BY <1>1, ResultsType DEF HandleRequest
  <2>2. cur'.n = cur.n + 1 /\ cur'.result \in {"ok", "error"} BY <2>1
  <2>3. stage = "reading" /\ stage' = "answering" /\ UNCHANGED log
    BY <1>1 DEF HandleRequest
  <2>4. LastOK' BY <1>t, <1>c, <1>e, <1>k, <2>2, <2>3 DEF LastOK
  <2>5. Numbered'
    BY <1>t, <1>c, <1>n, <2>2, <2>3 DEF Numbered
  <2> QED BY <1>k, <2>3, <2>4, <2>5 DEF ResultsCounted, LogOK
<1>2. CASE WriteAnswer
  <2> DEFINE msg == IF cur.result = "ok" /\ cur.type = "DHT_STREAM" THEN "begin"
                    ELSE cur.result
             m == [n |-> cur.n, msg |-> msg, v |-> 0]
  <2>1. log' = Append(log, m) /\ UNCHANGED cur /\ stage = "answering"
    BY <1>2 DEF WriteAnswer, Write
  <2>2. msg \in {"ok", "error", "begin"} BY <1>t, <2>1 DEF LastOK
  <2>3. m \in Messages /\ m.n = cur.n /\ m.msg = msg /\ m.v = 0 BY <1>c, <2>2 DEF Messages
  <2>4. /\ stage' \in {"reading", "streaming", "piping", "subscribed"}
        /\ stage' = "reading" => msg \in {"ok", "error"}
        /\ stage' = "streaming" => msg = "begin"
        /\ stage' = "subscribed" => msg = "ok"
    BY <1>2, <1>t DEF WriteAnswer, LastOK
  <2> HIDE DEF m, msg
  <2>5. IF log = <<>> THEN m.n = 1 /\ m.msg \in Header ELSE Follows(last, m)
    BY <1>t, <1>c, <1>e, <2>1, <2>2, <2>3 DEF LastOK, Final, Follows, Header
  <2>6. /\ log' # <<>> /\ last' = m /\ WellFramed'
        /\ Len(log') = Len(log) + 1 /\ Len(log) \in Nat
        /\ \A i \in 1 .. Len(log) : log'[i] = log[i]
        /\ DOMAIN log = 1 .. Len(log) /\ DOMAIN log' = 1 .. Len(log')
    BY <1>t, <2>1, <2>3, <2>5, Appended
  <2>7. LastOK' BY <2>1, <2>2, <2>3, <2>4, <2>6 DEF LastOK, Final
  <2>8. Numbered'
    <3>1. ASSUME NEW i \in 1 .. Len(log') PROVE log'[i].n <= cur'.n
      <4>1. CASE i \in 1 .. Len(log) BY <1>t, <1>c, <1>n, <2>1, <2>6, <4>1 DEF Numbered
      <4>2. CASE i = Len(log') BY <1>c, <2>1, <2>3, <2>6, <4>2 DEF last
      <4> QED BY <2>6, <4>1, <4>2
    <3> QED BY <2>4, <3>1 DEF Numbered
  <2>9. ResultsCounted'
    <3>1. m.msg # "value" BY <2>2, <2>3
    <3>2. ValuesOf(cur.n)' = ValuesOf(cur.n) BY <1>t, <2>1, <2>3, <2>6, <3>1, CountStep
    <3>3. ValuesOf(cur.n) = {} BY <1>t, <1>c, <1>l, <2>1 DEF ValuesOf, Numbered, Messages
    <3>4. Cardinality(ValuesOf(cur.n)') = 0 BY <3>2, <3>3, FS_EmptySet
    <3> QED BY <2>3, <2>6, <3>4 DEF ResultsCounted
  <2> QED BY <2>6, <2>7, <2>8, <2>9 DEF LogOK
<1>3. CASE WriteValue
  <2> DEFINE m == [n |-> cur.n, msg |-> "value", v |-> cur.v]
  <2>1. log' = Append(log, m) /\ UNCHANGED cur /\ stage = "writing" /\ stage' = "streaming"
    BY <1>3 DEF WriteValue, Write
  <2>3. m \in Messages /\ m.n = cur.n /\ m.msg = "value" /\ m.v = cur.v
    BY <1>c DEF Messages
  <2>4. /\ log # <<>> /\ last.n = cur.n /\ last.msg \in {"begin", "value"}
        /\ cur.v = last.v + 1
    BY <1>t, <2>1 DEF LastOK
  <2> HIDE DEF m
  <2>5. Follows(last, m) BY <2>3, <2>4 DEF Follows, Header
  <2>6. /\ log' # <<>> /\ last' = m /\ WellFramed'
        /\ Len(log') = Len(log) + 1 /\ Len(log) \in Nat
        /\ \A i \in 1 .. Len(log) : log'[i] = log[i]
        /\ DOMAIN log = 1 .. Len(log) /\ DOMAIN log' = 1 .. Len(log')
    BY <1>t, <2>1, <2>3, <2>4, <2>5, Appended
  <2>7. LastOK' BY <2>1, <2>3, <2>6 DEF LastOK
  <2>8. Numbered'
    <3>1. ASSUME NEW i \in 1 .. Len(log') PROVE log'[i].n <= cur'.n
      <4>1. CASE i \in 1 .. Len(log) BY <1>t, <2>1, <2>6, <4>1 DEF Numbered
      <4>2. CASE i = Len(log') BY <1>c, <2>1, <2>3, <2>6, <4>2 DEF last
      <4> QED BY <2>6, <4>1, <4>2
    <3> QED BY <2>1, <3>1 DEF Numbered
  <2>9. ResultsCounted'
    <3>1. Cardinality(ValuesOf(cur.n)') = Cardinality(ValuesOf(cur.n)) + 1
      BY <1>t, <2>1, <2>3, <2>6, CountStep
    <3>2. Cardinality(ValuesOf(cur.n)) = last.v BY <1>t, <2>1 DEF ResultsCounted
    <3> QED BY <2>3, <2>4, <2>6, <3>1, <3>2 DEF ResultsCounted
  <2> QED BY <2>6, <2>7, <2>8, <2>9 DEF LogOK
<1>4. CASE \/ WriteEnd /\ Write("end", 0) /\ stage' = "reading"
           \/ PubsubMessage
  <2> DEFINE msg == IF stage = "streaming" THEN "end" ELSE "psmsg"
             m == [n |-> cur.n, msg |-> msg, v |-> 0]
  <2>1. /\ log' = Append(log, m) /\ UNCHANGED cur
        /\ \/ stage = "streaming" /\ stage' = "reading"
           \/ stage = "subscribed" /\ stage' = "subscribed"
    BY <1>4 DEF WriteEnd, PubsubMessage, Write
  <2>2. /\ stage = "streaming" => msg = "end"
        /\ stage = "subscribed" => msg = "psmsg"
        /\ msg \in {"end", "psmsg"}
    OBVIOUS
  <2>3. m \in Messages /\ m.n = cur.n /\ m.msg = msg BY <1>c DEF Messages
  <2> HIDE DEF m, msg
  <2>4. log # <<>> /\ Follows(last, m)
    BY <1>t, <2>1, <2>2, <2>3 DEF LastOK, Follows, Header
  <2>6. /\ log' # <<>> /\ last' = m /\ WellFramed'
        /\ Len(log') = Len(log) + 1 /\ Len(log) \in Nat
        /\ \A i \in 1 .. Len(log) : log'[i] = log[i]
        /\ DOMAIN log = 1 .. Len(log) /\ DOMAIN log' = 1 .. Len(log')
    BY <1>t, <2>1, <2>3, <2>4, Appended
  <2>7. LastOK' BY <2>1, <2>2, <2>3, <2>6 DEF LastOK, Final
  <2>8. Numbered'
    <3>1. ASSUME NEW i \in 1 .. Len(log') PROVE log'[i].n <= cur'.n
      <4>1. CASE i \in 1 .. Len(log) BY <1>t, <2>1, <2>6, <4>1 DEF Numbered
      <4>2. CASE i = Len(log') BY <1>c, <2>1, <2>3, <2>6, <4>2 DEF last
      <4> QED BY <2>6, <4>1, <4>2
    <3> QED BY <2>1, <3>1 DEF Numbered
  <2> QED BY <2>1, <2>6, <2>7, <2>8 DEF ResultsCounted, LogOK
<1>5. CASE TakeValue
  <2>1. stage = "streaming" /\ stage' = "writing" /\ UNCHANGED log /\ cur'.v = found
        /\ cur'.n = cur.n /\ forwarder = "offering"
    BY <1>5, <1>c DEF TakeValue, Served
  <2>2. found = last.v + 1 BY <2>1 DEF IndInv, ForwarderOK, Streaming, taken
  <2>3. ValuesOf(cur.n)' = ValuesOf(cur.n) BY <2>1 DEF ValuesOf
  <2>4. LastOK' BY <1>t, <1>k, <2>1, <2>2 DEF LastOK
  <2>5. Numbered' BY <1>t, <2>1 DEF Numbered
  <2>6. ResultsCounted' BY <1>t, <1>k, <2>1, <2>3 DEF ResultsCounted
  <2> QED BY <1>k, <2>1, <2>4, <2>5, <2>6 DEF LogOK
<1>6. ASSUME UNCHANGED <<log, cur>>, stage' \in {stage, "closed", "upgraded"}
      PROVE  LogOK'
  <2>1. LastOK' BY <1>t, <1>k, <1>6 DEF LastOK
  <2>2. Numbered' BY <1>t, <1>6 DEF Numbered
  <2>3. ResultsCounted' BY <1>t, <1>k, <1>v, <1>6 DEF ResultsCounted
  <2> QED BY <1>k, <1>6, <2>1, <2>2, <2>3 DEF LogOK
<1>7. CASE \/ \E q \in Requests : ClientSends(q)
           \/ ClientReads \/ ClientGoes \/ LeaveLoop \/ ReadFails \/ WriteAnswerFails
           \/ WriteValueFails \/ PubsubNextFails \/ QueryYields \/ QueryEnds \/ TimesOut
           \/ ForwarderStep \/ PipeEnds \/ PubsubWriteFails \/ WatcherStep
           \/ UNCHANGED vars
  <2>1. UNCHANGED <<log, cur>> /\ stage' \in {stage, "closed", "upgraded"}
    BY <1>7 DEF ClientSends, ClientReads, ClientGoes, LeaveLoop, ReadFails,
         WriteAnswerFails, WriteFails, WriteValueFails, PubsubNextFails, QueryYields, QueryEnds,
         TimesOut, ForwarderStep, ForwarderEnds, ForwarderGivesUp, PipeEnds,
         PubsubWriteFails, WatcherStep, WatcherDiscards, WatcherCancels, vars
  <2> QED BY <1>6, <2>1
<1>8. CASE WriteEnd \/ PubsubMessage
  <2>1. CASE WriteEnd /\ WriteFails /\ stage' = "closed"
    BY <1>6, <2>1 DEF WriteEnd, WriteFails
  <2> QED BY <1>4, <1>8, <2>1 DEF WriteEnd
<1>9. \/ HandleRequest \/ WriteAnswer \/ WriteValue \/ PubsubMessage \/ TakeValue
      \/ WriteEnd
      \/ \E q \in Requests : ClientSends(q)
      \/ ClientReads \/ ClientGoes \/ LeaveLoop \/ ReadFails \/ WriteAnswerFails
      \/ WriteValueFails \/ PubsubNextFails \/ QueryYields \/ QueryEnds \/ TimesOut
      \/ ForwarderStep \/ PipeEnds \/ PubsubWriteFails \/ WatcherStep \/ UNCHANGED vars
  BY DEF Next, HandlerStep, Rest
<1> QED BY ONLY <1>1, <1>2, <1>3, <1>5, <1>7, <1>8, <1>9

(***************************************************************************)
(* Between the query and handleConn a result is with the forwarder or      *)
(* taken, unless the timeout made the forwarder give it up.                *)
(***************************************************************************)
LEMMA ForwarderKept == IndInv /\ [Next]_vars => ForwarderOK'
<1> SUFFICES ASSUME IndInv, [Next]_vars PROVE ForwarderOK'
    OBVIOUS
<1>t. TypeOK /\ ForwarderOK /\ LastOK /\ LastOK' /\ found \in Nat
  BY LogStep, ControlAssumption DEF IndInv, LogOK, TypeOK
<1>c. /\ cur \in Served /\ cur.v \in Nat BY <1>t, CurType
<1>k. ASSUME UNCHANGED log PROVE last' = last BY <1>k DEF last
<1> USE DEF client, dht
<1>1. CASE HandleRequest
  <2> DEFINE q == Head(inbox)
  <2>1. PICK res \in {"ok", "error"} :
          /\ cur' = [n |-> cur.n + 1, type |-> q.type, result |-> res, v |-> 0]
          /\ IF StreamedQuery(q, res)
             THEN forwarder' = "receiving" /\ found' = 0 /\ ctxDone' = FALSE
             ELSE forwarder' = forwarder
    BY <1>1, ResultsType DEF HandleRequest
  <2>2. cur'.type = q.type /\ cur'.result = res BY <2>1
  <2>3. stage = "reading" /\ stage' = "answering" BY <1>1 DEF HandleRequest
  <2>4. forwarder \in {"none", "ended"} BY <1>t, <2>3 DEF ForwarderOK, Streaming
  <2>5. CASE StreamedQuery(q, res)
    <3>1. Streaming' /\ taken' = 0
      BY <2>2, <2>3, <2>5 DEF StreamedQuery, Streaming, taken
    <3> QED BY <2>1, <2>5, <3>1 DEF ForwarderOK
  <2>6. CASE ~StreamedQuery(q, res)
    <3>1. ~Streaming' BY <2>2, <2>3, <2>6 DEF StreamedQuery, Streaming
    <3> QED BY <2>1, <2>4, <2>6, <3>1 DEF ForwarderOK
  <2> QED BY <2>5, <2>6
<1>2. CASE WriteAnswer
  <2>1. stage = "answering" /\ UNCHANGED <<cur, dht>> BY <1>2 DEF WriteAnswer
  <2>2. CASE Streaming
    <3>1. stage' = "streaming" BY <1>2, <2>1, <2>2 DEF WriteAnswer, Streaming
    <3>2. last'.v = 0
      <4>1. log \in Seq(Messages) BY <1>t DEF TypeOK
      <4>2. log' = Append(log, [n |-> cur.n, msg |-> "begin", v |-> 0])
        BY <1>2, <2>1, <2>2 DEF WriteAnswer, Write, Streaming
      <4>3. [n |-> cur.n, msg |-> "begin", v |-> 0] \in Messages
        BY <1>t, CurType DEF Messages
      <4>4. last' = [n |-> cur.n, msg |-> "begin", v |-> 0]
        BY <4>1, <4>2, <4>3, AppendFacts DEF last
      <4> QED BY <4>4
    <3>3. Streaming' /\ taken' = 0 /\ taken = 0
      BY <2>1, <3>1, <3>2 DEF Streaming, taken
    <3> QED BY <1>t, <2>1, <2>2, <3>3 DEF ForwarderOK
  <2>3. CASE ~Streaming
    <3>1. stage' \notin {"streaming", "writing", "answering", "closed"}
      BY <1>2, <1>t, <2>1, <2>3 DEF WriteAnswer, Streaming, LastOK
    <3>2. ~Streaming' BY <3>1 DEF Streaming
    <3> QED BY <1>t, <2>1, <2>3, <3>2 DEF ForwarderOK
  <2> QED BY <2>2, <2>3
<1>3. CASE TakeValue
  <2>1. /\ stage = "streaming" /\ stage' = "writing" /\ forwarder = "offering"
        /\ forwarder' = "receiving" /\ UNCHANGED <<found, ctxDone, timedOut>>
        /\ cur'.v = found
    BY <1>3, <1>c DEF TakeValue, Served
  <2>2. Streaming /\ Streaming' /\ taken' = found BY <2>1 DEF Streaming, taken
  <2> QED BY <1>t, <2>1, <2>2 DEF ForwarderOK
<1>4. CASE WriteValue
  <2>1. stage = "writing" /\ stage' = "streaming" /\ UNCHANGED <<cur, dht>>
    BY <1>4 DEF WriteValue
  <2>2. last'.v = cur.v
    <3>1. log \in Seq(Messages) BY <1>t DEF TypeOK
    <3>2. log' = Append(log, [n |-> cur.n, msg |-> "value", v |-> cur.v])
      BY <1>4 DEF WriteValue, Write
    <3>3. [n |-> cur.n, msg |-> "value", v |-> cur.v] \in Messages
      BY <1>t, CurType DEF Messages
    <3>4. last' = [n |-> cur.n, msg |-> "value", v |-> cur.v]
      BY <3>1, <3>2, <3>3, AppendFacts DEF last
    <3> QED BY <3>4
  <2>3. Streaming /\ Streaming' /\ taken' = taken BY <2>1, <2>2 DEF Streaming, taken
  <2> QED BY <1>t, <2>1, <2>3 DEF ForwarderOK
<1>5. ASSUME stage' = "closed" PROVE ForwarderOK'
  BY <1>5 DEF ForwarderOK, Streaming
<1>6. CASE WriteEnd
  <2>1. stage' \in {"reading", "closed"} /\ forwarder' = "ended" BY <1>6 DEF WriteEnd
  <2> QED BY <2>1 DEF ForwarderOK, Streaming
<1>7. CASE QueryYields
  <2>1. UNCHANGED <<log, stage, cur, ctxDone, timedOut>> /\ forwarder = "receiving"
        /\ forwarder' = "offering" /\ found' = found + 1
    BY <1>7 DEF QueryYields
  <2>2. (Streaming' <=> Streaming) /\ taken' = taken
    BY <1>k, <2>1 DEF Streaming, taken
  <2> QED BY <1>t, <2>1, <2>2 DEF ForwarderOK
<1>8. CASE TimesOut
  <2>1. UNCHANGED <<log, stage, cur, found, forwarder>> /\ timedOut'
    BY <1>8 DEF TimesOut
  <2>2. (Streaming' <=> Streaming) /\ taken' = taken
    BY <1>k, <2>1 DEF Streaming, taken
  <2> QED BY <1>t, <2>1, <2>2 DEF ForwarderOK
<1>9. CASE ForwarderStep
  <2>1. /\ UNCHANGED <<log, stage, cur, found, timedOut>> /\ forwarder' = "ended"
        /\ forwarder = "receiving" \/ (forwarder = "offering" /\ ctxDone)
    BY <1>9 DEF ForwarderStep, ForwarderEnds, ForwarderGivesUp
  <2>2. (Streaming' <=> Streaming) /\ taken' = taken
    BY <1>k, <2>1 DEF Streaming, taken
  <2> QED BY <1>t, <2>1, <2>2 DEF ForwarderOK
<1>10. CASE LeaveLoop
  <2>1. /\ stage = "reading" /\ stage' \in {"closed", "upgraded"} /\ forwarder' = forwarder
    BY <1>10 DEF LeaveLoop
  <2>2. forwarder \in {"none", "ended"} BY <1>t, <2>1 DEF ForwarderOK, Streaming
  <2> QED BY <2>1, <2>2 DEF ForwarderOK, Streaming
<1>11. ASSUME UNCHANGED <<stage, cur, found, forwarder, ctxDone, timedOut>>,
              UNCHANGED log \/ stage = "subscribed"
       PROVE  ForwarderOK'
  <2>1. Streaming' <=> Streaming BY <1>11 DEF Streaming
  <2>2. Streaming => taken' = taken BY <1>k, <1>11 DEF Streaming, taken
  <2> QED BY <1>t, <1>11, <2>1, <2>2 DEF ForwarderOK
<1>12. CASE \/ \E q \in Requests : ClientSends(q)
            \/ ClientReads \/ ClientGoes \/ QueryEnds \/ PubsubMessage \/ WatcherStep
            \/ UNCHANGED vars
  <2>1. /\ UNCHANGED <<stage, cur, found, forwarder, ctxDone, timedOut>>
        /\ UNCHANGED log \/ stage = "subscribed"
    BY <1>12 DEF ClientSends, ClientReads, ClientGoes, QueryEnds, PubsubMessage,
                 WatcherStep, WatcherDiscards, WatcherCancels, vars
  <2> QED BY <1>11, <2>1
<1>13. CASE \/ ReadFails \/ WriteAnswerFails \/ WriteValueFails \/ PubsubNextFails
            \/ PipeEnds \/ PubsubWriteFails
  <2>1. stage' = "closed"
    BY <1>13 DEF ReadFails, WriteAnswerFails, WriteValueFails, PubsubNextFails, PipeEnds,
                 PubsubWriteFails
  <2> QED BY <1>5, <2>1
<1>14. \/ HandleRequest \/ WriteAnswer \/ WriteValue \/ PubsubMessage \/ TakeValue
       \/ WriteEnd
       \/ \E q \in Requests : ClientSends(q)
       \/ ClientReads \/ ClientGoes \/ LeaveLoop \/ ReadFails \/ WriteAnswerFails
       \/ WriteValueFails \/ PubsubNextFails \/ QueryYields \/ QueryEnds \/ TimesOut
       \/ ForwarderStep \/ PipeEnds \/ PubsubWriteFails \/ WatcherStep \/ UNCHANGED vars
  BY DEF Next, HandlerStep, Rest
<1> QED
  BY ONLY <1>1, <1>2, <1>3, <1>4, <1>6, <1>7, <1>8, <1>9, <1>10, <1>12, <1>13, <1>14

(***************************************************************************)
(* A new connection is in a state of the inductive invariant.              *)
(***************************************************************************)
LEMMA InitIndInv == Init => IndInv
<1> SUFFICES ASSUME Init PROVE IndInv
    OBVIOUS
<1> USE ControlAssumption DEF Init, NoRequest
<1>1. TypeOK
  <2>1. cur \in Served BY DEF Served
  <2>2. inbox \in Seq(Requests) /\ log \in Seq(Messages) OBVIOUS
  <2>3. sent \in 0 .. MaxReqs /\ found \in 0 .. MaxValues /\ seen \in Nat OBVIOUS
  <2>4. gone \in BOOLEAN /\ ctxDone \in BOOLEAN /\ timedOut \in BOOLEAN OBVIOUS
  <2>5. /\ stage = "reading" /\ query = "none" /\ forwarder = "none" /\ held = "none"
        /\ watcher = "none"
    OBVIOUS
  <2> QED BY ONLY <2>1, <2>2, <2>3, <2>4, <2>5 DEF TypeOK
<1>2. WellFramed BY DEF WellFramed
<1>3. LastOK /\ Numbered /\ ResultsCounted BY DEF LastOK, Numbered, ResultsCounted
<1>4. ForwarderOK /\ HeldOK BY DEF ForwarderOK, Streaming, HeldOK
<1> QED BY <1>1, <1>2, <1>3, <1>4 DEF IndInv, LogOK

(***************************************************************************)
(* The inductive invariant holds in every reachable state.                 *)
(***************************************************************************)
THEOREM Invariance == Spec => []IndInv
<1>1. IndInv /\ [Next]_vars => IndInv'
  BY TypeStep, LogStep, ForwarderKept, HeldStep DEF IndInv
<1> QED BY InitIndInv, <1>1, PTL DEF Spec

(***************************************************************************)
(* The answers on a control connection are framed whatever the client      *)
(* sends ahead and however slowly it reads, and a closed connection holds  *)
(* nothing.                                                                *)
(***************************************************************************)
THEOREM ConnSafe == Spec => []ConnInv
<1>1. IndInv => NothingHeld BY DEF IndInv, TypeOK, HeldOK, NothingHeld
<1>2. IndInv => ConnInv BY <1>1 DEF IndInv, LogOK, ConnInv
<1> QED BY <1>2, Invariance, PTL

(***************************************************************************)
(* A streamed DHT answer that ends without a timeout holds every result of *)
(* its query.                                                              *)
(***************************************************************************)
THEOREM ResultsSafe == Spec => []NoResultLost
<1>1. IndInv => NoResultLost
  BY DEF IndInv, LogOK, ForwarderOK, Streaming, taken, ResultsCounted, NoResultLost
<1> QED BY <1>1, Invariance, PTL

-----------------------------------------------------------------------------
(***************************************************************************)
(* The stream pipe.                                                        *)
(***************************************************************************)
(***************************************************************************)
(* A goroutine of doStreamPipe that is done has closed what it wrote to,   *)
(* and nothing but the goroutine down closes the socket.                   *)
(***************************************************************************)
DstClosed ==
    /\ pipe["down"] = "done" <=> c = "closed"
    /\ pipe["up"] = "done" => s # "open"

(***************************************************************************)
(* Who ended the pipe down: a stream that is closed under it was given up  *)
(* by one of the two ends, and a stream it left open gets no more chunks.  *)
(***************************************************************************)
DownEndedBy ==
    /\ pipe["down"] # "done" /\ s # "open" => clientEnd # "open" \/ remoteEnd = "reset"
    /\ pipe["down"] = "done" /\ s = "open" => remoteEnd # "open"

(***************************************************************************)
(* Who ended the pipe up, while the remote goes on writing: either the     *)
(* client closed its socket with something meant for it unread, or it has  *)
(* written its last and has been read to the end.                          *)
(***************************************************************************)
LeftUnread == clientEnd = "closed" /\ consumed["down"] < wrote["down"]

UpEndedBy ==
    remoteEnd = "open" =>
      /\ pipe["up"] # "done" /\ (s # "open" \/ pipe["down"] = "done") => LeftUnread
      /\ pipe["up"] = "done" => LeftUnread \/ (clientEnd # "open" /\ ~Pending("up"))

ChunkInHand == \A d \in Dirs : pipe[d] = "writing" => Pending(d)

PipeIndInv ==
    /\ PipeTypeOK /\ ChunkInHand
    /\ DstClosed /\ DownEndedBy /\ UpEndedBy /\ NothingLostDown

(***************************************************************************)
(* Both copies start with both ends open.                                  *)
(***************************************************************************)
LEMMA PipeStarts == PipeInit => PipeIndInv
  BY PipeAssumption
     DEF PipeInit, PipeIndInv, PipeTypeOK, Dirs, DstClosed, DownEndedBy, UpEndedBy,
         LeftUnread, ChunkInHand, NothingLostDown, Pending

(***************************************************************************)
(* Every step of the two ends and the two goroutines keeps the invariant.  *)
(***************************************************************************)
LEMMA PipeKept == PipeIndInv /\ [PipeNext]_pipeVars => PipeIndInv'
<1> SUFFICES ASSUME PipeIndInv, [PipeNext]_pipeVars PROVE PipeIndInv'
    OBVIOUS
<1> USE PipeAssumption
    DEF PipeIndInv, PipeTypeOK, Dirs, DstClosed, DownEndedBy, UpEndedBy, LeftUnread,
        ChunkInHand, NothingLostDown, Pending, ends
<1>1. CASE ClientWrites
  BY <1>1 DEF ClientWrites
<1>2. CASE RemoteWrites
  BY <1>2 DEF RemoteWrites
<1>3. CASE ClientTakes
  BY <1>3 DEF ClientTakes
<1>4. CASE RemoteTakes
  BY <1>4 DEF RemoteTakes
<1>5. CASE ClientHalfCloses \/ ClientCloses
  BY <1>5 DEF ClientHalfCloses, ClientCloses
<1>6. CASE RemoteHalfCloses \/ RemoteResets
  BY <1>6 DEF RemoteHalfCloses, RemoteResets
<1>7. ASSUME NEW d \in Dirs, ReadChunk(d) PROVE PipeIndInv'
  BY <1>7 DEF ReadChunk
<1>8. ASSUME NEW d \in Dirs, WriteChunk(d) PROVE PipeIndInv'
  BY <1>8 DEF WriteChunk
<1>9. ASSUME NEW d \in Dirs, Ends(d) PROVE PipeIndInv'
  BY <1>9 DEF Ends, EndOfFile, Readable, CloseDst
<1>10. ASSUME NEW d \in Dirs, Fails(d) PROVE PipeIndInv'
  <2>1. CASE d = "up"
    BY <1>10, <2>1 DEF Fails, Readable, Writable, PeerReset, CloseDst
  <2>2. CASE d = "down"
    BY <1>10, <2>2 DEF Fails, Readable, Writable, PeerReset, CloseDst
  <2> QED BY <2>1, <2>2
<1>11. CASE Done \/ UNCHANGED pipeVars
  BY <1>11 DEF Done, BothDone, pipeVars
<1> QED BY <1>1, <1>2, <1>3, <1>4, <1>5, <1>6, <1>7, <1>8, <1>9, <1>10, <1>11
        DEF PipeNext, PipeStep

(***************************************************************************)
(* A direction that is done has lost nothing that its ends did not give    *)
(* up: nothing down while the client keeps both halves of its socket open  *)
(* and the remote does not reset, nothing up while the remote talks and    *)
(* the client has read everything.                                         *)
(***************************************************************************)
THEOREM PipeSafe == PipeSpec => []PipeInv
<1>1. PipeIndInv => NothingLostUp
  BY DEF PipeIndInv, PipeTypeOK, Dirs, UpEndedBy, LeftUnread, NothingLostUp
<1>2. PipeIndInv => PipeInv
  BY <1>1 DEF PipeIndInv, PipeInv
<1> QED BY <1>2, PipeStarts, PipeKept, PTL DEF PipeSpec

-----------------------------------------------------------------------------
(***************************************************************************)
(* The life of the process.                                                *)
(***************************************************************************)
(***************************************************************************)
(* What the three goroutines in Close have done so far shows in the flag   *)
(* and the socket; only a closed daemon's process exits; and the waiter    *)
(* and the timer call Close once, as the last thing they do.               *)
(***************************************************************************)
Begun == {"host", "listener", "socket", "done"}

CloseOrder ==
    /\ closed <=> \E x \in Closers : closer[x] \in Begun
    /\ \A x \in Closers : closer[x] \in {"socket", "done"} => ~socketFile
    /\ process = "exited" => closed
    /\ process = "killed" => closer["signal"] = "done"
    /\ closer["await"] # "no" => waiter = "returned"
    /\ closer["timer"] # "no" => timer = "fired"

(***************************************************************************)
(* awaitTermination exists only once a client was told OK; when its Wait   *)
(* has returned, a client has left and who is counted came later.          *)
(***************************************************************************)
WaiterHadClient ==
    /\ waiter # "none" => \E k \in Clients : conn[k] \in {"open", "left"}
    /\ waiter = "returned" => /\ \A k \in Counted : joined[k] = "returned"
                              /\ \E k \in Clients : conn[k] = "left"

(***************************************************************************)
(* As long as the idle timer may kill the daemon, no client has upgraded   *)
(* while the timer's goroutine slept in its select, or since it stopped.   *)
(***************************************************************************)
Unheard == {"no", "starting", "selecting", "cancelled", "late"}

TimerUnheard ==
    /\ timer = "fired" => timeUp
    /\ timer \in {"starting", "selecting", "cancelled", "parked", "fired"} =>
         \A k \in Clients : foundTimer[k] \in Unheard

LifeIndInv ==
    /\ IsFiniteSet(Clients)
    /\ LifeTypeOK
    /\ WaiterNotForgotten
    /\ CloseOrder
    /\ WaiterHadClient
    /\ TimerUnheard

(***************************************************************************)
(* The set terminateWG counts is finite, so its cardinality is a number    *)
(* that one client more or less changes by one.                            *)
(***************************************************************************)
LEMMA CountedFinite ==
    ASSUME IsFiniteSet(Clients)
    PROVE  /\ IsFiniteSet(Counted)
           /\ Cardinality(Counted) \in Nat
           /\ Cardinality(Counted) = 0 <=> Counted = {}
<1>1. Counted \subseteq Clients BY DEF Counted
<1>2. IsFiniteSet(Counted)
  BY <1>1, FS_Subset
<1> QED BY <1>2, FS_CardinalityType, FS_EmptySet

(***************************************************************************)
(* The daemon starts in a state of the inductive invariant.                *)
(***************************************************************************)
LEMMA LifeStarts == LifeInit => LifeIndInv
<1> SUFFICES ASSUME LifeInit PROVE LifeIndInv
    OBVIOUS
<1>1. LifeTypeOK
  BY LifecycleAssumption DEF LifeInit, LifeTypeOK, Closers, CloseStages, TimerStages, WaiterStages
<1>2. WaiterNotForgotten
  <2>1. Counted = {} BY DEF LifeInit, Counted
  <2> QED BY <2>1, FS_EmptySet DEF LifeInit, WaiterNotForgotten
<1>3. CloseOrder /\ WaiterHadClient
  BY DEF LifeInit, CloseOrder, Begun, WaiterHadClient, Closers
<1>4. TimerUnheard
  BY DEF LifeInit, TimerUnheard, Unheard
<1> QED BY LifecycleAssumption, <1>1, <1>2, <1>3, <1>4 DEF LifeIndInv

(***************************************************************************)
(* Every step keeps the types; Done never takes terminateWG below zero.    *)
(***************************************************************************)
LEMMA LifeTypeStep == LifeIndInv /\ [LifeNext]_lifeVars => LifeTypeOK'
<1> SUFFICES ASSUME LifeIndInv, [LifeNext]_lifeVars PROVE LifeTypeOK'
    OBVIOUS
<1> USE DEF LifeIndInv, LifeTypeOK, history, idleTimer, waitGroup, closing, mainLoop
<1>1. CASE ServeChecks \/ AcceptFails
  BY <1>1 DEF ServeChecks, AcceptFails
<1>2. ASSUME NEW k \in Clients, Leave(k) PROVE LifeTypeOK'
  <2>1. k \in Counted BY <1>2 DEF Leave, Counted
  <2>2. wg \in Nat \ {0} BY <2>1, CountedFinite DEF WaiterNotForgotten
  <2> QED BY <1>2, <2>2 DEF Leave, WaiterStages
<1>3. ASSUME NEW k \in Clients,
             Connect(k) \/ AcceptConn(k) \/ HangUp(k) \/ Count(k) \/ AwaitOnce(k)
      PROVE LifeTypeOK'
  BY <1>3 DEF Connect, AcceptConn, HangUp, Count, AwaitOnce, WaiterStages
<1>4. ASSUME NEW k \in Clients, CancelTimer(k) PROVE LifeTypeOK'
  <2>1. timer' \in TimerStages BY <1>4 DEF CancelTimer, TimerStages
  <2> QED BY <1>4, <2>1 DEF CancelTimer
<1>5. CASE WaiterWaits \/ WaiterWakes
  BY <1>5 DEF WaiterWaits, WaiterWakes, WaiterStages
<1>6. CASE TimerArms \/ TimerSelects \/ TimeUp \/ Signal
  <2>1. timer' \in TimerStages /\ timeUp' \in BOOLEAN /\ caught' \in BOOLEAN
    BY <1>6 DEF TimerArms, TimerSelects, TimeUp, Signal, TimerStages
  <2>2. UNCHANGED <<conn, foundTimer, joined, wg, waiter, closer, closed, listening, socketFile,
                    serve, process>>
    BY <1>6 DEF TimerArms, TimerSelects, TimeUp, Signal
  <2> QED BY <2>1, <2>2
<1>7. ASSUME NEW x \in Closers, Close(x) PROVE LifeTypeOK'
  <2> USE <1>7 DEF Close, SetClosed, CloseHost, CloseListener, clearUnixSockets
  <2>1. closer' \in [Closers -> CloseStages] BY DEF CloseStep, CloseStages
  <2>2. closed' \in BOOLEAN /\ listening' \in BOOLEAN /\ socketFile' \in BOOLEAN
    OBVIOUS
  <2>3. UNCHANGED <<conn, foundTimer, joined, timer, timeUp, wg, waiter, caught, serve, process>>
    OBVIOUS
  <2> QED BY <2>1, <2>2, <2>3
<1>8. CASE SignalExits \/ Over \/ UNCHANGED lifeVars
  BY <1>8 DEF SignalExits, Over, lifeVars
<1> QED BY <1>1, <1>2, <1>3, <1>4, <1>5, <1>6, <1>7, <1>8 DEF LifeNext

(***************************************************************************)
(* Every step keeps the counter equal to the number of counted clients,    *)
(* and the step that takes it to zero wakes the waiter.                    *)
(***************************************************************************)
LEMMA LifeCountStep == LifeIndInv /\ [LifeNext]_lifeVars => WaiterNotForgotten'
<1> SUFFICES ASSUME LifeIndInv, [LifeNext]_lifeVars PROVE WaiterNotForgotten'
    OBVIOUS
<1> USE CountedFinite
    DEF LifeIndInv, LifeTypeOK, WaiterNotForgotten, history, idleTimer, waitGroup, closing, mainLoop
<1>1. ASSUME NEW k \in Clients, Count(k) PROVE WaiterNotForgotten'
  <2>1. k \notin Counted BY <1>1 DEF Count, Counted
  <2>2. Counted' = Counted \cup {k} BY <1>1 DEF Count, Counted
  <2>3. Cardinality(Counted') = Cardinality(Counted) + 1
    BY <2>1, <2>2, FS_AddElement
  <2> QED BY <1>1, <2>3 DEF Count
<1>2. ASSUME NEW k \in Clients, Leave(k) PROVE WaiterNotForgotten'
  <2>1. k \in Counted BY <1>2 DEF Leave, Counted
  <2>2. Counted' = Counted \ {k} BY <1>2 DEF Leave, Counted
  <2>3. Cardinality(Counted') = Cardinality(Counted) - 1
    BY <2>1, <2>2, FS_RemoveElement
  <2>4. wg \in Nat \ {0} BY <2>1
  <2> QED BY <1>2, <2>3, <2>4 DEF Leave
<1>3. ASSUME NEW k \in Clients,
             Connect(k) \/ AcceptConn(k) \/ HangUp(k) \/ CancelTimer(k)
             \/ AwaitOnce(k)
      PROVE WaiterNotForgotten'
  <2>1. Counted' = Counted
    BY <1>3 DEF Connect, AcceptConn, HangUp, CancelTimer, AwaitOnce, Counted
  <2> QED BY <1>3, <2>1 DEF Connect, AcceptConn, HangUp, CancelTimer, AwaitOnce
<1>4. CASE WaiterWaits \/ WaiterWakes
  BY <1>4 DEF WaiterWaits, WaiterWakes, Counted
<1>5. CASE UNCHANGED <<conn, wg, waiter>>
  BY <1>5 DEF Counted
<1> QED BY <1>1, <1>2, <1>3, <1>4, <1>5
        DEF LifeNext, lifeVars, ServeChecks, AcceptFails, TimerArms, TimerSelects, TimeUp,
            Signal, Close, SetClosed, CloseHost, CloseListener,
            clearUnixSockets, SignalExits, Over

(***************************************************************************)
(* Every step keeps the order of Close.                                    *)
(***************************************************************************)
LEMMA CloseStepOrder == LifeIndInv /\ [LifeNext]_lifeVars => CloseOrder'
<1> SUFFICES ASSUME LifeIndInv, [LifeNext]_lifeVars PROVE CloseOrder'
    OBVIOUS
<1> USE DEF LifeIndInv, LifeTypeOK, CloseOrder, Begun, history, idleTimer, waitGroup, closing,
            mainLoop
<1>1. CASE ServeChecks \/ SignalExits
  BY <1>1 DEF ServeChecks, SignalExits, Running
<1>2. ASSUME NEW x \in Closers, Close(x) PROVE CloseOrder'
  <2> USE <1>2 DEF Close, SetClosed, CloseHost, CloseListener, clearUnixSockets, CloseStep
  <2>0. Running /\ UNCHANGED process
    OBVIOUS
  <2>1. closed' /\ closer'[x] \in Begun
    OBVIOUS
  <2>2. \A y \in Closers : closer'[y] \in {"socket", "done"} => ~socketFile'
    OBVIOUS
  <2>3. UNCHANGED <<waiter, timer>> /\ (closer[x] = "no" => Called(x))
    OBVIOUS
  <2>4. \A y \in Closers \ {x} : closer'[y] = closer[y]
    OBVIOUS
  <2>5. /\ closer'["await"] # "no" => waiter' = "returned"
        /\ closer'["timer"] # "no" => timer' = "fired"
    <3> HIDE <1>2
    <3> QED BY <2>3, <2>4 DEF Called, Closers
  <2> HIDE <1>2
  <2> QED BY <2>0, <2>1, <2>2, <2>5 DEF Running, Closers
<1>3. CASE WaiterWaits \/ WaiterWakes
  BY <1>3 DEF WaiterWaits, WaiterWakes, Running
<1>4. CASE \/ TimerArms \/ TimerSelects \/ TimeUp
           \/ \E k \in Clients : CancelTimer(k) \/ AwaitOnce(k) \/ Leave(k)
  <2>1. UNCHANGED <<closer, closed, socketFile, process>>
    BY <1>4 DEF TimerArms, TimerSelects, TimeUp, CancelTimer, AwaitOnce, Leave
  <2>2. /\ waiter = "returned" => waiter' = "returned"
        /\ timer = "fired" => timer' = "fired"
    BY <1>4 DEF TimerArms, TimerSelects, TimeUp, CancelTimer, AwaitOnce, Leave
  <2> QED BY <2>1, <2>2
<1>5. CASE UNCHANGED <<closer, closed, socketFile, process, waiter, timer>>
  BY <1>5
<1> QED BY <1>1, <1>2, <1>3, <1>4, <1>5
        DEF LifeNext, lifeVars, AcceptFails, Connect, AcceptConn, HangUp, Count, Signal,
            Over

(***************************************************************************)
(* Every step keeps what is known of the clients Wait waited for: when it  *)
(* returns nobody is counted, and who is counted later is marked so.       *)
(***************************************************************************)
LEMMA WaiterStep == LifeIndInv /\ [LifeNext]_lifeVars => WaiterHadClient'
<1> SUFFICES ASSUME LifeIndInv, [LifeNext]_lifeVars PROVE WaiterHadClient'
    OBVIOUS
<1> USE DEF LifeIndInv, LifeTypeOK, WaiterHadClient, history, idleTimer, waitGroup, closing,
            mainLoop
<1>1. ASSUME NEW k \in Clients, AwaitOnce(k) \/ Leave(k) PROVE WaiterHadClient'
  <2>1. waiter' = "returned" => waiter = "returned"
    BY <1>1 DEF AwaitOnce, Leave
  <2>2. Counted' \subseteq Counted /\ joined' = joined
    BY <1>1 DEF AwaitOnce, Leave, Counted
  <2>3. conn' [k] \in {"open", "left"}
    BY <1>1 DEF AwaitOnce, Leave
  <2>4. \A d \in Clients : conn[d] = "left" => conn'[d] = "left"
    BY <1>1 DEF AwaitOnce, Leave
  <2> QED BY <2>1, <2>2, <2>3, <2>4
<1>2. ASSUME NEW k \in Clients, Connect(k) \/ AcceptConn(k) \/ HangUp(k) \/ CancelTimer(k)
      PROVE WaiterHadClient'
  <2>1. \A d \in Clients : conn[d] \in {"open", "left"} => conn'[d] = conn[d]
    BY <1>2 DEF Connect, AcceptConn, HangUp, CancelTimer
  <2>2. Counted' = Counted /\ UNCHANGED <<waiter, joined>>
    BY <1>2 DEF Connect, AcceptConn, HangUp, CancelTimer, Counted
  <2> QED BY <2>1, <2>2
<1>3. ASSUME NEW k \in Clients, Count(k) PROVE WaiterHadClient'
  <2>1. \A d \in Clients : conn[d] \in {"open", "left"} => conn'[d] = conn[d]
    BY <1>3 DEF Count
  <2>2. Counted' = Counted \cup {k} /\ UNCHANGED waiter
    BY <1>3 DEF Count, Counted
  <2>3. joined' = [joined EXCEPT ![k] = waiter]
    BY <1>3 DEF Count
  <2>4. Counted \subseteq Clients BY DEF Counted
  <2> QED BY <2>1, <2>2, <2>3, <2>4
<1>4. CASE WaiterWaits \/ WaiterWakes
  <2>1. UNCHANGED <<conn, joined>> /\ Counted' = Counted
    BY <1>4 DEF WaiterWaits, WaiterWakes, Counted
  <2>2. waiter # "none"
    BY <1>4 DEF WaiterWaits, WaiterWakes
  <2>3. waiter' = "returned" => Counted = {}
    BY <1>4, CountedFinite DEF WaiterWaits, WaiterWakes, WaiterNotForgotten
  <2> QED BY <2>1, <2>2, <2>3 DEF Counted
<1>5. CASE UNCHANGED <<conn, joined, waiter>>
  BY <1>5 DEF Counted
<1> QED BY <1>1, <1>2, <1>3, <1>4, <1>5
        DEF LifeNext, lifeVars, ServeChecks, AcceptFails,
            TimerArms, TimerSelects, TimeUp, Signal, Close, SetClosed, CloseHost,
            CloseListener, clearUnixSockets, SignalExits, Over

(***************************************************************************)
(* Every step keeps what is known of the clients the idle timer has not    *)
(* heard: the client that finds it asleep stops it for good.               *)
(***************************************************************************)
LEMMA TimerStep == LifeIndInv /\ [LifeNext]_lifeVars => TimerUnheard'
<1> SUFFICES ASSUME LifeIndInv, [LifeNext]_lifeVars PROVE TimerUnheard'
    OBVIOUS
<1> USE DEF LifeIndInv, LifeTypeOK, TimerUnheard, Unheard, history, idleTimer, waitGroup, closing,
            mainLoop
<1>1. ASSUME NEW k \in Clients, CancelTimer(k) PROVE TimerUnheard'
  <2>1. \A d \in Clients \ {k} : foundTimer'[d] = foundTimer[d]
    BY <1>1 DEF CancelTimer
  <2>2. foundTimer'[k] = (IF timeUp THEN "late" ELSE timer) /\ UNCHANGED timeUp
    BY <1>1 DEF CancelTimer
  <2>3. \/ timer' = "stopped"
        \/ timer = "selecting" /\ timer' = "cancelled"
        \/ timer # "parked" /\ timer' = timer
    BY <1>1 DEF CancelTimer
  <2> QED BY <2>1, <2>2, <2>3 DEF TimerStages
<1>2. CASE TimerArms \/ TimerSelects \/ TimeUp
  BY <1>2 DEF TimerArms, TimerSelects, TimeUp
<1>3. CASE UNCHANGED <<foundTimer, timer, timeUp>>
  BY <1>3
<1> QED BY <1>1, <1>2, <1>3
        DEF LifeNext, lifeVars, ServeChecks, AcceptFails, Connect, AcceptConn, HangUp, Count,
            AwaitOnce, Leave, WaiterWaits, WaiterWakes, Signal, Close, SetClosed, CloseHost,
            CloseListener, clearUnixSockets, SignalExits, Over

(***************************************************************************)
(* The inductive invariant holds in every reachable state.                 *)
(***************************************************************************)
THEOREM LifeInvariance == LifeSpec => []LifeIndInv
<1>1. LifeIndInv /\ [LifeNext]_lifeVars => LifeIndInv'
  BY LifeTypeStep, LifeCountStep, CloseStepOrder, WaiterStep, TimerStep DEF LifeIndInv
<1> QED BY <1>1, LifeStarts, PTL DEF LifeSpec

(***************************************************************************)
(* The counter of persistent clients is exact, no wake-up of               *)
(* awaitTermination is lost, and only a Close that was cut short leaves    *)
(* the unix socket behind, for any number of clients.                      *)
(***************************************************************************)
THEOREM DaemonSafe == LifeSpec => []DaemonInv
<1>1. LifeIndInv => StaleSocketOnlyIfCut
  BY DEF LifeIndInv, LifeTypeOK, CloseOrder, Begun, StaleSocketOnlyIfCut, Closers
<1>2. LifeIndInv => DaemonInv
  BY <1>1 DEF LifeIndInv, DaemonInv
<1> QED BY <1>2, LifeInvariance, PTL

(***************************************************************************)
(* awaitTermination's Close, from its first step to its last, finds the    *)
(* daemon without clients except for those counted after Wait returned.    *)
(***************************************************************************)
THEOREM AwaitSafe == LifeSpec => []ClosedOnlyUnderLateClient
<1>1. LifeIndInv => ClosedOnlyUnderLateClient
  BY DEF LifeIndInv, CloseOrder, WaiterHadClient, ClosedOnlyUnderLateClient
<1> QED BY <1>1, LifeInvariance, PTL

(***************************************************************************)
(* The idle timer's Close, from its first step to its last, finds no       *)
(* client that upgraded while the timer's goroutine slept in its select.   *)
(***************************************************************************)
THEOREM TimerSafe == LifeSpec => []TimerSparesClients
<1>1. LifeIndInv => TimerSparesClients
  BY DEF LifeIndInv, CloseOrder, TimerUnheard, Unheard, TimerSparesClients
<1> QED BY <1>1, LifeInvariance, PTL
=============================================================================
