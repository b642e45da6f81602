------------------------ MODULE ClientStreamsProofs -------------------------
(***************************************************************************)
(* The safety properties of ClientStreams, proved for any number of        *)
(* handlers, streams and stray connections, and any amount of data.        *)
(***************************************************************************)
EXTENDS ClientStreams, TLAPS

(***************************************************************************)
(* A protocol is bound at the daemon, or about to be, only for a call that *)
(* has stored its handler or holds the mutex until it does.                *)
(***************************************************************************)
Promised(p) == \E r \in Regs : reg[r].proto = p /\ reg[r].pc \in {"written", "ok"}

RegOK(r) ==
    /\ reg[r].pc \in {"locked", "written"} => mhandlers = r
    /\ reg[r].asked => reg[r].pc \in {"written", "ok"}
    /\ reg[r].pc = "ok" => handlers[reg[r].proto] # None

TableInv ==
    /\ reg \in [Regs -> RegStates]
    /\ mhandlers \in Regs \cup {None}
    /\ handlers \in [Protos -> Regs \cup {None}]
    /\ bound \subseteq Protos
    /\ \A r \in Regs : RegOK(r)
    /\ \A p \in bound : Promised(p)

(***************************************************************************)
(* A connection of the daemon is of a bound protocol, and carries the info *)
(* and then the data; the info is read before anything else.  A stray one  *)
(* never gets past the reading of its info.                                *)
(***************************************************************************)
StreamOK(s) ==
    /\ conn[s].pc = "none" => conn[s].unread = <<>> /\ conn[s].sent = 0
    /\ conn[s].pc # "none" => conn[s].proto \in bound
    /\ conn[s].pc \in {"backlog", "reading"} =>
         \/ conn[s].unread = <<>> /\ conn[s].sent = 0
         \/ /\ conn[s].unread # <<>> /\ Head(conn[s].unread) = "info"
            /\ Len(conn[s].unread) = conn[s].sent + 1
    /\ conn[s].pc \in {"looking", "handed"} => Len(conn[s].unread) = conn[s].sent
    /\ conn[s].pc # "dropped"

StrayOK(c) ==
    /\ conn[c].pc \notin {"looking", "handed", "dropped"}
    /\ conn[c].unread # <<>> => Head(conn[c].unread) # "info"

ConnOK(c) ==
    /\ conn[c].pc \in {"reading", "looking"} <=> dispatcher.conn = c
    /\ dispatcher.conn = c => conn[c].pc = dispatcher.pc
    /\ c \in Streams => StreamOK(c)
    /\ c \in Strays => StrayOK(c)

(***************************************************************************)
(* The dispatcher has a connection exactly while it reads or looks up, and *)
(* every connection of the backlog is there once and waits.                *)
(***************************************************************************)
BacklogWaits ==
    /\ \A i \in 1 .. Len(backlog) : conn[backlog[i]].pc = "backlog"
    /\ \A i, j \in 1 .. Len(backlog) : backlog[i] = backlog[j] => i = j

DispatcherStates == [pc : {"accepting", "reading", "looking", "stopped"},
                     conn : Conns \cup {None}]

PathInv ==
    /\ listener \in {"open", "closed"}
    /\ backlog \in Seq(Conns)
    /\ dispatcher \in DispatcherStates
    /\ dispatcher.pc \in {"reading", "looking"} <=> dispatcher.conn # None
    /\ conn \in [Conns -> ConnStates]
    /\ \A c \in Conns : ConnOK(c)
    /\ BacklogWaits

(***************************************************************************)
(* The control connection of NewStream carries the answer and then the     *)
(* data, and nothing if it fails.                                          *)
(***************************************************************************)
OpenerInv ==
    /\ opener \in OpenerStates
    /\ opener.pc = "idle" => opener.answer = "none" /\ ~opener.eof
    /\ opener.answer = "none" => opener.unread = <<>> /\ opener.sent = 0
    /\ opener.eof => opener.answer = "none"
    /\ opener.pc = "reading" /\ opener.answer # "none" =>
         Len(opener.unread) = opener.sent + 1
    /\ opener.pc = "ok" => opener.answer = "ok" /\ Len(opener.unread) = opener.sent
    /\ opener.pc = "err" => opener.answer \in {"none", "error", "junk"}
    /\ FailedOpenCloses

IndInv == TableInv /\ PathInv /\ OpenerInv
-----------------------------------------------------------------------------
(***************************************************************************)
(* NewStreamHandler and the daemon's Bind keep the table: whoever finds    *)
(* the mutex free finds the handler of every bound protocol.               *)
(***************************************************************************)
LEMMA TableStep == TableInv /\ [Next]_vars => TableInv'
<1> SUFFICES ASSUME TableInv, [Next]_vars PROVE TableInv'
    OBVIOUS
<1> USE StreamsAssumption
<1>t. \A r \in Regs : reg[r] \in RegStates /\ reg[r].proto \in Protos
  BY DEF TableInv, RegStates
<1>1. ASSUME NEW r \in Regs, Lock(r) PROVE TableInv'
  <2>1. [reg[r] EXCEPT !.pc = "locked"] \in RegStates BY <1>t DEF RegStates
  <2>2. reg' \in [Regs -> RegStates] BY <1>1, <2>1 DEF Lock, TableInv
  <2>3. \A q \in Regs : RegOK(q)' BY <1>1, <1>t DEF Lock, TableInv, RegOK, RegStates
  <2>4. \A p \in bound' : Promised(p)' BY <1>1, <1>t DEF Lock, TableInv, Promised, RegStates
  <2> QED BY <1>1, <2>2, <2>3, <2>4 DEF Lock, TableInv
<1>2. ASSUME NEW r \in Regs, WriteHandler(r) PROVE TableInv'
  <2>1. /\ [reg[r] EXCEPT !.pc = "written", !.asked = TRUE] \in RegStates
        /\ [reg[r] EXCEPT !.pc = "err"] \in RegStates
    BY <1>t DEF RegStates
  <2>2. reg' \in [Regs -> RegStates] BY <1>2, <2>1 DEF WriteHandler, TableInv
  <2>3. \A q \in Regs : RegOK(q)'
    BY <1>2, <1>t DEF WriteHandler, TableInv, RegOK, RegStates
  <2>4. \A p \in bound' : Promised(p)'
    BY <1>2, <1>t DEF WriteHandler, TableInv, Promised, RegStates
  <2> QED BY <1>2, <2>2, <2>3, <2>4 DEF WriteHandler, TableInv
<1>3. ASSUME NEW r \in Regs, StoreHandler(r) PROVE TableInv'
  <2>1. [reg[r] EXCEPT !.pc = "ok"] \in RegStates BY <1>t DEF RegStates
  <2>2. reg' \in [Regs -> RegStates] BY <1>3, <2>1 DEF StoreHandler, TableInv
  <2>3. \A q \in Regs : RegOK(q)'
    BY <1>3, <1>t DEF StoreHandler, TableInv, RegOK, RegStates
  <2>4. \A p \in bound' : Promised(p)'
    BY <1>3, <1>t DEF StoreHandler, TableInv, Promised, RegStates
  <2> QED BY <1>3, <1>t, <2>2, <2>3, <2>4 DEF StoreHandler, TableInv
<1>4. ASSUME NEW r \in Regs, Bind(r) PROVE TableInv'
  <2>1. [reg[r] EXCEPT !.asked = FALSE] \in RegStates BY <1>t DEF RegStates
  <2>2. reg' \in [Regs -> RegStates] BY <1>4, <2>1 DEF Bind, TableInv
  <2>3. \A q \in Regs : RegOK(q)' BY <1>4, <1>t DEF Bind, TableInv, RegOK, RegStates
  <2>4. \A p \in bound' : Promised(p)'
    BY <1>4, <1>t DEF Bind, TableInv, RegOK, Promised, RegStates
  <2> QED BY <1>4, <1>t, <2>2, <2>3, <2>4 DEF Bind, TableInv
<1>5. CASE UNCHANGED tableVars
  BY <1>5 DEF tableVars, TableInv, RegOK, Promised
<1> QED
  BY <1>1, <1>2, <1>3, <1>4, <1>5
     DEF Next, RegStep, Proxy, SendInfo, SendData, Stray, StraySpeaks, DispatcherStep,
         Accept, AcceptFails, ReadInfo, ReadInfoFails, Dispatch, Close, OpenRequest,
         OpenAnswer, OpenData, OpenReturns, Rest, openerVars, vars, tableVars

(***************************************************************************)
(* A bound protocol has a handler when nobody holds the mutex.             *)
(***************************************************************************)
LEMMA FreeMutex ==
    ASSUME TableInv, mhandlers = None, NEW p \in bound
    PROVE  handlers[p] # None
BY StreamsAssumption DEF TableInv, Promised, RegOK

(***************************************************************************)
(* NewStream returns with everything behind the daemon's answer unread.    *)
(***************************************************************************)
LEMMA OpenerStep == OpenerInv /\ [Next]_vars => OpenerInv'
<1> SUFFICES ASSUME OpenerInv, [Next]_vars PROVE OpenerInv'
    OBVIOUS
<1> DEFINE U == {"ok", "error", "junk", "data"}
<1>t. /\ opener \in OpenerStates /\ opener.unread \in Seq(U) /\ opener.sent \in Nat
  BY DEF OpenerInv, OpenerStates
<1>1. CASE OpenRequest
  BY <1>1, <1>t DEF OpenRequest, OpenerInv, OpenerStates, FailedOpenCloses
<1>2. CASE OpenAnswer
  <2>1. ASSUME NEW a \in {"ok", "error", "junk"},
               opener' = [opener EXCEPT !.answer = a, !.unread = <<a>>]
        PROVE  OpenerInv'
    <3>1. <<a>> \in Seq(U) /\ Len(<<a>>) = 1 OBVIOUS
    <3>2. opener' \in OpenerStates BY <1>t, <2>1, <3>1 DEF OpenerStates
    <3>3. opener'.pc = "reading" /\ opener'.answer = a /\ opener'.unread = <<a>>
          /\ opener'.sent = 0 /\ opener'.eof = FALSE
      BY <1>2, <1>t, <2>1 DEF OpenAnswer, OpenerInv, OpenerStates
    <3> QED BY <3>1, <3>2, <3>3 DEF OpenerInv, FailedOpenCloses
  <2>2. ASSUME opener' = [opener EXCEPT !.eof = TRUE] PROVE OpenerInv'
    BY <1>2, <1>t, <2>2 DEF OpenAnswer, OpenerInv, OpenerStates, FailedOpenCloses
  <2> QED BY <1>2, <2>1, <2>2 DEF OpenAnswer
<1>3. CASE OpenData
  <2> DEFINE u == Append(opener.unread, "data")
  <2>1. u \in Seq(U) /\ Len(u) = Len(opener.unread) + 1 BY <1>t
  <2> HIDE DEF u
  <2>2. opener' = [opener EXCEPT !.unread = u, !.sent = opener.sent + 1]
    BY <1>3 DEF OpenData, u
  <2>n. opener.sent + 1 \in Nat BY <1>t
  <2>3. opener' \in OpenerStates BY <1>t, <2>1, <2>2, <2>n, Zenon DEF OpenerStates
  <2>4. /\ opener'.pc = opener.pc /\ opener'.answer = opener.answer
        /\ opener'.control = opener.control /\ opener'.eof = opener.eof
        /\ opener'.unread = u /\ opener'.sent = opener.sent + 1
    BY <1>t, <2>2 DEF OpenerStates
  <2> QED BY <1>3, <1>t, <2>1, <2>3, <2>4 DEF OpenData, OpenerInv, FailedOpenCloses
<1>4. CASE OpenReturns
  <2>1. CASE opener.eof
    BY <1>4, <1>t, <2>1 DEF OpenReturns, OpenerInv, OpenerStates, FailedOpenCloses
  <2>2. CASE ~opener.eof
    <3> DEFINE u == Tail(opener.unread)
               q == IF opener.answer = "ok" THEN "ok" ELSE "err"
    <3>1. u \in Seq(U) /\ Len(u) = Len(opener.unread) - 1
      BY <1>4, <1>t, <2>2 DEF OpenReturns
    <3>2. opener' = [opener EXCEPT !.pc = q, !.unread = u]
      BY <1>4, <2>2 DEF OpenReturns, readMsgSafe
    <3>3. opener.answer # "none"
      BY <1>4, <2>2 DEF OpenReturns, OpenerInv
    <3> HIDE DEF u
    <3>4. opener' \in OpenerStates BY <1>t, <3>1, <3>2 DEF OpenerStates
    <3>5. /\ opener'.pc = q /\ opener'.answer = opener.answer
          /\ opener'.control = opener.control /\ opener'.eof = opener.eof
          /\ opener'.unread = u /\ opener'.sent = opener.sent
      BY <1>t, <3>2 DEF OpenerStates
    <3>6. opener.answer \in {"ok", "error", "junk"} BY <1>t, <3>3 DEF OpenerStates
    <3> QED
      BY <1>4, <1>t, <2>2, <3>1, <3>3, <3>4, <3>5, <3>6
         DEF OpenReturns, OpenerInv, FailedOpenCloses
  <2> QED BY <2>1, <2>2
<1>5. CASE UNCHANGED opener BY <1>5 DEF OpenerInv, FailedOpenCloses
<1> QED
  BY <1>1, <1>2, <1>3, <1>4, <1>5
     DEF Next, RegStep, Lock, WriteHandler, StoreHandler, Bind, handlerVars, Proxy,
         SendInfo, SendData, Stray, StraySpeaks, DispatcherStep, Accept, AcceptFails,
         ReadInfo, ReadInfoFails, Dispatch, Close, Rest, vars

(***************************************************************************)
(* A connection that a step leaves alone stays as good as it was.          *)
(***************************************************************************)
LEMMA OthersKept ==
    ASSUME PathInv, NEW d \in Conns, conn'[d] = conn[d], bound \subseteq bound',
           dispatcher' = dispatcher \/ (dispatcher.conn # d /\ dispatcher'.conn # d)
    PROVE  ConnOK(d)'
BY DEF PathInv, ConnOK, StreamOK, StrayOK

(***************************************************************************)
(* What has come in on a connection is more, and the connection is where   *)
(* it was.                                                                 *)
(***************************************************************************)
LEMMA Arrives ==
    ASSUME PathInv, NEW c \in Conns, NEW v \in ConnStates,
           conn' = [conn EXCEPT ![c] = v],
           v.pc = conn[c].pc, v.proto = conn[c].proto,
           UNCHANGED <<listener, backlog, dispatcher, bound>>,
           c \in Streams => StreamOK(c)', c \in Strays => StrayOK(c)'
    PROVE  PathInv'
<1>1. conn' \in [Conns -> ConnStates] BY DEF PathInv
<1>2. ASSUME NEW d \in Conns PROVE ConnOK(d)' /\ conn'[d].pc = conn[d].pc
  <2>1. CASE d = c BY <2>1 DEF PathInv, ConnOK
  <2>2. CASE d # c
    <3>1. conn'[d] = conn[d] BY <2>2 DEF PathInv
    <3> QED BY <3>1, OthersKept
  <2> QED BY <2>1, <2>2
<1>3. BacklogWaits' BY <1>2 DEF PathInv, BacklogWaits
<1> QED BY <1>1, <1>2, <1>3 DEF PathInv

(***************************************************************************)
(* A new connection goes to the end of the backlog.                        *)
(***************************************************************************)
LEMMA Connects ==
    ASSUME PathInv, NEW c \in Conns, NEW p \in Protos \cup {None}, connects(c, p),
           c \in Streams => p \in bound,
           UNCHANGED <<listener, dispatcher, bound>>
    PROVE  PathInv'
<1>1. [conn[c] EXCEPT !.pc = "backlog", !.proto = p] \in ConnStates
  <2>1. conn[c] \in ConnStates BY DEF PathInv
  <2> QED BY <2>1 DEF ConnStates
<1>2. conn' = [conn EXCEPT ![c] = [conn[c] EXCEPT !.pc = "backlog", !.proto = p]]
  BY DEF connects, PathInv
<1>3. conn' \in [Conns -> ConnStates] BY <1>1, <1>2 DEF PathInv
<1>4. \A d \in Conns : d # c => conn'[d] = conn[d] BY <1>2 DEF PathInv
<1>5. /\ conn'[c].pc = "backlog" /\ conn'[c].proto = p
      /\ conn'[c].unread = conn[c].unread /\ conn'[c].sent = conn[c].sent
  <2>1. conn[c] \in ConnStates /\ conn'[c] = [conn[c] EXCEPT !.pc = "backlog", !.proto = p]
    BY <1>2 DEF PathInv
  <2> QED BY <2>1 DEF ConnStates
<1>6. \A d \in Conns : ConnOK(d)'
  <2>1. ConnOK(c)' BY <1>5 DEF connects, PathInv, ConnOK, StreamOK, StrayOK
  <2> QED BY <2>1, <1>4, OthersKept
<1>7. /\ backlog' \in Seq(Conns) /\ Len(backlog') = Len(backlog) + 1
      /\ backlog'[Len(backlog) + 1] = c
      /\ \A i \in 1 .. Len(backlog) : backlog'[i] = backlog[i] /\ backlog[i] \in Conns
      /\ \A i \in 1 .. Len(backlog') : i \in 1 .. Len(backlog) \/ i = Len(backlog) + 1
  BY DEF connects, PathInv
<1>8. \A i \in 1 .. Len(backlog) : backlog[i] # c
  BY DEF connects, PathInv, BacklogWaits
<1>9. BacklogWaits'
  <2>1. ASSUME NEW i \in 1 .. Len(backlog') PROVE conn'[backlog'[i]].pc = "backlog"
    BY <1>4, <1>5, <1>7, <1>8 DEF PathInv, BacklogWaits
  <2>2. ASSUME NEW i \in 1 .. Len(backlog'), NEW j \in 1 .. Len(backlog'),
               backlog'[i] = backlog'[j]
        PROVE  i = j
    BY <1>7, <1>8, <2>2 DEF PathInv, BacklogWaits
  <2> QED BY <2>1, <2>2 DEF BacklogWaits
<1> QED BY <1>3, <1>6, <1>7, <1>9 DEF PathInv

(***************************************************************************)
(* The dispatcher is done with its connection.                             *)
(***************************************************************************)
LEMMA Leaves ==
    ASSUME PathInv, NEW c \in Conns, NEW q \in {"closed", "handed"},
           dispatcher.conn = c, dispatcher' = [pc |-> "accepting", conn |-> None],
           conn' = [conn EXCEPT ![c].pc = q],
           q = "handed" => c \in Streams /\ conn[c].pc = "looking",
           UNCHANGED <<listener, backlog, bound>>
    PROVE  PathInv'
<1>0. c # None /\ \A d \in Conns : d # None BY StreamsAssumption DEF Conns
<1>1. [conn[c] EXCEPT !.pc = q] \in ConnStates /\ conn[c] \in ConnStates
  <2>1. conn[c] \in ConnStates BY DEF PathInv
  <2> QED BY <2>1 DEF ConnStates
<1>2. conn' = [conn EXCEPT ![c] = [conn[c] EXCEPT !.pc = q]] BY DEF PathInv
<1>3. conn' \in [Conns -> ConnStates] BY <1>1, <1>2 DEF PathInv
<1>4. \A d \in Conns : d # c => conn'[d] = conn[d] BY <1>2 DEF PathInv
<1>5. /\ conn'[c].pc = q /\ conn'[c].proto = conn[c].proto
      /\ conn'[c].unread = conn[c].unread /\ conn'[c].sent = conn[c].sent
  <2>1. conn'[c] = [conn[c] EXCEPT !.pc = q] BY <1>2 DEF PathInv
  <2> QED BY <2>1, <1>1 DEF ConnStates
<1>6. \A d \in Conns : ConnOK(d)'
  <2>1. ConnOK(c)'
    <3>1. conn[c].pc \in {"reading", "looking"} BY DEF PathInv, ConnOK
    <3>2. c \in Streams \/ c \in Strays BY DEF Conns
    <3>3. ~(c \in Streams /\ c \in Strays) BY StreamsAssumption
    <3> QED BY <1>0, <1>5, <3>1, <3>2, <3>3 DEF PathInv, ConnOK, StreamOK, StrayOK
  <2>2. ASSUME NEW d \in Conns, d # c PROVE ConnOK(d)'
    <3>1. dispatcher.conn # d /\ dispatcher'.conn # d BY <1>0, <2>2
    <3> QED BY <1>4, <2>2, <3>1, OthersKept
  <2> QED BY <2>1, <2>2
<1>7. BacklogWaits'
  <2>1. ASSUME NEW i \in 1 .. Len(backlog) PROVE backlog[i] \in Conns /\ backlog[i] # c
    BY <1>1 DEF PathInv, BacklogWaits, ConnOK
  <2> QED BY <2>1, <1>4 DEF PathInv, BacklogWaits
<1>8. dispatcher' \in DispatcherStates BY DEF DispatcherStates
<1> QED BY <1>3, <1>6, <1>7, <1>8 DEF PathInv

(***************************************************************************)
(* Every step keeps what PathInv says of the connections.                  *)
(***************************************************************************)
LEMMA PathStep == TableInv /\ PathInv /\ [Next]_vars => PathInv'
<1> SUFFICES ASSUME TableInv, PathInv, [Next]_vars PROVE PathInv'
    OBVIOUS
<1> DEFINE U == {"info", "junk", "data"}
<1>t. \A c \in Conns : /\ conn[c] \in ConnStates /\ ConnOK(c) /\ c # None
                       /\ conn[c].unread \in Seq(U) /\ conn[c].sent \in Nat
  BY StreamsAssumption DEF PathInv, ConnStates, Conns
<1>d. Streams \subseteq Conns /\ Strays \subseteq Conns /\ Streams \cap Strays = {}
  BY StreamsAssumption DEF Conns
<1>1. ASSUME NEW s \in Streams, Proxy(s) PROVE PathInv'
  BY <1>1, <1>d, Connects DEF Proxy, tableVars, TableInv
<1>2. ASSUME NEW c \in Strays, Stray(c) PROVE PathInv'
  BY <1>2, <1>d, Connects DEF Stray, tableVars
<1>3. ASSUME NEW s \in Streams, SendInfo(s) PROVE PathInv'
  <2>0. /\ s \in Conns /\ conn[s] \in ConnStates /\ ConnOK(s)
        /\ conn[s].unread \in Seq(U) /\ conn[s].sent \in Nat
    BY <1>t, <1>d
  <2>1. ASSUME conn' = [conn EXCEPT ![s].unread = <<"info">>] PROVE PathInv'
    <3> DEFINE v == [conn[s] EXCEPT !.unread = <<"info">>]
    <3>1. <<"info">> \in Seq(U) /\ Len(<<"info">>) = 1 /\ Head(<<"info">>) = "info"
          /\ <<"info">> # <<>>
      OBVIOUS
    <3>2. v \in ConnStates BY <2>0, <3>1, Zenon DEF ConnStates
    <3>3. conn' = [conn EXCEPT ![s] = v] BY <2>1, <1>d DEF PathInv
    <3>4. conn'[s] = v BY <3>3, <1>d DEF PathInv
    <3>5. /\ v.pc = conn[s].pc /\ v.proto = conn[s].proto /\ v.sent = conn[s].sent
          /\ v.unread = <<"info">>
      BY <2>0 DEF ConnStates
    <3> HIDE DEF v
    <3>6. StreamOK(s)'
      BY <1>3, <2>0, <1>d, <3>1, <3>4, <3>5
         DEF SendInfo, tableVars, ConnOK, StreamOK
    <3> QED BY <1>3, <1>d, <3>2, <3>3, <3>5, <3>6, Arrives DEF SendInfo, tableVars
  <2>2. ASSUME conn' = [conn EXCEPT ![s].eof = TRUE] PROVE PathInv'
    <3> DEFINE v == [conn[s] EXCEPT !.eof = TRUE]
    <3>2. v \in ConnStates BY <2>0 DEF ConnStates
    <3>3. conn' = [conn EXCEPT ![s] = v] BY <2>2, <1>d DEF PathInv
    <3>4. conn'[s] = v BY <3>3, <1>d DEF PathInv
    <3>5. /\ v.pc = conn[s].pc /\ v.proto = conn[s].proto /\ v.sent = conn[s].sent
          /\ v.unread = conn[s].unread
      BY <2>0 DEF ConnStates
    <3> HIDE DEF v
    <3>6. StreamOK(s)'
      BY <1>3, <2>0, <1>d, <3>4, <3>5 DEF SendInfo, tableVars, ConnOK, StreamOK
    <3> QED BY <1>3, <1>d, <3>2, <3>3, <3>5, <3>6, Arrives DEF SendInfo, tableVars
  <2> QED BY <1>3, <2>1, <2>2 DEF SendInfo
<1>4. ASSUME NEW s \in Streams, SendData(s) PROVE PathInv'
  <2>0. /\ s \in Conns /\ conn[s] \in ConnStates /\ ConnOK(s)
        /\ conn[s].unread \in Seq(U) /\ conn[s].sent \in Nat
    BY <1>t, <1>d
  <2> DEFINE u == Append(conn[s].unread, "data")
             v == [conn[s] EXCEPT !.unread = u, !.sent = conn[s].sent + 1]
  <2>1. /\ u \in Seq(U) /\ Len(u) = Len(conn[s].unread) + 1 /\ u # <<>>
        /\ conn[s].unread # <<>> => Head(u) = Head(conn[s].unread)
        /\ conn[s].sent + 1 \in Nat
    <3> DEFINE w == conn[s].unread
    <3>1. w \in Seq(U) /\ u = Append(w, "data") BY <2>0
    <3> HIDE DEF w, u
    <3>2. u \in Seq(U) /\ Len(u) = Len(w) + 1 /\ u # <<>> BY <3>1
    <3>3. w # <<>> => Head(u) = Head(w) BY <3>1
    <3> QED BY <2>0, <3>2, <3>3 DEF w
  <2> HIDE DEF u
  <2>2. v \in ConnStates BY <2>0, <2>1, Zenon DEF ConnStates
  <2>3. conn' = [conn EXCEPT ![s] = v] BY <1>4, <1>d DEF SendData, PathInv, u
  <2>4. conn'[s] = v BY <2>3, <1>d DEF PathInv
  <2>5. /\ v.pc = conn[s].pc /\ v.proto = conn[s].proto /\ v.sent = conn[s].sent + 1
        /\ v.unread = u
    BY <2>0 DEF ConnStates
  <2> HIDE DEF v
  <2>6. StreamOK(s)'
    <3>1. StreamOK(s) /\ conn[s].pc # "none" /\ bound' = bound
      BY <1>4, <2>0 DEF SendData, tableVars, ConnOK, StreamOK
    <3>2. CASE conn[s].pc \in {"backlog", "reading"}
      <4>1. /\ conn[s].unread # <<>> /\ Head(conn[s].unread) = "info"
            /\ Len(conn[s].unread) = conn[s].sent + 1
        BY <1>4, <3>1, <3>2 DEF SendData, StreamOK
      <4> QED BY <2>1, <2>4, <2>5, <3>1, <3>2, <4>1 DEF StreamOK
    <3>3. CASE conn[s].pc \notin {"backlog", "reading"}
      BY <2>1, <2>4, <2>5, <3>1, <3>3 DEF StreamOK
    <3> QED BY <3>2, <3>3
  <2> QED BY <1>4, <1>d, <2>2, <2>3, <2>5, <2>6, Arrives DEF SendData, tableVars
<1>5. ASSUME NEW c \in Strays, StraySpeaks(c) PROVE PathInv'
  <2>0. /\ c \in Conns /\ conn[c] \in ConnStates /\ ConnOK(c)
        /\ conn[c].unread \in Seq(U) /\ conn[c].sent \in Nat
    BY <1>t, <1>d
  <2>1. ASSUME conn' = [conn EXCEPT ![c].unread = <<"junk">>] PROVE PathInv'
    <3> DEFINE v == [conn[c] EXCEPT !.unread = <<"junk">>]
    <3>1. <<"junk">> \in Seq(U) /\ Head(<<"junk">>) = "junk" OBVIOUS
    <3>2. v \in ConnStates BY <2>0, <3>1, Zenon DEF ConnStates
    <3>3. conn' = [conn EXCEPT ![c] = v] BY <2>1, <1>d DEF PathInv
    <3>4. conn'[c] = v BY <3>3, <1>d DEF PathInv
    <3>5. v.pc = conn[c].pc /\ v.proto = conn[c].proto /\ v.unread = <<"junk">>
      BY <2>0 DEF ConnStates
    <3> HIDE DEF v
    <3>6. StrayOK(c)' BY <2>0, <1>d, <3>1, <3>4, <3>5 DEF ConnOK, StrayOK
    <3> QED BY <1>5, <1>d, <3>2, <3>3, <3>5, <3>6, Arrives DEF StraySpeaks, tableVars
  <2>2. ASSUME conn' = [conn EXCEPT ![c].eof = TRUE] PROVE PathInv'
    <3> DEFINE v == [conn[c] EXCEPT !.eof = TRUE]
    <3>2. v \in ConnStates BY <2>0 DEF ConnStates
    <3>3. conn' = [conn EXCEPT ![c] = v] BY <2>2, <1>d DEF PathInv
    <3>4. conn'[c] = v BY <3>3, <1>d DEF PathInv
    <3>5. v.pc = conn[c].pc /\ v.proto = conn[c].proto /\ v.unread = conn[c].unread
      BY <2>0 DEF ConnStates
    <3> HIDE DEF v
    <3>6. StrayOK(c)' BY <2>0, <1>d, <3>4, <3>5 DEF ConnOK, StrayOK
    <3> QED BY <1>5, <1>d, <3>2, <3>3, <3>5, <3>6, Arrives DEF StraySpeaks, tableVars
  <2> QED BY <1>5, <2>1, <2>2 DEF StraySpeaks
<1>6. CASE Accept
  <2>h. Head(backlog) \in Conns BY <1>6 DEF Accept, PathInv
  <2> PICK c \in Conns : c = Head(backlog) BY <2>h
  <2>1. /\ c \in Conns /\ c = backlog[1] /\ 1 \in 1 .. Len(backlog)
        /\ backlog' \in Seq(Conns) /\ Len(backlog') = Len(backlog) - 1
        /\ \A i \in 1 .. Len(backlog') : /\ i + 1 \in 1 .. Len(backlog)
                                         /\ backlog'[i] = backlog[i + 1]
                                         /\ backlog'[i] \in Conns
    BY <1>6 DEF Accept, PathInv
  <2>0. conn[c] \in ConnStates /\ ConnOK(c) /\ c # None BY <1>t, <2>1
  <2>2. conn[c].pc = "backlog" BY <2>1 DEF PathInv, BacklogWaits
  <2>3. [conn[c] EXCEPT !.pc = "reading"] \in ConnStates BY <2>0 DEF ConnStates
  <2>4. conn' = [conn EXCEPT ![c] = [conn[c] EXCEPT !.pc = "reading"]]
    BY <1>6 DEF Accept, PathInv
  <2>5. /\ dispatcher' = [pc |-> "reading", conn |-> c] /\ dispatcher.conn = None
        /\ UNCHANGED <<listener, bound>>
    BY <1>6 DEF Accept, PathInv, tableVars
  <2>6. conn' \in [Conns -> ConnStates] BY <2>1, <2>3, <2>4 DEF PathInv
  <2>7. \A d \in Conns : d # c => conn'[d] = conn[d] BY <2>4 DEF PathInv
  <2>8. /\ conn'[c].pc = "reading" /\ conn'[c].proto = conn[c].proto
        /\ conn'[c].unread = conn[c].unread /\ conn'[c].sent = conn[c].sent
    <3>1. conn'[c] = [conn[c] EXCEPT !.pc = "reading"] BY <2>1, <2>4 DEF PathInv
    <3> QED BY <3>1, <2>0 DEF ConnStates
  <2>9. ConnOK(c)'
    <3>1. c \in Streams => StreamOK(c)' BY <2>0, <2>2, <2>5, <2>8 DEF ConnOK, StreamOK
    <3>2. c \in Strays => StrayOK(c)' BY <2>0, <2>8 DEF ConnOK, StrayOK
    <3>3. dispatcher'.conn = c /\ dispatcher'.pc = "reading" BY <2>5
    <3> QED BY <2>8, <3>1, <3>2, <3>3 DEF ConnOK
  <2>10. ASSUME NEW d \in Conns, d # c PROVE ConnOK(d)'
    <3>1. dispatcher.conn # d /\ dispatcher'.conn # d BY <1>t, <2>5, <2>10
    <3> QED BY <2>5, <2>7, <2>10, <3>1, OthersKept
  <2>11. BacklogWaits'
    <3>1. \A i \in 1 .. Len(backlog') : backlog'[i] # c
      BY <2>1 DEF PathInv, BacklogWaits
    <3>2. \A i \in 1 .. Len(backlog') : conn'[backlog'[i]].pc = "backlog"
      BY <2>1, <2>7, <3>1 DEF PathInv, BacklogWaits
    <3>3. \A i, j \in 1 .. Len(backlog') : backlog'[i] = backlog'[j] => i = j
      BY <2>1 DEF PathInv, BacklogWaits
    <3> QED BY <3>2, <3>3 DEF BacklogWaits
  <2>12. dispatcher' \in DispatcherStates BY <2>1, <2>5 DEF DispatcherStates
  <2>13. dispatcher'.pc = "reading" /\ dispatcher'.conn # None BY <2>0, <2>5
  <2>14. \A d \in Conns : ConnOK(d)' BY <2>9, <2>10
  <2> QED
    BY ONLY PathInv, <2>1, <2>5, <2>6, <2>11, <2>12, <2>13, <2>14 DEF PathInv
<1>7. CASE AcceptFails
  <2>1. dispatcher.conn = None BY <1>7 DEF AcceptFails, PathInv
  <2>2. dispatcher' \in DispatcherStates /\ dispatcher'.conn = None
        /\ dispatcher'.pc = "stopped"
    BY <1>7, <2>1 DEF AcceptFails, PathInv, DispatcherStates
  <2>3. \A c \in Conns : ConnOK(c)'
    BY <1>7, <1>t, <2>1, <2>2, OthersKept DEF AcceptFails, tableVars
  <2> QED BY <1>7, <2>2, <2>3 DEF AcceptFails, PathInv, BacklogWaits, tableVars
<1>8. CASE ReadInfo
  <2>h. dispatcher.conn \in Conns BY <1>8 DEF ReadInfo, PathInv, DispatcherStates
  <2>c. PICK c \in Conns : dispatcher.conn = c BY <2>h
  <2>1. /\ c \in Conns /\ conn[c].pc = "reading" /\ conn[c].unread # <<>>
        /\ conn[c] \in ConnStates /\ ConnOK(c) /\ dispatcher \in DispatcherStates
        /\ UNCHANGED <<listener, backlog, bound>>
    BY <1>8, <1>t, <2>c DEF ReadInfo, PathInv, DispatcherStates, ConnOK, tableVars
  <2>2. CASE Head(conn[c].unread) = "junk"
    <3>1. /\ conn' = [conn EXCEPT ![c].pc = "closed"]
          /\ dispatcher' = [pc |-> "accepting", conn |-> None]
      BY <1>8, <2>c, <2>2 DEF ReadInfo
    <3> QED BY <2>c, <2>1, <3>1, Leaves
  <2>3. CASE Head(conn[c].unread) # "junk"
    <3> DEFINE u == Tail(conn[c].unread)
               v == [conn[c] EXCEPT !.pc = "looking", !.unread = u]
    <3>1. /\ Head(conn[c].unread) = "info"
          /\ conn' = [conn EXCEPT ![c].pc = "looking", ![c].unread = u]
          /\ dispatcher' = [dispatcher EXCEPT !.pc = "looking"]
      BY <1>8, <2>c, <2>3 DEF ReadInfo, readMsgSafe
    <3>2. u \in Seq(U) /\ Len(u) = Len(conn[c].unread) - 1 BY <1>t, <2>1
    <3>3. dispatcher'.pc = "looking" /\ dispatcher'.conn = c
          /\ dispatcher' \in DispatcherStates
      BY <2>c, <2>1, <3>1 DEF DispatcherStates
    <3>4. c \in Streams BY <2>1, <3>1 DEF Conns, ConnOK, StrayOK
    <3> HIDE DEF u
    <3>5. v \in ConnStates BY <2>1, <3>2, Zenon DEF ConnStates
    <3>6. /\ v.pc = "looking" /\ v.proto = conn[c].proto /\ v.unread = u
          /\ v.sent = conn[c].sent
      BY <2>1 DEF ConnStates
    <3>7. conn' = [conn EXCEPT ![c] = v] BY <2>1, <3>1 DEF PathInv
    <3> HIDE DEF v
    <3>8. conn' \in [Conns -> ConnStates] /\ conn'[c] = v
      BY <2>1, <3>5, <3>7 DEF PathInv
    <3>9. \A d \in Conns : d # c => conn'[d] = conn[d] BY <3>7 DEF PathInv
    <3>10. ConnOK(c)'
      <4>1. /\ conn[c].proto \in bound
            /\ Len(conn[c].unread) = conn[c].sent + 1
        BY <2>1, <3>4 DEF ConnOK, StreamOK
      <4>2. Len(u) = conn[c].sent BY <4>1, <3>2, <2>1, <1>t
      <4>3. StreamOK(c)' BY <2>1, <3>6, <3>8, <4>1, <4>2 DEF StreamOK
      <4> QED BY <1>d, <3>3, <3>4, <3>6, <3>8, <4>3 DEF ConnOK
    <3>11. ASSUME NEW d \in Conns, d # c PROVE ConnOK(d)'
      BY <2>1, <3>3, <3>9, <3>11, <2>c, OthersKept
    <3>12. BacklogWaits'
      <4>1. \A i \in 1 .. Len(backlog) : backlog[i] \in Conns /\ backlog[i] # c
        BY <2>1 DEF PathInv, BacklogWaits
      <4> QED BY <2>1, <3>9, <4>1 DEF PathInv, BacklogWaits
    <3>13. dispatcher'.conn # None BY <1>t, <2>1, <3>3
    <3>14. \A d \in Conns : ConnOK(d)' BY <3>10, <3>11
    <3> QED
      BY ONLY PathInv, <2>1, <3>3, <3>8, <3>12, <3>13, <3>14 DEF PathInv
  <2> QED BY <2>2, <2>3
<1>9. CASE ReadInfoFails
  <2>h. dispatcher.conn \in Conns BY <1>9 DEF ReadInfoFails, PathInv, DispatcherStates
  <2>c. PICK c \in Conns : dispatcher.conn = c BY <2>h
  <2>1. /\ c \in Conns /\ conn' = [conn EXCEPT ![c].pc = "closed"]
        /\ dispatcher' = [pc |-> "accepting", conn |-> None]
        /\ UNCHANGED <<listener, backlog, bound>>
    BY <1>9, <2>c DEF ReadInfoFails, PathInv, DispatcherStates, tableVars
  <2> QED BY <2>c, <2>1, Leaves
<1>10. CASE Dispatch
  <2>h. dispatcher.conn \in Conns BY <1>10 DEF Dispatch, PathInv, DispatcherStates
  <2>c. PICK c \in Conns : dispatcher.conn = c BY <2>h
  <2>1. /\ c \in Conns /\ conn[c].pc = "looking" /\ ConnOK(c) /\ mhandlers = None
        /\ dispatcher' = [pc |-> "accepting", conn |-> None]
        /\ UNCHANGED <<listener, backlog, bound>>
    BY <1>10, <1>t, <2>c DEF Dispatch, PathInv, DispatcherStates, ConnOK, tableVars
  <2>2. c \in Streams /\ conn[c].proto \in bound
    BY <2>1 DEF Conns, ConnOK, StrayOK, StreamOK
  <2>3. handlers[conn[c].proto] # None BY <2>1, <2>2, FreeMutex
  <2>4. conn' = [conn EXCEPT ![c].pc = "handed"] BY <1>10, <2>c, <2>3 DEF Dispatch
  <2> QED BY <2>c, <2>1, <2>2, <2>4, Leaves
<1>11. CASE Close
  <2>1. ASSUME NEW c \in Conns
        PROVE  /\ conn'[c] \in ConnStates
               /\ conn'[c].pc = IF conn[c].pc = "backlog" THEN "closed" ELSE conn[c].pc
               /\ conn'[c].proto = conn[c].proto /\ conn'[c].unread = conn[c].unread
               /\ conn'[c].sent = conn[c].sent
    <3>1. conn'[c] = IF conn[c].pc = "backlog" THEN [conn[c] EXCEPT !.pc = "closed"]
                     ELSE conn[c]
      BY <1>11 DEF Close
    <3> QED BY <3>1, <1>t DEF ConnStates
  <2>2. conn' \in [Conns -> ConnStates] BY <1>11, <2>1 DEF Close
  <2>3. \A c \in Conns : ConnOK(c)'
    BY <1>11, <1>t, <2>1 DEF Close, tableVars, ConnOK, StreamOK, StrayOK
  <2>4. backlog' \in Seq(Conns) /\ BacklogWaits' BY <1>11 DEF Close, BacklogWaits
  <2> QED BY <1>11, <2>2, <2>3, <2>4 DEF Close, PathInv
<1>12. CASE UNCHANGED <<listener, backlog, dispatcher, conn>>
  <2>1. bound \subseteq bound'
    BY DEF Next, RegStep, Lock, WriteHandler, StoreHandler, Bind, Proxy, SendInfo,
           SendData, Stray, StraySpeaks, DispatcherStep, Accept, AcceptFails, ReadInfo,
           ReadInfoFails, Dispatch, Close, OpenRequest, OpenAnswer, OpenData,
           OpenReturns, Rest, openerVars, vars, tableVars
  <2>2. \A c \in Conns : ConnOK(c)' BY <1>12, <2>1, OthersKept
  <2> QED BY <1>12, <2>2 DEF PathInv, BacklogWaits
<1> QED
  BY <1>1, <1>2, <1>3, <1>4, <1>5, <1>6, <1>7, <1>8, <1>9, <1>10, <1>11, <1>12
     DEF Next, RegStep, Lock, WriteHandler, StoreHandler, Bind, handlerVars,
         DispatcherStep, OpenRequest, OpenAnswer, OpenData, OpenReturns, openerVars,
         Rest, vars

(***************************************************************************)
(* A new client, with its dispatcher at Accept, satisfies the inductive    *)
(* invariant.                                                              *)
(***************************************************************************)
LEMMA InitIndInv == Init => IndInv
<1> SUFFICES ASSUME Init PROVE IndInv
    OBVIOUS
<1>1. TableInv
  <2>1. [pc : {"idle"}, proto : Protos, asked : {FALSE}] \subseteq RegStates
    BY DEF RegStates
  <2>2. reg \in [Regs -> RegStates] BY <2>1 DEF Init
  <2>3. \A r \in Regs : reg[r].pc = "idle" /\ reg[r].asked = FALSE BY DEF Init
  <2> QED BY <2>2, <2>3 DEF Init, TableInv, RegOK
<1>2. PathInv
  <2> DEFINE v == [pc |-> "none", proto |-> None, unread |-> <<>>, sent |-> 0,
                   eof |-> FALSE]
  <2>1. v \in ConnStates BY DEF ConnStates
  <2>2. conn \in [Conns -> ConnStates] /\ \A c \in Conns : conn[c] = v
    BY <2>1 DEF Init
  <2>3. \A c \in Conns : ConnOK(c)
    <3>1. \A c \in Conns : c # None BY StreamsAssumption DEF Conns
    <3> QED BY <2>2, <3>1 DEF Init, ConnOK, StreamOK, StrayOK
  <2>4. dispatcher \in DispatcherStates BY DEF Init, DispatcherStates
  <2>5. BacklogWaits BY DEF Init, BacklogWaits
  <2>6. /\ dispatcher.pc = "accepting" /\ dispatcher.conn = None
        /\ listener = "open" /\ backlog \in Seq(Conns)
    BY DEF Init
  <2> QED BY <2>2, <2>3, <2>4, <2>5, <2>6 DEF PathInv
<1>3. OpenerInv BY DEF Init, OpenerInv, OpenerStates, FailedOpenCloses
<1> QED BY <1>1, <1>2, <1>3 DEF IndInv

(***************************************************************************)
(* The inductive invariant holds in every reachable state.                 *)
(***************************************************************************)
THEOREM Invariance == Spec => []IndInv
<1>1. IndInv /\ [Next]_vars => IndInv'
  BY TableStep, PathStep, OpenerStep DEF IndInv
<1> QED BY InitIndInv, <1>1, PTL DEF Spec

(***************************************************************************)
(* However early the daemon binds a protocol and connects for a stream of  *)
(* it, the dispatcher looks the handler up when it is there: no stream is  *)
(* dropped.                                                                *)
(***************************************************************************)
THEOREM ProxiedSafe == Spec => []ProxiedFindsHandler
<1>1. IndInv => ProxiedFindsHandler
  BY DEF IndInv, PathInv, Conns, ConnOK, StreamOK, ProxiedFindsHandler
<1> QED BY <1>1, Invariance, PTL

(***************************************************************************)
(* The dispatcher is at one connection, what is sent behind the info or    *)
(* the answer is left for its reader, and a NewStream that fails without   *)
(* an answer has closed its connection.                                    *)
(***************************************************************************)
THEOREM DispatchSafe == Spec => []DispatchInv
<1>1. IndInv => TypeOK
  BY DEF IndInv, TableInv, RegOK, PathInv, ConnOK, DispatcherStates, OpenerInv, TypeOK
<1>2. IndInv => NothingSwallowed
  BY DEF IndInv, PathInv, Conns, ConnOK, StreamOK, OpenerInv, NothingSwallowed
<1>3. IndInv => FailedOpenCloses BY DEF IndInv, OpenerInv
<1>4. IndInv => DispatchInv BY <1>1, <1>2, <1>3 DEF DispatchInv
<1> QED BY <1>4, Invariance, PTL

=============================================================================
