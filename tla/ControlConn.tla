---------------------------- MODULE ControlConn -----------------------------
(***************************************************************************)
(* One control connection of the daemon: handleConn's request loop         *)
(* (conn.go), the handlers it calls (conn.go, dht.go, connmgr.go,          *)
(* pubsub.go), the forwarder goroutine behind a streamed DHT answer and    *)
(* the two loops of a subscription.                                        *)
(*                                                                         *)
(* A client may send requests ahead of the answers, read slowly or not at  *)
(* all, and hang up at any time; the socket holds SockCap unread messages, *)
(* a write blocks while it is full and fails once the client is gone.      *)
(***************************************************************************)
EXTENDS Naturals, Sequences, FiniteSets

CONSTANTS
    MaxReqs,        \* bound: requests a client sends
    MaxValues,      \* bound: results of a DHT query, messages of a subscription
    SockCap,        \* messages the socket holds
    DhtEnabled, PubsubEnabled

ASSUME ControlAssumption ==
    /\ MaxReqs \in Nat /\ MaxValues \in Nat /\ SockCap \in Nat \ {0}
    /\ DhtEnabled \in BOOLEAN /\ PubsubEnabled \in BOOLEAN

(***************************************************************************)
(* Request types.  IDENTIFY stands for LIST_PEERS too; CONNECT for         *)
(* DISCONNECT and STREAM_HANDLER (one answer, may fail);                   *)
(* DHT_ONE for the DHT requests with one answer; DHT_STREAM for            *)
(* FIND_PROVIDERS, GET_CLOSEST_PEERS and SEARCH_VALUE; PUBSUB for          *)
(* GET_TOPICS, LIST_PEERS and PUBLISH.  GARBAGE is what does not parse and *)
(* any type handleConn does not know.                                      *)
(***************************************************************************)
Types == {"IDENTIFY", "CONNECT", "CONNMANAGER", "DHT_ONE", "DHT_STREAM", "PUBSUB",
          "SUBSCRIBE", "STREAM_OPEN", "PERSISTENT_CONN_UPGRADE", "GARBAGE"}

Requests == [type : Types, wellFormed : BOOLEAN]

VARIABLES
    sent,       \* how many requests the client has sent
    inbox,      \* requests on their way to the daemon
    log,        \* every message written to the client, in order
    seen,       \* how many of them the client has read
    gone,       \* the client has hung up
    stage,      \* where handleConn is
    cur,        \* the request being served: its number, its type, its result and, while
                \* a value is being written, which of the query's results it is
    query,      \* the DHT query (external): "none", "running", "closed"
    found,      \* how many results it has produced
    forwarder,  \* the goroutine between the query and handleConn
    ctxDone,    \* the context of the streamed request is done
    timedOut,   \* because its timeout expired
    held,       \* what the connection holds: a libp2p stream, a subscription
    watcher     \* doPubsubPipe's reading goroutine

client == <<sent, inbox, seen, gone>>
dht == <<query, found, forwarder, ctxDone, timedOut>>
vars == <<sent, inbox, log, seen, gone, stage, cur, query, found, forwarder, ctxDone,
          timedOut, held, watcher>>

NoRequest == [n |-> 0, type |-> "none", result |-> "none", v |-> 0]

Init ==
    /\ sent = 0 /\ inbox = <<>> /\ log = <<>> /\ seen = 0 /\ gone = FALSE
    /\ stage = "reading"
    /\ cur = NoRequest
    /\ query = "none" /\ found = 0 /\ forwarder = "none"
    /\ ctxDone = FALSE /\ timedOut = FALSE
    /\ held = "none" /\ watcher = "none"

-----------------------------------------------------------------------------
(***************************************************************************)
(* The client.                                                             *)
(***************************************************************************)
ClientSends(q) ==
    /\ ~gone
    /\ sent < MaxReqs
    /\ sent' = sent + 1
    /\ inbox' = Append(inbox, q)
    /\ UNCHANGED <<log, seen, gone, stage, cur, dht, held, watcher>>

ClientReads ==
    /\ ~gone
    /\ seen < Len(log)
    /\ seen' = seen + 1
    /\ UNCHANGED <<sent, inbox, log, gone, stage, cur, dht, held, watcher>>

ClientGoes ==
    /\ ~gone
    /\ gone' = TRUE
    /\ UNCHANGED <<sent, inbox, log, seen, stage, cur, dht, held, watcher>>

-----------------------------------------------------------------------------
(***************************************************************************)
(* w.WriteMsg: it succeeds while there is room, and fails only after the   *)
(* client hung up.                                                         *)
(***************************************************************************)
Write(msg, v) ==
    /\ Len(log) - seen < SockCap
    /\ log' = Append(log, [n |-> cur.n, msg |-> msg, v |-> v])

WriteFails ==
    /\ gone
    /\ UNCHANGED log

(***************************************************************************)
(* What the handler of a request can answer.  doIdentify and doListPeers   *)
(* cannot fail, nor can a well-formed doConnManager; a missing or          *)
(* malformed parameter and a disabled subsystem are errors; anything else  *)
(* is up to the libp2p host, the DHT or pubsub.                            *)
(***************************************************************************)
hostAnswers(q) ==
    IF q.type = "IDENTIFY" THEN {"ok"}
    ELSE IF q.wellFormed THEN {"ok", "error"} ELSE {"error"}

doConnManager(q) == IF q.wellFormed THEN {"ok"} ELSE {"error"}

DhtAnswers(q) == IF q.wellFormed THEN {"ok", "error"} ELSE {"error"}

doDHT(q) == IF DhtEnabled THEN DhtAnswers(q) ELSE {"error"}

doPubsub(q) == IF PubsubEnabled /\ q.wellFormed THEN {"ok", "error"} ELSE {"error"}

Results(q) ==
    CASE q.type = "CONNMANAGER" -> doConnManager(q)
      [] q.type \in {"DHT_ONE", "DHT_STREAM"} -> doDHT(q)
      [] q.type \in {"PUBSUB", "SUBSCRIBE"} -> doPubsub(q)
      [] OTHER -> hostAnswers(q)

\* The answer is streamed: a query and its forwarder have been started.
StreamedQuery(q, res) == q.type = "DHT_STREAM" /\ res = "ok"

(***************************************************************************)
(* handleConn reads a request and runs its handler.  A streamed DHT        *)
(* request leaves a query and a forwarder running, STREAM_OPEN an open     *)
(* stream, SUBSCRIBE a subscription.                                       *)
(***************************************************************************)
HandleRequest ==
    /\ stage = "reading"
    /\ inbox # <<>>
    /\ LET q == Head(inbox)
       IN  /\ q.type \notin {"GARBAGE", "PERSISTENT_CONN_UPGRADE"}
           /\ \E res \in Results(q) :
                LET streams == StreamedQuery(q, res)
                IN  /\ cur' = [n |-> cur.n + 1, type |-> q.type, result |-> res, v |-> 0]
                    /\ query' = IF streams THEN "running" ELSE query
                    /\ forwarder' = IF streams THEN "receiving" ELSE forwarder
                    /\ found' = IF streams THEN 0 ELSE found
                    /\ ctxDone' = IF streams THEN FALSE ELSE ctxDone
                    /\ timedOut' = IF streams THEN FALSE ELSE timedOut
                    /\ held' = IF res = "error" THEN held
                               ELSE CASE q.type = "STREAM_OPEN" -> "stream"
                                      [] q.type = "SUBSCRIBE" -> "sub"
                                      [] OTHER -> held
    /\ inbox' = Tail(inbox)
    /\ stage' = "answering"
    /\ UNCHANGED <<sent, log, seen, gone, watcher>>

\* The connection becomes persistent (module PersistentConn), or is dropped unanswered.
LeaveLoop ==
    /\ stage = "reading"
    /\ inbox # <<>>
    /\ Head(inbox).type \in {"GARBAGE", "PERSISTENT_CONN_UPGRADE"}
    /\ stage' = IF Head(inbox).type = "GARBAGE" THEN "closed" ELSE "upgraded"
    /\ inbox' = Tail(inbox)
    /\ UNCHANGED <<sent, log, seen, gone, cur, dht, held, watcher>>

\* End of file.
ReadFails ==
    /\ stage = "reading"
    /\ inbox = <<>>
    /\ gone
    /\ stage' = "closed"
    /\ UNCHANGED <<client, log, cur, dht, held, watcher>>

\* The first message of the answer is written; what follows depends on the request.
WriteAnswer ==
    /\ stage = "answering"
    /\ Write(IF cur.result = "ok" /\ cur.type = "DHT_STREAM" THEN "begin" ELSE cur.result, 0)
    /\ stage' = IF cur.result = "error" THEN "reading"
                ELSE CASE cur.type = "DHT_STREAM" -> "streaming"
                       [] cur.type = "STREAM_OPEN" -> "piping"
                       [] cur.type = "SUBSCRIBE" -> "subscribed"
                       [] OTHER -> "reading"
    /\ watcher' = IF cur.type = "SUBSCRIBE" /\ cur.result = "ok" THEN "reading" ELSE watcher
    /\ UNCHANGED <<client, cur, dht, held>>

\* It cannot be written: the query is cancelled, the stream reset, the subscription
\* cancelled, and the connection closed.
WriteAnswerFails ==
    /\ stage = "answering"
    /\ WriteFails
    /\ stage' = "closed"
    /\ ctxDone' = (ctxDone \/ (cur.type = "DHT_STREAM" /\ cur.result = "ok"))
    /\ held' = "none"
    /\ UNCHANGED <<client, cur, query, found, forwarder, timedOut, watcher>>

-----------------------------------------------------------------------------
(***************************************************************************)
(* A streamed DHT answer: the query, the forwarder, and handleConn ranging *)
(* over the forwarder's channel.                                           *)
(***************************************************************************)
\* The query hands the forwarder a result.
QueryYields ==
    /\ query = "running"
    /\ forwarder = "receiving"
    /\ found < MaxValues
    /\ found' = found + 1
    /\ forwarder' = "offering"
    /\ UNCHANGED <<client, log, stage, cur, query, ctxDone, timedOut, held, watcher>>

\* The query ends: it has found everything, or its context is done.
QueryEnds ==
    /\ query = "running"
    /\ query' = "closed"
    /\ UNCHANGED <<client, log, stage, cur, found, forwarder, ctxDone, timedOut, held, watcher>>

\* The timeout of requestContext.
TimesOut ==
    /\ forwarder \in {"receiving", "offering"}
    /\ ~ctxDone
    /\ ctxDone' = TRUE
    /\ timedOut' = TRUE
    /\ UNCHANGED <<client, log, stage, cur, query, found, forwarder, held, watcher>>

\* The forwarder ends with the query, closing its channel and cancelling the context,
ForwarderEnds ==
    /\ forwarder = "receiving"
    /\ query = "closed"
    /\ forwarder' = "ended"
    /\ ctxDone' = TRUE
    /\ UNCHANGED <<client, log, stage, cur, query, found, timedOut, held, watcher>>

\* Variant: the forwarder offers a result without waiting.
ForwarderDrops ==
    /\ forwarder = "offering"
    /\ forwarder' = "ended"
    /\ ctxDone' = TRUE
    /\ UNCHANGED <<client, log, stage, cur, query, found, timedOut, held, watcher>>

\* Variant: the forwarder waits for the handler only.
ForwarderInsists ==
    /\ forwarder = "offering"
    /\ ctxDone
    /\ forwarder' = IF stage = "streaming" THEN "ended" ELSE "offering"
    /\ UNCHANGED <<client, log, stage, cur, query, found, ctxDone, timedOut, held, watcher>>

\* or drops the result it holds when the context is done.
ForwarderGivesUp ==
    /\ forwarder = "offering"
    /\ ctxDone
    /\ forwarder' = "ended"
    /\ UNCHANGED <<client, log, stage, cur, query, found, ctxDone, timedOut, held, watcher>>

\* handleConn takes a result from the channel and then writes it.
TakeValue ==
    /\ stage = "streaming"
    /\ forwarder = "offering"
    /\ forwarder' = "receiving"
    /\ stage' = "writing"
    /\ cur' = [cur EXCEPT !.v = found]
    /\ UNCHANGED <<client, log, query, found, ctxDone, timedOut, held, watcher>>

WriteValue ==
    /\ stage = "writing"
    /\ Write("value", cur.v)
    /\ stage' = "streaming"
    /\ UNCHANGED <<client, cur, dht, held, watcher>>

WriteValueFails ==
    /\ stage = "writing"
    /\ WriteFails
    /\ stage' = "closed"
    /\ ctxDone' = TRUE
    /\ UNCHANGED <<client, cur, query, found, forwarder, timedOut, held, watcher>>

\* Variant: handleConn looks for the next request without an END.
NoEnd ==
    /\ stage = "streaming"
    /\ forwarder = "ended"
    /\ stage' = "reading"
    /\ UNCHANGED <<client, log, cur, dht, held, watcher>>

\* The channel is closed: END, or the connection's end.
WriteEnd ==
    /\ stage = "streaming"
    /\ forwarder = "ended"
    /\ \/ Write("end", 0) /\ stage' = "reading"
       \/ WriteFails /\ stage' = "closed"
    /\ UNCHANGED <<client, cur, dht, held, watcher>>

-----------------------------------------------------------------------------
(***************************************************************************)
(* The requests that take the connection over.                             *)
(***************************************************************************)
\* doStreamPipe returns (module StreamPipe): the stream is closed, and the connection.
PipeEnds ==
    /\ stage = "piping"
    /\ stage' = "closed"
    /\ held' = "none"
    /\ UNCHANGED <<client, log, cur, dht, watcher>>

\* doPubsubPipe's main loop: sub.Next returns a message, which is written,
PubsubMessage ==
    /\ stage = "subscribed"
    /\ held = "sub"
    /\ Cardinality({i \in DOMAIN log : log[i].n = cur.n}) <= MaxValues
    /\ Write("psmsg", 0)
    /\ UNCHANGED <<client, stage, cur, dht, held, watcher>>

\* or cannot be, which leaves it to the reading goroutine to cancel the subscription;
PubsubWriteFails ==
    /\ stage = "subscribed"
    /\ held = "sub"
    /\ WriteFails
    /\ stage' = "closed"
    /\ UNCHANGED <<client, cur, dht, held, watcher>>

\* or fails, because the subscription was cancelled.
PubsubNextFails ==
    /\ stage = "subscribed"
    /\ held = "none"
    /\ stage' = "closed"
    /\ UNCHANGED <<client, log, cur, dht, held, watcher>>

\* The reading goroutine discards what a subscribed client still sends,
WatcherDiscards ==
    /\ watcher = "reading"
    /\ inbox # <<>>
    /\ Head(inbox).type # "GARBAGE"
    /\ inbox' = Tail(inbox)
    /\ UNCHANGED <<sent, log, seen, gone, stage, cur, dht, held, watcher>>

\* Variant: the reading goroutine just stops.
WatcherForgets ==
    /\ watcher = "reading"
    /\ \/ inbox = <<>> /\ (gone \/ stage = "closed")
       \/ inbox # <<>> /\ Head(inbox).type = "GARBAGE"
    /\ watcher' = "ended"
    /\ UNCHANGED <<client, log, stage, cur, dht, held>>

\* and cancels the subscription when it cannot read: the client is gone, its bytes do
\* not parse, or the main loop has returned and handleConn has closed the socket.
WatcherCancels ==
    /\ watcher = "reading"
    /\ \/ inbox = <<>> /\ (gone \/ stage = "closed")
       \/ inbox # <<>> /\ Head(inbox).type = "GARBAGE"
    /\ watcher' = "ended"
    /\ held' = "none"
    /\ UNCHANGED <<client, log, stage, cur, dht>>

-----------------------------------------------------------------------------
HandlerStep ==
    \/ HandleRequest \/ LeaveLoop \/ ReadFails
    \/ WriteAnswer \/ WriteAnswerFails
    \/ TakeValue \/ WriteValue \/ WriteValueFails \/ WriteEnd
    \/ PubsubNextFails

ForwarderStep == ForwarderEnds \/ ForwarderGivesUp

WatcherStep == WatcherDiscards \/ WatcherCancels

\* The connection is closed and everything it started has stopped.
AllDone ==
    /\ stage \in {"closed", "upgraded"}
    /\ watcher # "reading"
    /\ forwarder \in {"none", "ended"}
    /\ query # "running"

Rest == AllDone /\ UNCHANGED vars

Next ==
    \/ \E q \in Requests : ClientSends(q)
    \/ ClientReads \/ ClientGoes
    \/ HandlerStep
    \/ QueryYields \/ QueryEnds \/ TimesOut \/ ForwarderStep
    \/ PipeEnds \/ PubsubMessage \/ PubsubWriteFails \/ WatcherStep
    \/ Rest

Spec == Init /\ [][Next]_vars

(***************************************************************************)
(* The daemon's goroutines run; the timeout of a request expires; a DHT    *)
(* query (external) ends once its context is done.  A client owes the      *)
(* daemon nothing, nor does the remote end of a pipe (StreamPipe).         *)
(***************************************************************************)
Fairness ==
    /\ WF_vars(HandlerStep) /\ WF_vars(ForwarderStep) /\ WF_vars(WatcherStep)
    /\ WF_vars(TimesOut)
    /\ WF_vars(ctxDone /\ QueryEnds)

FairSpec == Spec /\ Fairness

-----------------------------------------------------------------------------
(***************************************************************************)
(* The values the variables of handleConn and its goroutines take; a value *)
(* being written is one the query has produced.                            *)
(***************************************************************************)
Messages == [n : Nat, msg : {"ok", "error", "begin", "value", "end", "psmsg"}, v : Nat]

Served == [n : Nat, type : Types \cup {"none"}, result : {"none", "ok", "error"},
           v : 0 .. MaxValues]

TypeOK ==
    /\ sent \in 0..MaxReqs /\ inbox \in Seq(Requests) /\ seen \in Nat /\ gone \in BOOLEAN
    /\ log \in Seq(Messages)
    /\ stage \in {"reading", "answering", "streaming", "writing", "piping", "subscribed",
                  "upgraded", "closed"}
    /\ cur \in Served
    /\ query \in {"none", "running", "closed"}
    /\ found \in 0..MaxValues
    /\ forwarder \in {"none", "receiving", "offering", "ended"}
    /\ ctxDone \in BOOLEAN /\ timedOut \in BOOLEAN
    /\ held \in {"none", "stream", "sub"}
    /\ watcher \in {"none", "reading", "ended"}

Header == {"ok", "error", "begin"}

\* What may be written after the message prev.
Follows(prev, m) ==
    IF m.msg \in Header
    THEN m.n = prev.n + 1 /\ prev.msg \in {"ok", "error", "end"}
    ELSE /\ m.n = prev.n
         /\ m.msg = "value" => prev.msg \in {"begin", "value"} /\ m.v = prev.v + 1
         /\ m.msg = "end" => prev.msg \in {"begin", "value"}
         /\ m.msg = "psmsg" => prev.msg \in {"ok", "psmsg"}

(***************************************************************************)
(* A client that sends requests ahead can tell the answers apart: the      *)
(* answers come in the order of the requests, one header each; a streamed  *)
(* answer is BEGIN, its values in order, END, with nothing of another      *)
(* answer in between; subscription messages only follow their OK.          *)
(***************************************************************************)
WellFramed ==
    \A i \in DOMAIN log :
      IF i = 1 THEN log[i].n = 1 /\ log[i].msg \in Header
      ELSE Follows(log[i - 1], log[i])

\* The results of the query that were written in answer to request n.
ValuesOf(n) == {i \in DOMAIN log : log[i].n = n /\ log[i].msg = "value"}

(***************************************************************************)
(* A streamed answer that is about to end without a timeout holds every    *)
(* result of the query: none is lost between the query, the forwarder and  *)
(* handleConn.                                                             *)
(***************************************************************************)
NoResultLost ==
    stage = "streaming" /\ forwarder = "ended" /\ ~timedOut =>
      found = Cardinality(ValuesOf(cur.n))

(***************************************************************************)
(* A closed connection holds no stream and no subscription once its        *)
(* reading goroutine is gone, however it came to be closed.                *)
(***************************************************************************)
NothingHeld == stage = "closed" /\ watcher # "reading" => held = "none"

(***************************************************************************)
(* What holds of a control connection at any moment: its answers are well  *)
(* framed, and it holds nothing once it is closed.                         *)
(***************************************************************************)
ConnInv == TypeOK /\ WellFramed /\ NothingHeld

(***************************************************************************)
(* The forwarder of a streamed request ends, even if the client stops      *)
(* reading and handleConn is stuck in a write.                             *)
(***************************************************************************)
ForwarderStops == forwarder \in {"receiving", "offering"} ~> forwarder = "ended"

(***************************************************************************)
(* After a client hung up its connection is closed (or has become a        *)
(* persistent one) and all it started is released, unless handleConn is in *)
(* doStreamPipe, which waits for both copies: one may stay in a Write to a *)
(* remote that does not read, while the other has nothing to notice (see   *)
(* OneEndsBoth in StreamPipe).                                             *)
(***************************************************************************)
ReleasedAfterHangUp ==
    gone ~> (AllDone /\ (stage = "closed" => held = "none")) \/ stage = "piping"
=============================================================================
