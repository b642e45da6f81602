--------------------------- MODULE ClientStreams ----------------------------
(***************************************************************************)
(* A client's streams (p2pclient/streams.go): NewStreamHandler and the     *)
(* dispatcher that gives the connections at the client's listener to the   *)
(* handlers, and NewStream, whose control connection becomes the stream.   *)
(*                                                                         *)
(* A connection carries messages, then the data of the stream.  The        *)
(* daemon's part is doStreamHandler and handleStream: it connects to the   *)
(* listener for every stream of a bound protocol, sends the stream's info  *)
(* and then the data.  Any other process can connect to the listener too,  *)
(* and send nothing (Strays).                                              *)
(***************************************************************************)
EXTENDS Naturals, Sequences

CONSTANTS
    Regs,       \* calls of NewStreamHandler
    Streams,    \* inbound streams of the daemon
    Strays,     \* connections of others
    Protos,
    MaxData,    \* pieces of data sent on a stream
    None

ASSUME StreamsAssumption ==
    /\ Streams \cap Strays = {}
    /\ None \notin Regs \cup Streams \cup Strays \cup Protos
    /\ MaxData \in Nat

VARIABLES
    reg,        \* per call: its program counter and protocol, and its control connection
    mhandlers,  \* who holds the mutex
    handlers,   \* the handler of a protocol
    bound,      \* the daemon: protocols bound to this client's listener
    listener,   \* open or closed
    backlog,    \* connections nobody has accepted
    dispatcher, \* streamDispatcher: its program counter and connection
    conn,       \* per connection: its state, protocol, what is unread, and data sent
    opener      \* one call of NewStream, with its control connection

vars == <<reg, mhandlers, handlers, bound, listener, backlog, dispatcher, conn, opener>>

Conns == Streams \cup Strays

Init ==
    /\ reg \in [Regs -> [pc : {"idle"}, proto : Protos, asked : {FALSE}]]
    /\ mhandlers = None
    /\ handlers = [p \in Protos |-> None]
    /\ bound = {}
    /\ listener = "open"
    /\ backlog = <<>>
    /\ dispatcher = [pc |-> "accepting", conn |-> None]
    /\ conn = [c \in Conns |->
         [pc |-> "none", proto |-> None, unread |-> <<>>, sent |-> 0, eof |-> FALSE]]
    /\ opener = [pc |-> "idle", control |-> "none", unread |-> <<>>, sent |-> 0,
                 answer |-> "none", eof |-> FALSE]
-----------------------------------------------------------------------------
(***************************************************************************)
(* NewStreamHandler: the mutex is held from before the request is written  *)
(* until the handler is stored.  The answer is never read, and the control *)
(* connection never closed.                                                *)
(***************************************************************************)
handlerVars == <<listener, backlog, dispatcher, conn, opener>>

\* Variant: the mutex is not taken.
LockMissing(r) ==
    /\ reg[r].pc = "idle"
    /\ mhandlers = None
    /\ reg' = [reg EXCEPT ![r].pc = "locked"]
    /\ UNCHANGED <<mhandlers, handlers, bound, handlerVars>>

Lock(r) ==
    /\ reg[r].pc = "idle"
    /\ mhandlers = None
    /\ mhandlers' = r
    /\ reg' = [reg EXCEPT ![r].pc = "locked"]
    /\ UNCHANGED <<handlers, bound, handlerVars>>

\* The request is written, or the write fails and the deferred Unlock runs.
WriteHandler(r) ==
    /\ reg[r].pc = "locked"
    /\ \/ /\ reg' = [reg EXCEPT ![r].pc = "written", ![r].asked = TRUE]
          /\ UNCHANGED mhandlers
       \/ /\ reg' = [reg EXCEPT ![r].pc = "err"]
          /\ mhandlers' = None
    /\ UNCHANGED <<handlers, bound, handlerVars>>

StoreHandler(r) ==
    /\ reg[r].pc = "written"
    /\ handlers' = [handlers EXCEPT ![reg[r].proto] = r]
    /\ mhandlers' = None
    /\ reg' = [reg EXCEPT ![r].pc = "ok"]
    /\ UNCHANGED <<bound, handlerVars>>

\* The daemon serves the request (doStreamHandler).
Bind(r) ==
    /\ reg[r].asked
    /\ bound' = bound \cup {reg[r].proto}
    /\ reg' = [reg EXCEPT ![r].asked = FALSE]
    /\ UNCHANGED <<mhandlers, handlers, handlerVars>>
-----------------------------------------------------------------------------
(***************************************************************************)
(* Connections to the listener.                                            *)
(***************************************************************************)
tableVars == <<reg, mhandlers, handlers, bound>>

connects(c, p) ==
    /\ conn[c].pc = "none"
    /\ listener = "open"
    /\ conn' = [conn EXCEPT ![c].pc = "backlog", ![c].proto = p]
    /\ backlog' = Append(backlog, c)

\* handleStream connects for a stream of a bound protocol;
Proxy(s) ==
    /\ \E p \in bound : connects(s, p)
    /\ UNCHANGED <<tableVars, listener, dispatcher, opener>>

\* it sends the info, or fails and closes the connection,
SendInfo(s) ==
    /\ conn[s].pc # "none" /\ conn[s].sent = 0 /\ conn[s].unread = <<>> /\ ~conn[s].eof
    /\ conn[s].pc \in {"backlog", "reading"}
    /\ \/ conn' = [conn EXCEPT ![s].unread = <<"info">>]
       \/ conn' = [conn EXCEPT ![s].eof = TRUE]
    /\ UNCHANGED <<tableVars, listener, backlog, dispatcher, opener>>

\* and then pipes the stream's data.
SendData(s) ==
    /\ conn[s].pc \in {"looking", "handed"} \/ conn[s].unread # <<>>
    /\ conn[s].sent < MaxData
    /\ conn' = [conn EXCEPT ![s].unread = Append(@, "data"), ![s].sent = @ + 1]
    /\ UNCHANGED <<tableVars, listener, backlog, dispatcher, opener>>

Stray(c) ==
    /\ connects(c, None)
    /\ UNCHANGED <<tableVars, listener, dispatcher, opener>>

\* It may send something that is no info, or hang up; nothing makes it.
StraySpeaks(c) ==
    /\ conn[c].pc \in {"backlog", "reading"} /\ conn[c].unread = <<>> /\ ~conn[c].eof
    /\ \/ conn' = [conn EXCEPT ![c].unread = <<"junk">>]
       \/ conn' = [conn EXCEPT ![c].eof = TRUE]
    /\ UNCHANGED <<tableVars, listener, backlog, dispatcher, opener>>
-----------------------------------------------------------------------------
(***************************************************************************)
(* streamDispatcher.                                                       *)
(***************************************************************************)
Accept ==
    /\ dispatcher.pc = "accepting"
    /\ listener = "open" /\ backlog # <<>>
    /\ dispatcher' = [pc |-> "reading", conn |-> Head(backlog)]
    /\ conn' = [conn EXCEPT ![Head(backlog)].pc = "reading"]
    /\ backlog' = Tail(backlog)
    /\ UNCHANGED <<tableVars, listener, opener>>

AcceptFails ==
    /\ dispatcher.pc = "accepting"
    /\ listener = "closed"
    /\ dispatcher' = [dispatcher EXCEPT !.pc = "stopped"]
    /\ UNCHANGED <<tableVars, listener, backlog, conn, opener>>

\* What is left of a connection's bytes when a message was read from it.  Variant: a
\* reader with a buffer takes what has arrived.
afterBuffered(unread) == <<>>

\* readMsgSafe reads the length byte by byte and then the message, and nothing more.
readMsgSafe(unread) == Tail(unread)

\* The dispatcher waits for the info of the connection it accepted.
ReadInfo ==
    /\ dispatcher.pc = "reading"
    /\ LET c == dispatcher.conn
       IN  /\ conn[c].unread # <<>>
           /\ \/ /\ Head(conn[c].unread) = "info"
                 /\ conn' = [conn EXCEPT ![c].pc = "looking",
                                         ![c].unread = readMsgSafe(@)]
                 /\ dispatcher' = [dispatcher EXCEPT !.pc = "looking"]
              \/ /\ Head(conn[c].unread) = "junk"
                 /\ conn' = [conn EXCEPT ![c].pc = "closed"]
                 /\ dispatcher' = [pc |-> "accepting", conn |-> None]
    /\ UNCHANGED <<tableVars, listener, backlog, opener>>

\* Variant: an error while reading the info ends the dispatcher.
ReadInfoStops ==
    /\ dispatcher.pc = "reading"
    /\ conn[dispatcher.conn].unread = <<>> /\ conn[dispatcher.conn].eof
    /\ conn' = [conn EXCEPT ![dispatcher.conn].pc = "closed"]
    /\ dispatcher' = [pc |-> "stopped", conn |-> None]
    /\ UNCHANGED <<tableVars, listener, backlog, opener>>

ReadInfoFails ==
    /\ dispatcher.pc = "reading"
    /\ conn[dispatcher.conn].unread = <<>> /\ conn[dispatcher.conn].eof
    /\ conn' = [conn EXCEPT ![dispatcher.conn].pc = "closed"]
    /\ dispatcher' = [pc |-> "accepting", conn |-> None]
    /\ UNCHANGED <<tableVars, listener, backlog, opener>>

\* The handler starts in a goroutine of its own; without one the connection is closed.
Dispatch ==
    /\ dispatcher.pc = "looking"
    /\ mhandlers = None
    /\ conn' = [conn EXCEPT ![dispatcher.conn].pc =
                  IF handlers[conn[dispatcher.conn].proto] = None THEN "dropped"
                  ELSE "handed"]
    /\ dispatcher' = [pc |-> "accepting", conn |-> None]
    /\ UNCHANGED <<tableVars, listener, backlog, opener>>

\* Client.Close closes the listener; connections nobody accepted are reset.
Close ==
    /\ listener = "open"
    /\ listener' = "closed"
    /\ backlog' = <<>>
    /\ conn' = [c \in Conns |->
                  IF conn[c].pc = "backlog" THEN [conn[c] EXCEPT !.pc = "closed"]
                  ELSE conn[c]]
    /\ UNCHANGED <<tableVars, dispatcher, opener>>
-----------------------------------------------------------------------------
(***************************************************************************)
(* NewStream.                                                              *)
(***************************************************************************)
openerVars == <<tableVars, listener, backlog, dispatcher, conn>>

OpenRequest ==
    /\ opener.pc = "idle"
    /\ \/ opener' = [opener EXCEPT !.pc = "reading", !.control = "open"]
       \/ opener' = [opener EXCEPT !.pc = "err", !.control = "closed"]
    /\ UNCHANGED openerVars

\* The daemon answers, and pipes the data of the new stream behind its answer.
OpenAnswer ==
    /\ opener.pc = "reading" /\ opener.answer = "none" /\ ~opener.eof
    /\ \/ \E a \in {"ok", "error", "junk"} :
            opener' = [opener EXCEPT !.answer = a, !.unread = <<a>>]
       \/ opener' = [opener EXCEPT !.eof = TRUE]
    /\ UNCHANGED openerVars

OpenData ==
    /\ opener.answer = "ok"
    /\ opener.sent < MaxData
    /\ opener' = [opener EXCEPT !.unread = Append(@, "data"), !.sent = @ + 1]
    /\ UNCHANGED openerVars

\* A connection that fails is closed; one on which the daemon answered with an error, or
\* with an info that does not parse, is not.
OpenReturns ==
    /\ opener.pc = "reading"
    /\ opener.unread # <<>> \/ opener.eof
    /\ opener' = IF opener.eof THEN [opener EXCEPT !.pc = "err", !.control = "closed"]
                 ELSE [opener EXCEPT !.pc = IF opener.answer = "ok" THEN "ok" ELSE "err",
                                     !.unread = readMsgSafe(@)]
    /\ UNCHANGED openerVars
-----------------------------------------------------------------------------
RegStep(r) == Lock(r) \/ WriteHandler(r) \/ StoreHandler(r)

DispatcherStep == Accept \/ AcceptFails \/ ReadInfo \/ ReadInfoFails \/ Dispatch

Rest == listener = "closed" /\ UNCHANGED vars

Next ==
    \/ \E r \in Regs : RegStep(r) \/ Bind(r)
    \/ \E s \in Streams : Proxy(s) \/ SendInfo(s) \/ SendData(s)
    \/ \E c \in Strays : Stray(c) \/ StraySpeaks(c)
    \/ DispatcherStep \/ Close
    \/ OpenRequest \/ OpenAnswer \/ OpenData \/ OpenReturns
    \/ Rest

(***************************************************************************)
(* Goroutines of the client run, and the daemon sends the info of a stream *)
(* or closes its connection.  A stray owes nothing.                        *)
(***************************************************************************)
Fairness ==
    /\ \A r \in Regs : WF_vars(RegStep(r))
    /\ \A s \in Streams : WF_vars(SendInfo(s))
    /\ WF_vars(DispatcherStep) /\ WF_vars(OpenReturns)

Spec == Init /\ [][Next]_vars /\ Fairness
-----------------------------------------------------------------------------
(***************************************************************************)
(* The values of the variables.  The mutex is held by the call that is     *)
(* between its request and its handler; the dispatcher and one connection  *)
(* are at the same place, and no other connection is there.                *)
(***************************************************************************)
RegStates == [pc : {"idle", "locked", "written", "ok", "err"}, proto : Protos,
              asked : BOOLEAN]

ConnStates == [pc : {"none", "backlog", "reading", "looking", "handed", "dropped",
                     "closed"},
               proto : Protos \cup {None}, unread : Seq({"info", "junk", "data"}),
               sent : Nat, eof : BOOLEAN]

OpenerStates == [pc : {"idle", "reading", "ok", "err"}, control : {"none", "open", "closed"},
                 unread : Seq({"ok", "error", "junk", "data"}), sent : Nat,
                 answer : {"none", "ok", "error", "junk"}, eof : BOOLEAN]

TypeOK ==
    /\ reg \in [Regs -> RegStates]
    /\ mhandlers \in Regs \cup {None}
    /\ \A r \in Regs : reg[r].pc \in {"locked", "written"} => mhandlers = r
    /\ handlers \in [Protos -> Regs \cup {None}]
    /\ bound \subseteq Protos
    /\ listener \in {"open", "closed"}
    /\ backlog \in Seq(Conns)
    /\ dispatcher \in [pc : {"accepting", "reading", "looking", "stopped"},
                       conn : Conns \cup {None}]
    /\ conn \in [Conns -> ConnStates]
    /\ \A c \in Conns :
         /\ conn[c].pc \in {"reading", "looking"} <=> dispatcher.conn = c
         /\ dispatcher.conn = c => conn[c].pc = dispatcher.pc
    /\ opener \in OpenerStates

(***************************************************************************)
(* A stream the daemon proxies to this client finds its handler: although  *)
(* the daemon may bind the protocol and connect before NewStreamHandler    *)
(* has stored the handler, the dispatcher waits for it at the mutex.       *)
(***************************************************************************)
ProxiedFindsHandler ==
    \A s \in Streams : conn[s].pc # "dropped"

(***************************************************************************)
(* The data of a stream is for its owner: whatever the sender put right    *)
(* behind the info, or behind the answer to NewStream, is still unread     *)
(* when the connection is handed over.                                     *)
(***************************************************************************)
NothingSwallowed ==
    /\ \A s \in Streams :
         conn[s].pc \in {"looking", "handed"} => Len(conn[s].unread) = conn[s].sent
    /\ opener.pc = "ok" => Len(opener.unread) = opener.sent

(***************************************************************************)
(* A NewStream that fails has closed its connection, except when the       *)
(* daemon answered: then it stays open with nobody to close it.            *)
(***************************************************************************)
FailedOpenCloses ==
    opener.pc = "err" /\ opener.control = "open" => opener.answer \in {"error", "junk"}

(***************************************************************************)
(* What holds of the client's streams at any moment: the dispatcher is at one *)
(* connection, no data is swallowed, and a failed NewStream has closed its *)
(* connection unless the daemon answered.                                  *)
(***************************************************************************)
DispatchInv == TypeOK /\ NothingSwallowed /\ FailedOpenCloses

(***************************************************************************)
(* A stream that reaches the listener is handed to its handler or closed,  *)
(* also after one that failed, unless the dispatcher waits for the info of *)
(* a connection that never sends it: it accepts one connection at a time.  *)
(***************************************************************************)
StreamDispatched ==
    \A s \in Streams :
      conn[s].pc = "backlog" ~>
        \/ conn[s].pc \in {"handed", "closed"}
        \/ dispatcher.conn \in Strays

=============================================================================
