--------------------------- MODULE PersistentConn ---------------------------
(***************************************************************************)
(* Who answers an inbound libp2p protocol: the registration side of the    *)
(* daemon (persistent_stream.go, conn.go, stream.go).                      *)
(*                                                                         *)
(* A persistent control connection registers unary handlers, the one-shot  *)
(* STREAM_HANDLER request binds a protocol to an address, and both install *)
(* their callback in the one protocol table of the libp2p host.  Every     *)
(* request of a persistent connection is served by a goroutine of its own, *)
(* which takes d.mx twice: once in doAddUnaryHandler, once more to append  *)
(* the protocol to the connection's clean-up list.  Each critical section  *)
(* of d.mx is one action here, because every access to the four tables is  *)
(* made under d.mx; what happens between two sections may interleave.      *)
(***************************************************************************)
CONSTANTS
    Conns,      \* persistent connections; one handlePersistentConn each
    Reqs,       \* AddUnaryHandler requests; one goroutine each
    Streams,    \* inbound libp2p streams
    Protos,     \* protocol ids
    Addrs,      \* multiaddrs a STREAM_HANDLER request can name
    NoConn, NoProto, NoAddr,
    NoHandler,  \* the host has no callback for a protocol
    Proxy       \* the callback is d.handleStream

ASSUME SentinelAssumption ==
    /\ NoConn \notin Conns
    /\ NoProto \notin Protos
    /\ NoAddr \notin Addrs
    /\ NoHandler \notin Conns \cup {Proxy}
    /\ Proxy \notin Conns

VARIABLES
    host,           \* the callback the host's multiplexer runs for a protocol: the
                    \* persistent handler writing to a connection, Proxy, or none
    registered,     \* d.registeredUnaryProtocols.  The map holds only `true'; the
                    \* model remembers which connection put it there
    handlers,       \* d.handlers, the STREAM_HANDLER bindings
    conn,           \* where handlePersistentConn is on each connection
    streamHandlers, \* the clean-up list of each connection
    req,            \* where each request's goroutine is
    inbound         \* where the callback running for each inbound stream is

vars == <<host, registered, handlers, conn, streamHandlers, req, inbound>>

ConnStages == {"new", "open", "closing", "cleaned", "closed"}

ReqStages == {"unsent", "spawned", "registered", "refused", "appended",
              "confirmed", "late", "lost", "rejected", "dropped"}

StreamStages == {"idle", "routed", "refused", "handed", "proxied", "reset"}

(***************************************************************************)
(* The deferred clean-up of a connection has run.                          *)
(***************************************************************************)
Cleaned(c) == conn[c] \in {"cleaned", "closed"}

(***************************************************************************)
(* Writing to a connection's client can only succeed before handleConn's   *)
(* deferred c.Close().                                                     *)
(***************************************************************************)
Writable(c) == conn[c] \in {"open", "closing", "cleaned"}

-----------------------------------------------------------------------------
Init ==
    /\ host = [p \in Protos |-> NoHandler]
    /\ registered = [p \in Protos |-> NoConn]
    /\ handlers = [p \in Protos |-> NoAddr]
    /\ conn = [c \in Conns |-> "new"]
    /\ streamHandlers = [c \in Conns |-> {}]
    /\ req = [r \in Reqs |-> [stage |-> "unsent", conn |-> NoConn, proto |-> NoProto]]
    /\ inbound = [s \in Streams |->
                    [stage |-> "idle", proto |-> NoProto, to |-> NoHandler]]

(***************************************************************************)
(* handleConn reads PERSISTENT_CONN_UPGRADE; handlePersistentConn answers  *)
(* OK and enters its read loop, or cannot write the OK and returns.        *)
(***************************************************************************)
Upgrade(c) ==
    /\ conn[c] = "new"
    /\ conn' = [conn EXCEPT ![c] = "open"]
    /\ UNCHANGED <<host, registered, handlers, streamHandlers, req, inbound>>

UpgradeFails(c) ==
    /\ conn[c] = "new"
    /\ conn' = [conn EXCEPT ![c] = "closing"]
    /\ UNCHANGED <<host, registered, handlers, streamHandlers, req, inbound>>

(***************************************************************************)
(* The read loop starts a goroutine for a request.  One whose call id does *)
(* not parse is dropped by its goroutine without an answer.                *)
(***************************************************************************)
ReadRequest(r, c, p) ==
    /\ conn[c] = "open"
    /\ req[r].stage = "unsent"
    /\ \E goodCallId \in BOOLEAN :
         req' = [req EXCEPT ![r] =
                   [stage |-> IF goodCallId THEN "spawned" ELSE "dropped",
                    conn |-> c, proto |-> p]]
    /\ UNCHANGED <<host, registered, handlers, conn, streamHandlers, inbound>>

(***************************************************************************)
(* The read loop ends: the client hung up, or sent what does not parse.    *)
(***************************************************************************)
ReadFails(c) ==
    /\ conn[c] = "open"
    /\ conn' = [conn EXCEPT ![c] = "closing"]
    /\ UNCHANGED <<host, registered, handlers, streamHandlers, req, inbound>>

\* Variant: the clean-up clears the registrations and leaves the callbacks.
CleanupKeepsRoutes(c) ==
    /\ conn[c] = "closing"
    /\ conn' = [conn EXCEPT ![c] = "cleaned"]
    /\ registered' = [p \in Protos |->
                        IF p \in streamHandlers[c] THEN NoConn ELSE registered[p]]
    /\ UNCHANGED <<host, handlers, streamHandlers, req, inbound>>

\* Variant: the clean-up removes the callbacks and forgets the registrations.
CleanupKeepsRegistered(c) ==
    /\ conn[c] = "closing"
    /\ conn' = [conn EXCEPT ![c] = "cleaned"]
    /\ host' = [p \in Protos |-> IF p \in streamHandlers[c] THEN NoHandler ELSE host[p]]
    /\ UNCHANGED <<registered, handlers, streamHandlers, req, inbound>>

(***************************************************************************)
(* The deferred function of handlePersistentConn, one section of d.mx: it  *)
(* forgets every protocol on the list as the list is now.                  *)
(***************************************************************************)
Cleanup(c) ==
    /\ conn[c] = "closing"
    /\ conn' = [conn EXCEPT ![c] = "cleaned"]
    /\ host' = [p \in Protos |-> IF p \in streamHandlers[c] THEN NoHandler ELSE host[p]]
    /\ registered' = [p \in Protos |->
                        IF p \in streamHandlers[c] THEN NoConn ELSE registered[p]]
    /\ UNCHANGED <<handlers, streamHandlers, req, inbound>>

(***************************************************************************)
(* handleConn returns and closes the socket.                               *)
(***************************************************************************)
CloseSocket(c) ==
    /\ conn[c] = "cleaned"
    /\ conn' = [conn EXCEPT ![c] = "closed"]
    /\ UNCHANGED <<host, registered, handlers, streamHandlers, req, inbound>>

\* Variant: the protocol is taken over without asking who holds it.
doAddUnaryHandlerUnchecked(r) ==
    /\ req[r].stage = "spawned"
    /\ host' = [host EXCEPT ![req[r].proto] = req[r].conn]
    /\ registered' = [registered EXCEPT ![req[r].proto] = req[r].conn]
    /\ req' = [req EXCEPT ![r].stage = "registered"]
    /\ UNCHANGED <<handlers, conn, streamHandlers, inbound>>

(***************************************************************************)
(* doAddUnaryHandler, one section of d.mx.                                 *)
(***************************************************************************)
doAddUnaryHandler(r) ==
    /\ req[r].stage = "spawned"
    /\ LET p == req[r].proto
           c == req[r].conn
       IN  \/ /\ registered[p] # NoConn
              /\ req' = [req EXCEPT ![r].stage = "refused"]
              /\ UNCHANGED <<host, registered>>
           \/ /\ registered[p] = NoConn
              /\ host' = [host EXCEPT ![p] = c]
              /\ registered' = [registered EXCEPT ![p] = c]
              /\ req' = [req EXCEPT ![r].stage = "registered"]
    /\ UNCHANGED <<handlers, conn, streamHandlers, inbound>>

\* Variant: the protocol does not join the list.
AppendNothing(r) ==
    /\ req[r].stage = "registered"
    /\ req' = [req EXCEPT ![r].stage = "appended"]
    /\ UNCHANGED <<host, registered, handlers, conn, streamHandlers, inbound>>

(***************************************************************************)
(* The second section of d.mx: unless the answer is an error, the protocol *)
(* joins the clean-up list.  The list is the connection's own variable and *)
(* outlives the clean-up, so the append always succeeds.                   *)
(***************************************************************************)
AppendToList(r) ==
    /\ req[r].stage = "registered"
    /\ streamHandlers' = [streamHandlers EXCEPT ![req[r].conn] = @ \cup {req[r].proto}]
    /\ req' = [req EXCEPT ![r].stage = "appended"]
    /\ UNCHANGED <<host, registered, handlers, conn, inbound>>

(***************************************************************************)
(* w.WriteMsg(resp).  "confirmed": the OK was written before the clean-up; *)
(* "late": after it, on a socket not yet closed; "lost": it could not be   *)
(* written.  An error is "rejected" when written and "dropped" otherwise.  *)
(***************************************************************************)
Reply(r) ==
    /\ req[r].stage \in {"appended", "refused"}
    /\ \/ /\ Writable(req[r].conn)
          /\ req' = [req EXCEPT ![r].stage =
                       IF @ = "refused" THEN "rejected"
                       ELSE IF Cleaned(req[r].conn) THEN "late" ELSE "confirmed"]
       \/ req' = [req EXCEPT ![r].stage = IF @ = "refused" THEN "dropped" ELSE "lost"]
    /\ UNCHANGED <<host, registered, handlers, conn, streamHandlers, inbound>>

(***************************************************************************)
(* doStreamHandler, one section of d.mx: the host's callback is set only   *)
(* for a protocol that has no binding yet.  A request whose address does   *)
(* not parse changes nothing.                                              *)
(***************************************************************************)
doStreamHandler(ps, a) ==
    /\ host' = [p \in Protos |->
                  IF p \in ps /\ handlers[p] = NoAddr THEN Proxy ELSE host[p]]
    /\ handlers' = [p \in Protos |-> IF p \in ps THEN a ELSE handlers[p]]
    /\ UNCHANGED <<registered, conn, streamHandlers, req, inbound>>

-----------------------------------------------------------------------------
(***************************************************************************)
(* A remote peer opens a stream: the host's multiplexer (external) runs    *)
(* the callback installed now, or refuses the protocol.                    *)
(***************************************************************************)
Incoming(s, p) ==
    /\ inbound[s].stage = "idle"
    /\ inbound' = [inbound EXCEPT ![s] =
                     [stage |-> IF host[p] = NoHandler THEN "refused" ELSE "routed",
                      proto |-> p, to |-> host[p]]]
    /\ UNCHANGED <<host, registered, handlers, conn, streamHandlers, req>>

(***************************************************************************)
(* The callback made by getPersistentStreamHandler reads the call and      *)
(* hands it to the client of its connection, or closes the stream when the *)
(* call cannot be read or the client cannot be written to.                 *)
(***************************************************************************)
PersistentStream(s) ==
    /\ inbound[s].stage = "routed"
    /\ inbound[s].to \in Conns
    /\ \/ /\ Writable(inbound[s].to)
          /\ inbound' = [inbound EXCEPT ![s].stage = "handed"]
       \/ inbound' = [inbound EXCEPT ![s].stage = "reset"]
    /\ UNCHANGED <<host, registered, handlers, conn, streamHandlers, req>>

(***************************************************************************)
(* handleStream looks the address up under d.mx, dials it and announces    *)
(* the stream; it resets the stream when there is no address or when       *)
(* dialling or announcing fails.                                           *)
(***************************************************************************)
handleStream(s) ==
    /\ inbound[s].stage = "routed"
    /\ inbound[s].to = Proxy
    /\ \E dialled \in BOOLEAN :
         inbound' = [inbound EXCEPT ![s].stage =
                       IF dialled /\ handlers[inbound[s].proto] # NoAddr
                       THEN "proxied" ELSE "reset"]
    /\ UNCHANGED <<host, registered, handlers, conn, streamHandlers, req>>

-----------------------------------------------------------------------------
ConnStep(c) ==
    \/ Upgrade(c) \/ UpgradeFails(c) \/ ReadFails(c) \/ Cleanup(c) \/ CloseSocket(c)
    \/ \E r \in Reqs, p \in Protos : ReadRequest(r, c, p)

ReqStep(r) == doAddUnaryHandler(r) \/ AppendToList(r) \/ Reply(r)

StreamStep(s) ==
    \/ \E p \in Protos : Incoming(s, p)
    \/ PersistentStream(s)
    \/ handleStream(s)

Next ==
    \/ \E c \in Conns : ConnStep(c)
    \/ \E r \in Reqs : ReqStep(r)
    \/ \E s \in Streams : StreamStep(s)
    \/ \E ps \in SUBSET Protos, a \in Addrs : doStreamHandler(ps, a)

Spec == Init /\ [][Next]_vars

-----------------------------------------------------------------------------
(***************************************************************************)
(* The values of the daemon's tables, of the clean-up lists and of the     *)
(* program counters; a clean-up list holds protocol ids.                   *)
(***************************************************************************)
TypeOK ==
    /\ host \in [Protos -> Conns \cup {Proxy, NoHandler}]
    /\ registered \in [Protos -> Conns \cup {NoConn}]
    /\ handlers \in [Protos -> Addrs \cup {NoAddr}]
    /\ conn \in [Conns -> ConnStages]
    /\ streamHandlers \in [Conns -> SUBSET Protos]
    /\ req \in [Reqs -> [stage : ReqStages, conn : Conns \cup {NoConn},
                         proto : Protos \cup {NoProto}]]
    /\ inbound \in [Streams -> [stage : StreamStages, proto : Protos \cup {NoProto},
                                to : Conns \cup {Proxy, NoHandler}]]

(***************************************************************************)
(* d.registeredUnaryProtocols and the host's table agree although they are *)
(* two structures: the host runs a connection's persistent handler only    *)
(* for a protocol registered by that very connection, and a registered     *)
(* protocol is routed to its owner unless STREAM_HANDLER took it over.     *)
(***************************************************************************)
RegistryMatchesHost ==
    \A p \in Protos :
      /\ host[p] \in Conns => registered[p] = host[p]
      /\ registered[p] # NoConn => host[p] \in {registered[p], Proxy}

(***************************************************************************)
(* A call is never handed to a client that no longer owns its protocol: a  *)
(* stream routed to a connection finds that connection still the owner of  *)
(* the protocol until the connection's own clean-up has run.               *)
(***************************************************************************)
RoutedToOwner ==
    \A s \in Streams :
      inbound[s].stage = "routed" /\ inbound[s].to \in Conns =>
        registered[inbound[s].proto] = inbound[s].to \/ Cleaned(inbound[s].to)

(***************************************************************************)
(* handleStream's "unexpected stream" branch is never needed: whenever it  *)
(* runs, the address of its protocol is there.                             *)
(***************************************************************************)
ProxyHasAddress ==
    \A s \in Streams :
      inbound[s].stage = "routed" /\ inbound[s].to = Proxy =>
        handlers[inbound[s].proto] # NoAddr

(***************************************************************************)
(* The route of a dead connection.  The callback keeps the writer of its   *)
(* connection for ever, so a protocol still routed to a connection whose   *)
(* clean-up has run reaches nobody and cannot be registered again.  That   *)
(* takes a registration of this protocol on this connection whose OK was   *)
(* not written before the clean-up: one confirmed in time is never left.   *)
(***************************************************************************)
DeadRouteOnlyUnconfirmed ==
    \A p \in Protos, c \in Conns :
      host[p] = c /\ Cleaned(c) =>
        \E r \in Reqs : /\ req[r].conn = c /\ req[r].proto = p
                        /\ req[r].stage \in {"registered", "appended", "late", "lost"}

(***************************************************************************)
(* A protocol is held by one connection at a time: once a client was told  *)
(* OK, and until its connection is cleaned up, the protocol is registered  *)
(* to it and no other request for the protocol can be confirmed.           *)
(***************************************************************************)
ConfirmedOwns ==
    \A r \in Reqs :
      req[r].stage = "confirmed" /\ ~Cleaned(req[r].conn) =>
        registered[req[r].proto] = req[r].conn

(***************************************************************************)
(* The clean-up of a connection frees every protocol whose registration    *)
(* was confirmed to its client.                                            *)
(***************************************************************************)
ConfirmedHandlersFreed ==
    [][\A r \in Reqs :
         /\ req[r].stage = "confirmed"
         /\ ~Cleaned(req[r].conn)
         /\ Cleaned(req[r].conn)'
         => registered'[req[r].proto] = NoConn]_vars

(***************************************************************************)
(* A registration ends in one way only: with the clean-up of the           *)
(* connection that made it, never with a refused request, another          *)
(* connection's clean-up or a STREAM_HANDLER request.                      *)
(***************************************************************************)
OnlyOwnerReleases ==
    [][\A p \in Protos :
         registered'[p] # registered[p] /\ registered[p] # NoConn =>
           /\ registered'[p] = NoConn
           /\ conn[registered[p]] = "closing"
           /\ conn'[registered[p]] = "cleaned"]_vars

(***************************************************************************)
(* The inductive invariant.  Placed and Proxied are bookkeeping;           *)
(* ListIsOwned says that the clean-up list of a live connection names only *)
(* protocols it owns, so that its clean-up cannot hurt another connection; *)
(* for that, a request between its two critical sections must still be     *)
(* the owner.  ConfirmedListed is why the clean-up frees what a client was *)
(* promised.                                                               *)
(***************************************************************************)
Placed ==
    /\ \A r \in Reqs : req[r].stage # "unsent" =>
         req[r].conn \in Conns /\ req[r].proto \in Protos
    /\ \A s \in Streams : inbound[s].stage = "routed" => inbound[s].proto \in Protos

Proxied == \A p \in Protos : host[p] = Proxy => handlers[p] # NoAddr

ListIsOwned ==
    /\ \A c \in Conns : \A p \in streamHandlers[c] :
         ~Cleaned(c) => registered[p] = c
    /\ \A r \in Reqs : req[r].stage = "registered" /\ ~Cleaned(req[r].conn) =>
         registered[req[r].proto] = req[r].conn

ConfirmedListed ==
    \A r \in Reqs :
      req[r].stage \in {"appended", "confirmed"} /\ ~Cleaned(req[r].conn) =>
        req[r].proto \in streamHandlers[req[r].conn]

IndInv ==
    /\ TypeOK
    /\ Placed
    /\ Proxied
    /\ ListIsOwned
    /\ ConfirmedListed
    /\ RegistryMatchesHost
    /\ RoutedToOwner
    /\ ProxyHasAddress

(***************************************************************************)
(* What the clean-up is for: when a connection is closed and none of its   *)
(* request goroutines is left, nothing is registered to it.                *)
(***************************************************************************)
ClosedConnOwnsNothing ==
    \A c \in Conns :
      /\ conn[c] = "closed"
      /\ \A r \in Reqs : req[r].conn = c => req[r].stage \in {"confirmed", "late", "lost", "rejected", "dropped"}
      => \A p \in Protos : registered[p] # c

(***************************************************************************)
(* The registration side implements the lock-like registry a client may    *)
(* think in: one owner per protocol, given up when the owner retires.      *)
(***************************************************************************)
Registry == INSTANCE ProtocolRegistry
              WITH owner <- registered, retired <- {c \in Conns : Cleaned(c)}

RegistrySpec == Registry!Spec
=============================================================================
