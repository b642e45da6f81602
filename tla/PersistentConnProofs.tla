------------------------ MODULE PersistentConnProofs ------------------------
(***************************************************************************)
(* The safety properties of PersistentConn, proved for any number of       *)
(* connections, requests, streams and protocols.                           *)
(***************************************************************************)
EXTENDS PersistentConn, TLAPS

(***************************************************************************)
(* The daemon starts (NewDaemon) in a state of the inductive invariant.    *)
(***************************************************************************)
LEMMA InitIndInv == Init => IndInv
  BY SentinelAssumption
  DEF Init, IndInv, TypeOK, ConnStages, ReqStages, StreamStages, Placed, Proxied,
      ListIsOwned, ConfirmedListed, RegistryMatchesHost, RoutedToOwner,
      ProxyHasAddress, Cleaned

(***************************************************************************)
(* The type invariant is preserved by every step.                          *)
(***************************************************************************)
LEMMA TypeStep == IndInv /\ [Next]_vars => TypeOK'
<1> SUFFICES ASSUME IndInv, [Next]_vars PROVE TypeOK'
    OBVIOUS
<1> USE SentinelAssumption DEF IndInv, TypeOK, ConnStages, ReqStages, StreamStages
<1>1. ASSUME NEW c \in Conns, ConnStep(c) PROVE TypeOK'
  <2>1. CASE \E r \in Reqs, p \in Protos : ReadRequest(r, c, p)
    BY <2>1 DEF ReadRequest
  <2>2. CASE Cleanup(c)
    BY <2>2 DEF Cleanup
  <2>3. CASE Upgrade(c) \/ UpgradeFails(c) \/ ReadFails(c) \/ CloseSocket(c)
    BY <2>3 DEF Upgrade, UpgradeFails, ReadFails, CloseSocket
  <2> QED BY <1>1, <2>1, <2>2, <2>3 DEF ConnStep
<1>2. ASSUME NEW r \in Reqs, ReqStep(r) PROVE TypeOK'
  <2>1. CASE doAddUnaryHandler(r)
    <3>1. req[r].conn \in Conns /\ req[r].proto \in Protos
      BY <2>1 DEF doAddUnaryHandler, Placed
    <3>2. \E st \in ReqStages : req' = [req EXCEPT ![r].stage = st]
      BY <2>1 DEF doAddUnaryHandler
    <3>3. \/ UNCHANGED <<host, registered>>
          \/ /\ host' = [host EXCEPT ![req[r].proto] = req[r].conn]
             /\ registered' = [registered EXCEPT ![req[r].proto] = req[r].conn]
      BY <2>1 DEF doAddUnaryHandler
    <3>4. req' \in [Reqs -> [stage : ReqStages, conn : Conns \cup {NoConn},
                            proto : Protos \cup {NoProto}]]
      <4>1. req \in [Reqs -> [stage : ReqStages, conn : Conns \cup {NoConn},
                              proto : Protos \cup {NoProto}]]
        OBVIOUS
      <4> QED BY ONLY <3>2, <4>1
    <3> QED BY <2>1, <3>1, <3>3, <3>4 DEF doAddUnaryHandler
  <2>2. CASE AppendToList(r)
    BY <2>2 DEF AppendToList, Placed
  <2>3. CASE Reply(r)
    <3>0. req \in [Reqs -> [stage : ReqStages, conn : Conns \cup {NoConn},
                           proto : Protos \cup {NoProto}]]
      OBVIOUS
    <3>1. /\ \E st \in ReqStages : req' = [req EXCEPT ![r].stage = st]
          /\ UNCHANGED <<host, registered, handlers, streamHandlers, conn, inbound>>
      BY <2>3 DEF Reply
    <3>2. req' \in [Reqs -> [stage : ReqStages, conn : Conns \cup {NoConn},
                            proto : Protos \cup {NoProto}]]
      BY ONLY <3>0, <3>1
    <3> QED BY <3>1, <3>2
  <2> QED BY <1>2, <2>1, <2>2, <2>3 DEF ReqStep
<1>3. ASSUME NEW s \in Streams, StreamStep(s) PROVE TypeOK'
  BY <1>3 DEF StreamStep, Incoming, PersistentStream, handleStream
<1>4. ASSUME NEW ps \in SUBSET Protos, NEW a \in Addrs, doStreamHandler(ps, a)
      PROVE TypeOK'
  BY <1>4 DEF doStreamHandler
<1>5. CASE UNCHANGED vars
  BY <1>5 DEF vars
<1> QED BY <1>1, <1>2, <1>3, <1>4, <1>5 DEF Next

(***************************************************************************)
(* So is the rest of the inductive invariant, action by action.            *)
(***************************************************************************)
LEMMA IndStep == IndInv /\ [Next]_vars => IndInv'
<1> SUFFICES ASSUME IndInv, [Next]_vars PROVE IndInv'
    OBVIOUS
<1>t. TypeOK' BY TypeStep
<1> DEFINE Rest == /\ Placed' /\ Proxied' /\ ListIsOwned' /\ ConfirmedListed'
                   /\ RegistryMatchesHost' /\ RoutedToOwner' /\ ProxyHasAddress'
<1> USE SentinelAssumption, <1>t
    DEF IndInv, TypeOK, ConnStages, ReqStages, StreamStages
<1>1. ASSUME NEW c \in Conns, ConnStep(c) PROVE Rest
  <2>1. ASSUME NEW r \in Reqs, NEW p \in Protos, ReadRequest(r, c, p) PROVE Rest
    BY <2>1 DEF ReadRequest, Placed, Proxied, ListIsOwned, ConfirmedListed,
                RegistryMatchesHost, RoutedToOwner, ProxyHasAddress, Cleaned
  <2>2. CASE Cleanup(c)
    <3>1. Placed' BY <2>2 DEF Cleanup, Placed
    <3>2. Proxied' BY <2>2 DEF Cleanup, Proxied
    <3>3. ListIsOwned' BY <2>2 DEF Cleanup, ListIsOwned, Cleaned, Placed
    <3>4. ConfirmedListed' BY <2>2 DEF Cleanup, ConfirmedListed, Cleaned, Placed
    <3>5. RegistryMatchesHost' BY <2>2 DEF Cleanup, RegistryMatchesHost
    <3>6. RoutedToOwner'
      BY <2>2 DEF Cleanup, RoutedToOwner, ListIsOwned, Cleaned, Placed
    <3>7. ProxyHasAddress' BY <2>2 DEF Cleanup, ProxyHasAddress
    <3> QED BY <3>1, <3>2, <3>3, <3>4, <3>5, <3>6, <3>7
  <2>3. CASE Upgrade(c) \/ UpgradeFails(c) \/ ReadFails(c) \/ CloseSocket(c)
    <3> USE DEF Upgrade, UpgradeFails, ReadFails, CloseSocket
    <3>1. Placed' BY <2>3 DEF Placed
    <3>2. Proxied' BY <2>3 DEF Proxied
    <3>a. /\ UNCHANGED <<registered, streamHandlers, req>>
          /\ \A d \in Conns : Cleaned(d)' = Cleaned(d)
      BY <2>3 DEF Cleaned
    <3>3. ListIsOwned' BY <3>a DEF ListIsOwned, Placed
    <3>4. ConfirmedListed' BY <2>3 DEF ConfirmedListed, Cleaned, Placed
    <3>5. RegistryMatchesHost' BY <2>3 DEF RegistryMatchesHost
    <3>6. RoutedToOwner' BY <2>3 DEF RoutedToOwner, Cleaned, Placed
    <3>7. ProxyHasAddress' BY <2>3 DEF ProxyHasAddress
    <3> QED BY <3>1, <3>2, <3>3, <3>4, <3>5, <3>6, <3>7
  <2> QED BY <1>1, <2>1, <2>2, <2>3 DEF ConnStep
<1>2. ASSUME NEW r \in Reqs, ReqStep(r) PROVE Rest
  <2>1. CASE doAddUnaryHandler(r)
    <3>1. Placed'
      <4>1. /\ \E st \in ReqStages : req' = [req EXCEPT ![r].stage = st]
            /\ req[r].stage = "spawned" /\ UNCHANGED inbound
        BY <2>1 DEF doAddUnaryHandler
      <4>2. \A q \in Reqs : req'[q].conn = req[q].conn /\ req'[q].proto = req[q].proto
        BY <4>1
      <4>3. \A q \in Reqs : req[q].stage = "unsent" => req'[q].stage = "unsent"
        BY <4>1
      <4> QED BY <4>1, <4>2, <4>3 DEF Placed
    <3>2. Proxied' BY <2>1 DEF doAddUnaryHandler, Proxied, Placed
    <3>3. ListIsOwned'
      <4>1. ASSUME NEW c \in Conns, NEW p \in streamHandlers'[c], ~Cleaned(c)'
            PROVE registered'[p] = c
        BY <2>1, <4>1 DEF doAddUnaryHandler, ListIsOwned, Cleaned, Placed
      <4>2. ASSUME NEW q \in Reqs, req'[q].stage = "registered", ~Cleaned(req[q].conn)'
            PROVE registered'[req'[q].proto] = req'[q].conn
        <5>1. CASE q = r
          BY <2>1, <4>2, <5>1 DEF doAddUnaryHandler, Placed
        <5>2. CASE q # r
          BY <2>1, <4>2, <5>2 DEF doAddUnaryHandler, ListIsOwned, Cleaned, Placed
        <5> QED BY <5>1, <5>2
      <4> QED BY <4>1, <4>2 DEF ListIsOwned
    <3>4. ConfirmedListed'
      BY <2>1 DEF doAddUnaryHandler, ConfirmedListed, Cleaned, Placed
    <3>5. RegistryMatchesHost' BY <2>1 DEF doAddUnaryHandler, RegistryMatchesHost, Placed
    <3>6. RoutedToOwner' BY <2>1 DEF doAddUnaryHandler, RoutedToOwner, Cleaned, Placed
    <3>7. ProxyHasAddress' BY <2>1 DEF doAddUnaryHandler, ProxyHasAddress
    <3> QED BY <3>1, <3>2, <3>3, <3>4, <3>5, <3>6, <3>7
  <2>2. CASE AppendToList(r)
    <3>1. Placed' BY <2>2 DEF AppendToList, Placed
    <3>2. ListIsOwned' BY <2>2 DEF AppendToList, ListIsOwned, Cleaned, Placed
    <3>3. ConfirmedListed' BY <2>2 DEF AppendToList, ConfirmedListed, Cleaned, Placed
    <3> QED BY <2>2, <3>1, <3>2, <3>3
            DEF AppendToList, Proxied, RegistryMatchesHost, RoutedToOwner,
                ProxyHasAddress, Cleaned
  <2>3. CASE Reply(r)
    <3>1. Placed' BY <2>3 DEF Reply, Placed
    <3>2. Proxied' BY <2>3 DEF Reply, Proxied
    <3>3. ListIsOwned'
      <4>1. \A q \in Reqs : req'[q].stage = "registered" => req'[q] = req[q]
        BY <2>3 DEF Reply
      <4> QED BY <2>3, <4>1 DEF Reply, ListIsOwned, Cleaned
    <3>4. ConfirmedListed'
      <4>1. \A q \in Reqs : /\ req'[q].conn = req[q].conn
                            /\ req'[q].proto = req[q].proto
        BY <2>3 DEF Reply
      <4>2. \A q \in Reqs : req'[q].stage \in {"appended", "confirmed"} =>
                              req[q].stage \in {"appended", "confirmed"} \/ Cleaned(req[q].conn)
        BY <2>3 DEF Reply
      <4> QED BY <2>3, <4>1, <4>2 DEF Reply, ConfirmedListed, Cleaned
    <3>5. RegistryMatchesHost' BY <2>3 DEF Reply, RegistryMatchesHost
    <3>6. RoutedToOwner' BY <2>3 DEF Reply, RoutedToOwner, Cleaned, Placed
    <3>7. ProxyHasAddress' BY <2>3 DEF Reply, ProxyHasAddress, Placed
    <3> QED BY <3>1, <3>2, <3>3, <3>4, <3>5, <3>6, <3>7
  <2> QED BY <1>2, <2>1, <2>2, <2>3 DEF ReqStep
<1>3. ASSUME NEW s \in Streams, StreamStep(s) PROVE Rest
  <2>1. ASSUME NEW p \in Protos, Incoming(s, p) PROVE Rest
    <3>1. Placed' BY <2>1 DEF Incoming, Placed
    <3>2. RoutedToOwner' BY <2>1 DEF Incoming, RoutedToOwner, RegistryMatchesHost, Cleaned
    <3>3. ProxyHasAddress' BY <2>1 DEF Incoming, ProxyHasAddress, Proxied
    <3> QED BY <2>1, <3>1, <3>2, <3>3
            DEF Incoming, Proxied, ListIsOwned, ConfirmedListed, RegistryMatchesHost, Cleaned
  <2>2. CASE PersistentStream(s) \/ handleStream(s)
    <3>1. UNCHANGED <<host, registered, handlers, conn, streamHandlers, req>>
      BY <2>2 DEF PersistentStream, handleStream
    <3>2. \A x \in Streams : inbound'[x].stage = "routed" => inbound'[x] = inbound[x]
      BY <2>2 DEF PersistentStream, handleStream
    <3> QED BY <3>1, <3>2 DEF Placed, Proxied, ListIsOwned, ConfirmedListed,
                              RegistryMatchesHost, RoutedToOwner, ProxyHasAddress, Cleaned
  <2> QED BY <1>3, <2>1, <2>2 DEF StreamStep
<1>4. ASSUME NEW ps \in SUBSET Protos, NEW a \in Addrs, doStreamHandler(ps, a)
      PROVE Rest
  BY <1>4 DEF doStreamHandler, Placed, Proxied, ListIsOwned, ConfirmedListed,
              RegistryMatchesHost, RoutedToOwner, ProxyHasAddress, Cleaned
<1>5. CASE UNCHANGED vars
  BY <1>5 DEF vars, Placed, Proxied, ListIsOwned, ConfirmedListed,
              RegistryMatchesHost, RoutedToOwner, ProxyHasAddress, Cleaned
<1> QED BY <1>1, <1>2, <1>3, <1>4, <1>5 DEF Next

(***************************************************************************)
(* The inductive invariant of handlePersistentConn, its request goroutines *)
(* and STREAM_HANDLER holds in every behaviour.                            *)
(***************************************************************************)
THEOREM Invariance == Spec => []IndInv
  BY InitIndInv, IndStep, PTL DEF Spec

(***************************************************************************)
(* Type correctness of the daemon's tables, goroutines and streams.        *)
(***************************************************************************)
THEOREM TypeCorrect == Spec => []TypeOK
<1>1. IndInv => TypeOK BY DEF IndInv
<1> QED BY <1>1, Invariance, PTL

(***************************************************************************)
(* registeredUnaryProtocols agrees with the host's protocol table.         *)
(***************************************************************************)
THEOREM RegistrySafe == Spec => []RegistryMatchesHost
<1>1. IndInv => RegistryMatchesHost BY DEF IndInv
<1> QED BY <1>1, Invariance, PTL

(***************************************************************************)
(* Where a registration comes from: while its connection is alive, a       *)
(* request between the two critical sections or the clean-up list holds    *)
(* it; after the clean-up, a request whose OK was not written in time.     *)
(***************************************************************************)
Unconfirmed == {"registered", "appended", "late", "lost"}

Traced(p, c, stages) ==
    \E r \in Reqs : req[r].conn = c /\ req[r].proto = p /\ req[r].stage \in stages

RegistrationTraced ==
    \A p \in Protos, c \in Conns : registered[p] = c =>
      /\ ~Cleaned(c) => Traced(p, c, {"registered"}) \/ p \in streamHandlers[c]
      /\ Cleaned(c) => Traced(p, c, Unconfirmed)

(***************************************************************************)
(* A protocol routed to a connection after its clean-up was registered by  *)
(* a request never confirmed before the clean-up.                          *)
(***************************************************************************)
THEOREM RoutingSafe == Spec => []DeadRouteOnlyUnconfirmed
<1>1. Init => RegistrationTraced
  BY SentinelAssumption DEF Init, RegistrationTraced
<1>2. IndInv /\ RegistrationTraced /\ [Next]_vars => RegistrationTraced'
  <2> SUFFICES ASSUME IndInv, RegistrationTraced, [Next]_vars,
                      NEW p \in Protos, NEW c \in Conns, registered'[p] = c
               PROVE  /\ ~Cleaned(c)' => \/ Traced(p, c, {"registered"})'
                                         \/ p \in streamHandlers'[c]
                      /\ Cleaned(c)' => Traced(p, c, Unconfirmed)'
    BY DEF RegistrationTraced
  <2> DEFINE Goal == /\ ~Cleaned(c)' => \/ Traced(p, c, {"registered"})'
                                        \/ p \in streamHandlers'[c]
                     /\ Cleaned(c)' => Traced(p, c, Unconfirmed)'
  <2> USE SentinelAssumption DEF IndInv, TypeOK, Traced, Unconfirmed
  <2>0. registered[p] = c =>
          /\ ~Cleaned(c) => Traced(p, c, {"registered"}) \/ p \in streamHandlers[c]
          /\ Cleaned(c) => Traced(p, c, Unconfirmed)
    BY DEF RegistrationTraced
  <2>1. ASSUME NEW d \in Conns, Cleanup(d) PROVE Goal
    BY <2>0, <2>1 DEF Cleanup, Cleaned
  <2>2. ASSUME NEW d \in Conns,
               Upgrade(d) \/ UpgradeFails(d) \/ ReadFails(d) \/ CloseSocket(d)
        PROVE Goal
    BY <2>0, <2>2 DEF Upgrade, UpgradeFails, ReadFails, CloseSocket, Cleaned
  <2>3. ASSUME NEW d \in Conns, NEW r \in Reqs, NEW q \in Protos, ReadRequest(r, d, q)
        PROVE Goal
    <3>1. /\ UNCHANGED <<registered, conn, streamHandlers>>
          /\ \A x \in Reqs : req[x].stage # "unsent" => req'[x] = req[x]
      BY <2>3 DEF ReadRequest
    <3> QED BY <2>0, <3>1 DEF Cleaned
  <2>4. ASSUME NEW r \in Reqs, doAddUnaryHandler(r) PROVE Goal
    <3>1. /\ req[r].conn \in Conns /\ req[r].proto \in Protos
          /\ UNCHANGED <<conn, streamHandlers>>
          /\ \A x \in Reqs : req[x].stage # "spawned" => req'[x] = req[x]
      BY <2>4 DEF doAddUnaryHandler, Placed
    <3>2. CASE UNCHANGED registered
      BY <2>0, <3>1, <3>2 DEF Cleaned
    <3>3. CASE /\ registered' = [registered EXCEPT ![req[r].proto] = req[r].conn]
               /\ req' = [req EXCEPT ![r].stage = "registered"]
      <4>1. CASE p = req[r].proto
        BY <3>1, <3>3, <4>1 DEF Cleaned
      <4>2. CASE p # req[r].proto
        BY <2>0, <3>1, <3>3, <4>2 DEF Cleaned
      <4> QED BY <4>1, <4>2
    <3> QED BY <2>4, <3>2, <3>3 DEF doAddUnaryHandler
  <2>5. ASSUME NEW r \in Reqs, AppendToList(r) PROVE Goal
    <3>1. req[r].conn \in Conns /\ req[r].proto \in Protos
      BY <2>5 DEF AppendToList, Placed
    <3>2. /\ UNCHANGED <<registered, conn>>
          /\ streamHandlers' = [streamHandlers EXCEPT ![req[r].conn] = @ \cup {req[r].proto}]
          /\ req' = [req EXCEPT ![r].stage = "appended"]
          /\ req[r].stage = "registered"
      BY <2>5 DEF AppendToList
    <3>3. CASE ~Cleaned(c)
      BY <2>0, <3>1, <3>2, <3>3 DEF Cleaned
    <3>4. CASE Cleaned(c)
      BY <2>0, <3>1, <3>2, <3>4 DEF Cleaned
    <3> QED BY <3>3, <3>4
  <2>6. ASSUME NEW r \in Reqs, Reply(r) PROVE Goal
    <3>1. /\ UNCHANGED <<registered, conn, streamHandlers>>
          /\ \A x \in Reqs : x # r => req'[x] = req[x]
          /\ req'[r].conn = req[r].conn /\ req'[r].proto = req[r].proto
          /\ req[r].stage \in {"appended", "refused"}
      BY <2>6 DEF Reply
    <3>2. req[r].stage = "appended" /\ Cleaned(req[r].conn) =>
            req'[r].stage \in {"late", "lost"}
      BY <2>6 DEF Reply
    <3>3. CASE ~Cleaned(c)
      <4>1. Traced(p, c, {"registered"}) => Traced(p, c, {"registered"})'
        BY <3>1
      <4> QED BY <2>0, <3>1, <3>3, <4>1 DEF Cleaned
    <3>4. CASE Cleaned(c)
      <4>1. registered[p] = c
        BY <3>1
      <4>2. PICK x \in Reqs : /\ req[x].conn = c /\ req[x].proto = p
                              /\ req[x].stage \in Unconfirmed
        BY <2>0, <3>4, <4>1
      <4>3. req'[x].conn = c /\ req'[x].proto = p /\ req'[x].stage \in Unconfirmed
        BY <3>1, <3>2, <3>4, <4>2
      <4> QED BY <3>1, <3>4, <4>3 DEF Cleaned
    <3> QED BY <3>3, <3>4
  <2>7. CASE UNCHANGED <<registered, conn, streamHandlers, req>>
    BY <2>0, <2>7 DEF Cleaned
  <2> QED BY <2>1, <2>2, <2>3, <2>4, <2>5, <2>6, <2>7
          DEF Next, vars, ConnStep, ReqStep, StreamStep, Incoming, PersistentStream,
              handleStream, doStreamHandler
<1>3. IndInv /\ RegistrationTraced => DeadRouteOnlyUnconfirmed
  BY DEF IndInv, RegistryMatchesHost, RegistrationTraced, Traced, Unconfirmed,
         DeadRouteOnlyUnconfirmed
<1> QED BY <1>1, <1>2, <1>3, Invariance, PTL DEF Spec

(***************************************************************************)
(* handleStream always finds the address it was installed for.             *)
(***************************************************************************)
THEOREM ProxySafe == Spec => []ProxyHasAddress
<1>1. IndInv => ProxyHasAddress BY DEF IndInv
<1> QED BY <1>1, Invariance, PTL

(***************************************************************************)
(* A confirmed registration is held until the connection's clean-up.       *)
(***************************************************************************)
THEOREM ConfirmedSafe == Spec => []ConfirmedOwns
<1>1. IndInv => ConfirmedOwns
  BY DEF IndInv, TypeOK, Placed, ListIsOwned, ConfirmedListed, ConfirmedOwns, Cleaned
<1> QED BY <1>1, Invariance, PTL

(***************************************************************************)
(* Only the clean-up of its own connection ends a registration.            *)
(***************************************************************************)
THEOREM ReleaseSafe == Spec => OnlyOwnerReleases
<1> DEFINE A == \A p \in Protos :
                  registered'[p] # registered[p] /\ registered[p] # NoConn =>
                    /\ registered'[p] = NoConn
                    /\ conn[registered[p]] = "closing"
                    /\ conn'[registered[p]] = "cleaned"
<1>1. IndInv /\ [Next]_vars => [A]_vars
  <2> SUFFICES ASSUME IndInv, Next PROVE A
    OBVIOUS
  <2>1. ASSUME NEW c \in Conns, Cleanup(c) PROVE A
    BY <2>1 DEF Cleanup, IndInv, TypeOK, ListIsOwned, Cleaned
  <2>2. ASSUME NEW r \in Reqs, doAddUnaryHandler(r) PROVE A
    BY <2>2 DEF doAddUnaryHandler, IndInv, TypeOK
  <2>3. CASE UNCHANGED registered
    BY <2>3
  <2> QED BY <2>1, <2>2, <2>3
          DEF Next, ConnStep, ReqStep, StreamStep, Upgrade, UpgradeFails, ReadRequest,
              ReadFails, CloseSocket, AppendToList, Reply, Incoming, PersistentStream,
              handleStream, doStreamHandler
<1> QED BY <1>1, Invariance, PTL DEF Spec, OnlyOwnerReleases

(***************************************************************************)
(* The clean-up frees every protocol confirmed to the client.              *)
(***************************************************************************)
THEOREM CleanupSafe == Spec => ConfirmedHandlersFreed
<1> DEFINE A == \A r \in Reqs :
                  /\ req[r].stage = "confirmed"
                  /\ ~Cleaned(req[r].conn)
                  /\ Cleaned(req[r].conn)'
                  => registered'[req[r].proto] = NoConn
<1>1. IndInv /\ [Next]_vars => [A]_vars
  <2> SUFFICES ASSUME IndInv, Next PROVE A
    OBVIOUS
  <2>1. ASSUME NEW c \in Conns, Cleanup(c) PROVE A
    BY <2>1 DEF Cleanup, IndInv, TypeOK, Placed, ConfirmedListed, Cleaned
  <2>2. ASSUME NEW c \in Conns,
               Upgrade(c) \/ UpgradeFails(c) \/ ReadFails(c) \/ CloseSocket(c)
        PROVE A
    BY <2>2 DEF Upgrade, UpgradeFails, ReadFails, CloseSocket, IndInv, TypeOK,
                Placed, Cleaned
  <2>3. CASE /\ UNCHANGED conn
             /\ \A r \in Reqs : req[r].stage = "confirmed" => req'[r].conn = req[r].conn
    BY <2>3 DEF Cleaned
  <2>4. ASSUME NEW r \in Reqs, NEW c \in Conns, NEW p \in Protos, ReadRequest(r, c, p)
        PROVE A
    BY <2>4 DEF ReadRequest, Cleaned, IndInv, TypeOK
  <2>5. ASSUME NEW r \in Reqs, ReqStep(r) PROVE A
    BY <2>5 DEF ReqStep, doAddUnaryHandler, AppendToList, Reply, Cleaned, IndInv, TypeOK
  <2> QED BY <2>1, <2>2, <2>3, <2>4, <2>5
          DEF Next, ConnStep, StreamStep, Incoming, PersistentStream,
              handleStream, doStreamHandler
<1> QED BY <1>1, Invariance, PTL DEF Spec, ConfirmedHandlersFreed

(***************************************************************************)
(* The registration side of the daemon implements ProtocolRegistry: every  *)
(* step of it is a step of the registry, or leaves the registry unchanged. *)
(***************************************************************************)
THEOREM ImplementsRegistry == Spec => RegistrySpec
<1> DEFINE ret == {c \in Conns : Cleaned(c)}
<1>1. Init => Registry!Init
  BY DEF Init, Registry!Init, Cleaned
<1>2. IndInv /\ [Next]_vars => [Registry!Next]_(Registry!vars)
  <2> SUFFICES ASSUME IndInv, [Next]_vars
               PROVE Registry!Next \/ UNCHANGED <<registered, ret>>
    BY DEF Registry!vars
  <2>1. ASSUME NEW c \in Conns, Cleanup(c) PROVE Registry!Next
    <3>1. Registry!Retire(c, streamHandlers[c])
      <4>1. c \notin ret /\ ret' = ret \cup {c}
        BY <2>1 DEF Cleanup, Cleaned, IndInv, TypeOK
      <4>2. \A p \in streamHandlers[c] : registered[p] = c
        BY <2>1 DEF Cleanup, Cleaned, IndInv, ListIsOwned
      <4>3. registered' = [p \in Protos |->
                             IF p \in streamHandlers[c] THEN NoConn ELSE registered[p]]
        BY <2>1 DEF Cleanup
      <4> QED BY <4>1, <4>2, <4>3 DEF Registry!Retire
    <3>2. streamHandlers[c] \in SUBSET Protos
      BY DEF IndInv, TypeOK
    <3> QED BY <3>1, <3>2 DEF Registry!Next
  <2>2. ASSUME NEW r \in Reqs, doAddUnaryHandler(r)
        PROVE Registry!Next \/ UNCHANGED <<registered, ret>>
    <3>1. ret' = ret BY <2>2 DEF doAddUnaryHandler, Cleaned
    <3>2. req[r].conn \in Conns /\ req[r].proto \in Protos
      BY <2>2 DEF doAddUnaryHandler, IndInv, Placed
    <3>3. \/ UNCHANGED registered
          \/ Registry!Acquire(req[r].conn, req[r].proto)
      BY <2>2, <3>1 DEF doAddUnaryHandler, Registry!Acquire
    <3> QED BY <3>1, <3>2, <3>3 DEF Registry!Next
  <2>3. ASSUME NEW c \in Conns,
               Upgrade(c) \/ UpgradeFails(c) \/ ReadFails(c) \/ CloseSocket(c)
        PROVE UNCHANGED <<registered, ret>>
    BY <2>3 DEF Upgrade, UpgradeFails, ReadFails, CloseSocket, Cleaned, IndInv, TypeOK
  <2>4. CASE UNCHANGED <<registered, conn>>
    BY <2>4 DEF Cleaned
  <2> QED BY <2>1, <2>2, <2>3, <2>4
          DEF Next, vars, ConnStep, ReqStep, StreamStep, ReadRequest, AppendToList,
              Reply, Incoming, PersistentStream, handleStream, doStreamHandler
<1> QED BY <1>1, <1>2, Invariance, PTL DEF Spec, RegistrySpec, Registry!Spec
=============================================================================
