------------------------------ MODULE Startup -------------------------------
(***************************************************************************)
(* From the command line to a daemon that serves (p2pd/main.go,            *)
(* config/config.go, NewDaemon and EnablePubsub in daemon.go), and the     *)
(* connections to the bootstrap peers (bootstrap.go).  main runs the       *)
(* stages one after the other; from NewDaemon on a signal, and from        *)
(* KillOnTimeout on the idle timer, can close the daemon under it.  It can *)
(* die at any moment.  A daemon that is over can be started again, on the  *)
(* same socket, which another process may have taken.                      *)
(*                                                                         *)
(* The Boolean settings are the set `on' of those that are true; `hosts'   *)
(* are the addresses, of which -listen is kept apart.                      *)
(***************************************************************************)
EXTENDS Integers, FiniteSets

CONSTANTS
    Inputs,                 \* command lines, with the JSON given by -f or -i
    Peers,                  \* the bootstrap peers
    Others,                 \* numbers of connections to other peers
    BootstrapConnections,
    MaxStarts,              \* how often the daemon is started
    MaxLosses               \* failures of the network

ASSUME StartupAssumption ==
    /\ IsFiniteSet(Peers)
    /\ BootstrapConnections \in Nat \ {0}
    /\ MaxStarts \in Nat /\ MaxLosses \in Nat /\ Others \subseteq Nat

\* An address in a JSON text has quotes or brackets around it.
ASSUME InputsAssumption ==
    \A input \in Inputs : \A a \in input.file.hosts : a.quoted = TRUE

VARIABLES
    flags, file,    \* what the daemon is started with
    c,              \* the configuration
    main,           \* the stage of main
    process,        \* "running", or how it ended
    socketFile,     \* the control socket is in the file system
    last,           \* how the process ended that had opened the socket before, and its
                    \* Close; "other": it is not a daemon of this configuration
    timer,          \* KillOnTimeout
    closer,         \* who runs Daemon.Close, and how far it is
    daemon,         \* d.dht and d.pubsub
    up,             \* bootstrap peers that answer
    connected,      \* bootstrap peers with a connection
    others,         \* the number of other connections
    round,          \* connectBootstrapPeers
    keeper,         \* keepBootstrapConnections
    starts, losses

configVars == <<flags, file, c>>
closeVars == <<socketFile, timer, closer>>
netVars == <<up, connected, others, losses>>
roundVars == <<round, keeper>>
vars == <<configVars, main, process, last, closeVars, daemon, netVars, roundVars, starts>>

NewDefaultConfig ==
    [on |-> {"QUIC", "Relay", "TLS", "Noise", "Sign", "SignStrict"},
     mode |-> "", router |-> "gossipsub", listen |-> "unix", hosts |-> {}]

Modes == {"full", "client", "server"}

noRound == [left |-> {}, over |-> TRUE, toconnect |-> 0, count |-> 0, wanted |-> 0,
            expired |-> FALSE]

nobody == [process |-> "none", close |-> "none"]

Init ==
    /\ \E input \in Inputs : flags = input.flags /\ file = input.file
    /\ c = NewDefaultConfig
    /\ main = "config"
    /\ process = "running"
    /\ timer = "off"
    /\ closer = [by |-> "none", at |-> "none"]
    /\ daemon = {}
    /\ round = noRound
    /\ keeper = "none"
    /\ connected = {}
    /\ socketFile = FALSE
    /\ last = nobody
    /\ up \in SUBSET Peers
    /\ others \in Others
    /\ starts = 1
    /\ losses = 0

Running == process = "running"

\* log.Fatal: the process is over at once, whatever else runs.
Fatal(why) == process' = why /\ main' = "over"
-----------------------------------------------------------------------------
(***************************************************************************)
(* The configuration.                                                      *)
(***************************************************************************)
\* Variant: the dependencies of autorelay are not looked at.
ValidMode(conf) == conf.mode \in Modes \cup {""}

Validate(conf) ==
    /\ conf.mode \in Modes \cup {""}
    /\ "AutoRelay" \in conf.on => "Relay" \in conf.on /\ conf.mode # ""

\* UnmarshalJSON of JSONMaddr and MaddrArray hand the JSON text to NewMultiaddr, with
\* the quotes or brackets around it: no address starts like that.
address(text) == IF text.quoted THEN "bad" ELSE text.value

\* UnmarshalJSON of Config: what the file does not mention has its default.
UnmarshalJSON(text) ==
    [on |-> (NewDefaultConfig.on \cup text.true) \ text.false,
     mode |-> text.mode, router |-> text.router,
     listen |-> NewDefaultConfig.listen,
     hosts |-> {address(a) : a \in text.hosts}]

ReadConfig ==
    /\ Running /\ main = "config"
    /\ IF flags.source = "none"
       THEN c' = NewDefaultConfig /\ main' = "flags" /\ UNCHANGED process
       ELSE LET conf == UnmarshalJSON(file)
            IN  IF flags.source = "missing" \/ "bad" \in conf.hosts \/ ~Validate(conf)
                THEN Fatal("config") /\ UNCHANGED c
                ELSE c' = conf /\ main' = "flags" /\ UNCHANGED process
    /\ UNCHANGED <<flags, file, last, closeVars, daemon, netVars, roundVars, starts>>

\* Flags that decide whatever the file says, since they always have a value; flags that
\* can only turn something on; and flags that count only together with another.
Deciding == {"QUIC", "TLS", "Noise"}
Enabling == {"NatPortMap", "AutoRelay", "NoListen", "AutoNat", "Bootstrap", "Quiet",
             "Metrics", "ConnManager", "PProf", "Relay", "PubSub"}
OfRelay == {"RelayActive", "RelayHop", "RelayDiscovery"}
OfPubSub == {"Sign", "SignStrict"}

applied(conf) ==
    LET pubsub == "PubSub" \in flags.on
        decided == IF pubsub THEN Deciding \cup OfPubSub ELSE Deciding
        enabling == IF "Relay" \in flags.on THEN Enabling \cup OfRelay ELSE Enabling
        mode == IF "full" \in flags.dht THEN "full"
                ELSE IF "client" \in flags.dht THEN "client"
                ELSE IF "server" \in flags.dht THEN "server" ELSE conf.mode
    IN  [on |-> (conf.on \ decided) \cup (flags.on \cap (decided \cup enabling)),
         mode |-> mode,
         router |-> IF pubsub THEN flags.router ELSE conf.router,
         listen |-> flags.listen,
         hosts |-> IF flags.hosts = {} THEN conf.hosts ELSE flags.hosts]

\* An address in a flag may not parse, and the result may not be valid.
ApplyFlags ==
    /\ Running /\ main = "flags"
    /\ IF "bad" \in flags.hosts \cup {flags.listen} \/ ~Validate(applied(c))
       THEN Fatal("flags") /\ UNCHANGED c
       ELSE c' = applied(c) /\ main' = "options" /\ UNCHANGED process
    /\ UNCHANGED <<flags, file, last, closeVars, daemon, netVars, roundVars, starts>>

\* What can still be wrong when the options are collected.
usable ==
    /\ c.on \cap {"TLS", "Noise"} # {}
    /\ "QUIC" \in c.on => c.hosts # {}
    /\ ~({"Public", "Private"} \subseteq flags.on)
    /\ flags.id # "bad"

CollectOptions ==
    /\ Running /\ main = "options"
    /\ IF usable THEN main' = "host" /\ UNCHANGED process ELSE Fatal("options")
    /\ UNCHANGED <<configVars, last, closeVars, daemon, netVars, roundVars, starts>>
-----------------------------------------------------------------------------
(***************************************************************************)
(* Starting the daemon.                                                    *)
(***************************************************************************)
\* NewDaemon: the host, with the DHT when there is a mode, and the control listener,
\* which a socket left in the file system keeps from opening.
NewDaemon ==
    /\ Running /\ main = "host"
    /\ \/ Fatal("host") /\ UNCHANGED <<socketFile, last, daemon>>
       \/ /\ c.listen = "unix" /\ socketFile
          /\ Fatal("listen") /\ UNCHANGED <<socketFile, last, daemon>>
       \/ /\ ~(c.listen = "unix" /\ socketFile)
          /\ socketFile' = (c.listen = "unix")
          /\ last' = nobody
          /\ daemon' = IF c.mode = "" THEN {} ELSE {"dht"}
          /\ main' = "timer"
          /\ UNCHANGED process
    /\ UNCHANGED <<configVars, timer, closer, netVars, roundVars, starts>>

KillOnTimeout ==
    /\ Running /\ main = "timer"
    /\ timer' = IF "IdleTimeout" \in flags.on THEN "armed" ELSE "off"
    /\ main' = "pubsub"
    /\ UNCHANGED <<configVars, process, last, socketFile, closer, daemon, netVars,
                   roundVars, starts>>

\* An unknown router is an error, and the constructor of a known one may return one.
EnablePubsub ==
    /\ Running /\ main = "pubsub"
    /\ \/ "PubSub" \notin c.on /\ main' = "bootstrap" /\ UNCHANGED <<process, daemon>>
       \/ /\ "PubSub" \in c.on /\ c.router \in {"gossipsub", "floodsub"}
          /\ main' = "bootstrap" /\ daemon' = daemon \cup {"pubsub"}
          /\ UNCHANGED process
       \/ "PubSub" \in c.on /\ Fatal("pubsub") /\ UNCHANGED daemon
    /\ UNCHANGED <<configVars, last, closeVars, netVars, roundVars, starts>>

\* connectBootstrapPeers starts, with a minute for all its dials; the peers come in the
\* order of shufflePeerInfos.
newRound(toconnect) ==
    round' = [left |-> Peers, over |-> FALSE, toconnect |-> toconnect, count |-> 0,
              wanted |-> toconnect, expired |-> FALSE]

\* A bootstrap address without a peer id is found here.
Bootstrap ==
    /\ Running /\ main = "bootstrap"
    /\ IF "Bootstrap" \notin c.on
       THEN main' = "serving" /\ UNCHANGED <<process, round>>
       ELSE IF "PeersWithoutId" \in flags.on
       THEN Fatal("peers") /\ UNCHANGED round
       ELSE main' = "connecting" /\ newRound(BootstrapConnections) /\ UNCHANGED process
    /\ UNCHANGED <<configVars, last, closeVars, daemon, netVars, keeper, starts>>

\* The host is open until Close has closed it; then every Connect fails.
hostOpen == closer.at \in {"none", "flag", "host"}

roundOver == round.left = {} \/ round.over

\* Variant: a failure counts against toconnect.
triedFewer(p, ok) ==
    [round EXCEPT !.left = @ \ {p}, !.toconnect = @ - 1, !.over = (round.toconnect = 1),
                  !.count = IF ok THEN @ + 1 ELSE @]

tried(p, ok) ==
    LET rest == [round EXCEPT !.left = @ \ {p}]
        next == IF ok THEN [rest EXCEPT !.toconnect = @ - 1, !.count = @ + 1] ELSE rest
    IN  [next EXCEPT !.over = (next.toconnect = 0)]

\* A dial fails at once, or hangs until the minute of the round is over.
failed(p, hung) == [tried(p, FALSE) EXCEPT !.expired = round.expired \/ hung]

answers(p) == p \in up /\ hostOpen /\ ~round.expired

\* One turn of the loop; a peer with a connection is passed over, and not counted.
\* Connect succeeds with a peer that answers in time, unless the network fails it.
Dial(p) ==
    /\ Running /\ p \in round.left /\ ~roundOver
    /\ \/ /\ p \in connected
          /\ round' = [round EXCEPT !.left = @ \ {p}]
          /\ UNCHANGED <<connected, losses>>
       \/ /\ p \notin connected /\ answers(p)
          /\ round' = tried(p, TRUE)
          /\ connected' = connected \cup {p}
          /\ UNCHANGED losses
       \/ /\ p \notin connected
          /\ IF answers(p) THEN losses < MaxLosses /\ losses' = losses + 1
                           ELSE UNCHANGED losses
          /\ \E hung \in BOOLEAN : round' = failed(p, hung)
          /\ UNCHANGED connected
    /\ UNCHANGED <<configVars, main, process, last, closeVars, daemon, up, others, keeper,
                   starts>>

\* Bootstrap fails when its round made no connection; else the keeper starts, and the
\* DHT is bootstrapped (external), which may fail.
BootstrapReturns ==
    /\ Running /\ main = "connecting" /\ roundOver
    /\ \/ round.count = 0 /\ Fatal("bootstrap") /\ UNCHANGED keeper
       \/ round.count > 0 /\ "dht" \in daemon /\ Fatal("dht") /\ keeper' = "waiting"
       \/ /\ round.count > 0 /\ keeper' = "waiting"
          /\ main' = "serving" /\ UNCHANGED process
    /\ UNCHANGED <<configVars, last, closeVars, daemon, netVars, round, starts>>
-----------------------------------------------------------------------------
(***************************************************************************)
(* keepBootstrapConnections.                                               *)
(***************************************************************************)
conns == Cardinality(connected) + others

Tick ==
    /\ Running /\ keeper = "waiting"
    /\ conns < BootstrapConnections
    /\ newRound(BootstrapConnections - conns)
    /\ keeper' = "connecting"
    /\ UNCHANGED <<configVars, main, process, last, closeVars, daemon, netVars, starts>>

\* Variant: the keeper runs one round only.
RoundIsLast ==
    /\ Running /\ keeper = "connecting" /\ roundOver
    /\ keeper' = "done"
    /\ UNCHANGED <<configVars, main, process, last, closeVars, daemon, netVars, round, starts>>

RoundReturns ==
    /\ Running /\ keeper = "connecting" /\ roundOver
    /\ keeper' = "waiting"
    /\ UNCHANGED <<configVars, main, process, last, closeVars, daemon, netVars, round, starts>>

\* The network: a connection breaks, and a peer connects to the daemon.
Lose(p) ==
    /\ Running /\ p \in connected /\ losses < MaxLosses
    /\ connected' = connected \ {p}
    /\ losses' = losses + 1
    /\ UNCHANGED <<configVars, main, process, last, closeVars, daemon, up, others,
                   roundVars, starts>>

PeerConnects(p) ==
    /\ Running /\ p \in up \ connected
    /\ main \in {"timer", "pubsub", "bootstrap", "connecting", "serving"} /\ hostOpen
    /\ connected' = connected \cup {p}
    /\ UNCHANGED <<configVars, main, process, last, closeVars, daemon, up, others, losses,
                   roundVars, starts>>
-----------------------------------------------------------------------------
(***************************************************************************)
(* The end of the process.                                                 *)
(***************************************************************************)
daemonExists == main \in {"timer", "pubsub", "bootstrap", "connecting", "serving"}

restVars == <<configVars, main, last, daemon, up, others, losses, roundVars, starts>>

\* A signal, or the idle timer, also while main has not come to Serve; or awaitTermination,
\* after the last persistent client.  (Lifecycle has them run at once.)
StartClose ==
    /\ Running /\ daemonExists /\ closer.by = "none"
    /\ \/ closer' = [by |-> "signal", at |-> "flag"] /\ UNCHANGED timer
       \/ /\ timer = "armed"
          /\ timer' = "fired"
          /\ closer' = [by |-> "timer", at |-> "flag"]
       \/ /\ main = "serving"
          /\ closer' = [by |-> "await", at |-> "flag"]
          /\ UNCHANGED timer
    /\ UNCHANGED <<restVars, process, socketFile, connected>>

\* Variant: Close leaves the socket where it is.
CloseKeepsSocket ==
    /\ Running
    /\ \/ closer.at = "flag" /\ closer' = [closer EXCEPT !.at = "host"] /\ UNCHANGED connected
       \/ closer.at = "host" /\ closer' = [closer EXCEPT !.at = "socket"] /\ connected' = {}
       \/ closer.at = "socket" /\ closer' = [closer EXCEPT !.at = "done"] /\ UNCHANGED connected
    /\ UNCHANGED <<restVars, process, timer, socketFile>>

\* Close: the flag, the host with its connections, the listener and the socket's file.
Close ==
    /\ Running
    /\ \/ /\ closer.at = "flag"
          /\ closer' = [closer EXCEPT !.at = "host"]
          /\ UNCHANGED <<connected, socketFile>>
       \/ /\ closer.at = "host"
          /\ closer' = [closer EXCEPT !.at = "socket"]
          /\ connected' = {}
          /\ UNCHANGED socketFile
       \/ /\ closer.at = "socket"
          /\ closer' = [closer EXCEPT !.at = "done"]
          /\ socketFile' = FALSE
          /\ UNCHANGED connected
    /\ UNCHANGED <<restVars, process, timer>>

\* trapSignals exits after Close.
SignalExits ==
    /\ Running /\ closer = [by |-> "signal", at |-> "done"]
    /\ process' = "killed" /\ main' = "over"
    /\ UNCHANGED <<configVars, last, closeVars, daemon, netVars, roundVars, starts>>

\* Serve returns when it sees the flag, which may be before its first Accept.
ServeReturns ==
    /\ Running /\ main = "serving"
    /\ closer.at \in {"host", "socket", "done"}
    /\ process' = "exited" /\ main' = "over"
    /\ UNCHANGED <<configVars, last, closeVars, daemon, netVars, roundVars, starts>>

\* The process ends on the spot: by a panic, by a signal trapSignals does not ask for, or
\* by one that comes before its goroutine has called Notify.
Dies ==
    /\ Running
    /\ process' = IF daemonExists THEN "crashed" ELSE "aborted"
    /\ main' = "over"
    /\ UNCHANGED <<configVars, last, closeVars, daemon, netVars, roundVars, starts>>

\* Another process opens the socket before the daemon does, or removes its own.
OtherProcess ==
    /\ Running /\ ~daemonExists /\ flags.listen = "unix"
    /\ \/ /\ ~socketFile
          /\ socketFile' = TRUE
          /\ last' = [process |-> "other", close |-> "none"]
       \/ /\ socketFile /\ last.process = "other"
          /\ socketFile' = FALSE
          /\ last' = nobody
    /\ UNCHANGED <<configVars, main, process, timer, closer, daemon, netVars, roundVars, starts>>

\* The daemon is started again with the same configuration.
Restart ==
    /\ ~Running /\ starts < MaxStarts
    /\ starts' = starts + 1
    /\ last' = IF process \in {"config", "flags", "options", "host", "listen", "aborted"}
               THEN last
               ELSE [process |-> process, close |-> closer.at]
    /\ c' = NewDefaultConfig
    /\ main' = "config" /\ process' = "running"
    /\ timer' = "off" /\ closer' = [by |-> "none", at |-> "none"]
    /\ daemon' = {} /\ round' = noRound /\ keeper' = "none" /\ connected' = {}
    /\ UNCHANGED <<flags, file, socketFile, up, others, losses>>

Over == ~Running /\ starts = MaxStarts /\ UNCHANGED vars
-----------------------------------------------------------------------------
MainStep ==
    \/ ReadConfig \/ ApplyFlags \/ CollectOptions \/ NewDaemon \/ KillOnTimeout
    \/ EnablePubsub \/ Bootstrap \/ BootstrapReturns \/ ServeReturns

Next ==
    \/ MainStep \/ Tick \/ RoundReturns
    \/ \E p \in Peers : Dial(p) \/ Lose(p) \/ PeerConnects(p)
    \/ StartClose \/ Close \/ SignalExits
    \/ Dies \/ OtherProcess \/ Restart \/ Over

(***************************************************************************)
(* main and the goroutines run, Connect returns at the latest when its     *)
(* context expires, and the ticker ticks.  Signals, other processes and    *)
(* the network owe nothing.                                                *)
(***************************************************************************)
Fairness ==
    /\ WF_vars(MainStep) /\ WF_vars(Tick \/ RoundReturns)
    /\ WF_vars(\E p \in Peers : Dial(p))
    /\ WF_vars(Close) /\ WF_vars(SignalExits)

Spec == Init /\ [][Next]_vars /\ Fairness
-----------------------------------------------------------------------------
(***************************************************************************)
(* The stages, and the numbers of a round: what it counts it no longer has *)
(* to connect.                                                             *)
(***************************************************************************)
TypeOK ==
    /\ main \in {"config", "flags", "options", "host", "timer", "pubsub", "bootstrap",
                 "connecting", "serving", "over"}
    /\ process \in {"running", "config", "flags", "options", "host", "listen", "pubsub",
                    "peers", "bootstrap", "dht", "killed", "exited", "crashed", "aborted"}
    /\ Running <=> main # "over"
    /\ connected \subseteq Peers
    /\ round.toconnect \in 0 .. BootstrapConnections
    /\ round.count = round.wanted - round.toconnect
    /\ keeper \in {"none", "waiting", "connecting"}

(***************************************************************************)
(* What a daemon that serves can be relied on for, though the file is      *)
(* validated before the flags change it: -tls and -noise decide, and one   *)
(* of them is on; pubsub and the DHT are there as configured; autorelay    *)
(* comes with the relay and the DHT it needs; the relay is off only if a   *)
(* file says so and -relay=false too, for a flag alone cannot turn it off. *)
(* Contrary to specs/CONFIG.md:21-22, no option is ignored for a file.     *)
(* Addresses come from the command line only: the control address because  *)
(* its flag always has a value, the host's because no file that holds one  *)
(* can be read; so a daemon with QUIC, which is on unless -quic=false, has *)
(* -hostAddrs.                                                             *)
(***************************************************************************)
ServingConfig ==
    main = "serving" =>
      /\ {"TLS", "Noise"} \cap c.on = {"TLS", "Noise"} \cap flags.on
      /\ {"TLS", "Noise"} \cap flags.on # {}
      /\ "pubsub" \in daemon <=> "PubSub" \in c.on
      /\ "dht" \in daemon <=> c.mode # ""
      /\ "AutoRelay" \in c.on => "Relay" \in c.on /\ "dht" \in daemon
      /\ "Relay" \notin c.on =>
           flags.source # "none" /\ "Relay" \in file.false /\ "Relay" \notin flags.on
      /\ c.listen = flags.listen
      /\ c.hosts = flags.hosts
      /\ "QUIC" \in flags.on => flags.hosts # {}

(***************************************************************************)
(* A start fails at its control socket only if another process has it, or  *)
(* if the daemon before did not get through Close: it died, it met a fatal *)
(* error after NewDaemon, or main returned from Serve while Close was      *)
(* under way.  After a trapped signal's exit, and after a Close that was   *)
(* done, the socket is free.                                               *)
(***************************************************************************)
CloseFreesSocket ==
    process = "listen" =>
      \/ last.process \in {"other", "crashed", "pubsub", "peers", "bootstrap", "dht"}
      \/ last.process = "exited" /\ last.close \in {"host", "socket"}

(***************************************************************************)
(* Bootstrap fails only when its round has gone over every peer: each had  *)
(* a connection already, which is not counted, or its dial failed, be it   *)
(* because the dials before had used up the round's minute.                *)
(***************************************************************************)
BootstrapTriedAll ==
    process = "bootstrap" => round.left = {} /\ round.count = 0

(***************************************************************************)
(* A round connects to no more peers than were missing when it started.    *)
(***************************************************************************)
RoundWithinWanted == round.count <= round.wanted

(***************************************************************************)
(* What holds of a start at any moment: the stages and the round fit, a    *)
(* bootstrap that failed has tried all, and a round keeps to its number.   *)
(***************************************************************************)
StartInv == TypeOK /\ BootstrapTriedAll /\ RoundWithinWanted

(***************************************************************************)
(* A bootstrapped daemon that has lost its connections gets one again,     *)
(* while a bootstrap peer is up, by one of its rounds, unless the round    *)
(* runs out of its minute: peers that hang can take it from those that are *)
(* up, in every round, and only the shuffle speaks against it.             *)
(***************************************************************************)
IsolationEnds ==
    keeper # "none" /\ connected = {} /\ others = 0 /\ up # {} ~>
      \/ connected # {} \/ ~Running \/ closer.by # "none"
      \/ keeper = "connecting" /\ round.expired
=============================================================================
