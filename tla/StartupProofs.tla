--------------------------- MODULE StartupProofs ----------------------------
(***************************************************************************)
(* The safety properties of Startup, proved for every set of command lines *)
(* and configuration files, any bootstrap peers and any number of starts.  *)
(***************************************************************************)
EXTENDS Startup, FiniteSetTheorems, TLAPS

(***************************************************************************)
(* The stages before there is a daemon, the stages with one, and the ways  *)
(* a process can end before its NewDaemon has opened the socket.           *)
(***************************************************************************)
Early == {"config", "flags", "options", "host"}

WithDaemon == {"timer", "pubsub", "bootstrap", "connecting", "serving"}

NeverOpened == {"config", "flags", "options", "host", "listen", "aborted"}

(***************************************************************************)
(* The stages of main and the round of connectBootstrapPeers: a round that *)
(* goes on has somebody to connect to, and one that is over by its number  *)
(* has connected all it wanted.                                            *)
(***************************************************************************)
Rounds == [left : SUBSET Peers, over : BOOLEAN, toconnect : Int, count : Int, wanted : Int,
           expired : BOOLEAN]

RoundInv ==
    /\ main \in Early \cup WithDaemon \cup {"over"}
    /\ process \in NeverOpened \cup {"running", "pubsub", "peers", "bootstrap", "dht",
                                     "killed", "exited", "crashed"}
    /\ Running <=> main # "over"
    /\ connected \subseteq Peers /\ others \in Nat
    /\ keeper \in {"none", "waiting", "connecting"}
    /\ round \in Rounds
    /\ round.toconnect >= 0 /\ round.wanted <= BootstrapConnections
    /\ round.count >= 0 /\ round.count = round.wanted - round.toconnect
    /\ round.over <=> round.toconnect = 0
    /\ main = "connecting" => round.wanted >= 1
    /\ BootstrapTriedAll

(***************************************************************************)
(* What the configuration has kept of the flags at each stage.             *)
(***************************************************************************)
RelayRefused == flags.source # "none" /\ "Relay" \in file.false

FromFlags ==
    /\ c.listen = flags.listen /\ c.hosts = flags.hosts
    /\ {"TLS", "Noise"} \cap c.on = {"TLS", "Noise"} \cap flags.on
    /\ "QUIC" \in flags.on => "QUIC" \in c.on
    /\ "AutoRelay" \in c.on => "Relay" \in c.on /\ c.mode # ""
    /\ "Relay" \notin c.on => RelayRefused /\ "Relay" \notin flags.on

ConfigInv ==
    /\ \A a \in file.hosts : a.quoted = TRUE
    /\ main = "flags" => c.hosts = {} /\ ("Relay" \notin c.on => RelayRefused)
    /\ main \in {"options", "host"} \cup WithDaemon => FromFlags
    /\ main \in {"host"} \cup WithDaemon => usable
    /\ main \in WithDaemon => ("dht" \in daemon <=> c.mode # "")
    /\ main \in {"timer", "pubsub"} => "pubsub" \notin daemon
    /\ main \in {"bootstrap", "connecting", "serving"} =>
         ("pubsub" \in daemon <=> "PubSub" \in c.on)

(***************************************************************************)
(* Who left the socket that is in the file system.                         *)
(***************************************************************************)
LeftBehind ==
    \/ last.process \in {"other", "crashed", "pubsub", "peers", "bootstrap", "dht"}
    \/ last.process = "exited" /\ last.close \in {"host", "socket"}

Closers == [by : {"none", "signal", "timer", "await"},
            at : {"none", "flag", "host", "socket", "done"}]

SocketInv ==
    /\ closer \in Closers
    /\ main \in Early => closer = [by |-> "none", at |-> "none"]
    /\ closer.at = "done" => ~socketFile
    /\ main \in Early \/ process \in NeverOpened => (socketFile => LeftBehind)
    /\ process = "listen" => socketFile
    /\ process = "killed" => closer.at = "done"
    /\ process = "exited" => closer.at \in {"host", "socket", "done"}

IndInv == RoundInv /\ ConfigInv /\ SocketInv
-----------------------------------------------------------------------------
(***************************************************************************)
(* A turn of connectBootstrapPeers keeps the numbers of the round.         *)
(***************************************************************************)
LEMMA RoundTried ==
    ASSUME NEW p \in Peers, NEW ok \in BOOLEAN, round \in Rounds,
           round.toconnect > 0, ~round.over,
           round.wanted <= BootstrapConnections, round.count >= 0,
           round.count = round.wanted - round.toconnect
    PROVE  LET r == tried(p, ok)
           IN  /\ r \in Rounds /\ r.toconnect >= 0 /\ r.count >= 0
               /\ r.wanted = round.wanted /\ r.count = r.wanted - r.toconnect
               /\ r.over <=> r.toconnect = 0
<1> DEFINE rest == [round EXCEPT !.left = @ \ {p}]
           next == IF ok THEN [rest EXCEPT !.toconnect = @ - 1, !.count = @ + 1] ELSE rest
<1>1. tried(p, ok) = [next EXCEPT !.over = (next.toconnect = 0)] BY DEF tried
<1>2. /\ rest \in Rounds /\ rest.toconnect = round.toconnect /\ rest.count = round.count
      /\ rest.wanted = round.wanted
  BY DEF Rounds
<1> HIDE DEF rest
<1>3. /\ next \in Rounds /\ next.wanted = round.wanted /\ next.toconnect >= 0
      /\ next.count >= 0 /\ next.count = next.wanted - next.toconnect
  <2>1. CASE ok
    <3>1. /\ [rest EXCEPT !.toconnect = @ - 1, !.count = @ + 1] \in Rounds
          /\ round.toconnect \in Int /\ round.count \in Int /\ round.wanted \in Int
      <4>1. /\ round.toconnect \in Int /\ round.count \in Int /\ round.wanted \in Int
            /\ rest.toconnect - 1 \in Int /\ rest.count + 1 \in Int
        BY <1>2 DEF Rounds
      <4>2. [rest EXCEPT !.toconnect = rest.toconnect - 1, !.count = rest.count + 1]
              \in Rounds
        BY <1>2, <4>1, Zenon DEF Rounds
      <4> QED BY <4>1, <4>2
    <3>2. next.toconnect = round.toconnect - 1 /\ next.count = round.count + 1
          /\ next.wanted = round.wanted
      BY <1>2, <2>1 DEF Rounds
    <3> QED BY <2>1, <3>1, <3>2
  <2>2. CASE ~ok BY <1>2, <2>2 DEF Rounds
  <2> QED BY <2>1, <2>2
<1> HIDE DEF next
<1>4. [next EXCEPT !.over = (next.toconnect = 0)] \in Rounds
  <2>1. (next.toconnect = 0) \in BOOLEAN OBVIOUS
  <2> QED BY <1>3, <2>1, Zenon DEF Rounds
<1>5. /\ [next EXCEPT !.over = (next.toconnect = 0)].toconnect = next.toconnect
      /\ [next EXCEPT !.over = (next.toconnect = 0)].count = next.count
      /\ [next EXCEPT !.over = (next.toconnect = 0)].wanted = next.wanted
      /\ [next EXCEPT !.over = (next.toconnect = 0)].over <=> next.toconnect = 0
  BY <1>3 DEF Rounds
<1> QED BY <1>1, <1>3, <1>4, <1>5

(***************************************************************************)
(* So does a dial that used up the minute.                                 *)
(***************************************************************************)
LEMMA RoundFailed ==
    ASSUME NEW p \in Peers, NEW hung \in BOOLEAN, round \in Rounds,
           round.toconnect > 0, ~round.over,
           round.wanted <= BootstrapConnections, round.count >= 0,
           round.count = round.wanted - round.toconnect
    PROVE  LET r == failed(p, hung)
           IN  /\ r \in Rounds /\ r.toconnect >= 0 /\ r.count >= 0
               /\ r.wanted = round.wanted /\ r.count = r.wanted - r.toconnect
               /\ r.over <=> r.toconnect = 0
<1> DEFINE t == tried(p, FALSE)
           e == round.expired \/ hung
<1>1. /\ t \in Rounds /\ t.toconnect >= 0 /\ t.count >= 0
      /\ t.wanted = round.wanted /\ t.count = t.wanted - t.toconnect
      /\ t.over <=> t.toconnect = 0
  BY RoundTried
<1>2. e \in BOOLEAN OBVIOUS
<1>3. failed(p, hung) = [t EXCEPT !.expired = e] BY DEF failed
<1> HIDE DEF t, e
<1>4. [t EXCEPT !.expired = e] \in Rounds
  BY <1>1, <1>2, Zenon DEF Rounds
<1>5. /\ [t EXCEPT !.expired = e].toconnect = t.toconnect
      /\ [t EXCEPT !.expired = e].count = t.count
      /\ [t EXCEPT !.expired = e].wanted = t.wanted
      /\ [t EXCEPT !.expired = e].over = t.over
  BY <1>1 DEF Rounds
<1> QED BY <1>1, <1>3, <1>4, <1>5

(***************************************************************************)
(* The number of connections is a number.                                  *)
(***************************************************************************)
LEMMA ConnsType == ASSUME RoundInv PROVE conns \in Nat
<1>1. IsFiniteSet(connected) BY StartupAssumption, FS_Subset DEF RoundInv
<1>2. Cardinality(connected) \in Nat BY <1>1, FS_CardinalityType
<1> QED BY <1>2 DEF RoundInv, conns

(***************************************************************************)
(* Every step keeps the stages and the round.                              *)
(***************************************************************************)
LEMMA RoundStep == RoundInv /\ [Next]_vars => RoundInv'
<1> SUFFICES ASSUME RoundInv, [Next]_vars PROVE RoundInv'
    OBVIOUS
<1> USE StartupAssumption
<1> USE DEF configVars, closeVars, netVars, roundVars, Running
<1>n. ASSUME NEW k \in 1 .. BootstrapConnections, newRound(k)
      PROVE  /\ round' \in Rounds /\ round'.toconnect >= 0
             /\ round'.wanted <= BootstrapConnections /\ round'.wanted >= 1
             /\ round'.count >= 0 /\ round'.count = round'.wanted - round'.toconnect
             /\ round'.over <=> round'.toconnect = 0
  BY <1>n DEF newRound, Rounds
<1>1. CASE ReadConfig \/ ApplyFlags \/ CollectOptions \/ NewDaemon
  BY <1>1 DEF ReadConfig, ApplyFlags, CollectOptions, NewDaemon, Fatal, RoundInv,
              BootstrapTriedAll, Early, WithDaemon, NeverOpened
<1>2. CASE KillOnTimeout \/ EnablePubsub \/ ServeReturns
  BY <1>2 DEF KillOnTimeout, EnablePubsub, ServeReturns, Fatal, RoundInv,
              BootstrapTriedAll, Early, WithDaemon, NeverOpened
<1>3. CASE Bootstrap
  <2>1. CASE UNCHANGED round
    BY <1>3, <2>1 DEF Bootstrap, newRound, Fatal, RoundInv, BootstrapTriedAll, Early,
                      WithDaemon, NeverOpened
  <2>2. CASE newRound(BootstrapConnections) /\ main' = "connecting" /\ UNCHANGED process
    BY <1>3, <1>n, <2>2 DEF Bootstrap, RoundInv, BootstrapTriedAll, WithDaemon
  <2> QED BY <1>3, <2>1, <2>2 DEF Bootstrap
<1>4. ASSUME NEW p \in Peers, Dial(p) PROVE RoundInv'
  <2>1. /\ UNCHANGED <<main, process, others, keeper>> /\ process = "running"
        /\ ~round.over /\ connected' \subseteq Peers
    BY <1>4 DEF Dial, roundOver, RoundInv
  <2>2. round.toconnect > 0 BY <2>1 DEF RoundInv, Rounds
  <2>3. /\ round' \in Rounds /\ round'.toconnect >= 0 /\ round'.count >= 0
        /\ round'.wanted = round.wanted /\ round'.count = round'.wanted - round'.toconnect
        /\ round'.over <=> round'.toconnect = 0
    <3>1. CASE round' = [round EXCEPT !.left = @ \ {p}]
      BY <3>1 DEF RoundInv, Rounds
    <3>2. CASE round' = tried(p, TRUE)
      BY <2>1, <2>2, <3>2, RoundTried DEF RoundInv
    <3>3. ASSUME NEW hung \in BOOLEAN, round' = failed(p, hung)
          PROVE  /\ round' \in Rounds /\ round'.toconnect >= 0 /\ round'.count >= 0
                 /\ round'.wanted = round.wanted /\ round'.count = round'.wanted - round'.toconnect
                 /\ round'.over <=> round'.toconnect = 0
      BY <2>1, <2>2, <3>3, RoundFailed DEF RoundInv
    <3> QED BY <1>4, <3>1, <3>2, <3>3 DEF Dial
  <2> QED BY <2>1, <2>3 DEF RoundInv, BootstrapTriedAll
<1>5. CASE BootstrapReturns
  <2>1. ASSUME round.count = 0, main = "connecting", roundOver PROVE round.left = {}
    BY <2>1 DEF roundOver, RoundInv, Rounds
  <2> QED BY <1>5, <2>1 DEF BootstrapReturns, Fatal, RoundInv, BootstrapTriedAll, Early,
                            WithDaemon, NeverOpened
<1>6. CASE Tick
  <2>1. BootstrapConnections - conns \in 1 .. BootstrapConnections
    BY <1>6, ConnsType DEF Tick
  <2> QED BY <1>6, <1>n, <2>1 DEF Tick, RoundInv, BootstrapTriedAll
<1>7. CASE RoundReturns BY <1>7 DEF RoundReturns, RoundInv, BootstrapTriedAll
<1>8. ASSUME NEW p \in Peers, Lose(p) \/ PeerConnects(p) PROVE RoundInv'
  BY <1>8 DEF Lose, PeerConnects, RoundInv, BootstrapTriedAll
<1>9. CASE StartClose \/ Close
  BY <1>9 DEF StartClose, Close, restVars, RoundInv, BootstrapTriedAll
<1>10. CASE SignalExits \/ Dies \/ OtherProcess
  BY <1>10 DEF SignalExits, Dies, OtherProcess, RoundInv, BootstrapTriedAll, Early, WithDaemon,
               NeverOpened
<1>11. CASE Restart
  <2>1. round' = noRound /\ process' = "running" /\ main' = "config" /\ connected' = {}
        /\ keeper' = "none" /\ UNCHANGED others
    BY <1>11 DEF Restart
  <2>2. noRound \in Rounds BY DEF noRound, Rounds
  <2> QED BY <2>1, <2>2 DEF noRound, RoundInv, BootstrapTriedAll, Early, WithDaemon
<1>12. CASE UNCHANGED vars BY <1>12 DEF vars, RoundInv, BootstrapTriedAll
<1> QED
  BY <1>1, <1>2, <1>3, <1>4, <1>5, <1>6, <1>7, <1>8, <1>9, <1>10, <1>11, <1>12
     DEF Next, MainStep, Over

(***************************************************************************)
(* What ApplyFlags makes of a configuration that came without addresses.   *)
(***************************************************************************)
LEMMA AppliedFlags ==
    ASSUME c.hosts = {}, Validate(applied(c)), "Relay" \notin c.on => RelayRefused
    PROVE  LET d == applied(c)
           IN  /\ d.listen = flags.listen /\ d.hosts = flags.hosts
               /\ {"TLS", "Noise"} \cap d.on = {"TLS", "Noise"} \cap flags.on
               /\ "QUIC" \in flags.on => "QUIC" \in d.on
               /\ "AutoRelay" \in d.on => "Relay" \in d.on /\ d.mode # ""
               /\ "Relay" \notin d.on => RelayRefused /\ "Relay" \notin flags.on
<1>1. applied(c).listen = flags.listen /\ applied(c).hosts = flags.hosts
  BY DEF applied
<1>2. PICK D, E : /\ applied(c).on = (c.on \ D) \cup (flags.on \cap (D \cup E))
                  /\ Deciding \subseteq D /\ Enabling \subseteq E
                  /\ D \subseteq Deciding \cup OfPubSub
  BY DEF applied
<1>3. {"TLS", "Noise", "QUIC"} \subseteq D /\ "Relay" \in E /\ "Relay" \notin D
  BY <1>2 DEF Deciding, Enabling, OfPubSub
<1>4. /\ {"TLS", "Noise"} \cap applied(c).on = {"TLS", "Noise"} \cap flags.on
      /\ "QUIC" \in flags.on => "QUIC" \in applied(c).on
      /\ "Relay" \in c.on \cup flags.on => "Relay" \in applied(c).on
  BY <1>2, <1>3
<1> QED BY <1>1, <1>4 DEF Validate

(***************************************************************************)
(* Every step keeps what the stages say of the configuration.              *)
(***************************************************************************)
LEMMA ConfigStep == RoundInv /\ ConfigInv /\ [Next]_vars => ConfigInv'
<1> SUFFICES ASSUME RoundInv, ConfigInv, [Next]_vars PROVE ConfigInv'
    OBVIOUS
<1> USE DEF configVars, closeVars, netVars, roundVars, Running, WithDaemon
<1>o. ASSUME main' = "over", UNCHANGED file PROVE ConfigInv'
  BY <1>o DEF ConfigInv
<1>1. CASE ReadConfig
  <2>1. CASE main' = "over" BY <1>1, <1>o, <2>1 DEF ReadConfig
  <2>2. CASE main' # "over"
    <3>1. main' = "flags" /\ (c' = NewDefaultConfig \/
             (c' = UnmarshalJSON(file) /\ "bad" \notin UnmarshalJSON(file).hosts))
      BY <1>1, <2>2 DEF ReadConfig, Fatal
    <3>2. NewDefaultConfig.hosts = {} BY DEF NewDefaultConfig
    <3>3. ASSUME "bad" \notin UnmarshalJSON(file).hosts PROVE UnmarshalJSON(file).hosts = {}
      <4>1. UnmarshalJSON(file).hosts = {address(a) : a \in file.hosts}
        BY DEF UnmarshalJSON
      <4>2. \A a \in file.hosts : address(a) = "bad" BY DEF ConfigInv, address
      <4> QED BY <3>3, <4>1, <4>2
    <3>4. c'.hosts = {} BY <3>1, <3>2, <3>3
    <3>5. "Relay" \notin c'.on => RelayRefused
      <4>1. "Relay" \in NewDefaultConfig.on BY DEF NewDefaultConfig
      <4>2. UnmarshalJSON(file).on = (NewDefaultConfig.on \cup file.true) \ file.false
        BY DEF UnmarshalJSON
      <4>3. c' # NewDefaultConfig => flags.source # "none" /\ c' = UnmarshalJSON(file)
        BY <1>1, <2>2 DEF ReadConfig, Fatal
      <4> QED BY <4>1, <4>2, <4>3 DEF RelayRefused
    <3> QED BY <1>1, <3>1, <3>4, <3>5 DEF ReadConfig, ConfigInv, RelayRefused
  <2> QED BY <2>1, <2>2
<1>2. CASE ApplyFlags
  <2>1. CASE main' = "over" BY <1>2, <1>o, <2>1 DEF ApplyFlags
  <2>2. CASE main' # "over"
    <3>1. /\ main = "flags" /\ main' = "options" /\ c' = applied(c)
          /\ Validate(applied(c)) /\ UNCHANGED <<flags, file>>
      BY <1>2, <2>2 DEF ApplyFlags, Fatal
    <3>2. c.hosts = {} /\ ("Relay" \notin c.on => RelayRefused) BY <3>1 DEF ConfigInv
    <3>3. FromFlags' BY <3>1, <3>2, AppliedFlags DEF FromFlags, RelayRefused
    <3> QED BY <3>1, <3>3 DEF ConfigInv
  <2> QED BY <2>1, <2>2
<1>3. CASE CollectOptions
  BY <1>3, <1>o DEF CollectOptions, Fatal, ConfigInv, FromFlags, RelayRefused, usable
<1>4. CASE NewDaemon
  <2>1. CASE main' = "over" BY <1>4, <1>o, <2>1 DEF NewDaemon
  <2>2. CASE main' # "over"
    <3>1. /\ main = "host" /\ main' = "timer" /\ UNCHANGED <<flags, file, c>>
          /\ daemon' = IF c.mode = "" THEN {} ELSE {"dht"}
      BY <1>4, <2>2 DEF NewDaemon, Fatal
    <3> QED BY <3>1 DEF ConfigInv, FromFlags, RelayRefused, usable
  <2> QED BY <2>1, <2>2
<1>5. CASE KillOnTimeout BY <1>5 DEF KillOnTimeout, ConfigInv, FromFlags, RelayRefused, usable
<1>6. CASE EnablePubsub
  <2>1. CASE main' = "over" BY <1>6, <1>o, <2>1 DEF EnablePubsub
  <2>2. CASE main' # "over"
    <3>1. /\ main = "pubsub" /\ main' = "bootstrap" /\ UNCHANGED <<flags, file, c>>
          /\ daemon' = IF "PubSub" \in c.on THEN daemon \cup {"pubsub"} ELSE daemon
      BY <1>6, <2>2 DEF EnablePubsub, Fatal
    <3> QED BY <3>1 DEF ConfigInv, FromFlags, RelayRefused, usable
  <2> QED BY <2>1, <2>2
<1>7. CASE Bootstrap \/ BootstrapReturns
  <2>1. CASE main' = "over" BY <1>7, <1>o, <2>1 DEF Bootstrap, BootstrapReturns
  <2>2. CASE main' # "over"
    <3>1. /\ main \in {"bootstrap", "connecting"} /\ main' \in {"connecting", "serving"}
          /\ UNCHANGED <<flags, file, c, daemon>>
      BY <1>7, <2>2 DEF Bootstrap, BootstrapReturns, Fatal
    <3> QED BY <3>1 DEF ConfigInv, FromFlags, RelayRefused, usable
  <2> QED BY <2>1, <2>2
<1>8. CASE ServeReturns \/ SignalExits \/ Dies
  BY <1>8, <1>o DEF ServeReturns, SignalExits, Dies
<1>9. CASE Restart BY <1>9 DEF Restart, ConfigInv
<1>10. ASSUME UNCHANGED <<flags, file, c, main, daemon>> PROVE ConfigInv'
  BY <1>10 DEF ConfigInv, FromFlags, RelayRefused, usable
<1>11. CASE \/ Tick \/ RoundReturns \/ StartClose \/ Close \/ OtherProcess \/ UNCHANGED vars
            \/ \E p \in Peers : Dial(p) \/ Lose(p) \/ PeerConnects(p)
  <2>1. UNCHANGED <<flags, file, c, main, daemon>>
    BY <1>11 DEF Tick, RoundReturns, StartClose, Close, Dial, Lose, PeerConnects,
                 OtherProcess, restVars, vars
  <2> QED BY <1>10, <2>1
<1> QED
  BY <1>1, <1>2, <1>3, <1>4, <1>5, <1>6, <1>7, <1>8, <1>9, <1>11 DEF Next, MainStep, Over

(***************************************************************************)
(* A socket in the file system is that of the running daemon, or was left  *)
(* behind by a process that did not get to the end of Close.               *)
(***************************************************************************)
LEMMA SocketStep == RoundInv /\ SocketInv /\ [Next]_vars => SocketInv'
<1> SUFFICES ASSUME RoundInv, SocketInv, [Next]_vars PROVE SocketInv'
    OBVIOUS
<1> USE DEF configVars, closeVars, netVars, roundVars, Running, Early, NeverOpened
<1>1. CASE ReadConfig \/ ApplyFlags \/ CollectOptions
  BY <1>1 DEF ReadConfig, ApplyFlags, CollectOptions, Fatal, SocketInv, LeftBehind
<1>2. CASE NewDaemon
  <2>h. main = "host" /\ process = "running" BY <1>2 DEF NewDaemon
  <2>c. closer = [by |-> "none", at |-> "none"] BY <2>h DEF SocketInv
  <2>0. /\ main = "host" /\ process = "running" /\ closer.at = "none"
        /\ socketFile => LeftBehind
    BY <2>h, <2>c DEF SocketInv
  <2>1. CASE main' = "over"
    <3>1. /\ UNCHANGED <<socketFile, last, closer>> /\ process' \in {"host", "listen"}
          /\ process' = "listen" => socketFile
      BY <1>2, <2>0, <2>1 DEF NewDaemon, Fatal
    <3>2. LeftBehind' <=> LeftBehind BY <3>1 DEF LeftBehind
    <3>3. closer' \in Closers /\ closer'.at = "none" BY <2>0, <3>1 DEF SocketInv
    <3> QED BY <2>0, <2>1, <3>1, <3>2, <3>3 DEF SocketInv
  <2>2. CASE main' # "over"
    <3>1. UNCHANGED <<process, closer>> /\ main' = "timer"
      BY <1>2, <2>2 DEF NewDaemon, Fatal
    <3> QED BY <2>0, <3>1 DEF SocketInv
  <2> QED BY <2>1, <2>2
<1>3. CASE KillOnTimeout \/ EnablePubsub \/ Bootstrap \/ BootstrapReturns
  BY <1>3 DEF KillOnTimeout, EnablePubsub, Bootstrap, BootstrapReturns, Fatal, RoundInv,
              SocketInv
<1>4. CASE ServeReturns \/ SignalExits
  BY <1>4 DEF ServeReturns, SignalExits, SocketInv, Closers
<1>10. CASE Dies
  <2>1. /\ UNCHANGED <<closer, last, socketFile>> /\ main' = "over" /\ process = "running"
        /\ process' = IF daemonExists THEN "crashed" ELSE "aborted"
    BY <1>10 DEF Dies
  <2>2. process' = "aborted" => main \in Early
    BY <2>1 DEF daemonExists, RoundInv, WithDaemon
  <2> QED BY <2>1, <2>2 DEF SocketInv, LeftBehind
<1>11. CASE OtherProcess
  <2>1. /\ UNCHANGED <<closer, main, process>> /\ main \in Early /\ process = "running"
        /\ socketFile' => last'.process = "other"
    BY <1>11 DEF OtherProcess, daemonExists, RoundInv, WithDaemon
  <2>2. closer.at = "none" BY <2>1 DEF SocketInv
  <2> QED BY <2>1, <2>2 DEF SocketInv, LeftBehind
<1>5. CASE StartClose
  <2>1. closer' \in Closers /\ closer'.at = "flag" BY <1>5 DEF StartClose, Closers
  <2> QED BY <1>5, <2>1 DEF StartClose, daemonExists, restVars, SocketInv
<1>6. CASE Close
  <2>1. /\ closer' \in Closers /\ closer.at # "none"
        /\ closer'.at = "done" => socketFile' = FALSE
        /\ closer'.at # "done" => socketFile' = socketFile
        /\ UNCHANGED <<main, process>> /\ process = "running"
    BY <1>6 DEF Close, restVars, SocketInv, Closers
  <2>2. main \notin Early BY <2>1 DEF SocketInv
  <2> QED BY <2>1, <2>2 DEF SocketInv
<1>7. CASE Restart
  <2>1. /\ closer' = [by |-> "none", at |-> "none"] /\ main' = "config"
        /\ process' = "running" /\ UNCHANGED socketFile /\ process # "running"
        /\ last' = IF process \in NeverOpened THEN last
                   ELSE [process |-> process, close |-> closer.at]
    BY <1>7 DEF Restart
  <2>2. ASSUME socketFile PROVE LeftBehind'
    <3>1. CASE process \in NeverOpened BY <2>1, <2>2, <3>1 DEF SocketInv, LeftBehind
    <3>2. CASE process \notin NeverOpened
      <4>1. last'.process = process /\ last'.close = closer.at BY <2>1, <3>2
      <4> QED BY <2>1, <2>2, <3>2, <4>1 DEF RoundInv, SocketInv, LeftBehind, Closers
    <3> QED BY <3>1, <3>2
  <2> QED BY <2>1, <2>2 DEF SocketInv, Closers
<1>8. ASSUME UNCHANGED <<main, process, last, closer, socketFile>> PROVE SocketInv'
  BY <1>8 DEF SocketInv, LeftBehind
<1>9. CASE \/ Tick \/ RoundReturns \/ UNCHANGED vars
           \/ \E p \in Peers : Dial(p) \/ Lose(p) \/ PeerConnects(p)
  <2>1. UNCHANGED <<main, process, last, closer, socketFile>>
    BY <1>9 DEF Tick, RoundReturns, Dial, Lose, PeerConnects, vars
  <2> QED BY <1>8, <2>1
<1> QED
  BY <1>1, <1>2, <1>3, <1>4, <1>5, <1>6, <1>7, <1>9, <1>10, <1>11 DEF Next, MainStep, Over

(***************************************************************************)
(* The first start is in a state of the inductive invariant.               *)
(***************************************************************************)
LEMMA InitIndInv == Init => IndInv
<1> SUFFICES ASSUME Init PROVE IndInv
    OBVIOUS
<1>1. RoundInv
  <2>1. noRound \in Rounds BY DEF noRound, Rounds
  <2> QED BY <2>1, StartupAssumption
             DEF Init, noRound, RoundInv, Running, BootstrapTriedAll, Early, WithDaemon
<1>2. ConfigInv BY InputsAssumption DEF Init, ConfigInv, WithDaemon
<1>3. SocketInv BY DEF Init, SocketInv, Closers
<1> QED BY <1>1, <1>2, <1>3 DEF IndInv

(***************************************************************************)
(* The inductive invariant holds in every reachable state.                 *)
(***************************************************************************)
THEOREM Invariance == Spec => []IndInv
<1>1. IndInv /\ [Next]_vars => IndInv'
  BY RoundStep, ConfigStep, SocketStep DEF IndInv
<1> QED BY InitIndInv, <1>1, PTL DEF Spec

(***************************************************************************)
(* Whatever the flags and the file say, a daemon that serves has a         *)
(* security protocol, the parts it is configured with and those autorelay  *)
(* needs, and takes its addresses from the command line.                   *)
(***************************************************************************)
THEOREM ConfigSafe == Spec => []ServingConfig
<1>1. IndInv => ServingConfig
  BY DEF IndInv, ConfigInv, WithDaemon, FromFlags, RelayRefused, usable, ServingConfig
<1> QED BY <1>1, Invariance, PTL

(***************************************************************************)
(* A start blocked by its socket follows a process of somebody else's, one *)
(* that died or one that did not get to the end of Close, however often    *)
(* the daemon is restarted.                                                *)
(***************************************************************************)
THEOREM SocketSafe == Spec => []CloseFreesSocket
<1>1. IndInv => CloseFreesSocket
  BY DEF IndInv, SocketInv, NeverOpened, LeftBehind, CloseFreesSocket
<1> QED BY <1>1, Invariance, PTL

(***************************************************************************)
(* The stages and rounds fit, and a bootstrap that fails has tried all     *)
(* peers, for any number of peers and of connections wanted.               *)
(***************************************************************************)
THEOREM StartSafe == Spec => []StartInv
<1>1. IndInv => TypeOK
  BY StartupAssumption
     DEF IndInv, RoundInv, Rounds, Early, WithDaemon, NeverOpened, Running, TypeOK
<1>2. IndInv => RoundWithinWanted BY DEF IndInv, RoundInv, Rounds, RoundWithinWanted
<1>3. IndInv => StartInv BY <1>1, <1>2 DEF IndInv, RoundInv, StartInv
<1> QED BY <1>3, Invariance, PTL

=============================================================================
