----------------------------- MODULE MCStartup ------------------------------
(***************************************************************************)
(* Command lines and configuration files for Startup.                      *)
(***************************************************************************)
EXTENDS Startup

\* The defaults of the flags, changed where a flag is given.
line == [source |-> "none", on |-> {"QUIC", "Relay", "TLS", "Noise", "Sign", "SignStrict"},
         dht |-> {}, router |-> "gossipsub", listen |-> "unix", hosts |-> {}, id |-> "none"]

full == [line EXCEPT !.hosts = {"h1"}, !.on = @ \cup {"Bootstrap"}]

noQUIC == line.on \ {"QUIC"}

MCCommandLines ==
    {line, full,
     [line EXCEPT !.source = "file", !.hosts = {"h1"}, !.on = @ \cup {"PubSub"},
                  !.dht = {"full"}],
     [full EXCEPT !.listen = "tcp", !.on = @ \cup {"IdleTimeout"}, !.dht = {"client"}],
     [full EXCEPT !.on = @ \cup {"PubSub", "IdleTimeout"}, !.router = "episub"],
     [line EXCEPT !.source = "file", !.on = noQUIC],
     [line EXCEPT !.source = "file", !.on = noQUIC \cup {"AutoRelay"}],
     [line EXCEPT !.source = "file", !.on = {"AutoRelay", "Noise"}],
     [line EXCEPT !.source = "file", !.on = {"AutoRelay"}, !.dht = {"server", "client"}],
     [line EXCEPT !.source = "missing"],
     [line EXCEPT !.listen = "bad"],
     [full EXCEPT !.hosts = {"h1", "bad"}],
     [full EXCEPT !.id = "bad"],
     [line EXCEPT !.hosts = {"h1"}, !.on = @ \ {"Relay"}],
     [full EXCEPT !.on = @ \cup {"PeersWithoutId"}],
     [full EXCEPT !.on = @ \cup {"Public", "Private"}]}

text == [true |-> {}, false |-> {}, mode |-> "", router |-> "gossipsub", hosts |-> {}]

quoted(a) == [quoted |-> TRUE, value |-> a]

\* The "Complete (Default Options) Example" of specs/CONFIG.md.
example == [text EXCEPT !.false = {"QUIC", "SignStrict"}, !.hosts = {quoted("unix"), quoted("")}]

MCFiles ==
    {text, example,
     [text EXCEPT !.hosts = {quoted("h1")}, !.false = {"QUIC"}],
     [text EXCEPT !.false = {"Relay", "TLS"}, !.mode = "server"],
     [text EXCEPT !.true = {"AutoRelay"}, !.mode = "full"],
     [text EXCEPT !.true = {"AutoRelay"}],
     [text EXCEPT !.true = {"PubSub"}, !.router = "floodsub"],
     [text EXCEPT !.mode = "half"]}

MCInputs ==
    {[flags |-> f, file |-> t] :
       f \in {l \in MCCommandLines : l.source = "file"}, t \in MCFiles}
    \cup {[flags |-> f, file |-> text] : f \in {l \in MCCommandLines : l.source # "file"}}
=============================================================================
