--------------------------- MODULE ClientRequests ---------------------------
(***************************************************************************)
(* A request a client makes over a control connection of its own           *)
(* (p2pclient/p2pclient.go, dht.go, pubsub.go), and the goroutines that    *)
(* hand a streamed answer to the caller:                                   *)
(*                                                                         *)
(*   simple     Identify, Connect, and what goes through doDHT or doPubsub *)
(*   dht        FindProviders, GetClosestPeers, SearchValue: a goroutine   *)
(*              reads the answers, a second one converts them into the     *)
(*              caller's buffered channel                                  *)
(*   subscribe  Subscribe: a goroutine reads the messages into the         *)
(*              caller's channel, a second one closes the connection when  *)
(*              the context is done                                        *)
(*                                                                         *)
(* A streamed value is its number, in the order the daemon sends them.     *)
(***************************************************************************)
EXTENDS Naturals, Sequences

CONSTANTS
    MaxValues,  \* values the daemon has for a streamed answer
    Cap         \* the size of the caller's channel, 10

ASSUME RequestAssumption == MaxValues \in Nat /\ Cap \in Nat \ {0}

VARIABLES
    kind,       \* the request
    bad,        \* the values that do not parse
    api,        \* the call's program counter, and its outcome
    control,    \* the client's end of the connection
    wire,       \* what the daemon sent and the client has not read
    server,     \* the daemon: what it is doing, values sent, whether it is gone
    reader,     \* the reading goroutine: where it is and the value it holds
    conv,       \* the converting goroutine, likewise
    buffer,     \* the caller's channel of a dht request
    caller,     \* whether the caller reads its channel, and what it got
    expired     \* the context is done

vars == <<kind, bad, api, control, wire, server, reader, conv, buffer, caller, expired>>

streaming == {"dht", "subscribe"}
END == 0        \* the message that ends a streamed answer

Init ==
    /\ kind \in {"simple"} \cup streaming
    /\ bad \in SUBSET (1 .. MaxValues)
    /\ kind # "dht" => bad = {}
    /\ api = [pc |-> "start", outcome |-> "none"]
    /\ control = "none"
    /\ wire = <<>>
    /\ server = [pc |-> "idle", n |-> 0, gone |-> FALSE]
    /\ reader = [pc |-> "none", v |-> 0]
    /\ conv = [pc |-> "none", v |-> 0]
    /\ buffer = <<>>
    /\ caller = [pc |-> "waiting", got |-> <<>>]
    /\ expired = FALSE

goroutines == <<reader, conv, buffer, caller>>
-----------------------------------------------------------------------------
(***************************************************************************)
(* The call.                                                               *)
(***************************************************************************)
returns(outcome) == api' = [pc |-> "returned", outcome |-> outcome]

Dial ==
    /\ api.pc = "start"
    /\ \/ ~server.gone /\ control' = "open" /\ api' = [api EXCEPT !.pc = "dialed"]
       \/ control' = "none" /\ returns("err")
    /\ UNCHANGED <<kind, bad, wire, server, goroutines, expired>>

\* streamRequest returns the error of a write without closing the connection.
WriteRequest ==
    /\ api.pc = "dialed"
    /\ \/ /\ ~server.gone
          /\ server' = [server EXCEPT !.pc = "asked"]
          /\ api' = [api EXCEPT !.pc = "reading"]
          /\ UNCHANGED control
       \/ /\ returns("err")
          /\ control' = IF kind = "dht" THEN "open" ELSE "closed"
          /\ UNCHANGED server
    /\ UNCHANGED <<kind, bad, wire, goroutines, expired>>

\* Neither does readDhtResponseStream when there is no answer to read.
ReadFails ==
    /\ api.pc = "reading"
    /\ wire = <<>> /\ server.gone
    /\ returns("err")
    /\ control' = IF kind = "dht" THEN "open" ELSE "closed"
    /\ UNCHANGED <<kind, bad, wire, server, goroutines, expired>>

\* Variant: the connection of a simple request is left to the garbage collector.
ReadSimpleLeaks ==
    /\ api.pc = "reading" /\ kind = "simple"
    /\ wire # <<>>
    /\ wire' = Tail(wire)
    /\ returns(IF Head(wire) = "ok" THEN "ok" ELSE "err")
    /\ UNCHANGED <<kind, bad, control, server, goroutines, expired>>

\* The answer of a simple request; a malformed one ("other") is an error too.
ReadSimple ==
    /\ api.pc = "reading" /\ kind = "simple"
    /\ wire # <<>>
    /\ wire' = Tail(wire)
    /\ returns(IF Head(wire) = "ok" THEN "ok" ELSE "err")
    /\ control' = "closed"
    /\ UNCHANGED <<kind, bad, server, goroutines, expired>>

\* An answer that is not OK, or not the BEGIN of a stream, leaves the connection open.
ReadRefusal ==
    /\ api.pc = "reading" /\ kind \in streaming
    /\ wire # <<>>
    /\ Head(wire) \in (IF kind = "dht" THEN {"error", "other"} ELSE {"error"})
    /\ wire' = Tail(wire)
    /\ returns("err")
    /\ UNCHANGED <<kind, bad, control, server, goroutines, expired>>

\* The goroutines start and the caller gets its channel.
ReadBegin ==
    /\ api.pc = "reading" /\ kind \in streaming
    /\ wire # <<>>
    /\ Head(wire) \in (IF kind = "dht" THEN {"ok"} ELSE {"ok", "other"})
    /\ wire' = Tail(wire)
    /\ returns("ok")
    /\ reader' = [reader EXCEPT !.pc = IF kind = "dht" THEN "checking" ELSE "reading"]
    /\ conv' = IF kind = "dht" THEN [conv EXCEPT !.pc = "ranging"] ELSE conv
    /\ caller' = [caller EXCEPT !.pc = "reading"]
    /\ UNCHANGED <<kind, bad, control, server, buffer, expired>>

Expire ==
    /\ ~expired
    /\ expired' = TRUE
    /\ UNCHANGED <<kind, bad, api, control, wire, server, goroutines>>
-----------------------------------------------------------------------------
(***************************************************************************)
(* The goroutines of a streamed answer.                                    *)
(***************************************************************************)
\* The reader returns: its deferred calls close the connection and its channel.
readerEnds ==
    /\ reader' = [reader EXCEPT !.pc = "done"]
    /\ control' = "closed"

\* The reader of a dht request looks at the context before each message.
CheckContext ==
    /\ reader.pc = "checking"
    /\ IF expired THEN readerEnds
       ELSE reader' = [reader EXCEPT !.pc = "reading"] /\ UNCHANGED control
    /\ UNCHANGED <<kind, bad, api, wire, server, conv, buffer, caller, expired>>

ReadValue ==
    /\ reader.pc = "reading"
    /\ wire # <<>>
    /\ wire' = Tail(wire)
    /\ IF Head(wire) = END THEN readerEnds
       ELSE reader' = [pc |-> "offering", v |-> Head(wire)] /\ UNCHANGED control
    /\ UNCHANGED <<kind, bad, api, server, conv, buffer, caller, expired>>

\* A read fails when the daemon is gone, or the connection was closed under it.
ReadValueFails ==
    /\ reader.pc = "reading"
    /\ (wire = <<>> /\ server.gone) \/ control = "closed"
    /\ readerEnds
    /\ UNCHANGED <<kind, bad, api, wire, server, conv, buffer, caller, expired>>

afterOffer == [reader EXCEPT !.pc = IF kind = "dht" THEN "checking" ELSE "reading"]

\* The reader's channel has no buffer: it waits for the converter, whatever the context;
OfferToConverter ==
    /\ reader.pc = "offering" /\ kind = "dht"
    /\ conv.pc = "ranging"
    /\ conv' = IF reader.v \in bad THEN conv ELSE [pc |-> "offering", v |-> reader.v]
    /\ reader' = afterOffer
    /\ UNCHANGED <<kind, bad, api, control, wire, server, buffer, caller, expired>>

\* or for the caller of Subscribe.
OfferToCaller ==
    /\ reader.pc = "offering" /\ kind = "subscribe"
    /\ caller.pc = "reading"
    /\ caller' = [caller EXCEPT !.got = Append(@, reader.v)]
    /\ reader' = afterOffer
    /\ UNCHANGED <<kind, bad, api, control, wire, server, conv, buffer, expired>>

\* Variant: a full channel drops the value.
ConvertDrops ==
    /\ conv.pc = "offering"
    /\ buffer' = IF Len(buffer) < Cap THEN Append(buffer, conv.v) ELSE buffer
    /\ conv' = [conv EXCEPT !.pc = "ranging"]
    /\ UNCHANGED <<kind, bad, api, control, wire, server, reader, caller, expired>>

Convert ==
    /\ conv.pc = "offering"
    /\ Len(buffer) < Cap
    /\ buffer' = Append(buffer, conv.v)
    /\ conv' = [conv EXCEPT !.pc = "ranging"]
    /\ UNCHANGED <<kind, bad, api, control, wire, server, reader, caller, expired>>

\* Variant: the converter does not notice that its input was closed.
ConvertNeverEnds ==
    /\ conv.pc = "ranging" /\ reader.pc = "done"
    /\ UNCHANGED vars

ConvertEnds ==
    /\ conv.pc = "ranging" /\ reader.pc = "done"
    /\ conv' = [conv EXCEPT !.pc = "done"]
    /\ UNCHANGED <<kind, bad, api, control, wire, server, reader, buffer, caller, expired>>

\* The second goroutine of a subscription.
CloseOnDone ==
    /\ kind = "subscribe" /\ api.outcome = "ok"
    /\ expired /\ control = "open"
    /\ control' = "closed"
    /\ UNCHANGED <<kind, bad, api, wire, server, goroutines, expired>>

TakeValue ==
    /\ caller.pc = "reading"
    /\ buffer # <<>>
    /\ caller' = [caller EXCEPT !.got = Append(@, Head(buffer))]
    /\ buffer' = Tail(buffer)
    /\ UNCHANGED <<kind, bad, api, control, wire, server, reader, conv, expired>>

\* The caller finds its channel closed.
TakeEnd ==
    /\ caller.pc = "reading"
    /\ IF kind = "dht" THEN buffer = <<>> /\ conv.pc = "done" ELSE reader.pc = "done"
    /\ caller' = [caller EXCEPT !.pc = "ended"]
    /\ UNCHANGED <<kind, bad, api, control, wire, server, reader, conv, buffer, expired>>

CallerStops ==
    /\ caller.pc = "reading"
    /\ caller' = [caller EXCEPT !.pc = "stopped"]
    /\ UNCHANGED <<kind, bad, api, control, wire, server, reader, conv, buffer, expired>>
-----------------------------------------------------------------------------
(***************************************************************************)
(* The daemon's end, as ControlConn has it.                                *)
(***************************************************************************)
Answer ==
    /\ server.pc = "asked" /\ ~server.gone
    /\ \E a \in {"ok", "error", "other"} :
         /\ wire' = Append(wire, a)
         /\ server' = [server EXCEPT !.pc =
                         IF a = "error" \/ kind = "simple" THEN "done" ELSE "streaming"]
    /\ UNCHANGED <<kind, bad, api, control, goroutines, expired>>

SendValue ==
    /\ server.pc = "streaming" /\ ~server.gone
    /\ control = "open" /\ server.n < MaxValues
    /\ wire' = Append(wire, server.n + 1)
    /\ server' = [server EXCEPT !.n = @ + 1]
    /\ UNCHANGED <<kind, bad, api, control, goroutines, expired>>

\* The query of a dht request is over; a subscription has no end.
SendEnd ==
    /\ server.pc = "streaming" /\ ~server.gone
    /\ control = "open" /\ kind = "dht"
    /\ wire' = Append(wire, END)
    /\ server' = [server EXCEPT !.pc = "done"]
    /\ UNCHANGED <<kind, bad, api, control, goroutines, expired>>

\* The daemon ends or drops the connection; what it wrote can still be read.
ServerGone ==
    /\ ~server.gone
    /\ server' = [server EXCEPT !.gone = TRUE]
    /\ UNCHANGED <<kind, bad, api, control, wire, goroutines, expired>>
-----------------------------------------------------------------------------
ApiStep ==
    Dial \/ WriteRequest \/ ReadFails \/ ReadSimple \/ ReadRefusal \/ ReadBegin

ReaderStep ==
    CheckContext \/ ReadValue \/ ReadValueFails \/ OfferToConverter \/ OfferToCaller

ConvStep == Convert \/ ConvertEnds

\* Nothing is left to do but for the context, the daemon and the caller to go on.
Rest == api.pc = "returned" /\ UNCHANGED vars

Next ==
    \/ ApiStep \/ Expire
    \/ ReaderStep \/ ConvStep \/ CloseOnDone
    \/ TakeValue \/ TakeEnd \/ CallerStops
    \/ Answer \/ SendValue \/ SendEnd \/ ServerGone
    \/ Rest

(***************************************************************************)
(* Goroutines run; a caller that has not stopped takes what is there; the  *)
(* daemon answers, and ends a query (its handler runs under a timeout).    *)
(***************************************************************************)
Fairness ==
    /\ WF_vars(ApiStep) /\ WF_vars(ReaderStep) /\ WF_vars(ConvStep) /\ WF_vars(CloseOnDone)
    /\ WF_vars(TakeValue \/ TakeEnd)
    /\ WF_vars(Answer) /\ WF_vars(SendEnd)

Spec == Init /\ [][Next]_vars /\ Fairness
-----------------------------------------------------------------------------
(***************************************************************************)
(* The values of the program counters; the caller's channel holds its      *)
(* capacity at most.                                                       *)
(***************************************************************************)
Values == 1 .. MaxValues

TypeOK ==
    /\ kind \in {"simple"} \cup streaming /\ bad \in SUBSET Values
    /\ api \in [pc : {"start", "dialed", "reading", "returned"},
                outcome : {"none", "ok", "err"}]
    /\ control \in {"none", "open", "closed"}
    /\ server \in [pc : {"idle", "asked", "streaming", "done"}, n : 0 .. MaxValues,
                   gone : BOOLEAN]
    /\ reader \in [pc : {"none", "checking", "reading", "offering", "done"},
                   v : 0 .. MaxValues]
    /\ conv \in [pc : {"none", "ranging", "offering", "done"}, v : 0 .. MaxValues]
    /\ buffer \in Seq(Values) /\ Len(buffer) <= Cap
    /\ caller \in [pc : {"waiting", "reading", "stopped", "ended"}, got : Seq(Values)]
    /\ expired \in BOOLEAN

\* What is in a channel, or came out of it, and that it is in the daemon's order.
valuesOf(s) == {s[i] : i \in 1 .. Len(s)}
increasing(s) == \A i, j \in 1 .. Len(s) : i < j => s[i] < s[j]

\* s is what the caller is to get out of the first n values: those that parse, in order.
carries(s, n) == increasing(s) /\ valuesOf(s) = (1 .. n) \ bad

(***************************************************************************)
(* The caller gets the values in the order the daemon sent them and, up to *)
(* the last one it got, every one that parses, once.                       *)
(***************************************************************************)
ValuesInOrder ==
    \E n \in 0 .. server.n : carries(caller.got, n)

(***************************************************************************)
(* A channel that is closed before it carried every value was cut short by *)
(* the context or by the loss of the connection.  The caller cannot tell   *)
(* the second from a complete answer: both just close the channel.         *)
(***************************************************************************)
ShortOnlyIfCut ==
    caller.pc = "ended" =>
      \/ kind = "dht" /\ server.pc = "done" /\ carries(caller.got, server.n)
      \/ expired
      \/ server.gone

(***************************************************************************)
(* What holds of a streamed answer at any moment: the caller has a prefix of *)
(* it, and the whole when its channel is closed unless something cut it.   *)
(***************************************************************************)
DeliveryInv == TypeOK /\ ValuesInOrder /\ ShortOnlyIfCut

(***************************************************************************)
(* A call that has returned leaves its connection open only to a reader    *)
(* that is still running.  The exceptions are the error returns of         *)
(* streamRequest and readDhtResponseStream, and the refusal of a           *)
(* subscription, which leave it open for good.                             *)
(***************************************************************************)
OpenForReader ==
    api.pc = "returned" /\ control = "open" =>
      \/ reader.pc \in {"checking", "reading", "offering"}
      \/ api.outcome = "err" /\ kind = "dht"
      \/ api.outcome = "err" /\ kind = "subscribe" /\ server.pc = "done"

(***************************************************************************)
(* The goroutines of a query end when the query does, and those of a       *)
(* subscription when its context is done, and the connection is closed:    *)
(* unless the caller has stopped reading, for nothing else gets a reader   *)
(* out of its send.                                                        *)
(***************************************************************************)
StreamReleased ==
    kind \in streaming /\ api.outcome = "ok" /\ (kind = "subscribe" => expired) ~>
      \/ reader.pc = "done" /\ control = "closed" /\ conv.pc \in {"none", "done"}
      \/ caller.pc = "stopped"

=============================================================================
