------------------------------ MODULE UnaryRPC ------------------------------
(***************************************************************************)
(* One unary call from CallUnaryHandler in the calling client, through the *)
(* calling daemon, a libp2p stream and the serving daemon, to the handler  *)
(* in the serving client, and back (p2pclient/unary_handlers.go,           *)
(* persistent_stream.go).                                                  *)
(*                                                                         *)
(* Every message of a persistent connection is served by a goroutine of    *)
(* its own, so that a Cancel can overtake the call it cancels; every call  *)
(* runs two goroutines in each of the calling client, the calling daemon   *)
(* and the serving daemon.  A goroutine's program counter is a field of    *)
(* the record of its process.  A select that finds a case ready picks any  *)
(* ready case; one that finds none parks, and the first event that wakes   *)
(* it decides the case.                                                    *)
(***************************************************************************)
CONSTANT Calls      \* call ids

VARIABLES
    client,     \* per call: CallUnaryHandler and its helper goroutine
    daemon,     \* per call: the calling daemon's goroutines and its cancelUnary entry
    stream,     \* per call: the libp2p stream between the daemons
    remote,     \* per call: the serving daemon's goroutines, its responseWaiters
                \* entry, and the handler in the serving client
    handlerUp,  \* the serving client's persistent connection is up
    callerUp,   \* the calling client's persistent connection is up
    crashed     \* the process that panicked, if any

vars == <<client, daemon, stream, remote, handlerUp, callerUp, crashed>>

\* What a handler returns: a result, an error, or an error with an empty message.
Answers == {"value", "failure", "blank"}

Responses == {"cancel", "error", "nil"} \cup Answers    \* what the daemon answers

\* What CallUnaryHandler returns.  "empty" is an empty result without an error, and
\* "nilnil" the same from ctx.Err() of a live context.
Outcomes == {"value", "empty", "handlerError", "daemonError", "ctxErr", "nilnil", "panic"}

Init ==
    /\ client = [k \in Calls |->
         [pc |-> "idle", helper |-> "none", expired |-> FALSE, outcome |-> "none"]]
    /\ daemon = [k \in Calls |->
         [pc |-> "none", stored |-> FALSE, ctxDone |-> FALSE, resp |-> "none",
          exchange |-> "none", canceller |-> "none", sent |-> "none"]]
    /\ stream = [k \in Calls |-> [data |-> "none", closed |-> FALSE, broken |-> FALSE]]
    /\ remote = [k \in Calls |->
         [pc |-> "none", waiter |-> FALSE, sender |-> "none", exec |-> "none",
          answer |-> "none", cancelled |-> FALSE]]
    /\ handlerUp = TRUE
    /\ callerUp = TRUE
    /\ crashed = "no"

-----------------------------------------------------------------------------
(***************************************************************************)
(* The calling client.                                                     *)
(***************************************************************************)
\* CallUnaryHandler writes the CallUnary message and starts its helper; the daemon's
\* read loop starts a goroutine for the message.  A message that is not written (a nil
\* payload is refused by Marshal, or the connection is lost) is not noticed.
Invoke(k) ==
    /\ client[k].pc = "idle"
    /\ client' = [client EXCEPT ![k].pc = "waiting", ![k].helper = "waiting"]
    /\ \E written \in {b \in BOOLEAN : b => callerUp} :
         daemon' = [daemon EXCEPT ![k].pc = IF written THEN "spawned" ELSE "none"]
    /\ UNCHANGED <<stream, remote, handlerUp, callerUp, crashed>>

\* The context of the call is cancelled or times out, perhaps after the call returned.
Expire(k) ==
    /\ client[k].pc # "idle"
    /\ ~client[k].expired
    /\ client' = [client EXCEPT ![k].expired = TRUE]
    /\ UNCHANGED <<daemon, stream, remote, handlerUp, callerUp, crashed>>

\* The helper takes <-ctx.Done(), writes Cancel, if it can be written, and closes `done'
\* on its way out.
HelperCancels(k) ==
    /\ client[k].helper = "waiting"
    /\ client[k].expired
    /\ client' = [client EXCEPT ![k].helper = "closed"]
    /\ daemon' = [daemon EXCEPT ![k].canceller = IF callerUp THEN "spawned" ELSE "none"]
    /\ UNCHANGED <<stream, remote, handlerUp, callerUp, crashed>>

\* Variant: a daemon error is taken for an empty result.
DeliverIgnoresError(k) ==
    /\ client[k].pc = "waiting"
    /\ daemon[k].sent # "none"
    /\ client' =
         IF daemon[k].sent \in {"value", "blank", "error"}
         THEN [client EXCEPT ![k].pc = "gotResult"]
         ELSE [client EXCEPT ![k].pc = "returned",
                 ![k].outcome = IF daemon[k].sent = "failure" THEN "handlerError"
                                ELSE IF client[k].expired THEN "ctxErr" ELSE "nilnil"]
    /\ UNCHANGED <<daemon, stream, remote, handlerUp, callerUp, crashed>>

\* What CallUnaryHandler makes of an answer without a result.  A Cancel answer is
\* turned into ctx.Err().
failureOf(k) ==
    CASE daemon[k].sent = "error" -> "daemonError"
      [] daemon[k].sent = "failure" -> "handlerError"
      [] daemon[k].sent = "cancel" -> IF client[k].expired THEN "ctxErr" ELSE "nilnil"

\* run hands the daemon's answer to getResponse through the call's future, and
\* CallUnaryHandler returns unless it holds a result; an error is known by its length.
Deliver(k) ==
    /\ client[k].pc = "waiting"
    /\ daemon[k].sent # "none"
    /\ client' = IF daemon[k].sent \in {"value", "blank"}
                 THEN [client EXCEPT ![k].pc = "gotResult"]
                 ELSE [client EXCEPT ![k].pc = "returned", ![k].outcome = failureOf(k)]
    /\ UNCHANGED <<daemon, stream, remote, handlerUp, callerUp, crashed>>

\* The final select: `done' finds the helper waiting, which only a helper that has not
\* been woken by the context does;
FinishValue(k) ==
    /\ client[k].pc = "gotResult"
    /\ client[k].helper = "waiting"
    /\ ~client[k].expired
    /\ client' = [client EXCEPT ![k].pc = "returned", ![k].helper = "closed",
                    ![k].outcome = IF daemon[k].sent = "value" THEN "value" ELSE "empty"]
    /\ UNCHANGED <<daemon, stream, remote, handlerUp, callerUp, crashed>>

\* or the context is done;
FinishExpired(k) ==
    /\ client[k].pc = "gotResult"
    /\ client[k].expired
    /\ client' = [client EXCEPT ![k].pc = "returned", ![k].outcome = "ctxErr"]
    /\ UNCHANGED <<daemon, stream, remote, handlerUp, callerUp, crashed>>

\* or the helper has closed `done': a send on a closed channel panics.
FinishPanics(k) ==
    /\ client[k].pc = "gotResult"
    /\ client[k].helper = "closed"
    /\ client' = [client EXCEPT ![k].pc = "returned", ![k].outcome = "panic"]
    /\ crashed' = "client"
    /\ UNCHANGED <<daemon, stream, remote, handlerUp, callerUp>>

\* The calling client's connection is lost; the daemon's calls go on without it.
CallerDrops ==
    /\ callerUp
    /\ callerUp' = FALSE
    /\ UNCHANGED <<client, daemon, stream, remote, handlerUp, crashed>>

-----------------------------------------------------------------------------
(***************************************************************************)
(* The calling daemon: the goroutine of the CallUnary message, the one of  *)
(* exchangeMessages ("exchange") and the one of the Cancel message.        *)
(***************************************************************************)
\* doUnaryCall returns r: its deferred Close closes the stream.
Returns(k, r) ==
    /\ daemon' = [daemon EXCEPT ![k].pc = "responding", ![k].resp = r]
    /\ stream' = [stream EXCEPT ![k].closed = TRUE]

StoreCancel(k) ==
    /\ daemon[k].pc = "spawned"
    /\ daemon' = [daemon EXCEPT ![k].pc = "opening", ![k].stored = TRUE]
    /\ UNCHANGED <<client, stream, remote, handlerUp, callerUp, crashed>>

\* The peer id does not parse, or host.NewStream fails: no such peer, no such
\* protocol, context cancelled.
NewStreamFails(k) ==
    /\ daemon[k].pc = "opening"
    /\ daemon' = [daemon EXCEPT ![k].pc = "responding", ![k].resp = "error"]
    /\ UNCHANGED <<client, stream, remote, handlerUp, callerUp, crashed>>

\* The stream is open, exchangeMessages has started its goroutine, and the select of
\* doUnaryCall is not reached yet.
NewStream(k) ==
    /\ daemon[k].pc = "opening"
    /\ daemon' = [daemon EXCEPT ![k].pc = "selecting", ![k].exchange = "writing"]
    /\ stream' = [stream EXCEPT ![k].data = "open"]
    /\ UNCHANGED <<client, remote, handlerUp, callerUp, crashed>>

\* The stream carries no more: the calling daemon closed it, or its connection broke.
Cut(k) == stream[k].closed \/ stream[k].broken

\* The exchange goroutine writes the request; it looks at the context before the error.
ExchangeWrite(k) ==
    /\ daemon[k].exchange = "writing"
    /\ \E ok \in {b \in BOOLEAN : b => ~Cut(k)} :
         /\ stream' = IF ok THEN [stream EXCEPT ![k].data = "request"] ELSE stream
         /\ daemon' = [daemon EXCEPT ![k].exchange =
                         IF daemon[k].ctxDone THEN "closed"
                         ELSE IF ok THEN "reading" ELSE "sendErr"]
    /\ UNCHANGED <<client, remote, handlerUp, callerUp, crashed>>

\* Variant: the channel is closed without a value when reading fails.
ReadDoneCloses(k, ok) ==
    /\ daemon' = [daemon EXCEPT ![k].exchange =
                    IF daemon[k].ctxDone \/ ~ok THEN "closed" ELSE "sendResp"]
    /\ UNCHANGED <<client, stream, remote, handlerUp, callerUp, crashed>>

\* It has read the answer, or failed to; the context comes first again.
ReadDone(k, ok) ==
    /\ daemon' = [daemon EXCEPT ![k].exchange =
                    IF daemon[k].ctxDone THEN "closed"
                    ELSE IF ok THEN "sendResp" ELSE "sendErr"]
    /\ UNCHANGED <<client, stream, remote, handlerUp, callerUp, crashed>>

\* The answer is there, or either side has closed the stream, or it is broken (then an
\* answer that has arrived may still be read).
ExchangeRead(k) ==
    /\ daemon[k].exchange = "reading"
    /\ \/ stream[k].data \in Answers /\ ReadDone(k, TRUE)
       \/ (stream[k].data = "eof" \/ Cut(k)) /\ ReadDone(k, FALSE)

\* The connection between the daemons breaks (external): both sides will see it.
StreamBreaks(k) ==
    /\ stream[k].data # "none"
    /\ ~stream[k].broken
    /\ stream' = [stream EXCEPT ![k].broken = TRUE]
    /\ UNCHANGED <<client, daemon, remote, handlerUp, callerUp, crashed>>

\* A result is offered only until the context is done; an error is offered for ever.
ExchangeGivesUp(k) ==
    /\ daemon[k].exchange = "sendResp"
    /\ daemon[k].ctxDone
    /\ daemon' = [daemon EXCEPT ![k].exchange = "closed"]
    /\ UNCHANGED <<client, stream, remote, handlerUp, callerUp, crashed>>

\* doUnaryCall's select: no case is ready.
Park(k) ==
    /\ daemon[k].pc = "selecting"
    /\ daemon[k].exchange \in {"writing", "reading"}
    /\ ~daemon[k].ctxDone
    /\ daemon' = [daemon EXCEPT ![k].pc = "parked"]
    /\ UNCHANGED <<client, stream, remote, handlerUp, callerUp, crashed>>

\* It receives what the exchange goroutine sends;
TakeResponse(k) ==
    /\ daemon[k].pc \in {"selecting", "parked"}
    /\ daemon[k].exchange \in {"sendErr", "sendResp"}
    /\ daemon' = [daemon EXCEPT ![k].pc = "responding", ![k].exchange = "closed",
                    ![k].resp = IF daemon[k].exchange = "sendResp"
                                THEN stream[k].data ELSE "error"]
    /\ stream' = [stream EXCEPT ![k].closed = TRUE]
    /\ UNCHANGED <<client, remote, handlerUp, callerUp, crashed>>

\* or finds the context cancelled;
TakeCancel(k) ==
    /\ daemon[k].pc = "selecting"
    /\ daemon[k].ctxDone
    /\ Returns(k, "cancel")
    /\ UNCHANGED <<client, remote, handlerUp, callerUp, crashed>>

\* or receives nil from the channel the exchange goroutine has closed.
TakeClosed(k) ==
    /\ daemon[k].pc = "selecting"
    /\ daemon[k].exchange = "closed"
    /\ Returns(k, "nil")
    /\ UNCHANGED <<client, remote, handlerUp, callerUp, crashed>>

\* The goroutine of a Cancel message: it calls the cancel function, if there is one.
\* A parked select wakes up with its context case decided.
CancelCall(k) ==
    /\ daemon[k].canceller = "spawned"
    /\ \/ /\ ~daemon[k].stored
          /\ daemon' = [daemon EXCEPT ![k].canceller = "done"]
          /\ UNCHANGED stream
       \/ /\ daemon[k].stored
          /\ daemon[k].pc # "parked"
          /\ daemon' = [daemon EXCEPT ![k].canceller = "done", ![k].ctxDone = TRUE]
          /\ UNCHANGED stream
       \/ /\ daemon[k].stored
          /\ daemon[k].pc = "parked"
          /\ daemon' = [daemon EXCEPT ![k].canceller = "done", ![k].ctxDone = TRUE,
                                      ![k].pc = "responding", ![k].resp = "cancel"]
          /\ stream' = [stream EXCEPT ![k].closed = TRUE]
    /\ UNCHANGED <<client, remote, handlerUp, callerUp, crashed>>

\* The answer is written, if the client can still be written to, and the deferred
\* functions run; marshalling nil panics.
Respond(k) ==
    /\ daemon[k].pc = "responding"
    /\ IF daemon[k].resp = "nil"
       THEN /\ crashed' = "daemon"
            /\ UNCHANGED daemon
       ELSE /\ daemon' = [daemon EXCEPT ![k].pc = "done", ![k].stored = FALSE,
                              ![k].sent = IF callerUp THEN daemon[k].resp ELSE "none",
                              ![k].ctxDone = TRUE]
            /\ UNCHANGED crashed
    /\ UNCHANGED <<client, stream, remote, handlerUp, callerUp>>

-----------------------------------------------------------------------------
(***************************************************************************)
(* The serving daemon: getPersistentStreamHandler's callback, and the      *)
(* goroutine of the handler's UnaryResponse message ("sender").            *)
(***************************************************************************)
\* The callback has read the call and stored its channel in responseWaiters.
Accept(k) ==
    /\ remote[k].pc = "none"
    /\ stream[k].data = "request"
    /\ remote' = [remote EXCEPT ![k].pc = "stored", ![k].waiter = TRUE]
    /\ UNCHANGED <<client, daemon, stream, handlerUp, callerUp, crashed>>

\* It returns before asking the handler: the request cannot be read whole, is no
\* CallUnary, or has a bad call id.
AcceptFails(k) ==
    /\ remote[k].pc = "none"
    /\ stream[k].data = "request" \/ (stream[k].data = "open" /\ Cut(k))
    /\ remote' = [remote EXCEPT ![k].pc = "done"]
    /\ stream' = [stream EXCEPT ![k].data = "eof"]
    /\ UNCHANGED <<client, daemon, handlerUp, callerUp, crashed>>

\* It writes RequestHandling to the serving client, whose run starts the handler; when
\* the client is gone it returns, which deletes the channel and closes the stream.
HandToClient(k) ==
    /\ remote[k].pc = "stored"
    /\ \/ /\ handlerUp
          /\ remote' = [remote EXCEPT ![k].pc = "waiting", ![k].exec = "running"]
          /\ UNCHANGED stream
       \/ /\ ~handlerUp
          /\ remote' = [remote EXCEPT ![k].pc = "done", ![k].waiter = FALSE]
          /\ stream' = [stream EXCEPT ![k].data = "eof"]
    /\ UNCHANGED <<client, daemon, handlerUp, callerUp, crashed>>

\* Variant: the callback takes any wake-up of its reader for a closed stream.
CallerGoneUnasked(k) ==
    /\ remote[k].pc = "waiting"
    /\ remote' = [remote EXCEPT ![k].pc = "done", ![k].waiter = FALSE,
                                ![k].cancelled = handlerUp]
    /\ stream' = [stream EXCEPT ![k].data = "eof"]
    /\ UNCHANGED <<client, daemon, handlerUp, callerUp, crashed>>

\* Variant: Cancel is sent, and the callback goes on waiting for the handler.
CallerGoneWaits(k) ==
    /\ remote[k].pc = "waiting"
    /\ Cut(k)
    /\ remote' = [remote EXCEPT ![k].cancelled = handlerUp]
    /\ UNCHANGED <<client, daemon, stream, handlerUp, callerUp, crashed>>

\* notifyWhenClosed's read failed, the stream being closed or broken: the callback sends
\* Cancel to the serving client (which keeps the handler running) and returns.
CallerGone(k) ==
    /\ remote[k].pc = "waiting"
    /\ Cut(k)
    /\ remote' = [remote EXCEPT ![k].pc = "done", ![k].waiter = FALSE,
                                ![k].cancelled = handlerUp]
    /\ stream' = [stream EXCEPT ![k].data = "eof"]
    /\ UNCHANGED <<client, daemon, handlerUp, callerUp, crashed>>

\* The handler returns and its answer is written to the serving daemon.
HandlerReturns(k) ==
    /\ handlerUp
    /\ remote[k].exec = "running"
    /\ \E a \in Answers :
         remote' = [remote EXCEPT ![k].exec = "finished", ![k].answer = a,
                                  ![k].sender = "spawned"]
    /\ UNCHANGED <<client, daemon, stream, handlerUp, callerUp, crashed>>

\* Variant: a sender that finds the channel looks again.
SendRetries(k) ==
    /\ remote[k].sender = "spawned"
    /\ remote' = [remote EXCEPT ![k].sender =
                    IF remote[k].waiter THEN "spawned" ELSE "dropped"]
    /\ UNCHANGED <<client, daemon, stream, handlerUp, callerUp, crashed>>

\* sendReponseToRemote looks the channel up; when it is there it sends without a way out.
sendReponseToRemote(k) ==
    /\ remote[k].sender = "spawned"
    /\ remote' = [remote EXCEPT ![k].sender =
                    IF remote[k].waiter THEN "blocked" ELSE "dropped"]
    /\ UNCHANGED <<client, daemon, stream, handlerUp, callerUp, crashed>>

ReceiveAnswer(k) ==
    /\ remote[k].pc = "waiting"
    /\ remote[k].sender = "blocked"
    /\ remote' = [remote EXCEPT ![k].pc = "answering", ![k].sender = "sent"]
    /\ UNCHANGED <<client, daemon, stream, handlerUp, callerUp, crashed>>

\* Variant: a handler's error is written as an empty result.
WriteErrorAsValue(k) ==
    /\ remote[k].pc = "answering"
    /\ remote' = [remote EXCEPT ![k].pc = "done", ![k].waiter = FALSE]
    /\ stream' = [stream EXCEPT ![k].data = "value"]
    /\ UNCHANGED <<client, daemon, handlerUp, callerUp, crashed>>

\* The answer is written to the stream, unless that carries nothing any more.
WriteAnswer(k) ==
    /\ remote[k].pc = "answering"
    /\ remote' = [remote EXCEPT ![k].pc = "done", ![k].waiter = FALSE]
    /\ stream' = [stream EXCEPT ![k].data =
                    IF Cut(k) THEN "eof" ELSE remote[k].answer]
    /\ UNCHANGED <<client, daemon, handlerUp, callerUp, crashed>>

HandlerLeaves ==
    /\ handlerUp
    /\ handlerUp' = FALSE
    /\ UNCHANGED <<client, daemon, stream, remote, callerUp, crashed>>

-----------------------------------------------------------------------------
FinishStep(k) == FinishValue(k) \/ FinishExpired(k) \/ FinishPanics(k)

ClientStep(k) == HelperCancels(k) \/ Deliver(k) \/ FinishStep(k)

CallStep(k) ==
    \/ StoreCancel(k) \/ NewStream(k) \/ NewStreamFails(k) \/ Park(k)
    \/ TakeResponse(k) \/ TakeCancel(k) \/ TakeClosed(k) \/ Respond(k)

ExchangeStep(k) == ExchangeWrite(k) \/ ExchangeRead(k) \/ ExchangeGivesUp(k)

CallbackStep(k) ==
    \/ Accept(k) \/ AcceptFails(k) \/ HandToClient(k) \/ CallerGone(k)
    \/ ReceiveAnswer(k) \/ WriteAnswer(k)

Finished == crashed # "no" \/ \A k \in Calls : client[k].pc = "returned"

\* Everything has returned, or a process is dead.
Idle == Finished /\ UNCHANGED vars

Next ==
    \/ /\ crashed = "no"
       /\ \/ \E k \in Calls :
               \/ Invoke(k) \/ Expire(k)
               \/ ClientStep(k) \/ CallStep(k) \/ ExchangeStep(k) \/ CancelCall(k)
               \/ StreamBreaks(k)
               \/ CallbackStep(k) \/ HandlerReturns(k) \/ sendReponseToRemote(k)
          \/ HandlerLeaves \/ CallerDrops
    \/ Idle

Spec == Init /\ [][Next]_vars

(***************************************************************************)
(* The Go scheduler runs every runnable goroutine, and a handler returns   *)
(* while its client is there.  Nothing makes a context expire, and an      *)
(* answer need not arrive over a connection that is lost.                  *)
(***************************************************************************)
Live(A) == crashed = "no" /\ A

Fairness ==
    \A k \in Calls :
      /\ WF_vars(Live(HelperCancels(k)))
      /\ WF_vars(Live(callerUp /\ Deliver(k)))
      /\ WF_vars(Live(FinishStep(k)))
      /\ WF_vars(Live(CallStep(k)))
      /\ WF_vars(Live(ExchangeStep(k)))
      /\ WF_vars(Live(CancelCall(k)))
      /\ WF_vars(Live(CallbackStep(k)))
      /\ WF_vars(Live(HandlerReturns(k)))
      /\ WF_vars(Live(sendReponseToRemote(k)))

FairSpec == Spec /\ Fairness
-----------------------------------------------------------------------------
ClientStates ==
    [pc : {"idle", "waiting", "gotResult", "returned"},
     helper : {"none", "waiting", "closed"}, expired : BOOLEAN,
     outcome : Outcomes \cup {"none"}]

DaemonStates ==
    [pc : {"none", "spawned", "opening", "selecting", "parked", "responding", "done"},
     stored : BOOLEAN, ctxDone : BOOLEAN, resp : Responses \cup {"none"},
     exchange : {"none", "writing", "reading", "sendErr", "sendResp", "closed"},
     canceller : {"none", "spawned", "done"}, sent : Responses \cup {"none"}]

StreamStates ==
    [data : {"none", "open", "request", "eof"} \cup Answers,
     closed : BOOLEAN, broken : BOOLEAN]

RemoteStates ==
    [pc : {"none", "stored", "waiting", "answering", "done"}, waiter : BOOLEAN,
     sender : {"none", "spawned", "blocked", "sent", "dropped"},
     exec : {"none", "running", "finished"}, answer : Answers \cup {"none"},
     cancelled : BOOLEAN]

(***************************************************************************)
(* The values of the program counters and of what travels; the daemon      *)
(* answers a call with one of Responses only.                              *)
(***************************************************************************)
TypeOK ==
    /\ client \in [Calls -> ClientStates]
    /\ daemon \in [Calls -> DaemonStates]
    /\ stream \in [Calls -> StreamStates]
    /\ remote \in [Calls -> RemoteStates]
    /\ handlerUp \in BOOLEAN
    /\ callerUp \in BOOLEAN
    /\ crashed \in {"no", "client", "daemon"}

(***************************************************************************)
(* CallUnaryHandler returns what the handler answered: a result only when  *)
(* the handler returned one, a handler error only when it returned an      *)
(* error, whatever was cancelled, broken or closed on the way.  Only an    *)
(* error with an empty message looks like a success.                       *)
(***************************************************************************)
AnswerFaithful ==
    \A k \in Calls :
      /\ client[k].outcome = "value" => remote[k].answer = "value"
      /\ client[k].outcome = "handlerError" => remote[k].answer = "failure"
      /\ client[k].outcome = "empty" => remote[k].answer = "blank"

(***************************************************************************)
(* A call is reported as cancelled only when its context is done; it never *)
(* returns (nil, nil), which is what ctx.Err() of a live context would     *)
(* make of the daemon's Cancel answer.                                     *)
(***************************************************************************)
CancelledOnlyIfExpired ==
    \A k \in Calls :
      /\ client[k].outcome = "ctxErr" => client[k].expired
      /\ client[k].outcome # "nilnil"

(***************************************************************************)
(* Which goroutines a call can leave behind, and when.  The serving        *)
(* daemon's sender stays blocked with no receiver only after the stream    *)
(* was closed by the calling daemon or broke; the exchange goroutine keeps *)
(* offering its error to nobody only after the call was cancelled; the     *)
(* client's helper outlives a call whose context is not done only when the *)
(* call returned an error of the daemon or of the handler.                 *)
(***************************************************************************)
StrandedOnlyIfCut ==
    \A k \in Calls :
      /\ remote[k].sender = "blocked" /\ remote[k].pc = "done" => Cut(k)
      /\ daemon[k].exchange = "sendErr" /\ daemon[k].pc \in {"responding", "done"} =>
           daemon[k].resp = "cancel"
      /\ client[k].pc = "returned" /\ client[k].helper # "closed" /\ ~client[k].expired =>
           client[k].outcome \in {"daemonError", "handlerError"}

(***************************************************************************)
(* What holds of every call at any moment: its goroutines are where the    *)
(* program counters say, it is not reported as cancelled unless its        *)
(* context is done, and a goroutine of it is left behind only in the three *)
(* cases StrandedOnlyIfCut names.                                          *)
(***************************************************************************)
CallInv == TypeOK /\ CancelledOnlyIfExpired /\ StrandedOnlyIfCut

\* The CallUnary message reached the calling daemon.
Written(k) == daemon[k].pc # "none"

(***************************************************************************)
(* Every call whose CallUnary message was written returns, cancelled or    *)
(* not, unless the calling client's connection is lost, the serving client *)
(* leaves before its handler has answered, or a process has crashed.  A    *)
(* call whose message was not written is not noticed and waits for ever    *)
(* (unary_handlers.go:177 drops WriteMsg's error).                         *)
(***************************************************************************)
EveryCallReturns ==
    \A k \in Calls :
      client[k].pc = "waiting" /\ Written(k) ~>
        \/ client[k].pc = "returned"
        \/ ~callerUp
        \/ remote[k].exec = "running" /\ ~handlerUp
        \/ crashed # "no"

(***************************************************************************)
(* When the calling daemon gives a call up, or the connection between the  *)
(* daemons breaks, the serving daemon stops waiting for its handler, and   *)
(* with it the entry in responseWaiters goes.                              *)
(***************************************************************************)
ServerReleased ==
    \A k \in Calls :
      Cut(k) /\ remote[k].pc # "none" ~>
        (remote[k].pc = "done" /\ ~remote[k].waiter) \/ crashed # "no"

(***************************************************************************)
(* Two races can end a process: the calling client sends on the channel    *)
(* its helper has closed, and the calling daemon marshals the nil it       *)
(* received from a closed channel.  Both need a call whose context is      *)
(* done; the daemon's, one whose Cancel it has served.                     *)
(***************************************************************************)
CrashOnlyIfExpired ==
    /\ crashed # "no" => \E k \in Calls : client[k].expired
    /\ \A k \in Calls :
         daemon[k].resp = "nil" => client[k].expired /\ daemon[k].canceller = "done"

(***************************************************************************)
(* TestCancellation: a call whose context expires returns (if its message  *)
(* was written and its connection stays up).                               *)
(***************************************************************************)
ExpiredCallReturns ==
    \A k \in Calls :
      client[k].expired /\ Written(k) ~>
        client[k].pc = "returned" \/ ~callerUp \/ crashed # "no"

(***************************************************************************)
(* End to end, the two clients and two daemons implement UnaryService.     *)
(***************************************************************************)
Service == INSTANCE UnaryService
             WITH phase <- [k \in Calls |->
                    IF client[k].pc \in {"waiting", "gotResult"} THEN "invoked"
                    ELSE client[k].pc],
                  expired <- [k \in Calls |-> client[k].expired],
                  outcome <- [k \in Calls |-> client[k].outcome],
                  exec <- [k \in Calls |-> remote[k].exec],
                  answer <- [k \in Calls |-> remote[k].answer]

ServiceSpec == Service!Spec
=============================================================================
