-------------------------- MODULE PersistentClient --------------------------
(***************************************************************************)
(* A client's end of its persistent connection                             *)
(* (p2pclient/unary_handlers.go): opening it once, AddUnaryHandler, the    *)
(* loop of run, the futures that carry an answer from run to the caller    *)
(* that waits for it, and the table of unary handlers.  The daemon's end   *)
(* is the part of persistent_stream.go that a client sees: it registers a  *)
(* protocol before it answers, and hands over calls as soon as it has      *)
(* registered it.                                                          *)
(***************************************************************************)
EXTENDS Naturals, Sequences

CONSTANTS
    Adders,     \* calls of AddUnaryHandler; each is also the call id it makes
    Calls,      \* unary calls other peers make, by their ids
    Protos,
    None

ASSUME IdsAssumption == Adders \cap Calls = {} /\ None \notin Adders \cup Calls \cup Protos

Ids == Adders \cup Calls

VARIABLES
    once,       \* openPersistentConn
    conn,       \* the connection
    caller,     \* per adder: its program counter, protocol and the channel it waits on
    inbox,      \* what the daemon wrote and run has not read
    futures,    \* callFutures: the number of the channel stored for an id, 0 for none
    made,       \* the number of channels made for an id
    sender,     \* per id: the goroutine run started for an answer with this id
    handlers,   \* unaryHandlers
    daemon,     \* per adder: the daemon's goroutine for the request
    routed,     \* the protocols the daemon has registered for this connection
    call,       \* per inbound call: the daemon's callback and the client's handler
    died        \* how the client process ended, if it did

vars == <<once, conn, caller, inbox, futures, made, sender, handlers, daemon, routed,
          call, died>>

clientVars == <<once, caller, futures, made, sender, handlers, died>>
daemonVars == <<daemon, routed>>

Init ==
    /\ once = "no"
    /\ conn = "none"
    /\ caller \in [Adders -> [pc : {"idle"}, proto : Protos, chan : {0}]]
    /\ inbox = <<>>
    /\ futures = [id \in Ids |-> 0]
    /\ made = [id \in Ids |-> 0]
    /\ sender = [id \in Ids |-> [pc |-> "none", chan |-> 0, kind |-> "none"]]
    /\ handlers = [p \in Protos |-> None]
    /\ daemon = [a \in Adders |-> "none"]
    /\ routed = {}
    /\ call = [k \in Calls |-> [callback |-> "none", handler |-> "none", proto |-> None]]
    /\ died = "no"
-----------------------------------------------------------------------------
(***************************************************************************)
(* AddUnaryHandler.                                                        *)
(***************************************************************************)
\* getPersistentWriter: the first caller runs the function of the Once, the others
\* wait until it has returned.
EnterOnce(a) ==
    /\ caller[a].pc = "idle"
    /\ \/ /\ once = "no"
          /\ once' = "opening"
          /\ caller' = [caller EXCEPT ![a].pc = "opening"]
       \/ /\ once = "open"
          /\ caller' = [caller EXCEPT ![a].pc = "writing"]
          /\ UNCHANGED once
    /\ UNCHANGED <<conn, inbox, futures, made, sender, handlers, daemonVars, call, died>>

\* The connection is upgraded and run starts.
Open(a) ==
    /\ caller[a].pc = "opening"
    /\ once' = "open"
    /\ conn' = "up"
    /\ caller' = [caller EXCEPT ![a].pc = "writing"]
    /\ UNCHANGED <<inbox, futures, made, sender, handlers, daemonVars, call, died>>

\* No connection, no answer, or not OK: the function panics.
OpenPanics(a) ==
    /\ caller[a].pc = "opening"
    /\ died' = "panic"
    /\ UNCHANGED <<once, conn, caller, inbox, futures, made, sender, handlers, daemonVars,
                   call>>

\* The request is written; an error of the write is ignored.
WriteAdd(a) ==
    /\ caller[a].pc = "writing"
    /\ caller' = [caller EXCEPT ![a].pc = "written"]
    /\ daemon' = IF conn = "up" THEN [daemon EXCEPT ![a] = "received"] ELSE daemon
    /\ UNCHANGED <<once, conn, inbox, futures, made, sender, handlers, routed, call, died>>

\* LoadOrStore on callFutures, with a new channel in hand: the channel it returns, and
\* its effect.
channel(id) == IF futures[id] # 0 THEN futures[id] ELSE made[id] + 1

LoadOrStore(id) ==
    /\ futures' = [futures EXCEPT ![id] = channel(id)]
    /\ made' = [made EXCEPT ![id] = IF futures[id] # 0 THEN @ ELSE @ + 1]

\* Variant: the entry is deleted before the answer is received.
AwaitDeletes(a) ==
    /\ caller[a].pc = "written"
    /\ caller' = [caller EXCEPT ![a].pc = "waiting", ![a].chan = channel(a)]
    /\ futures' = [futures EXCEPT ![a] = 0]
    /\ made' = [made EXCEPT ![a] = IF futures[a] # 0 THEN @ ELSE @ + 1]
    /\ UNCHANGED <<once, conn, inbox, sender, handlers, daemonVars, call, died>>

\* getResponse: find or make the channel of the call,
Await(a) ==
    /\ caller[a].pc = "written"
    /\ LoadOrStore(a)
    /\ caller' = [caller EXCEPT ![a].pc = "waiting", ![a].chan = channel(a)]
    /\ UNCHANGED <<once, conn, inbox, sender, handlers, daemonVars, call, died>>

\* receive from it, and delete the entry.  A daemon error is returned.
getResponse(a) ==
    /\ caller[a].pc = "waiting"
    /\ sender[a].pc = "sending" /\ sender[a].chan = caller[a].chan
    /\ caller' = [caller EXCEPT ![a].pc =
                    IF sender[a].kind = "daemonError" THEN "err" ELSE "storing"]
    /\ sender' = [sender EXCEPT ![a].pc = "sent"]
    /\ futures' = [futures EXCEPT ![a] = 0]
    /\ UNCHANGED <<once, conn, inbox, made, handlers, daemonVars, call, died>>

\* Variant: AddUnaryHandler returns without storing the handler.
StoreForgets(a) ==
    /\ caller[a].pc = "storing"
    /\ caller' = [caller EXCEPT ![a].pc = "ok"]
    /\ UNCHANGED <<once, conn, inbox, futures, made, sender, handlers, daemonVars, call,
                   died>>

Store(a) ==
    /\ caller[a].pc = "storing"
    /\ handlers' = [handlers EXCEPT ![caller[a].proto] = a]
    /\ caller' = [caller EXCEPT ![a].pc = "ok"]
    /\ UNCHANGED <<once, conn, inbox, futures, made, sender, daemonVars, call, died>>
-----------------------------------------------------------------------------
\* A request for a handler: it starts in a goroutine of its own.  A protocol that is not
\* in the table fails the cast, and log.Fatal ends the process.
RunRequest ==
    /\ inbox # <<>>
    /\ Head(inbox).kind = "request"
    /\ LET k == Head(inbox).id
       IN  IF handlers[call[k].proto] = None
           THEN died' = "fatal" /\ UNCHANGED call
           ELSE call' = [call EXCEPT ![k].handler = "running"] /\ UNCHANGED died
    /\ inbox' = Tail(inbox)
    /\ UNCHANGED <<once, conn, caller, futures, made, sender, handlers, daemonVars>>

\* Variant: the switch has no case for a message without a member, the daemon's OK.
RunAnswerNotNil ==
    /\ inbox # <<>>
    /\ Head(inbox).kind # "request"
    /\ sender' = IF Head(inbox).kind = "ok" THEN sender
                 ELSE [sender EXCEPT ![Head(inbox).id].pc = "spawned",
                                     ![Head(inbox).id].kind = Head(inbox).kind]
    /\ inbox' = Tail(inbox)
    /\ UNCHANGED <<once, conn, caller, futures, made, handlers, daemonVars, call, died>>

\* Any other message starts a goroutine that hands it to the future of its id.
RunAnswer ==
    /\ inbox # <<>>
    /\ Head(inbox).kind # "request"
    /\ sender' = [sender EXCEPT ![Head(inbox).id].pc = "spawned",
                                ![Head(inbox).id].kind = Head(inbox).kind]
    /\ inbox' = Tail(inbox)
    /\ UNCHANGED <<once, conn, caller, futures, made, handlers, daemonVars, call, died>>

\* ReadMsg fails on a connection that is down, the empty message has no call id, and
\* run goes on with its loop: it never ends.
RunSpins ==
    /\ conn = "down"
    /\ inbox = <<>>
    /\ UNCHANGED vars

SenderFinds(id) ==
    /\ sender[id].pc = "spawned"
    /\ LoadOrStore(id)
    /\ sender' = [sender EXCEPT ![id].pc = "sending", ![id].chan = channel(id)]
    /\ UNCHANGED <<once, conn, caller, inbox, handlers, daemonVars, call, died>>

\* handle: the handler returns and the answer is written; an error of the write is
\* ignored.  The daemon drops an answer nobody waits for.
Handle(k) ==
    /\ call[k].handler = "running"
    /\ call' = [call EXCEPT ![k].handler = "returned",
                  ![k].callback = IF conn = "up" /\ @ = "waiting" THEN "answered" ELSE @]
    /\ UNCHANGED <<conn, inbox, clientVars, daemonVars>>

\* Client.Close closes the connection; what was not read is lost.
Close ==
    /\ conn = "up"
    /\ conn' = "down"
    /\ inbox' = <<>>
    /\ UNCHANGED <<clientVars, daemonVars, call>>
-----------------------------------------------------------------------------
(***************************************************************************)
(* The daemon.                                                             *)
(***************************************************************************)
\* Variant: a protocol is registered again for every request.
DoAddTwice(a) ==
    /\ daemon[a] = "received"
    /\ daemon' = [daemon EXCEPT ![a] = "registered"]
    /\ routed' = routed \cup {caller[a].proto}
    /\ UNCHANGED <<conn, inbox, clientVars, call>>

doAddUnaryHandler(a) ==
    /\ daemon[a] = "received"
    /\ daemon' = [daemon EXCEPT ![a] =
                    IF caller[a].proto \in routed THEN "refused" ELSE "registered"]
    /\ routed' = routed \cup {caller[a].proto}
    /\ UNCHANGED <<conn, inbox, clientVars, call>>

\* The answer is written after the registration.
AnswerAdd(a) ==
    /\ daemon[a] \in {"registered", "refused"}
    /\ conn = "up"
    /\ inbox' = Append(inbox, [id |-> a, kind |-> IF daemon[a] = "refused"
                                                  THEN "daemonError" ELSE "ok"])
    /\ daemon' = [daemon EXCEPT ![a] = "answered"]
    /\ UNCHANGED <<conn, clientVars, routed, call>>

\* The callback of a registered protocol takes a call and writes RequestHandling.
Route(k) ==
    /\ call[k].callback = "none"
    /\ conn = "up"
    /\ \E p \in routed :
         call' = [call EXCEPT ![k].callback = "waiting", ![k].proto = p]
    /\ inbox' = Append(inbox, [id |-> k, kind |-> "request"])
    /\ UNCHANGED <<conn, clientVars, daemonVars>>

\* The calling peer gives up: the callback writes Cancel.
CancelRouted(k) ==
    /\ call[k].callback = "waiting"
    /\ conn = "up"
    /\ call' = [call EXCEPT ![k].callback = "cancelled"]
    /\ inbox' = Append(inbox, [id |-> k, kind |-> "cancel"])
    /\ UNCHANGED <<conn, clientVars, daemonVars>>

DaemonGone ==
    /\ conn = "up"
    /\ conn' = "down"
    /\ UNCHANGED <<inbox, clientVars, daemonVars, call>>
-----------------------------------------------------------------------------
CallerStep(a) ==
    EnterOnce(a) \/ Open(a) \/ WriteAdd(a) \/ Await(a) \/ getResponse(a) \/ Store(a)

RunStep == RunRequest \/ RunAnswer

DaemonStep(a) == doAddUnaryHandler(a) \/ AnswerAdd(a)

\* A dead process takes no more steps.
Dead == died # "no" /\ UNCHANGED vars

Returned(a) == caller[a].pc \in {"ok", "err"}

\* Every caller has returned and the daemon has nothing to say for now.
Quiet ==
    /\ \A a \in Adders : Returned(a)
    /\ inbox = <<>>
    /\ UNCHANGED vars

Next ==
    \/ /\ died = "no"
       /\ \/ \E a \in Adders : CallerStep(a) \/ OpenPanics(a) \/ DaemonStep(a)
          \/ \E k \in Calls : Handle(k) \/ Route(k) \/ CancelRouted(k)
          \/ \E id \in Ids : SenderFinds(id)
          \/ RunStep \/ RunSpins \/ Close \/ DaemonGone
    \/ Dead \/ Quiet

(***************************************************************************)
(* The Go scheduler runs every runnable goroutine of both processes.       *)
(* Handlers need not return, and nobody has to call.                       *)
(***************************************************************************)
Fairness ==
    /\ \A a \in Adders : /\ WF_vars(died = "no" /\ CallerStep(a))
                         /\ WF_vars(died = "no" /\ DaemonStep(a))
    /\ \A id \in Ids : WF_vars(died = "no" /\ SenderFinds(id))
    /\ WF_vars(died = "no" /\ RunStep)

Spec == Init /\ [][Next]_vars /\ Fairness
-----------------------------------------------------------------------------
CallerStates ==
    [pc : {"idle", "opening", "writing", "written", "waiting", "storing", "ok", "err"},
     proto : Protos, chan : 0 .. 1]

Messages == [id : Ids, kind : {"request", "ok", "daemonError", "cancel"}]

SenderStates ==
    [pc : {"none", "spawned", "sending", "sent"}, chan : 0 .. 1,
     kind : {"none", "ok", "daemonError", "cancel"}]

CallStates ==
    [callback : {"none", "waiting", "answered", "cancelled"},
     handler : {"none", "running", "returned"}, proto : Protos \cup {None}]

(***************************************************************************)
(* The values of the program counters.  Whoever comes first, the caller or *)
(* the goroutine with the answer, one channel is made for an id.           *)
(***************************************************************************)
TypeOK ==
    /\ once \in {"no", "opening", "open"}
    /\ conn \in {"none", "up", "down"}
    /\ caller \in [Adders -> CallerStates]
    /\ inbox \in Seq(Messages)
    /\ futures \in [Ids -> 0 .. 1] /\ made \in [Ids -> 0 .. 1]
    /\ sender \in [Ids -> SenderStates]
    /\ handlers \in [Protos -> Adders \cup {None}]
    /\ daemon \in [Adders -> {"none", "received", "registered", "refused", "answered"}]
    /\ routed \subseteq Protos
    /\ call \in [Calls -> CallStates]
    /\ died \in {"no", "panic", "fatal"}

(***************************************************************************)
(* The only request for a handler that ends the process with log.Fatal is  *)
(* one that overtook its AddUnaryHandler: the daemon has registered the    *)
(* protocol for a caller that has not stored its handler yet.  Once        *)
(* AddUnaryHandler has returned, its protocol can be called.               *)
(***************************************************************************)
FatalOnlyDuringAdd ==
    died = "fatal" =>
      \E a \in Adders :
        /\ caller[a].pc \in {"written", "waiting", "storing"}
        /\ daemon[a] \in {"registered", "answered"}
        /\ handlers[caller[a].proto] = None

(***************************************************************************)
(* When AddUnaryHandler returns nil, the handler it was given is the one   *)
(* that serves the protocol, and stays it: of two callers with the same    *)
(* protocol one gets the daemon's error.                                   *)
(***************************************************************************)
AddedHandlerServes ==
    \A a \in Adders : caller[a].pc = "ok" => handlers[caller[a].proto] = a

(***************************************************************************)
(* A goroutine that holds an answer, and an entry of callFutures, belong   *)
(* to a caller that is on its way to receive it.  The exception is a       *)
(* Cancel for a call this client serves: nobody waits for that, and the    *)
(* goroutine and the entry stay for ever.                                  *)
(***************************************************************************)
LeftoverOnlyOfCancel ==
    /\ \A a \in Adders :
         /\ sender[a].pc = "sending" =>
              \/ caller[a].pc = "written" /\ futures[a] = sender[a].chan
              \/ caller[a].pc = "waiting" /\ caller[a].chan = sender[a].chan
         /\ futures[a] # 0 => caller[a].pc \in {"written", "waiting"}
    /\ \A k \in Calls :
         sender[k].pc = "sending" \/ futures[k] # 0 => call[k].callback = "cancelled"

(***************************************************************************)
(* What holds of callFutures at any moment: one channel for an id, and none *)
(* left over but for cancelled inbound calls.                              *)
(***************************************************************************)
FutureInv == TypeOK /\ LeftoverOnlyOfCancel

(***************************************************************************)
(* AddUnaryHandler returns, unless the connection goes down: run ignores   *)
(* that, and a caller without its answer waits for ever.                   *)
(***************************************************************************)
AddReturns ==
    \A a \in Adders :
      caller[a].pc = "written" ~> Returned(a) \/ conn = "down" \/ died # "no"

=============================================================================
