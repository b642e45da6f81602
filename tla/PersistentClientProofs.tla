----------------------- MODULE PersistentClientProofs -----------------------
(***************************************************************************)
(* The safety properties of PersistentClient, proved for any number of     *)
(* callers of AddUnaryHandler, inbound calls and protocols.                *)
(***************************************************************************)
EXTENDS PersistentClient, TLAPS

(***************************************************************************)
(* What the daemon wrote and run has not read: at most one answer for an   *)
(* AddUnaryHandler and one Cancel for an inbound call, each before run     *)
(* has started a goroutine for it.                                         *)
(***************************************************************************)
InboxAnswers ==
    \A i \in 1 .. Len(inbox) :
      /\ inbox[i].id \in Adders =>
           /\ inbox[i].kind \in {"ok", "daemonError"}
           /\ daemon[inbox[i].id] = "answered"
           /\ sender[inbox[i].id].pc = "none"
      /\ inbox[i].id \in Calls =>
           /\ inbox[i].kind \in {"request", "cancel"}
           /\ call[inbox[i].id].callback # "none"
           /\ inbox[i].kind = "cancel" => /\ call[inbox[i].id].callback = "cancelled"
                                          /\ sender[inbox[i].id].pc = "none"

InboxUnique ==
    \A i, j \in 1 .. Len(inbox) :
      inbox[i].id = inbox[j].id /\ inbox[i].kind # "request" /\ inbox[j].kind # "request"
        => i = j

(***************************************************************************)
(* The one channel of an AddUnaryHandler: it is made by whoever comes      *)
(* first, the caller or the goroutine with the answer, stays in            *)
(* callFutures until the caller has received from it, and is not made      *)
(* again.                                                                  *)
(***************************************************************************)
AdderOK(a) ==
    /\ caller[a].pc \in {"idle", "opening", "writing"} => daemon[a] = "none"
    /\ daemon[a] # "answered" => sender[a].pc = "none"
    /\ sender[a].pc = "none" <=> sender[a].kind = "none"
    /\ sender[a].pc # "none" => sender[a].kind \in {"ok", "daemonError"}
    /\ sender[a].pc \in {"none", "spawned"} =>
         /\ futures[a] = made[a]
         /\ made[a] = 1 <=> caller[a].pc = "waiting"
         /\ caller[a].pc \notin {"storing", "ok", "err"}
    /\ sender[a].pc = "sending" =>
         /\ futures[a] = 1 /\ made[a] = 1 /\ sender[a].chan = 1
         /\ caller[a].pc \in {"written", "waiting"}
    /\ sender[a].pc = "sent" =>
         /\ futures[a] = 0 /\ made[a] = 1
         /\ caller[a].pc \in {"storing", "ok", "err"}
    /\ caller[a].pc = "waiting" => futures[a] = 1 /\ caller[a].chan = 1
    /\ caller[a].pc \in {"storing", "ok"} => sender[a].kind = "ok"
    /\ caller[a].pc = "err" => sender[a].kind = "daemonError"

(***************************************************************************)
(* The channel of an inbound call is made for its Cancel only.             *)
(***************************************************************************)
CallOK(k) ==
    /\ sender[k].pc \in {"none", "spawned", "sending"}
    /\ sender[k].pc # "none" => call[k].callback = "cancelled"
    /\ futures[k] = made[k]
    /\ futures[k] = 1 <=> sender[k].pc = "sending"
    /\ call[k].callback # "none" => call[k].proto \in routed

(***************************************************************************)
(* The daemon has told, or will tell, caller a that its protocol is        *)
(* registered; and it has not told it the contrary.                        *)
(***************************************************************************)
InInbox(a, kind) == \E i \in 1 .. Len(inbox) : inbox[i].id = a /\ inbox[i].kind = kind

Won(a) == daemon[a] = "registered" \/ InInbox(a, "ok") \/ sender[a].kind = "ok"

NotRefused(a) ==
    /\ daemon[a] \in {"registered", "answered"}
    /\ ~InInbox(a, "daemonError")
    /\ sender[a].kind # "daemonError"

(***************************************************************************)
(* A protocol is won by one caller; a registered one was registered for a  *)
(* caller that is not told otherwise.                                      *)
(***************************************************************************)
WinnerUnique ==
    /\ \A a \in Adders : Won(a) => caller[a].proto \in routed
    /\ \A a, b \in Adders : Won(a) /\ Won(b) /\ caller[a].proto = caller[b].proto => a = b

RoutedHasOwner ==
    \A p \in routed : \E a \in Adders : caller[a].proto = p /\ NotRefused(a)

IndInv ==
    /\ TypeOK
    /\ InboxAnswers /\ InboxUnique
    /\ \A a \in Adders : AdderOK(a)
    /\ \A k \in Calls : CallOK(k)
    /\ WinnerUnique /\ RoutedHasOwner
    /\ AddedHandlerServes /\ FatalOnlyDuringAdd

-----------------------------------------------------------------------------
(***************************************************************************)
(* What run leaves of the inbox when it takes the first message.           *)
(***************************************************************************)
LEMMA TailFacts ==
    ASSUME NEW M, NEW s \in Seq(M), s # <<>>
    PROVE  /\ Head(s) = s[1] /\ 1 \in 1 .. Len(s) /\ Head(s) \in M
           /\ Tail(s) \in Seq(M)
           /\ Len(Tail(s)) = Len(s) - 1
           /\ \A i \in 1 .. Len(Tail(s)) : i + 1 \in 1 .. Len(s) /\ Tail(s)[i] = s[i + 1]
OBVIOUS

(***************************************************************************)
(* What the daemon's next message makes of the inbox.                      *)
(***************************************************************************)
LEMMA AppendFacts ==
    ASSUME NEW M, NEW s \in Seq(M), NEW m \in M
    PROVE  /\ Append(s, m) \in Seq(M)
           /\ Len(Append(s, m)) = Len(s) + 1
           /\ Append(s, m)[Len(s) + 1] = m
           /\ \A i \in 1 .. Len(s) : Append(s, m)[i] = s[i]
           /\ \A i \in 1 .. Len(s) + 1 : i \in 1 .. Len(s) \/ i = Len(s) + 1
OBVIOUS

(***************************************************************************)
(* The message run reads next; a request is for an inbound call.           *)
(***************************************************************************)
LEMMA HeadFacts ==
    ASSUME IndInv, inbox # <<>>
    PROVE  /\ Head(inbox) = inbox[1] /\ 1 \in 1 .. Len(inbox)
           /\ Head(inbox) \in Messages /\ Head(inbox).id \in Ids
           /\ Head(inbox).kind = "request" => Head(inbox).id \in Calls
<1>1. Head(inbox) = inbox[1] /\ 1 \in 1 .. Len(inbox) /\ Head(inbox) \in Messages
  BY TailFacts DEF IndInv, TypeOK
<1>2. Head(inbox).id \in Ids BY <1>1 DEF Messages
<1> QED BY <1>1, <1>2 DEF IndInv, InboxAnswers, Ids

(***************************************************************************)
(* Every step keeps the types; no second channel is made for an id.        *)
(***************************************************************************)
LEMMA TypeStep == IndInv /\ [Next]_vars => TypeOK'
<1> SUFFICES ASSUME IndInv, [Next]_vars PROVE TypeOK'
    OBVIOUS
<1>a. \A a \in Adders : caller[a] \in CallerStates /\ a \in Ids
  BY DEF IndInv, TypeOK, Ids
<1>s. \A id \in Ids : sender[id] \in SenderStates
  BY DEF IndInv, TypeOK
<1>k. \A k \in Calls : call[k] \in CallStates /\ k \in Ids
  BY DEF IndInv, TypeOK, Ids
<1>1. ASSUME NEW a \in Adders, EnterOnce(a) \/ Open(a) \/ WriteAdd(a) PROVE TypeOK'
  <2>1. \A pc \in {"opening", "writing", "written"} :
          [caller[a] EXCEPT !.pc = pc] \in CallerStates
    BY <1>a DEF CallerStates
  <2>2. caller' \in [Adders -> CallerStates]
    BY <1>1, <2>1 DEF EnterOnce, Open, WriteAdd, IndInv, TypeOK
  <2> QED BY <1>1, <2>2 DEF EnterOnce, Open, WriteAdd, IndInv, TypeOK, daemonVars
<1>2. ASSUME NEW a \in Adders, OpenPanics(a) PROVE TypeOK'
  BY <1>2 DEF OpenPanics, IndInv, TypeOK, daemonVars
<1>3. ASSUME NEW a \in Adders, Await(a) PROVE TypeOK'
  <2>1. channel(a) = 1 /\ made[a] + (1 - futures[a]) = 1
    BY <1>3, <1>a DEF Await, IndInv, AdderOK, TypeOK, SenderStates, channel
  <2>2. [caller[a] EXCEPT !.pc = "waiting", !.chan = 1] \in CallerStates
    <3>1. ASSUME NEW n \in 0 .. 1
          PROVE  [caller[a] EXCEPT !.pc = "waiting", !.chan = n] \in CallerStates
      BY <1>a, Zenon DEF CallerStates
    <3> QED BY <3>1
  <2> QED BY <1>3, <1>a, <2>1, <2>2 DEF Await, LoadOrStore, IndInv, TypeOK, daemonVars
<1>4. ASSUME NEW a \in Adders, getResponse(a) PROVE TypeOK'
  <2>1. \A pc \in {"err", "storing"} : [caller[a] EXCEPT !.pc = pc] \in CallerStates
    BY <1>a DEF CallerStates
  <2>2. [sender[a] EXCEPT !.pc = "sent"] \in SenderStates
    BY <1>a, <1>s DEF SenderStates
  <2>3. caller' \in [Adders -> CallerStates]
    BY <1>4, <2>1 DEF getResponse, IndInv, TypeOK
  <2>4. sender' \in [Ids -> SenderStates] /\ futures' \in [Ids -> 0 .. 1]
    BY <1>4, <1>a, <2>2 DEF getResponse, IndInv, TypeOK
  <2> QED BY <1>4, <2>3, <2>4 DEF getResponse, IndInv, TypeOK, daemonVars
<1>5. ASSUME NEW a \in Adders, Store(a) PROVE TypeOK'
  <2>1. [caller[a] EXCEPT !.pc = "ok"] \in CallerStates /\ caller[a].proto \in Protos
    BY <1>a DEF CallerStates
  <2> QED BY <1>5, <2>1 DEF Store, IndInv, TypeOK, daemonVars
<1>6. CASE RunRequest
  <2>1. inbox' \in Seq(Messages) BY <1>6, TailFacts DEF RunRequest, IndInv, TypeOK
  <2>2. \A k \in Calls : [call[k] EXCEPT !.handler = "running"] \in CallStates
    BY <1>k DEF CallStates
  <2>3. Head(inbox).id \in Calls
    BY <1>6, HeadFacts DEF RunRequest
  <2> QED BY <1>6, <2>1, <2>2, <2>3 DEF RunRequest, IndInv, TypeOK, daemonVars
<1>7. CASE RunAnswer
  <2>1. inbox' \in Seq(Messages) /\ Head(inbox) \in Messages
    BY <1>7, TailFacts DEF RunAnswer, IndInv, TypeOK
  <2>2. Head(inbox).id \in Ids /\ Head(inbox).kind \in {"ok", "daemonError", "cancel"}
    BY <1>7, <2>1 DEF RunAnswer, Messages
  <2>3. [sender[Head(inbox).id] EXCEPT !.pc = "spawned", !.kind = Head(inbox).kind]
          \in SenderStates
    BY <1>s, <2>2 DEF SenderStates
  <2> QED BY <1>7, <2>1, <2>2, <2>3 DEF RunAnswer, IndInv, TypeOK, daemonVars
<1>8. ASSUME NEW id \in Ids, SenderFinds(id) PROVE TypeOK'
  <2>1. channel(id) = 1 /\ futures[id] = made[id]
    BY <1>8 DEF SenderFinds, IndInv, AdderOK, CallOK, TypeOK, channel, Ids
  <2>2. [sender[id] EXCEPT !.pc = "sending", !.chan = 1] \in SenderStates
    <3>1. ASSUME NEW n \in 0 .. 1
          PROVE  [sender[id] EXCEPT !.pc = "sending", !.chan = n] \in SenderStates
      BY <1>s, Zenon DEF SenderStates
    <3> QED BY <3>1
  <2> QED BY <1>8, <2>1, <2>2 DEF SenderFinds, LoadOrStore, IndInv, TypeOK, daemonVars
<1>9. ASSUME NEW k \in Calls, Handle(k) PROVE TypeOK'
  <2>1. [call[k] EXCEPT !.handler = "returned",
           !.callback = IF conn = "up" /\ @ = "waiting" THEN "answered" ELSE @]
          \in CallStates
    BY <1>k DEF CallStates
  <2> QED BY <1>9, <2>1 DEF Handle, IndInv, TypeOK, clientVars, daemonVars
<1>10. CASE Close \/ DaemonGone
  <2>1. <<>> \in Seq(Messages) OBVIOUS
  <2>2. inbox' \in Seq(Messages)
    BY <1>10, <2>1 DEF Close, DaemonGone, IndInv, TypeOK
  <2> QED BY <1>10, <2>2 DEF Close, DaemonGone, IndInv, TypeOK, clientVars, daemonVars
<1>11. ASSUME NEW a \in Adders, doAddUnaryHandler(a) PROVE TypeOK'
  <2>1. caller[a].proto \in Protos BY <1>a DEF CallerStates
  <2> QED BY <1>11, <2>1 DEF doAddUnaryHandler, IndInv, TypeOK, clientVars
<1>12. ASSUME NEW a \in Adders, AnswerAdd(a) PROVE TypeOK'
  <2>1. [id |-> a, kind |-> IF daemon[a] = "refused" THEN "daemonError" ELSE "ok"]
          \in Messages
    BY <1>a DEF Messages
  <2>2. inbox' \in Seq(Messages)
    BY <1>12, <2>1, AppendFacts DEF AnswerAdd, IndInv, TypeOK
  <2> QED BY <1>12, <2>2 DEF AnswerAdd, IndInv, TypeOK, clientVars
<1>13. ASSUME NEW k \in Calls, Route(k) \/ CancelRouted(k) PROVE TypeOK'
  <2>1. \A kind \in {"request", "cancel"} : [id |-> k, kind |-> kind] \in Messages
    BY <1>k DEF Messages
  <2>2. inbox' \in Seq(Messages)
    <3>1. \E m \in Messages : inbox' = Append(inbox, m)
      BY <1>13, <2>1 DEF Route, CancelRouted
    <3> QED BY <3>1, AppendFacts DEF IndInv, TypeOK
  <2>3. /\ \A p \in Protos :
             [call[k] EXCEPT !.callback = "waiting", !.proto = p] \in CallStates
        /\ [call[k] EXCEPT !.callback = "cancelled"] \in CallStates
    BY <1>k DEF CallStates
  <2>4. call' \in [Calls -> CallStates]
    <3>1. CASE Route(k)
      <4>1. PICK p \in Protos :
              call' = [call EXCEPT ![k].callback = "waiting", ![k].proto = p]
        BY <3>1 DEF Route, IndInv, TypeOK
      <4> QED BY <2>3, <4>1 DEF IndInv, TypeOK
    <3>2. CASE CancelRouted(k)
      BY <2>3, <3>2 DEF CancelRouted, IndInv, TypeOK
    <3> QED BY <1>13, <3>1, <3>2
  <2> QED BY <1>13, <2>2, <2>4
          DEF Route, CancelRouted, IndInv, TypeOK, clientVars, daemonVars
<1>14. CASE UNCHANGED vars
  BY <1>14 DEF vars, IndInv, TypeOK
<1> QED BY <1>1, <1>2, <1>3, <1>4, <1>5, <1>6, <1>7, <1>8, <1>9, <1>10, <1>11, <1>12,
           <1>13, <1>14
        DEF Next, CallerStep, DaemonStep, RunStep, RunSpins, Dead, Quiet

(***************************************************************************)
(* The protocol an AddUnaryHandler was called with does not change.        *)
(***************************************************************************)
LEMMA ProtoKept ==
    ASSUME IndInv, [Next]_vars
    PROVE  \A a \in Adders : caller'[a].proto = caller[a].proto
<1>1. ASSUME NEW a \in Adders, CallerStep(a)
      PROVE  \A b \in Adders : caller'[b].proto = caller[b].proto
  <2> USE DEF IndInv, TypeOK, CallerStates
  <2>1. CASE EnterOnce(a) \/ Open(a) \/ WriteAdd(a)
    <3>1. \E pc \in {"opening", "writing", "written"} :
            caller' = [caller EXCEPT ![a].pc = pc]
      BY <2>1 DEF EnterOnce, Open, WriteAdd
    <3> QED BY <3>1
  <2>2. CASE Await(a) BY <2>2 DEF Await
  <2>3. CASE getResponse(a) BY <2>3 DEF getResponse
  <2>4. CASE Store(a) BY <2>4 DEF Store
  <2> QED BY <1>1, <2>1, <2>2, <2>3, <2>4 DEF CallerStep
<1>2. CASE UNCHANGED caller
  BY <1>2
<1> QED BY <1>1, <1>2
        DEF Next, DaemonStep, RunStep, OpenPanics, RunRequest, RunAnswer, RunSpins,
            SenderFinds, Handle, Close, DaemonGone, doAddUnaryHandler, AnswerAdd, Route,
            CancelRouted, Dead, Quiet, vars, clientVars

(***************************************************************************)
(* Every step keeps what is known of the channel of an AddUnaryHandler.    *)
(***************************************************************************)
LEMMA AdderStep == ASSUME IndInv, [Next]_vars, NEW b \in Adders PROVE AdderOK(b)'
<1> USE DEF IndInv, TypeOK, AdderOK, CallerStates, SenderStates
<1>b. b \in Ids /\ AdderOK(b) BY DEF Ids
<1>1. ASSUME NEW a \in Adders, EnterOnce(a) \/ Open(a) PROVE AdderOK(b)'
  <2>1. /\ caller[a].pc \in {"idle", "opening"}
        /\ \E pc \in {"opening", "writing"} : caller' = [caller EXCEPT ![a].pc = pc]
        /\ UNCHANGED <<daemon, sender, futures, made>>
    BY <1>1 DEF EnterOnce, Open, daemonVars
  <2>2. CASE a = b BY <1>b, <2>1, <2>2
  <2>3. CASE a # b
    <3>1. caller'[b] = caller[b] BY <2>1, <2>3
    <3> QED BY <1>b, <2>1, <3>1
  <2> QED BY <2>2, <2>3
<1>2. ASSUME NEW a \in Adders, WriteAdd(a) PROVE AdderOK(b)'
  BY <1>b, <1>2 DEF WriteAdd, daemonVars
<1>3. ASSUME NEW a \in Adders, Await(a) PROVE AdderOK(b)'
  BY <1>b, <1>3 DEF Await, LoadOrStore, channel, daemonVars
<1>4. ASSUME NEW a \in Adders, getResponse(a) PROVE AdderOK(b)'
  BY <1>b, <1>4 DEF getResponse, daemonVars
<1>5. ASSUME NEW a \in Adders, Store(a) PROVE AdderOK(b)'
  BY <1>b, <1>5 DEF Store, daemonVars
<1>6. CASE RunAnswer
  <2> DEFINE h == Head(inbox)
  <2>a. sender \in [Ids -> SenderStates] /\ InboxAnswers
    OBVIOUS
  <2> HIDE DEF IndInv, TypeOK, AdderOK, CallerStates, SenderStates
  <2>1. /\ h.id \in Ids
        /\ sender' = [sender EXCEPT ![h.id].pc = "spawned", ![h.id].kind = h.kind]
        /\ UNCHANGED <<caller, daemon, futures, made>>
    BY <1>6, HeadFacts DEF RunAnswer, daemonVars
  <2>2. CASE h.id = b
    <3>1. h.kind \in {"ok", "daemonError"} /\ daemon[b] = "answered" /\ sender[b].pc = "none"
      BY <1>6, <1>b, <2>a, <2>2, HeadFacts DEF RunAnswer, InboxAnswers
    <3>2. sender'[b] = [sender[b] EXCEPT !.pc = "spawned", !.kind = h.kind]
      BY <1>b, <2>a, <2>1, <2>2
    <3>3. sender'[b].pc = "spawned" /\ sender'[b].kind = h.kind
      BY <1>b, <2>a, <3>2 DEF SenderStates
    <3> QED BY <1>b, <2>1, <3>1, <3>3 DEF AdderOK
  <2>3. CASE h.id # b
    <3>1. sender'[b] = sender[b] BY <1>b, <2>a, <2>1, <2>3
    <3> QED BY <1>b, <2>1, <3>1 DEF AdderOK
  <2> QED BY <2>2, <2>3
<1>7. ASSUME NEW id \in Ids, SenderFinds(id) PROVE AdderOK(b)'
  BY <1>b, <1>7 DEF SenderFinds, LoadOrStore, channel, daemonVars
<1>8. ASSUME NEW a \in Adders, doAddUnaryHandler(a) PROVE AdderOK(b)'
  BY <1>b, <1>8 DEF doAddUnaryHandler, clientVars
<1>9. ASSUME NEW a \in Adders, AnswerAdd(a) PROVE AdderOK(b)'
  BY <1>b, <1>9 DEF AnswerAdd, clientVars
<1>10. CASE UNCHANGED <<caller, daemon, sender, futures, made>>
  BY <1>b, <1>10
<1> QED BY <1>1, <1>2, <1>3, <1>4, <1>5, <1>6, <1>7, <1>8, <1>9, <1>10
        DEF Next, CallerStep, DaemonStep, RunStep, OpenPanics, RunRequest, RunSpins,
            Handle, Close, DaemonGone, Route, CancelRouted, Dead, Quiet, vars,
            clientVars, daemonVars

(***************************************************************************)
(* Every step keeps what is known of the channel of an inbound call.       *)
(***************************************************************************)
LEMMA CallStep == ASSUME IndInv, [Next]_vars, NEW j \in Calls PROVE CallOK(j)'
<1> USE IdsAssumption DEF IndInv, TypeOK, CallOK, CallStates, SenderStates
<1>j. j \in Ids /\ j \notin Adders /\ CallOK(j) BY DEF Ids
<1>1. ASSUME NEW a \in Adders, Await(a) PROVE CallOK(j)'
  BY <1>j, <1>1 DEF Await, LoadOrStore, daemonVars
<1>2. ASSUME NEW a \in Adders, getResponse(a) PROVE CallOK(j)'
  BY <1>j, <1>2 DEF getResponse, daemonVars
<1>3. CASE RunRequest
  <2>a. call \in [Calls -> CallStates]
    OBVIOUS
  <2>1. Head(inbox).id \in Calls
    BY <1>3, HeadFacts DEF RunRequest
  <2>2. call'[j].callback = call[j].callback /\ call'[j].proto = call[j].proto
    <3>1. \/ UNCHANGED call
          \/ call' = [call EXCEPT ![Head(inbox).id].handler = "running"]
      BY <1>3 DEF RunRequest
    <3> HIDE DEF IndInv, TypeOK, CallOK, SenderStates
    <3> QED BY <2>a, <2>1, <3>1
  <2> QED BY <1>j, <1>3, <2>2 DEF RunRequest, daemonVars
<1>4. CASE RunAnswer
  <2> DEFINE h == Head(inbox)
  <2>a. sender \in [Ids -> SenderStates] /\ InboxAnswers
    OBVIOUS
  <2> HIDE DEF IndInv, TypeOK, CallOK, CallStates, SenderStates
  <2>1. /\ h.id \in Ids
        /\ sender' = [sender EXCEPT ![h.id].pc = "spawned", ![h.id].kind = h.kind]
        /\ UNCHANGED <<call, routed, futures, made>>
    BY <1>4, HeadFacts DEF RunAnswer, daemonVars
  <2>2. CASE h.id = j
    <3>1. call[j].callback = "cancelled" /\ sender[j].pc = "none"
      BY <1>4, <1>j, <2>a, <2>2, HeadFacts DEF RunAnswer, InboxAnswers
    <3>2. sender'[j] = [sender[j] EXCEPT !.pc = "spawned", !.kind = h.kind]
      BY <1>j, <2>a, <2>1, <2>2
    <3>3. sender'[j].pc = "spawned"
      BY <1>j, <2>a, <3>2 DEF SenderStates
    <3> QED BY <1>j, <2>1, <3>1, <3>3 DEF CallOK
  <2>3. CASE h.id # j
    <3>1. sender'[j] = sender[j] BY <1>j, <2>a, <2>1, <2>3
    <3> QED BY <1>j, <2>1, <3>1 DEF CallOK
  <2> QED BY <2>2, <2>3
<1>5. ASSUME NEW id \in Ids, SenderFinds(id) PROVE CallOK(j)'
  BY <1>j, <1>5 DEF SenderFinds, LoadOrStore, channel, daemonVars
<1>6. ASSUME NEW k \in Calls, Handle(k) PROVE CallOK(j)'
  BY <1>j, <1>6 DEF Handle, clientVars, daemonVars
<1>7. ASSUME NEW a \in Adders, doAddUnaryHandler(a) PROVE CallOK(j)'
  BY <1>j, <1>7 DEF doAddUnaryHandler, clientVars
<1>8. ASSUME NEW k \in Calls, Route(k) \/ CancelRouted(k) PROVE CallOK(j)'
  <2>1. CASE Route(k)
    <3>1. PICK p \in routed :
            call' = [call EXCEPT ![k].callback = "waiting", ![k].proto = p]
      BY <2>1 DEF Route
    <3>2. call[k].callback = "none" /\ UNCHANGED <<sender, futures, made, routed>>
      BY <2>1 DEF Route, clientVars, daemonVars
    <3>3. CASE j = k BY <1>j, <3>1, <3>2, <3>3
    <3>4. CASE j # k BY <1>j, <3>1, <3>2, <3>4
    <3> QED BY <3>3, <3>4
  <2>2. CASE CancelRouted(k)
    BY <1>j, <2>2 DEF CancelRouted, clientVars, daemonVars
  <2> QED BY <1>8, <2>1, <2>2
<1>9. CASE UNCHANGED <<sender, futures, made, call, routed>>
  BY <1>j, <1>9
<1> QED BY <1>1, <1>2, <1>3, <1>4, <1>5, <1>6, <1>7, <1>8, <1>9
        DEF Next, CallerStep, DaemonStep, RunStep, EnterOnce, Open, WriteAdd, Store,
            OpenPanics, RunSpins, Close, DaemonGone, AnswerAdd, Dead, Quiet, vars,
            clientVars, daemonVars

(***************************************************************************)
(* Every step keeps what is known of the messages on their way to run: the *)
(* daemon answers a request once, and run takes a message once.            *)
(***************************************************************************)
LEMMA InboxStep == ASSUME IndInv, [Next]_vars PROVE InboxAnswers' /\ InboxUnique'
<1> USE IdsAssumption DEF IndInv, TypeOK
<1> DEFINE Forth == /\ \A a \in Adders : daemon[a] = "answered" => daemon'[a] = "answered"
                    /\ \A id \in Ids : sender[id].pc = "none" => sender'[id].pc = "none"
                    /\ \A k \in Calls :
                         /\ call[k].callback # "none" => call'[k].callback # "none"
                         /\ call[k].callback = "cancelled" =>
                              call'[k].callback = "cancelled"
<1>m. \A i \in 1 .. Len(inbox) : inbox[i].id \in Ids
  <2>1. \A i \in 1 .. Len(inbox) : inbox[i] \in Messages OBVIOUS
  <2> QED BY <2>1 DEF Messages
<1>u. ASSUME inbox # <<>>, inbox' = Tail(inbox) PROVE InboxUnique'
  <2> SUFFICES ASSUME NEW i \in 1 .. Len(inbox'), NEW j \in 1 .. Len(inbox'),
                      inbox'[i].id = inbox'[j].id,
                      inbox'[i].kind # "request", inbox'[j].kind # "request"
               PROVE  i = j
    BY DEF InboxUnique
  <2>1. /\ i + 1 \in 1 .. Len(inbox) /\ inbox'[i] = inbox[i + 1]
        /\ j + 1 \in 1 .. Len(inbox) /\ inbox'[j] = inbox[j + 1]
    BY <1>u, TailFacts
  <2>2. i + 1 = j + 1 BY <2>1 DEF InboxUnique
  <2> QED BY <1>u, <2>2, TailFacts
<1>i. Adders \subseteq Ids /\ Calls \subseteq Ids BY DEF Ids
<1>1. CASE UNCHANGED inbox /\ Forth
  BY <1>1, <1>m DEF InboxAnswers, InboxUnique, Ids
<1>2. CASE RunAnswer
  <2> DEFINE h == Head(inbox)
  <2>1. h = inbox[1] /\ 1 \in 1 .. Len(inbox) /\ h.id \in Ids /\ h.kind # "request"
    BY <1>2, HeadFacts DEF RunAnswer
  <2>2. /\ Len(inbox') = Len(inbox) - 1
        /\ \A i \in 1 .. Len(inbox') : i + 1 \in 1 .. Len(inbox) /\ inbox'[i] = inbox[i + 1]
    BY <1>2, TailFacts DEF RunAnswer
  <2>3. \A id \in Ids \ {h.id} : sender'[id] = sender[id]
    BY <1>2, <2>1 DEF RunAnswer
  <2>4. InboxUnique'
    BY <1>2, <1>u DEF RunAnswer
  <2>5. \A i \in 1 .. Len(inbox') : inbox'[i].kind # "request" => inbox'[i].id # h.id
    <3> SUFFICES ASSUME NEW i \in 1 .. Len(inbox'), inbox[i + 1].kind # "request",
                        inbox[i + 1].id = inbox[1].id
                 PROVE  FALSE
      BY <2>1, <2>2
    <3>1. i + 1 \in 1 .. Len(inbox) /\ inbox[1].kind # "request"
      BY <2>1, <2>2
    <3>2. i + 1 = 1
      BY <2>1, <3>1 DEF InboxUnique
    <3> QED BY <3>2
  <2>6. UNCHANGED <<daemon, call>>
    BY <1>2 DEF RunAnswer, daemonVars
  <2>7. InboxAnswers'
    <3> SUFFICES ASSUME NEW i \in 1 .. Len(inbox')
                 PROVE  /\ inbox'[i].id \in Adders =>
                             /\ inbox'[i].kind \in {"ok", "daemonError"}
                             /\ daemon'[inbox'[i].id] = "answered"
                             /\ sender'[inbox'[i].id].pc = "none"
                        /\ inbox'[i].id \in Calls =>
                             /\ inbox'[i].kind \in {"request", "cancel"}
                             /\ call'[inbox'[i].id].callback # "none"
                             /\ inbox'[i].kind = "cancel" =>
                                  /\ call'[inbox'[i].id].callback = "cancelled"
                                  /\ sender'[inbox'[i].id].pc = "none"
      BY DEF InboxAnswers
    <3>1. i + 1 \in 1 .. Len(inbox) /\ inbox'[i] = inbox[i + 1]
      BY <2>2
    <3>2. inbox'[i].kind # "request" => sender'[inbox'[i].id] = sender[inbox'[i].id]
      BY <1>m, <2>3, <2>5, <3>1
    <3> QED BY <2>6, <3>1, <3>2 DEF InboxAnswers
  <2> QED BY <2>4, <2>7
<1>3. CASE RunRequest
  <2>1. /\ Len(inbox') = Len(inbox) - 1
        /\ \A i \in 1 .. Len(inbox') : i + 1 \in 1 .. Len(inbox) /\ inbox'[i] = inbox[i + 1]
    BY <1>3, TailFacts DEF RunRequest
  <2>2. \A k \in Calls : call'[k].callback = call[k].callback
    <3>1. \/ UNCHANGED call
          \/ call' = [call EXCEPT ![Head(inbox).id].handler = "running"]
      BY <1>3 DEF RunRequest
    <3>2. Head(inbox).id \in Calls BY <1>3, HeadFacts DEF RunRequest
    <3> QED BY <3>1, <3>2 DEF CallStates
  <2>3. UNCHANGED <<daemon, sender>>
    BY <1>3 DEF RunRequest, daemonVars
  <2>4. InboxUnique' BY <1>3, <1>u DEF RunRequest
  <2>5. InboxAnswers' BY <2>1, <2>2, <2>3 DEF InboxAnswers
  <2> QED BY <2>4, <2>5
<1>4. CASE Close
  BY <1>4 DEF Close, InboxAnswers, InboxUnique
<1>5. ASSUME NEW m \in Messages, inbox' = Append(inbox, m), Forth,
             \A i \in 1 .. Len(inbox) :
               inbox[i].id = m.id /\ m.kind # "request" => inbox[i].kind = "request",
             m.id \in Adders => /\ m.kind \in {"ok", "daemonError"}
                                /\ daemon'[m.id] = "answered"
                                /\ sender'[m.id].pc = "none",
             m.id \in Calls => /\ m.kind \in {"request", "cancel"}
                               /\ call'[m.id].callback # "none"
                               /\ m.kind = "cancel" =>
                                    /\ call'[m.id].callback = "cancelled"
                                    /\ sender'[m.id].pc = "none"
      PROVE  InboxAnswers' /\ InboxUnique'
  <2>1. /\ Len(inbox') = Len(inbox) + 1
        /\ inbox'[Len(inbox) + 1] = m
        /\ \A i \in 1 .. Len(inbox) : inbox'[i] = inbox[i]
        /\ \A i \in 1 .. Len(inbox') : i \in 1 .. Len(inbox) \/ i = Len(inbox) + 1
    BY <1>5, AppendFacts
  <2>2. InboxUnique'
    BY <1>5, <2>1 DEF InboxUnique
  <2>3. InboxAnswers'
    <3> DEFINE Sound(x) == /\ x.id \in Adders => /\ x.kind \in {"ok", "daemonError"}
                                                 /\ daemon'[x.id] = "answered"
                                                 /\ sender'[x.id].pc = "none"
                           /\ x.id \in Calls => /\ x.kind \in {"request", "cancel"}
                                                /\ call'[x.id].callback # "none"
                                                /\ x.kind = "cancel" =>
                                                     /\ call'[x.id].callback = "cancelled"
                                                     /\ sender'[x.id].pc = "none"
    <3>1. \A i \in 1 .. Len(inbox) : Sound(inbox[i])
      BY <1>5, <1>m, <1>i DEF InboxAnswers
    <3>2. Sound(m) BY <1>5
    <3>3. \A i \in 1 .. Len(inbox') : Sound(inbox'[i])
      BY <2>1, <3>1, <3>2
    <3> QED BY <3>3 DEF InboxAnswers
  <2> QED BY <2>2, <2>3
<1>6. ASSUME NEW a \in Adders, AnswerAdd(a) PROVE InboxAnswers' /\ InboxUnique'
  <2> DEFINE kind == IF daemon[a] = "refused" THEN "daemonError" ELSE "ok"
             m == [id |-> a, kind |-> kind]
  <2>1. m \in Messages BY <1>i DEF Messages
  <2>2. UNCHANGED <<sender, call>> /\ daemon' = [daemon EXCEPT ![a] = "answered"]
    BY <1>6 DEF AnswerAdd, clientVars
  <2>3. daemon[a] # "answered" /\ a \notin Calls /\ sender[a].pc = "none"
    BY <1>6 DEF AnswerAdd, AdderOK
  <2>4. \A i \in 1 .. Len(inbox) : inbox[i].id # a
    BY <2>3 DEF InboxAnswers
  <2>5. inbox' = Append(inbox, m) BY <1>6 DEF AnswerAdd
  <2>6. Forth BY <2>2
  <2>7. m.id = a /\ m.kind \in {"ok", "daemonError"} OBVIOUS
  <2> HIDE DEF m
  <2> QED BY <1>5, <2>1, <2>2, <2>3, <2>4, <2>5, <2>6, <2>7
<1>7. ASSUME NEW k \in Calls, Route(k) PROVE InboxAnswers' /\ InboxUnique'
  <2> DEFINE m == [id |-> k, kind |-> "request"]
  <2>1. m \in Messages BY <1>i DEF Messages
  <2>2. UNCHANGED <<sender, daemon>> BY <1>7 DEF Route, clientVars, daemonVars
  <2>3. PICK p \in routed : call' = [call EXCEPT ![k].callback = "waiting", ![k].proto = p]
    BY <1>7 DEF Route
  <2>4. call[k].callback = "none" /\ call'[k].callback = "waiting" /\ k \notin Adders
    BY <1>7, <2>3 DEF Route, CallStates
  <2>5. Forth BY <2>2, <2>3, <2>4 DEF CallStates
  <2>6. inbox' = Append(inbox, m) BY <1>7 DEF Route
  <2>7. m.id = k /\ m.kind = "request" OBVIOUS
  <2> HIDE DEF m
  <2> QED BY <1>5, <2>1, <2>2, <2>4, <2>5, <2>6, <2>7
<1>8. ASSUME NEW k \in Calls, CancelRouted(k) PROVE InboxAnswers' /\ InboxUnique'
  <2> DEFINE m == [id |-> k, kind |-> "cancel"]
  <2>1. m \in Messages BY <1>i DEF Messages
  <2>2. UNCHANGED <<sender, daemon>> BY <1>8 DEF CancelRouted, clientVars, daemonVars
  <2>3. call' = [call EXCEPT ![k].callback = "cancelled"]
    BY <1>8 DEF CancelRouted
  <2>4. /\ call[k].callback = "waiting" /\ call'[k].callback = "cancelled"
        /\ k \notin Adders /\ sender[k].pc = "none"
    BY <1>8, <2>3 DEF CancelRouted, CallStates, CallOK
  <2>5. Forth BY <2>2, <2>3, <2>4 DEF CallStates
  <2>6. inbox' = Append(inbox, m) BY <1>8 DEF CancelRouted
  <2>7. m.id = k /\ m.kind = "cancel" OBVIOUS
  <2>8. \A i \in 1 .. Len(inbox) : inbox[i].id = k => inbox[i].kind = "request"
    BY <2>4 DEF InboxAnswers
  <2> HIDE DEF m
  <2> QED BY <1>5, <2>1, <2>2, <2>4, <2>5, <2>6, <2>7, <2>8
<1>9. ASSUME NEW a \in Adders, CallerStep(a) \/ doAddUnaryHandler(a) \/ OpenPanics(a)
      PROVE  UNCHANGED inbox /\ Forth
  <2>1. UNCHANGED <<inbox, call>>
    BY <1>9 DEF CallerStep, EnterOnce, Open, WriteAdd, Await, getResponse, Store,
                OpenPanics, doAddUnaryHandler
  <2>2. \A b \in Adders : daemon[b] = "answered" => daemon'[b] = "answered"
    BY <1>9 DEF CallerStep, EnterOnce, Open, WriteAdd, Await, getResponse, Store,
                OpenPanics, doAddUnaryHandler, daemonVars, AdderOK
  <2>3. \A id \in Ids : sender[id].pc = "none" => sender'[id].pc = "none"
    <3>1. CASE UNCHANGED sender BY <3>1
    <3>2. CASE getResponse(a) BY <1>i, <3>2 DEF getResponse, SenderStates
    <3> QED BY <1>9, <3>1, <3>2
            DEF CallerStep, EnterOnce, Open, WriteAdd, Await, Store, OpenPanics,
                doAddUnaryHandler, clientVars
  <2> QED BY <2>1, <2>2, <2>3
<1>10. ASSUME NEW id \in Ids, SenderFinds(id) PROVE UNCHANGED inbox /\ Forth
  BY <1>10 DEF SenderFinds, daemonVars, SenderStates
<1>11. ASSUME NEW k \in Calls, Handle(k) PROVE UNCHANGED inbox /\ Forth
  BY <1>11 DEF Handle, clientVars, daemonVars, CallStates
<1>12. CASE DaemonGone \/ UNCHANGED vars
  BY <1>1, <1>12 DEF DaemonGone, vars, clientVars, daemonVars
<1> QED BY <1>1, <1>2, <1>3, <1>4, <1>6, <1>7, <1>8, <1>9, <1>10, <1>11, <1>12
        DEF Next, DaemonStep, RunStep, RunSpins, Dead, Quiet

(***************************************************************************)
(* Nothing but the registration makes a caller win its protocol, and who   *)
(* was registered is never refused afterwards.                             *)
(***************************************************************************)
LEMMA VerdictKept ==
    ASSUME IndInv, [Next]_vars, \A a \in Adders : ~doAddUnaryHandler(a), NEW b \in Adders
    PROVE  (Won(b)' => Won(b)) /\ (NotRefused(b) => NotRefused(b)')
<1> USE DEF IndInv, TypeOK
<1> DEFINE Kept == (Won(b)' => Won(b)) /\ (NotRefused(b) => NotRefused(b)')
<1>b. b \in Ids BY DEF Ids
<1>t. ASSUME inbox # <<>>, inbox' = Tail(inbox), NEW kind, InInbox(b, kind)'
      PROVE  InInbox(b, kind)
  BY <1>t, TailFacts DEF InInbox
<1>1. CASE /\ UNCHANGED inbox
           /\ daemon[b] \in {"registered", "answered"} <=>
                daemon'[b] \in {"registered", "answered"}
           /\ daemon'[b] = "registered" => daemon[b] = "registered"
           /\ sender'[b].kind = sender[b].kind
  BY <1>1 DEF Won, NotRefused, InInbox
<1>2. CASE RunRequest
  <2>1. inbox # <<>> /\ inbox' = Tail(inbox) /\ UNCHANGED <<daemon, sender>>
    BY <1>2 DEF RunRequest, daemonVars
  <2> QED BY <1>t, <2>1 DEF Won, NotRefused
<1>3. CASE RunAnswer
  <2>1. inbox # <<>> /\ inbox' = Tail(inbox) /\ UNCHANGED daemon
    BY <1>3 DEF RunAnswer, daemonVars
  <2>2. Head(inbox).id = b => InInbox(b, Head(inbox).kind)
    BY <2>1, HeadFacts DEF InInbox
  <2>3. sender'[b].kind = IF Head(inbox).id = b THEN Head(inbox).kind ELSE sender[b].kind
    BY <1>3, <1>b, <2>1, HeadFacts DEF RunAnswer, SenderStates
  <2> QED BY <1>t, <2>1, <2>2, <2>3 DEF Won, NotRefused
<1>4. CASE Close
  <2>1. UNCHANGED <<daemon, sender>> /\ \A kind : ~InInbox(b, kind)'
    BY <1>4 DEF Close, clientVars, daemonVars, InInbox
  <2> QED BY <2>1 DEF Won, NotRefused
<1>5. ASSUME NEW m \in Messages, inbox' = Append(inbox, m), NEW kind
      PROVE  InInbox(b, kind)' <=> InInbox(b, kind) \/ (m.id = b /\ m.kind = kind)
  <2>1. /\ Len(inbox') = Len(inbox) + 1
        /\ inbox'[Len(inbox) + 1] = m
        /\ \A i \in 1 .. Len(inbox) : inbox'[i] = inbox[i] /\ i \in 1 .. Len(inbox')
        /\ \A i \in 1 .. Len(inbox') : i \in 1 .. Len(inbox) \/ i = Len(inbox) + 1
        /\ Len(inbox) + 1 \in 1 .. Len(inbox')
    BY <1>5, AppendFacts
  <2> QED BY <2>1 DEF InInbox
<1>6. ASSUME NEW a \in Adders, AnswerAdd(a) PROVE Kept
  <2> DEFINE kind == IF daemon[a] = "refused" THEN "daemonError" ELSE "ok"
             m == [id |-> a, kind |-> kind]
  <2>1. m \in Messages BY DEF Messages, Ids
  <2>2. UNCHANGED sender /\ daemon' = [daemon EXCEPT ![a] = "answered"]
    BY <1>6 DEF AnswerAdd, clientVars
  <2>3. daemon[a] \in {"registered", "refused"} /\ inbox' = Append(inbox, m)
    BY <1>6 DEF AnswerAdd
  <2>4. m.id = a /\ m.kind = kind OBVIOUS
  <2> HIDE DEF m
  <2> QED BY <1>5, <2>1, <2>2, <2>3, <2>4 DEF Won, NotRefused
<1>7. ASSUME NEW k \in Calls, Route(k) \/ CancelRouted(k) PROVE Kept
  <2>1. UNCHANGED <<sender, daemon>>
    BY <1>7 DEF Route, CancelRouted, clientVars, daemonVars
  <2>2. PICK kind \in {"request", "cancel"} :
          inbox' = Append(inbox, [id |-> k, kind |-> kind])
    BY <1>7 DEF Route, CancelRouted
  <2>3. [id |-> k, kind |-> kind] \in Messages BY DEF Messages, Ids
  <2>4. \A l : InInbox(b, l)' <=> InInbox(b, l)
    BY <1>5, <2>2, <2>3, IdsAssumption
  <2> QED BY <2>1, <2>4 DEF Won, NotRefused
<1>8. ASSUME NEW a \in Adders, CallerStep(a) \/ OpenPanics(a) PROVE Kept
  <2>1. UNCHANGED inbox
    BY <1>8 DEF CallerStep, EnterOnce, Open, WriteAdd, Await, getResponse, Store, OpenPanics
  <2>2. \/ UNCHANGED daemon
        \/ daemon' = [daemon EXCEPT ![a] = "received"] /\ daemon[a] = "none"
    BY <1>8 DEF CallerStep, EnterOnce, Open, WriteAdd, Await, getResponse, Store,
                OpenPanics, daemonVars, AdderOK
  <2>3. sender'[b].kind = sender[b].kind
    <3>1. CASE UNCHANGED sender BY <3>1
    <3>2. CASE getResponse(a) BY <1>b, <3>2 DEF getResponse, SenderStates
    <3> QED BY <1>8, <3>1, <3>2
            DEF CallerStep, EnterOnce, Open, WriteAdd, Await, Store, OpenPanics
  <2> QED BY <1>1, <2>1, <2>2, <2>3
<1>9. ASSUME NEW id \in Ids, SenderFinds(id) PROVE Kept
  BY <1>1, <1>b, <1>9 DEF SenderFinds, daemonVars, SenderStates
<1>10. CASE UNCHANGED <<inbox, daemon, sender>>
  BY <1>1, <1>10
<1> QED BY <1>2, <1>3, <1>4, <1>6, <1>7, <1>8, <1>9, <1>10
        DEF Next, DaemonStep, RunStep, RunSpins, Handle, DaemonGone, Dead, Quiet, vars,
            clientVars, daemonVars

(***************************************************************************)
(* Every step keeps the one owner of every protocol.                       *)
(***************************************************************************)
LEMMA OwnerStep == ASSUME IndInv, [Next]_vars PROVE WinnerUnique' /\ RoutedHasOwner'
<1> USE ProtoKept DEF IndInv
<1>1. ASSUME NEW a \in Adders, doAddUnaryHandler(a) PROVE WinnerUnique' /\ RoutedHasOwner'
  <2>1. UNCHANGED <<inbox, sender>> /\ routed' = routed \cup {caller[a].proto}
    BY <1>1 DEF doAddUnaryHandler, clientVars
  <2>2. /\ daemon[a] = "received"
        /\ daemon' = [daemon EXCEPT ![a] =
                         IF caller[a].proto \in routed THEN "refused" ELSE "registered"]
    BY <1>1 DEF doAddUnaryHandler
  <2>3. \A b \in Adders : Won(b)' => Won(b) \/ (b = a /\ caller[a].proto \notin routed)
    BY <2>1, <2>2 DEF Won, InInbox, TypeOK
  <2>4. \A b \in Adders : NotRefused(b) => NotRefused(b)'
    BY <2>1, <2>2 DEF NotRefused, InInbox, TypeOK
  <2>5. caller[a].proto \notin routed => NotRefused(a)'
    BY <2>1, <2>2 DEF NotRefused, InInbox, InboxAnswers, AdderOK, TypeOK
  <2>6. WinnerUnique' BY <2>1, <2>3 DEF WinnerUnique
  <2>7. RoutedHasOwner' BY <2>1, <2>4, <2>5 DEF RoutedHasOwner
  <2> QED BY <2>6, <2>7
<1>2. CASE \A a \in Adders : ~doAddUnaryHandler(a)
  <2>1. UNCHANGED routed
    BY <1>2 DEF Next, CallerStep, DaemonStep, RunStep, EnterOnce, Open, WriteAdd, Await,
                getResponse, Store, OpenPanics, RunRequest, RunAnswer, RunSpins,
                SenderFinds, Handle, Close, DaemonGone, AnswerAdd, Route, CancelRouted,
                Dead, Quiet, vars, daemonVars
  <2>2. WinnerUnique' BY <1>2, <2>1, VerdictKept DEF WinnerUnique
  <2>3. RoutedHasOwner' BY <1>2, <2>1, VerdictKept DEF RoutedHasOwner
  <2> QED BY <2>2, <2>3
<1> QED BY <1>1, <1>2

(***************************************************************************)
(* Every step keeps the handler of a caller that has returned in the table,*)
(* and a missing handler is one whose caller has yet to store it.          *)
(***************************************************************************)
LEMMA ServeStep ==
    ASSUME IndInv, [Next]_vars PROVE AddedHandlerServes' /\ FatalOnlyDuringAdd'
<1>1. AddedHandlerServes'
  <2> SUFFICES ASSUME NEW b \in Adders, caller'[b].pc = "ok"
               PROVE  handlers'[caller[b].proto] = b
    BY ProtoKept DEF AddedHandlerServes
  <2>1. ASSUME NEW a \in Adders, Store(a) PROVE handlers'[caller[b].proto] = b
    <3>0. caller[a] \in CallerStates /\ caller[b] \in CallerStates
      BY DEF IndInv, TypeOK
    <3>1. caller[a].proto \in Protos BY <3>0 DEF CallerStates
    <3>2. handlers' = [handlers EXCEPT ![caller[a].proto] = a] BY <2>1 DEF Store
    <3>3. b = a \/ caller[b].pc = "ok"
      BY <2>1 DEF Store, IndInv, TypeOK, CallerStates
    <3>4. Won(a) BY <2>1 DEF Store, IndInv, AdderOK, Won
    <3>5. caller[b].pc = "ok" => Won(b) BY DEF IndInv, AdderOK, Won
    <3>6. caller[b].proto = caller[a].proto => b = a
      BY <3>3, <3>4, <3>5 DEF IndInv, WinnerUnique
    <3> QED BY <3>1, <3>2, <3>3, <3>6 DEF IndInv, TypeOK, AddedHandlerServes
  <2>2. CASE \A a \in Adders : ~Store(a)
    <3>1. UNCHANGED handlers
      BY <2>2 DEF Next, CallerStep, DaemonStep, RunStep, EnterOnce, Open, WriteAdd, Await,
                  getResponse, OpenPanics, RunRequest, RunAnswer, RunSpins, SenderFinds,
                  Handle, Close, DaemonGone, doAddUnaryHandler, AnswerAdd, Route,
                  CancelRouted, Dead, Quiet, vars, clientVars
    <3>2. caller[b].pc = "ok"
      <4>1. ASSUME NEW a \in Adders, CallerStep(a) PROVE caller[b].pc = "ok"
        BY <2>2, <4>1 DEF CallerStep, EnterOnce, Open, WriteAdd, Await, getResponse,
                          IndInv, TypeOK, CallerStates
      <4>2. CASE UNCHANGED caller BY <4>2
      <4> QED BY <2>2, <4>1, <4>2
              DEF Next, DaemonStep, RunStep, OpenPanics, RunRequest, RunAnswer, RunSpins,
                  SenderFinds, Handle, Close, DaemonGone, doAddUnaryHandler, AnswerAdd,
                  Route, CancelRouted, Dead, Quiet, vars, clientVars
    <3> QED BY <3>1, <3>2 DEF IndInv, AddedHandlerServes
  <2> QED BY <2>1, <2>2
<1>2. FatalOnlyDuringAdd'
  <2>1. CASE RunRequest /\ died' = "fatal"
    <3> DEFINE p == call[Head(inbox).id].proto
    <3>1. Head(inbox).id \in Calls /\ Head(inbox) = inbox[1] /\ 1 \in 1 .. Len(inbox)
      BY <2>1, HeadFacts DEF RunRequest
    <3>2. p \in routed
      BY <3>1 DEF IndInv, InboxAnswers, CallOK
    <3>3. handlers[p] = None \/ died = "fatal"
      BY <2>1 DEF RunRequest
    <3>4. UNCHANGED <<caller, daemon, handlers>>
      BY <2>1 DEF RunRequest, daemonVars
    <3>5. CASE died = "fatal"
      BY <3>4, <3>5 DEF IndInv, FatalOnlyDuringAdd
    <3>6. CASE handlers[p] = None
      <4>1. PICK a \in Adders : caller[a].proto = p /\ NotRefused(a)
        BY <3>2 DEF IndInv, RoutedHasOwner
      <4>2. caller[a].pc # "ok"
        BY <3>6, <4>1, IdsAssumption DEF IndInv, AddedHandlerServes
      <4>3. caller[a].pc \in {"written", "waiting", "storing"}
        BY <4>1, <4>2 DEF IndInv, TypeOK, CallerStates, AdderOK, NotRefused
      <4> QED BY <3>4, <3>6, <4>1, <4>3 DEF FatalOnlyDuringAdd, NotRefused
    <3> QED BY <3>3, <3>5, <3>6
  <2>2. CASE died' # "fatal"
    BY <2>2 DEF FatalOnlyDuringAdd
  <2>3. CASE UNCHANGED vars
    BY <2>3 DEF vars, IndInv, FatalOnlyDuringAdd
  <2> QED BY <2>1, <2>2, <2>3
          DEF Next, CallerStep, DaemonStep, RunStep, EnterOnce, Open, WriteAdd, Await,
              getResponse, Store, OpenPanics, RunAnswer, RunSpins, SenderFinds, Handle,
              Close, DaemonGone, doAddUnaryHandler, AnswerAdd, Route, CancelRouted, Dead,
              Quiet, clientVars
<1> QED BY <1>1, <1>2

(***************************************************************************)
(* A new client is in a state of the inductive invariant.                  *)
(***************************************************************************)
LEMMA InitIndInv == Init => IndInv
<1> SUFFICES ASSUME Init PROVE IndInv
    OBVIOUS
<1>1. TypeOK
  <2>1. caller \in [Adders -> CallerStates]
    <3>1. [pc : {"idle"}, proto : Protos, chan : {0}] \subseteq CallerStates
      BY DEF CallerStates
    <3> QED BY <3>1 DEF Init
  <2>2. sender \in [Ids -> SenderStates]
    <3>1. [pc |-> "none", chan |-> 0, kind |-> "none"] \in SenderStates
      BY DEF SenderStates
    <3> QED BY <3>1 DEF Init
  <2>3. call \in [Calls -> CallStates]
    BY DEF Init, CallStates
  <2>4. inbox \in Seq(Messages)
    BY DEF Init
  <2> QED BY <2>1, <2>2, <2>3, <2>4 DEF Init, TypeOK
<1>2. \A a \in Adders : AdderOK(a) /\ ~Won(a)
  <2> TAKE a \in Adders
  <2>1. caller[a].pc = "idle" BY DEF Init
  <2>2. sender[a].pc = "none" /\ sender[a].kind = "none" BY DEF Init, Ids
  <2>3. futures[a] = 0 /\ made[a] = 0 BY DEF Init, Ids
  <2>4. daemon[a] = "none" BY DEF Init
  <2>5. AdderOK(a) BY <2>1, <2>2, <2>3, <2>4 DEF AdderOK
  <2>6. ~InInbox(a, "ok") BY DEF Init, InInbox
  <2>7. ~Won(a) BY <2>2, <2>4, <2>6 DEF Won
  <2> QED BY <2>5, <2>7
<1>3. \A k \in Calls : CallOK(k)
  BY DEF Init, CallOK, Ids
<1>4. InboxAnswers /\ InboxUnique
  BY DEF Init, InboxAnswers, InboxUnique
<1>5. WinnerUnique /\ RoutedHasOwner
  BY <1>2 DEF Init, WinnerUnique, RoutedHasOwner
<1>6. AddedHandlerServes /\ FatalOnlyDuringAdd
  BY DEF Init, AddedHandlerServes, FatalOnlyDuringAdd
<1> QED BY <1>1, <1>2, <1>3, <1>4, <1>5, <1>6 DEF IndInv

(***************************************************************************)
(* The inductive invariant holds in every reachable state.                 *)
(***************************************************************************)
THEOREM Invariance == Spec => []IndInv
<1>1. IndInv /\ [Next]_vars => IndInv'
  <2> SUFFICES ASSUME IndInv, [Next]_vars PROVE IndInv'
    OBVIOUS
  <2>1. \A a \in Adders : AdderOK(a)' BY AdderStep
  <2>2. \A k \in Calls : CallOK(k)' BY CallStep
  <2> QED BY <2>1, <2>2, TypeStep, InboxStep, OwnerStep, ServeStep DEF IndInv
<1> QED BY InitIndInv, <1>1, PTL DEF Spec

(***************************************************************************)
(* One channel is made for an id, whoever comes first, and no goroutine or *)
(* entry of callFutures is left over but for a cancelled inbound call.     *)
(***************************************************************************)
THEOREM FutureSafe == Spec => []FutureInv
<1>1. IndInv => LeftoverOnlyOfCancel
  <2> SUFFICES ASSUME IndInv PROVE LeftoverOnlyOfCancel
    OBVIOUS
  <2> USE DEF IndInv, TypeOK
  <2>1. ASSUME NEW a \in Adders
        PROVE  /\ sender[a].pc = "sending" =>
                    \/ caller[a].pc = "written" /\ futures[a] = sender[a].chan
                    \/ caller[a].pc = "waiting" /\ caller[a].chan = sender[a].chan
               /\ futures[a] # 0 => caller[a].pc \in {"written", "waiting"}
    BY DEF AdderOK, Ids, SenderStates
  <2>2. ASSUME NEW k \in Calls, sender[k].pc = "sending" \/ futures[k] # 0
        PROVE  call[k].callback = "cancelled"
    BY <2>2 DEF CallOK, Ids
  <2> QED BY <2>1, <2>2 DEF LeftoverOnlyOfCancel
<1>2. IndInv => FutureInv
  BY <1>1 DEF IndInv, FutureInv
<1> QED BY <1>2, Invariance, PTL

(***************************************************************************)
(* log.Fatal is reached only by a request that overtook the answer to its  *)
(* AddUnaryHandler, whatever the number of callers and protocols.          *)
(***************************************************************************)
THEOREM FatalSafe == Spec => []FatalOnlyDuringAdd
<1>1. IndInv => FatalOnlyDuringAdd BY DEF IndInv
<1> QED BY <1>1, Invariance, PTL

(***************************************************************************)
(* A handler AddUnaryHandler was successful with serves its protocol.      *)
(***************************************************************************)
THEOREM HandlerSafe == Spec => []AddedHandlerServes
<1>1. IndInv => AddedHandlerServes BY DEF IndInv
<1> QED BY <1>1, Invariance, PTL
=============================================================================
