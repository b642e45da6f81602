--------------------------- MODULE UnaryRPCProofs ---------------------------
(***************************************************************************)
(* The safety properties of UnaryRPC and its refinement of UnaryService,   *)
(* proved for any set of concurrent calls.                                 *)
(***************************************************************************)
EXTENDS UnaryRPC, TLAPS

(***************************************************************************)
(* How far the processes of call k have got, relative to each other: the   *)
(* call goes through the client, its daemon, the stream and the serving    *)
(* daemon in this order.                                                   *)
(***************************************************************************)
Before(k) ==
    /\ client[k].pc = "idle" => daemon[k].pc = "none" /\ client[k].helper = "none"
                                /\ ~client[k].expired
    /\ daemon[k].pc \in {"none", "spawned", "opening"} => daemon[k].exchange = "none"
    /\ daemon[k].exchange = "none" => stream[k].data = "none"
    /\ daemon[k].exchange = "writing" =>
         stream[k].data = "open" \/ (stream[k].data = "eof" /\ Cut(k))
    /\ remote[k].pc = "none" => stream[k].data \in {"none", "open", "request"}
    /\ remote[k].pc \in {"stored", "waiting", "answering"} => stream[k].data = "request"
    /\ remote[k].pc = "done" => stream[k].data \in Answers \cup {"eof"}
    /\ remote[k].waiter => remote[k].pc \in {"stored", "waiting", "answering"}

(***************************************************************************)
(* The handler runs once; its sender exists once it has answered.          *)
(***************************************************************************)
HandlerOnce(k) ==
    /\ remote[k].pc \in {"none", "stored"} => remote[k].exec = "none"
    /\ remote[k].exec = "finished" <=> remote[k].answer # "none"
    /\ remote[k].sender # "none" => remote[k].exec = "finished"
    /\ remote[k].pc = "answering" => remote[k].sender = "sent"
    /\ remote[k].sender = "blocked" /\ remote[k].pc = "done" => Cut(k)

(***************************************************************************)
(* The handler's answer is the same at every station of the way back.      *)
(***************************************************************************)
AnswerCarried(k) ==
    /\ stream[k].data \in Answers => remote[k].answer = stream[k].data
    /\ daemon[k].exchange = "sendResp" => stream[k].data \in Answers
    /\ daemon[k].resp \in Answers => remote[k].answer = daemon[k].resp
    /\ daemon[k].resp # "none" <=> daemon[k].pc \in {"responding", "done"}
    /\ daemon[k].sent # "none" => daemon[k].pc = "done" /\ daemon[k].sent = daemon[k].resp
    /\ daemon[k].sent # "nil"
    /\ client[k].pc = "gotResult" => daemon[k].sent \in {"value", "blank"}
    /\ client[k].outcome # "none" <=> client[k].pc = "returned"
    /\ client[k].outcome = "value" => daemon[k].sent = "value"
    /\ client[k].outcome = "empty" => daemon[k].sent = "blank"
    /\ client[k].outcome = "handlerError" => daemon[k].sent = "failure"

(***************************************************************************)
(* Whatever was cancelled was cancelled because the caller's context is    *)
(* done: the Cancel message, the daemon's context, the closed channel of   *)
(* the exchange, the answer.                                               *)
(***************************************************************************)
CancelTraced(k) ==
    /\ daemon[k].canceller # "none" => client[k].expired /\ client[k].helper = "closed"
    /\ client[k].helper = "closed" /\ client[k].pc # "returned" => client[k].expired
    /\ client[k].outcome \in {"value", "empty"} => client[k].helper = "closed"
    /\ daemon[k].ctxDone => daemon[k].canceller = "done" \/ daemon[k].pc = "done"
    /\ daemon[k].exchange = "closed" /\ daemon[k].pc \notin {"responding", "done"} =>
         daemon[k].ctxDone
    /\ daemon[k].resp \in {"cancel", "nil"} => daemon[k].canceller = "done"
    /\ /\ daemon[k].pc \in {"responding", "done"}
       /\ daemon[k].exchange \notin {"none", "closed"}
       => daemon[k].resp = "cancel"
    /\ client[k].outcome \in {"ctxErr", "panic"} => client[k].expired
    /\ client[k].outcome # "nilnil"

CallOK(k) == Before(k) /\ HandlerOnce(k) /\ AnswerCarried(k) /\ CancelTraced(k)

IndInv ==
    /\ TypeOK
    /\ \A k \in Calls : CallOK(k)
    /\ crashed # "no" => \E k \in Calls : client[k].expired

-----------------------------------------------------------------------------
\* A step of a goroutine of call k, or of its context or its handler.
Step(k) ==
    \/ Invoke(k) \/ Expire(k)
    \/ ClientStep(k) \/ CallStep(k) \/ ExchangeStep(k) \/ CancelCall(k)
    \/ StreamBreaks(k)
    \/ CallbackStep(k) \/ HandlerReturns(k) \/ sendReponseToRemote(k)

(***************************************************************************)
(* Every goroutine of a call keeps the types, and answers it with what     *)
(* the types allow.                                                        *)
(***************************************************************************)
LEMMA TypeStep == ASSUME TypeOK, NEW k \in Calls, CallOK(k), Step(k) PROVE TypeOK'
<1>c. client[k] \in ClientStates BY DEF TypeOK
<1>d. daemon[k] \in DaemonStates BY DEF TypeOK
<1>s. stream[k] \in StreamStates BY DEF TypeOK
<1>r. remote[k] \in RemoteStates BY DEF TypeOK
<1>1. CASE Invoke(k)
  <2>1. [client[k] EXCEPT !.pc = "waiting", !.helper = "waiting"] \in ClientStates
    BY <1>1, <1>c DEF ClientStates, Outcomes
  <2>2. \A x \in {"spawned", "none"} : [daemon[k] EXCEPT !.pc = x] \in DaemonStates
    BY <1>1, <1>d DEF DaemonStates, Responses
  <2>3. PICK x \in {"spawned", "none"} : daemon' = [daemon EXCEPT ![k].pc = x]
    BY <1>1 DEF Invoke
  <2>4. daemon' \in [Calls -> DaemonStates]
    BY <2>2, <2>3 DEF TypeOK
  <2> QED BY <1>1, <2>1, <2>4 DEF Invoke, TypeOK
<1>2. CASE Expire(k)
  <2>1. [client[k] EXCEPT !.expired = TRUE] \in ClientStates
    BY <1>2, <1>c DEF ClientStates, Outcomes
  <2> QED BY <1>2, <2>1 DEF Expire, TypeOK
<1>3. CASE HelperCancels(k)
  <2>1. [client[k] EXCEPT !.helper = "closed"] \in ClientStates
    BY <1>3, <1>c DEF ClientStates, Outcomes
  <2>2. [daemon[k] EXCEPT !.canceller = IF callerUp THEN "spawned" ELSE "none"]
          \in DaemonStates
    BY <1>3, <1>d DEF DaemonStates, Responses
  <2> QED BY <1>3, <2>1, <2>2 DEF HelperCancels, TypeOK
<1>4. CASE Deliver(k)
  <2>1. [client[k] EXCEPT !.pc = "gotResult"] \in ClientStates
    BY <1>4, <1>c DEF ClientStates, Outcomes
  <2>2. CASE daemon[k].sent \in {"value", "blank"}
    BY <1>4, <2>1, <2>2 DEF Deliver, TypeOK
  <2>3. CASE daemon[k].sent \notin {"value", "blank"}
    <3>1. daemon[k].sent \in {"error", "failure", "cancel"}
      BY <1>4, <1>d, <2>3 DEF Deliver, DaemonStates, Responses, Answers, CallOK, AnswerCarried
    <3>2. failureOf(k) \in Outcomes
      BY <3>1 DEF failureOf, Outcomes
    <3>3. [client[k] EXCEPT !.pc = "returned", !.outcome = failureOf(k)] \in ClientStates
      BY <3>2, <1>c DEF ClientStates
    <3> QED BY <1>4, <2>3, <3>3 DEF Deliver, TypeOK
  <2> QED BY <2>2, <2>3
<1>5. CASE FinishValue(k)
  <2>1. [client[k] EXCEPT !.pc = "returned", !.helper = "closed",
          !.outcome = IF daemon[k].sent = "value" THEN "value" ELSE "empty"] \in ClientStates
    BY <1>5, <1>c DEF ClientStates, Outcomes
  <2> QED BY <1>5, <2>1 DEF FinishValue, TypeOK
<1>6. CASE FinishExpired(k)
  <2>1. [client[k] EXCEPT !.pc = "returned", !.outcome = "ctxErr"] \in ClientStates
    BY <1>6, <1>c DEF ClientStates, Outcomes
  <2> QED BY <1>6, <2>1 DEF FinishExpired, TypeOK
<1>7. CASE FinishPanics(k)
  <2>1. [client[k] EXCEPT !.pc = "returned", !.outcome = "panic"] \in ClientStates
    BY <1>7, <1>c DEF ClientStates, Outcomes
  <2> QED BY <1>7, <2>1 DEF FinishPanics, TypeOK
<1>8. CASE StoreCancel(k)
  <2>1. [daemon[k] EXCEPT !.pc = "opening", !.stored = TRUE] \in DaemonStates
    BY <1>8, <1>d DEF DaemonStates, Responses
  <2> QED BY <1>8, <2>1 DEF StoreCancel, TypeOK
<1>9. CASE NewStream(k)
  <2>1. [daemon[k] EXCEPT !.pc = "selecting", !.exchange = "writing"] \in DaemonStates
    BY <1>9, <1>d DEF DaemonStates, Responses
  <2>2. [stream[k] EXCEPT !.data = "open"] \in StreamStates
    BY <1>9, <1>s DEF StreamStates, Answers
  <2> QED BY <1>9, <2>1, <2>2 DEF NewStream, TypeOK
<1>10. CASE NewStreamFails(k)
  <2>1. [daemon[k] EXCEPT !.pc = "responding", !.resp = "error"] \in DaemonStates
    BY <1>10, <1>d DEF DaemonStates, Responses
  <2> QED BY <1>10, <2>1 DEF NewStreamFails, TypeOK
<1>11. CASE Park(k)
  <2>1. [daemon[k] EXCEPT !.pc = "parked"] \in DaemonStates
    BY <1>11, <1>d DEF DaemonStates, Responses
  <2> QED BY <1>11, <2>1 DEF Park, TypeOK
<1>12. CASE TakeResponse(k)
  <2>a. daemon[k].exchange = "sendResp" => stream[k].data \in Answers
    BY DEF CallOK, AnswerCarried
  <2>1. [daemon[k] EXCEPT !.pc = "responding", !.exchange = "closed",
          !.resp = IF daemon[k].exchange = "sendResp" THEN stream[k].data ELSE "error"]
          \in DaemonStates
    <3>1. (IF daemon[k].exchange = "sendResp" THEN stream[k].data ELSE "error") \in Responses
      BY <2>a DEF Responses
    <3>2. \A r \in Responses :
            [daemon[k] EXCEPT !.pc = "responding", !.exchange = "closed", !.resp = r]
              \in DaemonStates
      BY <1>d DEF DaemonStates
    <3> QED BY <3>1, <3>2
  <2>2. [stream[k] EXCEPT !.closed = TRUE] \in StreamStates
    BY <1>12, <1>s DEF StreamStates, Answers
  <2> QED BY <1>12, <2>1, <2>2 DEF TakeResponse, TypeOK
<1>13. CASE TakeCancel(k)
  <2>1. [daemon[k] EXCEPT !.pc = "responding", !.resp = "cancel"] \in DaemonStates
    BY <1>13, <1>d DEF DaemonStates, Responses
  <2>2. [stream[k] EXCEPT !.closed = TRUE] \in StreamStates
    BY <1>13, <1>s DEF StreamStates, Answers
  <2> QED BY <1>13, <2>1, <2>2 DEF TakeCancel, Returns, TypeOK
<1>14. CASE TakeClosed(k)
  <2>1. [daemon[k] EXCEPT !.pc = "responding", !.resp = "nil"] \in DaemonStates
    BY <1>14, <1>d DEF DaemonStates, Responses
  <2>2. [stream[k] EXCEPT !.closed = TRUE] \in StreamStates
    BY <1>14, <1>s DEF StreamStates, Answers
  <2> QED BY <1>14, <2>1, <2>2 DEF TakeClosed, Returns, TypeOK
<1>15. CASE Respond(k)
  <2>1. [daemon[k] EXCEPT !.pc = "done", !.stored = FALSE,
          !.sent = IF callerUp THEN daemon[k].resp ELSE "none", !.ctxDone = TRUE]
          \in DaemonStates
    BY <1>d DEF DaemonStates
  <2> QED BY <1>15, <2>1 DEF Respond, TypeOK
<1>16. CASE ExchangeWrite(k)
  <2>1. [stream[k] EXCEPT !.data = "request"] \in StreamStates
    BY <1>16, <1>s DEF StreamStates, Answers
  <2>2. [daemon[k] EXCEPT !.exchange = "closed"] \in DaemonStates
    BY <1>16, <1>d DEF DaemonStates, Responses
  <2>3. [daemon[k] EXCEPT !.exchange = "reading"] \in DaemonStates
    BY <1>16, <1>d DEF DaemonStates, Responses
  <2>4. [daemon[k] EXCEPT !.exchange = "sendErr"] \in DaemonStates
    BY <1>16, <1>d DEF DaemonStates, Responses
  <2> QED BY <1>16, <2>1, <2>2, <2>3, <2>4 DEF ExchangeWrite, TypeOK
<1>17. ASSUME NEW ok, ReadDone(k, ok) PROVE TypeOK'
  <2>1. [daemon[k] EXCEPT !.exchange = "closed"] \in DaemonStates
    BY <1>17, <1>d DEF DaemonStates, Responses
  <2>2. [daemon[k] EXCEPT !.exchange = "sendResp"] \in DaemonStates
    BY <1>17, <1>d DEF DaemonStates, Responses
  <2>3. [daemon[k] EXCEPT !.exchange = "sendErr"] \in DaemonStates
    BY <1>17, <1>d DEF DaemonStates, Responses
  <2> QED BY <1>17, <2>1, <2>2, <2>3 DEF ReadDone, TypeOK
<1>18. CASE ExchangeGivesUp(k)
  <2>1. [daemon[k] EXCEPT !.exchange = "closed"] \in DaemonStates
    BY <1>18, <1>d DEF DaemonStates, Responses
  <2> QED BY <1>18, <2>1 DEF ExchangeGivesUp, TypeOK
<1>19. CASE CancelCall(k)
  <2>1. [daemon[k] EXCEPT !.canceller = "done"] \in DaemonStates
    BY <1>19, <1>d DEF DaemonStates, Responses
  <2>2. [daemon[k] EXCEPT !.canceller = "done", !.ctxDone = TRUE] \in DaemonStates
    BY <1>19, <1>d DEF DaemonStates, Responses
  <2>3. [daemon[k] EXCEPT !.canceller = "done", !.ctxDone = TRUE,
          !.pc = "responding", !.resp = "cancel"] \in DaemonStates
    BY <1>19, <1>d DEF DaemonStates, Responses
  <2>4. [stream[k] EXCEPT !.closed = TRUE] \in StreamStates
    BY <1>19, <1>s DEF StreamStates, Answers
  <2>5. daemon' \in [Calls -> DaemonStates]
    BY <1>19, <2>1, <2>2, <2>3 DEF CancelCall, TypeOK
  <2>6. stream' \in [Calls -> StreamStates]
    BY <1>19, <2>4 DEF CancelCall, TypeOK
  <2> QED BY <1>19, <2>5, <2>6 DEF CancelCall, TypeOK
<1>20. CASE Accept(k)
  <2>1. [remote[k] EXCEPT !.pc = "stored", !.waiter = TRUE] \in RemoteStates
    BY <1>20, <1>r DEF RemoteStates, Answers
  <2> QED BY <1>20, <2>1 DEF Accept, TypeOK
<1>21. CASE HandToClient(k)
  <2>1. [remote[k] EXCEPT !.pc = "waiting", !.exec = "running"] \in RemoteStates
    BY <1>21, <1>r DEF RemoteStates, Answers
  <2>2. [remote[k] EXCEPT !.pc = "done", !.waiter = FALSE] \in RemoteStates
    BY <1>21, <1>r DEF RemoteStates, Answers
  <2>3. [stream[k] EXCEPT !.data = "eof"] \in StreamStates
    BY <1>21, <1>s DEF StreamStates, Answers
  <2>4. remote' \in [Calls -> RemoteStates] /\ stream' \in [Calls -> StreamStates]
    <3>1. CASE handlerUp
      BY <1>21, <2>1, <3>1 DEF HandToClient, TypeOK
    <3>2. CASE ~handlerUp
      BY <1>21, <2>2, <2>3, <3>2 DEF HandToClient, TypeOK
    <3> QED BY <3>1, <3>2
  <2> QED BY <1>21, <2>4 DEF HandToClient, TypeOK
<1>22. CASE CallerGone(k)
  <2>a. handlerUp \in BOOLEAN BY DEF TypeOK
  <2>1. [remote[k] EXCEPT !.pc = "done", !.waiter = FALSE, !.cancelled = handlerUp]
          \in RemoteStates
    BY <2>a, <1>r DEF RemoteStates, Answers
  <2>2. [stream[k] EXCEPT !.data = "eof"] \in StreamStates
    BY <1>22, <1>s DEF StreamStates, Answers
  <2> QED BY <1>22, <2>1, <2>2 DEF CallerGone, TypeOK
<1>23. CASE ReceiveAnswer(k)
  <2>1. [remote[k] EXCEPT !.pc = "answering", !.sender = "sent"] \in RemoteStates
    BY <1>23, <1>r DEF RemoteStates, Answers
  <2> QED BY <1>23, <2>1 DEF ReceiveAnswer, TypeOK
<1>24. CASE WriteAnswer(k)
  <2>1. [remote[k] EXCEPT !.pc = "done", !.waiter = FALSE] \in RemoteStates
    BY <1>24, <1>r DEF RemoteStates, Answers
  <2>a. remote[k].answer \in Answers
    BY <1>24, <1>r DEF WriteAnswer, RemoteStates, Answers, CallOK, HandlerOnce
  <2>2. [stream[k] EXCEPT !.data = IF Cut(k) THEN "eof" ELSE remote[k].answer]
          \in StreamStates
    BY <2>a, <1>s DEF StreamStates, Answers
  <2> QED BY <1>24, <2>1, <2>2 DEF WriteAnswer, TypeOK
<1>25. CASE HandlerReturns(k)
  <2>1. \A a \in Answers :
          [remote[k] EXCEPT !.exec = "finished", !.answer = a, !.sender = "spawned"]
            \in RemoteStates
    BY <1>r DEF RemoteStates
  <2>2. PICK a \in Answers :
          remote' = [remote EXCEPT ![k] = [remote[k] EXCEPT !.exec = "finished",
                                                           !.answer = a,
                                                           !.sender = "spawned"]]
    BY <1>25 DEF HandlerReturns, TypeOK
  <2>3. remote' \in [Calls -> RemoteStates]
    BY <2>1, <2>2 DEF TypeOK
  <2> QED BY <1>25, <2>3 DEF HandlerReturns, TypeOK
<1>26. CASE sendReponseToRemote(k)
  <2>1. [remote[k] EXCEPT !.sender = IF remote[k].waiter THEN "blocked" ELSE "dropped"]
          \in RemoteStates
    BY <1>26, <1>r DEF RemoteStates, Answers
  <2> QED BY <1>26, <2>1 DEF sendReponseToRemote, TypeOK
<1>27. CASE StreamBreaks(k)
  <2>1. [stream[k] EXCEPT !.broken = TRUE] \in StreamStates
    BY <1>27, <1>s DEF StreamStates, Answers
  <2> QED BY <1>27, <2>1 DEF StreamBreaks, TypeOK
<1>28. CASE AcceptFails(k)
  <2>1. [remote[k] EXCEPT !.pc = "done"] \in RemoteStates
    BY <1>28, <1>r DEF RemoteStates, Answers
  <2>2. [stream[k] EXCEPT !.data = "eof"] \in StreamStates
    BY <1>28, <1>s DEF StreamStates, Answers
  <2> QED BY <1>28, <2>1, <2>2 DEF AcceptFails, TypeOK
<1> QED BY <1>1, <1>2, <1>3, <1>4, <1>5, <1>6, <1>7, <1>8, <1>9, <1>10, <1>11,
           <1>12, <1>13, <1>14, <1>15, <1>16, <1>17, <1>18, <1>19, <1>20, <1>21,
           <1>22, <1>23, <1>24, <1>25, <1>26, <1>27, <1>28
        DEF Step, ClientStep, FinishStep, CallStep, ExchangeStep, CallbackStep, ExchangeRead

(***************************************************************************)
(* Every step of a call keeps what is known of that call, goroutine by     *)
(* goroutine.                                                              *)
(***************************************************************************)
LEMMA LocalStep == ASSUME TypeOK, NEW k \in Calls, CallOK(k), Step(k) PROVE CallOK(k)'
<1> USE DEF TypeOK, ClientStates, DaemonStates, StreamStates, RemoteStates, Answers,
            Responses, Outcomes, CallOK, Before, HandlerOnce, AnswerCarried, CancelTraced,
            Cut
<1>1. CASE Invoke(k)
  BY <1>1 DEF Invoke
<1>2. CASE Expire(k)
  BY <1>2 DEF Expire
<1>3. CASE HelperCancels(k)
  BY <1>3 DEF HelperCancels
<1>4. CASE Deliver(k)
  BY <1>4 DEF Deliver, failureOf
<1>5. CASE FinishValue(k)
  BY <1>5 DEF FinishValue
<1>6. CASE FinishExpired(k)
  BY <1>6 DEF FinishExpired
<1>7. CASE FinishPanics(k)
  BY <1>7 DEF FinishPanics
<1>8. CASE StoreCancel(k)
  BY <1>8 DEF StoreCancel
<1>9. CASE NewStream(k)
  BY <1>9 DEF NewStream
<1>10. CASE NewStreamFails(k)
  BY <1>10 DEF NewStreamFails
<1>11. CASE Park(k)
  BY <1>11 DEF Park
<1>12. CASE TakeResponse(k)
  BY <1>12 DEF TakeResponse
<1>13. CASE TakeCancel(k)
  BY <1>13 DEF TakeCancel, Returns
<1>14. CASE TakeClosed(k)
  BY <1>14 DEF TakeClosed, Returns
<1>15. CASE Respond(k)
  BY <1>15 DEF Respond
<1>16. CASE ExchangeWrite(k)
  BY <1>16 DEF ExchangeWrite
<1>17. CASE ExchangeRead(k)
  BY <1>17 DEF ExchangeRead, ReadDone
<1>18. CASE StreamBreaks(k)
  BY <1>18 DEF StreamBreaks
<1>19. CASE ExchangeGivesUp(k)
  BY <1>19 DEF ExchangeGivesUp
<1>20. CASE CancelCall(k)
  BY <1>20 DEF CancelCall
<1>21. CASE Accept(k)
  BY <1>21 DEF Accept
<1>22. CASE HandToClient(k)
  BY <1>22 DEF HandToClient
<1>23. CASE CallerGone(k)
  BY <1>23 DEF CallerGone
<1>24. CASE ReceiveAnswer(k)
  BY <1>24 DEF ReceiveAnswer
<1>25. CASE WriteAnswer(k)
  BY <1>25 DEF WriteAnswer
<1>26. CASE HandlerReturns(k)
  BY <1>26 DEF HandlerReturns
<1>27. CASE sendReponseToRemote(k)
  BY <1>27 DEF sendReponseToRemote
<1>28. CASE AcceptFails(k)
  BY <1>28 DEF AcceptFails
<1> QED BY <1>1, <1>2, <1>3, <1>4, <1>5, <1>6, <1>7, <1>8, <1>9, <1>10, <1>11,
           <1>12, <1>13, <1>14, <1>15, <1>16, <1>17, <1>18, <1>19, <1>20, <1>21,
           <1>22, <1>23, <1>24, <1>25, <1>26, <1>27, <1>28
        DEF Step, ClientStep, FinishStep, CallStep, ExchangeStep, CallbackStep

(***************************************************************************)
(* A step of one call leaves the records of every other call alone.        *)
(***************************************************************************)
LEMMA OthersUntouched ==
    ASSUME TypeOK, NEW k \in Calls, Step(k), NEW j \in Calls, j # k
    PROVE  /\ client'[j] = client[j] /\ daemon'[j] = daemon[j]
           /\ stream'[j] = stream[j] /\ remote'[j] = remote[j]
<1> USE DEF TypeOK
<1>1. CASE Invoke(k) \/ Expire(k) \/ ClientStep(k)
  BY <1>1 DEF Invoke, Expire, ClientStep, FinishStep, HelperCancels, Deliver, FinishValue,
              FinishExpired, FinishPanics
<1>2. CASE CallStep(k)
  BY <1>2 DEF CallStep, StoreCancel, NewStream, NewStreamFails, Park, TakeResponse,
              TakeCancel, TakeClosed, Returns, Respond
<1>3. CASE ExchangeStep(k) \/ StreamBreaks(k) \/ CancelCall(k)
  BY <1>3 DEF ExchangeStep, ExchangeWrite, ExchangeRead, ReadDone, ExchangeGivesUp,
              StreamBreaks, CancelCall
<1>4. CASE CallbackStep(k) \/ HandlerReturns(k) \/ sendReponseToRemote(k)
  BY <1>4 DEF CallbackStep, Accept, AcceptFails, HandToClient, CallerGone, ReceiveAnswer, WriteAnswer,
              HandlerReturns, sendReponseToRemote
<1> QED BY <1>1, <1>2, <1>3, <1>4 DEF Step

(***************************************************************************)
(* A process crashes only in a step of a call whose context is done, and   *)
(* an expired context stays expired.                                       *)
(***************************************************************************)
LEMMA CrashStep ==
    ASSUME TypeOK, NEW k \in Calls, CallOK(k), Step(k)
    PROVE  /\ client[k].expired => client'[k].expired
           /\ crashed' # crashed => client'[k].expired
<1>1. CASE FinishPanics(k)
  BY <1>1 DEF FinishPanics, TypeOK, ClientStates, CallOK, CancelTraced
<1>2. CASE Respond(k)
  BY <1>2 DEF Respond, CallOK, CancelTraced
<1>3. CASE /\ UNCHANGED crashed
           /\ \/ UNCHANGED client
              \/ Invoke(k) \/ Expire(k) \/ HelperCancels(k) \/ Deliver(k)
              \/ FinishValue(k) \/ FinishExpired(k)
  BY <1>3 DEF TypeOK, ClientStates, Invoke, Expire, HelperCancels, Deliver, FinishValue,
              FinishExpired
<1>4. \/ Invoke(k) \/ Expire(k) \/ HelperCancels(k) \/ Deliver(k)
      \/ FinishValue(k) \/ FinishExpired(k)
      => UNCHANGED crashed
  BY DEF Invoke, Expire, HelperCancels, Deliver, FinishValue, FinishExpired
<1>5. \/ (CallStep(k) /\ ~Respond(k))
      \/ ExchangeStep(k) \/ CancelCall(k) \/ StreamBreaks(k)
      \/ CallbackStep(k) \/ HandlerReturns(k) \/ sendReponseToRemote(k)
      => UNCHANGED <<client, crashed>>
  BY DEF CallStep, StoreCancel, NewStream, NewStreamFails, Park, TakeResponse, TakeCancel,
         TakeClosed, ExchangeStep, ExchangeWrite, ExchangeRead, ReadDone,
         ExchangeGivesUp, StreamBreaks, CancelCall, CallbackStep, Accept, AcceptFails, HandToClient,
         CallerGone, ReceiveAnswer, WriteAnswer, HandlerReturns, sendReponseToRemote
<1> QED BY <1>1, <1>2, <1>3, <1>4, <1>5 DEF Step, ClientStep, FinishStep

(***************************************************************************)
(* What is known of a call only depends on the records of that call.       *)
(***************************************************************************)
LEMMA Frame ==
    ASSUME NEW j \in Calls, CallOK(j),
           client'[j] = client[j], daemon'[j] = daemon[j],
           stream'[j] = stream[j], remote'[j] = remote[j]
    PROVE  CallOK(j)'
BY DEF CallOK, Before, HandlerOnce, AnswerCarried, CancelTraced, Cut

(***************************************************************************)
(* Before any call the inductive invariant holds.                          *)
(***************************************************************************)
LEMMA InitIndInv == Init => IndInv
<1> SUFFICES ASSUME Init PROVE IndInv
    OBVIOUS
<1>1. TypeOK
  BY DEF Init, TypeOK, ClientStates, DaemonStates, StreamStates, RemoteStates
<1>2. \A k \in Calls : CallOK(k)
  BY DEF Init, CallOK, Before, HandlerOnce, AnswerCarried, CancelTraced, Answers
<1> QED BY <1>1, <1>2 DEF Init, IndInv

(***************************************************************************)
(* The inductive invariant holds in every reachable state: the step is one *)
(* of some call k, which keeps CallOK(k) and touches no other call; or the *)
(* serving client leaves, or the caller's connection is lost; or nothing   *)
(* happens.                                                                *)
(***************************************************************************)
THEOREM Invariance == Spec => []IndInv
<1>1. IndInv /\ [Next]_vars => IndInv'
  <2> SUFFICES ASSUME IndInv, [Next]_vars PROVE IndInv'
    OBVIOUS
  <2>1. ASSUME NEW k \in Calls, Step(k) PROVE IndInv'
    <3>1. TypeOK' BY <2>1, TypeStep DEF IndInv
    <3>2. CallOK(k)' BY <2>1, LocalStep DEF IndInv
    <3>3. ASSUME NEW j \in Calls, j # k PROVE CallOK(j)'
      BY <2>1, <3>3, OthersUntouched, Frame DEF IndInv
    <3>4. crashed' # "no" => \E j \in Calls : client'[j].expired
      BY <2>1, CrashStep, OthersUntouched DEF IndInv
    <3> QED BY <3>1, <3>2, <3>3, <3>4 DEF IndInv
  <2>2. CASE HandlerLeaves \/ CallerDrops
    <3>1. TypeOK' BY <2>2 DEF HandlerLeaves, CallerDrops, IndInv, TypeOK
    <3>2. \A j \in Calls : CallOK(j)' BY <2>2, Frame DEF HandlerLeaves, CallerDrops, IndInv
    <3> QED BY <2>2, <3>1, <3>2 DEF HandlerLeaves, CallerDrops, IndInv
  <2>3. CASE UNCHANGED vars
    <3>1. TypeOK' BY <2>3 DEF vars, IndInv, TypeOK
    <3>2. \A j \in Calls : CallOK(j)' BY <2>3, Frame DEF vars, IndInv
    <3> QED BY <2>3, <3>1, <3>2 DEF vars, IndInv
  <2> QED BY <2>1, <2>2, <2>3 DEF Next, Step, Idle
<1> QED BY InitIndInv, <1>1, PTL DEF Spec

(***************************************************************************)
(* CallUnaryHandler returns what the handler answered, with any number of  *)
(* calls sharing the connections.                                          *)
(***************************************************************************)
THEOREM AnswerSafe == Spec => []AnswerFaithful
<1>1. ASSUME IndInv, NEW k \in Calls
      PROVE  /\ client[k].outcome = "value" => remote[k].answer = "value"
             /\ client[k].outcome = "handlerError" => remote[k].answer = "failure"
             /\ client[k].outcome = "empty" => remote[k].answer = "blank"
  <2>1. AnswerCarried(k) BY <1>1 DEF IndInv, CallOK
  <2> QED BY <2>1 DEF AnswerCarried, Answers
<1>2. IndInv => AnswerFaithful
  BY <1>1 DEF AnswerFaithful
<1> QED BY <1>2, Invariance, PTL

(***************************************************************************)
(* No call is reported as cancelled unless its context is done, and a      *)
(* goroutine of a call is left behind only in the cases that               *)
(* StrandedOnlyIfCut names.                                                *)
(***************************************************************************)
THEOREM CallSafe == Spec => []CallInv
<1>1. IndInv => CancelledOnlyIfExpired
  BY DEF IndInv, CallOK, CancelTraced, CancelledOnlyIfExpired
<1>2. ASSUME IndInv, NEW k \in Calls
      PROVE  /\ remote[k].sender = "blocked" /\ remote[k].pc = "done" => Cut(k)
             /\ /\ daemon[k].exchange = "sendErr"
                /\ daemon[k].pc \in {"responding", "done"}
                => daemon[k].resp = "cancel"
             /\ /\ client[k].pc = "returned" /\ client[k].helper # "closed"
                /\ ~client[k].expired
                => client[k].outcome \in {"daemonError", "handlerError"}
  <2>1. HandlerOnce(k) /\ CancelTraced(k) /\ AnswerCarried(k)
    BY <1>2 DEF IndInv, CallOK
  <2>2. client[k].outcome \in Outcomes \cup {"none"}
    BY <1>2 DEF IndInv, TypeOK, ClientStates
  <2> QED BY <2>1, <2>2 DEF HandlerOnce, CancelTraced, AnswerCarried, Outcomes
<1>4. IndInv => StrandedOnlyIfCut
  BY <1>2 DEF StrandedOnlyIfCut
<1>3. IndInv => CallInv
  BY <1>1, <1>4 DEF IndInv, CallInv
<1> QED BY <1>3, Invariance, PTL

(***************************************************************************)
(* A process panics only when the context of a call is done, and the       *)
(* daemon holds a nil answer only for a call whose Cancel it has served.   *)
(***************************************************************************)
THEOREM CrashSafe == Spec => []CrashOnlyIfExpired
<1>1. IndInv => CrashOnlyIfExpired
  BY DEF IndInv, CallOK, CancelTraced, CrashOnlyIfExpired
<1> QED BY <1>1, Invariance, PTL

(***************************************************************************)
(* The two clients and two daemons implement UnaryService: every step is   *)
(* one of the service's, or changes nothing its two ends can see.          *)
(***************************************************************************)
THEOREM ImplementsService == Spec => ServiceSpec
<1> DEFINE phase == [k \in Calls |->
                       IF client[k].pc \in {"waiting", "gotResult"} THEN "invoked"
                       ELSE client[k].pc]
           expired == [k \in Calls |-> client[k].expired]
           outcome == [k \in Calls |-> client[k].outcome]
           exec == [k \in Calls |-> remote[k].exec]
           answer == [k \in Calls |-> remote[k].answer]
           seen == <<phase, expired, outcome, exec, answer>>
<1>1. Init => Service!Init
  BY DEF Init, Service!Init
<1>2. IndInv /\ [Next]_vars => [Service!Next]_(Service!vars)
  <2> SUFFICES ASSUME IndInv, [Next]_vars PROVE Service!Next \/ UNCHANGED seen
    BY DEF Service!vars
  <2> USE DEF IndInv, TypeOK
  <2>0. client \in [Calls -> ClientStates] /\ remote \in [Calls -> RemoteStates]
    OBVIOUS
  <2>1. ASSUME NEW k \in Calls, Invoke(k) PROVE Service!Invoke(k)
    BY <2>1 DEF Invoke, Service!Invoke, ClientStates
  <2>2. ASSUME NEW k \in Calls, Expire(k) PROVE Service!Expire(k)
    BY <2>2 DEF Expire, Service!Expire, ClientStates
  <2>3. ASSUME NEW k \in Calls, HandToClient(k) PROVE Service!Start(k) \/ UNCHANGED seen
    <3>1. phase[k] # "idle" /\ exec[k] = "none"
      BY <2>3 DEF HandToClient, ClientStates, CallOK, Before, HandlerOnce, Answers
    <3>2. UNCHANGED <<phase, expired, outcome>>
      BY <2>3 DEF HandToClient
    <3>3. CASE handlerUp
      <4>1. remote' = [remote EXCEPT ![k].pc = "waiting", ![k].exec = "running"]
        BY <2>3, <3>3 DEF HandToClient
      <4>2. exec' = [exec EXCEPT ![k] = "running"]
        BY ONLY <2>0, <4>1 DEF RemoteStates
      <4>3. UNCHANGED answer
        BY ONLY <2>0, <4>1 DEF RemoteStates
      <4> QED BY <3>1, <3>2, <4>2, <4>3 DEF Service!Start
    <3>4. CASE ~handlerUp
      <4>1. remote' = [remote EXCEPT ![k].pc = "done", ![k].waiter = FALSE]
        BY <2>3, <3>4 DEF HandToClient
      <4>2. UNCHANGED <<exec, answer>>
        BY ONLY <2>0, <4>1 DEF RemoteStates
      <4> QED BY <3>2, <4>2
    <3> QED BY <3>3, <3>4
  <2>4. ASSUME NEW k \in Calls, HandlerReturns(k) PROVE Service!Finish(k)
    <3>1. UNCHANGED <<phase, expired, outcome>>
      BY <2>4 DEF HandlerReturns
    <3>2. PICK a \in Answers : remote' = [remote EXCEPT ![k].exec = "finished",
                                           ![k].answer = a, ![k].sender = "spawned"]
      BY <2>4 DEF HandlerReturns
    <3>3. exec[k] = "running"
      BY <2>4 DEF HandlerReturns
    <3>4. exec' = [exec EXCEPT ![k] = "finished"] /\ answer' = [answer EXCEPT ![k] = a]
      BY ONLY <2>0, <3>2 DEF RemoteStates
    <3> QED BY <3>1, <3>3, <3>4 DEF Service!Finish, Answers
  <2>5. ASSUME NEW k \in Calls,
               Deliver(k) \/ FinishValue(k) \/ FinishExpired(k) \/ FinishPanics(k)
        PROVE  Service!Return(k) \/ UNCHANGED seen
    <3>1. UNCHANGED <<exec, answer>>
      BY <2>5 DEF Deliver, FinishValue, FinishExpired, FinishPanics
    <3>2. UNCHANGED expired
      <4>1. \A j \in Calls : client'[j].expired = client[j].expired
        BY <2>5 DEF Deliver, FinishValue, FinishExpired, FinishPanics, ClientStates
      <4> QED BY <4>1
    <3>3. phase[k] = "invoked"
      BY <2>5 DEF Deliver, FinishValue, FinishExpired, FinishPanics
    <3>4. CASE UNCHANGED <<phase, outcome>>
      BY <3>1, <3>2, <3>4
    <3>5. ASSUME NEW o, phase' = [phase EXCEPT ![k] = "returned"],
                 outcome' = [outcome EXCEPT ![k] = o], Service!MayReturn(k, o)
          PROVE  Service!Return(k)
      BY <3>1, <3>2, <3>3, <3>5 DEF Service!Return, Service!MayReturn
    <3>a. ASSUME NEW o, client' = [client EXCEPT ![k].pc = "returned", ![k].outcome = o]
          PROVE  /\ phase' = [phase EXCEPT ![k] = "returned"]
                 /\ outcome' = [outcome EXCEPT ![k] = o]
      BY ONLY <2>0, <3>a DEF ClientStates
    <3>6. AnswerCarried(k) /\ CancelTraced(k)
      BY DEF CallOK
    <3>7. CASE Deliver(k)
      <4>1. CASE daemon[k].sent \in {"value", "blank"}
        BY <3>4, <3>7, <4>1 DEF Deliver, ClientStates
      <4>2. CASE daemon[k].sent \notin {"value", "blank"}
        <5>1. daemon[k].sent \in {"error", "failure", "cancel"}
          BY <3>6, <3>7, <4>2 DEF Deliver, AnswerCarried, DaemonStates, Responses, Answers
        <5>2. Service!MayReturn(k, failureOf(k))
          BY <3>6, <5>1 DEF AnswerCarried, CancelTraced, Answers, failureOf, Service!MayReturn
        <5>3. client' = [client EXCEPT ![k].pc = "returned", ![k].outcome = failureOf(k)]
          BY <3>7, <4>2 DEF Deliver
        <5>4. /\ phase' = [phase EXCEPT ![k] = "returned"]
              /\ outcome' = [outcome EXCEPT ![k] = failureOf(k)]
          BY <5>3, <3>a
        <5> QED BY <3>5, <5>2, <5>4
      <4> QED BY <4>1, <4>2
    <3>8. CASE FinishValue(k)
      <4> DEFINE o == IF daemon[k].sent = "value" THEN "value" ELSE "empty"
      <4>1. Service!MayReturn(k, o)
        BY <3>6, <3>8 DEF FinishValue, AnswerCarried, Answers, Service!MayReturn
      <4>2. /\ phase' = [phase EXCEPT ![k] = "returned"]
            /\ outcome' = [outcome EXCEPT ![k] = o]
        BY <3>8 DEF FinishValue, ClientStates
      <4> QED BY <3>5, <4>1, <4>2
    <3>9. CASE FinishExpired(k)
      <4>1. Service!MayReturn(k, "ctxErr")
        BY <3>9 DEF FinishExpired, Service!MayReturn
      <4>2. /\ phase' = [phase EXCEPT ![k] = "returned"]
            /\ outcome' = [outcome EXCEPT ![k] = "ctxErr"]
        BY <3>9, <3>a DEF FinishExpired
      <4> QED BY <3>5, <4>1, <4>2
    <3>10. CASE FinishPanics(k)
      <4>1. Service!MayReturn(k, "panic")
        BY <3>6, <3>10 DEF FinishPanics, CancelTraced, Service!MayReturn
      <4>2. /\ phase' = [phase EXCEPT ![k] = "returned"]
            /\ outcome' = [outcome EXCEPT ![k] = "panic"]
        BY <3>10, <3>a DEF FinishPanics
      <4> QED BY <3>5, <4>1, <4>2
    <3> QED BY <2>5, <3>7, <3>8, <3>9, <3>10
  <2>6. ASSUME NEW k \in Calls, HelperCancels(k) PROVE UNCHANGED seen
    BY <2>6 DEF HelperCancels, ClientStates
  <2>7. ASSUME NEW k \in Calls,
               \/ Accept(k) \/ AcceptFails(k) \/ CallerGone(k) \/ ReceiveAnswer(k) \/ WriteAnswer(k)
               \/ sendReponseToRemote(k)
        PROVE  UNCHANGED seen
    <3>1. UNCHANGED client
      BY <2>7 DEF Accept, AcceptFails, CallerGone, ReceiveAnswer, WriteAnswer, sendReponseToRemote
    <3>2. \A j \in Calls : /\ remote'[j].exec = remote[j].exec
                           /\ remote'[j].answer = remote[j].answer
      <4>1. CASE Accept(k) BY <4>1 DEF Accept, RemoteStates
      <4>2. CASE CallerGone(k) BY <4>2 DEF CallerGone, RemoteStates
      <4>3. CASE ReceiveAnswer(k) BY <4>3 DEF ReceiveAnswer, RemoteStates
      <4>4. CASE WriteAnswer(k) BY <4>4 DEF WriteAnswer, RemoteStates
      <4>5. CASE sendReponseToRemote(k) BY <4>5 DEF sendReponseToRemote, RemoteStates
      <4>6. CASE AcceptFails(k) BY <4>6 DEF AcceptFails, RemoteStates
      <4> QED BY <2>7, <4>1, <4>2, <4>3, <4>4, <4>5, <4>6
    <3> QED BY <3>1, <3>2
  <2>8. CASE UNCHANGED <<client, remote>>
    BY <2>8
  <2>9. ASSUME NEW k \in Calls,
               CallStep(k) \/ ExchangeStep(k) \/ CancelCall(k) \/ StreamBreaks(k)
        PROVE  UNCHANGED <<client, remote>>
    BY <2>9 DEF CallStep, StoreCancel, NewStream, NewStreamFails, Park, TakeResponse,
                TakeCancel, TakeClosed, Respond, ExchangeStep, ExchangeWrite,
                ExchangeRead, ReadDone, ExchangeGivesUp, StreamBreaks, CancelCall
  <2>10. HandlerLeaves \/ CallerDrops \/ Idle => UNCHANGED <<client, remote>>
    BY DEF HandlerLeaves, CallerDrops, Idle, vars
  <2> HIDE DEF IndInv, TypeOK
  <2> QED BY <2>1, <2>2, <2>3, <2>4, <2>5, <2>6, <2>7, <2>8, <2>9, <2>10
          DEF Next, vars, ClientStep, FinishStep, CallbackStep, Service!Next
<1> QED BY <1>1, <1>2, Invariance, PTL DEF Spec, ServiceSpec, Service!Spec
=============================================================================
