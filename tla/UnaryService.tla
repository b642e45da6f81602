---------------------------- MODULE UnaryService ----------------------------
(***************************************************************************)
(* What a unary call is, seen from its two ends: the handler runs at most  *)
(* once, never before the call was made; the call returns once; a result   *)
(* is the handler's result and comes before the context expires; an error  *)
(* of the handler is the handler's error, or an empty result when it has   *)
(* no message; a context error needs an expired context.  A daemon error   *)
(* can always happen and says nothing about whether the handler ran.  The  *)
(* caller may crash once the context has expired (CrashOnlyIfExpired in    *)
(* UnaryRPC).                                                              *)
(***************************************************************************)
CONSTANT Calls

VARIABLES phase, expired, outcome, exec, answer

vars == <<phase, expired, outcome, exec, answer>>

Init ==
    /\ phase = [k \in Calls |-> "idle"]
    /\ expired = [k \in Calls |-> FALSE]
    /\ outcome = [k \in Calls |-> "none"]
    /\ exec = [k \in Calls |-> "none"]
    /\ answer = [k \in Calls |-> "none"]

Invoke(k) ==
    /\ phase[k] = "idle"
    /\ phase' = [phase EXCEPT ![k] = "invoked"]
    /\ UNCHANGED <<expired, outcome, exec, answer>>

Expire(k) ==
    /\ phase[k] # "idle"
    /\ expired' = [expired EXCEPT ![k] = TRUE]
    /\ UNCHANGED <<phase, outcome, exec, answer>>

Start(k) ==
    /\ phase[k] # "idle"
    /\ exec[k] = "none"
    /\ exec' = [exec EXCEPT ![k] = "running"]
    /\ UNCHANGED <<phase, expired, outcome, answer>>

Finish(k) ==
    /\ exec[k] = "running"
    /\ exec' = [exec EXCEPT ![k] = "finished"]
    /\ \E a \in {"value", "failure", "blank"} : answer' = [answer EXCEPT ![k] = a]
    /\ UNCHANGED <<phase, expired, outcome>>

MayReturn(k, o) ==
    \/ o = "value" /\ answer[k] = "value" /\ ~expired[k]
    \/ o = "empty" /\ answer[k] = "blank" /\ ~expired[k]
    \/ o = "handlerError" /\ answer[k] = "failure"
    \/ o = "ctxErr" /\ expired[k]
    \/ o = "daemonError"
    \/ o = "panic" /\ expired[k]

Return(k) ==
    /\ phase[k] = "invoked"
    /\ phase' = [phase EXCEPT ![k] = "returned"]
    /\ \E o \in {"value", "empty", "handlerError", "ctxErr", "daemonError", "panic"} :
         /\ MayReturn(k, o)
         /\ outcome' = [outcome EXCEPT ![k] = o]
    /\ UNCHANGED <<expired, exec, answer>>

Next == \E k \in Calls : Invoke(k) \/ Expire(k) \/ Start(k) \/ Finish(k) \/ Return(k)

Spec == Init /\ [][Next]_vars
=============================================================================
