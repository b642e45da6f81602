-------------------------- MODULE ProtocolRegistry --------------------------
(***************************************************************************)
(* What the daemon promises about unary protocols, with no goroutine, list *)
(* or host in sight: a protocol has at most one owner; it is taken only    *)
(* when it is free; it becomes free only when its owner retires, which     *)
(* every connection does at most once.  A retiring connection may leave    *)
(* some of its protocols behind (it does when it retires in the middle of  *)
(* a registration), and never touches what belongs to another one.         *)
(***************************************************************************)
CONSTANTS Conns, Protos, NoConn

VARIABLES
    owner,      \* the connection that holds each protocol
    retired     \* the connections that have given theirs up

vars == <<owner, retired>>

Init ==
    /\ owner = [p \in Protos |-> NoConn]
    /\ retired = {}

Acquire(c, p) ==
    /\ owner[p] = NoConn
    /\ owner' = [owner EXCEPT ![p] = c]
    /\ UNCHANGED retired

Retire(c, ps) ==
    /\ c \notin retired
    /\ \A p \in ps : owner[p] = c
    /\ owner' = [p \in Protos |-> IF p \in ps THEN NoConn ELSE owner[p]]
    /\ retired' = retired \cup {c}

Next ==
    \E c \in Conns :
      \/ \E p \in Protos : Acquire(c, p)
      \/ \E ps \in SUBSET Protos : Retire(c, ps)

Spec == Init /\ [][Next]_vars
=============================================================================
