-------------------------- MODULE ExactlyOnceGrant --------------------------
(***************************************************************************)
(* What settling a purchase promises, with nothing of how: a purchase is   *)
(* opened for a fixed number of credits, and closed once, either by        *)
(* granting exactly those credits or by granting nothing.  Purchases.tla   *)
(* implements it with a database, a payment provider and webhooks.         *)
(***************************************************************************)
EXTENDS Integers

CONSTANTS Purchases, Amounts

VARIABLES status, credits, granted

vars == <<status, credits, granted>>

Init ==
    /\ status = [p \in Purchases |-> "absent"]
    /\ credits = [p \in Purchases |-> 0]
    /\ granted = [p \in Purchases |-> 0]

Open(p) ==
    /\ status[p] = "absent"
    /\ status' = [status EXCEPT ![p] = "pending"]
    /\ \E c \in Amounts : credits' = [credits EXCEPT ![p] = c]
    /\ UNCHANGED granted

Grant(p) ==
    /\ status[p] = "pending"
    /\ status' = [status EXCEPT ![p] = "succeeded"]
    /\ granted' = [granted EXCEPT ![p] = credits[p]]
    /\ UNCHANGED credits

Close(p) ==
    /\ status[p] = "pending"
    /\ \E o \in {"failed", "cancelled"} : status' = [status EXCEPT ![p] = o]
    /\ UNCHANGED <<credits, granted>>

Next == \E p \in Purchases : Open(p) \/ Grant(p) \/ Close(p)

Spec == Init /\ [][Next]_vars
=============================================================================
