----------------------------- MODULE Purchases -----------------------------
(***************************************************************************)
(* Buying AI credits: internal/credits of the API.                         *)
(*                                                                         *)
(* A CreatePurchase request inserts a pending credit_purchases row, asks   *)
(* the payment provider for a hosted checkout, and stores the provider's   *)
(* intent id in the row.  The provider reports payment outcomes through    *)
(* webhooks: it delivers an event again until it is answered 200, and may  *)
(* deliver it again after that, in any order and concurrently.  Settle     *)
(* applies one event in a database transaction.                            *)
(*                                                                         *)
(* The statements of one request interleave with those of every other.     *)
(* The writes of a transaction become visible at its commit, its row lock  *)
(* (SELECT ... FOR UPDATE) and its unique-index entry before that.         *)
(***************************************************************************)
EXTENDS Integers, FiniteSets

CONSTANTS
    Purchases,    \* purchase ids, one per CreatePurchase request
    Packages,     \* rows of credit_packages
    Amounts,      \* credit amounts a package may be given
    Txns,         \* the provider's transaction references
    TxnsOf,       \* the references the provider may report for a checkout
    MaxAttempts,  \* bound: outcomes the provider reports for one checkout
    Handlers,     \* webhook requests served at one time
    NoTxn,        \* NULL in provider_transaction_id
    NoEvent       \* a webhook slot that serves no request

ASSUME AmountsAssumption == Amounts \subseteq Nat \ {0}
ASSUME TxnAssumption ==
    /\ TxnsOf \in [Purchases -> SUBSET Txns]
    /\ NoTxn \notin Txns
ASSUME BoundAssumption == MaxAttempts \in Nat

Outcomes == {"succeeded", "failed", "cancelled"}
Status   == {"absent", "pending"} \cup Outcomes
Running  == {"inserted", "session", "refused"}
Stages   == Running \cup {"idle", "open", "answered", "dead"}
PCs      == {"idle", "fast", "lock", "write", "commit"}

\* A verified TransactionResult; a checkout's intent id is named by its purchase.
Events == [intent : Purchases, txn : Txns, outcome : Outcomes]

ASSUME EventAssumption == NoEvent \notin Events

Successes(S) == {e \in S : e.outcome = "succeeded"}

VARIABLES
    catalog,   \* credit_packages.credits per package, 0: not enabled
    status,    \* credit_purchases.status, "absent" before the INSERT
    credits,   \* credit_purchases.credits
    linked,    \* credit_purchases.provider_intent_id has been stored
    txn,       \* credit_purchases.provider_transaction_id
    granted,   \* credits in credit_grants rows noted "purchase <id>"
    stage,     \* where the CreatePurchase request of a purchase is
    asked,     \* credits the provider's checkout was opened for, 0: no checkout
    reported,  \* events the provider has produced
    acked,     \* successes answered 200
    pc, job    \* webhook requests: control state, and the event they settle

rows  == <<status, credits, linked, txn, granted>>
hooks == <<pc, job>>
vars  == <<catalog, status, credits, linked, txn, granted, stage, asked,
           reported, acked, pc, job>>

TypeOK ==
    /\ catalog \in [Packages -> Amounts \cup {0}]
    /\ status \in [Purchases -> Status]
    /\ credits \in [Purchases -> Amounts \cup {0}]
    /\ linked \in [Purchases -> BOOLEAN]
    /\ txn \in [Purchases -> Txns \cup {NoTxn}]
    /\ granted \in [Purchases -> Nat]
    /\ stage \in [Purchases -> Stages]
    /\ asked \in [Purchases -> Amounts \cup {0}]
    /\ reported \subseteq Events
    /\ acked \subseteq reported
    /\ pc \in [Handlers -> PCs]
    /\ job \in [Handlers -> Events \cup {NoEvent}]

Init ==
    /\ catalog \in [Packages -> Amounts]
    /\ status = [p \in Purchases |-> "absent"]
    /\ credits = [p \in Purchases |-> 0]
    /\ linked = [p \in Purchases |-> FALSE]
    /\ txn = [p \in Purchases |-> NoTxn]
    /\ granted = [p \in Purchases |-> 0]
    /\ stage = [p \in Purchases |-> "idle"]
    /\ asked = [p \in Purchases |-> 0]
    /\ reported = {}
    /\ acked = {}
    /\ pc = [h \in Handlers |-> "idle"]
    /\ job = [h \in Handlers |-> NoEvent]

-----------------------------------------------------------------------------
(* CreatePurchase, one action per statement that other requests can see.   *)

\* An operator re-prices or disables a package while requests are running.
UpdatePackage(k) ==
    /\ \E c \in Amounts \cup {0} : catalog' = [catalog EXCEPT ![k] = c]
    /\ UNCHANGED <<rows, stage, asked, reported, acked, hooks>>

\* SELECT of an enabled package, INSERT of the pending row with its credits.
InsertPending(p, k) ==
    /\ stage[p] = "idle"
    /\ catalog[k] # 0
    /\ status' = [status EXCEPT ![p] = "pending"]
    /\ credits' = [credits EXCEPT ![p] = catalog[k]]
    /\ stage' = [stage EXCEPT ![p] = "inserted"]
    /\ UNCHANGED <<catalog, linked, txn, granted, asked, reported, acked, hooks>>

\* provider.CreateCheckout answers with an intent id and a URL.
CheckoutStarts(p) ==
    /\ stage[p] = "inserted"
    /\ asked' = [asked EXCEPT ![p] = credits[p]]
    /\ stage' = [stage EXCEPT ![p] = "session"]
    /\ UNCHANGED <<catalog, rows, reported, acked, hooks>>

\* provider.CreateCheckout returns an error, a cancelled request context included.
CheckoutFails(p) ==
    /\ stage[p] = "inserted"
    /\ stage' = [stage EXCEPT ![p] = "refused"]
    /\ UNCHANGED <<catalog, rows, asked, reported, acked, hooks>>

\* The row is failed if still pending; an error of this UPDATE is ignored.
MarkFailed(p) ==
    /\ stage[p] = "refused"
    /\ \/ status' = [status EXCEPT ![p] = IF @ = "pending" THEN "failed" ELSE @]
       \/ UNCHANGED status
    /\ stage' = [stage EXCEPT ![p] = "answered"]
    /\ UNCHANGED <<catalog, credits, linked, txn, granted, asked, reported,
                   acked, hooks>>

\* The intent id is stored; only then does the user get the checkout URL.
StoreIntent(p) ==
    /\ stage[p] = "session"
    /\ linked' = [linked EXCEPT ![p] = TRUE]
    /\ stage' = [stage EXCEPT ![p] = "open"]
    /\ UNCHANGED <<catalog, status, credits, txn, granted, asked, reported,
                   acked, hooks>>

\* Mutant of StoreIntentFails: the error is ignored and the user gets the URL.
StoreIntentErrorIgnored(p) ==
    /\ stage[p] = "session"
    /\ stage' = [stage EXCEPT ![p] = "open"]
    /\ UNCHANGED <<catalog, rows, asked, reported, acked, hooks>>

\* That UPDATE fails: the request answers an error and nobody has the URL.
StoreIntentFails(p) ==
    /\ stage[p] = "session"
    /\ stage' = [stage EXCEPT ![p] = "answered"]
    /\ UNCHANGED <<catalog, rows, asked, reported, acked, hooks>>

-----------------------------------------------------------------------------
(* The payment provider, as far as the code relies on it.                  *)

\* An outcome of one transaction of p's checkout.  A user needs the URL to
\* pay; the provider may expire a checkout without one.
Report(p) ==
    /\ asked[p] # 0
    /\ Cardinality({e \in reported : e.intent = p}) < MaxAttempts
    /\ \E t \in TxnsOf[p], o \in Outcomes :
          /\ \A e \in reported : e.intent = p => e.txn # t
          /\ stage[p] = "open" \/ o = "cancelled"
          /\ reported' = reported \cup {[intent |-> p, txn |-> t, outcome |-> o]}
    /\ UNCHANGED <<catalog, rows, stage, asked, acked, hooks>>

\* The provider calls the webhook, for the first time or again.
Deliver(h, e) ==
    /\ pc[h] = "idle"
    /\ pc' = [pc EXCEPT ![h] = "fast"]
    /\ job' = [job EXCEPT ![h] = e]
    /\ UNCHANGED <<catalog, rows, stage, asked, reported, acked>>

-----------------------------------------------------------------------------
(* Webhook, HandleWebhook and Settle for the event job[h].                 *)

\* Mutant of Locked: SELECT without FOR UPDATE.
NeverLocked(p) == FALSE

\* Another transaction holds the row of p.
Locked(p) == \E h \in Handlers : pc[h] \in {"write", "commit"} /\ job[h].intent = p

Answer200(h) ==
    /\ acked' = acked \cup ({job[h]} \cap Successes(reported))
    /\ pc' = [pc EXCEPT ![h] = "idle"]
    /\ job' = [job EXCEPT ![h] = NoEvent]

\* Mutant of AnswerError: errors are acknowledged as well.
AnswerErrorWith200(h) == Answer200(h)

AnswerError(h) ==
    /\ pc' = [pc EXCEPT ![h] = "idle"]
    /\ job' = [job EXCEPT ![h] = NoEvent]
    /\ UNCHANGED acked

\* Fast path: a purchase already carries this transaction reference.
FastPath(h) ==
    /\ pc[h] = "fast"
    /\ IF \E q \in Purchases : txn[q] = job[h].txn
       THEN Answer200(h)
       ELSE pc' = [pc EXCEPT ![h] = "lock"] /\ UNCHANGED <<job, acked>>
    /\ UNCHANGED <<catalog, rows, stage, asked, reported>>

\* No row has the intent id: PURCHASE_NOT_FOUND, which Webhook answers 200.
NoMatch(h) ==
    /\ pc[h] = "lock"
    /\ ~linked[job[h].intent]
    /\ Answer200(h)
    /\ UNCHANGED <<catalog, rows, stage, asked, reported>>

\* Mutant of LockRow: the status of the locked row is not checked.
LockRowIgnoringStatus(h) ==
    /\ pc[h] = "lock"
    /\ linked[job[h].intent]
    /\ ~Locked(job[h].intent)
    /\ pc' = [pc EXCEPT ![h] = "write"]
    /\ UNCHANGED <<catalog, rows, stage, asked, reported, job, acked>>

\* SELECT ... FOR UPDATE waits for the row, then a closed purchase is left alone.
LockRow(h) ==
    /\ pc[h] = "lock"
    /\ linked[job[h].intent]
    /\ ~Locked(job[h].intent)
    /\ IF status[job[h].intent] # "pending"
       THEN Answer200(h)
       ELSE pc' = [pc EXCEPT ![h] = "write"] /\ UNCHANGED <<job, acked>>
    /\ UNCHANGED <<catalog, rows, stage, asked, reported>>

\* Mutant of IndexHeld: the references are not unique among open transactions.
IndexNeverHeld(h) == FALSE

\* Another open transaction has put this reference in the unique index.
IndexHeld(h) ==
    \E g \in Handlers \ {h} :
        pc[g] = "commit" /\ job[g].outcome = "succeeded" /\ job[g].txn = job[h].txn

\* Mutant of WriteStatus: the status is written outside the transaction.
WriteStatusAtOnce(h) ==
    LET p == job[h].intent IN
    /\ pc[h] = "write"
    /\ pc' = [pc EXCEPT ![h] = "commit"]
    /\ status' = [status EXCEPT ![p] = job[h].outcome]
    /\ txn' = IF job[h].outcome = "succeeded" THEN [txn EXCEPT ![p] = job[h].txn] ELSE txn
    /\ UNCHANGED <<catalog, credits, linked, granted, stage, asked, reported, job, acked>>

\* The UPDATE of the status.  For a success it also enters the reference in the
\* unique index: it waits for a transaction that holds it, fails if a row has it.
\* (WHERE status = 'pending' holds: the row is locked since LockRow read it.)
WriteStatus(h) ==
    /\ pc[h] = "write"
    /\ IF job[h].outcome # "succeeded"
       THEN pc' = [pc EXCEPT ![h] = "commit"] /\ UNCHANGED <<job, acked>>
       ELSE /\ ~IndexHeld(h)
            /\ IF \E q \in Purchases : txn[q] = job[h].txn
               THEN AnswerError(h)
               ELSE pc' = [pc EXCEPT ![h] = "commit"] /\ UNCHANGED <<job, acked>>
    /\ UNCHANGED <<catalog, rows, stage, asked, reported>>

\* Mutant of CommitSettlement: the package's credits of today are granted.
CommitAtCatalogCredits(h) ==
    LET p == job[h].intent IN
    /\ pc[h] = "commit"
    /\ status' = [status EXCEPT ![p] = job[h].outcome]
    /\ IF job[h].outcome = "succeeded"
       THEN /\ txn' = [txn EXCEPT ![p] = job[h].txn]
            /\ \E k \in Packages : granted' = [granted EXCEPT ![p] = @ + catalog[k]]
       ELSE UNCHANGED <<txn, granted>>
    /\ Answer200(h)
    /\ UNCHANGED <<catalog, credits, linked, stage, asked, reported>>

\* COMMIT: a success writes status, reference and grant row together; a failure
\* or cancellation writes the status alone.
CommitSettlement(h) ==
    LET p == job[h].intent IN
    /\ pc[h] = "commit"
    /\ status' = [status EXCEPT ![p] = job[h].outcome]
    /\ IF job[h].outcome = "succeeded"
       THEN /\ txn' = [txn EXCEPT ![p] = job[h].txn]
            /\ granted' = [granted EXCEPT ![p] = @ + credits[p]]
       ELSE UNCHANGED <<txn, granted>>
    /\ Answer200(h)
    /\ UNCHANGED <<catalog, credits, linked, stage, asked, reported>>

\* Any statement of Settle can fail; the transaction rolls back.
SettleFails(h) ==
    /\ pc[h] # "idle"
    /\ AnswerError(h)
    /\ UNCHANGED <<catalog, rows, stage, asked, reported>>

\* The API process stops: requests in flight die, open transactions roll back.
Crash ==
    /\ stage' = [p \in Purchases |->
                    IF stage[p] \in Running THEN "dead" ELSE stage[p]]
    /\ pc' = [h \in Handlers |-> "idle"]
    /\ job' = [h \in Handlers |-> NoEvent]
    /\ UNCHANGED <<catalog, rows, asked, reported, acked>>

-----------------------------------------------------------------------------
CreatePurchase(p) ==
    \/ \E k \in Packages : InsertPending(p, k)
    \/ CheckoutStarts(p) \/ CheckoutFails(p)
    \/ MarkFailed(p)
    \/ StoreIntent(p) \/ StoreIntentFails(p)

Settle(h) ==
    FastPath(h) \/ NoMatch(h) \/ LockRow(h) \/ WriteStatus(h) \/ CommitSettlement(h)

Fault == Crash \/ \E h \in Handlers : SettleFails(h)

Next ==
    \/ \E k \in Packages : UpdatePackage(k)
    \/ \E p \in Purchases : CreatePurchase(p) \/ Report(p)
    \/ \E h \in Handlers : Settle(h)
    \/ \E h \in Handlers, e \in reported : Deliver(h, e)
    \/ Fault

Spec == Init /\ [][Next]_vars

\* A webhook request runs on; the provider calls again until it is answered 200.
Fairness ==
    /\ \A h \in Handlers : WF_vars(Settle(h))
    /\ SF_vars(\E h \in Handlers, e \in Successes(reported) \ acked : Deliver(h, e))

FairSpec == Spec /\ Fairness

-----------------------------------------------------------------------------
(* Safety.                                                                 *)

\* The credits the ledger holds for a purchase are exactly its own when it
\* succeeded and none otherwise, whatever webhooks were repeated, reordered or
\* raced: the status and the grant row commit in one transaction (Settle).
GrantIffSucceeded ==
    \A p \in Purchases :
        granted[p] = IF status[p] = "succeeded" THEN credits[p] ELSE 0

\* One provider transaction pays for at most one purchase, even when webhooks of
\* two purchases carrying it are settled at once (the unique index of Settle).
OneGrantPerTransaction ==
    \A p, q \in Purchases : txn[p] # NoTxn /\ txn[p] = txn[q] => p = q

\* The credits granted are the credits the provider charged for, and somebody paid,
\* although operators re-price packages while checkouts are open (CreatePurchase).
GrantedWhatWasPaid ==
    \A p \in Purchases : granted[p] # 0 =>
        /\ granted[p] = asked[p]
        /\ \E e \in Successes(reported) : e.intent = p /\ e.txn = txn[p]

\* "Exactly-once credit grant for successes": a success the webhook answered 200,
\* and so will not hear of again, has been granted (Settle, Webhook).
AckedSuccessIsGranted ==
    \A e \in acked : granted[e.intent] # 0

(* Action properties.                                                      *)

\* A closed purchase never changes again: a late, repeated or contradicting webhook
\* neither revokes nor repeats a grant (the status checks of Settle).
ClosedIsFinal ==
    [][\A p \in Purchases : status[p] \in Outcomes =>
          status'[p] = status[p] /\ granted'[p] = granted[p] /\ txn'[p] = txn[p]]_vars

(* Liveness.                                                               *)

\* If the database and the process stop failing, every success of a checkout whose
\* references are its own ends in a grant or finds the purchase closed by another
\* event: the provider's retries are enough (Webhook answers errors with no 200).
PaidIsEventuallySettled ==
    <>[][~Fault]_vars =>
        \A p \in Purchases :
            (\E e \in Successes(reported) : e.intent = p)
                ~> status[p] \in Outcomes

(* Refinement.                                                             *)

\* The committed columns behave as the abstract purchase of ExactlyOnceGrant.
Abstract == INSTANCE ExactlyOnceGrant

ImplementsExactlyOnceGrant == Abstract!Spec
=============================================================================
