-------------------------- MODULE PurchasesProofs --------------------------
(***************************************************************************)
(* What Purchases promises for every set of purchases, references, webhook *)
(* requests and amounts.  The argument rests on four facts, each inductive *)
(* given those before it: types; what a row says together with the stage   *)
(* of its request (Rows); what a transaction that holds a row lock knows   *)
(* (Locks); and what its entry in the unique index keeps away (Index).     *)
(***************************************************************************)
EXTENDS Purchases, FiniteSetTheorems, TLAPS

InTransaction(h) == pc[h] \in {"write", "commit"}

\* A request in flight settles a reported event, an idle slot none.
Jobs == \A h \in Handlers : pc[h] # "idle" => job[h] \in reported

\* The row, the checkout and the ledger of a purchase agree with its request.
Rows ==
    \A p \in Purchases :
        /\ status[p] = "absent" <=> stage[p] = "idle"
        /\ linked[p] => stage[p] = "open" /\ asked[p] = credits[p]
        /\ stage[p] = "session" => asked[p] = credits[p]
        /\ asked[p] # 0 => asked[p] = credits[p] /\ stage[p] \notin {"idle", "inserted"}
        /\ stage[p] \in Running => status[p] = "pending"
        /\ status[p] # "absent" => credits[p] # 0
        /\ status[p] = "succeeded" <=> txn[p] # NoTxn
        /\ status[p] = "succeeded" => linked[p]
        /\ txn[p] # NoTxn =>
              [intent |-> p, txn |-> txn[p], outcome |-> "succeeded"] \in reported

\* A locked row is linked and pending, and locked by one transaction.
Locks ==
    /\ \A h \in Handlers : InTransaction(h) =>
          linked[job[h].intent] /\ status[job[h].intent] = "pending"
    /\ \A g, h \in Handlers :
          InTransaction(g) /\ InTransaction(h) /\ job[g].intent = job[h].intent => g = h

Claims(h) == pc[h] = "commit" /\ job[h].outcome = "succeeded"

\* A reference about to be committed is in no row and in no other transaction.
Index ==
    /\ \A h \in Handlers : Claims(h) => \A q \in Purchases : txn[q] # job[h].txn
    /\ \A g, h \in Handlers : Claims(g) /\ Claims(h) /\ job[g].txn = job[h].txn => g = h
    /\ OneGrantPerTransaction

IInv == TypeOK /\ Jobs /\ Rows /\ Locks /\ Index /\ GrantIffSucceeded

-----------------------------------------------------------------------------
\* The amounts a credits column may hold are natural numbers.
LEMMA AmountsAreNat == Amounts \cup {0} \subseteq Nat
<1>1. Amounts \subseteq Nat
  BY AmountsAssumption
<1>2. 0 \in Nat
  BY SMT
<1>3. QED
  BY <1>1, <1>2, Zenon

\* Every step keeps the types.
LEMMA TypeStep ==
    ASSUME TypeOK, Jobs, [Next]_vars
    PROVE  TypeOK'
<1> USE AmountsAssumption DEF TypeOK, Jobs, Outcomes, Status, Running, Stages, PCs, Events, rows, hooks
<1>1. ASSUME NEW k \in Packages, UpdatePackage(k)
      PROVE  TypeOK'
  BY <1>1 DEF UpdatePackage
<1>2. ASSUME NEW p \in Purchases, NEW k \in Packages,
             InsertPending(p, k)
      PROVE  TypeOK'
  BY <1>2 DEF InsertPending
<1>3. ASSUME NEW p \in Purchases, CheckoutStarts(p)
      PROVE  TypeOK'
  BY <1>3 DEF CheckoutStarts
<1>4. ASSUME NEW p \in Purchases, CheckoutFails(p)
      PROVE  TypeOK'
  BY <1>4 DEF CheckoutFails
<1>5. ASSUME NEW p \in Purchases, MarkFailed(p)
      PROVE  TypeOK'
  BY <1>5 DEF MarkFailed
<1>6. ASSUME NEW p \in Purchases, StoreIntent(p)
      PROVE  TypeOK'
  BY <1>6 DEF StoreIntent
<1>7. ASSUME NEW p \in Purchases, StoreIntentFails(p)
      PROVE  TypeOK'
  BY <1>7 DEF StoreIntentFails
<1>8. ASSUME NEW p \in Purchases, Report(p)
      PROVE  TypeOK'
  <2>1. PICK t \in TxnsOf[p], o \in Outcomes :
          reported' = reported \cup {[intent |-> p, txn |-> t, outcome |-> o]}
    BY <1>8 DEF Report
  <2>2. t \in Txns
    BY <2>1, TxnAssumption
  <2>3. reported' \subseteq Events /\ acked' \subseteq reported'
    BY <1>8, <2>1, <2>2 DEF Report
  <2>4. QED
    BY <1>8, <2>3 DEF Report
<1>9. ASSUME NEW h \in Handlers, FastPath(h)
      PROVE  TypeOK'
  BY <1>9 DEF FastPath, Answer200
<1>10. ASSUME NEW h \in Handlers, NoMatch(h)
      PROVE  TypeOK'
  BY <1>10 DEF NoMatch, Answer200
<1>11. ASSUME NEW h \in Handlers, LockRow(h)
      PROVE  TypeOK'
  BY <1>11 DEF LockRow, Answer200, Locked
<1>12. ASSUME NEW h \in Handlers, WriteStatus(h)
      PROVE  TypeOK'
  BY <1>12 DEF WriteStatus, AnswerError, IndexHeld
<1>13. ASSUME NEW h \in Handlers, CommitSettlement(h)
      PROVE  TypeOK'
  <2>1. job[h] \in Events
    BY <1>13 DEF CommitSettlement
  <2>2. granted' \in [Purchases -> Nat]
    <3>1. ASSUME NEW p \in Purchases  PROVE granted[p] + credits[p] \in Nat
      <4>1. granted[p] \in Nat /\ credits[p] \in Amounts \cup {0}
        OBVIOUS
      <4>2. credits[p] \in Nat
        BY <4>1, AmountsAreNat
      <4>3. QED
        BY <4>1, <4>2
    <3>2. QED
      BY <1>13, <2>1, <3>1 DEF CommitSettlement
  <2>3. status' \in [Purchases -> Status] /\ txn' \in [Purchases -> Txns \cup {NoTxn}]
    BY <1>13, <2>1 DEF CommitSettlement
  <2>4. QED
    BY <1>13, <2>1, <2>2, <2>3 DEF CommitSettlement, Answer200
<1>14. ASSUME NEW h \in Handlers, NEW e \in reported, Deliver(h, e)
      PROVE  TypeOK'
  BY <1>14 DEF Deliver
<1>15. ASSUME NEW h \in Handlers, SettleFails(h)
      PROVE  TypeOK'
  BY <1>15 DEF SettleFails, AnswerError
<1>16. CASE Crash
  BY <1>16 DEF Crash
<1>17. CASE UNCHANGED vars
  BY <1>17 DEF vars
<1>18. QED
  BY <1>1, <1>2, <1>3, <1>4, <1>5, <1>6, <1>7, <1>8, <1>9, <1>10, <1>11, <1>12, <1>13, <1>14, <1>15, <1>16, <1>17
     DEF Next, CreatePurchase, Settle, Fault, vars

\* Every step keeps each request in flight on a reported event.
LEMMA JobsStep ==
    ASSUME TypeOK, Jobs, [Next]_vars
    PROVE  Jobs'
<1> USE DEF TypeOK, Jobs, rows, hooks
<1>1. ASSUME NEW p \in Purchases, Report(p)
      PROVE  Jobs'
  BY <1>1 DEF Report
<1>2. ASSUME NEW h \in Handlers, NEW e \in reported, Deliver(h, e)
      PROVE  Jobs'
  BY <1>2 DEF Deliver
<1>3. ASSUME NEW h \in Handlers, FastPath(h)
      PROVE  Jobs'
  BY <1>3 DEF FastPath, Answer200
<1>4. ASSUME NEW h \in Handlers, NoMatch(h)
      PROVE  Jobs'
  BY <1>4 DEF NoMatch, Answer200
<1>5. ASSUME NEW h \in Handlers, LockRow(h)
      PROVE  Jobs'
  BY <1>5 DEF LockRow, Answer200, Locked
<1>6. ASSUME NEW h \in Handlers, WriteStatus(h)
      PROVE  Jobs'
  BY <1>6 DEF WriteStatus, AnswerError, IndexHeld
<1>7. ASSUME NEW h \in Handlers, CommitSettlement(h)
      PROVE  Jobs'
  BY <1>7 DEF CommitSettlement, Answer200
<1>8. ASSUME NEW h \in Handlers, SettleFails(h)
      PROVE  Jobs'
  BY <1>8 DEF SettleFails, AnswerError
<1>9. CASE Crash
  BY <1>9 DEF Crash
<1>10. CASE UNCHANGED <<pc, job, reported>>
  BY <1>10
<1>11. QED
  BY <1>1, <1>2, <1>3, <1>4, <1>5, <1>6, <1>7, <1>8, <1>9, <1>10
     DEF Next, CreatePurchase, Settle, Fault, vars, UpdatePackage,
         InsertPending, CheckoutStarts, CheckoutFails, MarkFailed,
         StoreIntent, StoreIntentFails

\* Every step keeps rows, requests and checkouts in agreement.
LEMMA RowsStep ==
    ASSUME TypeOK, Jobs, Rows, Locks, [Next]_vars
    PROVE  Rows'
<1> USE AmountsAssumption, TxnAssumption DEF TypeOK, Rows, rows, hooks, Outcomes, Status, Running, Stages, PCs, Events
<1>1. ASSUME NEW p \in Purchases, NEW k \in Packages,
             InsertPending(p, k)
      PROVE  Rows'
  BY <1>1 DEF InsertPending
<1>2. ASSUME NEW p \in Purchases, CheckoutStarts(p)
      PROVE  Rows'
  BY <1>2 DEF CheckoutStarts
<1>3. ASSUME NEW p \in Purchases, CheckoutFails(p)
      PROVE  Rows'
  BY <1>3 DEF CheckoutFails
<1>4. ASSUME NEW p \in Purchases, MarkFailed(p)
      PROVE  Rows'
  BY <1>4 DEF MarkFailed
<1>5. ASSUME NEW p \in Purchases, StoreIntent(p)
      PROVE  Rows'
  BY <1>5 DEF StoreIntent
<1>6. ASSUME NEW p \in Purchases, StoreIntentFails(p)
      PROVE  Rows'
  BY <1>6 DEF StoreIntentFails
<1>7. ASSUME NEW p \in Purchases, Report(p)
      PROVE  Rows'
  BY <1>7 DEF Report
<1>8. ASSUME NEW h \in Handlers, CommitSettlement(h)
      PROVE  Rows'
  <2> DEFINE p == job[h].intent
  <2>1. p \in Purchases /\ job[h].outcome \in Outcomes /\ job[h].txn \in Txns
        /\ job[h] \in reported
    BY <1>8 DEF CommitSettlement, Jobs
  <2>2. linked[p] /\ status[p] = "pending"
    BY <1>8 DEF CommitSettlement, Locks, InTransaction
  <2>3. /\ status' = [status EXCEPT ![p] = job[h].outcome]
        /\ txn' = IF job[h].outcome = "succeeded"
                  THEN [txn EXCEPT ![p] = job[h].txn] ELSE txn
        /\ UNCHANGED <<credits, linked, stage, asked, reported>>
    BY <1>8 DEF CommitSettlement
  <2>4. job[h].outcome = "succeeded" =>
          [intent |-> p, txn |-> job[h].txn, outcome |-> "succeeded"] \in reported
    BY <2>1
  <2> HIDE DEF p
  <2>5. QED
    BY <2>1, <2>2, <2>3, <2>4
<1>9. CASE Crash
  BY <1>9 DEF Crash
<1>10. CASE UNCHANGED <<status, credits, linked, txn, stage, asked, reported>>
  BY <1>10
<1>11. QED
  BY <1>1, <1>2, <1>3, <1>4, <1>5, <1>6, <1>7, <1>8, <1>9, <1>10
     DEF Next, CreatePurchase, Settle, Fault, vars, UpdatePackage, FastPath,
         NoMatch, LockRow, WriteStatus, Deliver, SettleFails

\* Every step keeps a locked row linked, pending and locked once.
LEMMA LocksStep ==
    ASSUME TypeOK, Jobs, Rows, Locks, [Next]_vars
    PROVE  Locks'
<1> USE DEF TypeOK, Locks, InTransaction, Jobs, Events, rows, hooks
<1>1. ASSUME NEW p \in Purchases, NEW k \in Packages,
             InsertPending(p, k)
      PROVE  Locks'
  BY <1>1 DEF InsertPending, Rows
<1>2. ASSUME NEW p \in Purchases, MarkFailed(p)
      PROVE  Locks'
  <2>1. ~linked[p]
    BY <1>2 DEF MarkFailed, Rows
  <2>2. \A q \in Purchases \ {p} : status'[q] = status[q]
    BY <1>2 DEF MarkFailed
  <2>3. \A h \in Handlers : InTransaction(h) => job[h].intent \in Purchases \ {p}
    BY <2>1 DEF Events
  <2>4. UNCHANGED <<linked, pc, job>>
    BY <1>2 DEF MarkFailed
  <2>5. QED
    BY <2>2, <2>3, <2>4
<1>3. ASSUME NEW p \in Purchases, StoreIntent(p)
      PROVE  Locks'
  BY <1>3 DEF StoreIntent
<1>4. ASSUME NEW h \in Handlers, NEW e \in reported, Deliver(h, e)
      PROVE  Locks'
  BY <1>4 DEF Deliver
<1>5. ASSUME NEW h \in Handlers, FastPath(h)
      PROVE  Locks'
  BY <1>5 DEF FastPath, Answer200
<1>6. ASSUME NEW h \in Handlers, NoMatch(h)
      PROVE  Locks'
  BY <1>6 DEF NoMatch, Answer200
<1>7. ASSUME NEW h \in Handlers, LockRow(h)
      PROVE  Locks'
  BY <1>7 DEF LockRow, Answer200, Locked
<1>8. ASSUME NEW h \in Handlers, WriteStatus(h)
      PROVE  Locks'
  BY <1>8 DEF WriteStatus, AnswerError, IndexHeld
<1>9. ASSUME NEW h \in Handlers, CommitSettlement(h)
      PROVE  Locks'
  BY <1>9 DEF CommitSettlement, Answer200
<1>10. ASSUME NEW h \in Handlers, SettleFails(h)
      PROVE  Locks'
  BY <1>10 DEF SettleFails, AnswerError
<1>11. CASE Crash
  BY <1>11 DEF Crash
<1>12. CASE UNCHANGED <<status, linked, pc, job>>
  BY <1>12
<1>13. QED
  BY <1>1, <1>2, <1>3, <1>4, <1>5, <1>6, <1>7, <1>8, <1>9, <1>10, <1>11, <1>12
     DEF Next, CreatePurchase, Settle, Fault, vars, UpdatePackage,
         CheckoutStarts, CheckoutFails, StoreIntentFails, Report

\* Every step keeps references unique among rows and open transactions.
LEMMA IndexStep ==
    ASSUME TypeOK, Jobs, Rows, Locks, Index, [Next]_vars
    PROVE  Index'
<1> USE DEF TypeOK, Jobs, Locks, Index, InTransaction, Claims, OneGrantPerTransaction, Events, rows, hooks
<1>1. ASSUME NEW h \in Handlers, NEW e \in reported, Deliver(h, e)
      PROVE  Index'
  BY <1>1 DEF Deliver
<1>2. ASSUME NEW h \in Handlers, FastPath(h)
      PROVE  Index'
  BY <1>2 DEF FastPath, Answer200
<1>3. ASSUME NEW h \in Handlers, NoMatch(h)
      PROVE  Index'
  BY <1>3 DEF NoMatch, Answer200
<1>4. ASSUME NEW h \in Handlers, LockRow(h)
      PROVE  Index'
  BY <1>4 DEF LockRow, Answer200, Locked
<1>5. ASSUME NEW h \in Handlers, WriteStatus(h)
      PROVE  Index'
  BY <1>5 DEF WriteStatus, AnswerError, IndexHeld
<1>6. ASSUME NEW h \in Handlers, CommitSettlement(h)
      PROVE  Index'
  BY <1>6 DEF CommitSettlement, Answer200
<1>7. ASSUME NEW h \in Handlers, SettleFails(h)
      PROVE  Index'
  BY <1>7 DEF SettleFails, AnswerError
<1>8. CASE Crash
  BY <1>8 DEF Crash
<1>9. CASE UNCHANGED <<txn, pc, job>>
  BY <1>9
<1>10. QED
  BY <1>1, <1>2, <1>3, <1>4, <1>5, <1>6, <1>7, <1>8, <1>9
     DEF Next, CreatePurchase, Settle, Fault, vars, UpdatePackage,
         InsertPending, CheckoutStarts, CheckoutFails, MarkFailed,
         StoreIntent, StoreIntentFails, Report

\* Every step keeps the ledger equal to what the succeeded rows sold.
LEMMA GrantStep ==
    ASSUME TypeOK, Jobs, Rows, Locks, GrantIffSucceeded, [Next]_vars
    PROVE  GrantIffSucceeded'
<1> USE AmountsAssumption DEF TypeOK, GrantIffSucceeded, rows, hooks
<1>1. ASSUME NEW p \in Purchases, NEW k \in Packages,
             InsertPending(p, k)
      PROVE  GrantIffSucceeded'
  <2>1. status[p] = "absent" /\ granted[p] = 0
    BY <1>1 DEF InsertPending, Rows
  <2>2. UNCHANGED granted
    BY <1>1 DEF InsertPending
  <2>3. status'[p] = "pending"
    BY <1>1 DEF InsertPending
  <2>4. \A q \in Purchases \ {p} : status'[q] = status[q] /\ credits'[q] = credits[q]
    BY <1>1 DEF InsertPending
  <2>5. QED
    BY <2>1, <2>2, <2>3, <2>4
<1>2. ASSUME NEW p \in Purchases, MarkFailed(p)
      PROVE  GrantIffSucceeded'
  BY <1>2 DEF MarkFailed
<1>3. ASSUME NEW h \in Handlers, CommitSettlement(h)
      PROVE  GrantIffSucceeded'
  <2> DEFINE p == job[h].intent
  <2>1. p \in Purchases
    BY <1>3 DEF CommitSettlement, Jobs, Events
  <2>2. status[p] = "pending"
    BY <1>3 DEF CommitSettlement, Locks, InTransaction
  <2>3. granted[p] = 0 /\ credits[p] \in Nat
    BY <2>1, <2>2
  <2>4. UNCHANGED credits
    BY <1>3 DEF CommitSettlement
  <2>5. \A q \in Purchases \ {p} : status'[q] = status[q] /\ granted'[q] = granted[q]
    BY <1>3 DEF CommitSettlement
  <2>6. CASE job[h].outcome = "succeeded"
    <3>1. status'[p] = "succeeded" /\ granted'[p] = granted[p] + credits[p]
      BY <1>3, <2>1, <2>6 DEF CommitSettlement
    <3>2. granted'[p] = credits[p]
      BY <2>3, <3>1
    <3>3. QED
      BY <2>1, <2>4, <2>5, <3>1, <3>2
  <2>7. CASE job[h].outcome # "succeeded"
    <3>1. status'[p] = job[h].outcome /\ granted'[p] = granted[p]
      BY <1>3, <2>1, <2>7 DEF CommitSettlement
    <3>2. QED
      BY <2>1, <2>3, <2>4, <2>5, <2>7, <3>1
  <2>8. QED
    BY <2>6, <2>7
<1>4. CASE UNCHANGED <<status, credits, granted>>
  BY <1>4
<1>5. QED
  BY <1>1, <1>2, <1>3, <1>4
     DEF Next, CreatePurchase, Settle, Fault, vars, UpdatePackage,
         CheckoutStarts, CheckoutFails, StoreIntent, StoreIntentFails,
         Report, FastPath, NoMatch, LockRow, WriteStatus, Deliver,
         SettleFails, Crash


-----------------------------------------------------------------------------
\* The initial state satisfies the invariant.
LEMMA InitIInv == Init => IInv
<1> SUFFICES ASSUME Init PROVE IInv
  OBVIOUS
<1>1. TypeOK
  BY AmountsAssumption DEF Init, TypeOK, Status, Stages, PCs
<1>2. Jobs /\ Rows /\ Locks /\ Index /\ GrantIffSucceeded
  BY DEF Init, Jobs, Rows, Locks, Index, GrantIffSucceeded, InTransaction, Claims,
         OneGrantPerTransaction, Running
<1>3. QED
  BY <1>1, <1>2 DEF IInv

\* The invariant holds in every reachable state.
THEOREM Invariance == Spec => []IInv
<1>1. IInv /\ [Next]_vars => IInv'
  BY TypeStep, JobsStep, RowsStep, LocksStep, IndexStep, GrantStep DEF IInv
<1>2. QED
  BY InitIInv, <1>1, PTL DEF Spec

\* Every variable keeps its type.
THEOREM TypeCorrect == Spec => []TypeOK
<1>1. IInv => TypeOK
  BY DEF IInv
<1>2. QED
  BY Invariance, <1>1, PTL

\* A purchase has its credits in the ledger exactly when it succeeded, however many
\* webhooks settle it and however often they repeat or fail.
THEOREM GrantsAreExact == Spec => []GrantIffSucceeded
<1>1. IInv => GrantIffSucceeded
  BY DEF IInv
<1>2. QED
  BY Invariance, <1>1, PTL

\* No provider transaction pays for two purchases.
THEOREM TransactionsPayOnce == Spec => []OneGrantPerTransaction
<1>1. IInv => OneGrantPerTransaction
  BY DEF IInv, Index
<1>2. QED
  BY Invariance, <1>1, PTL

\* What is granted is what the provider was asked to charge, and it reported the success.
THEOREM GrantsArePaidFor == Spec => []GrantedWhatWasPaid
<1>1. IInv => GrantedWhatWasPaid
  <2> SUFFICES ASSUME IInv, NEW p \in Purchases, granted[p] # 0
               PROVE  /\ granted[p] = asked[p]
                      /\ \E e \in Successes(reported) : e.intent = p /\ e.txn = txn[p]
    BY DEF GrantedWhatWasPaid
  <2>1. status[p] = "succeeded" /\ granted[p] = credits[p]
    BY DEF IInv, GrantIffSucceeded
  <2>2. asked[p] = credits[p] /\ txn[p] # NoTxn
    BY <2>1 DEF IInv, Rows
  <2>3. [intent |-> p, txn |-> txn[p], outcome |-> "succeeded"] \in reported
    BY <2>2 DEF IInv, Rows
  <2>4. QED
    BY <2>1, <2>2, <2>3 DEF Successes
<1>2. QED
  BY Invariance, <1>1, PTL

\* A closed purchase never changes status, reference or credits again.
THEOREM ClosedStaysClosed == Spec => ClosedIsFinal
<1>1. ASSUME IInv, [Next]_vars, NEW p \in Purchases, status[p] \in Outcomes
      PROVE  status'[p] = status[p] /\ granted'[p] = granted[p] /\ txn'[p] = txn[p]
  <2> USE <1>1 DEF rows, Outcomes
  <2>1. ASSUME NEW q \in Purchases, NEW k \in Packages, InsertPending(q, k)
        PROVE  p # q /\ UNCHANGED <<granted, txn>>
    BY <2>1 DEF InsertPending, IInv, Rows
  <2>2. ASSUME NEW q \in Purchases, MarkFailed(q)
        PROVE  p # q /\ UNCHANGED <<granted, txn>>
    BY <2>2 DEF MarkFailed, IInv, Rows, Running
  <2>3. ASSUME NEW h \in Handlers, CommitSettlement(h)
        PROVE  p # job[h].intent
    BY <2>3 DEF CommitSettlement, IInv, Locks, InTransaction
  <2>4. ASSUME NEW q \in Purchases, NEW k \in Packages, InsertPending(q, k)
        PROVE  status'[p] = status[p]
    BY <2>1, <2>4 DEF InsertPending, IInv, TypeOK
  <2>5. ASSUME NEW q \in Purchases, MarkFailed(q)
        PROVE  status'[p] = status[p]
    BY <2>2, <2>5 DEF MarkFailed, IInv, TypeOK
  <2>6. ASSUME NEW h \in Handlers, CommitSettlement(h)
        PROVE  status'[p] = status[p] /\ granted'[p] = granted[p] /\ txn'[p] = txn[p]
    BY <2>3, <2>6 DEF CommitSettlement, IInv, TypeOK
  <2>7. CASE UNCHANGED <<status, granted, txn>>
    BY <2>7
  <2>8. QED
    BY <2>1, <2>2, <2>4, <2>5, <2>6, <2>7
       DEF Next, CreatePurchase, Settle, Fault, vars, UpdatePackage, CheckoutStarts,
           CheckoutFails, StoreIntent, StoreIntentFails, Report, FastPath, NoMatch,
           LockRow, WriteStatus, Deliver, SettleFails, Crash
<1>2. IInv /\ [Next]_vars =>
        [\A p \in Purchases : status[p] \in Outcomes =>
            status'[p] = status[p] /\ granted'[p] = granted[p] /\ txn'[p] = txn[p]]_vars
  BY <1>1
<1>3. QED
  BY Invariance, <1>2, PTL DEF Spec, ClosedIsFinal

\* The purchase tables implement the abstract exactly-once grant: an INSERT opens, a
\* commit grants or closes, MarkFailed closes, and every other step is invisible.
THEOREM Refinement == Spec => ImplementsExactlyOnceGrant
<1> USE DEF Abstract!vars
<1>1. Init => Abstract!Init
  BY DEF Init, Abstract!Init
<1>2. IInv /\ [Next]_vars => [Abstract!Next]_Abstract!vars
  <2> SUFFICES ASSUME IInv, [Next]_vars
               PROVE  Abstract!Next \/ UNCHANGED <<status, credits, granted>>
    OBVIOUS
  <2> USE DEF rows
  <2>1. ASSUME NEW p \in Purchases, NEW k \in Packages, InsertPending(p, k)
        PROVE  Abstract!Open(p)
    BY <2>1 DEF InsertPending, Abstract!Open, IInv, TypeOK, Rows
  <2>2. ASSUME NEW p \in Purchases, MarkFailed(p)
        PROVE  Abstract!Close(p) \/ UNCHANGED <<status, credits, granted>>
    BY <2>2 DEF MarkFailed, Abstract!Close, IInv, Rows, Running
  <2>3. ASSUME NEW h \in Handlers, CommitSettlement(h)
        PROVE  \E p \in Purchases : Abstract!Grant(p) \/ Abstract!Close(p)
    <3> DEFINE p == job[h].intent
    <3>1. p \in Purchases /\ job[h].outcome \in Outcomes
      BY <2>3 DEF CommitSettlement, IInv, TypeOK, Jobs, Events
    <3>2. status[p] = "pending"
      BY <2>3 DEF CommitSettlement, IInv, Locks, InTransaction
    <3>3. granted[p] = 0 /\ credits[p] \in Nat
      BY <3>1, <3>2, AmountsAssumption DEF IInv, TypeOK, GrantIffSucceeded
    <3>4. granted[p] + credits[p] = credits[p]
      BY <3>3
    <3>5. CASE job[h].outcome = "succeeded"
      BY <2>3, <3>1, <3>2, <3>4, <3>5 DEF CommitSettlement, Abstract!Grant
    <3>6. CASE job[h].outcome # "succeeded"
      BY <2>3, <3>1, <3>2, <3>6 DEF CommitSettlement, Abstract!Close, Outcomes
    <3>7. QED
      BY <3>5, <3>6
  <2>4. CASE UNCHANGED <<status, credits, granted>>
    BY <2>4
  <2>5. QED
    BY <2>1, <2>2, <2>3, <2>4
       DEF Next, CreatePurchase, Settle, Fault, vars, UpdatePackage, CheckoutStarts,
           CheckoutFails, StoreIntent, StoreIntentFails, Report, FastPath, NoMatch,
           LockRow, WriteStatus, Deliver, SettleFails, Crash, Abstract!Next
<1>3. QED
  BY Invariance, <1>1, <1>2, PTL DEF Spec, ImplementsExactlyOnceGrant, Abstract!Spec
-----------------------------------------------------------------------------
(* Successes answered 200 and their grants.                                *)

\* A checkout ends once, and its references are no other's.
OneOutcomeEach ==
    /\ MaxAttempts = 1
    /\ \A p, q \in Purchases : p # q => TxnsOf[p] \cap TxnsOf[q] = {}

\* What the provider has reported: once for a checkout that was opened, a
\* success only for one whose intent is stored.
Reports ==
    /\ IsFiniteSet(reported)
    /\ \A e, f \in reported : e.intent = f.intent => e = f
    /\ \A e \in reported : asked[e.intent] # 0 /\ e.txn \in TxnsOf[e.intent]
    /\ \A e \in Successes(reported) : linked[e.intent]

\* A purchase whose checkout was opened closes as that checkout ended: the one
\* that CreatePurchase itself closes has none.
Closings ==
    \A p \in Purchases :
        /\ stage[p] = "open" => linked[p]
        /\ stage[p] = "refused" => asked[p] = 0
        /\ status[p] \in Outcomes /\ asked[p] # 0 =>
              \E e \in reported : e.intent = p /\ e.outcome = status[p]

AckInv == IInv /\ Reports /\ Closings /\ AckedSuccessIsGranted

\* Every step keeps what has been reported in order.
LEMMA ReportsStep ==
    ASSUME OneOutcomeEach, IInv, Reports, Closings, [Next]_vars
    PROVE  Reports'
<1> USE DEF Reports, Successes, rows, hooks
<1>1. ASSUME NEW p \in Purchases, Report(p)
      PROVE  Reports'
  <2> DEFINE mine == {e \in reported : e.intent = p}
  <2>1. PICK t \in TxnsOf[p], o \in Outcomes :
          /\ stage[p] = "open" \/ o = "cancelled"
          /\ reported' = reported \cup {[intent |-> p, txn |-> t, outcome |-> o]}
    BY <1>1 DEF Report
  <2>2. mine = {}
    <3>1. IsFiniteSet(mine)
      BY FS_Subset
    <3>2. Cardinality(mine) \in Nat /\ Cardinality(mine) < 1
      BY <1>1, <3>1, FS_CardinalityType DEF Report, OneOutcomeEach
    <3>3. QED
      BY <3>1, <3>2, FS_EmptySet
  <2>3. IsFiniteSet(reported')
    BY <2>1, FS_AddElement
  <2>4. asked[p] # 0 /\ UNCHANGED <<asked, linked>>
    BY <1>1 DEF Report
  <2>5. o = "succeeded" => linked[p]
    BY <2>1 DEF Closings
  <2>6. QED
    BY <2>1, <2>2, <2>3, <2>4, <2>5
<1>2. ASSUME NEW p \in Purchases, CheckoutStarts(p)
      PROVE  Reports'
  <2>1. asked[p] = 0
    BY <1>2 DEF CheckoutStarts, IInv, Rows
  <2>2. \A q \in Purchases \ {p} : asked'[q] = asked[q]
    BY <1>2 DEF CheckoutStarts, IInv, TypeOK
  <2>3. \A e \in reported : e.intent \in Purchases
    BY DEF IInv, TypeOK, Events
  <2>4. QED
    BY <1>2, <2>1, <2>2, <2>3 DEF CheckoutStarts
<1>3. ASSUME NEW p \in Purchases, StoreIntent(p)
      PROVE  Reports'
  BY <1>3 DEF StoreIntent, IInv, TypeOK, Events
<1>4. CASE UNCHANGED <<reported, asked, linked>>
  BY <1>4
<1>5. QED
  BY <1>1, <1>2, <1>3, <1>4
     DEF Next, CreatePurchase, Settle, Fault, vars, UpdatePackage, InsertPending,
         CheckoutFails, MarkFailed, StoreIntentFails, FastPath, NoMatch, LockRow,
         WriteStatus, CommitSettlement, Deliver, SettleFails, Crash

\* Every step closes a purchase as its checkout ended.
LEMMA ClosingsStep ==
    ASSUME IInv, Reports, Closings, [Next]_vars
    PROVE  Closings'
<1> USE DEF Closings, Outcomes, IInv, TypeOK, rows, hooks
<1>1. ASSUME NEW p \in Purchases, NEW k \in Packages, InsertPending(p, k)
      PROVE  Closings'
  BY <1>1 DEF InsertPending
<1>2. ASSUME NEW p \in Purchases, CheckoutStarts(p)
      PROVE  Closings'
  BY <1>2 DEF CheckoutStarts, Rows, Running
<1>3. ASSUME NEW p \in Purchases, CheckoutFails(p)
      PROVE  Closings'
  BY <1>3 DEF CheckoutFails, Rows
<1>4. ASSUME NEW p \in Purchases, MarkFailed(p)
      PROVE  Closings'
  BY <1>4 DEF MarkFailed
<1>5. ASSUME NEW p \in Purchases, StoreIntent(p) \/ StoreIntentFails(p)
      PROVE  Closings'
  BY <1>5 DEF StoreIntent, StoreIntentFails
<1>6. ASSUME NEW p \in Purchases, Report(p)
      PROVE  Closings'
  BY <1>6 DEF Report
<1>7. ASSUME NEW h \in Handlers, CommitSettlement(h)
      PROVE  Closings'
  <2>1. job[h] \in reported /\ job[h].intent \in Purchases
    BY <1>7 DEF CommitSettlement, Jobs, Events
  <2>2. QED
    BY <1>7, <2>1 DEF CommitSettlement
<1>8. CASE Crash
  BY <1>8 DEF Crash, Running
<1>9. CASE UNCHANGED <<status, linked, stage, asked, reported>>
  BY <1>9
<1>10. QED
  BY <1>1, <1>2, <1>3, <1>4, <1>5, <1>6, <1>7, <1>8, <1>9
     DEF Next, CreatePurchase, Settle, Fault, vars, UpdatePackage, FastPath, NoMatch,
         LockRow, WriteStatus, Deliver, SettleFails

\* A success whose purchase has succeeded is granted.
LEMMA SucceededIsGranted ==
    ASSUME IInv, NEW p \in Purchases, status[p] = "succeeded"
    PROVE  granted[p] # 0
BY DEF IInv, GrantIffSucceeded, Rows

\* Every step leaves the successes answered 200 granted.
LEMMA AckStep ==
    ASSUME OneOutcomeEach, AckInv, [Next]_vars
    PROVE  AckedSuccessIsGranted'
<1> USE DEF AckInv, AckedSuccessIsGranted, Successes, rows, hooks
<1>1. \A e \in reported : e.intent \in Purchases /\ e.outcome \in Outcomes
  BY DEF IInv, TypeOK, Events
<1>2. ASSUME NEW h \in Handlers, pc[h] # "idle", job[h] \in Successes(reported),
             FastPath(h) \/ NoMatch(h) \/ LockRow(h), Answer200(h)
      PROVE  granted[job[h].intent] # 0
  <2> DEFINE e == job[h]
             p == e.intent
  <2>1. /\ e \in reported /\ p \in Purchases /\ e.outcome = "succeeded"
        /\ linked[p] /\ asked[p] # 0 /\ e.txn \in TxnsOf[p]
    BY <1>1, <1>2 DEF Reports
  <2>2. pc'[h] = "idle"
    BY <1>2 DEF Answer200, IInv, TypeOK
  <2>3. CASE FastPath(h)
    <3>1. PICK q \in Purchases : txn[q] = e.txn
      BY <1>2, <2>2, <2>3 DEF FastPath, IInv, TypeOK
    <3>2. txn[q] # NoTxn
      BY <2>1, <3>1, TxnAssumption
    <3>3. txn[q] \in TxnsOf[q] /\ status[q] = "succeeded"
      BY <3>2 DEF IInv, Rows, Reports
    <3>4. q = p
      BY <2>1, <3>1, <3>3 DEF OneOutcomeEach
    <3>5. QED
      BY <3>3, <3>4, SucceededIsGranted
  <2>4. CASE NoMatch(h)
    BY <2>1, <2>4 DEF NoMatch
  <2>5. CASE LockRow(h)
    <3>1. status[p] # "pending"
      BY <2>2, <2>5 DEF LockRow, IInv, TypeOK
    <3>2. status[p] \in Outcomes
      BY <2>1, <3>1 DEF IInv, TypeOK, Rows, Status, Outcomes
    <3>3. status[p] = "succeeded"
      BY <2>1, <3>2 DEF Closings, Reports
    <3>4. QED
      BY <2>1, <3>3, SucceededIsGranted
  <2>6. QED
    BY <1>2, <2>3, <2>4, <2>5
<1>3. ASSUME NEW h \in Handlers, FastPath(h) \/ NoMatch(h) \/ LockRow(h)
      PROVE  AckedSuccessIsGranted'
  <2>1. CASE Answer200(h)
    <3>1. acked' \subseteq acked \cup ({job[h]} \cap Successes(reported))
      BY <2>1 DEF Answer200
    <3>2. pc[h] # "idle" /\ UNCHANGED granted
      BY <1>3 DEF FastPath, NoMatch, LockRow
    <3>3. QED
      BY <1>2, <1>3, <2>1, <3>1, <3>2
  <2>2. CASE UNCHANGED acked
    BY <1>3, <2>2 DEF FastPath, NoMatch, LockRow
  <2>3. QED
    BY <1>3, <2>1, <2>2 DEF FastPath, NoMatch, LockRow
<1>4. ASSUME NEW h \in Handlers, CommitSettlement(h)
      PROVE  AckedSuccessIsGranted'
  <2> DEFINE p == job[h].intent
  <2>1. job[h] \in reported /\ p \in Purchases
    BY <1>1, <1>4 DEF CommitSettlement, IInv, Jobs
  <2>2. status[p] = "pending" /\ granted[p] = 0 /\ credits[p] # 0 /\ credits[p] \in Nat
    <3>1. status[p] = "pending"
      BY <1>4 DEF CommitSettlement, IInv, Locks, InTransaction
    <3>2. granted[p] = 0 /\ credits[p] # 0
      BY <2>1, <3>1 DEF IInv, GrantIffSucceeded, Rows
    <3>3. credits[p] \in Nat
      BY <2>1, AmountsAreNat DEF IInv, TypeOK
    <3>4. QED
      BY <3>1, <3>2, <3>3
  <2>3. job[h].outcome = "succeeded" => granted'[p] # 0
    <3>1. SUFFICES ASSUME job[h].outcome = "succeeded" PROVE granted'[p] # 0
      OBVIOUS
    <3>2. granted'[p] = 0 + credits[p]
      BY <1>4, <2>1, <2>2, <3>1 DEF CommitSettlement, IInv, TypeOK
    <3>3. QED
      BY <2>2, <3>2
  <2>4. \A q \in Purchases \ {p} : granted'[q] = granted[q]
    BY <1>4 DEF CommitSettlement, IInv, TypeOK
  <2>5. \A e \in acked : e.intent \in Purchases /\ e.intent # p
    BY <1>1, <2>2 DEF IInv, TypeOK
  <2>6. acked' \subseteq acked \cup ({job[h]} \cap Successes(reported))
    BY <1>4 DEF CommitSettlement, Answer200
  <2>7. QED
    BY <2>3, <2>4, <2>5, <2>6
<1>5. CASE UNCHANGED <<acked, granted>>
  BY <1>5
<1>6. QED
  BY <1>3, <1>4, <1>5
     DEF Next, CreatePurchase, Settle, Fault, vars, UpdatePackage, InsertPending,
         CheckoutStarts, CheckoutFails, MarkFailed, StoreIntent, StoreIntentFails,
         Report, WriteStatus, AnswerError, Deliver, SettleFails, Crash

\* Where a checkout ends once and its references are its own, every success
\* the webhook answered 200 has been granted: what the fast path, the unmatched
\* intent and the closed row let through was settled before.
THEOREM AckedAreGranted ==
    OneOutcomeEach => (Spec => []AckedSuccessIsGranted)
<1> SUFFICES ASSUME OneOutcomeEach PROVE Spec => []AckedSuccessIsGranted
  OBVIOUS
<1>1. Init => AckInv
  BY InitIInv, FS_EmptySet
     DEF Init, AckInv, Reports, Closings, AckedSuccessIsGranted, Successes, Outcomes
<1>2. AckInv /\ [Next]_vars => AckInv'
  BY TypeStep, JobsStep, RowsStep, LocksStep, IndexStep, GrantStep, ReportsStep,
     ClosingsStep, AckStep DEF AckInv, IInv
<1>3. AckInv => AckedSuccessIsGranted
  BY DEF AckInv
<1>4. QED
  BY <1>1, <1>2, <1>3, PTL DEF Spec
=============================================================================
