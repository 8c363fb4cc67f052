\* Two purchases, one of whose events may carry the other's reference, settled by
\* two webhook requests at a time.
CONSTANTS
    p1 = p1
    p2 = p2
    t1 = t1
    t2 = t2
    Purchases = {p1, p2}
    Packages = {k1}
    Amounts = {1, 2}
    Txns = {t1, t2}
    TxnsOf <- SharedTxns
    MaxAttempts = 2
    Handlers = {h1, h2}
    NoTxn = NoTxn
    NoEvent = NoEvent
SPECIFICATION Spec
INVARIANTS
    GrantIffSucceeded
    OneGrantPerTransaction
    GrantedWhatWasPaid
PROPERTIES
    ClosedIsFinal
    ImplementsExactlyOnceGrant
SYMMETRY Symmetry
