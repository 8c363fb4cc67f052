\* Every checkout ends in one outcome with a reference of its own.
CONSTANTS
    p1 = p1
    p2 = p2
    t1 = t1
    t2 = t2
    Purchases = {p1, p2}
    Packages = {k1}
    Amounts = {1}
    Txns = {t1, t2}
    TxnsOf <- OwnTxns
    MaxAttempts = 1
    Handlers = {h1, h2}
    NoTxn = NoTxn
    NoEvent = NoEvent
SPECIFICATION FairSpec
INVARIANTS
    AckedSuccessIsGranted
PROPERTIES
    PaidIsEventuallySettled
