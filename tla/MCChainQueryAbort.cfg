SPECIFICATION Spec
CONSTANTS
    t1 = t1
    t2 = t2
    a1 = a1
    Garbage = Garbage
    None = None
    MaxHeight = 3
    TxIds <- MCTxIds
    Addresses <- MCAddresses
INVARIANT QueryNeverAborts
