SPECIFICATION Spec
CONSTANTS
    c1 = c1
    c2 = c2
    a1 = a1
    a2 = a2
    b = b
    p = p
    q = q
    None = None
    Callers <- MCCallers
    ClientKinds <- MCClientKinds
    Passphrases <- MCPassphrases
    WalletPassphrase = p
    TransferAddresses <- MCTransferAddresses
    Recipients <- MCRecipients
    Genesis <- MCGenesis
    MaxCoin = 3
    Fee = 0
    Amounts <- MCAmounts
    MaxTransactions = 2
INVARIANT TypeOK
INVARIANT QuietViewIsExact
INVARIANT CreatedTransactionFollowsStrategy
INVARIANT ViewIsWithinTheCall
