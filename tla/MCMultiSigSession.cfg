SPECIFICATION FairSpec
CONSTANTS
    k1 = k1
    k2 = k2
    k3 = k3
    p = p
    q = q
    Keys <- MCKeys
    Signers <- MCSigners
    Stored <- MCSigners
    Passphrases <- MCPassphrases
    WalletPassphrase = p
    Message = tx
    Forger = forger
    MaxForged = 0
    None = None
INVARIANT
    TypeOK
PROPERTY
    ImplementsSigningRounds
    EverySessionCompletes
