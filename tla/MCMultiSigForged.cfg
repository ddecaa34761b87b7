SPECIFICATION Spec
CONSTANTS
    k1 = k1
    k2 = k2
    k3 = k3
    p = p
    q = q
    Keys <- MCSigners
    Signers <- MCSigners
    Stored <- MCSigners
    Passphrases <- MCRightPassphrase
    WalletPassphrase = p
    Message = tx
    Forger = forger
    MaxForged = 2
    None = None
INVARIANT
    CompletedSignatureVerifies
