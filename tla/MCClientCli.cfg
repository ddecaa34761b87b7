SPECIFICATION CliSpec
CONSTANTS
    c1 = c1
    c2 = c2
    w1 = w1
    p = p
    q = q
    h = h
    None = None
    MaxKeys = 2
    Callers <- MCCallers
    Names <- MCNames
    Passphrases <- MCPassphrases
    Messages <- MCMessages
    ExternalKeys <- MCExternalKeys
    MultiSigRequests <- MCMultiSigRequests
    ClientKinds <- MCClientKinds
    Invoked <- MCSubcommands
INVARIANT CliTypeOK
INVARIANT DeniedOnlyForWrongPassphrase
INVARIANT SyncFindsThePrivateKey
SYMMETRY MCSymmetry
