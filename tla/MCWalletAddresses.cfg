SPECIFICATION Spec
CONSTANTS
    c1 = c1
    c2 = c2
    w1 = w1
    w2 = w2
    p = p
    q = q
    h = h
    None = None
    MaxKeys = 2
    Callers <- MCCallers
    Names <- MCNames
    Passphrases <- MCPassphrases
    Messages <- MCMessages
    ExternalKeys <- MCExternalKeys
    MultiSigRequests <- MCMultiSigRequests
    ClientKinds <- MCClientKinds
    Invoked <- MCAddressOperations
INVARIANT TransferAddressesAreRegistered
INVARIANT RootHashesAreSealedByOwners
PROPERTY ImplementsWalletStore
PROPERTY AnswersAsTested
SYMMETRY MCSymmetry
