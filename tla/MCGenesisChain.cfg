SPECIFICATION GenesisSpec
CONSTANTS
    t1 = t1
    t2 = t2
    a1 = a1
    a2 = a2
    Garbage = Garbage
    None = None
    Unreadable = Unreadable
    Malformed = Malformed
    NotANumber = NotANumber
    MaxHeight = 3
    TxIds <- MCTxIds
    Addresses <- MCAddresses
    Files <- MCFiles
    Validate <- MCValidate
    Serializable <- MCSerializable
INVARIANT GenesisTypeOK
INVARIANT ProofLookupsSucceed
PROPERTY ProofIsOfTheRequestedBlock
PROPERTY NodeStartsFromGenesis
