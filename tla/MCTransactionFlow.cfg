SPECIFICATION FlowSpec
CONSTANTS
    c1 = c1
    addr_1 = addr_1
    addr_2 = addr_2
    addr_3 = addr_3
    None = None
    Callers <- MCCallers
    Addresses <- MCAddresses
    TxIds <- MCTxIds
    Heights <- MCHeights
    Times <- MCTimes
    Amounts <- MCAmounts
    MaxCoin = 100
INVARIANT FlowTypeOK
INVARIANT BuildFollowsContract
INVARIANT AgreesWithTests
INVARIANT BalanceIsHistoryTotal
INVARIANT CreatedTransactionIsFunded
INVARIANT HistorySurvivesStorage
