-------------------------- MODULE MCTransactionFlow --------------------------
(***************************************************************************)
(* TransactionFlow for TLC: one caller, the three addresses and the three  *)
(* transaction ids of MockIndex, the two amounts check_transaction_flow    *)
(* sends, and block times of every precision RFC 3339 text is written in:  *)
(* a whole second, milliseconds, microseconds and nanoseconds.             *)
(***************************************************************************)
EXTENDS TransactionFlow

CONSTANTS c1

MCCallers == {c1}
MCAddresses == {addr_1, addr_2, addr_3}
MCTxIds == 0..2
MCHeights == 0..2
MCAmounts == {20, 30}
MCTimes ==
    {[secs |-> 1, nanos |-> 0], [secs |-> 1, nanos |-> 250000000],
     [secs |-> 2, nanos |-> 1000], [secs |-> 2, nanos |-> 1]}

=============================================================================
