----------------------------- MODULE MCWalletView -----------------------------
(***************************************************************************)
(* WalletView for TLC: a wallet of two transfer addresses that holds the   *)
(* whole supply of three coins in two outputs of different value, one      *)
(* other address to pay to, and two threads sharing clients.               *)
(***************************************************************************)
EXTENDS WalletView

CONSTANTS c1, c2, a1, a2, b, p, q

MCCallers == {c1, c2}
MCPassphrases == {p, q}
MCTransferAddresses == <<a1, a2>>
MCRecipients == {b}
MCGenesis == <<[address |-> a1, value |-> 2], [address |-> a2, value |-> 1]>>
MCAmounts == {1, 3}

\* A client that reads and writes, one that reads the index, one without index.
MCClientKinds ==
    {[storage_set |-> TRUE, index_set |-> TRUE, transaction_builder_set |-> TRUE],
     [storage_set |-> TRUE, index_set |-> TRUE, transaction_builder_set |-> FALSE],
     [storage_set |-> TRUE, index_set |-> FALSE, transaction_builder_set |-> FALSE]}

=============================================================================
