----------------------------- MODULE MCChainQuery -----------------------------
(***************************************************************************)
(* ChainQuery for TLC: two transactions, one staking address, three        *)
(* blocks.                                                                 *)
(***************************************************************************)
EXTENDS ChainQuery

CONSTANTS t1, t2, a1

MCTxIds == {t1, t2}
MCAddresses == {a1}

=============================================================================
