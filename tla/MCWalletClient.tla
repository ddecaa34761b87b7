---------------------------- MODULE MCWalletClient ----------------------------
(***************************************************************************)
(* WalletClient for TLC: two callers on one storage, two wallet names, two *)
(* passphrases, two generated key pairs and one co-signer of another       *)
(* machine.                                                                *)
(***************************************************************************)
EXTENDS WalletClient

CONSTANTS c1, c2, w1, w2, p, q, h

MCCallers == {c1, c2}
MCNames == {w1, w2}
MCPassphrases == {p, q}
MCMessages == {h}

\* The public key of the co-signer.
MCExternalKeys == {101}

\* A 2-of-2 address of the first generated key and the co-signer; the same
\* with a threshold above the number of signers; and one whose own key is
\* not among the signers.
MCMultiSigRequests ==
    {[public_keys |-> {1, 101}, self_public_key |-> 1, m |-> 2, n |-> 2],
     [public_keys |-> {1, 101}, self_public_key |-> 1, m |-> 3, n |-> 2],
     [public_keys |-> {1, 101}, self_public_key |-> 2, m |-> 2, n |-> 2]}

\* What DefaultWalletClientBuilder::build hands out: a client over the
\* storage, with or without index and transaction builder, or a client of
\* placeholders only.
MCClientKinds ==
    {[storage_set |-> TRUE, index_set |-> FALSE, transaction_builder_set |-> FALSE],
     [storage_set |-> FALSE, index_set |-> FALSE, transaction_builder_set |-> FALSE]}

\* The operations on keys and on the addresses of a single key.
MCKeyOperations ==
    {"wallets", "new_wallet", "view_key", "new_public_key", "public_keys",
     "find_public_key", "new_staking_address", "staking_addresses", "private_key",
     "schnorr_signature", "new_transfer_address", "root_hashes", "find_root_hash"}

\* The operations on transfer (multi-sig) addresses, and balance, which reads
\* them before it asks the index.
MCAddressOperations ==
    {"new_wallet", "new_transfer_address", "new_multisig_transfer_address",
     "transfer_addresses", "generate_proof", "required_cosigners", "balance"}

\* Callers, wallet names and passphrases are interchangeable.
MCSymmetry ==
    Permutations(MCCallers) \cup Permutations(MCNames) \cup Permutations(MCPassphrases)

=============================================================================
