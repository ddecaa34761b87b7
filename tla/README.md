# TLA+ models of chain-tx-enclave

This directory holds the TLA+ specifications of the parts of the repository
that keep state and can go wrong in ways a unit test hardly reaches, the TLC
configurations that check them, and `PROJECT.json`, which lists every
component, run, mutant, source mapping, finding and hazard in machine-readable
form.

Run a check from this directory with `tlc -workers 2 -config <cfg> <MC module>`.

## 1. The system

Two processes of the repository are covered by the sources under `src/`:

* the **chain node** (`chain-abci`), of which `app/query.rs` is the ABCI query
  handler: it answers `Query(path, data, height, prove)` from the key-value
  store the commit path writes, from `last_state` and from the account trie;
* the **wallet client** (`client-core`, `client-cli`, `client-index`,
  `client-common`, `dev-utils`): `DefaultWalletClient` composes four services
  over one passphrase-protected storage (KeyService, WalletService,
  RootHashService, MultiSigSessionService), an Index and a
  TransactionBuilder; `client-cli` builds one client per command.

### Inventory

| Component | Source | State it keeps | Operations | Talks to |
|---|---|---|---|---|
| Query dispatcher | `chain-abci/src/app/query.rs` | none of its own | `query_handler` (paths p2p, mockencrypt, mockdecrypt, store, meta, witness, merkle, account), `lookup`, `handle_enc_dec` | KV store, `last_state`, account trie, proof engine |
| Proof engine | `query.rs` (ops), chain_core (tree) | none | `get_witness_proof_op`, `into_proof_op`, `MerkleTree::generate_proof` | KV store (tree of an app hash) |
| KV store, block commit | not under `src/` | columns bodies, witness, meta, app states, Merkle trees | `get`, `write_batch` (one per block) | written by commit, read by queries |
| Account trie | not under `src/` | roots and their accounts | `insert`, `get(root, key)` | read by path `account` |
| DefaultWalletClientBuilder | `default_wallet_client.rs` 410-507 | three capability flags | `builder`, `with_wallet`, `with_transaction_read`, `with_transaction_write`, `build` | hands clients to the CLI |
| DefaultWalletClient, storage operations | `default_wallet_client.rs` 74-228, 309-323 | none of its own | 17 operations on wallets, keys, addresses | KeyService, WalletService, RootHashService |
| DefaultWalletClient, index operations | `default_wallet_client.rs` 230-300 | none of its own | `balance`, `history`, `unspent_transactions`, `output`, `create_transaction`, `broadcast_transaction` | WalletService, Index, TransactionBuilder |
| DefaultWalletClient, session operations | `default_wallet_client.rs` 325-407 | none of its own | `new_multi_sig_session` and eight session calls | WalletService, KeyService, MultiSigSessionService |
| KeyService, WalletService, RootHashService, MultiSigSessionService | not under `src/` | one keyspace each in the shared storage | see the specification of the repository, section 4.F | the storage |
| Index handlers | `client-index/src/handler.rs` | none (two trait declarations) | `on_next` | synchronizer |
| CLI | `client-cli/src/command.rs`, `command/wallet_command.rs` | none | one client per command, then wallet operations | builder, wallet client, terminal |
| Genesis command | `dev-utils/src/commands/genesis_command.rs` | none; its output becomes genesis.json | `execute`, `generate`, `do_generate` | account trie, Merkle tree, the node at InitChain |
| TransactionChange | `client-common/src/balance/transaction_change.rs` | none | `encode_to`, `decode`, `Coin + TransactionChange` | codec, the history the index stores |
| MockIndex and the transaction tests | `default_wallet_client.rs` 565-733, 796-1101 | one lock: a transaction was broadcast | `address_details`, `output`, `broadcast_transaction`; the calls and assertions of three tests | the wallet client |

### What is hard

* A wallet operation is several storage calls, each atomic, none of them in a
  transaction with the next. Other threads that share the client or the
  storage run between them, and the process can die between them.
* An operation that fails at its second call has already done its first.
* The root hash store is shared by all wallets and keyed by the root hash
  alone.
* `balance`, `history` and `unspent_transactions` ask the index once per
  address while the index goes on applying transactions.
* A signing session waits in each of its three rounds for every co-signer,
  and what the co-signers send travels outside the program: late, twice, out
  of order, or from somebody else.
* Every command of the CLI builds its own client, and a client without the
  capability a call needs answers PermissionDenied like a wrong passphrase.
* `create_transaction` works from the index as it was last synchronised:
  two transactions made from the same view spend the same output.
* A line of history is stored as five fields read back by position, its
  block time as text of varying precision.
* The query handler unwraps the results of two lookups; whether they can be
  missing depends on what every earlier commit wrote and on the height the
  client sends.

### What each part must guarantee

* Builder: a client can write only if it can read the index, and read the index
  only if it has a wallet storage.
* Wallet client: every key a wallet names can be unsealed by the wallet's
  passphrase; every address a wallet lists has its record; a wallet is never
  replaced or emptied; only wallet owners write to the shared stores; reads
  with the right passphrase succeed; to its callers an operation is one step
  on the wallets and its answer, an error included, is true of them
  (`WalletStore`).
* Index operations: a balance is a sum of coins the wallet holds and never
  above `MAX_COIN`; a created transaction spends the largest outputs first and
  its outputs and fee add up to its inputs.
* Sessions: no session leaves a round before every signer has reached it; a
  completed session holds a signature that verifies for the signers and the
  message; when all signers keep going, all get the signature.
* TransactionChange: a stored history is read back as written; a history
  added up with `Coin + TransactionChange` gives the balance.
* Genesis command: the node started from genesis.json holds the app hash and
  exactly the accounts of the distribution.
* CLI: a command fails with PermissionDenied only for a wrong passphrase;
  `sync` finds the private key of every view key it reads.
* Query handler: never panics; a proof is for the block the client asked
  about; codes 1, 2, 3 for missing values, proof errors and an uninitialised
  node.

## 2. Plan

Modules, in the order they are written; all nine steps are done.

1. `WalletClientBuilder` - the capability flags and `build()`.
2. `WalletClient` - the storage operations of the client over the three
   services, callers interleaved, crashes between calls.
3. `ChainQuery` - the query handler over the committed state.
4. `WalletView` - `balance`, `history`, `unspent_transactions`,
   `create_transaction`, `broadcast_transaction` over an Index that a
   synchronizer updates concurrently; coin sums at `MAX_COIN`.
5. `MultiSigSession` and `SigningRounds` - the three-round session state
   machine, several signers, messages out of order and repeated; the abstract
   specification `SigningRounds` (no session leaves a round before every
   signer has reached it) that the detailed module implements under a
   refinement mapping; completion under weak fairness.
6. `ClientCli` - `Command::execute` as builder calls followed by wallet
   operations, over `WalletClient` and with `build()` of
   `WalletClientBuilder`; `resync` with its three reads.
7. `TransactionChange`, `MockIndex`, `TransactionFlow` - the codec and the
   coin addition as operators, the index of the tests, and the client of
   `WalletClientBuilder` and `WalletView` in front of it, checked against
   what the tests assert and against each other.
8. `Genesis`, `GenesisChain` - the genesis command as operators, run before
   the node of `ChainQuery` starts.
9. An abstract `WalletStore` specification (wallets as atomic objects) with
   `WalletClient` shown to implement it under crashes, and the unit tests of
   the wallet operations as assertions the model is held to.

## 3. Modules

### WalletClientBuilder

`builder[c]` holds the three flags `storage_set`, `index_set`,
`transaction_builder_set` of the builder caller `c` is configuring (`None` once
`build(self)` has consumed it), `client[c]` the flags of the client `c` last
obtained, `built[c]` the flags and the outcome of the last `build()`. The
components themselves are abstracted to "real" or "the Unauthorized
placeholder", which is all the flags record. `BuildAccepts` is the boolean
expression of `build()`; `Nested` states the contract independently of it.

### WalletClient

State: `keys` (public key -> passphrase that seals its private key), `wallets`
(name -> passphrase, view key, public keys, root hashes), `rootHashes` (root
hash -> self public key, passphrase), the capability record `client[c]` of each
caller, and per caller the operation in progress `call[c]` and the last result
`ret[c]`.

Every client operation is written as its *program*: the sequence of service
calls the Rust function makes, e.g. `new_multisig_transfer_address ==
<<"transfer_addresses", "new_root_hash", "add_root_hash">>`. `Call` starts a
program, each service action (`GenerateKeypair`, `PrivateKey`, `WalletNames`,
`WalletRead`, `Create`, `AddPublicKey`, `AddRootHash`, `NewRootHash`,
`RootHashRead`) executes the head of a caller's program atomically and either
goes on (`Continue`) or returns the error (`Fail`, the `?` of the source).
`Returned` is the value the operation wraps around its last answer.
`Unauthorized` answers every call of a client without storage with
`PermissionDenied`. `Crash` ends a caller's operation between two calls and
leaves the storage as it is.

Which calls an operation makes, in which order and with which arguments is
taken from `default_wallet_client.rs`. What a service does with the storage is
taken from the specification of the repository, because the services are not
among the sources; these definitions are marked `spec_modelled` in
`PROJECT.json`.

Abstractions: a key pair is a number (`1..MaxKeys` in order of generation;
keys of co-signers on other machines are the numbers in `ExternalKeys`);
encryption under a passphrase is the passphrase recorded beside the value; a
hash is what it hashes, so the root of an OrTree is the pair of its signers and
its threshold.

The tests `check_wallet_flow`, the first half of `check_unauthorized_wallet`
and the start of `check_multi_sig_address_generation` are in the module as
data: each assertion is the operation, the client it is called on, the state
of the wallet it names (absent, or with so many addresses) and what the test
asserts of the answer. `AnswersAsTested` holds the model to them at every
return of such a call on a wallet in such a state, with a second caller at
work on the same storage. The services are modelled from the specification;
the tests are what the sources say about them.

### WalletStore

The abstract specification of the wallet operations: `owned` (the wallets),
`client`, `pending[c]` (the operation a caller is in) and `answer[c]` (what
it was told). An operation is one step. `NewWallet` creates a wallet under a
free name with a view key no wallet names; `AddKey` and `AddAddress` add one
key or one address to the wallet the caller named, only if the passphrase
opens it, and the address is the 1-of-1 tree of a key of the wallet or the
well-formed tree the caller asked for; `Respond` answers a read with what
`Shown` says of the wallet at that moment; `Refuse` answers with an error
that `Refused` says is true (`WalletNotFound` only for a name without a
wallet, `PermissionDenied` only for a passphrase that does not open it or a
client without storage, `InvalidInput` only for a taken name or an ill-formed
request, `Crashed` at any time); `Elsewhere` leaves open what the key store,
the root hash store and the index answer, but allows `Ok` for
`schnorr_signature`, `generate_proof`, `required_cosigners`, `balance` and
`history` only to a caller whose passphrase opens the wallet. `Work` is a
storage call that changes no wallet and gives no answer.

`WalletClient` implements it under the mapping `owned <- wallets`,
`pending <- call`, `answer <- ret` (`ImplementsWalletStore`): of `call[c]`
the abstract specification reads `op` and `args` only. The step of an
operation that is seen is its write to the wallet (`create`,
`add_public_key`, `add_root_hash`) or, for a read, its last storage call.
`new_transfer_address` is two abstract steps, `AddKey` and `AddAddress`: when
it fails or dies between them the wallet keeps the key, which the
specification allows and the source does. The specification is written to be
checked as a property: `Begin` and `Elsewhere` state what the next
`pending[c]` and `answer[c]` may be and do not enumerate them.

### ChainQuery

State: `db` (a record of the five columns, each a function from key to
value), `last_state`, `accounts` (the roots the trie answers for), `mock`
(whether the build has the feature `mock-enc-dec`; chosen in `Init`, never
changed), and the last request and response. `query_handler`, `lookup`,
`handle_enc_dec`, `store`, `prove_store`, `account`, `ProofHeight` follow
`query.rs` branch by branch; the response is built by passing the response so
far through them. The two `unwrap().unwrap()` and the `expect` are the response
`Aborted`. `InitChain` and `Commit` are not in `query.rs`; they write what the
persisted state layout of the specification says a block writes, in one step.
An app hash is modelled by the tree and the account root it commits to, so two
blocks with the same content have the same app hash, as in the code.

`Query` is one step: the spec gives the handler an immutable snapshot.

### WalletView

State: `ledger` (the transactions the chain has accepted, in order), `synced`
(how many of them the index has applied), `client[c]`, `call[c]`, `ret[c]`.
The wallet is one wallet with the fixed address list `TransferAddresses`; the
operations that change a wallet are in `WalletClient`.

`balance`, `history`, `unspent_transactions` and `create_transaction` begin
with `ReadTransferAddresses` (the wallet service checks the passphrase) and go
on with one `ReadAddressDetails` step per address, in the order of the list.
The step that reads the last address also returns: `Finish` applies the
operator named after the Rust function (`balance` sums and compares with
`MaxCoin`, `history` concatenates, `unspent_transactions` unites,
`create_transaction` applies the default strategy and calls `build`) to the
details collected. A wallet without addresses returns from
`ReadTransferAddresses`. `Output` and `BroadcastTransaction` are one call to
the index each. `Sync` is the index applying the next transaction of the
ledger; it is enabled between any two steps of the callers.

A transaction is the record of its inputs and outputs, which also stands for
its id; a `TxoPointer` is a transaction and a position. What the index shows
after `n` transactions (`Unspent(n)`, `AddressDetails(address, n)`) is
computed from the ledger. The index, the builder (`build`), the strategy
(`apply_all`) and the chain (`Valid`) are not among the sources and follow the
specification of the repository. A caller broadcasts only a transaction that
its last `create_transaction` returned. `call[c].from` and `ret[c].from`,
`ret[c].to` record how far the index was when the operation was called and
when it returned; only the properties read them.

`ViewIsWithinTheCall` is the guarantee that is left when
`ViewIsOfOneIndexState` fails (finding `view_snapshot`): an answer read
across several states of the index holds every output of the wallet that
stayed unspent from the call to the return, and nothing the index did not
show unspent at some moment of the call, so a balance lies between the two
totals and a transaction spends only what was shown.

`create_transaction` selects inputs from the index as last synchronised and
the client keeps no record of what it has already spent, so two
transactions made before the next `Sync` can name the same output. The
chain takes the first and answers the second `broadcast_transaction` with
InvalidInput. Both happen in every run of the module; no property is stated
about it, because `broadcast_transaction` hands on what it is given and the
refusal is the rule of the chain, which is an assumption of the model and
not code of the repository.

### SigningRounds and MultiSigSession

`MultiSigSession` models `new_multi_sig_session` and the eight session
operations of `MultiSigWalletClient` (`default_wallet_client.rs` 325-407)
together with the session service they delegate to, which is not under `src/`
and is modelled from the session state machine of the specification.

| Code | Model |
|---|---|
| the session record of a signer (signers, message, what was collected in each round, the signature) | `session[k]`; one session per signer, its id is the signer |
| `new_multi_sig_session`: `transfer_addresses` as the passphrase check, `private_key` with `ok_or_else(PrivateKeyNotFound)`, `new_session` | `new_multi_sig_session`: PermissionDenied, PrivateKeyNotFound, or `new_session` |
| `nonce_commitment`, `nonce`, `partial_signature` | `Yield(round, ..)`: refused unless the earlier rounds are complete, answers the signer's own value |
| `add_nonce_commitment`, `add_nonce`, `add_partial_signature` | `Contribute(round, ..)`: refused too early, accepted when the value verifies (a nonce against its commitment, a partial signature against the nonces, signers and message), the same value again is accepted, anything else aborts the session's round with the error of the round |
| `signature` | `Finalise`: the aggregate of the partial signatures once all are there |
| values handed between the signers out of band | `network`, a set of messages that is never emptied: a message is delivered any number of times, in any order, long after its round |
| a party outside the signing subset | `Forge`: at most `MaxForged` messages in the name of a signer, carrying a value replayed from any round (commitments and partial signatures are both an H256) or made with the forger's own key |

Values are modelled by what they are made of: a nonce is `<<"R", k>>`, its
commitment `<<"H", nonce>>`, a partial signature names its signer, the nonces,
the signers and the message, so `Verify` can tell a signature over the wrong
signers or nonces from the right one without any arithmetic.

`StartSession`, `Announce`, `Receive` and `Sign` are the environment of the
client: a participant making the calls the test
`check_multi_sig_transaction_signing` makes for both signers, in any order
and with any passphrase. They are not a translation of the test and have no
lines in the source mapping.

`SigningRounds` is the abstract specification: a phase per signer
(no session, Init, CommitsCollected, NoncesCollected, PartialsCollected,
Done), advanced one at a time, and never out of a collecting phase while a
signer is behind. `MultiSigSession` instantiates it with
`phase[k] = Phase(session[k])`; `ImplementsSigningRounds` is its
specification and `EverySessionCompletes` its liveness property.

### ClientCli

`ClientCli` extends `WalletClient`: every caller is one run of the command
line. `process[c]` holds the command, the wallet name and passphrase typed,
the calls the command still has to make, the view key `resync` has read, and
the result the process ended with.

| Code | Model |
|---|---|
| the arms of `Command::execute` (`command.rs` 88-215): `SledStorage::new(storage_path())?` in every arm, `genesis()?` for transaction and state, `with_wallet`, `with_transaction_read`, `with_transaction_write`, `build()?` | `Execute`: StorageError before any prompt (the process record has no passphrase), or RpcError, or the client with `Capabilities(command)` if `BuildAccepts`, else InvalidInput |
| `WalletCommand::new_wallet`: two prompts, InvalidInput when they differ | `Execute` with `passphrase` and `confirmed`; `Confirmations` lets the two differ for `wallet_new` only, the one command that asks twice |
| `get_view_key`, `get_balance`, `get_history`, `list_wallets`, `resync`, `get_staked_stake` | `Script(command, op)`, the calls in order; `Invoke` makes the next one, `Serve` of `WalletClient` answers it call by call, `Resume` takes the answer |
| `?` after a call; `ok_or_else(WalletNotFound)` of `resync` | `Resume`: the process ends with the error; a private key answered as None ends it with WalletNotFound |
| `get_staked_state`, `sync`, `sync_all` | `AskNode`: Ok or RpcError; what synchronising does to the index is `Sync` of `WalletView` |
| `address_command.execute(wallet_client)`, `transaction_command.execute(..)` (not under `src/`) | one call of an operation of `Invoked` on the client they are handed |

`WalletClient` gained for it the programs `balance` and `history` (the
transfer addresses, then the index for each address read) and the action
`AddressDetails`, in which a client built without an index answers
PermissionDenied as `UnauthorizedIndex` does. In `WalletClient` the loop over
the addresses is one step and the sum of the balances is left out: the
index has no content there. `WalletView` has both, one step per address and
`sum_coins` with its error.

### TransactionChange

No state. An encoding is a sequence of fields `<<type, value>>`; `encode_to`
appends the five fields of a line in the order of the struct, `decode` reads
five fields of the types it expects (`Read`), fails with the codec's error
when one is missing or of another type, and with "Unable to parse block
time" when the text is no time (`Decoded`). The bytes inside a field are not
modelled; the block time is, because it is converted: `to_rfc3339` writes a
time as seconds and 0, 3, 6 or 9 digits of the second, the fewest that lose
nothing, and `from_str` reads any of them. `Add` is both `Add` impls (the
second calls the first); `AddBalanceChange`, the checked addition and
subtraction of `Coin`, is not under `src/` and follows the specification.
`size_hint` is not modelled: it sizes a buffer and no behaviour depends on
it. The four tests of the file are constants of the module.

### MockIndex

State: `changed`, the `RwLock<bool>` of the struct. `address_details(seen,
address, now)` is the function the code computes from what `changed.read()`
gives; `now` are the two readings of `SystemTime::now()` a history of two
lines takes. `Holding` is the branch that shows one output of 30, `Emptied`
the branch that shows 30 received and spent. `broadcast_transaction` sets
the lock whatever the transaction is. `Index::transaction` is
`unreachable!()` and has no definition.

Two things the model shows of the mock that the tests do not look at: the
first line of the history of `addr_2` is at block height 2 before the
broadcast and at height 1 after it, and the history of `addr_3` names
transaction 1 for the output it holds at transaction 2. Both are as in the
code; no property is stated about them, because the tests assert lengths of
histories only.

### TransactionFlow

The client as `check_transaction_flow` drives it. `builder`, `client` and
`built` are the variables of `WalletClientBuilder`, instantiated as
`Builder`; `View` is `WalletView` with the three wallets as the addresses,
of which `Finish` (what `balance`, `history`, `unspent_transactions` and
`create_transaction` make of the details of the addresses) is used. A call
is one step: each wallet has one address, so an operation reads the lock of
the index once and there is nothing for another thread to get between.
`ret[c]` records the call, its result, the capabilities of the client and
the lock as the call found it.

| Code | Model |
|---|---|
| `builder()`, `with_*`, `build()` | the five actions of `Builder`, at any time |
| `balance`, `history`, `unspent_transactions`, `create_transaction` on a built client | `Invoke` with `Answer`: `Details` (PermissionDenied without storage or index), then `View!Finish` |
| `output` | `Answer`: PermissionDenied without index, else `output` of `MockIndex` |
| `broadcast_transaction(&transaction)` | `BroadcastTransaction`: after a `create_transaction` that answered Ok; sets the lock unless the client has no index |
| the calls and `assert_eq!` of the three tests | `check_transaction_flow`, `check_unauthorized_wallet`, `invalid_wallet_building`: sequences of `Asserted(client, op, args, kind, shows)` |

`AgreesWithTests` compares every call the model makes with the tests: if a
test makes the same call on a client of the same capabilities in the same
state of the index (`Makes`), the answer is the asserted one. The model
makes many calls no test makes (a read-only client after the broadcast, a
payment of 20 from a wallet that holds 30); the other properties are about
those.

### Genesis and GenesisChain

`Genesis` has no state: `execute`, `generate` and `do_generate` are
functions of the file. A file is `Unreadable`, `Malformed`, or a record with
the distribution, the two fees as text, the genesis time and the rest that
is handed to `InitConfig::new` untouched. The errors are those of the code
in its order: "Invalid constant fee", "Invalid per byte fee", "distribution
validation error", "Invalid config". A file that is not JSON of a
`GenesisDevConfig` is a panic (`expect`), not an error; `generate` answers
`Err("Panicked")` for it. A result carries what the command has printed by
then (`printed`): `do_generate` prints the app hash before it serialises the
configuration, so "Invalid config" leaves one entry on the output and
success two. `validate_config_get_genesis` and
`serde_json::to_string` are the parameters `Validate` and `Serializable`:
their code is not under `src/`. The account trie after the insert is the
set of accounts inserted, as in `ChainQuery`.

`GenesisChain` extends `ChainQuery` with the variable `genesis`, the
genesis.json at hand. `Generate(file)` runs `execute` while the chain has
not started and puts the two entries it printed into genesis.json; `execute`
drops what `generate` returns, so the output is all there is, and a run that
did not print both entries leaves `genesis` as it was.
`InitChainFromGenesis` starts the node with the accounts `Validate` gives
for the app_state of `genesis`. This is an assumption about the node: its
InitChain is neither under `src/` nor described by the specification of the
repository, which leaves genesis tooling out of its scope.
`NodeStartsFromGenesis` therefore shows that the command hashes what it
prints, under the same validation on both sides, and cannot show a node
that validates differently. `Generate` and `InitChainFromGenesis` are the
environment of the two modelled programs and have no entry in the source
mapping. `Commit` and `Query` are those of `ChainQuery`.

## 4. Runs

| Run | Configuration | Result | What it shows |
|---|---|---|---|
| `flow` | `MCTransactionFlow.cfg` | passes, 61 065 states | `FlowTypeOK` (every client that exists has nested capabilities, every answer the shape of its operation), `BuildFollowsContract` (`build()` answers Ok exactly for the nested flag sets), `AgreesWithTests`, `BalanceIsHistoryTotal`, `CreatedTransactionIsFunded`, `HistorySurvivesStorage` |
| `wallet_keys` | `MCWalletKeys.cfg` | passes, 288 377 states | `TypeOK`, `WalletKeysAreSealedForOwner`, `ImplementsWalletStore` (refinement of `WalletStore`), `AnswersAsTested` for the operations on wallets, keys and single-key addresses |
| `wallet_addresses` | `MCWalletAddresses.cfg` | passes, 609 830 states | `TransferAddressesAreRegistered`, `RootHashesAreSealedByOwners`, `ImplementsWalletStore`, `AnswersAsTested` for the operations on multi-sig addresses |
| `wallet_orphan_key` | `MCWalletOrphanKey.cfg` | violation | `NoKeyWithoutWallet`: a failed `new_public_key` leaves its key pair behind (4 states) |
| `wallet_shared_root` | `MCWalletSharedRoot.cfg` | violation | `OwnerCanReadTransferAddresses`: a second wallet registering the same address reseals its record (14 states) |
| `view` | `MCWalletView.cfg` | passes, 416 208 states | `TypeOK` (a balance answered is at most `MAX_COIN`), `QuietViewIsExact`, `CreatedTransactionFollowsStrategy`, `ViewIsWithinTheCall` (what the answers still guarantee while the index moves between two addresses) |
| `view_snapshot` | `MCWalletViewSnapshot.cfg` | violation | `ViewIsOfOneIndexState`: the index applies a transaction between two addresses of `balance` (12 states) |
| `query` | `MCGenesisChain.cfg` | passes, 266 142 states | `GenesisTypeOK` (every committed height has its app hash; a genesis.json that exists came from a valid configuration), `ProofLookupsSucceed`, `ProofIsOfTheRequestedBlock`, `NodeStartsFromGenesis` |
| `query_abort` | `MCChainQueryAbort.cfg` | violation | `QueryNeverAborts`: `store` with `prove` and height -1 panics (4 states) |
| `multisig` | `MCMultiSigSession.cfg` | passes, 3 656 states | `TypeOK` (every value a signer hands out is the value of its round), `ImplementsSigningRounds` (refinement of `SigningRounds`), `EverySessionCompletes` (liveness under weak fairness) |
| `multisig_forged` | `MCMultiSigForged.cfg` | passes, 188 534 states | `CompletedSignatureVerifies`: with two forged messages no session completes with a signature that fails to verify, and completed sessions agree |
| `cli` | `MCClientCli.cfg` | passes, 475 768 states | `CliTypeOK`, `DeniedOnlyForWrongPassphrase`, `SyncFindsThePrivateKey` for two processes running any commands, on a storage directory that may not open |

The two wallet runs split the operations of `WalletClient` between them
(`Invoked`); `new_wallet` and `new_transfer_address` are in both. Each
assertion of the three wallet tests is reached in at least one of the two
runs: the reads of `transfer_addresses` in `wallet_addresses`, `wallets`,
`find_root_hash`, `public_keys`, `new_public_key` and the calls on a client
without storage in `wallet_keys`. Together with `flow`,
`view`, `query`, `multisig`, `multisig_forged` and `cli` they take every
action and every disjunct of the next-state relations.

The source mapping of `PROJECT.json` names the definitions that translate
lines of the sources or rules of the specification. The definitions that
only hold a model together (the table `Program`, `Call`, `Step`, `Serve` and
the next-state relations, the participants of `MultiSigSession`, `Generate`
and `InitChainFromGenesis`) are the environment and are not in it.

Every property of a passing run has a mutant in `PROJECT.json`: a variant of
a modelled definition with one plausible fault (a dropped check, a dropped
write, the wrong variable) under which TLC finds the property violated.

### Findings

* **`query_abort`** - `query.rs` 178-188. The height policy replaces height 0
  and heights above the tip by the tip and uses any other height as it is. A
  negative height reaches `get(COL_APP_STATES, ..).unwrap().unwrap()` and the
  handler panics, although the process is never to abort on a malformed query.
* **`wallet_orphan_key`** - `default_wallet_client.rs` 151-153 and 86-87. The
  key pair is stored before the wallet is looked up, so the failure the test
  calls "Generated public key for non existent wallet" does generate and keep
  one. The message of the test is the only statement about it; the
  specification of the repository does not say whether a failed operation
  may leave a key pair behind, so this is a gap of the specification and
  not a contradiction of it.
* **`wallet_shared_root`** - `default_wallet_client.rs` 189-191.
  `new_root_hash` is given no wallet name. The record of an address is shared
  by all wallets that register it and sealed with the passphrase of the last
  one; the earlier owners pass the wallet check of `required_cosigners` and
  `generate_proof` and are then refused by the root hash store. This rests on
  the record being stored under its root hash, which is how the specification
  and the signature of `new_root_hash` describe it.

* **`view_snapshot`** - `default_wallet_client.rs` 233-238 and 263-265. The
  wallet holds the whole supply of 3 coins, 2 at its first address and 1 at
  its second. A transaction pays 1 coin away from the first address and
  returns the change of 1 to the second. `balance` reads 2 at the first
  address, the index applies the transaction, `balance` reads 2 at the second
  address, and the sum 4 is answered as `BalanceAdditionError`. With a smaller
  wallet the same steps answer a balance the wallet never had, and
  `unspent_transactions` hands `create_transaction` an output together with
  the change of the transaction that spent it. The specification calls the
  client safe to share across threads and does not say of which state of the
  index a balance is.

## 5. Bounds

| Constant | Value | Why it is enough |
|---|---|---|
| `Callers` | 2 | every property is about one caller's operation cut by another's or by a crash |
| `Names`, `Passphrases` | 2 each | a right and a wrong passphrase, a wallet and another one |
| `MaxKeys` | 2 | a view key and one more key, or the view keys of two wallets; `GenerateKeypair` is disabled once they are used |
| `ExternalKeys` | `{101}` | one co-signer |
| `MultiSigRequests` | 3 | a valid 2-of-2 request, one with a threshold above the number of signers, one whose own key is not a signer |
| `ClientKinds` | 2 | a client with storage and a client of placeholders |
| `TransferAddresses`, `Recipients` | 2 and 1 | coins move between two addresses of the wallet and leave it |
| `Genesis`, `MaxCoin` | outputs of 2 and 1, 3 | the wallet holds exactly `MAX_COIN` in outputs of different value, so the bound of the sum and the order of selection both show |
| `Amounts` | `{1, 3}` | a payment one output covers with change, and one that takes both |
| `Fee` | 0 | the zero-fee policy of the scenarios of the specification |
| `MaxTransactions` | 2 | a transaction the index has applied and one it has not, or two that spend the same output |
| `ClientKinds` (view) | 3 | read and write, read only, no index |
| `TxIds` | 2 | a transaction in an older block and one in the tip |
| `Addresses` (`query_abort`) | 1 | the panic needs no account |
| `MaxHeight` | 3 | blocks with and without transactions below the tip |
| `RequestHeights` | `-1 .. MaxHeight + 1` | below zero, zero, every height, beyond the tip |

| `Signers`, `Keys` | 2 of 3 (`multisig`), 2 of 2 (`multisig_forged`) | every round waits for one co-signer; the third key is in no session and its holder is refused |
| `Passphrases` (multisig) | 2, or the right one only | a session operation under the wrong passphrase changes nothing; the forged run leaves it out to afford the forger |
| sessions per signer | 1 | `StartSession` is taken once per signer; a second session of the same signer is a session of its own and shares nothing with the first |
| `MaxForged` | 2 | a replayed value and a made-up one, or one forged message for each signer; with 3 the run also passes (1 567 838 states, two and a half minutes) |
| `Callers` (flow) | 1 | builder and client are the caller's own, a call is one read of the lock, and the only shared state is one bit that any broadcast sets: a second caller adds no state of the index the first cannot reach |
| `Times` (flow) | 4 | a whole second, milliseconds, microseconds and nanoseconds: one time for each length of the RFC 3339 text |
| `Amounts`, `MaxCoin` (flow) | `{20, 30}`, 100 | the whole output of 30 as in the test, and a payment that leaves change |
| `TxIds`, `Heights` (flow) | `0..2` | the ids and heights MockIndex names, and pointers at index 0 and 1 |
| `Files` | 34 | an unreadable and a malformed file, and every combination of four distributions (nobody, one holder of all, one holder of half, two holders), fees that are and are not numbers, and incentives of 0 or the whole supply of 2 |
| `Addresses` (query) | 2 | an address with an account and one without, and a distribution to both |
| `Callers` (cli) | 2 | a command beside another one, or after one that was killed |
| `Names` (cli) | 1 | the commands of interest race on one wallet |
| `MaxKeys` (cli) | 2 | the view key of the wallet and the key of one transfer address, after which `balance` reaches the index |
| `Invoked` (cli) | `new_transfer_address`, `new_staking_address` | what the address subcommand can ask of the client |

Callers, wallet names and passphrases are symmetry sets of the wallet runs;
the properties do not distinguish their members. The view runs use no
symmetry: the results of different operations are values of different shape,
which TLC cannot order.

## 6. Fairness and deadlock

The wallet, view, query and command-line specifications assume no fairness:
their operations are synchronous calls that return when the storage does, and
the code schedules nothing; in particular nothing in the sources says when the
index synchronises, so `Sync` is not fair.

`multisig` runs `FairSpec`: weak fairness, for every signer `k`, of
`Progress(k)`, the steps of `k` that change a session or put a message on the
network. The code does not schedule the signers either; the assumption is
about the participants: a signer who can start its session, announce a value,
take in a value that was handed to it or ask for the signature does so
eventually. Weak fairness is enough because a step of a signer that is
possible stays possible until that signer takes it: messages are never
removed and nobody else writes to its session. Nothing is assumed of the
holder of the third key, of calls with a wrong passphrase (they change
nothing, so they are no progress), or of the forger. `EverySessionCompletes`
is checked without forged messages: one value in the name of a co-signer that
fails to verify aborts the round for good, which is what the session
service is specified to do.

`flow` and `query` assume no fairness either and check no liveness: a test
is a sequence of synchronous calls, and the genesis command is run by hand.

Deadlock is checked in every run but
`wallet_orphan_key`: a caller can always crash or begin an operation, and a
query can always be answered. `wallet_orphan_key` runs the specification
without crashes, in which callers inside `generate_keypair` wait for ever once
the `MaxKeys` key pairs of the bound are used up.

## 7. What is not modelled

* `TransactionChange::size_hint`, and the bytes inside an encoded field.
* In `Genesis`: the rules of `validate_config_get_genesis` and the JSON
  serialisation (parameters of the module; the run takes a stand-in that
  accepts a configuration when the coins distributed and the incentives add
  up to the supply, and a serialisation that never fails, so the error
  "Invalid config" is modelled and not reached); a failure of the two
  `expect` in `do_generate` (lines 78 and 86), which open an in-memory
  database created on that line and insert into the empty trie.
* In `TransactionFlow`: the passphrases of the test wallets (all the same);
  two threads on one MockIndex, which the tests never start.
* Of the wallet tests: `check_multi_sig_address_generation` from its address
  of three co-signers on, and `check_1_of_n_schnorr_signature`, which needs
  four key pairs of one wallet. The wallet runs have one co-signer and two
  key pairs (section 5); with three co-signers or four keys neither run ends
  within minutes. What these tests assert of a 2-of-3 and a 1-of-3 address
  the runs check of 2-of-2 and 1-of-1 addresses. Of `check_wallet_flow`, that
  the one address listed is the address `new_transfer_address` returned is
  not an assertion of its own: it follows from `ImplementsWalletStore`.
* In `WalletStore`: the answers of `private_key`, `required_cosigners`,
  `generate_proof`, `schnorr_signature`, `balance` and `history` beyond "the
  wallet was opened": they depend on the key store, the root hash store and
  the index, which wallets share (finding `wallet_shared_root`) and which are
  not part of a wallet.
* `client-index/src/handler.rs` declares the traits `TransactionHandler` and
  `BlockHandler` and nothing else: there is no behaviour to model.
* In `MultiSigSession`: a signer of the subset who sends wrong values of its
  own (the forger is outside the subset), more than one session per signer,
  and a crash inside a session operation, which is one call to the session
  service and leaves nothing half done in the client.
* In `ClientCli`: the address and transaction subcommands beyond one call on
  the client they are given (their sources are not under `src/`); a prompt
  that fails to read the terminal; and why a storage directory does not
  open. `Execute` lets `SledStorage::new` fail or succeed at any time, also
  for two processes at once: if the engine refuses the second process, the
  behaviours left are those of one command after another, killed or not,
  which the model includes.
* In `WalletView`: a transaction handed to `broadcast_transaction` a second
  time. The client keeps no transaction and retries nothing; a caller who
  sends one again is answered by the chain like any stale transaction.
* In `WalletView`: more than one wallet, fees that depend on the size of a
  transaction, signing and encryption of the transaction, callers dropped
  inside an operation (the operations but `broadcast_transaction` only read).
* Cryptography, the database engine, the account trie's structure, RPC
  transport, terminal I/O, command-line parsing: outside `src/` or pure I/O.
* Log texts of responses and errors: no property is about them.
* What the node does after a panic of the query handler: the model records
  the response `Aborted` and goes on with the persisted state.
