------------------------------ MODULE ChainQuery ------------------------------
(***************************************************************************)
(* The ABCI query handler of chain-abci (app/query.rs) over the state the  *)
(* node commits.                                                           *)
(*                                                                         *)
(* query_handler reads the columns of the key-value store, last_state and  *)
(* the account trie and changes none of them; what a query answers depends *)
(* on what InitChain and Commit have written before it.  Those two are not *)
(* part of query.rs: they are modelled from the persisted state layout of  *)
(* the repository's specification (one atomic batch per block).  A panic   *)
(* of the handler (an unwrap of a missing value) is the response Aborted.  *)
(***************************************************************************)
EXTENDS Integers, Sequences, FiniteSets

CONSTANTS
    TxIds,       \* transaction ids (32 bytes)
    Addresses,   \* staking addresses (20 bytes)
    MaxHeight,   \* bound: blocks committed in a run
    Garbage,     \* request data that decodes as nothing
    None         \* no value: Option::None, an empty response field

ASSUME MaxHeight \in Nat

VARIABLES
    db,          \* the key-value store: one function per column
    last_state,  \* None until InitChain; then the last committed state
    accounts,    \* the account trie: the roots it can answer for
    mock,        \* whether this build has the feature "mock-enc-dec"
    req,         \* the last query
    resp         \* and the response to it

vars == <<db, last_state, accounts, mock, req, resp>>

Columns == {"COL_BODIES", "COL_WITNESS", "COL_TX_META", "COL_APP_STATES", "COL_MERKLE_PROOFS"}

----------------------------------------------------------------------------
(***************************************************************************)
(* Values.  An encoding is the value tagged with what it encodes; a hash   *)
(* is what it is the hash of.  A Merkle tree is the set of its leaves, an  *)
(* account root the set of the addresses that have an account under it.    *)
(***************************************************************************)
Encoded(what, x) == [encoded |-> what, of |-> x]

MerkleTree == SUBSET TxIds

AppHash == [tree : MerkleTree, account_root : SUBSET Addresses]

\* The three requests the encryption mock decodes, and the one of the
\* decryption mock.
EncryptionRequests ==
    [kind : {"TransferTx", "DepositStake", "WithdrawStake"}, tx : TxIds]

DecryptionRequests == [txs : SUBSET TxIds]

\* Generate generic ABCI ProofOp for the witness
get_witness_proof_op(witness) ==
    [field_type |-> "witness", key |-> "TXID_HASH_ID", data |-> [txid_hash |-> witness]]

into_proof_op(root_hash, proof) ==
    [field_type |-> "transaction", key |-> root_hash, data |-> Encoded("proof", proof)]

\* MerkleTree::root_hash and MerkleTree::generate_proof.
root_hash(tree) == [root_of |-> tree]

generate_proof(tree, txid) ==
    IF txid \in tree THEN [leaf |-> txid, of |-> tree] ELSE None

ProofOps ==
    {get_witness_proof_op(Encoded("witness", t)) : t \in TxIds}
    \cup {into_proof_op(root_hash(tree), [leaf |-> t, of |-> tree]) :
            tree \in MerkleTree, t \in TxIds}

\* ResponseQuery::new(), and the response the client never gets: the
\* handler panicked.
ResponseQuery == [code |-> 0, value |-> None, proof |-> <<>>, panicked |-> FALSE]

Aborted == [ResponseQuery EXCEPT !.panicked = TRUE]

----------------------------------------------------------------------------
(***************************************************************************)
(* The queries a client sends.  Each path is asked with the data it        *)
(* decodes and with Garbage, which stands for every other sequence of      *)
(* bytes; height and prove are read on the path "store" only, the other    *)
(* paths are asked with the defaults.                                      *)
(***************************************************************************)
Paths == {"/p2p/filter/addr", "p2p/filter/id", "mockencrypt", "mockdecrypt",
          "store", "meta", "witness", "merkle", "account", "other"}

Data(path) ==
    {Garbage} \cup
        CASE path \in {"store", "meta", "witness"} -> TxIds
          [] path = "merkle" -> DOMAIN db.COL_MERKLE_PROOFS
          [] path = "account" -> Addresses
          [] path = "mockencrypt" -> EncryptionRequests
          [] path = "mockdecrypt" -> DecryptionRequests
          [] OTHER -> {}

\* The heights of a request: an i64, so also below zero and beyond the tip.
RequestHeights == (-1)..(MaxHeight + 1)

RequestQuery ==
    {[path |-> path, data |-> data, height |-> height, prove |-> prove] :
        path \in {"store"}, data \in Data("store"),
        height \in RequestHeights, prove \in BOOLEAN}
    \cup UNION {{[path |-> path, data |-> data, height |-> 0, prove |-> FALSE] :
                    data \in Data(path)} : path \in Paths \ {"store"}}

TypeOK ==
    /\ DOMAIN db = Columns
    /\ \A col \in {"COL_BODIES", "COL_WITNESS", "COL_TX_META"} : DOMAIN db[col] \subseteq TxIds
    /\ DOMAIN db.COL_APP_STATES =
            1..(IF last_state = None THEN 0 ELSE last_state.last_block_height)
    /\ \A h \in DOMAIN db.COL_APP_STATES : db.COL_APP_STATES[h] \in AppHash
    /\ DOMAIN db.COL_MERKLE_PROOFS \subseteq AppHash
    /\ \/ last_state = None
       \/ last_state \in [last_block_height : 0..MaxHeight, last_account_root_hash : SUBSET Addresses]
    /\ accounts \subseteq SUBSET Addresses
    /\ mock \in BOOLEAN
    /\ req = None \/ req \in RequestQuery
    /\ \/ resp = None
       \/ /\ resp.code \in 0..3
          /\ resp.proof = <<>> \/ resp.proof \in Seq(ProofOps)
          /\ resp.panicked \in BOOLEAN

\* A node that has not been initialised, built with or without the mock.
Init ==
    /\ db = [col \in Columns |-> <<>>]
    /\ last_state = None
    /\ accounts = {}
    /\ mock \in BOOLEAN
    /\ req = None
    /\ resp = None

----------------------------------------------------------------------------
(***************************************************************************)
(* What the node writes.                                                   *)
(***************************************************************************)

\* InitChain: the genesis accounts under the first root, at height 0.
InitChain(staked) ==
    /\ last_state = None
    /\ last_state' = [last_block_height |-> 0, last_account_root_hash |-> staked]
    /\ accounts' = accounts \cup {staked}
    /\ UNCHANGED <<db, mock, req, resp>>

\* The batch of a block: body and meta of each of its transactions, the
\* witness of those that have one, the tree of the block under its app hash
\* and the app hash under the height.
Batch(height, app_hash, txs, witnessed) ==
    LET Put(column, ks, what) ==
            [k \in DOMAIN column \cup ks |->
                IF k \in ks THEN Encoded(what, k) ELSE column[k]] IN
    [COL_BODIES |-> Put(db.COL_BODIES, txs, "body"),
     COL_WITNESS |-> Put(db.COL_WITNESS, witnessed, "witness"),
     COL_TX_META |-> Put(db.COL_TX_META, txs, "meta"),
     COL_APP_STATES |->
        [h \in DOMAIN db.COL_APP_STATES \cup {height} |->
            IF h = height THEN app_hash ELSE db.COL_APP_STATES[h]],
     COL_MERKLE_PROOFS |->
        [a \in DOMAIN db.COL_MERKLE_PROOFS \cup {app_hash} |->
            IF a = app_hash THEN Encoded("tree", txs) ELSE db.COL_MERKLE_PROOFS[a]]]

\* Commit of the next block: its transactions `txs', of which `witnessed'
\* carry a witness, and the accounts `staked' they open.
Commit(txs, witnessed, staked) ==
    LET height == last_state.last_block_height + 1
        root == last_state.last_account_root_hash \cup staked
        app_hash == [tree |-> txs, account_root |-> root] IN
    /\ last_state # None
    /\ height <= MaxHeight
    /\ txs \cap DOMAIN db.COL_BODIES = {}
    /\ db' = Batch(height, app_hash, txs, witnessed)
    /\ accounts' = accounts \cup {root}
    /\ last_state' = [last_block_height |-> height, last_account_root_hash |-> root]
    /\ UNCHANGED <<mock, req, resp>>

----------------------------------------------------------------------------
(***************************************************************************)
(* query_handler.  Each operator takes the response built so far and       *)
(* answers the response after it.                                          *)
(***************************************************************************)

\* Helper to find a key under a column in KV DB, or log an error (both
\* stored in the response).
lookup(r, column, key) ==
    IF key \in DOMAIN db[column]
    THEN [r EXCEPT !.value = db[column][key]]
    ELSE [r EXCEPT !.code = 1]

\* The mock of the enclave: an error in a production build; with the
\* feature, the transaction with its plain payload, or the bodies of the
\* transactions asked for that the store has.
handle_enc_dec(r, request) ==
    LET decodes == IF request.path = "mockencrypt"
                   THEN request.data \in EncryptionRequests
                   ELSE request.data \in DecryptionRequests
        found == request.data.txs \cap DOMAIN db.COL_BODIES
        response ==
            IF request.path = "mockencrypt"
            THEN Encoded("EncryptionResponse",
                         [tx |-> request.data.kind, txid |-> request.data.tx,
                          key_from |-> 0, txpayload |-> Encoded("PlainTxAux", request.data)])
            ELSE Encoded("DecryptionResponse", {db.COL_BODIES[t] : t \in found}) IN
    IF mock /\ decodes THEN [r EXCEPT !.value = response] ELSE [r EXCEPT !.code = 1]

last_height == IF last_state = None THEN 0 ELSE last_state.last_block_height

\* The height policy with height 0 taken as a height of its own.
ProofHeight_ZeroIsExact(request) ==
    IF request.height > last_height THEN last_height ELSE request.height

\* The height policy that always proves against the tip.
ProofHeight_AlwaysTip(request) == last_height

\* The height a proof is generated for.
ProofHeight(request) ==
    IF request.height = 0 \/ request.height > last_height
    THEN last_height
    ELSE request.height

\* The proof with a "transaction" op whether or not the tree has a proof of
\* the transaction.
prove_store_AlwaysTransactionOp(r, request) ==
    LET txid == request.data
        height == ProofHeight(request)
        app_hash == db.COL_APP_STATES[height]
        tree == db.COL_MERKLE_PROOFS[app_hash].of
        merkle_proof == generate_proof(tree, txid)
        witness_op == get_witness_proof_op(db.COL_WITNESS[txid]) IN
    IF txid \notin DOMAIN db.COL_WITNESS THEN [r EXCEPT !.code = 2]
    ELSE IF height \notin DOMAIN db.COL_APP_STATES THEN Aborted
    ELSE IF app_hash \notin DOMAIN db.COL_MERKLE_PROOFS THEN Aborted
    ELSE [r EXCEPT !.proof = <<into_proof_op(root_hash(tree), merkle_proof), witness_op>>]

\* "store" with prove, once the body is in the response: the proof of the
\* transaction in the tree of the block at the height of the policy, and
\* the commitment to its witness.  The app hash of the height and the tree
\* of the app hash are unwrapped.
prove_store(r, request) ==
    LET txid == request.data
        height == ProofHeight(request)
        app_hash == db.COL_APP_STATES[height]
        tree == db.COL_MERKLE_PROOFS[app_hash].of
        merkle_proof == generate_proof(tree, txid)
        witness_op == get_witness_proof_op(db.COL_WITNESS[txid]) IN
    IF txid \notin DOMAIN db.COL_WITNESS THEN [r EXCEPT !.code = 2]
    ELSE IF height \notin DOMAIN db.COL_APP_STATES THEN Aborted
    ELSE IF app_hash \notin DOMAIN db.COL_MERKLE_PROOFS THEN Aborted
    ELSE IF merkle_proof = None THEN [r EXCEPT !.proof = <<witness_op>>]
    ELSE [r EXCEPT !.proof = <<into_proof_op(root_hash(tree), merkle_proof), witness_op>>]

store(r, request) ==
    LET found == lookup(r, "COL_BODIES", request.data) IN
    IF request.prove /\ found.code = 0 THEN prove_store(found, request) ELSE found

\* get_account of the address under the root of the last state.
account(r, request) ==
    LET address == request.data
        root == last_state.last_account_root_hash IN
    IF last_state = None \/ address \notin Addresses THEN [r EXCEPT !.code = 3]
    ELSE IF root \in accounts /\ address \in root
         THEN [r EXCEPT !.value = Encoded("StakedState", address)]
         ELSE [r EXCEPT !.code = 1]

query_handler(request) ==
    LET r == ResponseQuery
        path == request.path IN
    CASE path \in {"/p2p/filter/addr", "p2p/filter/id"} -> r
      [] path \in {"mockencrypt", "mockdecrypt"} -> handle_enc_dec(r, request)
      [] path = "store" -> store(r, request)
      [] path = "meta" -> lookup(r, "COL_TX_META", request.data)
      [] path = "witness" -> lookup(r, "COL_WITNESS", request.data)
      [] path = "merkle" -> lookup(r, "COL_MERKLE_PROOFS", request.data)
      [] path = "account" -> account(r, request)
      [] OTHER -> [r EXCEPT !.code = 1]

\* The node answers a query.
Query(request) ==
    /\ req' = request
    /\ resp' = query_handler(request)
    /\ UNCHANGED <<db, last_state, accounts, mock>>

----------------------------------------------------------------------------
Next ==
    \/ \E staked \in SUBSET Addresses : InitChain(staked)
    \/ \E txs \in SUBSET TxIds, staked \in SUBSET Addresses :
            \E witnessed \in SUBSET txs : Commit(txs, witnessed, staked)
    \/ \E request \in RequestQuery : Query(request)

Spec == Init /\ [][Next]_vars

----------------------------------------------------------------------------
(***************************************************************************)
(* Properties.                                                             *)
(***************************************************************************)

\* "The process never aborts on a malformed query": no query makes
\* query_handler panic.
QueryNeverAborts == resp # Aborted

\* The unwraps of the path "store" (the app hash of the height, the tree of
\* the app hash) never meet a missing value for a height a client can mean:
\* whatever blocks have been committed, with or without transactions, and
\* whichever height from 0 upwards the query names, at, below or beyond the
\* tip, every height the height policy selects has its app hash and its
\* tree in the store.
ProofLookupsSucceed == resp = Aborted => req.height < 0

\* A proof answers for the block the client asked about.  When a "store"
\* query with prove succeeds, the height the client means is its own if it
\* lies in 1..tip and the tip otherwise; the proof holds a "transaction" op
\* exactly when the transaction is in the block of that height, the op is
\* keyed by the root of that block's tree, and the last op commits to the
\* stored witness of the transaction.
ProofIsOfTheRequestedBlock ==
    [][(/\ UNCHANGED <<db, last_state>>
        /\ req' # None /\ req'.path = "store" /\ req'.prove
        /\ resp'.code = 0 /\ ~resp'.panicked)
       =>
       LET tip == last_state.last_block_height
           height == IF req'.height \in 1..tip THEN req'.height ELSE tip
           block == db.COL_APP_STATES[height].tree
           ops == resp'.proof
           transaction_ops == {i \in 1..Len(ops) : ops[i].field_type = "transaction"} IN
       /\ ops # <<>>
       /\ ops[Len(ops)] = get_witness_proof_op(db.COL_WITNESS[req'.data])
       /\ transaction_ops = IF req'.data \in block THEN {1} ELSE {}
       /\ \A i \in transaction_ops : ops[i].key = root_hash(block)]_vars

=============================================================================
