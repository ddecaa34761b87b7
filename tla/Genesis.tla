------------------------------- MODULE Genesis -------------------------------
(***************************************************************************)
(* GenesisCommand of dev-utils: `genesis generate' reads a development     *)
(* configuration and prints the two entries of genesis.json a node is      *)
(* started from, app_hash and app_state.                                   *)
(*                                                                         *)
(* The command is a function of the file it is given.  Two things it calls *)
(* are parameters of the module, because neither their code nor their      *)
(* rules are part of what is modelled: InitConfig's                        *)
(* validate_config_get_genesis (Validate) and the JSON serialisation of    *)
(* the configuration (Serializable).  The account trie is the set of the   *)
(* addresses inserted, a hash is what it is the hash of.                   *)
(***************************************************************************)
EXTENDS Naturals, FiniteSets

CONSTANTS
    Addresses,          \* RedeemAddress values
    Unreadable,         \* a path fs::read_to_string fails on
    Malformed,          \* a file that is not a GenesisDevConfig in JSON
    NotANumber,         \* a fee text Milli::from_str refuses
    Validate(_, _),     \* validate_config_get_genesis(config, genesis_time):
                        \*   None, or [accounts |-> ..., rewards_pool |-> ...]
    Serializable(_),    \* serde_json::to_string(config) succeeds
    None

\* A fee as text: units and thousandths.
MilliText == [units : Nat, thousandths : 0..999]

\* GenesisDevConfig; `rest' is what is handed on untouched: the incentives,
\* the council nodes, their stake and the unbonding period.
IsGenesisDevConfig(file) ==
    /\ DOMAIN file = {"distribution", "initial_fee_policy", "genesis_time", "rest"}
    /\ DOMAIN file.distribution \subseteq Addresses
    /\ \A a \in DOMAIN file.distribution : file.distribution[a] \in Nat

\* A Result, and beside it the entries the command has printed by then.
Ok(value) == [kind |-> "Ok", value |-> value, printed |-> <<>>]
Err(kind) == [kind |-> kind, value |-> None, printed |-> <<>>]

\* Milli::from_str: the fee in thousandths, None for what is no number.
Milli_from_str(text) ==
    IF text \in MilliText THEN 1000 * text.units + text.thousandths ELSE None

\* compute_app_hash and encode_upper of it.
compute_app_hash(tx_tree, account_root, rewards_pool) ==
    [tree |-> tx_tree, account_root |-> account_root, rewards_pool |-> rewards_pool]

encode_upper(hash) == [hex |-> hash]

\* InitConfig::new with the fee policy and the distribution of the file.
InitConfig(genesis_dev, dist) ==
    [distribution |-> dist,
     initial_fee_policy |->
        [constant |-> Milli_from_str(genesis_dev.initial_fee_policy.base_fee),
         coefficient |-> Milli_from_str(genesis_dev.initial_fee_policy.per_byte_fee)],
     rest |-> genesis_dev.rest]

\* The root hashed before the accounts are inserted.
genesis_app_hash_EmptyTrie(genesis) ==
    encode_upper(compute_app_hash({}, {}, genesis.rewards_pool))

\* The accounts put into an empty trie; the app hash of no transactions,
\* that trie and the rewards pool.
genesis_app_hash(genesis) ==
    encode_upper(compute_app_hash({}, genesis.accounts, genesis.rewards_pool))

\* do_generate: every holder an externally owned account, the two fees
\* parsed, the configuration validated and serialised.  The app hash is
\* printed before the configuration is serialised, so a configuration that
\* cannot be leaves the line "app_hash" on the output and no "app_state".
do_generate(genesis_dev) ==
    LET dist == [a \in DOMAIN genesis_dev.distribution |->
                    <<genesis_dev.distribution[a], "ExternallyOwnedAccount">>]
        config == InitConfig(genesis_dev, dist)
        result == Validate(config, genesis_dev.genesis_time)
    IN  IF config.initial_fee_policy.constant = None THEN Err("Invalid constant fee")
        ELSE IF config.initial_fee_policy.coefficient = None THEN Err("Invalid per byte fee")
        ELSE IF result = None THEN Err("distribution validation error")
        ELSE LET app_hash == genesis_app_hash(result) IN
             IF ~Serializable(config)
             THEN [Err("Invalid config") EXCEPT !.printed = <<app_hash>>]
             ELSE [Ok([app_hash |-> app_hash, app_state |-> config])
                        EXCEPT !.printed = <<app_hash, config>>]

\* generate: the file read and parsed, then do_generate.  A file that
\* cannot be read is an error, one that cannot be parsed a panic.
generate(file) ==
    IF file = Unreadable THEN Err("Something went wrong reading the file")
    ELSE IF file = Malformed THEN Err("Panicked")
    ELSE do_generate(file)

\* execute: Generate is the only command; what generate returns is dropped,
\* what it printed is all there is.
execute(file) ==
    IF generate(file).kind = "Ok" THEN [generate(file) EXCEPT !.value = None]
    ELSE generate(file)

=============================================================================
