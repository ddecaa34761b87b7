---------------------------- MODULE GenesisChain ----------------------------
(***************************************************************************)
(* The genesis command and the node it prepares the start of: `genesis     *)
(* generate' writes app_hash and app_state, they are put into              *)
(* genesis.json, and InitChain of the node takes its first accounts from   *)
(* that app_state.  From then on the node is the one of module ChainQuery. *)
(*                                                                         *)
(* The command may be run again, on any file, as long as the chain has     *)
(* not started; a run that fails leaves genesis.json as it is.             *)
(***************************************************************************)
EXTENDS ChainQuery

CONSTANTS
    Files,              \* what `genesis generate' is run on
    Unreadable, Malformed, NotANumber,
    Validate(_, _),
    Serializable(_)

VARIABLE genesis        \* genesis.json: app_hash, app_state and genesis_time, or None

genesisVars == <<vars, genesis>>

Tool == INSTANCE Genesis

\* `genesis generate' on a file, and the two entries it printed put into
\* genesis.json; a run that did not print both leaves the file as it is.
Generate(file) ==
    LET printed == Tool!execute(file).printed IN
    /\ last_state = None
    /\ genesis' = IF Len(printed) = 2
                  THEN [app_hash |-> printed[1], app_state |-> printed[2],
                        genesis_time |-> file.genesis_time]
                  ELSE genesis
    /\ UNCHANGED vars

\* InitChain with the genesis.json at hand: the accounts of its app_state.
InitChainFromGenesis ==
    /\ genesis # None
    /\ InitChain(Validate(genesis.app_state, genesis.genesis_time).accounts)
    /\ UNCHANGED genesis

GenesisTypeOK ==
    /\ TypeOK
    /\ \/ genesis = None /\ last_state = None
       \/ /\ DOMAIN genesis.app_state.distribution \subseteq Addresses
          /\ genesis.app_state.initial_fee_policy \in [constant : Nat, coefficient : Nat]
          /\ Validate(genesis.app_state, genesis.genesis_time) # None

GenesisInit == Init /\ genesis = None

GenesisNext ==
    \/ \E file \in Files : Generate(file)
    \/ InitChainFromGenesis
    \/ \E txs \in SUBSET TxIds, staked \in SUBSET Addresses :
            \E witnessed \in SUBSET txs : Commit(txs, witnessed, staked) /\ UNCHANGED genesis
    \/ \E request \in RequestQuery : Query(request) /\ UNCHANGED genesis

GenesisSpec == GenesisInit /\ [][GenesisNext]_genesisVars

----------------------------------------------------------------------------
\* The node starts from what the command printed.  Until the first block
\* is committed, the app hash of genesis.json is the hash of no
\* transactions, the account root the node holds and the rewards pool of
\* the app_state, so a node that compares the two at InitChain starts; and
\* the query "account" answers with a StakedState for exactly the
\* addresses of the distribution and with code 3 before InitChain.
NodeStartsFromGenesis ==
    [][(/\ UNCHANGED last_state
        /\ last_state = None \/ last_state.last_block_height = 0
        /\ req' # None /\ req'.path = "account" /\ req'.data \in Addresses)
       =>
       IF last_state = None THEN resp'.code = 3
       ELSE /\ genesis.app_hash =
                    Tool!encode_upper(
                        Tool!compute_app_hash({}, last_state.last_account_root_hash,
                                              Validate(genesis.app_state,
                                                       genesis.genesis_time).rewards_pool))
            /\ resp'.code = 0 <=> req'.data \in DOMAIN genesis.app_state.distribution
            /\ resp'.code = 0 => resp'.value = Encoded("StakedState", req'.data)]_genesisVars

=============================================================================
