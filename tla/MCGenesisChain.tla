---------------------------- MODULE MCGenesisChain ----------------------------
(***************************************************************************)
(* GenesisChain for TLC: the node of MCChainQuery with two staking         *)
(* addresses, and development configurations that differ in who holds      *)
(* coins, in whether the two fees are numbers, and in whether what is      *)
(* distributed and the incentives add up to the supply.                    *)
(*                                                                         *)
(* MCValidate stands for validate_config_get_genesis: a configuration is   *)
(* valid when the supply is accounted for, every holder gets an account,   *)
(* and the incentives are the rewards pool.                                *)
(***************************************************************************)
EXTENDS GenesisChain, TLC, FiniteSetsExt

CONSTANTS t1, t2, a1, a2

MCTxIds == {t1, t2}
MCAddresses == {a1, a2}
Supply == 2

Distributions == {<<>>, a1 :> 2, a1 :> 1, a1 :> 1 @@ a2 :> 1}

FeeTexts == {[units |-> 1, thousandths |-> 100], NotANumber}

MCFiles ==
    {Unreadable, Malformed}
    \cup [distribution : Distributions,
          initial_fee_policy : [base_fee : FeeTexts, per_byte_fee : FeeTexts],
          genesis_time : {0},
          rest : [incentives : {0, 2}]]

MCValidate(config, genesis_time) ==
    LET distributed == MapThenSumSet(LAMBDA a : config.distribution[a][1],
                                     DOMAIN config.distribution) IN
    IF distributed + config.rest.incentives = Supply
    THEN [accounts |-> DOMAIN config.distribution, rewards_pool |-> config.rest.incentives]
    ELSE None

MCSerializable(config) == TRUE

=============================================================================
