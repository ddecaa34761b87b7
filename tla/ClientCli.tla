----------------------------- MODULE ClientCli -----------------------------
(***************************************************************************)
(* The commands of client-cli over the wallet client: every caller of      *)
(* WalletClient is here one run of the command line.  Command::execute     *)
(* assembles a client with the capabilities its arm asks for, the command  *)
(* prompts for the passphrase and makes its calls on the client one after  *)
(* the other, and the first error ends the process.                        *)
(*                                                                         *)
(* The processes share the storage directory; each has a client of its     *)
(* own.  What Tendermint answers is not modelled: a call that goes to the  *)
(* node ends well or with RpcError.  The address and the transaction       *)
(* subcommands are handed the client; which operation they call on it is   *)
(* theirs to choose, among Invoked.                                        *)
(***************************************************************************)
EXTENDS WalletClient

VARIABLE process    \* process[c]: the command c runs and how far it is

cliVars == <<vars, process>>

\* Only build()'s condition is taken from the builder.
Builder == INSTANCE WalletClientBuilder
               WITH builder <- [c \in Callers |-> None], built <- [c \in Callers |-> None]

Commands ==
    {"wallet_new", "wallet_list", "address", "view_key", "balance", "history",
     "transaction", "state", "sync"}

\* The commands that ask the node for the genesis before they build.
NeedGenesis == {"transaction", "state"}

\* The steps of a command that are calls to the node, not to the client.
Remote == {"get_staked_state", "synchronize"}

\* The Balance arm built like the ViewKey arm: with_transaction_read dropped.
Capabilities_BalanceLikeViewKey(command) ==
    [storage_set |-> TRUE,
     index_set |-> command \in NeedGenesis,
     transaction_builder_set |-> command \in NeedGenesis]

\* with_wallet, with_transaction_read and with_transaction_write, as the
\* arms of execute call them.
Capabilities(command) ==
    [storage_set |-> TRUE,
     index_set |-> command \in {"balance", "history"} \cup NeedGenesis,
     transaction_builder_set |-> command \in NeedGenesis]

\* resync without its first call: the key is asked for before it is known.
Script_SyncWithoutViewKey(command, op) ==
    CASE command = "wallet_new" -> <<"new_wallet">>
      [] command = "wallet_list" -> <<"wallets">>
      [] command = "state" -> <<"get_staked_state">>
      [] command = "sync" -> <<"private_key", "staking_addresses", "synchronize">>
      [] command \in {"address", "transaction"} -> <<op>>
      [] OTHER -> <<command>>

\* What a command does with its client, in order.
Script(command, op) ==
    CASE command = "wallet_new" -> <<"new_wallet">>
      [] command = "wallet_list" -> <<"wallets">>
      [] command = "state" -> <<"get_staked_state">>
      [] command = "sync" ->
            <<"view_key", "private_key", "staking_addresses", "synchronize">>
      [] command \in {"address", "transaction"} -> <<op>>
      [] OTHER -> <<command>>

Running(c) == process[c] # None /\ process[c].exit = None

\* The process ends with `kind'; where it stopped stays on record.
Exit(c, kind) == process' = [process EXCEPT ![c].exit = kind]

\* The arguments of the call the process is about to make.
CallArguments(k) ==
    CASE Head(k.todo) = "wallets" -> NoArguments
      [] Head(k.todo) = "private_key" ->
            [NoArguments EXCEPT !.passphrase = k.passphrase, !.public_key = k.view_key]
      [] OTHER -> [NoArguments EXCEPT !.name = k.name, !.passphrase = k.passphrase]

----------------------------------------------------------------------------
\* Command::execute up to the first call on the client: the storage
\* directory opened (SledStorage::new, which may fail in every arm), the
\* genesis where the arm needs the fee policy, the builder, and the
\* prompts.  `confirmed' is what the user types at "Confirm passphrase: ".
\* A process that cannot open the storage ends before it asks for a
\* passphrase.
Execute(c, command, name, passphrase, confirmed, op) ==
    LET flags == Capabilities(command)
        started == [command |-> command, name |-> name, passphrase |-> passphrase,
                    todo |-> Script(command, op), view_key |-> None, exit |-> None] IN
    /\ ~Running(c)
    /\ \/ /\ process' = [process EXCEPT ![c] =
                            [started EXCEPT !.exit = "StorageError", !.passphrase = None]]
          /\ UNCHANGED client
       \/ /\ command \in NeedGenesis
          /\ process' = [process EXCEPT ![c] = [started EXCEPT !.exit = "RpcError"]]
          /\ UNCHANGED client
       \/ /\ client' = [client EXCEPT ![c] = IF Builder!BuildAccepts(flags) THEN flags ELSE @]
          /\ process' = [process EXCEPT ![c] =
                [started EXCEPT !.exit =
                    IF \/ ~Builder!BuildAccepts(flags)
                       \/ command = "wallet_new" /\ passphrase # confirmed
                    THEN "InvalidInput" ELSE None]]
    /\ ret' = [ret EXCEPT ![c] = None]
    /\ UNCHANGED <<keys, wallets, rootHashes, call>>

\* The process makes the next call of its command on the client.
Invoke(c) ==
    /\ Running(c)
    /\ ret[c] = None
    /\ Head(process[c].todo) \notin Remote
    /\ Call(c, Head(process[c].todo), CallArguments(process[c]))
    /\ UNCHANGED process

\* The call has returned: `?' ends the process on an error, resync turns a
\* missing private key into WalletNotFound, and the command goes on to its
\* next line or ends.
Resume(c) ==
    LET k == process[c]
        missing == ret[c].op = "private_key" /\ ret[c].value = None IN
    /\ Running(c)
    /\ ret[c] # None
    /\ \/ /\ ret[c].kind # "Ok"
          /\ Exit(c, ret[c].kind)
       \/ /\ ret[c].kind = "Ok"
          /\ process' = [process EXCEPT ![c] =
                IF missing THEN [k EXCEPT !.exit = "WalletNotFound"]
                ELSE [k EXCEPT !.todo = IF Len(@) = 1 THEN @ ELSE Tail(@),
                               !.view_key = IF ret[c].op = "view_key" THEN ret[c].value ELSE @,
                               !.exit = IF Len(k.todo) = 1 THEN "Ok" ELSE None]]
    /\ ret' = [ret EXCEPT ![c] = None]
    /\ UNCHANGED <<keys, wallets, rootHashes, client, call>>

\* get_staked_state of the network client, sync and sync_all of the
\* synchronizer: the last line of their command, answered by the node.
AskNode(c) ==
    /\ Running(c)
    /\ ret[c] = None
    /\ Head(process[c].todo) \in Remote
    /\ \E kind \in {"Ok", "RpcError"} : Exit(c, kind)
    /\ UNCHANGED vars

\* The process is killed inside a call on the client.
Kill(c) ==
    /\ Running(c)
    /\ Crash(c)
    /\ Exit(c, "Crashed")

CliInit ==
    /\ Init
    /\ \A c \in Callers : ~client[c].storage_set
    /\ process = [c \in Callers |-> None]

\* What the user can type a second time, and the subcommands there are.
Confirmations(command, passphrase) ==
    IF command = "wallet_new" THEN Passphrases ELSE {passphrase}

Subcommands(command) ==
    IF command \in {"address", "transaction"} THEN Invoked ELSE {None}

CliStep(c) ==
    \/ \E command \in Commands, name \in Names, passphrase \in Passphrases :
          \E confirmed \in Confirmations(command, passphrase), op \in Subcommands(command) :
                Execute(c, command, name, passphrase, confirmed, op)
    \/ Invoke(c)
    \/ Serve(c) /\ UNCHANGED process
    \/ Resume(c)
    \/ AskNode(c)
    \/ Kill(c)

CliNext == \E c \in Callers : CliStep(c)

CliSpec == CliInit /\ [][CliNext]_cliVars

----------------------------------------------------------------------------
CliTypeOK ==
    /\ TypeOK
    /\ \A c \in Callers :
        process[c] # None =>
            /\ process[c].command \in Commands
            /\ process[c].name \in Names
            /\ process[c].passphrase \in Passphrases \cup {None}
            /\ process[c].passphrase = None <=> process[c].exit = "StorageError"
            /\ process[c].todo # <<>>
            /\ process[c].view_key \in LocalKeys \cup {None}
            /\ process[c].exit \in {None, "Ok", "StorageError", "RpcError", "Crashed",
                                    "PermissionDenied", "WalletNotFound", "InvalidInput"}
            /\ call[c] # None => Running(c) /\ call[c].op = Head(process[c].todo)

\* A command ends with PermissionDenied only for a user who typed a
\* passphrase that is not the wallet's.  PermissionDenied is also what the
\* placeholder index and the placeholder transaction builder answer, so
\* this holds only when every arm of Command::execute builds its client
\* with the capabilities the calls of that command need: balance and
\* history reach the index as soon as the wallet has a transfer address.
DeniedOnlyForWrongPassphrase ==
    \A c \in Callers :
        (process[c] # None /\ process[c].exit = "PermissionDenied") =>
            /\ process[c].name \in DOMAIN wallets
            /\ wallets[process[c].name].passphrase # process[c].passphrase

\* resync never ends with WalletNotFound at its private_key call: the view
\* key it has just read from the wallet, under the passphrase the user
\* typed, has its private key in the key store under the same passphrase.
\* The ok_or_else of resync is reached only if a wallet can exist whose
\* view key was not stored, which new_wallet rules out by storing the key
\* pair before it creates the wallet, whoever runs beside it and wherever a
\* process is killed.
SyncFindsThePrivateKey ==
    \A c \in Callers :
        (process[c] # None /\ process[c].exit = "WalletNotFound") =>
            Head(process[c].todo) # "private_key"

=============================================================================
