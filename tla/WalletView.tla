------------------------------ MODULE WalletView ------------------------------
(***************************************************************************)
(* The operations of DefaultWalletClient that look at the chain through    *)
(* the Index: balance, history, unspent_transactions, output,              *)
(* create_transaction and broadcast_transaction.                           *)
(*                                                                         *)
(* balance, history and unspent_transactions ask the wallet for its        *)
(* transfer addresses and then ask the index for the details of one        *)
(* address after the other.  Every one of these calls is a step of its     *)
(* own here, and the index is brought up to date with the chain, one       *)
(* transaction at a time, between any two of them.  The wallet is one      *)
(* wallet with a fixed list of addresses (module WalletClient has the      *)
(* operations that change it).  What the Index, the TransactionBuilder and *)
(* the chain do is taken from the specification of the repository; which   *)
(* calls an operation makes and what it does with the answers is taken     *)
(* from default_wallet_client.rs.                                          *)
(***************************************************************************)
EXTENDS Naturals, Sequences, FiniteSets, SequencesExt

CONSTANTS
    Callers,            \* threads that share a wallet client
    ClientKinds,        \* the capability flags of the clients callers may hold
    Passphrases,        \* the passphrases callers try
    WalletPassphrase,   \* the passphrase of the wallet
    TransferAddresses,  \* the wallet's transfer addresses, as the wallet service lists them
    Recipients,         \* addresses of other wallets
    Genesis,            \* the outputs the chain starts with
    MaxCoin,            \* MAX_COIN, the largest amount a Coin holds
    Fee,                \* what the fee algorithm asks for a transaction
    Amounts,            \* the amounts callers ask to send
    MaxTransactions,    \* bound: transactions created in a run
    None                \* no value

OwnAddresses == ToSet(TransferAddresses)
Addresses == OwnAddresses \cup Recipients
TxOut == [address : Addresses, value : 1..MaxCoin]

ASSUME
    /\ WalletPassphrase \in Passphrases
    /\ Len(TransferAddresses) = Cardinality(OwnAddresses)
    /\ Genesis \in Seq(TxOut)
    /\ FoldLeft(LAMBDA sum, o : sum + o.value, 0, Genesis) <= MaxCoin
    /\ Fee \in Nat /\ MaxTransactions \in Nat /\ Amounts \subseteq 1..MaxCoin

VARIABLES
    ledger,     \* the transactions the chain has accepted, in order
    synced,     \* how many of them the index has applied
    client,     \* client[c]: the capabilities of the client c holds
    call,       \* call[c]: the operation c is in, or None
    ret         \* ret[c]: what c's last operation returned, until c's next call

vars == <<ledger, synced, client, call, ret>>

----------------------------------------------------------------------------
(***************************************************************************)
(* The chain and the Index.  A transaction is identified by its content,   *)
(* which stands for its hash; a TxoPointer is a transaction id and a       *)
(* position among its outputs.                                             *)
(***************************************************************************)
GenesisTx == [inputs |-> {}, outputs |-> Genesis]

\* The transactions among the first n of the ledger, and the genesis.
Applied(n) == {GenesisTx} \cup {ledger[i] : i \in 1..n}

\* The (TxoPointer, TxOut) pairs a transaction creates.
OutputsOf(tx) ==
    {[pointer |-> [id |-> tx, index |-> i], output |-> tx.outputs[i]] : i \in DOMAIN tx.outputs}

Spent(pointer) == pointer.id.outputs[pointer.index]

Total(unspent) == MapThenSumSet(LAMBDA u : u.output.value, unspent)

\* What is unspent once the first n transactions are applied.
Unspent(n) ==
    {u \in UNION {OutputsOf(tx) : tx \in Applied(n)} :
        \A tx \in Applied(n) : u.pointer \notin tx.inputs}

Touches(tx, address) ==
    \/ \E i \in DOMAIN tx.outputs : tx.outputs[i].address = address
    \/ \E p \in tx.inputs : Spent(p).address = address

\* Index::address_details(address), of an index that has applied n transactions.
AddressDetails(address, n) ==
    LET unspent == {u \in Unspent(n) : u.output.address = address} IN
    [balance |-> Total(unspent),
     unspent_transactions |-> unspent,
     transaction_history |->
        SelectSeq(<<GenesisTx>> \o SubSeq(ledger, 1, n), LAMBDA tx : Touches(tx, address))]

\* The chain accepts a transaction whose inputs it holds unspent.
Valid(tx) == tx.inputs \subseteq {u.pointer : u \in Unspent(Len(ledger))}

\* The wallet as one state of the index shows it.
WalletUnspent(n) == {u \in Unspent(n) : u.output.address \in OwnAddresses}
WalletHistory(n) ==
    FlattenSeq([i \in DOMAIN TransferAddresses |->
                    AddressDetails(TransferAddresses[i], n).transaction_history])

----------------------------------------------------------------------------
(***************************************************************************)
(* What the operations make of the details they have read.                 *)
(***************************************************************************)
Ok(value) == [kind |-> "Ok", value |-> value]
Err(kind) == [kind |-> kind, value |-> None]

Sum(details) == FoldLeft(LAMBDA sum, d : sum + d.balance, 0, details)

\* sum_coins without its bound.
balance_Unchecked(details) == Ok(Sum(details))

\* sum_coins refusing a sum of exactly MAX_COIN.
balance_StrictBound(details) ==
    IF Sum(details) >= MaxCoin THEN Err("BalanceAdditionError") ELSE Ok(Sum(details))

\* balance: the sum of the balances, or BalanceAdditionError beyond MAX_COIN.
balance(details) ==
    IF Sum(details) > MaxCoin THEN Err("BalanceAdditionError") ELSE Ok(Sum(details))

\* history: the histories of the addresses, one after the other.
history(details) ==
    Ok(FlattenSeq([i \in DOMAIN details |-> details[i].transaction_history]))

\* The loop of unspent_transactions ended one address early.
unspent_transactions_LastSkipped(details) ==
    Ok(UNION {details[i].unspent_transactions : i \in 1..(Len(details) - 1)})

\* unspent_transactions: the unspent outputs of every address.
unspent_transactions(details) ==
    Ok(UNION {details[i].unspent_transactions : i \in DOMAIN details})

\* InputSelectionStrategy::default() applied by apply_all: highest value first.
apply_all(unspent) ==
    SetToSortSeq(unspent, LAMBDA u, v : u.output.value > v.output.value)

\* TransactionBuilder::build: inputs in the order given until the output and
\* the fee are paid, the rest back to return_address.
build(unspent, output, return_address) ==
    LET Paid(k) == FoldLeft(LAMBDA sum, u : sum + u.output.value, 0, SubSeq(unspent, 1, k))
        enough == {k \in 0..Len(unspent) : Paid(k) >= output.value + Fee}
    IN  IF enough = {} THEN Err("InsufficientBalance")
        ELSE LET k == Min(enough)
                 change == Paid(k) - (output.value + Fee)
             IN  Ok([inputs |-> {unspent[i].pointer : i \in 1..k},
                     outputs |-> <<output>> \o
                        IF change > 0
                        THEN <<[address |-> return_address, value |-> change]>>
                        ELSE <<>>])

\* The strategy forgotten: the builder gets the lowest values first.
create_transaction_Unsorted(details, flags, a) ==
    IF ~flags.transaction_builder_set THEN Err("PermissionDenied")
    ELSE build(SetToSortSeq(unspent_transactions(details).value,
                            LAMBDA u, v : u.output.value < v.output.value),
               a.output, a.return_address)

\* create_transaction, once unspent_transactions has answered.
create_transaction(details, flags, a) ==
    IF ~flags.transaction_builder_set THEN Err("PermissionDenied")
    ELSE build(apply_all(unspent_transactions(details).value), a.output, a.return_address)

\* What the operation of record k returns when every address is read.
Finish(k, flags) ==
    CASE k.op = "balance" -> balance(k.details)
      [] k.op = "history" -> history(k.details)
      [] k.op = "unspent_transactions" -> unspent_transactions(k.details)
      [] k.op = "create_transaction" -> create_transaction(k.details, flags, k.args)

----------------------------------------------------------------------------
WalletOperations == {"balance", "history", "unspent_transactions", "create_transaction"}
Operations == WalletOperations \cup {"output", "broadcast_transaction"}

\* c holds a transaction it has created and not yet handed to the index.
Holding(c) ==
    \/ call[c] # None /\ call[c].op \in {"create_transaction", "broadcast_transaction"}
    \/ ret[c] # None /\ ret[c].op = "create_transaction" /\ ret[c].kind = "Ok"

Created == Len(ledger) + Cardinality({c \in Callers : Holding(c)})

\* The arguments c may give to op.
Arguments(c, op) ==
    CASE op \in {"balance", "history", "unspent_transactions"} ->
            [passphrase : Passphrases]
      [] op = "create_transaction" ->
            IF Created < MaxTransactions
            THEN [passphrase : Passphrases,
                  output : [address : Recipients, value : Amounts],
                  return_address : OwnAddresses]
            ELSE {}
      [] op = "output" ->
            {[input |-> u.pointer] :
                u \in UNION {OutputsOf(tx) : tx \in Applied(Len(ledger))}}
      [] op = "broadcast_transaction" ->
            IF ret[c] # None /\ ret[c].op = "create_transaction" /\ ret[c].kind = "Ok"
            THEN {[tx |-> ret[c].value]}
            ELSE {}

IsTransaction(tx, n) ==
    /\ \A p \in tx.inputs : p.id \in Applied(n) /\ p.index \in DOMAIN p.id.outputs
    /\ tx.outputs \in Seq(TxOut) /\ Len(tx.outputs) \in 1..2

TypeOK ==
    /\ Len(ledger) <= MaxTransactions
    /\ \A i \in DOMAIN ledger : IsTransaction(ledger[i], i - 1)
    /\ synced \in 0..Len(ledger)
    /\ client \in [Callers -> ClientKinds]
    /\ \A c \in Callers :
        /\ call[c] # None =>
            /\ call[c].op \in Operations
            /\ call[c].from \in 0..synced
            /\ call[c].pending # None =>
                    /\ call[c].op \in WalletOperations
                    /\ call[c].pending # <<>>
                    /\ call[c].pending = SubSeq(TransferAddresses, Len(call[c].details) + 1,
                                                Len(TransferAddresses))
                    /\ \A i \in DOMAIN call[c].details :
                            \E n \in call[c].from..synced :
                                call[c].details[i] = AddressDetails(TransferAddresses[i], n)
        /\ ret[c] # None =>
            /\ ret[c].op \in Operations
            /\ ret[c].from \in 0..ret[c].to /\ ret[c].to \in 0..synced
            /\ ret[c].kind \in {"Ok", "PermissionDenied", "BalanceAdditionError",
                                "InsufficientBalance", "TransactionNotFound", "InvalidInput"}
            /\ ret[c].kind # "Ok" => ret[c].value = None
            /\ ret[c].kind = "Ok" =>
                CASE ret[c].op = "balance" -> ret[c].value \in 0..MaxCoin
                  [] ret[c].op = "history" ->
                        \A i \in DOMAIN ret[c].value : ret[c].value[i] \in Applied(ret[c].to)
                  [] ret[c].op = "unspent_transactions" ->
                        \A u \in ret[c].value :
                            u \in OutputsOf(u.pointer.id) /\ u.pointer.id \in Applied(ret[c].to)
                  [] ret[c].op = "create_transaction" ->
                        IsTransaction(ret[c].value, ret[c].to)
                  [] ret[c].op = "output" -> ret[c].value \in TxOut
                  [] ret[c].op = "broadcast_transaction" -> ret[c].value = None

Init ==
    /\ ledger = <<>>
    /\ synced = 0
    /\ client \in [Callers -> ClientKinds]
    /\ call = [c \in Callers |-> None]
    /\ ret = [c \in Callers |-> None]

----------------------------------------------------------------------------
\* c calls an operation; `from' remembers the state of the index at the call.
Call(c, op, a) ==
    /\ call[c] = None
    /\ call' = [call EXCEPT ![c] =
                    [op |-> op, args |-> a, pending |-> None, details |-> <<>>, from |-> synced]]
    /\ ret' = [ret EXCEPT ![c] = None]
    /\ UNCHANGED <<ledger, synced, client>>

\* The operation of record k returns.
Return(c, k, result) ==
    /\ call' = [call EXCEPT ![c] = None]
    /\ ret' = [ret EXCEPT ![c] =
                    [op |-> k.op, args |-> k.args, kind |-> result.kind,
                     value |-> result.value, from |-> k.from, to |-> synced]]

\* The iteration over the addresses goes on, or is over and the operation returns.
Collect(c, k) ==
    IF k.pending = <<>>
    THEN Return(c, k, Finish(k, client[c]))
    ELSE call' = [call EXCEPT ![c] = k] /\ UNCHANGED ret

\* self.transfer_addresses(name, passphrase)?, the first call of four operations.
\* The placeholder storage and a wrong passphrase are both PermissionDenied.
ReadTransferAddresses(c) ==
    /\ call[c] # None /\ call[c].op \in WalletOperations /\ call[c].pending = None
    /\ IF client[c].storage_set /\ call[c].args.passphrase = WalletPassphrase
       THEN Collect(c, [call[c] EXCEPT !.pending = TransferAddresses])
       ELSE Return(c, call[c], Err("PermissionDenied"))
    /\ UNCHANGED <<ledger, synced, client>>

\* self.index.address_details(address)?, for the next address of the wallet.
\* The placeholder index answers PermissionDenied, and the `?' returns it.
ReadAddressDetails(c) ==
    /\ call[c] # None /\ call[c].pending # None
    /\ IF client[c].index_set
       THEN Collect(c, [call[c] EXCEPT
                !.pending = Tail(@),
                !.details = Append(@, AddressDetails(Head(call[c].pending), synced))])
       ELSE Return(c, call[c], Err("PermissionDenied"))
    /\ UNCHANGED <<ledger, synced, client>>

\* output(input): the output a pointer names, if the index has its transaction.
Output(c) ==
    /\ call[c] # None /\ call[c].op = "output"
    /\ Return(c, call[c],
            IF ~client[c].index_set THEN Err("PermissionDenied")
            ELSE IF call[c].args.input.id \notin Applied(synced) THEN Err("TransactionNotFound")
            ELSE Ok(Spent(call[c].args.input)))
    /\ UNCHANGED <<ledger, synced, client>>

\* broadcast_transaction(tx_aux): the index hands the transaction to the chain.
BroadcastTransaction(c) ==
    /\ call[c] # None /\ call[c].op = "broadcast_transaction"
    /\ LET tx == call[c].args.tx
           accepted == client[c].index_set /\ Valid(tx)
       IN  /\ ledger' = IF accepted THEN Append(ledger, tx) ELSE ledger
           /\ Return(c, call[c],
                    IF ~client[c].index_set THEN Err("PermissionDenied")
                    ELSE IF ~Valid(tx) THEN Err("InvalidInput")
                    ELSE Ok(None))
    /\ UNCHANGED <<synced, client>>

\* The index applies the next transaction of the chain.
Sync ==
    /\ synced < Len(ledger)
    /\ synced' = synced + 1
    /\ UNCHANGED <<ledger, client, call, ret>>

Next ==
    \/ \E c \in Callers :
        \/ \E op \in Operations : \E a \in Arguments(c, op) : Call(c, op, a)
        \/ ReadTransferAddresses(c)
        \/ ReadAddressDetails(c)
        \/ Output(c)
        \/ BroadcastTransaction(c)
    \/ Sync

Spec == Init /\ [][Next]_vars

----------------------------------------------------------------------------
Quiet(r) == r.from = r.to

\* balance and unspent_transactions of default_wallet_client.rs read the
\* index once per address; when the index applies no transaction between
\* the call and the return, what balance, history and unspent_transactions
\* answer is the wallet as that state of the index shows it, and balance
\* does not answer BalanceAdditionError for coins the chain really holds.
QuietViewIsExact ==
    \A c \in Callers :
        LET r == ret[c] IN
        r # None /\ Quiet(r) /\ r.kind \in {"Ok", "BalanceAdditionError"} =>
            /\ r.op = "balance" => r = [r EXCEPT !.kind = "Ok", !.value = Total(WalletUnspent(r.to))]
            /\ r.op = "history" => r.value = WalletHistory(r.to)
            /\ r.op = "unspent_transactions" => r.value = WalletUnspent(r.to)

\* create_transaction applies the default input selection strategy before it
\* calls the builder: on an index at rest, the transaction it returns pays
\* the requested output first, spends outputs of the wallet that are worth
\* no less than any output it leaves unspent, and its outputs and the fee
\* add up to what it spends; InsufficientBalance is answered only when the
\* wallet holds less than the output and the fee.
CreatedTransactionFollowsStrategy ==
    \A c \in Callers :
        LET r == ret[c]
            own == WalletUnspent(r.to)
            spent == {u \in own : u.pointer \in r.value.inputs}
        IN  r # None /\ r.op = "create_transaction" /\ Quiet(r) =>
                /\ r.kind = "InsufficientBalance" => Total(own) < r.args.output.value + Fee
                /\ r.kind = "Ok" =>
                    /\ r.value.outputs[1] = r.args.output
                    /\ r.value.inputs = {u.pointer : u \in spent}
                    /\ \A u \in spent, v \in own \ spent : u.output.value >= v.output.value
                    /\ Total(spent) =
                         Total(OutputsOf(r.value)) + Fee

\* The outputs of the wallet the index showed unspent in some state, and in
\* every state, between the call and the return of r.
SeenUnspent(r) == UNION {WalletUnspent(n) : n \in r.from..r.to}
KeptUnspent(r) == {u \in WalletUnspent(r.from) : \A n \in r.from..r.to : u \in WalletUnspent(n)}

\* What the loops over address_details in unspent_transactions, balance and
\* create_transaction do keep while the index applies transactions between
\* two addresses: every output of the wallet that stayed unspent from the
\* call to the return is listed, counted and available to the builder, and
\* nothing is listed, counted or spent that the index did not show unspent
\* at some moment of the call.  InsufficientBalance is answered only when
\* the outputs that stayed do not pay the output and the fee.
ViewIsWithinTheCall ==
    \A c \in Callers :
        LET r == ret[c] IN
        r # None =>
            /\ r.op = "unspent_transactions" /\ r.kind = "Ok" =>
                    KeptUnspent(r) \subseteq r.value /\ r.value \subseteq SeenUnspent(r)
            /\ r.op = "balance" /\ r.kind = "Ok" =>
                    r.value \in Total(KeptUnspent(r))..Total(SeenUnspent(r))
            /\ r.op = "create_transaction" /\ r.kind = "Ok" =>
                    r.value.inputs \subseteq {u.pointer : u \in SeenUnspent(r)}
            /\ r.op = "create_transaction" /\ r.kind = "InsufficientBalance" =>
                    Total(KeptUnspent(r)) < r.args.output.value + Fee

\* The composite client is said to be safe to share across threads, and
\* balance and unspent_transactions to aggregate the addresses of the
\* wallet: what they answer is the wallet in one state the index was in
\* between the call and the return.  The loops over address_details in
\* balance and unspent_transactions do not keep this when the index applies
\* a transaction between two addresses.
ViewIsOfOneIndexState ==
    \A c \in Callers :
        LET r == ret[c] IN
        r # None /\ r.kind \in {"Ok", "BalanceAdditionError"} =>
            /\ r.op = "balance" =>
                    \E n \in r.from..r.to : r.kind = "Ok" /\ r.value = Total(WalletUnspent(n))
            /\ r.op = "unspent_transactions" =>
                    \E n \in r.from..r.to : r.value = WalletUnspent(n)

=============================================================================
