--------------------------- MODULE TransactionFlow ---------------------------
(***************************************************************************)
(* The wallet client as its own tests drive it: a client assembled by the  *)
(* builder, the three wallets of check_transaction_flow with one transfer  *)
(* address each, and MockIndex behind balance, history,                    *)
(* unspent_transactions, output, create_transaction and                    *)
(* broadcast_transaction.                                                  *)
(*                                                                         *)
(* The builder is module WalletClientBuilder; what the client makes of     *)
(* the details of its addresses is module WalletView; the index is module  *)
(* MockIndex.  A call is one step: a wallet has one address, so an         *)
(* operation reads the lock of the index once.  The fee is zero, as        *)
(* ZeroFeeAlgorithm says, and MockTransactionCipher leaves the transaction *)
(* as it is.                                                               *)
(***************************************************************************)
EXTENDS MockIndex, FiniteSets, SequencesExt

CONSTANTS
    Callers,    \* the pieces of code that build a client and call it
    Amounts     \* the amounts callers ask to send

VARIABLES
    builder,    \* builder[c]: the flags of the builder c is configuring
    client,     \* client[c]: the capabilities of the client c last built
    built,      \* built[c]: the flags given to c's last build() and its result
    ret         \* ret[c]: c's last call and what it returned, with the client
                \* it was made on and the lock of the index as it was then

flowVars == <<builder, client, built, changed, ret>>

Builder == INSTANCE WalletClientBuilder

\* wallet_1, wallet_2 and wallet_3, each with the transfer address of its number.
Wallets == <<addr_1, addr_2, addr_3>>
Names == DOMAIN Wallets

\* ZeroFeeAlgorithm: calculate_fee and calculate_for_txaux answer Coin::zero().
ZeroFee == 0

View == INSTANCE WalletView
            WITH ClientKinds <- Builder!Clients, Passphrases <- {None},
                 WalletPassphrase <- None, TransferAddresses <- Wallets,
                 Recipients <- {}, Genesis <- <<>>, Fee <- ZeroFee, MaxTransactions <- 0,
                 ledger <- <<>>, synced <- 0, call <- ret

Operations == View!Operations

NoArguments == [name |-> None, output |-> None, return_address |-> None, input |-> None]

\* The readings of the clock one call makes: the second is not before the
\* first.
Clock ==
    {now \in [1..2 -> Times] :
        \/ now[1].secs < now[2].secs
        \/ now[1].secs = now[2].secs /\ now[1].nanos <= now[2].nanos}

\* The clock of a call whose answer shows no time.
Unread == CHOOSE now \in Clock : TRUE

----------------------------------------------------------------------------
(***************************************************************************)
(* What a call returns, of a client with `flags' when the index has        *)
(* `seen' in its lock.                                                     *)
(***************************************************************************)
\* The index asked although the client has none.
Details_NoIndexCheck(flags, seen, name, now) ==
    IF flags.storage_set
    THEN Ok(<<address_details(seen, Wallets[name], now)>>)
    ELSE Err("PermissionDenied")

\* transfer_addresses of the wallet and address_details of each address:
\* the beginning of balance, history and unspent_transactions.
Details(flags, seen, name, now) ==
    IF flags.storage_set /\ flags.index_set
    THEN Ok(<<address_details(seen, Wallets[name], now)>>)
    ELSE Err("PermissionDenied")

Answer(flags, seen, op, a, now) ==
    CASE op \in View!WalletOperations ->
            LET details == Details(flags, seen, a.name, now) IN
            IF details.kind = "Ok"
            THEN View!Finish([op |-> op, args |-> a, details |-> details.value], flags)
            ELSE details
      [] op = "output" ->
            IF flags.index_set THEN output(seen, a.input) ELSE Err("PermissionDenied")
      [] op = "broadcast_transaction" ->
            IF flags.index_set THEN Ok(None) ELSE Err("PermissionDenied")

\* c's call is over.
Return(c, op, a, result) ==
    ret' = [ret EXCEPT ![c] = [op |-> op, args |-> a, kind |-> result.kind,
                               value |-> result.value, client |-> client[c],
                               seen |-> changed]]

\* A call that only reads.
Invoke(c, op, a, now) ==
    /\ client[c] # None
    /\ Return(c, op, a, Answer(client[c], changed, op, a, now))
    /\ UNCHANGED <<builder, client, built, changed>>

----------------------------------------------------------------------------
Balance(c) ==
    \E name \in Names : Invoke(c, "balance", [NoArguments EXCEPT !.name = name], Unread)

History(c) ==
    \E name \in Names, now \in Clock :
        Invoke(c, "history", [NoArguments EXCEPT !.name = name], now)

UnspentTransactions(c) ==
    \E name \in Names :
        Invoke(c, "unspent_transactions", [NoArguments EXCEPT !.name = name], Unread)

Output(c) ==
    \E id \in TxIds, index \in 0..1 :
        Invoke(c, "output", [NoArguments EXCEPT !.input = TxoPointer(id, index)], Unread)

CreateTransaction(c) ==
    \E name \in Names, to \in Addresses, value \in Amounts :
        Invoke(c, "create_transaction",
               [NoArguments EXCEPT !.name = name, !.output = TxOut(to, value),
                                   !.return_address = addr_1], Unread)

\* The transaction c has just created goes to the index.
BroadcastTransaction(c) ==
    LET result == Answer(client[c], changed, "broadcast_transaction", NoArguments, Unread) IN
    /\ client[c] # None
    /\ ret[c] # None /\ ret[c].op = "create_transaction" /\ ret[c].kind = "Ok"
    /\ IF result.kind = "Ok" THEN broadcast_transaction ELSE UNCHANGED changed
    /\ Return(c, "broadcast_transaction", NoArguments, result)
    /\ UNCHANGED <<builder, client, built>>

FlowInit ==
    /\ Builder!Init
    /\ changed = FALSE
    /\ ret = [c \in Callers |-> None]

FlowNext ==
    \E c \in Callers :
        \/ Builder!Builder(c) /\ UNCHANGED <<changed, ret>>
        \/ Builder!WithWallet(c) /\ UNCHANGED <<changed, ret>>
        \/ Builder!WithTransactionRead(c) /\ UNCHANGED <<changed, ret>>
        \/ Builder!WithTransactionWrite(c) /\ UNCHANGED <<changed, ret>>
        \/ Builder!Build(c) /\ UNCHANGED <<changed, ret>>
        \/ Balance(c)
        \/ History(c)
        \/ UnspentTransactions(c)
        \/ Output(c)
        \/ CreateTransaction(c)
        \/ BroadcastTransaction(c)

FlowSpec == FlowInit /\ [][FlowNext]_flowVars

----------------------------------------------------------------------------
(***************************************************************************)
(* The tests of default_wallet_client.rs that use the index, as the calls  *)
(* they make and what they assert of the answers.                          *)
(***************************************************************************)
Storage == [Builder!DefaultFlags EXCEPT !.storage_set = TRUE]
Reader == [Storage EXCEPT !.index_set = TRUE]
Writer == [Reader EXCEPT !.transaction_builder_set = TRUE]

Of(name) == [NoArguments EXCEPT !.name = name]
Pay(name, to, value) ==
    [Of(name) EXCEPT !.output = TxOut(to, value), !.return_address = addr_1]

\* One call of a test: the client it is made on, and the assertion.
Asserted(flags, op, a, kind, shows) ==
    [client |-> flags, op |-> op, args |-> a, kind |-> kind, shows |-> shows]

\* The same call for wallet_1, wallet_2 and wallet_3.
OfEach(flags, op, shows) ==
    [name \in Names |-> Asserted(flags, op, Of(name), "Ok", shows[name])]

Broadcast == Asserted(Writer, "broadcast_transaction", NoArguments, "Ok", None)

\* The last assertion of check_transaction_flow: wallet_2 pays the same 30
\* again.
SpentTwice ==
    Asserted(Writer, "create_transaction", Pay(2, addr_3, 30), "InsufficientBalance", None)

check_transaction_flow ==
    <<Asserted(Storage, "balance", Of(1), "PermissionDenied", None)>>
    \o OfEach(Reader, "balance", <<0, 30, 0>>)
    \o OfEach(Reader, "history", <<2, 1, 0>>)
    \o <<Asserted(Writer, "create_transaction", Pay(2, addr_3, 30), "Ok", None), Broadcast>>
    \o OfEach(Writer, "balance", <<0, 0, 30>>)
    \o OfEach(Writer, "history", <<2, 2, 1>>)
    \o <<Asserted(Writer, "create_transaction", Pay(3, addr_2, 20), "Ok", None), Broadcast,
         SpentTwice>>

\* The calls of check_unauthorized_wallet that go to the index; the test
\* asks for a transaction without outputs, which is refused before the
\* outputs are looked at.
check_unauthorized_wallet ==
    LET Denied(op, a) == Asserted(Builder!DefaultFlags, op, a, "PermissionDenied", None) IN
    <<Denied("balance", Of(1)), Denied("history", Of(1)),
      Denied("unspent_transactions", Of(1)),
      Denied("output", [NoArguments EXCEPT !.input = TxoPointer(1, 0)]),
      Denied("create_transaction", Pay(1, addr_1, 30))>>

\* invalid_wallet_building: what build() owes to a builder that was given
\* a transaction builder and nothing else.
invalid_wallet_building ==
    [flags |-> [Builder!DefaultFlags EXCEPT !.transaction_builder_set = TRUE], ok |-> FALSE]

\* What an assertion looks at: the balance, the length of the history.
Shown(op, result) ==
    CASE result.kind = "Ok" /\ op = "balance" -> result.value
      [] result.kind = "Ok" /\ op = "history" -> Len(result.value)
      [] OTHER -> None

\* The lock of the index at the i-th call of a test.
SeenAt(test, i) == \E j \in 1..(i - 1) : test[j].op = "broadcast_transaction"

\* The calls of a test that are the call of record r: the same operation
\* with the same arguments, on such a client and in that state of the index.
Makes(test, r) ==
    {i \in DOMAIN test :
        /\ test[i].op = r.op /\ test[i].args = r.args
        /\ test[i].client = r.client /\ SeenAt(test, i) = r.seen}

----------------------------------------------------------------------------
Result ==
    {"Ok", "PermissionDenied", "BalanceAdditionError", "InsufficientBalance",
     "TransactionNotFound"}

Transaction ==
    [inputs : SUBSET [id : TxIds, index : {0}],
     outputs : Seq([address : Addresses, value : Coin])]

FlowTypeOK ==
    /\ Builder!TypeOK
    /\ changed \in BOOLEAN
    /\ \A c \in Callers :
        ret[c] # None =>
            /\ ret[c].op \in Operations /\ ret[c].kind \in Result /\ ret[c].seen \in BOOLEAN
            /\ ret[c].client \in Builder!Clients
            /\ ret[c].kind # "Ok" => ret[c].value = None
            /\ ret[c].kind = "Ok" =>
                CASE ret[c].op = "balance" -> ret[c].value \in Coin
                  [] ret[c].op = "history" -> ret[c].value \in Seq(Type)
                  [] ret[c].op = "unspent_transactions" ->
                        ret[c].value \subseteq
                            [pointer : [id : TxIds, index : {0}],
                             output : [address : Addresses, value : Coin]]
                  [] ret[c].op = "create_transaction" -> ret[c].value \in Transaction
                  [] ret[c].op = "output" -> ret[c].value \in [address : Addresses, value : Coin]
                  [] ret[c].op = "broadcast_transaction" -> ret[c].value = None

\* build() of default_wallet_client.rs answers Ok for exactly the nested
\* combinations of capabilities and InvalidInput for every other one, in
\* whichever order and however often the with_ methods were called, also
\* when the builder is used between the calls of a client built before.
BuildFollowsContract == Builder!BuildFollowsContract

\* A call that a test of default_wallet_client.rs makes is answered as the
\* test asserts, whenever it is made on a client of the same capabilities
\* and in the state of the index the test makes it in: the balances 0, 30,
\* 0 and the histories of 2, 1 and 0 lines before the broadcast, 0, 0, 30
\* and 2, 2, 1 after it, InsufficientBalance for the wallet that has spent
\* its output, PermissionDenied from a client without storage or index,
\* InvalidInput from build() for a transaction builder alone.  The four
\* additions of the tests of transaction_change.rs give what they assert.
AgreesWithTests ==
    /\ \A c \in Callers :
        /\ ret[c] # None =>
                \A test \in {check_transaction_flow, check_unauthorized_wallet} :
                    \A i \in Makes(test, ret[c]) :
                        /\ ret[c].kind = test[i].kind
                        /\ Shown(ret[c].op, ret[c]) = test[i].shows
        /\ built[c] # None /\ built[c].flags = invalid_wallet_building.flags =>
                built[c] = invalid_wallet_building
    /\ add_incoming /\ add_incoming_fail /\ add_outgoing /\ add_outgoing_fail

\* What MockIndex::address_details shows of an address hangs together, in
\* both states of the index and for every address: Coin::zero() plus the
\* lines of the history, added with Coin + TransactionChange, never fails
\* and is the balance, and the balance is the total of the unspent outputs.
BalanceIsHistoryTotal ==
    \A address \in Addresses :
        LET details == address_details(changed, address, Unread) IN
        /\ AddAll(0, details.transaction_history) = Ok(details.balance)
        /\ View!Total(details.unspent_transactions) = details.balance

\* create_transaction of a client that may write answers with a
\* transaction exactly when the balance the index shows for the wallet, in
\* the state it was asked in, covers the amount, and with
\* InsufficientBalance otherwise.  Every input of the transaction is an
\* output Index::output finds at the wallet's address, and what the inputs
\* hold is what the outputs pay: the fee is zero and the rest goes to the
\* return address.  It ties the unspent outputs, the balance and the
\* outputs of MockIndex to what the transaction builder selects.
CreatedTransactionIsFunded ==
    \A c \in Callers :
        LET r == ret[c]
            funds == address_details(r.seen, Wallets[r.args.name], Unread).balance
            Held(pointer) == output(r.seen, pointer)
        IN  (r # None /\ r.op = "create_transaction" /\ r.kind # "PermissionDenied") =>
                /\ r.kind = IF funds >= r.args.output.value THEN "Ok" ELSE "InsufficientBalance"
                /\ r.kind = "Ok" =>
                    /\ \A p \in r.value.inputs :
                            /\ Held(p).kind = "Ok"
                            /\ Held(p).value.address = Wallets[r.args.name]
                    /\ MapThenSumSet(LAMBDA p : Held(p).value.value, r.value.inputs)
                            = FoldLeft(LAMBDA sum, o : sum + o.value, 0, r.value.outputs)

\* The history of an address as the index keeps it, one encoded line after
\* the other.
Stored(history) == FoldLeft(LAMBDA dest, line : encode_to(line, dest), <<>>, history)

\* What is read back from storage: the lines decode gives, and None where
\* it fails.
RECURSIVE Loaded(_)
Loaded(input) ==
    IF input = <<>> THEN <<>>
    ELSE LET read == decode(input) IN
         IF read.result.kind = "Ok"
         THEN <<read.result.value>> \o Loaded(read.rest)
         ELSE <<None>>

\* Every history a call returns, with block times of every precision, is
\* read back from its encoding as it was written: decode reads the fields
\* in the order encode_to writes them and finds the end of each line, and
\* the text of the block time loses nothing of the time.  An encoding cut
\* short is refused.
HistorySurvivesStorage ==
    \A c \in Callers :
        (ret[c] # None /\ ret[c].op = "history" /\ ret[c].kind = "Ok") =>
            LET bytes == Stored(ret[c].value) IN
            /\ Loaded(bytes) = ret[c].value
            /\ \A n \in 1..Len(bytes) :
                    n % 5 # 0 => Last(Loaded(SubSeq(bytes, 1, n))) = None

=============================================================================
