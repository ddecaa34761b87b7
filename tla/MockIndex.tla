----------------------------- MODULE MockIndex -----------------------------
(***************************************************************************)
(* MockIndex of the tests of default_wallet_client.rs: the Index the       *)
(* wallet client is tested against.  It knows three addresses and one      *)
(* bit: whether a transaction was broadcast.  Before the broadcast addr_2  *)
(* holds one output of 30; after it the output is spent and addr_3 holds   *)
(* one of 30.  addr_1 has received and spent 30 before the test begins.    *)
(*                                                                         *)
(* Transaction ids are the byte the test fills the 32 bytes of the id      *)
(* with.  The block times are SystemTime::now() of the moment of the call, *)
(* read once for every line of history: `now' is the sequence of these     *)
(* readings.                                                               *)
(***************************************************************************)
EXTENDS TransactionChange

CONSTANTS addr_1, addr_2, addr_3

ASSUME
    /\ {addr_1, addr_2, addr_3} \subseteq Addresses
    /\ {0, 1, 2} \subseteq TxIds /\ {1, 2} \subseteq Heights
    /\ 30 \in Coin

VARIABLE changed    \* the RwLock<bool>: broadcast_transaction was called

TxoPointer(id, index) == [id |-> id, index |-> index]
TxOut(address, value) == [address |-> address, value |-> value]
Unspent(pointer, output) == [pointer |-> pointer, output |-> output]

Line(id, address, balance_change, height, time) ==
    [transaction_id |-> id, address |-> address, balance_change |-> balance_change,
     block_height |-> height, block_time |-> time]

\* AddressDetails::default()
NoDetails == [balance |-> 0, unspent_transactions |-> {}, transaction_history |-> <<>>]

\* One output of 30 at `pointer', received in a transaction of id 1.
Holding(address, pointer, now) ==
    [balance |-> 30,
     unspent_transactions |-> {Unspent(pointer, TxOut(address, 30))},
     transaction_history |-> <<Line(1, address, Incoming(30), 2, now[1])>>]

\* The output of 30 left in place when the address is emptied.
Emptied_StillUnspent(address, id, now) ==
    [Holding(address, TxoPointer(id, 0), now) EXCEPT
        !.balance = 0,
        !.transaction_history =
            <<Line(id, address, Incoming(30), 1, now[1]),
              Line(id + 1, address, Outgoing(30), 2, now[2])>>]

\* 30 received in transaction `id' and spent in the next.
Emptied(address, id, now) ==
    [NoDetails EXCEPT !.transaction_history =
        <<Line(id, address, Incoming(30), 1, now[1]),
          Line(id + 1, address, Outgoing(30), 2, now[2])>>]

\* Index::address_details; `seen' is what changed.read() gives.
address_details(seen, address, now) ==
    CASE address = addr_1 -> Emptied(address, 0, now)
      [] address = addr_2 ->
            IF seen THEN Emptied(address, 1, now)
            ELSE Holding(address, TxoPointer(1, 0), now)
      [] seen /\ address = addr_3 -> Holding(address, TxoPointer(2, 0), now)
      [] OTHER -> NoDetails

\* Index::output
output(seen, input) ==
    IF input.index = 0 /\ (input.id \in {0, 1} \/ (seen /\ input.id = 2))
    THEN Ok(TxOut(CASE input.id = 0 -> addr_1 [] input.id = 1 -> addr_2
                    [] OTHER -> addr_3, 30))
    ELSE Err("TransactionNotFound")

\* Index::broadcast_transaction: whatever the transaction is, it is taken.
broadcast_transaction ==
    changed' = TRUE

=============================================================================
