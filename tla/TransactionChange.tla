-------------------------- MODULE TransactionChange --------------------------
(***************************************************************************)
(* TransactionChange of client-common: one line of the history of an       *)
(* address, how it is written to and read from the index's storage, and    *)
(* what it does to a balance.                                              *)
(*                                                                         *)
(* An encoding is a sequence of fields, each the encoding of one value of  *)
(* one type; the bytes inside a field are not modelled, so reading a type  *)
(* succeeds exactly where a value of that type was written.  The block     *)
(* time is the exception: it is written as RFC 3339 text and parsed when   *)
(* read, and the text keeps as many digits of the second as the time has.  *)
(***************************************************************************)
EXTENDS Naturals, Sequences

CONSTANTS
    TxIds,          \* transaction ids
    Addresses,      \* ExtendedAddr values
    MaxCoin,        \* MAX_COIN
    Heights,        \* block heights
    Times,          \* block times: seconds and nanoseconds of the second
    None            \* no value

Coin == 0..MaxCoin
Nanos == 1000000000
DateTime == [secs : Nat, nanos : 0..(Nanos - 1)]

ASSUME MaxCoin \in Nat /\ Heights \subseteq Nat /\ Times \subseteq DateTime

Incoming(amount) == [kind |-> "Incoming", amount |-> amount]
Outgoing(amount) == [kind |-> "Outgoing", amount |-> amount]
BalanceChange == {Incoming(a) : a \in Coin} \cup {Outgoing(a) : a \in Coin}

\* struct TransactionChange
Type ==
    [transaction_id : TxIds, address : Addresses, balance_change : BalanceChange,
     block_height : Heights, block_time : Times]

Ok(value) == [kind |-> "Ok", value |-> value]
Err(kind) == [kind |-> kind, value |-> None]

----------------------------------------------------------------------------
(***************************************************************************)
(* The block time as text.                                                 *)
(***************************************************************************)
Pow10(n) == IF n = 0 THEN 1 ELSE IF n = 3 THEN 1000 ELSE IF n = 6 THEN 1000000 ELSE Nanos

\* The text always written with milliseconds.
to_rfc3339_Millis(time) ==
    [seconds |-> time.secs, digits |-> 3, fraction |-> time.nanos \div Pow10(6)]

\* DateTime::to_rfc3339: no fraction for a whole second, else three, six or
\* nine digits, the fewest that lose nothing.
to_rfc3339(time) ==
    LET exact == {d \in {0, 3, 6, 9} : time.nanos % Pow10(9 - d) = 0}
        d == CHOOSE d \in exact : \A e \in exact : d <= e
    IN  [seconds |-> time.secs, digits |-> d, fraction |-> time.nanos \div Pow10(9 - d)]

\* DateTime::from_str: the time a text stands for, None for any other string.
from_str(text) ==
    IF text \in [seconds : Nat, digits : {0, 3, 6, 9}, fraction : Nat]
       /\ text.fraction < Pow10(text.digits)
    THEN [secs |-> text.seconds, nanos |-> text.fraction * Pow10(9 - text.digits)]
    ELSE None

----------------------------------------------------------------------------
(***************************************************************************)
(* Encode and Decode.                                                      *)
(***************************************************************************)
Field(type, value) == <<type, value>>

\* encode_to: the five fields in the order of the struct, appended to dest.
encode_to(change, dest) ==
    dest \o <<Field("TxId", change.transaction_id),
              Field("ExtendedAddr", change.address),
              Field("BalanceChange", change.balance_change),
              Field("u64", change.block_height),
              Field("String", to_rfc3339(change.block_time))>>

\* The values of the first fields of input, if they are of these types.
Read(input, types) ==
    IF Len(input) >= Len(types) /\ \A i \in DOMAIN types : input[i][1] = types[i]
    THEN [i \in DOMAIN types |-> input[i][2]]
    ELSE None

\* What decode makes of the fields it has read, in the order it reads them.
Decoded(read, input) ==
    IF read = None THEN [result |-> Err("Error"), rest |-> input]
    ELSE IF from_str(read[5]) = None
         THEN [result |-> Err("Unable to parse block time"), rest |-> input]
    ELSE [result |-> Ok([transaction_id |-> read[1], address |-> read[2],
                         balance_change |-> read[3], block_height |-> read[4],
                         block_time |-> from_str(read[5])]),
          rest |-> SubSeq(input, 6, Len(input))]

\* The height read before the balance change.
decode_HeightFirst(input) ==
    Decoded(Read(input, <<"TxId", "ExtendedAddr", "u64", "BalanceChange", "String">>), input)

\* decode: every field with `?', then the block time parsed from its text.
decode(input) ==
    Decoded(Read(input, <<"TxId", "ExtendedAddr", "BalanceChange", "u64", "String">>), input)

----------------------------------------------------------------------------
(***************************************************************************)
(* Coin + TransactionChange.                                               *)
(***************************************************************************)
\* Coin + &BalanceChange: checked addition of what comes in, checked
\* subtraction of what goes out.
AddBalanceChange(coin, balance_change) ==
    IF balance_change.kind = "Incoming"
    THEN IF coin + balance_change.amount <= MaxCoin
         THEN Ok(coin + balance_change.amount) ELSE Err("BalanceAdditionError")
    ELSE IF balance_change.amount <= coin
         THEN Ok(coin - balance_change.amount) ELSE Err("InsufficientBalance")

\* Every change counted as incoming.
Add_Incoming(coin, other) ==
    AddBalanceChange(coin, Incoming(other.balance_change.amount))

\* impl Add<&TransactionChange> for Coin, and the impl for the owned value
\* that calls it.
Add(coin, other) == AddBalanceChange(coin, other.balance_change)

\* Coin::zero() + every change of a history in turn, stopped by the first
\* error.
RECURSIVE AddAll(_, _)
AddAll(coin, changes) ==
    IF changes = <<>> THEN Ok(coin)
    ELSE LET next == Add(coin, Head(changes)) IN
         IF next.kind = "Ok" THEN AddAll(next.value, Tail(changes)) ELSE next

\* get_transaction_change of the tests.
get_transaction_change(balance_change) ==
    [transaction_id |-> CHOOSE id \in TxIds : TRUE,
     address |-> CHOOSE a \in Addresses : TRUE,
     balance_change |-> balance_change,
     block_height |-> 0,
     block_time |-> CHOOSE t \in Times : TRUE]

\* The four tests of the module.
add_incoming == Add(0, get_transaction_change(Incoming(30))) = Ok(30)
add_incoming_fail == Add(MaxCoin, get_transaction_change(Incoming(30))).kind # "Ok"
add_outgoing == Add(40, get_transaction_change(Outgoing(30))) = Ok(10)
add_outgoing_fail == Add(0, get_transaction_change(Outgoing(30))).kind # "Ok"

=============================================================================
