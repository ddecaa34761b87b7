------------------------ MODULE WalletClientBuilder ------------------------
(***************************************************************************)
(* DefaultWalletClientBuilder of client-core: the three capability flags   *)
(* a wallet client is assembled from, and the check build() makes before   *)
(* it hands out a DefaultWalletClient.                                     *)
(*                                                                         *)
(* A builder is a value owned by the code that configures it, so every     *)
(* caller has its own; the module keeps one builder and one built client   *)
(* per caller.  The components themselves (a Storage, an Index, a          *)
(* TransactionBuilder) are abstracted to "the real one" (flag TRUE) or     *)
(* "the Unauthorized placeholder" (flag FALSE).                            *)
(***************************************************************************)
EXTENDS Naturals

CONSTANTS
    Callers,    \* the pieces of code that build a client (threads, commands)
    None        \* "no builder", "no client", "nothing built yet"

VARIABLES
    builder,    \* builder[c]: the flags of the builder c is configuring
    client,     \* client[c]: the capabilities of the client c last built
    built       \* built[c]: the flags given to c's last build() and its result

builderVars == <<builder, client, built>>

(***************************************************************************)
(* storage_set, index_set and transaction_builder_set.                     *)
(***************************************************************************)
Flags ==
    [storage_set : BOOLEAN, index_set : BOOLEAN, transaction_builder_set : BOOLEAN]

\* impl Default for DefaultWalletClientBuilder: three placeholders, no flag.
DefaultFlags ==
    [storage_set |-> FALSE, index_set |-> FALSE, transaction_builder_set |-> FALSE]

\* A dropped storage_set in the second disjunct of build()'s condition.
BuildAccepts_IndexAlone(f) ==
    \/ ~f.index_set /\ ~f.transaction_builder_set
    \/ f.index_set

\* A dropped first disjunct: build() asks for storage and index always.
BuildAccepts_NeedsIndex(f) == f.storage_set /\ f.index_set

\* The condition of build(): nothing beyond storage, or storage and index.
BuildAccepts(f) ==
    \/ ~f.index_set /\ ~f.transaction_builder_set
    \/ f.storage_set /\ f.index_set

\* The builder contract, stated without build()'s boolean expression: the
\* capabilities are nested.  Writing needs the index, the index needs the
\* wallet storage.
Nested(f) ==
    /\ f.transaction_builder_set => f.index_set
    /\ f.index_set => f.storage_set

\* The clients that exist: none writes without an index or reads the index
\* without a wallet storage.
Clients == {f \in Flags : Nested(f)}

TypeOK ==
    /\ builder \in [Callers -> Flags \cup {None}]
    /\ client \in [Callers -> Clients \cup {None}]
    /\ built \in [Callers -> [flags : Flags, ok : BOOLEAN] \cup {None}]

Init ==
    /\ builder = [c \in Callers |-> None]
    /\ client = [c \in Callers |-> None]
    /\ built = [c \in Callers |-> None]

\* DefaultWalletClient::builder()
Builder(c) ==
    /\ builder' = [builder EXCEPT ![c] = DefaultFlags]
    /\ UNCHANGED <<client, built>>

\* with_wallet(storage)
WithWallet(c) ==
    /\ builder[c] # None
    /\ builder' = [builder EXCEPT ![c].storage_set = TRUE]
    /\ UNCHANGED <<client, built>>

\* with_transaction_read(index)
WithTransactionRead(c) ==
    /\ builder[c] # None
    /\ builder' = [builder EXCEPT ![c].index_set = TRUE]
    /\ UNCHANGED <<client, built>>

\* with_transaction_write(transaction_builder)
WithTransactionWrite(c) ==
    /\ builder[c] # None
    /\ builder' = [builder EXCEPT ![c].transaction_builder_set = TRUE]
    /\ UNCHANGED <<client, built>>

\* build(self): consumes the builder; Ok(client) or Err(InvalidInput).
Build(c) ==
    /\ builder[c] # None
    /\ builder' = [builder EXCEPT ![c] = None]
    /\ built' = [built EXCEPT ![c] = [flags |-> builder[c], ok |-> BuildAccepts(builder[c])]]
    /\ client' = [client EXCEPT ![c] = IF BuildAccepts(builder[c]) THEN builder[c] ELSE @]

Next ==
    \E c \in Callers :
        \/ Builder(c)
        \/ WithWallet(c)
        \/ WithTransactionRead(c)
        \/ WithTransactionWrite(c)
        \/ Build(c)

Spec == Init /\ [][Next]_builderVars

----------------------------------------------------------------------------
\* build() of default_wallet_client.rs answers Ok for exactly the nested
\* combinations (none, storage, storage+index, storage+index+write) and
\* InvalidInput for every other one, in whichever order and however often
\* the with_ methods were called before it.
BuildFollowsContract ==
    \A c \in Callers : built[c] # None => (built[c].ok <=> Nested(built[c].flags))

=============================================================================
