----------------------------- MODULE WalletClient -----------------------------
(***************************************************************************)
(* DefaultWalletClient of client-core over the passphrase-protected        *)
(* storage it shares with every other client of the same machine.          *)
(*                                                                         *)
(* A client operation is a short sequence of service calls, each of which  *)
(* is one atomic access to the storage; the `?' after a call ends the      *)
(* operation with that call's error.  The module writes every operation as *)
(* its sequence of calls (its "program"), runs programs of several callers *)
(* one call at a time, and lets the process of a caller die between two    *)
(* calls.  What the services do with the storage (KeyService,              *)
(* WalletService, RootHashService) is taken from the specification of the  *)
(* repository; which calls an operation makes, in which order and with     *)
(* which arguments, is taken from default_wallet_client.rs.                *)
(***************************************************************************)
EXTENDS Naturals, Sequences, FiniteSets, TLC

CONSTANTS
    Callers,        \* threads and processes that hold a wallet client
    ClientKinds,    \* the capability flags of the clients callers may hold
    Names,          \* wallet names
    Passphrases,    \* passphrases
    MaxKeys,        \* bound: key pairs the key service generates in a run
    ExternalKeys,   \* public keys of co-signers, never generated locally
    MultiSigRequests, \* the (public_keys, self_public_key, m, n) callers ask addresses for
    Messages,       \* the message hashes callers ask signatures for
    Invoked,        \* the operations callers invoke
    None            \* no value: an absent wallet, an idle caller, Option::None

LocalKeys == 1..MaxKeys
AllKeys == LocalKeys \cup ExternalKeys

ASSUME
    /\ MaxKeys \in Nat
    /\ ExternalKeys \cap LocalKeys = {}
    /\ MultiSigRequests \subseteq
            [public_keys : SUBSET AllKeys, self_public_key : AllKeys, m : Nat, n : Nat]
    /\ \A f \in ClientKinds : f.storage_set \in BOOLEAN
    /\ Invoked \subseteq {"wallets", "view_key", "public_keys", "root_hashes",
                          "staking_addresses", "transfer_addresses", "find_public_key",
                          "find_root_hash", "private_key", "new_wallet", "new_public_key",
                          "new_staking_address", "new_transfer_address",
                          "new_multisig_transfer_address", "generate_proof",
                          "required_cosigners", "schnorr_signature", "balance",
                          "history"}

VARIABLES
    keys,        \* KeyService keyspace: public key -> passphrase sealing its private key
    wallets,     \* WalletService keyspace: name -> wallet record
    rootHashes,  \* RootHashService keyspace: root hash -> multi-sig address record
    client,      \* client[c]: the capabilities of the client c holds
    call,        \* call[c]: the operation c is in, or None
    ret          \* ret[c]: what c's last operation returned, until c's next call

storage == <<keys, wallets, rootHashes>>
vars == <<keys, wallets, rootHashes, client, call, ret>>

----------------------------------------------------------------------------
(***************************************************************************)
(* Values.  A hash is modelled by what it is a hash of, which keeps it     *)
(* injective: the root of an OrTree is the pair of its signers and its     *)
(* threshold, an address is its variant around what it wraps.              *)
(***************************************************************************)
RootHash == [signers : (SUBSET AllKeys) \ {{}}, m : Nat]

RootOf(public_keys, m) == [signers |-> public_keys, m |-> m]

OrTree(root_hash) == [OrTree |-> root_hash]

BasicRedeem(public_key) == [BasicRedeem |-> public_key]

PrivateKeyOf(public_key) == [secret_of |-> public_key]

SchnorrSignature(public_key, message) == [signed_by |-> {public_key}, message |-> message]

Wallet == [passphrase : Passphrases, view_key : LocalKeys,
           public_keys : SUBSET LocalKeys, root_hashes : SUBSET RootHash]

MultiSigAddress == [self_public_key : AllKeys, passphrase : Passphrases]

----------------------------------------------------------------------------
(***************************************************************************)
(* The operations of WalletClient and MultiSigWalletClient as programs:    *)
(* the service calls they make, in order.                                  *)
(***************************************************************************)
wallets_ == <<"names">>
view_key == <<"view_key">>
public_keys == <<"public_keys">>
root_hashes == <<"root_hashes">>
staking_addresses == <<"staking_addresses">>
transfer_addresses == <<"transfer_addresses">>
find_public_key == <<"find_public_key">>
find_root_hash == <<"find_root_hash">>
private_key == <<"private_key">>

\* The key pair is in the key store before the wallet is asked for.
new_wallet == <<"generate_keypair", "create">>
new_public_key == <<"generate_keypair", "add_public_key">>
new_staking_address == new_public_key

\* The operation without its first line: the root is stored unverified.
new_multisig_transfer_address_Unverified == <<"new_root_hash", "add_root_hash">>

\* "To verify if the passphrase is correct or not", then store, then add.
new_multisig_transfer_address ==
    <<"transfer_addresses", "new_root_hash", "add_root_hash">>

new_transfer_address == new_public_key \o new_multisig_transfer_address

\* The operation without its first line: the proof of any wallet's address
\* for whoever holds the passphrase of the record.
generate_proof_Unverified == <<"generate_proof">>

generate_proof == <<"transfer_addresses", "generate_proof">>
required_cosigners == <<"transfer_addresses", "required_signers">>
schnorr_signature == <<"transfer_addresses", "private_key">>

\* The addresses of the wallet, then the index for each of them.  What the
\* index answers and what is computed from it is the matter of WalletView.
balance == <<"transfer_addresses", "address_details">>
history == balance

Program ==
    [wallets |-> wallets_, view_key |-> view_key, public_keys |-> public_keys,
     root_hashes |-> root_hashes, staking_addresses |-> staking_addresses,
     transfer_addresses |-> transfer_addresses, find_public_key |-> find_public_key,
     find_root_hash |-> find_root_hash, private_key |-> private_key,
     new_wallet |-> new_wallet, new_public_key |-> new_public_key,
     new_staking_address |-> new_staking_address,
     new_transfer_address |-> new_transfer_address,
     new_multisig_transfer_address |-> new_multisig_transfer_address,
     generate_proof |-> generate_proof, required_cosigners |-> required_cosigners,
     schnorr_signature |-> schnorr_signature, balance |-> balance, history |-> history]

Operations == DOMAIN Program

(***************************************************************************)
(* The arguments of an operation.  A field an operation does not take is   *)
(* None.                                                                   *)
(***************************************************************************)
NoArguments ==
    [name |-> None, passphrase |-> None, public_key |-> None, public_keys |-> None,
     m |-> None, n |-> None, root_hash |-> None, message |-> None]

Named == {[NoArguments EXCEPT !.name = w, !.passphrase = p] : w \in Names, p \in Passphrases}

\* The roots callers ask about: of the multi-sig requests, and of the 1-of-1
\* trees of the local keys.
RootHashInputs ==
    {RootOf(r.public_keys, r.m) : r \in MultiSigRequests} \cup {RootOf({k}, 1) : k \in LocalKeys}

Arguments(op) ==
    CASE op = "wallets" -> {NoArguments}
      [] op = "private_key" ->
            {[NoArguments EXCEPT !.passphrase = p, !.public_key = k] :
                p \in Passphrases, k \in AllKeys}
      [] op = "find_public_key" ->
            {[a EXCEPT !.public_key = k] : a \in Named, k \in AllKeys}
      [] op \in {"find_root_hash", "required_cosigners"} ->
            {[a EXCEPT !.root_hash = r] : a \in Named, r \in RootHashInputs}
      [] op = "generate_proof" ->
            {[a EXCEPT !.root_hash = r, !.public_keys = q.public_keys] :
                a \in Named, r \in RootHashInputs, q \in MultiSigRequests}
      [] op = "schnorr_signature" ->
            {[a EXCEPT !.public_key = k, !.message = h] :
                a \in Named, k \in AllKeys, h \in Messages}
      [] op = "new_multisig_transfer_address" ->
            {[a EXCEPT !.public_keys = q.public_keys, !.public_key = q.self_public_key,
                       !.m = q.m, !.n = q.n] : a \in Named, q \in MultiSigRequests}
      [] OTHER -> Named

----------------------------------------------------------------------------
TypeOK ==
    /\ keys \in [DOMAIN keys -> Passphrases] /\ DOMAIN keys \subseteq LocalKeys
    /\ wallets \in [DOMAIN wallets -> Wallet] /\ DOMAIN wallets \subseteq Names
    /\ rootHashes \in [DOMAIN rootHashes -> MultiSigAddress]
    /\ DOMAIN rootHashes \subseteq RootHash
    /\ client \in [Callers -> ClientKinds]
    /\ \A c \in Callers :
        /\ call[c] # None =>
            /\ call[c].op \in Operations
            /\ call[c].args \in Arguments(call[c].op)
            /\ call[c].todo # <<>>
            /\ \E i \in 1..Len(Program[call[c].op]) :
                    call[c].todo = SubSeq(Program[call[c].op], i, Len(Program[call[c].op]))
            /\ call[c].key \in LocalKeys \cup {None}
            /\ call[c].root \in RootHash \cup {None}
        /\ ret[c] # None =>
            /\ ret[c].op \in Operations
            /\ ret[c].kind \in {"Ok", "Crashed", "PermissionDenied", "WalletNotFound",
                                "InvalidInput", "NotFound", "PrivateKeyNotFound"}

\* An empty storage, and every caller with a client build() has handed out.
Init ==
    /\ keys = <<>>
    /\ wallets = <<>>
    /\ rootHashes = <<>>
    /\ client \in [Callers -> ClientKinds]
    /\ call = [c \in Callers |-> None]
    /\ ret = [c \in Callers |-> None]

----------------------------------------------------------------------------
(***************************************************************************)
(* Control: entering an operation, going on to its next call, returning.   *)
(***************************************************************************)

\* What the operation hands back once its last call has answered `value'.
Returned(k, value) ==
    CASE k.op = "new_wallet" -> None
      [] k.op = "new_public_key" -> k.key
      [] k.op = "new_staking_address" -> BasicRedeem(k.key)
      [] k.op \in {"new_transfer_address", "new_multisig_transfer_address"} -> OrTree(k.root)
      [] k.op = "schnorr_signature" -> SchnorrSignature(k.args.public_key, k.args.message)
      [] OTHER -> value

\* The caller takes what its last operation returned and enters operation
\* `op' with arguments `a'.
Call(c, op, a) ==
    /\ call[c] = None
    /\ call' = [call EXCEPT ![c] =
                    [op |-> op, args |-> a, todo |-> Program[op], key |-> None, root |-> None,
                     addresses |-> {}]]
    /\ ret' = [ret EXCEPT ![c] = None]
    /\ UNCHANGED <<keys, wallets, rootHashes, client>>

AtCall(c, services) ==
    /\ call[c] # None
    /\ client[c].storage_set
    /\ Head(call[c].todo) \in services

\* The call in progress answered Ok(value); k is the caller's record after it.
Continue(c, k, value) ==
    IF Len(k.todo) = 1
    THEN /\ call' = [call EXCEPT ![c] = None]
         /\ ret' = [ret EXCEPT ![c] = [op |-> k.op, kind |-> "Ok", value |-> Returned(k, value)]]
    ELSE /\ call' = [call EXCEPT ![c] = [k EXCEPT !.todo = Tail(@)]]
         /\ UNCHANGED ret

\* The error of a call reported without its kind.
Fail_AsDenied(c, kind) ==
    /\ call' = [call EXCEPT ![c] = None]
    /\ ret' = [ret EXCEPT ![c] = [op |-> call[c].op, kind |-> "PermissionDenied", value |-> None]]

\* The call in progress answered Err(kind): the `?' returns it.
Fail(c, kind) ==
    /\ call' = [call EXCEPT ![c] = None]
    /\ ret' = [ret EXCEPT ![c] = [op |-> call[c].op, kind |-> kind, value |-> None]]

\* Every call on UnauthorizedStorage is Err(PermissionDenied).
Unauthorized(c) ==
    /\ call[c] # None
    /\ ~client[c].storage_set
    /\ Fail(c, "PermissionDenied")
    /\ UNCHANGED <<keys, wallets, rootHashes, client>>

\* The process of the caller dies inside an operation; the storage stays.
Crash(c) ==
    /\ call[c] # None
    /\ Fail(c, "Crashed")
    /\ UNCHANGED <<keys, wallets, rootHashes, client>>

----------------------------------------------------------------------------
(***************************************************************************)
(* KeyService.                                                             *)
(***************************************************************************)
FreshKey == Cardinality(DOMAIN keys) + 1

\* generate_keypair without its set: the pair is returned and not stored.
GenerateKeypair_NotStored(c) ==
    /\ AtCall(c, {"generate_keypair"})
    /\ FreshKey \in LocalKeys
    /\ Continue(c, [call[c] EXCEPT !.key = FreshKey], FreshKey)
    /\ UNCHANGED <<keys, wallets, rootHashes, client>>

\* generate_keypair(passphrase): a new pair, the private key sealed and stored.
GenerateKeypair(c) ==
    /\ AtCall(c, {"generate_keypair"})
    /\ FreshKey \in LocalKeys
    /\ keys' = keys @@ (FreshKey :> call[c].args.passphrase)
    /\ Continue(c, [call[c] EXCEPT !.key = FreshKey], FreshKey)
    /\ UNCHANGED <<wallets, rootHashes, client>>

\* schnorr_signature unwrapping the private key: no key is a panic, not an
\* Err(PrivateKeyNotFound).
PrivateKey_Unwrapped(c) ==
    LET a == call[c].args IN
    /\ AtCall(c, {"private_key"})
    /\ \/ /\ a.public_key \in DOMAIN keys
          /\ keys[a.public_key] = a.passphrase
          /\ Continue(c, call[c], PrivateKeyOf(a.public_key))
       \/ /\ a.public_key \in DOMAIN keys
          /\ keys[a.public_key] # a.passphrase
          /\ Fail(c, "PermissionDenied")
       \/ /\ a.public_key \notin DOMAIN keys
          /\ IF call[c].op = "private_key"
             THEN Continue(c, call[c], None)
             ELSE Fail(c, "Panicked")
    /\ UNCHANGED <<keys, wallets, rootHashes, client>>

\* private_key(public_key, passphrase): Ok(None) for an unknown key.  An
\* operation that needs the key turns None into PrivateKeyNotFound.
PrivateKey(c) ==
    LET a == call[c].args IN
    /\ AtCall(c, {"private_key"})
    /\ \/ /\ a.public_key \in DOMAIN keys
          /\ keys[a.public_key] = a.passphrase
          /\ Continue(c, call[c], PrivateKeyOf(a.public_key))
       \/ /\ a.public_key \in DOMAIN keys
          /\ keys[a.public_key] # a.passphrase
          /\ Fail(c, "PermissionDenied")
       \/ /\ a.public_key \notin DOMAIN keys
          /\ IF call[c].op = "private_key"
             THEN Continue(c, call[c], None)
             ELSE Fail(c, "PrivateKeyNotFound")
    /\ UNCHANGED <<keys, wallets, rootHashes, client>>

(***************************************************************************)
(* WalletService.                                                          *)
(***************************************************************************)

\* A wallet that is not there answered like one sealed with another
\* passphrase.
Access_Sealed(name, passphrase) ==
    IF name \notin DOMAIN wallets \/ wallets[name].passphrase # passphrase
    THEN "PermissionDenied"
    ELSE "Ok"

\* Opening the record of a wallet: found and unsealed, or the error.
Access(name, passphrase) ==
    IF name \notin DOMAIN wallets THEN "WalletNotFound"
    ELSE IF wallets[name].passphrase # passphrase THEN "PermissionDenied"
    ELSE "Ok"

\* What a read of the wallet service answers once the record is open.
WalletValue(service, w, a) ==
    CASE service = "view_key" -> w.view_key
      [] service = "public_keys" -> w.public_keys
      [] service = "root_hashes" -> w.root_hashes
      [] service = "staking_addresses" -> {BasicRedeem(k) : k \in w.public_keys}
      [] service = "transfer_addresses" -> {OrTree(r) : r \in w.root_hashes}
      [] service = "find_public_key" ->
            IF a.public_key \in w.public_keys THEN a.public_key ELSE None
      [] service = "find_root_hash" ->
            IF a.root_hash \in w.root_hashes THEN a.root_hash ELSE None

\* names(): the wallet names, whatever the passphrase.
WalletNames(c) ==
    /\ AtCall(c, {"names"})
    /\ Continue(c, call[c], DOMAIN wallets)
    /\ UNCHANGED <<keys, wallets, rootHashes, client>>

\* view_key, public_keys, root_hashes, staking_addresses, transfer_addresses,
\* find_public_key, find_root_hash of the wallet service.
WalletRead(c) ==
    LET a == call[c].args
        access == Access(a.name, a.passphrase) IN
    /\ AtCall(c, {"view_key", "public_keys", "root_hashes", "staking_addresses",
                  "transfer_addresses", "find_public_key", "find_root_hash"})
    /\ \/ /\ access = "Ok"
          /\ Continue(c, [call[c] EXCEPT !.addresses = {OrTree(r) : r \in wallets[a.name].root_hashes}],
                      WalletValue(Head(call[c].todo), wallets[a.name], a))
       \/ /\ access # "Ok"
          /\ Fail(c, access)
    /\ UNCHANGED <<keys, wallets, rootHashes, client>>

(***************************************************************************)
(* Index.                                                                  *)
(***************************************************************************)

\* address_details(address), once for every transfer address the operation
\* has read.  The index of a client built without one refuses every call.
AddressDetails(c) ==
    /\ AtCall(c, {"address_details"})
    /\ IF call[c].addresses = {} \/ client[c].index_set
       THEN Continue(c, call[c], None)
       ELSE Fail(c, "PermissionDenied")
    /\ UNCHANGED <<keys, wallets, rootHashes, client>>

\* create without the test for an existing wallet of that name.
Create_Overwrite(c) ==
    LET a == call[c].args IN
    /\ AtCall(c, {"create"})
    /\ wallets' = [w \in DOMAIN wallets \cup {a.name} |->
                      IF w = a.name
                      THEN [passphrase |-> a.passphrase, view_key |-> call[c].key,
                            public_keys |-> {}, root_hashes |-> {}]
                      ELSE wallets[w]]
    /\ Continue(c, call[c], None)
    /\ UNCHANGED <<keys, rootHashes, client>>

\* create(name, passphrase, view_key): a new, empty wallet under a free name.
Create(c) ==
    LET a == call[c].args IN
    /\ AtCall(c, {"create"})
    /\ \/ /\ a.name \notin DOMAIN wallets
          /\ wallets' = wallets @@ (a.name :>
                            [passphrase |-> a.passphrase, view_key |-> call[c].key,
                             public_keys |-> {}, root_hashes |-> {}])
          /\ Continue(c, call[c], None)
       \/ /\ a.name \in DOMAIN wallets
          /\ UNCHANGED wallets
          /\ Fail(c, "InvalidInput")
    /\ UNCHANGED <<keys, rootHashes, client>>

\* add_public_key that does not unseal the wallet with the passphrase given.
AddPublicKey_AnyPassphrase(c) ==
    LET a == call[c].args IN
    /\ AtCall(c, {"add_public_key"})
    /\ \/ /\ a.name \in DOMAIN wallets
          /\ wallets' = [wallets EXCEPT ![a.name].public_keys = @ \cup {call[c].key}]
          /\ Continue(c, call[c], None)
       \/ /\ a.name \notin DOMAIN wallets
          /\ UNCHANGED wallets
          /\ Fail(c, "WalletNotFound")
    /\ UNCHANGED <<keys, rootHashes, client>>

\* add_public_key(name, passphrase, public_key)
AddPublicKey(c) ==
    LET a == call[c].args
        access == Access(a.name, a.passphrase) IN
    /\ AtCall(c, {"add_public_key"})
    /\ \/ /\ access = "Ok"
          /\ wallets' = [wallets EXCEPT ![a.name].public_keys = @ \cup {call[c].key}]
          /\ Continue(c, call[c], None)
       \/ /\ access # "Ok"
          /\ UNCHANGED wallets
          /\ Fail(c, access)
    /\ UNCHANGED <<keys, rootHashes, client>>

\* The root hash the operation is about: of the key it has just generated
\* (a 1-of-1 tree) or of the co-signers the caller named.
RootRequest(k) ==
    IF k.op = "new_transfer_address"
    THEN [public_keys |-> {k.key}, self_public_key |-> k.key, m |-> 1, n |-> 1]
    ELSE [public_keys |-> k.args.public_keys, self_public_key |-> k.args.public_key,
          m |-> k.args.m, n |-> k.args.n]

\* add_root_hash(name, passphrase, root_hash)
AddRootHash(c) ==
    LET a == call[c].args
        access == Access(a.name, a.passphrase) IN
    /\ AtCall(c, {"add_root_hash"})
    /\ \/ /\ access = "Ok"
          /\ wallets' = [wallets EXCEPT ![a.name].root_hashes = @ \cup {call[c].root}]
          /\ Continue(c, call[c], None)
       \/ /\ access # "Ok"
          /\ UNCHANGED wallets
          /\ Fail(c, access)
    /\ UNCHANGED <<keys, rootHashes, client>>

(***************************************************************************)
(* RootHashService.  Its records are keyed by the root hash alone: the     *)
(* client passes it no wallet name.                                        *)
(***************************************************************************)

\* new_root_hash that answers the root of the tree and stores nothing.
NewRootHash_NotStored(c) ==
    LET q == RootRequest(call[c])
        root == RootOf(q.public_keys, q.m) IN
    /\ AtCall(c, {"new_root_hash"})
    /\ Continue(c, [call[c] EXCEPT !.root = root], root)
    /\ UNCHANGED <<keys, wallets, rootHashes, client>>

\* new_root_hash(public_keys, self_public_key, m, n, passphrase): the tree
\* over the m-subsets of the n signers, sealed and stored under its root.
NewRootHash(c) ==
    LET q == RootRequest(call[c])
        root == RootOf(q.public_keys, q.m)
        valid == /\ q.self_public_key \in q.public_keys
                 /\ q.m <= q.n
                 /\ q.n = Cardinality(q.public_keys) IN
    /\ AtCall(c, {"new_root_hash"})
    /\ \/ /\ valid
          /\ rootHashes' = [r \in DOMAIN rootHashes \cup {root} |->
                               IF r = root
                               THEN [self_public_key |-> q.self_public_key,
                                     passphrase |-> call[c].args.passphrase]
                               ELSE rootHashes[r]]
          /\ Continue(c, [call[c] EXCEPT !.root = root], root)
       \/ /\ ~valid
          /\ UNCHANGED rootHashes
          /\ Fail(c, "InvalidInput")
    /\ UNCHANGED <<keys, wallets, client>>

\* Opening the record of a root hash.
Unseal(root_hash, passphrase) ==
    IF root_hash \notin DOMAIN rootHashes THEN "NotFound"
    ELSE IF rootHashes[root_hash].passphrase # passphrase THEN "PermissionDenied"
    ELSE "Ok"

\* required_signers(root_hash, passphrase), and generate_proof(address,
\* public_keys, passphrase): the inclusion proof of one m-subset of signers.
RootHashRead(c) ==
    LET a == call[c].args
        access == Unseal(a.root_hash, a.passphrase)
        proves == /\ a.public_keys \subseteq a.root_hash.signers
                  /\ Cardinality(a.public_keys) = a.root_hash.m IN
    /\ AtCall(c, {"required_signers", "generate_proof"})
    /\ \/ /\ access = "Ok"
          /\ Head(call[c].todo) = "required_signers"
          /\ Continue(c, call[c], a.root_hash.m)
       \/ /\ access = "Ok"
          /\ Head(call[c].todo) = "generate_proof"
          /\ proves
          /\ Continue(c, call[c], [root |-> a.root_hash, leaf |-> a.public_keys])
       \/ /\ access = "Ok"
          /\ Head(call[c].todo) = "generate_proof"
          /\ ~proves
          /\ Fail(c, "InvalidInput")
       \/ /\ access # "Ok"
          /\ Fail(c, access)
    /\ UNCHANGED <<keys, wallets, rootHashes, client>>

----------------------------------------------------------------------------
\* The storage or the index answers the call c is at.
Serve(c) ==
    \/ Unauthorized(c)
    \/ GenerateKeypair(c)
    \/ PrivateKey(c)
    \/ WalletNames(c)
    \/ WalletRead(c)
    \/ Create(c)
    \/ AddPublicKey(c)
    \/ AddRootHash(c)
    \/ NewRootHash(c)
    \/ RootHashRead(c)
    \/ AddressDetails(c)

Step(c) ==
    \/ \E op \in Invoked : \E a \in Arguments(op) : Call(c, op, a)
    \/ Serve(c)

Next == \E c \in Callers : Step(c) \/ Crash(c)

\* Every process runs to the end of what it has begun.
NextNoCrash == \E c \in Callers : Step(c)

Spec == Init /\ [][Next]_vars

SpecNoCrash == Init /\ [][NextNoCrash]_vars

----------------------------------------------------------------------------
(***************************************************************************)
(* The tests of default_wallet_client.rs on wallets and addresses: each    *)
(* call with the client and the wallet it is made on and what is asserted  *)
(* of its answer.                                                          *)
(***************************************************************************)

\* One assertion: operation `op' on a client with or without storage, on
\* a wallet in one of the states `when' (None for no such wallet, else the
\* number of its addresses; for wallets(), the number of wallets), is
\* answered with one of `kinds' and, where the test looks, `len' entries.
Asserted(op, with_wallet, when, kinds, len) ==
    [op |-> op, storage |-> with_wallet, when |-> when, kinds |-> kinds, len |-> len]

is_err == {"PermissionDenied", "WalletNotFound", "InvalidInput", "NotFound",
           "PrivateKeyNotFound"}

check_wallet_flow ==
    {Asserted("transfer_addresses", TRUE, {None}, is_err, None),
     Asserted("new_wallet", TRUE, {None}, {"Ok"}, None),
     Asserted("transfer_addresses", TRUE, {0}, {"Ok"}, 0),
     Asserted("wallets", TRUE, {1}, {"Ok"}, 1),
     Asserted("new_transfer_address", TRUE, {0}, {"Ok"}, None),
     Asserted("transfer_addresses", TRUE, {1}, {"Ok"}, 1),
     Asserted("find_root_hash", TRUE, {1}, {"Ok"}, 1),
     Asserted("public_keys", TRUE, {None}, {"WalletNotFound"}, None),
     Asserted("new_public_key", TRUE, {None}, {"WalletNotFound"}, None)}

\* The calls of check_unauthorized_wallet that stop at the storage.
check_unauthorized_storage ==
    {Asserted(op, FALSE, {None, 0, 1, 2}, {"PermissionDenied"}, None) :
        op \in {"wallets", "new_wallet", "public_keys", "private_key", "new_public_key",
                "new_staking_address"}}

\* check_multi_sig_address_generation, up to the address of three
\* co-signers.
check_multi_sig_address_generation ==
    {Asserted("transfer_addresses", TRUE, {None}, {"WalletNotFound"}, None),
     Asserted("new_wallet", TRUE, {None}, {"Ok"}, None),
     Asserted("transfer_addresses", TRUE, {0}, {"Ok"}, 0)}

\* The state the wallet of a call is in.
Status(a) ==
    IF a.name = None THEN Cardinality(DOMAIN wallets)
    ELSE IF a.name \notin DOMAIN wallets THEN None
    ELSE Cardinality(wallets[a.name].root_hashes)

\* What an assertion looks at: the length of a list, whether an Option is
\* Some.
Listed(op, value) ==
    CASE op \in {"wallets", "transfer_addresses"} -> Cardinality(value)
      [] op = "find_root_hash" -> IF value = None THEN 0 ELSE 1
      [] OTHER -> None

\* The assertions about the call c is in, as it stands before the storage
\* now: the same operation on such a client and on a wallet in that state,
\* with the passphrase and, for find_root_hash, an address of the wallet.
Makes(test, c) ==
    LET a == call[c].args IN
    {t \in test :
        /\ t.op = call[c].op
        /\ t.storage = client[c].storage_set
        /\ t.storage =>
            /\ Status(a) \in t.when
            /\ a.name \in DOMAIN wallets =>
                /\ wallets[a.name].passphrase = a.passphrase
                /\ a.root_hash \in wallets[a.name].root_hashes \cup {None}}

----------------------------------------------------------------------------
(***************************************************************************)
(* Properties.                                                             *)
(***************************************************************************)

\* Every key a wallet names (its view key and its public keys) has its
\* private key in the key store, sealed with the passphrase of that wallet,
\* so the owner can sign for every address the wallet shows.  new_wallet and
\* new_public_key keep this by storing the key pair before they touch the
\* wallet and by add_public_key unsealing the wallet first; it must hold at
\* every point between two storage calls of any caller, and so after a
\* crash.
WalletKeysAreSealedForOwner ==
    \A w \in DOMAIN wallets :
        \A k \in {wallets[w].view_key} \cup wallets[w].public_keys :
            k \in DOMAIN keys /\ keys[k] = wallets[w].passphrase

\* Every transfer address of a wallet has its multi-sig record in the root
\* hash store: new_multisig_transfer_address stores the tree
\* (new_root_hash) before the wallet lists its root (add_root_hash), so a
\* wallet never shows an address required_cosigners and generate_proof
\* answer NotFound for, whatever the interleaving and wherever a caller
\* dies.
TransferAddressesAreRegistered ==
    \A w \in DOMAIN wallets : wallets[w].root_hashes \subseteq DOMAIN rootHashes

\* Only the owner of a wallet writes to the root hash store, which all
\* wallets share: every record in it is sealed with the passphrase of a
\* wallet.  new_root_hash itself takes no wallet name and seals with
\* whatever passphrase it is given; it is the read of transfer_addresses
\* before it ("To verify if the passphrase is correct or not") that keeps a
\* caller who knows no wallet's passphrase from replacing the record of an
\* address.
RootHashesAreSealedByOwners ==
    \A r \in DOMAIN rootHashes :
        \E w \in DOMAIN wallets : wallets[w].passphrase = rootHashes[r].passphrase

\* The operations of the client are atomic to their callers, crashes
\* included: although new_wallet, new_public_key and the address operations
\* are two to five storage calls that interleave with those of other
\* callers, the wallets change as WalletStore says (created once under a
\* free name with a key of its own, then only added to, one key or address
\* at a time, by a caller who gave the passphrase), and every answer, each
\* Err of a `?' included, is true of the wallets when it is returned.
Store == INSTANCE WalletStore WITH owned <- wallets, pending <- call, answer <- ret

ImplementsWalletStore == Store!Spec

\* A call that a test of default_wallet_client.rs makes is answered as the
\* test asserts whenever its last storage call finds the wallet in the
\* state the test has it in, whatever other callers did to the storage
\* between the calls of the operation: an error for the addresses of a
\* wallet that does not exist and WalletNotFound for its keys, Ok for
\* new_wallet and the first new_transfer_address, lists of 0 and 1
\* addresses before and after it, Some for find_root_hash of that address,
\* and PermissionDenied for everything from a client built without storage.
AnswersAsTested ==
    [][\A c \in Callers :
          call[c] # None /\ ret'[c] # None /\ ret'[c].kind # "Crashed" =>
              \A t \in Makes(check_wallet_flow \cup check_unauthorized_storage
                                \cup check_multi_sig_address_generation, c) :
                  /\ ret'[c].kind \in t.kinds
                  /\ t.len # None => Listed(t.op, ret'[c].value) = t.len]_vars

\* What the unit test of new_public_key on a wallet that does not exist
\* calls "Generated public key for non existent wallet": when no operation
\* is in progress, every key of the key store belongs to a wallet.
NoKeyWithoutWallet ==
    (\A c \in Callers : call[c] = None) =>
        \A k \in DOMAIN keys :
            \E w \in DOMAIN wallets : k \in {wallets[w].view_key} \cup wallets[w].public_keys

\* "All read operations with the correct passphrase succeed": the record of
\* every transfer address of a wallet opens with the passphrase of that
\* wallet, so required_cosigners and generate_proof do not answer
\* PermissionDenied to the owner.
OwnerCanReadTransferAddresses ==
    \A w \in DOMAIN wallets :
        \A r \in wallets[w].root_hashes :
            r \in DOMAIN rootHashes => rootHashes[r].passphrase = wallets[w].passphrase

=============================================================================
