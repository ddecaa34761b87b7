----------------------------- MODULE WalletStore -----------------------------
(***************************************************************************)
(* What a wallet client promises the callers that share a storage, with    *)
(* the storage calls of an operation drawn together into one step.         *)
(*                                                                         *)
(* A wallet is created once, under a free name, and from then on only      *)
(* gains keys and addresses, one at a time, each by a caller who asked for *)
(* exactly that and gave the passphrase of the wallet.  An answer is true  *)
(* of the wallets at the moment it is given: a read shows the wallet as it *)
(* is, and an error names what is really wrong.  Nothing is promised for   *)
(* what the key store, the root hash store and the index add to an answer, *)
(* except that the wallet was opened first.                                *)
(*                                                                         *)
(* The specification is a property of module WalletClient: the answers a  *)
(* caller may be given are stated, not enumerated, and of what a client    *)
(* keeps about the operation it is in only op and args are looked at.      *)
(***************************************************************************)
EXTENDS Naturals, FiniteSets, TLC

CONSTANTS
    Callers, LocalKeys, None,
    RootOf(_, _), OrTree(_), BasicRedeem(_)     \* the values of WalletClient

VARIABLES
    owned,      \* name -> wallet: passphrase, view_key, public_keys, root_hashes
    client,     \* client[c].storage_set: the client of c was built with a storage
    pending,    \* pending[c]: the operation c is in (op, args, ...), or None
    answer      \* answer[c]: what c was told last (op, kind, value), or None

vars == <<owned, client, pending, answer>>

Errors == {"Crashed", "PermissionDenied", "WalletNotFound", "InvalidInput"}

\* The operations that name no wallet to open.
Unnamed == {"wallets", "private_key", "new_wallet"}

\* The operations answered from the wallet alone.
Reads == {"wallets", "view_key", "public_keys", "root_hashes", "staking_addresses",
          "transfer_addresses", "find_public_key", "find_root_hash"}

\* The operations whose answer the other stores and the index complete.
Beyond == {"private_key", "schnorr_signature", "generate_proof", "required_cosigners",
           "balance", "history"}

Opens(a) ==
    IF a.name \notin DOMAIN owned THEN "WalletNotFound"
    ELSE IF owned[a.name].passphrase # a.passphrase THEN "PermissionDenied"
    ELSE "Ok"

Taken == UNION {{owned[w].view_key} \cup owned[w].public_keys : w \in DOMAIN owned}

WellFormed(a) ==
    a.public_key \in a.public_keys /\ a.m <= a.n /\ a.n = Cardinality(a.public_keys)

\* The roots an operation may add to the wallet it names.
Offered(op, a) ==
    IF op = "new_transfer_address" THEN {RootOf({k}, 1) : k \in owned[a.name].public_keys}
    ELSE IF WellFormed(a) THEN {RootOf(a.public_keys, a.m)}
    ELSE {}

Shown(op, a) ==
    LET w == owned[a.name] IN
    CASE op = "wallets" -> DOMAIN owned
      [] op = "view_key" -> w.view_key
      [] op = "public_keys" -> w.public_keys
      [] op = "root_hashes" -> w.root_hashes
      [] op = "staking_addresses" -> {BasicRedeem(k) : k \in w.public_keys}
      [] op = "transfer_addresses" -> {OrTree(r) : r \in w.root_hashes}
      [] op = "find_public_key" -> IF a.public_key \in w.public_keys THEN a.public_key ELSE None
      [] op = "find_root_hash" -> IF a.root_hash \in w.root_hashes THEN a.root_hash ELSE None

\* The error `kind' is true of the operation c waits for.
Refused(c, kind) ==
    LET op == pending[c].op
        a == pending[c].args IN
    \/ kind = "Crashed"
    \/ kind = "PermissionDenied" /\ ~client[c].storage_set
    \/ op \notin Unnamed /\ kind = Opens(a) /\ kind # "Ok"
    \/ op = "new_wallet" /\ kind = "InvalidInput" /\ a.name \in DOMAIN owned
    \/ op = "new_multisig_transfer_address" /\ kind = "InvalidInput" /\ ~WellFormed(a)

Told(c, kind, value) ==
    /\ pending' = [pending EXCEPT ![c] = None]
    /\ answer' = [answer EXCEPT ![c] = [op |-> pending[c].op, kind |-> kind, value |-> value]]

\* c goes on with the operation it is in.
GoesOn(c) ==
    /\ pending'[c] # None
    /\ pending'[c].op = pending[c].op /\ pending'[c].args = pending[c].args
    /\ pending' = [pending EXCEPT ![c] = pending'[c]]
    /\ UNCHANGED answer

Waits(c, ops) == pending[c] # None /\ pending[c].op \in ops /\ client[c].storage_set

----------------------------------------------------------------------------
Init ==
    /\ owned = <<>>
    /\ DOMAIN client = Callers /\ \A c \in Callers : client[c].storage_set \in BOOLEAN
    /\ pending = [c \in Callers |-> None]
    /\ answer = [c \in Callers |-> None]

Begin(c) ==
    /\ pending[c] = None /\ pending'[c] # None
    /\ pending' = [pending EXCEPT ![c] = pending'[c]]
    /\ answer' = [answer EXCEPT ![c] = None]
    /\ UNCHANGED <<owned, client>>

\* A storage call that leaves the wallets as they are and gives no answer.
Work(c) == pending[c] # None /\ GoesOn(c) /\ UNCHANGED <<owned, client>>

NewWallet(c) ==
    LET a == pending[c].args IN
    /\ Waits(c, {"new_wallet"})
    /\ a.name \notin DOMAIN owned
    /\ \E key \in LocalKeys \ Taken :
            owned' = owned @@ (a.name :> [passphrase |-> a.passphrase, view_key |-> key,
                                          public_keys |-> {}, root_hashes |-> {}])
    /\ Told(c, "Ok", None)
    /\ UNCHANGED client

\* new_transfer_address goes on to add the address of the key.
AddKey(c) ==
    LET op == pending[c].op
        a == pending[c].args IN
    /\ Waits(c, {"new_public_key", "new_staking_address", "new_transfer_address"})
    /\ Opens(a) = "Ok"
    /\ \E key \in LocalKeys \ Taken :
        /\ owned' = [owned EXCEPT ![a.name].public_keys = @ \cup {key}]
        /\ \/ op = "new_public_key" /\ Told(c, "Ok", key)
           \/ op = "new_staking_address" /\ Told(c, "Ok", BasicRedeem(key))
           \/ op = "new_transfer_address" /\ GoesOn(c)
    /\ UNCHANGED client

AddAddress(c) ==
    LET a == pending[c].args IN
    /\ Waits(c, {"new_transfer_address", "new_multisig_transfer_address"})
    /\ Opens(a) = "Ok"
    /\ \E root \in Offered(pending[c].op, a) :
        /\ owned' = [owned EXCEPT ![a.name].root_hashes = @ \cup {root}]
        /\ Told(c, "Ok", OrTree(root))
    /\ UNCHANGED client

Respond(c) ==
    LET op == pending[c].op
        a == pending[c].args IN
    /\ Waits(c, Reads)
    /\ op = "wallets" \/ Opens(a) = "Ok"
    /\ Told(c, "Ok", Shown(op, a))
    /\ UNCHANGED <<owned, client>>

Refuse(c) ==
    /\ pending[c] # None /\ pending'[c] = None
    /\ \E kind \in Errors : Refused(c, kind) /\ Told(c, kind, None)
    /\ UNCHANGED <<owned, client>>

\* Any answer to the operation, but Ok only after the wallet was opened.
Elsewhere(c) ==
    LET op == pending[c].op IN
    /\ pending[c] # None /\ op \in Beyond
    /\ pending' = [pending EXCEPT ![c] = None]
    /\ answer'[c] # None /\ answer'[c].op = op
    /\ answer' = [answer EXCEPT ![c] = answer'[c]]
    /\ answer'[c].kind = "Ok" /\ op # "private_key" =>
            client[c].storage_set /\ Opens(pending[c].args) = "Ok"
    /\ UNCHANGED <<owned, client>>

Next ==
    \E c \in Callers :
        \/ Begin(c) \/ Work(c)
        \/ NewWallet(c) \/ AddKey(c) \/ AddAddress(c)
        \/ Respond(c) \/ Refuse(c) \/ Elsewhere(c)

Spec == Init /\ [][Next]_vars

=============================================================================
