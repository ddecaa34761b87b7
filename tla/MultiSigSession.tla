-------------------------- MODULE MultiSigSession --------------------------
(***************************************************************************)
(* The multi-signature signing sessions of the wallet client               *)
(* (MultiSigWalletClient for DefaultWalletClient).  Every signer of the    *)
(* agreed subset runs a session of its own and the participants carry the  *)
(* nonce commitments, nonces and partial signatures from one session to    *)
(* the others, as check_multi_sig_transaction_signing does.                *)
(*                                                                         *)
(* The client operations are translated from the source: each one is the   *)
(* call of the session service it makes, with the arguments in the order   *)
(* it passes them.  The session service is not part of the sources; its    *)
(* three rounds are modelled from the specification of the session state   *)
(* machine.  Material is modelled by its content: a nonce by the signer    *)
(* that chose it, a commitment by the nonce it hashes, a partial signature *)
(* by the signer, nonces, signer set and message it was made from.         *)
(***************************************************************************)
EXTENDS Naturals, FiniteSets, TLC

CONSTANTS
    Keys,               \* the public keys participants call with
    Signers,            \* the signing subset the participants agreed on
    Stored,             \* the keys whose private key the key store holds
    Passphrases,
    WalletPassphrase,   \* the passphrase of the wallet and of its keys
    Message,            \* the transaction id to sign
    Forger,             \* who puts material on the wire that no session made
    MaxForged,          \* bound: how many messages the forger sends
    None

ASSUME /\ Signers \subseteq Keys /\ Stored \subseteq Signers
       /\ WalletPassphrase \in Passphrases /\ MaxForged \in Nat

VARIABLES
    session,            \* session[k]: the session signer k started, or None
    network,            \* everything ever sent; nothing is lost from it
    ret                 \* ret[k]: what the last operation of k returned

vars == <<session, network, ret>>

Rounds == 1..3          \* nonce commitments, nonces, partial signatures

Ok(value) == [ok |-> TRUE, value |-> value, error |-> None]
Err(kind) == [ok |-> FALSE, value |-> None, error |-> kind]

Nonce(k) == <<"R", k>>
Commitment(nonce) == <<"H", nonce>>
PartialOf(k, nonces, signers, message) == <<"s", k, nonces, signers, message>>

\* The aggregated signature verifies against the aggregated key of the
\* signers and the message: every signer made its partial signature with its
\* own key over this nonce set, this signer set and this message.
Aggregated(nonces, partials) == <<"sig", nonces, partials>>

Verify(signature, signers, message) ==
    LET nonces == signature[2]
        partials == signature[3]
    IN  /\ DOMAIN nonces = signers /\ DOMAIN partials = signers
        /\ \A k \in signers : partials[k] = PartialOf(k, nonces, signers, message)

----------------------------------------------------------------------------
(***************************************************************************)
(* The session service.                                                    *)
(***************************************************************************)
Answer(id, s, result) ==
    /\ session' = [session EXCEPT ![id] = s]
    /\ ret' = [ret EXCEPT ![id] = result]

Collected(s, round) == DOMAIN s.got[round] = s.signers

\* A round is open once the rounds before it are complete.
Ready(s, round) == \A before \in 1..(round - 1) : Collected(s, before)

NotReady == <<"NotReady", "NonceNotReady", "PartialNotReady">>
Invalid == <<"InvalidInput", "InvalidNonce", "InvalidSignature">>

\* What every call on a session answers before it looks at its arguments:
\* no such session, sealed with another passphrase, or aborted earlier.
Refused(id, passphrase) ==
    CASE session[id] = None -> Err("NotFound")
      [] session[id].passphrase # passphrase -> Err("PermissionDenied")
      [] session[id].aborted # None -> Err(session[id].aborted)
      [] OTHER -> None

\* The session's own contribution to a round.
Own(s, round) ==
    CASE round = 1 -> Commitment(Nonce(s.self))
      [] round = 2 -> Nonce(s.self)
      [] round = 3 -> PartialOf(s.self, s.got[2], s.signers, s.message)

\* A peer's contribution checks out: the nonce is the one committed to, the
\* partial signature is the peer's over the session's nonces.
Verifies(s, round, value, public_key) ==
    CASE round = 1 -> TRUE
      [] round = 2 -> Commitment(value) = s.got[1][public_key]
      [] round = 3 -> value = PartialOf(public_key, s.got[2], s.signers, s.message)

new_session(message, signer_public_keys, self_public_key, passphrase) ==
    Answer(self_public_key,
           [self |-> self_public_key, passphrase |-> passphrase, message |-> message,
            signers |-> signer_public_keys, aborted |-> None, signature |-> None,
            got |-> <<self_public_key :> Commitment(Nonce(self_public_key)), <<>>, <<>>>>],
           Ok(self_public_key))

\* nonce_commitment, nonce and partial_signature of the service.
Yield(round, id, passphrase) ==
    LET s == session[id] IN
    \/ /\ Refused(id, passphrase) # None
       /\ Answer(id, s, Refused(id, passphrase))
    \/ /\ Refused(id, passphrase) = None /\ ~Ready(s, round)
       /\ Answer(id, s, Err(NotReady[round]))
    \/ /\ Refused(id, passphrase) = None /\ Ready(s, round)
       /\ Answer(id, [s EXCEPT !.got[round] = (id :> Own(s, round)) @@ @], Ok(Own(s, round)))

\* add_nonce_commitment, add_nonce and add_partial_signature of the service.
\* What was submitted before is accepted again; anything else for the same
\* signer, anything of somebody who is no signer and anything that does not
\* verify aborts the session.
Contribute(round, id, value, public_key, passphrase) ==
    LET s == session[id]
        accepted == /\ public_key \in s.signers
                    /\ IF public_key \in DOMAIN s.got[round]
                       THEN s.got[round][public_key] = value
                       ELSE Verifies(s, round, value, public_key)
    IN  \/ /\ Refused(id, passphrase) # None
           /\ Answer(id, s, Refused(id, passphrase))
        \/ /\ Refused(id, passphrase) = None /\ ~Ready(s, round)
           /\ Answer(id, s, Err(NotReady[round]))
        \/ /\ Refused(id, passphrase) = None /\ Ready(s, round) /\ accepted
           /\ Answer(id, [s EXCEPT !.got[round] = (public_key :> value) @@ @], Ok(None))
        \/ /\ Refused(id, passphrase) = None /\ Ready(s, round) /\ ~accepted
           /\ Answer(id, [s EXCEPT !.aborted = Invalid[round]], Err(Invalid[round]))

Finalise(id, passphrase) ==
    LET s == session[id]
        aggregated == Aggregated(s.got[2], s.got[3])
    IN  \/ /\ Refused(id, passphrase) # None
           /\ Answer(id, s, Refused(id, passphrase))
        \/ /\ Refused(id, passphrase) = None /\ ~Collected(s, 3)
           /\ Answer(id, s, Err("PartialNotReady"))
        \/ /\ Refused(id, passphrase) = None /\ Collected(s, 3)
           /\ IF Verify(aggregated, s.signers, s.message)
              THEN Answer(id, [s EXCEPT !.signature = aggregated], Ok(aggregated))
              ELSE Answer(id, [s EXCEPT !.aborted = "InvalidSignature"], Err("InvalidSignature"))

----------------------------------------------------------------------------
(***************************************************************************)
(* The operations of the wallet client.                                    *)
(***************************************************************************)
new_multi_sig_session_SelfOnly(passphrase, message, signer_public_keys, self_public_key) ==
    \/ /\ passphrase # WalletPassphrase
       /\ Answer(self_public_key, session[self_public_key], Err("PermissionDenied"))
    \/ /\ passphrase = WalletPassphrase /\ self_public_key \notin Stored
       /\ Answer(self_public_key, session[self_public_key], Err("PrivateKeyNotFound"))
    \/ /\ passphrase = WalletPassphrase /\ self_public_key \in Stored
       /\ new_session(message, {self_public_key}, self_public_key, passphrase)

\* transfer_addresses opens the wallet to check the passphrase, private_key
\* unseals the signer's key, and only then the session is made.
new_multi_sig_session(passphrase, message, signer_public_keys, self_public_key) ==
    \/ /\ passphrase # WalletPassphrase
       /\ Answer(self_public_key, session[self_public_key], Err("PermissionDenied"))
    \/ /\ passphrase = WalletPassphrase /\ self_public_key \notin Stored
       /\ Answer(self_public_key, session[self_public_key], Err("PrivateKeyNotFound"))
    \/ /\ passphrase = WalletPassphrase /\ self_public_key \in Stored
       /\ new_session(message, signer_public_keys, self_public_key, passphrase)

nonce_commitment(session_id, passphrase) == Yield(1, session_id, passphrase)

add_nonce_commitment(session_id, passphrase, commitment, public_key) ==
    Contribute(1, session_id, commitment, public_key, passphrase)

nonce(session_id, passphrase) == Yield(2, session_id, passphrase)

add_nonce(session_id, passphrase, nonce_, public_key) ==
    Contribute(2, session_id, nonce_, public_key, passphrase)

partial_signature_AsCommitment(session_id, passphrase) == Yield(1, session_id, passphrase)

partial_signature(session_id, passphrase) == Yield(3, session_id, passphrase)

add_partial_signature_AsCommitment(session_id, passphrase, partial, public_key) ==
    Contribute(1, session_id, partial, public_key, passphrase)

add_partial_signature(session_id, passphrase, partial, public_key) ==
    Contribute(3, session_id, partial, public_key, passphrase)

signature(session_id, passphrase) == Finalise(session_id, passphrase)

----------------------------------------------------------------------------
(***************************************************************************)
(* The participants.  Each one starts its session, asks it for its         *)
(* contribution to a round and sends that to the others, and hands its     *)
(* session what it reads from the network, in any order and as often as it *)
(* likes.                                                                  *)
(***************************************************************************)
Message_(round, from, value, by) ==
    [round |-> round, from |-> from, value |-> value, by |-> by]

\* Bound: one session per signer.
StartSession(k, p) ==
    /\ session[k] = None
    /\ new_multi_sig_session(p, Message, Signers, k)
    /\ UNCHANGED network

Announce(k, p) ==
    \E round \in Rounds :
        /\ \/ round = 1 /\ nonce_commitment(k, p)
           \/ round = 2 /\ nonce(k, p)
           \/ round = 3 /\ partial_signature(k, p)
        /\ network' = network \cup
                        IF ret'[k].ok THEN {Message_(round, k, ret'[k].value, k)} ELSE {}

Receive(k, p) ==
    \E m \in network :
        /\ m.from # k
        /\ \/ m.round = 1 /\ add_nonce_commitment(k, p, m.value, m.from)
           \/ m.round = 2 /\ add_nonce(k, p, m.value, m.from)
           \/ m.round = 3 /\ add_partial_signature(k, p, m.value, m.from)
        /\ UNCHANGED network

Sign(k, p) == signature(k, p) /\ UNCHANGED network

\* What the forger can put in a field of the width of a round's material:
\* anything it saw in a field of that width, and material of its own.  A
\* commitment and a partial signature are both 32 bytes, a nonce is a point.
Forgeable(round) ==
    IF round = 2
    THEN {m.value : m \in {n \in network : n.round = 2}} \cup {Nonce(Forger)}
    ELSE {m.value : m \in {n \in network : n.round # 2}} \cup {Commitment(Nonce(Forger))}

Forge ==
    /\ Cardinality({m \in network : m.by = Forger}) < MaxForged
    /\ \E round \in Rounds, from \in Signers :
          \E value \in Forgeable(round) :
              network' = network \cup {Message_(round, from, value, Forger)}
    /\ UNCHANGED <<session, ret>>

Step(k) == \E p \in Passphrases : StartSession(k, p) \/ Announce(k, p) \/ Receive(k, p) \/ Sign(k, p)

Init ==
    /\ session = [k \in Keys |-> None]
    /\ network = {}
    /\ ret = [k \in Keys |-> None]

Next == Forge \/ \E k \in Keys : Step(k)

Spec == Init /\ [][Next]_vars

\* A participant that can still add to its session or to the network
\* eventually makes such a call.
Progress(k) == Step(k) /\ <<session, network>>' # <<session, network>>

FairSpec == Spec /\ \A k \in Signers : WF_vars(Progress(k))

----------------------------------------------------------------------------
Genuine(round, k) ==
    CASE round = 1 -> {Commitment(Nonce(k))}
      [] round = 2 -> {Nonce(k)}
      [] round = 3 -> {PartialOf(k, [j \in Signers |-> n[j]], Signers, Message) :
                          n \in [Signers -> {Nonce(j) : j \in Signers \cup {Forger}}]}

TypeOK ==
    /\ DOMAIN session = Keys /\ DOMAIN ret = Keys
    /\ \A k \in Keys : session[k] # None =>
          /\ session[k].self = k /\ session[k].passphrase \in Passphrases
          /\ session[k].signers \subseteq Keys
          /\ \A round \in Rounds : DOMAIN session[k].got[round] \subseteq Signers
    /\ \A m \in network :
          /\ m.round \in Rounds /\ m.from \in Signers /\ m.by \in Signers \cup {Forger}
          /\ m.by # Forger => m.by = m.from /\ m.value \in Genuine(m.round, m.from)

\* The phase of the session state machine a session is in.
Phase(s) ==
    IF s = None THEN 0
    ELSE 1 + Cardinality({round \in Rounds : Collected(s, round)})
           + IF s.signature # None THEN 1 ELSE 0

Abstract == INSTANCE SigningRounds WITH phase <- [k \in Signers |-> Phase(session[k])]

\* The sessions implement the signing rounds: a session passes through the
\* states Init, CommitsCollected, NoncesCollected, PartialsCollected and
\* Done one at a time, and leaves a round only when every signer's session
\* has reached it.  new_multi_sig_session, the add_ operations and the
\* service's not-ready answers keep this however the participants order
\* their calls and however late or often a message is handed over.
ImplementsSigningRounds == Abstract!Spec

\* Every signer's session ends with a signature, when the participants keep
\* calling and nothing is forged: an early nonce or partial signature
\* answered NonceNotReady or PartialNotReady leaves the session as it was,
\* a repeated one is accepted again, and add_nonce_commitment, add_nonce and
\* add_partial_signature reach the round they are named for.
EverySessionCompletes == Abstract!Completes

\* The signature a completed session yields verifies against the agreed
\* signer set and message, and any two completed sessions yield the same
\* one, whatever was forged, replayed under another signer's name or
\* delivered out of round before signature() answered.
CompletedSignatureVerifies ==
    LET completed == {k \in Keys : session[k] # None /\ session[k].signature # None} IN
    /\ \A k \in completed : Verify(session[k].signature, Signers, Message)
    /\ \A j, k \in completed : session[j].signature = session[k].signature

=============================================================================
