--------------------------- MODULE SigningRounds ---------------------------
(***************************************************************************)
(* What a multi-signature signing run promises, without the material that  *)
(* is exchanged: every signer runs a session of its own through the phases *)
(*                                                                         *)
(*   no session, Init, CommitsCollected, NoncesCollected,                  *)
(*   PartialsCollected, Done                                               *)
(*                                                                         *)
(* one phase at a time, and a session leaves the phase of a round only     *)
(* when the session of EVERY signer has reached that phase: a commitment   *)
(* exists only once its signer has a session, a nonce is revealed only by  *)
(* a signer that holds every commitment, a partial signature is made only  *)
(* by a signer that holds every nonce.  MultiSigSession is shown to        *)
(* implement this specification.                                           *)
(***************************************************************************)
EXTENDS Naturals

CONSTANTS Signers           \* the signing subset the participants agreed on

VARIABLE phase              \* phase[k]: how far the session of signer k is

NoSession == 0
Started == 1                \* the state the sessions call Init
CommitsCollected == 2
NoncesCollected == 3
PartialsCollected == 4
Done == 5

TypeOK == phase \in [Signers -> NoSession..Done]

Init == phase = [k \in Signers |-> NoSession]

\* The session of k moves to its next phase.  Out of the three phases that
\* wait for a round of contributions it moves only when nobody is behind it.
Advance(k) ==
    /\ phase[k] < Done
    /\ phase[k] \in Started..NoncesCollected => \A j \in Signers : phase[j] >= phase[k]
    /\ phase' = [phase EXCEPT ![k] = @ + 1]

Next == \E k \in Signers : Advance(k)

Spec == Init /\ [][Next]_phase

\* Every signer ends with a signature.
Completes == <>(\A k \in Signers : phase[k] = Done)

=============================================================================
