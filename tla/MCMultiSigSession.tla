------------------------- MODULE MCMultiSigSession -------------------------
(***************************************************************************)
(* MultiSigSession for TLC: two signers whose keys the key store holds,    *)
(* a third key it does not hold, the passphrase of the wallet and a wrong  *)
(* one.                                                                    *)
(***************************************************************************)
EXTENDS MultiSigSession

CONSTANTS k1, k2, k3, p, q

MCKeys == {k1, k2, k3}
MCSigners == {k1, k2}
MCPassphrases == {p, q}
MCRightPassphrase == {p}

=============================================================================
