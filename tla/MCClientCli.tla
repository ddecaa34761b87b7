----------------------------- MODULE MCClientCli -----------------------------
(***************************************************************************)
(* ClientCli for TLC: two runs of the command line beside each other on    *)
(* one storage directory, one wallet name, two passphrases, and the two    *)
(* address operations the address subcommand offers.                       *)
(***************************************************************************)
EXTENDS ClientCli

CONSTANTS c1, c2, w1, p, q, h

MCCallers == {c1, c2}
MCNames == {w1}
MCPassphrases == {p, q}
MCMessages == {h}
MCExternalKeys == {}
MCMultiSigRequests == {}

\* The clients the arms of execute build, and the placeholders a process
\* has before it builds.
MCClientKinds == {Capabilities(command) : command \in Commands} \cup {Builder!DefaultFlags}

MCSubcommands == {"new_transfer_address", "new_staking_address"}

MCSymmetry == Permutations(MCCallers)

=============================================================================
