------------------------------- MODULE MCToken -------------------------------
(* A small instance of TokenContract: two addresses, i128 cut to -3..2.      *)
EXTENDS TokenContract

CONSTANTS a1, a2

MCAddress == {a1, a2}

\* 2 of 2, 1 of 2, 1 of 1, a repeated signer that no quorum of 2 can be had
\* from, and two configurations the assertions reject
MCMultiSigArgs ==
    {[signers |-> <<a1, a2>>, threshold |-> 2],
     [signers |-> <<a2, a1>>, threshold |-> 1],
     [signers |-> <<a2>>, threshold |-> 1],
     [signers |-> <<a1, a1>>, threshold |-> 2],
     [signers |-> <<a1>>, threshold |-> 2],
     [signers |-> <<a1>>, threshold |-> 0]}

MCAmountArgs == {-1, 0, 1, 2}
MCAllowanceArgs == {-1, 0, 1}
=============================================================================
