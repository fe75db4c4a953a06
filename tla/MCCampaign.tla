------------------------------ MODULE MCCampaign ------------------------------
(* A small instance of CampaignContract: two addresses, each a merchant and   *)
(* possibly an admin, two campaign ids, u64 cut to 0..3, a timelock of 2.     *)
EXTENDS CampaignContract

CONSTANTS a1, a2, w0, w1, w2

MCAddress == {a1, a2}
MCWasmHash == {w0, w1, w2}

\* 2 of 2, 1 of 1, a repeated admin that never reaches 2, and two rejected
MCAdminsArgs ==
    {[admins |-> <<a1, a2>>, threshold |-> 2],
     [admins |-> <<a1>>, threshold |-> 1],
     [admins |-> <<a2, a2>>, threshold |-> 2],
     [admins |-> <<a1>>, threshold |-> 2],
     [admins |-> <<a1>>, threshold |-> 0]}

MCRewardArgs == {0, 1}
MCExpirationArgs == {0, 2}
MCVestingDaysArgs == {0}
=============================================================================
