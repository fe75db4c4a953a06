------------------------------- MODULE MCIndexer -------------------------------
(* Small instances of Indexer: two polls at once, histories of three or four  *)
(* events, batches of two, two attempts per event.                            *)
EXTENDS Indexer

CONSTANTS c1, c2, u1, p1, p2

MCCampaigns == {c1, c2}
MCUsers == {u1}
MCPolls == {p1, p2}

E(kind, id, ok) == [kind |-> kind, campaign |-> id, user |-> u1, decodable |-> ok]

\* A campaign is created, claimed, redeemed from and deactivated; a claim of a
\* campaign whose creation cannot be decoded; an upgrade between two claims
MCLogs ==
    { <<E("CAM_CRT", c1, TRUE), E("RWD_CLM", c1, TRUE), E("CAM_DEACT", c1, TRUE)>>,
      <<E("CAM_CRT", c1, TRUE), E("CAM_DEACT", c1, TRUE), E("RWD_RDM", c1, TRUE)>>,
      <<E("CAM_CRT", c2, FALSE), E("RWD_CLM", c2, TRUE), E("UNHANDLED", c2, TRUE)>> }

\* What the deployed contract publishes
MCContractLogs == { <<E("CAM_CRT", c1, FALSE), E("CAM_CRT", c2, FALSE), E("CAM_DEACT", c2, TRUE)>> }
=============================================================================
