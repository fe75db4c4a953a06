------------------------------- MODULE MCRewards -------------------------------
(* Two small instances of RewardsContract.  Timestamps are 0..MaxTime, a      *)
(* "day" is two of them.  MCRewards.cfg: two users, two campaigns, rewards    *)
(* and migration, and no token calls but theirs.  MCRewardsTokens.cfg: one    *)
(* campaign, every token call, and the minter may be rotated.                 *)
EXTENDS RewardsContract

CONSTANTS rewards, u1, u2

MCAddress == {rewards, u1, u2}
MCUsers == {u1, u2}
MCMerchants == {u2}
MCWasmHash == {InitialWasm}

Gov == [signers |-> <<u1>>, threshold |-> 1]
CampaignAdmins == [admins |-> <<rewards>>, threshold |-> 1]

Fresh == [campaigns |-> [id \in CampaignId |-> None], nextId |-> 1,
          claims |-> {}, admin |-> None,
          balance |-> [a \in MCAddress |-> 0], totalSupply |-> 0,
          multisig |-> Gov, adminConfig |-> CampaignAdmins]

LegacyCampaign(n, reward, days) ==
    [merchant |-> u2, reward_amount |-> reward, expiration |-> 2, created_at |-> 0,
     active |-> TRUE, total_claimed |-> n, vesting_period_days |-> days]

\* v1 in use: campaign 1 exists, `users` claimed it and hold its reward
Legacy(users, reward, days) ==
    [campaigns |-> [id \in CampaignId |->
         IF id = 1 THEN LegacyCampaign(Cardinality(users), reward, days) ELSE None],
     nextId |-> 2, claims |-> users \X {1}, admin |-> u2,
     balance |-> [a \in MCAddress |-> IF a \in users THEN reward ELSE 0],
     totalSupply |-> reward * Cardinality(users),
     multisig |-> Gov, adminConfig |-> CampaignAdmins]

MCDeployments == {Fresh, Legacy({u1}, 2, 1)}
MCTokenDeployments == {Legacy({u1}, 1, 1)}

MCRewardArgs == {0, 3}
MCExpirationArgs == {0, 2}
MCVestingDaysArgs == {0, 2}
Nothing == {}
MCAmountArgs == {0, 1}
MCAllowanceArgs == {1}
MCMultiSigArgs == {Gov}
MCOneReward == {1}
MCOneExpiration == {2}
=============================================================================
