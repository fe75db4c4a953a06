-------------------------- MODULE RewardsSystemProofs --------------------------
(***************************************************************************)
(* The inductive invariant of the system of the three contracts, and the   *)
(* theorems of RewardsContract that follow from it.                        *)
(***************************************************************************)
EXTENDS RewardsContractProofs

-----------------------------------------------------------------------------
(* Vesting *)

\* What a schedule has vested is at most its total and its linear share.
LEMMA VestedFacts ==
  ASSUME NEW v \in VestingState, NEW at \in Nat, v.start_time <= at
  PROVE  /\ VestedTotal(v, at) \in Nat
         /\ VestedTotal(v, at) <= v.total_amount
         /\ VestedTotal(v, at) * v.vesting_duration_secs
                <= v.total_amount * (at - v.start_time)
<1> DEFINE total == v.total_amount
           d == v.vesting_duration_secs
           e == at - v.start_time
<1>1. total \in Nat /\ d \in Nat \ {0} /\ v.start_time \in Nat /\ e \in Nat
  BY DEF VestingState
<1>2. Elapsed(v, at) = e
  BY <1>1 DEF Elapsed
<1>3. VestedTotal(v, at) = IF e >= d THEN total ELSE (total * e) \div d
  BY <1>2 DEF VestedTotal
<1> HIDE DEF total, d, e
<1>4. CASE e >= d
  <2>1. total * d <= total * e
    BY <1>1, <1>4, MulMonotone
  <2> QED
    BY <1>1, <1>3, <1>4, <2>1 DEF total, d, e
<1>5. CASE ~(e >= d)
  <2> DEFINE q == (total * e) \div d
  <2>1. total * e \in Nat /\ total * d \in Nat /\ total * e <= total * d
    BY <1>1, <1>5, MulMonotone
  <2>2. q \in Nat /\ d * q <= total * e
    BY <1>1, <2>1, DivFacts
  <2>3. q <= (total * d) \div d
    BY <1>1, <2>1, DivMonotone
  <2>4. (total * d) \div d = total
    <3>1. total * d = d * total
      BY <1>1
    <3> QED
      BY <1>1, <3>1, DivExact
  <2>5. VestedTotal(v, at) = q
    BY <1>3, <1>5
  <2> HIDE DEF q
  <2>6. q * d = d * q
    BY <1>1, <2>2
  <2> QED
    BY <2>2, <2>3, <2>4, <2>5, <2>6 DEF total, d, e
<1> QED
  BY <1>4, <1>5

\* The linear share only grows.
LEMMA ShareGrows ==
  ASSUME NEW total \in Nat, NEW start \in Nat, NEW t \in Nat, NEW s \in Nat,
         start <= t, t <= s
  PROVE  /\ total * (t - start) \in Nat /\ total * (s - start) \in Nat
         /\ total * (t - start) <= total * (s - start)
  BY MulMonotone

-----------------------------------------------------------------------------
(* The inductive invariant *)

RecordsTypeOK ==
    /\ claimed \in [Users -> [CampaignId -> ClaimRecord \cup {None}]]
    /\ claimedV1 \in SUBSET Pair
    /\ vesting \in [Users -> [CampaignId -> VestingState \cup {None}]]
    /\ admin \in Address \cup {None}
    /\ migrationV1Done \in BOOLEAN

\* A pair is recorded under one version of the schema
OneVersion(u, id) == claimed[u][id] # None => <<u, id>> \notin claimedV1

\* Whoever claimed, claimed a campaign that exists, and not in the future
ClaimSound(u, id) ==
    /\ Settled(u, id) => campaigns[id] # None
    /\ claimed[u][id] # None => claimed[u][id].claimed_at <= now

\* A grant is what the campaign, as it stands, is worth at the time of the claim
Priced(u, id) ==
    ClaimedUnderV2(u, id) =>
        claimed[u][id].amount = FinalAmount(campaigns[id], claimed[u][id].claimed_at)

\* VestingOnSchedule, of one pair
OnSchedule(u, id) ==
    vesting[u][id] # None =>
        LET v == vesting[u][id]
        IN /\ claimed[u][id] # None
           /\ v.total_amount = claimed[u][id].amount
           /\ v.start_time = claimed[u][id].claimed_at
           /\ v.claimed_amount <= v.total_amount
           /\ v.claimed_amount * v.vesting_duration_secs
                  <= v.total_amount * (now - v.start_time)

PairInv(u, id) ==
    OneVersion(u, id) /\ ClaimSound(u, id) /\ Priced(u, id) /\ OnSchedule(u, id)

RecordsInv ==
    /\ \A u \in Users, id \in CampaignId : PairInv(u, id)
    /\ CounterCoversClaims

SystemInv == Token!TypeOK /\ RegistryInv /\ RecordsTypeOK /\ RecordsInv

\* The worth of a campaign depends on its terms alone.
LEMMA WorthFollowsTerms ==
  ASSUME NEW c, NEW d, Campaign!Terms(c) = Campaign!Terms(d), NEW at
  PROVE  FinalAmount(c, at) = FinalAmount(d, at)
<1>1. /\ c.reward_amount = d.reward_amount /\ c.expiration = d.expiration
      /\ c.created_at = d.created_at
  BY DEF Campaign!Terms
<1> QED
  BY <1>1 DEF FinalAmount

-----------------------------------------------------------------------------
(* The claim counters *)

Claimers(id) == {u \in Users : Settled(u, id)}

LEMMA ClaimersFinite ==
  ASSUME NEW id
  PROVE  IsFiniteSet(Claimers(id)) /\ Cardinality(Claimers(id)) \in Nat
<1>1. IsFiniteSet(Users)
  BY RewardsAssumption DEF RewardsAssumption
<1> QED
  BY <1>1, FS_Subset, FS_CardinalityType DEF Claimers

\* A step that adds no claimer to a campaign keeps its counter ahead.
LEMMA CounterKeptAt ==
  ASSUME SystemInv, RegistryInv', NEW id \in CampaignId, RegistryGrows(id),
         Claimers(id)' = Claimers(id)
  PROVE  IF campaigns'[id] = None THEN Claimers(id)' = {}
         ELSE Cardinality(Claimers(id)') <= campaigns'[id].total_claimed
<1>1. MaxU64 \in Nat
  BY RewardsAssumption DEF RewardsAssumption
<1>2. Claimers(id)' = Claimers(id) /\ Cardinality(Claimers(id)) \in Nat
  BY ClaimersFinite
<1>3. IF campaigns[id] = None THEN Claimers(id) = {}
      ELSE Cardinality(Claimers(id)) <= campaigns[id].total_claimed
  BY DEF SystemInv, RecordsInv, CounterCoversClaims, Claimers
<1>4. /\ campaigns[id] # None => campaigns[id].total_claimed \in Nat
      /\ campaigns'[id] # None => campaigns'[id].total_claimed \in Nat
  BY <1>1 DEF SystemInv, RegistryInv, Campaign!TypeOK, Campaign!Campaign, CampaignId
<1>5. CASE campaigns[id] = None
  <2>1. Cardinality(Claimers(id)) = 0
    BY <1>3, <1>5, FS_EmptySet
  <2> QED
    BY <1>2, <1>3, <1>4, <1>5, <2>1
<1>6. CASE campaigns[id] # None
  BY <1>2, <1>3, <1>4, <1>6 DEF RegistryGrows
<1> QED
  BY <1>5, <1>6

\* A step that adds no claimer to any campaign
LEMMA CounterKept ==
  ASSUME SystemInv, RegistryInv', \A id \in CampaignId : RegistryGrows(id),
         \A id \in CampaignId : Claimers(id)' = Claimers(id)
  PROVE  CounterCoversClaims'
<1> SUFFICES ASSUME NEW id \in CampaignId
             PROVE  IF campaigns'[id] = None THEN Claimers(id)' = {}
                    ELSE Cardinality(Claimers(id)') <= campaigns'[id].total_claimed
  BY DEF CounterCoversClaims, Claimers
<1> QED
  BY CounterKeptAt

-----------------------------------------------------------------------------
(* One pair *)

\* The records of the pair stay as they are
PairKept(u, id) ==
    /\ claimed'[u][id] = claimed[u][id]
    /\ vesting'[u][id] = vesting[u][id]
    /\ <<u, id>> \in claimedV1' <=> <<u, id>> \in claimedV1

\* A pair whose records stay keeps its part of the invariant, while the
\* registry and the clock only grow.
LEMMA PairKeptInv ==
  ASSUME SystemInv, \A j \in CampaignId : RegistryGrows(j),
         now' \in Nat, now <= now',
         NEW u \in Users, NEW id \in CampaignId, PairKept(u, id)
  PROVE  PairInv(u, id)'
<1>1. /\ now \in Nat /\ PairInv(u, id) /\ RegistryGrows(id)
      /\ claimed[u][id] \in ClaimRecord \cup {None}
      /\ vesting[u][id] \in VestingState \cup {None}
  BY DEF SystemInv, RecordsInv, RecordsTypeOK, RegistryInv, Campaign!TypeOK
<1>2. OneVersion(u, id)'
  BY <1>1 DEF PairInv, OneVersion, PairKept
<1>3. ClaimSound(u, id)'
  <2>1. claimed[u][id] # None => claimed[u][id].claimed_at \in Nat
    BY <1>1 DEF ClaimRecord
  <2> QED
    BY <1>1, <2>1 DEF PairInv, ClaimSound, Settled, RegistryGrows, PairKept
<1>4. Priced(u, id)'
  <2> SUFFICES ASSUME ClaimedUnderV2(u, id)
               PROVE  claimed[u][id].amount
                          = FinalAmount(campaigns'[id], claimed[u][id].claimed_at)
    BY DEF PairKept, Priced, ClaimedUnderV2, FinalAmount, CalcMultiplier, Least
  <2>1. campaigns[id] # None
    BY <1>1 DEF ClaimedUnderV2, Settled, PairInv, ClaimSound
  <2>2. FinalAmount(campaigns'[id], claimed[u][id].claimed_at)
            = FinalAmount(campaigns[id], claimed[u][id].claimed_at)
    BY <1>1, <2>1, WorthFollowsTerms DEF RegistryGrows
  <2> QED
    BY <1>1, <2>2 DEF PairInv, Priced
<1>5. OnSchedule(u, id)'
  <2> SUFFICES ASSUME vesting[u][id] # None
               PROVE  LET v == vesting[u][id]
                      IN /\ claimed[u][id] # None
                         /\ v.total_amount = claimed[u][id].amount
                         /\ v.start_time = claimed[u][id].claimed_at
                         /\ v.claimed_amount <= v.total_amount
                         /\ v.claimed_amount * v.vesting_duration_secs
                                <= v.total_amount * (now' - v.start_time)
    BY DEF PairKept, OnSchedule
  <2> DEFINE v == vesting[u][id]
  <2>1. /\ claimed[u][id] # None /\ v.total_amount = claimed[u][id].amount
        /\ v.start_time = claimed[u][id].claimed_at
        /\ v.claimed_amount <= v.total_amount
        /\ v.claimed_amount * v.vesting_duration_secs <= v.total_amount * (now - v.start_time)
    BY <1>1 DEF PairInv, OnSchedule
  <2>2. v.start_time <= now
    BY <1>1, <2>1 DEF PairInv, ClaimSound
  <2>3. /\ v.total_amount \in Nat /\ v.claimed_amount \in Nat /\ v.start_time \in Nat
        /\ v.vesting_duration_secs \in Nat
    BY <1>1 DEF VestingState
  <2> HIDE DEF v
  <2>4. v.claimed_amount * v.vesting_duration_secs \in Nat
    BY <2>3
  <2>5. /\ v.total_amount * (now - v.start_time) \in Nat
        /\ v.total_amount * (now' - v.start_time) \in Nat
        /\ v.total_amount * (now - v.start_time) <= v.total_amount * (now' - v.start_time)
    BY <1>1, <2>2, <2>3, ShareGrows
  <2>6. v.claimed_amount * v.vesting_duration_secs <= v.total_amount * (now' - v.start_time)
    BY <2>1, <2>4, <2>5
  <2> QED
    BY <2>1, <2>6 DEF v
<1> QED
  BY <1>2, <1>3, <1>4, <1>5 DEF PairInv

-----------------------------------------------------------------------------
(* Steps that leave the records alone *)

\* A step that keeps the records, and under which the registry and the clock
\* only grow, keeps the invariant about them.
LEMMA RecordsKept ==
  ASSUME SystemInv, RegistryInv', \A id \in CampaignId : RegistryGrows(id),
         now' \in Nat, now <= now', UNCHANGED claimVars
  PROVE  RecordsInv'
<1>1. claimed' = claimed /\ claimedV1' = claimedV1 /\ vesting' = vesting
  BY DEF claimVars
<1>2. \A u \in Users, id \in CampaignId : PairKept(u, id)
  BY <1>1 DEF PairKept
<1>3. \A u \in Users, id \in CampaignId : PairInv(u, id)'
  BY <1>2, PairKeptInv
<1>4. \A id \in CampaignId : Claimers(id)' = Claimers(id)
  BY <1>1 DEF Claimers, Settled
<1>5. CounterCoversClaims'
  BY <1>4, CounterKept
<1> QED
  BY <1>3, <1>5 DEF RecordsInv

\* create_campaign, set_active, record_claim and the clock
LEMMA CampaignCallStep ==
  ASSUME SystemInv, CampaignCall
  PROVE  /\ RegistryInv' /\ \A id \in CampaignId : RegistryGrows(id)
         /\ now' \in Nat /\ now <= now'
<1>1. RegistryInv /\ now \in Nat
  BY DEF SystemInv, RegistryInv, Campaign!TypeOK
<1>2. ASSUME RegistryInv' /\ \A id \in CampaignId : RegistryGrows(id),
             now' = now
      PROVE  /\ RegistryInv' /\ \A id \in CampaignId : RegistryGrows(id)
             /\ now' \in Nat /\ now <= now'
  BY <1>1, <1>2
<1>3. ASSUME NEW m \in Merchants, NEW r \in RewardArgs, NEW e \in ExpirationArgs,
             NEW d \in VestingDaysArgs, Campaign!CreateCampaign(m, r, e, d)
      PROVE  /\ RegistryInv' /\ \A id \in CampaignId : RegistryGrows(id)
             /\ now' = now
  BY <1>1, <1>3, CreateStep
<1>4. ASSUME NEW m \in Merchants, NEW i \in CampaignId, NEW b \in BOOLEAN,
             Campaign!SetActive(m, i, b)
      PROVE  /\ RegistryInv' /\ \A id \in CampaignId : RegistryGrows(id)
             /\ now' = now
  BY <1>1, <1>4, SetActiveStep
<1>5. ASSUME NEW i \in CampaignId, Campaign!RecordClaim(i)
      PROVE  /\ RegistryInv' /\ \A id \in CampaignId : RegistryGrows(id)
             /\ now' = now
  BY <1>1, <1>5, RecordClaimStep
<1>6. ASSUME Campaign!Tick
      PROVE  /\ RegistryInv' /\ \A id \in CampaignId : RegistryGrows(id)
             /\ now' \in Nat /\ now <= now'
  <2>1. RegistryInv' /\ campaigns' = campaigns /\ now' = now + 1
    BY <1>1, <1>6, TickStep
  <2>2. MaxU64 \in Nat
    BY RewardsAssumption DEF RewardsAssumption
  <2>3. \A id \in CampaignId : campaigns[id] # None =>
            campaigns[id].total_claimed \in Nat
    BY <1>1, <2>2 DEF RegistryInv, Campaign!TypeOK, Campaign!Campaign, CampaignId
  <2>4. \A id \in CampaignId : RegistryGrows(id)
    BY <2>1, <2>3 DEF RegistryGrows
  <2> QED
    BY <1>1, <2>1, <2>4
<1> QED
  BY <1>2, <1>3, <1>4, <1>5, <1>6 DEF CampaignCall

\* A step that leaves the campaign contract alone
LEMMA RegistryKept ==
  ASSUME SystemInv, UNCHANGED campaignVars
  PROVE  /\ RegistryInv' /\ \A id \in CampaignId : RegistryGrows(id)
         /\ now' = now /\ now' \in Nat /\ now <= now'
<1>1. /\ UNCHANGED <<campaigns, nextId, adminConfig, upgradeProposal, wasm, now>>
      /\ RegistryInv /\ now \in Nat
  BY DEF campaignVars, SystemInv, RegistryInv, Campaign!TypeOK
<1>2. MaxU64 \in Nat
  BY RewardsAssumption DEF RewardsAssumption
<1>3. \A id \in CampaignId : campaigns[id] # None =>
          campaigns[id].total_claimed \in Nat
  BY <1>1, <1>2 DEF RegistryInv, Campaign!TypeOK, Campaign!Campaign, CampaignId
<1>4. \A id \in CampaignId : RegistryGrows(id)
  BY <1>1, <1>3 DEF RegistryGrows
<1>5. Campaign!TypeOK'
  BY <1>1 DEF RegistryInv, Campaign!TypeOK
<1>6. RegistryDense'
  BY <1>1 DEF RegistryInv, RegistryDense
<1> QED
  BY <1>1, <1>4, <1>5, <1>6 DEF RegistryInv

\* A step that leaves the token contract alone
LEMMA TokenKept ==
  ASSUME SystemInv, UNCHANGED tokenVars
  PROVE  Token!TypeOK'
  BY DEF tokenVars, SystemInv, Token!TypeOK

LEMMA RecordsTypeKept ==
  ASSUME SystemInv, UNCHANGED <<claimVars, migrationV1Done>>,
         admin' \in Address \cup {None}
  PROVE  RecordsTypeOK'
  BY DEF claimVars, SystemInv, RecordsTypeOK

LEMMA InitializeStep ==
  ASSUME SystemInv, NEW a \in Users, Initialize(a)
  PROVE  SystemInv'
<1>1. /\ UNCHANGED tokenVars /\ UNCHANGED campaignVars /\ UNCHANGED claimVars
      /\ UNCHANGED migrationV1Done /\ admin' = a /\ a \in Address
  BY RewardsAssumption DEF Initialize, RewardsAssumption
<1>2. RecordsTypeOK'
  BY <1>1, RecordsTypeKept
<1>3. /\ RegistryInv' /\ \A id \in CampaignId : RegistryGrows(id)
      /\ now' \in Nat /\ now <= now'
  BY <1>1, RegistryKept
<1> QED
  BY <1>1, <1>2, <1>3, TokenKept, RecordsKept DEF SystemInv

LEMMA RedeemStep ==
  ASSUME SystemInv, NEW u \in Users, NEW x \in AmountArgs, RedeemReward(u, x)
  PROVE  SystemInv'
<1>1. /\ UNCHANGED campaignVars /\ UNCHANGED claimVars
      /\ UNCHANGED <<admin, migrationV1Done>> /\ Token!Burn(u, x)
  BY DEF RedeemReward, rewardsVars
<1>2. u \in Address /\ x \in Int
  BY RewardsAssumption DEF RewardsAssumption
<1>3. Token!TypeOK'
  BY <1>1, <1>2, BurnType DEF SystemInv
<1>4. admin' \in Address \cup {None}
  BY <1>1 DEF SystemInv, RecordsTypeOK
<1>5. RecordsTypeOK'
  BY <1>1, <1>4, RecordsTypeKept
<1>6. /\ RegistryInv' /\ \A id \in CampaignId : RegistryGrows(id)
      /\ now' \in Nat /\ now <= now'
  BY <1>1, RegistryKept
<1> QED
  BY <1>1, <1>3, <1>5, <1>6, RecordsKept DEF SystemInv

LEMMA CallStep ==
  ASSUME SystemInv, CampaignCall \/ TokenCall
  PROVE  SystemInv'
<1>1. UNCHANGED claimVars /\ UNCHANGED <<admin, migrationV1Done>>
  BY DEF CampaignCall, TokenCall, rewardsVars
<1>2. admin' \in Address \cup {None}
  BY <1>1 DEF SystemInv, RecordsTypeOK
<1>3. RecordsTypeOK'
  BY <1>1, <1>2, RecordsTypeKept
<1>4. CASE CampaignCall
  <2>1. /\ RegistryInv' /\ \A id \in CampaignId : RegistryGrows(id)
        /\ now' \in Nat /\ now <= now'
    BY <1>4, CampaignCallStep
  <2>2. Token!TypeOK'
    BY <1>4, TokenKept DEF CampaignCall
  <2> QED
    BY <1>1, <1>3, <2>1, <2>2, RecordsKept DEF SystemInv
<1>5. CASE TokenCall
  <2>1. /\ RegistryInv' /\ \A id \in CampaignId : RegistryGrows(id)
        /\ now' \in Nat /\ now <= now'
    BY <1>5, RegistryKept DEF TokenCall
  <2>2. Token!TypeOK'
    BY <1>5, TokenCallType DEF SystemInv
  <2> QED
    BY <1>1, <1>3, <2>1, <2>2, RecordsKept DEF SystemInv
<1> QED
  BY <1>4, <1>5

-----------------------------------------------------------------------------
(* What each step does to the records of one pair *)

\* The pair, which had no record, is granted `amount`, paid at once or locked
PairClaims(u, id, amount) ==
    /\ amount \in Nat \ {0}
    /\ ~Settled(u, id) /\ vesting[u][id] = None
    /\ claimed'[u][id] = [amount |-> amount, claimed_at |-> now]
    /\ <<u, id>> \notin claimedV1'
    /\ \/ /\ vesting'[u][id] = None
          /\ Token!Mint(Rewards, u, amount)
       \/ /\ vesting'[u][id] \in VestingState
          /\ vesting'[u][id].total_amount = amount
          /\ vesting'[u][id].claimed_amount = 0
          /\ vesting'[u][id].start_time = now
          /\ UNCHANGED tokenVars

\* claim_reward writes the records of its pair, and prices the grant.
LEMMA ClaimEffect ==
  ASSUME SystemInv, NEW u \in Users, NEW id \in CampaignId, ClaimReward(u, id)
  PROVE  /\ campaigns[id] # None
         /\ PairClaims(u, id, FinalAmount(campaigns[id], now))
         /\ \A w \in Users, j \in CampaignId : <<w, j>> # <<u, id>> => PairKept(w, j)
         /\ Campaign!RecordClaim(id)
         /\ RecordsTypeOK' /\ Token!TypeOK'
         /\ claimedV1' = claimedV1
<1> DEFINE c == campaigns[id]
           amount == FinalAmount(c, now)
           rec == [amount |-> amount, claimed_at |-> now]
           v == [total_amount |-> amount, claimed_amount |-> 0, start_time |-> now,
                 vesting_duration_secs |-> c.vesting_period_days * SecondsPerDay]
<1>1. /\ ~HasClaimed(u, id) /\ c # None
      /\ claimed' = [claimed EXCEPT ![u][id] = rec]
      /\ Campaign!RecordClaim(id)
      /\ UNCHANGED <<claimedV1, admin, migrationV1Done>>
  BY DEF ClaimReward, Campaign!IsActive, Campaign!Exists
<1>2. \/ /\ c.vesting_period_days = 0
         /\ Token!Mint(Rewards, u, amount)
         /\ UNCHANGED vesting
      \/ /\ c.vesting_period_days # 0
         /\ vesting' = [vesting EXCEPT ![u][id] = v]
         /\ UNCHANGED tokenVars
  BY DEF ClaimReward
<1>3. c \in Campaign!Campaign /\ now \in Nat
  BY <1>1 DEF SystemInv, RegistryInv, Campaign!TypeOK, CampaignId
<1>4. amount \in Nat \ {0}
  <2>1. amount \in Nat /\ c.reward_amount <= amount
    BY <1>3, FinalAmountFacts
  <2>2. c.reward_amount \in Nat \ {0}
    BY <1>3 DEF Campaign!Campaign
  <2> HIDE DEF amount, c
  <2> QED
    BY <2>1, <2>2
<1>5. claimed[u][id] = None /\ <<u, id>> \notin claimedV1 /\ vesting[u][id] = None
  BY <1>1 DEF HasClaimed, SystemInv, RecordsInv, PairInv, OnSchedule
<1>6. c.vesting_period_days \in Nat
  BY <1>3 DEF Campaign!Campaign
<1>7. u \in Address /\ SecondsPerDay \in Nat \ {0}
  BY RewardsAssumption DEF RewardsAssumption
<1> HIDE DEF amount
<1>8. rec \in ClaimRecord /\ rec # None
  BY <1>3, <1>4, NoneIsNoRecord DEF ClaimRecord
<1>9. c.vesting_period_days # 0 => v \in VestingState
  <2> DEFINE days == c.vesting_period_days
  <2>1. days # 0 => days * SecondsPerDay \in Nat \ {0}
    <3> HIDE DEF days
    <3> QED
      BY <1>6, <1>7 DEF days
  <2> QED
    BY <1>3, <1>4, <2>1 DEF VestingState
<1> HIDE DEF c
<1>10. /\ claimed' \in [Users -> [CampaignId -> ClaimRecord \cup {None}]]
       /\ \A w \in Users, j \in CampaignId :
              claimed'[w][j] = IF <<w, j>> = <<u, id>> THEN rec ELSE claimed[w][j]
  <2> HIDE DEF rec
  <2> QED
    BY <1>1, <1>8 DEF SystemInv, RecordsTypeOK
<1>11. /\ vesting' \in [Users -> [CampaignId -> VestingState \cup {None}]]
       /\ \A w \in Users, j \in CampaignId :
              <<w, j>> # <<u, id>> => vesting'[w][j] = vesting[w][j]
       /\ c.vesting_period_days = 0 => vesting' = vesting
       /\ c.vesting_period_days # 0 => vesting'[u][id] = v
  <2> HIDE DEF v
  <2>1. CASE c.vesting_period_days = 0
    BY <1>2, <2>1 DEF SystemInv, RecordsTypeOK
  <2>2. CASE c.vesting_period_days # 0
    <3>1. vesting' = [vesting EXCEPT ![u][id] = v] /\ v \in VestingState
      BY <1>2, <1>9, <2>2
    <3>2. vesting \in [Users -> [CampaignId -> VestingState \cup {None}]]
      BY DEF SystemInv, RecordsTypeOK
    <3> QED
      BY <2>2, <3>1, <3>2
  <2> QED
    BY <2>1, <2>2
<1>12. RecordsTypeOK'
  BY <1>1, <1>10, <1>11 DEF SystemInv, RecordsTypeOK
<1>13. Token!TypeOK'
  <2>1. amount \in Int
    BY <1>4
  <2> QED
    BY <1>2, <1>7, <2>1, MintType, TokenKept DEF SystemInv
<1>14. \A w \in Users, j \in CampaignId : <<w, j>> # <<u, id>> => PairKept(w, j)
  BY <1>1, <1>10, <1>11 DEF PairKept
<1>15. PairClaims(u, id, amount)
  <2>1. ~Settled(u, id)
    BY <1>5 DEF Settled
  <2>2. claimed'[u][id] = rec /\ <<u, id>> \notin claimedV1'
    BY <1>1, <1>5, <1>10
  <2>3. CASE c.vesting_period_days = 0
    BY <1>2, <1>4, <1>5, <1>11, <2>1, <2>2, <2>3 DEF PairClaims
  <2>4. CASE c.vesting_period_days # 0
    BY <1>2, <1>4, <1>5, <1>9, <1>11, <2>1, <2>2, <2>4 DEF PairClaims
  <2> QED
    BY <2>3, <2>4
<1> QED
  BY <1>1, <1>12, <1>13, <1>14, <1>15 DEF amount, c

LEMMA ClaimStep ==
  ASSUME SystemInv, NEW u \in Users, NEW id \in CampaignId, ClaimReward(u, id)
  PROVE  SystemInv'
<1> DEFINE amount == FinalAmount(campaigns[id], now)
<1>1. /\ campaigns[id] # None /\ PairClaims(u, id, amount)
      /\ \A w \in Users, j \in CampaignId : <<w, j>> # <<u, id>> => PairKept(w, j)
      /\ Campaign!RecordClaim(id)
      /\ RecordsTypeOK' /\ Token!TypeOK' /\ claimedV1' = claimedV1
  BY ClaimEffect
<1>2. /\ RegistryInv' /\ \A j \in CampaignId : RegistryGrows(j)
      /\ now' = now /\ now \in Nat
      /\ campaigns'[id].total_claimed = campaigns[id].total_claimed + 1
  BY <1>1, RecordClaimStep DEF SystemInv, RegistryInv, Campaign!TypeOK
<1>3. PairInv(u, id)'
  <2>1. /\ amount \in Nat
        /\ claimed'[u][id] = [amount |-> amount, claimed_at |-> now]
        /\ <<u, id>> \notin claimedV1'
        /\ campaigns'[id] # None
        /\ Campaign!Terms(campaigns'[id]) = Campaign!Terms(campaigns[id])
    BY <1>1, <1>2 DEF PairClaims, RegistryGrows
  <2>2. claimed'[u][id].claimed_at = now /\ claimed'[u][id].amount = amount
    BY <2>1
  <2>3. OneVersion(u, id)' /\ ClaimSound(u, id)'
    BY <1>2, <2>1, <2>2 DEF OneVersion, ClaimSound
  <2>4. Priced(u, id)'
    <3>1. amount = FinalAmount(campaigns'[id], now)
      BY <2>1, WorthFollowsTerms
    <3> HIDE DEF amount
    <3>2. FinalAmount(campaigns'[id], claimed'[u][id].claimed_at) = amount
      BY <2>2, <3>1
    <3> QED
      BY <2>2, <3>2 DEF Priced, FinalAmount, CalcMultiplier, Least
  <2>5. OnSchedule(u, id)'
    <3> SUFFICES ASSUME vesting'[u][id] # None
                 PROVE  LET v == vesting'[u][id]
                        IN /\ claimed'[u][id] # None
                           /\ v.total_amount = claimed'[u][id].amount
                           /\ v.start_time = claimed'[u][id].claimed_at
                           /\ v.claimed_amount <= v.total_amount
                           /\ v.claimed_amount * v.vesting_duration_secs
                                  <= v.total_amount * (now' - v.start_time)
      BY DEF OnSchedule
    <3> DEFINE v == vesting'[u][id]
    <3>1. /\ v \in VestingState /\ v.total_amount = amount
          /\ v.claimed_amount = 0 /\ v.start_time = now
      BY <1>1 DEF PairClaims
    <3>2. [amount |-> amount, claimed_at |-> now] \in ClaimRecord
      BY <1>2, <2>1 DEF ClaimRecord
    <3>3. claimed'[u][id] # None
      BY <2>1, <3>2, NoneIsNoRecord
    <3>4. v.vesting_duration_secs \in Nat
      BY <3>1 DEF VestingState
    <3> HIDE DEF v, amount
    <3> QED
      BY <1>2, <2>1, <2>2, <3>1, <3>3, <3>4 DEF v
  <2> QED
    BY <2>3, <2>4, <2>5 DEF PairInv
<1>4. \A w \in Users, j \in CampaignId : PairInv(w, j)'
  <2> SUFFICES ASSUME NEW w \in Users, NEW j \in CampaignId, <<w, j>> # <<u, id>>
               PROVE  PairInv(w, j)'
    BY <1>3
  <2> QED
    BY <1>1, <1>2, PairKeptInv
<1>5. CounterCoversClaims'
  <2> SUFFICES ASSUME NEW j \in CampaignId
               PROVE  IF campaigns'[j] = None THEN Claimers(j)' = {}
                      ELSE Cardinality(Claimers(j)') <= campaigns'[j].total_claimed
    BY DEF CounterCoversClaims, Claimers
  <2>1. CASE j # id
    <3>1. \A w \in Users : Settled(w, j)' <=> Settled(w, j)
      BY <1>1, <2>1 DEF PairKept, Settled
    <3>2. Claimers(j)' = Claimers(j)
      BY <3>1 DEF Claimers
    <3>3. IF campaigns'[j] = None THEN Claimers(j)' = {}
          ELSE Cardinality(Claimers(j)') <= campaigns'[j].total_claimed
      BY <1>2, <3>2, CounterKeptAt
    <3> QED
      BY <3>3
  <2>2. CASE j = id
    <3>1. \A w \in Users : w # u => (Settled(w, id)' <=> Settled(w, id))
      BY <1>1 DEF PairKept, Settled
    <3>2. claimed'[u][id] # None
      <4>1. [amount |-> amount, claimed_at |-> now] \in ClaimRecord
        BY <1>1, <1>2 DEF ClaimRecord, PairClaims
      <4> QED
        BY <1>1, <4>1, NoneIsNoRecord DEF PairClaims
    <3>3. Claimers(id)' = Claimers(id) \cup {u}
      BY <3>1, <3>2 DEF Claimers, Settled
    <3>4. u \notin Claimers(id)
      BY <1>1 DEF Claimers, PairClaims
    <3>5. Cardinality(Claimers(id)') = Cardinality(Claimers(id)) + 1
      BY <3>3, <3>4, ClaimersFinite, FS_AddElement
    <3>6. Cardinality(Claimers(id)) <= campaigns[id].total_claimed
      BY <1>1 DEF SystemInv, RecordsInv, CounterCoversClaims, Claimers
    <3>7. campaigns[id].total_claimed \in Nat
      BY <1>1, RewardsAssumption
         DEF RewardsAssumption, SystemInv, RegistryInv, Campaign!TypeOK,
             Campaign!Campaign, CampaignId
    <3>8. campaigns'[id] # None
      BY <1>1, <1>2 DEF RegistryGrows
    <3> QED
      BY <1>2, <2>2, <3>5, <3>6, <3>7, <3>8, ClaimersFinite
  <2> QED
    BY <2>1, <2>2
<1> QED
  BY <1>1, <1>2, <1>4, <1>5 DEF SystemInv, RecordsInv

\* The pair is paid a further part of its grant
PairVests(u, id, paid) ==
    /\ paid \in Nat \ {0}
    /\ vesting[u][id] # None /\ vesting'[u][id] # None
    /\ vesting'[u][id].claimed_amount = vesting[u][id].claimed_amount + paid
    /\ vesting'[u][id].claimed_amount <= vesting[u][id].total_amount
    /\ claimed'[u][id] = claimed[u][id]
    /\ <<u, id>> \in claimedV1' <=> <<u, id>> \in claimedV1
    /\ Token!Mint(Rewards, u, paid)

\* claim_vested brings the schedule of its pair up to the clock.
LEMMA VestEffect ==
  ASSUME SystemInv, NEW u \in Users, NEW id \in CampaignId, ClaimVested(u, id)
  PROVE  /\ \E paid \in Nat \ {0} : PairVests(u, id, paid)
         /\ \A w \in Users, j \in CampaignId : <<w, j>> # <<u, id>> => PairKept(w, j)
         /\ UNCHANGED campaignVars
         /\ PairInv(u, id)'
         /\ RecordsTypeOK' /\ Token!TypeOK'
<1> DEFINE v == vesting[u][id]
           vested == VestedTotal(v, now)
           paid == vested - v.claimed_amount
           vs == [v EXCEPT !.claimed_amount = vested]
<1>1. /\ v # None /\ paid > 0
      /\ vesting' = [vesting EXCEPT ![u][id] = vs]
      /\ Token!Mint(Rewards, u, paid)
      /\ UNCHANGED campaignVars
      /\ UNCHANGED <<claimed, claimedV1, admin, migrationV1Done>>
  BY DEF ClaimVested
<1>2. v \in VestingState /\ now \in Nat /\ PairInv(u, id)
  BY <1>1 DEF SystemInv, RecordsTypeOK, RecordsInv, RegistryInv, Campaign!TypeOK
<1>3. v.start_time <= now
  BY <1>1, <1>2 DEF PairInv, ClaimSound, OnSchedule
<1>4. /\ vested \in Nat /\ vested <= v.total_amount
      /\ vested * v.vesting_duration_secs <= v.total_amount * (now - v.start_time)
  BY <1>2, <1>3, VestedFacts
<1>5. v.claimed_amount \in Nat
  BY <1>2 DEF VestingState
<1>6. u \in Address
  BY RewardsAssumption DEF RewardsAssumption
<1> HIDE DEF vested
<1>7. /\ paid \in Nat \ {0} /\ vested = v.claimed_amount + paid
  BY <1>1, <1>4, <1>5
<1> HIDE DEF paid
<1>8. /\ vs \in VestingState /\ vs.claimed_amount = vested
      /\ vs.total_amount = v.total_amount /\ vs.start_time = v.start_time
      /\ vs.vesting_duration_secs = v.vesting_duration_secs
  BY <1>2, <1>4 DEF VestingState
<1>9. vs # None
  BY <1>8, NoneIsNoRecord
<1> HIDE DEF vs
<1>10. /\ vesting' \in [Users -> [CampaignId -> VestingState \cup {None}]]
       /\ \A w \in Users, j \in CampaignId :
              vesting'[w][j] = IF <<w, j>> = <<u, id>> THEN vs ELSE vesting[w][j]
  BY <1>1, <1>8 DEF SystemInv, RecordsTypeOK
<1>11. RecordsTypeOK'
  BY <1>1, <1>10 DEF SystemInv, RecordsTypeOK
<1>12. Token!TypeOK'
  <2>1. paid \in Int
    BY <1>7
  <2> QED
    BY <1>1, <1>6, <2>1, MintType DEF SystemInv
<1>13. \A w \in Users, j \in CampaignId : <<w, j>> # <<u, id>> => PairKept(w, j)
  BY <1>1, <1>10 DEF PairKept
<1>14. vesting'[u][id] = vs
  BY <1>10
<1> HIDE DEF v
<1>15. PairVests(u, id, paid)
  BY <1>1, <1>4, <1>7, <1>8, <1>9, <1>14 DEF PairVests, v
<1>16. PairInv(u, id)'
  <2>1. now' = now /\ campaigns' = campaigns
    BY <1>1 DEF campaignVars
  <2>2. OneVersion(u, id)' /\ ClaimSound(u, id)'
    BY <1>1, <1>2, <2>1 DEF PairInv, OneVersion, ClaimSound, Settled
  <2>3. Priced(u, id)'
    BY <1>1, <1>2, <2>1
       DEF PairInv, Priced, ClaimedUnderV2, FinalAmount, CalcMultiplier, Least
  <2>4. /\ claimed[u][id] # None /\ v.total_amount = claimed[u][id].amount
        /\ v.start_time = claimed[u][id].claimed_at
    BY <1>1, <1>2 DEF PairInv, OnSchedule, v
  <2>5. OnSchedule(u, id)'
    BY <1>1, <1>4, <1>8, <1>14, <2>1, <2>4 DEF OnSchedule
  <2> QED
    BY <2>2, <2>3, <2>5 DEF PairInv
<1> QED
  BY <1>1, <1>7, <1>11, <1>12, <1>13, <1>15, <1>16

LEMMA VestStep ==
  ASSUME SystemInv, NEW u \in Users, NEW id \in CampaignId, ClaimVested(u, id)
  PROVE  SystemInv'
<1>1. /\ \E paid \in Nat \ {0} : PairVests(u, id, paid)
      /\ \A w \in Users, j \in CampaignId : <<w, j>> # <<u, id>> => PairKept(w, j)
      /\ UNCHANGED campaignVars /\ PairInv(u, id)'
      /\ RecordsTypeOK' /\ Token!TypeOK'
  BY VestEffect
<1>2. /\ RegistryInv' /\ \A j \in CampaignId : RegistryGrows(j)
      /\ now' \in Nat /\ now <= now'
  BY <1>1, RegistryKept
<1>3. \A w \in Users, j \in CampaignId : PairInv(w, j)'
  <2> SUFFICES ASSUME NEW w \in Users, NEW j \in CampaignId, <<w, j>> # <<u, id>>
               PROVE  PairInv(w, j)'
    BY <1>1
  <2> QED
    BY <1>1, <1>2, PairKeptInv
<1>4. \A w \in Users, j \in CampaignId : Settled(w, j)' <=> Settled(w, j)
  BY <1>1 DEF PairKept, PairVests, Settled
<1>5. \A j \in CampaignId : Claimers(j)' = Claimers(j)
  BY <1>4 DEF Claimers
<1> QED
  BY <1>1, <1>2, <1>3, <1>5, CounterKept DEF SystemInv, RecordsInv

\* The pair's v1 claim is recorded under v2, with the sentinel amount
PairMigrates(u, id) ==
    /\ <<u, id>> \in claimedV1 /\ claimed[u][id] = None /\ vesting[u][id] = None
    /\ <<u, id>> \notin claimedV1' /\ vesting'[u][id] = None
    /\ claimed'[u][id] = [amount |-> 0, claimed_at |-> now]

\* migrate_v1_to_v2 migrates some pairs and leaves the others.
LEMMA MigrateEffect ==
  ASSUME SystemInv, NEW a \in Users, NEW entries \in SUBSET Pair,
         MigrateV1ToV2(a, entries)
  PROVE  /\ \A u \in Users, id \in CampaignId : PairKept(u, id) \/ PairMigrates(u, id)
         /\ UNCHANGED campaignVars /\ UNCHANGED tokenVars
         /\ RecordsTypeOK'
<1> DEFINE moved == {p \in entries \cap claimedV1 : claimed[p[1]][p[2]] = None}
           rec == [amount |-> 0, claimed_at |-> now]
<1>1. /\ claimed' = [u \in Users |-> [id \in CampaignId |->
                         IF <<u, id>> \in moved THEN rec ELSE claimed[u][id]]]
      /\ claimedV1' = claimedV1 \ moved
      /\ migrationV1Done' = TRUE
      /\ UNCHANGED <<vesting, admin>> /\ UNCHANGED campaignVars /\ UNCHANGED tokenVars
  BY DEF MigrateV1ToV2
<1>2. now \in Nat
  BY DEF SystemInv, RegistryInv, Campaign!TypeOK
<1>3. rec \in ClaimRecord
  BY <1>2 DEF ClaimRecord
<1>4. \A u \in Users, id \in CampaignId :
          <<u, id>> \in moved => <<u, id>> \in claimedV1 /\ claimed[u][id] = None
  OBVIOUS
<1> HIDE DEF moved, rec
<1>5. RecordsTypeOK'
  BY <1>1, <1>3 DEF SystemInv, RecordsTypeOK
<1>6. ASSUME NEW u \in Users, NEW id \in CampaignId, <<u, id>> \in moved
      PROVE  PairMigrates(u, id)
  <2>1. <<u, id>> \in claimedV1 /\ claimed[u][id] = None
    BY <1>4, <1>6
  <2>2. vesting[u][id] = None
    BY <2>1 DEF SystemInv, RecordsInv, PairInv, OnSchedule
  <2>3. claimed'[u][id] = rec /\ <<u, id>> \notin claimedV1' /\ vesting'[u][id] = None
    BY <1>1, <1>6, <2>2
  <2> QED
    BY <2>1, <2>2, <2>3 DEF PairMigrates, rec
<1>7. ASSUME NEW u \in Users, NEW id \in CampaignId, <<u, id>> \notin moved
      PROVE  PairKept(u, id)
  BY <1>1, <1>7 DEF PairKept
<1> QED
  BY <1>1, <1>5, <1>6, <1>7

LEMMA MigrateStep ==
  ASSUME SystemInv, NEW a \in Users, NEW entries \in SUBSET Pair,
         MigrateV1ToV2(a, entries)
  PROVE  SystemInv'
<1>1. /\ \A u \in Users, id \in CampaignId : PairKept(u, id) \/ PairMigrates(u, id)
      /\ UNCHANGED campaignVars /\ UNCHANGED tokenVars /\ RecordsTypeOK'
  BY MigrateEffect
<1>2. /\ RegistryInv' /\ \A j \in CampaignId : RegistryGrows(j)
      /\ now' \in Nat /\ now <= now' /\ now' = now /\ campaigns' = campaigns
  BY <1>1, RegistryKept DEF campaignVars
<1>3. [amount |-> 0, claimed_at |-> now] # None
  <2>1. [amount |-> 0, claimed_at |-> now] \in ClaimRecord
    BY <1>2 DEF ClaimRecord
  <2> QED
    BY <2>1, NoneIsNoRecord
<1>4. ASSUME NEW u \in Users, NEW id \in CampaignId, PairMigrates(u, id)
      PROVE  PairInv(u, id)'
  <2>1. PairInv(u, id)
    BY DEF SystemInv, RecordsInv
  <2>2. campaigns[id] # None
    BY <1>4, <2>1 DEF PairMigrates, PairInv, ClaimSound, Settled
  <2>3. /\ claimed'[u][id].amount = 0 /\ claimed'[u][id].claimed_at = now
        /\ claimed'[u][id] # None
        /\ <<u, id>> \notin claimedV1' /\ vesting'[u][id] = None
    BY <1>3, <1>4 DEF PairMigrates
  <2>4. OneVersion(u, id)' /\ ClaimSound(u, id)'
    BY <1>2, <2>2, <2>3 DEF OneVersion, ClaimSound
  <2>5. Priced(u, id)' /\ OnSchedule(u, id)'
    BY <2>3 DEF Priced, ClaimedUnderV2, OnSchedule
  <2> QED
    BY <2>4, <2>5 DEF PairInv
<1>5. \A u \in Users, id \in CampaignId : PairInv(u, id)'
  BY <1>1, <1>2, <1>4, PairKeptInv
<1>6. \A u \in Users, id \in CampaignId : Settled(u, id)' <=> Settled(u, id)
  BY <1>1, <1>3 DEF PairKept, PairMigrates, Settled
<1>7. \A id \in CampaignId : Claimers(id)' = Claimers(id)
  BY <1>6 DEF Claimers
<1> QED
  BY <1>1, <1>2, <1>5, <1>7, CounterKept, TokenKept DEF SystemInv, RecordsInv

-----------------------------------------------------------------------------
(* The invariant *)

\* Every deployment satisfies the invariant.
LEMMA InitInv ==
  ASSUME Init
  PROVE  SystemInv
<1>1. PICK d \in Deployments :
        /\ balance = d.balance
        /\ allowance = [o \in Address |-> [s \in Address |-> 0]]
        /\ totalSupply = d.totalSupply /\ multisig = d.multisig
        /\ minter = Rewards /\ proposal = None
        /\ campaigns = d.campaigns /\ nextId = d.nextId
        /\ adminConfig = d.adminConfig /\ upgradeProposal = None
        /\ wasm = InitialWasm /\ now = 0
        /\ claimed = [u \in Users |-> [id \in CampaignId |-> None]]
        /\ claimedV1 = d.claims
        /\ vesting = [u \in Users |-> [id \in CampaignId |-> None]]
        /\ admin = d.admin /\ migrationV1Done = FALSE
  BY DEF Init
<1>2. d \in Deployment
  BY RewardsAssumption DEF RewardsAssumption
<1>3. /\ d.campaigns \in [CampaignId -> Campaign!Campaign \cup {None}]
      /\ d.nextId \in Nat \ {0} /\ d.claims \in SUBSET Pair
      /\ d.admin \in Address \cup {None}
      /\ d.balance \in [Address -> 0..MaxI128] /\ d.totalSupply \in 0..MaxI128
      /\ d.multisig \in Token!MultiSigConfig /\ d.adminConfig \in Campaign!AdminConfig
  BY <1>2 DEF Deployment
<1>4. \A id \in CampaignId :
          /\ d.campaigns[id] # None <=> id < d.nextId
          /\ d.campaigns[id] # None =>
                 /\ d.campaigns[id].created_at = 0
                 /\ 0 < d.campaigns[id].expiration
                 /\ Cardinality(Claimants(d.claims, id)) <= d.campaigns[id].total_claimed
          /\ d.campaigns[id] = None => Claimants(d.claims, id) = {}
  BY RewardsAssumption DEF RewardsAssumption
<1>5. Token!TypeOK
  <2>1. totalSupply \in Token!MinI128..MaxI128
    BY <1>1, <1>3, RewardsAssumption DEF RewardsAssumption, Token!MinI128
  <2>2. allowance \in [Address -> [Address -> Nat]]
    BY <1>1
  <2>3. Rewards \in Address
    BY RewardsAssumption DEF RewardsAssumption
  <2> QED
    BY <1>1, <1>3, <2>1, <2>2, <2>3 DEF Token!TypeOK
<1>6. Campaign!TypeOK
  <2>1. InitialWasm \in WasmHash
    BY RewardsAssumption DEF RewardsAssumption
  <2>2. \A id \in CampaignId : campaigns[id] # None =>
            /\ campaigns[id].created_at <= now
            /\ campaigns[id].created_at < campaigns[id].expiration
    BY <1>1, <1>4
  <2> QED
    BY <1>1, <1>3, <2>1, <2>2 DEF Campaign!TypeOK, CampaignId
<1>7. RegistryDense
  BY <1>1, <1>4 DEF RegistryDense
<1>8. RecordsTypeOK
  BY <1>1, <1>3 DEF RecordsTypeOK
<1>9. \A u \in Users, id \in CampaignId :
          claimed[u][id] = None /\ vesting[u][id] = None
  BY <1>1
<1>10. \A id \in CampaignId : Claimers(id) = Claimants(d.claims, id)
  BY <1>1, <1>9 DEF Claimers, Settled, Claimants
<1>11. ASSUME NEW u \in Users, NEW id \in CampaignId
       PROVE  PairInv(u, id)
  <2>1. Settled(u, id) => campaigns[id] # None
    BY <1>1, <1>4, <1>9 DEF Settled, Claimants
  <2> QED
    BY <1>9, <2>1 DEF PairInv, OneVersion, ClaimSound, Priced, OnSchedule, ClaimedUnderV2
<1>12. CounterCoversClaims
  BY <1>1, <1>4, <1>10 DEF CounterCoversClaims, Claimers
<1> QED
  BY <1>5, <1>6, <1>7, <1>8, <1>11, <1>12 DEF SystemInv, RegistryInv, RecordsInv

\* Every step keeps it.
LEMMA NextInv ==
  ASSUME SystemInv, [Next]_vars
  PROVE  SystemInv'
<1>1. CASE UNCHANGED vars
  <2>1. /\ UNCHANGED tokenVars /\ UNCHANGED campaignVars /\ UNCHANGED claimVars
        /\ UNCHANGED <<claimVars, migrationV1Done>> /\ admin' = admin
    BY <1>1 DEF vars, rewardsVars
  <2>2. admin' \in Address \cup {None}
    BY <2>1 DEF SystemInv, RecordsTypeOK
  <2>3. RecordsTypeOK'
    BY <2>1, <2>2, RecordsTypeKept
  <2>4. /\ RegistryInv' /\ \A id \in CampaignId : RegistryGrows(id)
        /\ now' \in Nat /\ now <= now'
    BY <2>1, RegistryKept
  <2> QED
    BY <2>1, <2>3, <2>4, TokenKept, RecordsKept DEF SystemInv
<1>2. CASE Next
  BY <1>2, InitializeStep, ClaimStep, VestStep, RedeemStep, MigrateStep, CallStep DEF Next
<1> QED
  BY <1>1, <1>2

THEOREM SystemCorrect == Spec => []SystemInv
<1>1. Init => SystemInv
  BY InitInv
<1>2. SystemInv /\ [Next]_vars => SystemInv'
  BY NextInv
<1> QED
  BY <1>1, <1>2, PTL DEF Spec

-----------------------------------------------------------------------------
(* Invariants *)

\* Type correctness of the system: no value leaves its type's range, in any
\* order of calls to the three contracts.
THEOREM TypeCorrect == Spec => []TypeOK
<1>1. SystemInv => TypeOK
  BY DEF SystemInv, RegistryInv, RecordsTypeOK, TypeOK
<1> QED
  BY <1>1, SystemCorrect, PTL

\* However often claim_vested is called, and whenever, no schedule is paid
\* ahead of the clock or beyond the grant.
THEOREM VestingSafe == Spec => []VestingOnSchedule
<1>1. SystemInv => VestingOnSchedule
  BY DEF SystemInv, RecordsInv, PairInv, OnSchedule, VestingOnSchedule
<1> QED
  BY <1>1, SystemCorrect, PTL

\* total_claimed is never behind the users who claimed.
THEOREM CounterSafe == Spec => []CounterCoversClaims
<1>1. SystemInv => CounterCoversClaims
  BY DEF SystemInv, RecordsInv
<1> QED
  BY <1>1, SystemCorrect, PTL

\* A grant is between one and two times the campaign's reward.
THEOREM GrantsBounded == Spec => []GrantWithinMultiplier
<1>1. ASSUME SystemInv PROVE GrantWithinMultiplier
  <2> SUFFICES ASSUME NEW u \in Users, NEW id \in CampaignId, ClaimedUnderV2(u, id)
               PROVE  /\ campaigns[id] # None
                      /\ campaigns[id].reward_amount <= claimed[u][id].amount
                      /\ claimed[u][id].amount <= 2 * campaigns[id].reward_amount
    BY DEF GrantWithinMultiplier
  <2>1. /\ PairInv(u, id) /\ claimed[u][id] \in ClaimRecord
        /\ campaigns[id] \in Campaign!Campaign \cup {None}
    BY <1>1 DEF SystemInv, RecordsInv, RecordsTypeOK, RegistryInv, Campaign!TypeOK,
                ClaimedUnderV2, CampaignId
  <2>2. /\ campaigns[id] # None
        /\ claimed[u][id].amount = FinalAmount(campaigns[id], claimed[u][id].claimed_at)
    BY <2>1 DEF PairInv, ClaimSound, Priced, Settled, ClaimedUnderV2
  <2>3. claimed[u][id].claimed_at \in Nat
    BY <2>1 DEF ClaimRecord
  <2> QED
    BY <2>1, <2>2, <2>3, FinalAmountFacts
<1> QED
  BY <1>1, SystemCorrect, PTL

\* Of two claims of one campaign, the earlier is worth no less.
THEOREM EarlyClaimsSafe == Spec => []EarlyClaimNeverWorse
<1>1. ASSUME SystemInv PROVE EarlyClaimNeverWorse
  <2> SUFFICES ASSUME NEW u \in Users, NEW w \in Users, NEW id \in CampaignId,
                      ClaimedUnderV2(u, id), ClaimedUnderV2(w, id),
                      claimed[u][id].claimed_at <= claimed[w][id].claimed_at
               PROVE  claimed[u][id].amount >= claimed[w][id].amount
    BY DEF EarlyClaimNeverWorse
  <2>1. /\ PairInv(u, id) /\ PairInv(w, id)
        /\ claimed[u][id] \in ClaimRecord /\ claimed[w][id] \in ClaimRecord
        /\ campaigns[id] \in Campaign!Campaign \cup {None}
    BY <1>1 DEF SystemInv, RecordsInv, RecordsTypeOK, RegistryInv, Campaign!TypeOK,
                ClaimedUnderV2, CampaignId
  <2>2. /\ campaigns[id] # None
        /\ claimed[u][id].amount = FinalAmount(campaigns[id], claimed[u][id].claimed_at)
        /\ claimed[w][id].amount = FinalAmount(campaigns[id], claimed[w][id].claimed_at)
    BY <2>1 DEF PairInv, ClaimSound, Priced, Settled, ClaimedUnderV2
  <2>3. claimed[u][id].claimed_at \in Nat /\ claimed[w][id].claimed_at \in Nat
    BY <2>1 DEF ClaimRecord
  <2>4. /\ FinalAmount(campaigns[id], claimed[w][id].claimed_at)
               <= FinalAmount(campaigns[id], claimed[u][id].claimed_at)
        /\ claimed[u][id].amount \in Nat /\ claimed[w][id].amount \in Nat
    BY <2>1, <2>2, <2>3, FinalAmountFacts DEF ClaimRecord
  <2> QED
    BY <2>2, <2>4
<1> QED
  BY <1>1, SystemCorrect, PTL

-----------------------------------------------------------------------------
(* Steps *)

\* While rewards is the minter, the step creates no tokens
NoMint == minter = Rewards => totalSupply' <= totalSupply

OthersKept(u, id) ==
    \A w \in Users, j \in CampaignId : <<w, j>> # <<u, id>> => PairKept(w, j)

\* What a step of the system is to the claim records
StepEffect ==
    \/ NoMint /\ \A u \in Users, id \in CampaignId : PairKept(u, id)
    \/ \E u \in Users, id \in CampaignId :
           (\E amount \in Nat \ {0} : PairClaims(u, id, amount)) /\ OthersKept(u, id)
    \/ \E u \in Users, id \in CampaignId :
           (\E paid \in Nat \ {0} : PairVests(u, id, paid)) /\ OthersKept(u, id)
    \/ /\ NoMint
       /\ \A u \in Users, id \in CampaignId : PairKept(u, id) \/ PairMigrates(u, id)

LEMMA SupplyKept ==
  ASSUME SystemInv, UNCHANGED tokenVars
  PROVE  NoMint
  BY DEF NoMint, tokenVars, SystemInv, Token!TypeOK, Token!MinI128

\* No account mints while the rewards contract is the minter.
LEMMA CallsMintNothing ==
  ASSUME SystemInv, TokenCall
  PROVE  NoMint
<1>1. /\ Users \subseteq Address \ {Rewards} /\ AmountArgs \subseteq Int
      /\ MaxI128 \in Nat
  BY RewardsAssumption DEF RewardsAssumption
<1>2. totalSupply \in Int
  BY <1>1 DEF SystemInv, Token!TypeOK, Token!MinI128
<1>3. ASSUME NEW c \in Users, NEW to, NEW x, Token!Mint(c, to, x)
      PROVE  NoMint
  BY <1>1, <1>3 DEF Token!Mint, NoMint
<1>4. ASSUME NEW from, NEW x \in AmountArgs, Token!Burn(from, x)
      PROVE  NoMint
  BY <1>1, <1>2, <1>4 DEF Token!Burn, NoMint
<1>5. ASSUME UNCHANGED totalSupply
      PROVE  NoMint
  BY <1>2, <1>5 DEF NoMint
<1> QED
  BY <1>3, <1>4, <1>5
     DEF TokenCall, Token!Transfer, Token!Approve, Token!TransferFrom,
         Token!ProposeSetAdmin, Token!ApproveSetAdmin, Token!ExecuteSetAdmin,
         Token!funds

LEMMA NextEffect ==
  ASSUME SystemInv, [Next]_vars
  PROVE  StepEffect
<1>1. ASSUME UNCHANGED claimVars
      PROVE  \A u \in Users, id \in CampaignId : PairKept(u, id)
  BY <1>1 DEF claimVars, PairKept
<1>2. CASE UNCHANGED vars
  BY <1>1, <1>2, SupplyKept DEF vars, rewardsVars, StepEffect
<1>3. ASSUME NEW a \in Users, Initialize(a)
      PROVE  StepEffect
  BY <1>1, <1>3, SupplyKept DEF Initialize, StepEffect
<1>4. ASSUME NEW u \in Users, NEW id \in CampaignId, ClaimReward(u, id)
      PROVE  StepEffect
  <2>1. /\ PairClaims(u, id, FinalAmount(campaigns[id], now)) /\ OthersKept(u, id)
    BY <1>4, ClaimEffect DEF OthersKept
  <2>2. FinalAmount(campaigns[id], now) \in Nat \ {0}
    BY <2>1 DEF PairClaims
  <2> QED
    BY <2>1, <2>2 DEF StepEffect
<1>5. ASSUME NEW u \in Users, NEW id \in CampaignId, ClaimVested(u, id)
      PROVE  StepEffect
  BY <1>5, VestEffect DEF OthersKept, StepEffect
<1>6. ASSUME NEW u \in Users, NEW x \in AmountArgs, RedeemReward(u, x)
      PROVE  StepEffect
  <2>1. UNCHANGED claimVars /\ Token!Burn(u, x)
    BY <1>6 DEF RedeemReward, rewardsVars
  <2>2. totalSupply \in Int /\ x \in Int
    BY RewardsAssumption DEF RewardsAssumption, SystemInv, Token!TypeOK, Token!MinI128
  <2>3. NoMint
    BY <2>1, <2>2 DEF Token!Burn, NoMint
  <2> QED
    BY <1>1, <2>1, <2>3 DEF StepEffect
<1>7. ASSUME NEW a \in Users, NEW entries \in SUBSET Pair, MigrateV1ToV2(a, entries)
      PROVE  StepEffect
  BY <1>7, MigrateEffect, SupplyKept DEF StepEffect
<1>8. CASE CampaignCall
  BY <1>1, <1>8, SupplyKept DEF CampaignCall, rewardsVars, StepEffect
<1>9. CASE TokenCall
  BY <1>1, <1>9, CallsMintNothing DEF TokenCall, rewardsVars, StepEffect
<1> QED
  BY <1>2, <1>3, <1>4, <1>5, <1>6, <1>7, <1>8, <1>9 DEF Next

\* What a step is to one pair
PairStep(u, id) ==
    \/ PairKept(u, id)
    \/ PairMigrates(u, id)
    \/ \E amount \in Nat \ {0} : PairClaims(u, id, amount)
    \/ \E paid \in Nat \ {0} : PairVests(u, id, paid)

LEMMA EveryPairSteps ==
  ASSUME StepEffect, NEW u \in Users, NEW id \in CampaignId
  PROVE  PairStep(u, id)
<1>1. CASE NoMint /\ \A w \in Users, j \in CampaignId : PairKept(w, j)
  BY <1>1 DEF PairStep
<1>2. ASSUME NEW w \in Users, NEW j \in CampaignId,
             (\E amount \in Nat \ {0} : PairClaims(w, j, amount)),
             OthersKept(w, j)
      PROVE  PairStep(u, id)
  BY <1>2 DEF PairStep, OthersKept
<1>3. ASSUME NEW w \in Users, NEW j \in CampaignId,
             (\E paid \in Nat \ {0} : PairVests(w, j, paid)),
             OthersKept(w, j)
      PROVE  PairStep(u, id)
  BY <1>3 DEF PairStep, OthersKept
<1>4. CASE /\ NoMint
           /\ \A w \in Users, j \in CampaignId : PairKept(w, j) \/ PairMigrates(w, j)
  BY <1>4 DEF PairStep
<1> QED
  BY <1>1, <1>2, <1>3, <1>4 DEF StepEffect

\* The records that are written are present.
LEMMA WrittenIsPresent ==
  ASSUME SystemInv, NEW u \in Users, NEW id \in CampaignId
  PROVE  /\ PairMigrates(u, id) => claimed'[u][id] # None
         /\ \A amount \in Nat \ {0} :
                PairClaims(u, id, amount) => claimed'[u][id] # None
<1>1. now \in Nat
  BY DEF SystemInv, RegistryInv, Campaign!TypeOK
<1>2. ASSUME NEW amount \in Nat
      PROVE  [amount |-> amount, claimed_at |-> now] # None
  <2>1. [amount |-> amount, claimed_at |-> now] \in ClaimRecord
    BY <1>1, <1>2 DEF ClaimRecord
  <2> QED
    BY <2>1, NoneIsNoRecord
<1>3. PairMigrates(u, id) => claimed'[u][id] # None
  BY <1>2 DEF PairMigrates
<1>4. ASSUME NEW amount \in Nat \ {0}, PairClaims(u, id, amount)
      PROVE  claimed'[u][id] # None
  <2>1. amount \in Nat
    BY <1>4
  <2> QED
    BY <1>2, <1>4, <2>1 DEF PairClaims
<1> QED
  BY <1>3, <1>4

\* A pair that has claimed stays claimed, with the same grant: across claims
\* by others, vesting, and migration in any order.
LEMMA ForeverStep ==
  ASSUME SystemInv, StepEffect, NEW u \in Users, NEW id \in CampaignId,
         Settled(u, id)
  PROVE  Settled(u, id)' /\ Granted(u, id)' = Granted(u, id)
<1>1. CASE PairKept(u, id)
  BY <1>1 DEF PairKept, Settled, Granted
<1>2. CASE PairMigrates(u, id)
  BY <1>2, WrittenIsPresent DEF PairMigrates, Settled, Granted
<1>3. ASSUME NEW amount \in Nat \ {0}, PairClaims(u, id, amount)
      PROVE  Settled(u, id)' /\ Granted(u, id)' = Granted(u, id)
  BY <1>3 DEF PairClaims
<1>4. ASSUME NEW paid \in Nat \ {0}, PairVests(u, id, paid)
      PROVE  Settled(u, id)' /\ Granted(u, id)' = Granted(u, id)
  BY <1>4 DEF PairVests, Settled, Granted
<1> QED
  BY <1>1, <1>2, <1>3, <1>4, EveryPairSteps DEF PairStep

\* Nobody is rewarded twice for one campaign.
THEOREM ClaimsPermanent == Spec => ClaimIsForever
<1>1. SystemInv /\ [Next]_vars =>
          [\A u \in Users, id \in CampaignId :
              Settled(u, id) => /\ Settled(u, id)'
                                /\ Granted(u, id)' = Granted(u, id)]_vars
  BY NextEffect, ForeverStep
<1> QED
  BY <1>1, SystemCorrect, PTL DEF Spec, ClaimIsForever

\* Every step of the system only lets the registry grow.
LEMMA NextGrows ==
  ASSUME SystemInv, [Next]_vars, NEW id \in CampaignId
  PROVE  RegistryGrows(id)
<1>1. ASSUME NEW u \in Users, NEW i \in CampaignId, ClaimReward(u, i)
      PROVE  RegistryGrows(id)
  BY <1>1, ClaimEffect, RecordClaimStep DEF SystemInv
<1>2. CASE CampaignCall
  BY <1>2, CampaignCallStep
<1>3. CASE UNCHANGED campaignVars
  BY <1>3, RegistryKept
<1> QED
  BY <1>1, <1>2, <1>3
     DEF Next, Initialize, ClaimVested, RedeemReward, MigrateV1ToV2, TokenCall, vars

\* Under every interleaving of claims, toggles and creations, a campaign's
\* terms stay what they were when users relied on them.
THEOREM TermsAreKept == Spec => TermsKept
<1>1. SystemInv /\ [Next]_vars =>
          [\A id \in CampaignId : Campaign!KeepsItsTerms(id)]_(Campaign!vars)
  BY NextGrows DEF RegistryGrows, Campaign!KeepsItsTerms, Campaign!Exists, CampaignId
<1> QED
  BY <1>1, SystemCorrect, PTL
     DEF Spec, TermsKept, Campaign!CampaignTermsImmutable, CampaignId

-----------------------------------------------------------------------------
(* Payments *)

\* The step mints to u exactly what the records now say was released
PairPaid(u, id) ==
    LET paid == Released(u, id)' - Released(u, id)
    IN /\ paid > 0
       /\ totalSupply' = totalSupply + paid
       /\ balance'[u] = balance[u] + paid

\* Minting to u raises u's balance and the supply by the amount.
LEMMA MintPays ==
  ASSUME SystemInv, NEW u \in Users, NEW amount \in Nat \ {0},
         Token!Mint(Rewards, u, amount)
  PROVE  totalSupply' = totalSupply + amount /\ balance'[u] = balance[u] + amount
<1>1. u \in Address
  BY RewardsAssumption DEF RewardsAssumption
<1> QED
  BY <1>1 DEF Token!Mint, SystemInv, Token!TypeOK

\* A pair whose step is no payment keeps what was released.
LEMMA KeptReleases ==
  ASSUME SystemInv, NEW u \in Users, NEW id \in CampaignId,
         PairKept(u, id) \/ PairMigrates(u, id)
  PROVE  Released(u, id)' = Released(u, id)
<1>1. CASE PairKept(u, id)
  BY <1>1 DEF PairKept, Released, Granted
<1>2. CASE PairMigrates(u, id)
  BY <1>2, WrittenIsPresent DEF PairMigrates, Released, Granted
<1> QED
  BY <1>1, <1>2

\* A claim pays the grant at once, or locks it and pays nothing.
LEMMA ClaimReleases ==
  ASSUME SystemInv, NEW u \in Users, NEW id \in CampaignId,
         NEW amount \in Nat \ {0}, PairClaims(u, id, amount)
  PROVE  \/ Released(u, id)' = Released(u, id) /\ NoMint
         \/ /\ PairPaid(u, id)
            /\ Released(u, id)' = amount
<1>1. claimed[u][id] = None /\ vesting[u][id] = None /\ Released(u, id) = 0
  BY DEF PairClaims, Settled, Released, Granted
<1>2. claimed'[u][id] # None /\ claimed'[u][id].amount = amount
  BY WrittenIsPresent DEF PairClaims
<1>3. CASE vesting'[u][id] = None /\ Token!Mint(Rewards, u, amount)
  <2>1. Released(u, id)' = amount
    BY <1>2, <1>3 DEF Released, Granted
  <2>2. totalSupply' = totalSupply + amount /\ balance'[u] = balance[u] + amount
    BY <1>3, MintPays
  <2> QED
    BY <1>1, <2>1, <2>2 DEF PairPaid
<1>4. CASE /\ vesting'[u][id] \in VestingState
           /\ vesting'[u][id].claimed_amount = 0 /\ UNCHANGED tokenVars
  <2>1. vesting'[u][id] # None
    BY <1>4, NoneIsNoRecord
  <2>2. Released(u, id)' = 0
    BY <1>4, <2>1 DEF Released
  <2> QED
    BY <1>1, <1>4, <2>2, SupplyKept
<1> QED
  BY <1>3, <1>4 DEF PairClaims

\* claim_vested pays what it adds to the schedule.
LEMMA VestReleases ==
  ASSUME SystemInv, NEW u \in Users, NEW id \in CampaignId,
         NEW paid \in Nat \ {0}, PairVests(u, id, paid)
  PROVE  PairPaid(u, id) /\ Released(u, id)' = Released(u, id) + paid
<1>1. /\ Released(u, id) = vesting[u][id].claimed_amount
      /\ Released(u, id)' = vesting[u][id].claimed_amount + paid
  BY DEF PairVests, Released
<1>2. vesting[u][id].claimed_amount \in Nat
  BY DEF PairVests, SystemInv, RecordsTypeOK, VestingState
<1>3. totalSupply' = totalSupply + paid /\ balance'[u] = balance[u] + paid
  BY MintPays DEF PairVests
<1> QED
  BY <1>1, <1>2, <1>3 DEF PairPaid

LEMMA PaymentStep ==
  ASSUME SystemInv, StepEffect
  PROVE  /\ \A u \in Users, id \in CampaignId :
                Released(u, id)' # Released(u, id) => PairPaid(u, id)
         /\ NoMint \/ \E u \in Users, id \in CampaignId : PairPaid(u, id)
<1>1. \A u \in Users, id \in CampaignId :
          Released(u, id)' # Released(u, id) => PairPaid(u, id)
  <2> SUFFICES ASSUME NEW u \in Users, NEW id \in CampaignId
               PROVE  Released(u, id)' # Released(u, id) => PairPaid(u, id)
    OBVIOUS
  <2> QED
    BY EveryPairSteps, KeptReleases, ClaimReleases, VestReleases DEF PairStep
<1>2. NoMint \/ \E u \in Users, id \in CampaignId : PairPaid(u, id)
  BY ClaimReleases, VestReleases DEF StepEffect
<1> QED
  BY <1>1, <1>2

\* What the records say was paid is what was minted, and nothing else is
\* while the rewards contract is the minter.
THEOREM TokensMatchRecords == Spec => TokensFollowRecords
<1> DEFINE Pays(p) == LET paid == Released(p[1], p[2])' - Released(p[1], p[2])
                      IN /\ paid > 0
                         /\ totalSupply' = totalSupply + paid
                         /\ balance'[p[1]] = balance[p[1]] + paid
<1>1. ASSUME SystemInv, [Next]_vars
      PROVE  /\ \A p \in Pair :
                    Released(p[1], p[2])' # Released(p[1], p[2]) => Pays(p)
             /\ (minter = Rewards /\ totalSupply' > totalSupply)
                    => \E p \in Pair : Pays(p)
  <2>1. /\ \A u \in Users, id \in CampaignId :
               Released(u, id)' # Released(u, id) => PairPaid(u, id)
        /\ NoMint \/ \E u \in Users, id \in CampaignId : PairPaid(u, id)
    BY <1>1, NextEffect, PaymentStep
  <2>2. \A p \in Pair : /\ p[1] \in Users /\ p[2] \in CampaignId
                        /\ Pays(p) <=> PairPaid(p[1], p[2])
    BY DEF Pair, PairPaid
  <2>3. \A u \in Users, id \in CampaignId :
            /\ <<u, id>> \in Pair /\ <<u, id>>[1] = u /\ <<u, id>>[2] = id
    BY DEF Pair
  <2> HIDE DEF Pays
  <2>4. \A p \in Pair : Released(p[1], p[2])' # Released(p[1], p[2]) => Pays(p)
    BY <2>1, <2>2
  <2>5. (\E u \in Users, id \in CampaignId : PairPaid(u, id)) => \E p \in Pair : Pays(p)
    BY <2>2, <2>3
  <2>6. NoMint => ~(minter = Rewards /\ totalSupply' > totalSupply)
    <3>1. totalSupply \in Int /\ totalSupply' \in Int
      BY <1>1, NextInv, RewardsAssumption
         DEF SystemInv, Token!TypeOK, Token!MinI128, RewardsAssumption
    <3> QED
      BY <3>1 DEF NoMint
  <2> QED
    BY <2>1, <2>4, <2>5, <2>6
<1> QED
  BY <1>1, SystemCorrect, PTL DEF Spec, TokensFollowRecords

-----------------------------------------------------------------------------
(* The abstract ledger *)

\* The entry of the ledger for one pair
Entry(u, id) == IF Settled(u, id) THEN Granted(u, id) ELSE None

granted == [p \in Pair |-> Entry(p[1], p[2])]
released == [p \in Pair |-> Released(p[1], p[2])]

LEMMA PairOf ==
  ASSUME NEW u \in Users, NEW id \in CampaignId
  PROVE  /\ <<u, id>> \in Pair /\ <<u, id>>[1] = u /\ <<u, id>>[2] = id
         /\ granted[<<u, id>>] = Entry(u, id) /\ granted'[<<u, id>>] = Entry(u, id)'
         /\ released[<<u, id>>] = Released(u, id)
         /\ released'[<<u, id>>] = Released(u, id)'
  BY DEF Pair, granted, released

\* A pair whose step is neither a claim nor a payment keeps its entry.
LEMMA KeptEntry ==
  ASSUME SystemInv, NEW u \in Users, NEW id \in CampaignId,
         PairKept(u, id) \/ PairMigrates(u, id)
  PROVE  Entry(u, id)' = Entry(u, id) /\ Released(u, id)' = Released(u, id)
<1>1. CASE PairKept(u, id)
  BY <1>1, KeptReleases DEF PairKept, Entry, Settled, Granted
<1>2. CASE PairMigrates(u, id)
  BY <1>2, WrittenIsPresent, KeptReleases DEF PairMigrates, Entry, Settled, Granted
<1> QED
  BY <1>1, <1>2

\* A function that changes at one point is an update of it.
LEMMA UpdateAtPoint ==
  ASSUME NEW S, NEW f, NEW g, f = [p \in S |-> f[p]], g = [p \in S |-> g[p]],
         NEW q \in S, \A p \in S : p # q => g[p] = f[p]
  PROVE  g = [f EXCEPT ![q] = g[q]]
  OBVIOUS

\* A step that leaves all pairs but one alone updates one entry.
LEMMA OneEntryChanges ==
  ASSUME SystemInv, NEW u \in Users, NEW id \in CampaignId, OthersKept(u, id)
  PROVE  /\ granted' = [granted EXCEPT ![<<u, id>>] = granted'[<<u, id>>]]
         /\ released' = [released EXCEPT ![<<u, id>>] = released'[<<u, id>>]]
<1>1. ASSUME NEW p \in Pair, p # <<u, id>>
      PROVE  granted'[p] = granted[p] /\ released'[p] = released[p]
  <2>1. p[1] \in Users /\ p[2] \in CampaignId /\ p = <<p[1], p[2]>>
    BY DEF Pair
  <2>2. PairKept(p[1], p[2])
    BY <1>1, <2>1 DEF OthersKept
  <2>3. /\ Entry(p[1], p[2])' = Entry(p[1], p[2])
        /\ Released(p[1], p[2])' = Released(p[1], p[2])
    BY <2>1, <2>2, KeptEntry
  <2> QED
    BY <1>1, <2>3 DEF granted, released, Entry
<1>2. /\ granted = [p \in Pair |-> granted[p]] /\ granted' = [p \in Pair |-> granted'[p]]
      /\ released = [p \in Pair |-> released[p]] /\ released' = [p \in Pair |-> released'[p]]
  BY DEF granted, released
<1>3. <<u, id>> \in Pair
  BY DEF Pair
<1> QED
  BY <1>1, <1>2, <1>3, UpdateAtPoint

\* The actions of the ledger, in the terms of this module
LEMMA LedgerGrant ==
  ASSUME NEW p \in Pair,
         granted[p] = None, granted'[p] \in Nat \ {0},
         granted' = [granted EXCEPT ![p] = granted'[p]],
         \/ released' = [released EXCEPT ![p] = granted'[p]]
         \/ released' = released
  PROVE  Ledger!Grant(p)
  BY DEF Ledger!Grant, granted, released, Entry

LEMMA LedgerRelease ==
  ASSUME NEW p \in Pair,
         granted[p] # None, released'[p] \in Nat, released[p] < released'[p],
         released'[p] <= granted[p],
         released' = [released EXCEPT ![p] = released'[p]], granted' = granted
  PROVE  Ledger!Release(p)
  BY DEF Ledger!Release, granted, released, Entry

\* A claim is a grant of the ledger.
LEMMA ClaimIsGrant ==
  ASSUME SystemInv, NEW u \in Users, NEW id \in CampaignId, OthersKept(u, id),
         NEW amount \in Nat \ {0}, PairClaims(u, id, amount)
  PROVE  Ledger!Grant(<<u, id>>)
<1>1. Entry(u, id) = None
  BY DEF PairClaims, Entry
<1>2. Entry(u, id)' = amount
  BY WrittenIsPresent DEF PairClaims, Entry, Settled, Granted
<1>3. Released(u, id)' = amount \/ Released(u, id)' = Released(u, id)
  BY ClaimReleases
<1>4. /\ granted[<<u, id>>] = None /\ granted'[<<u, id>>] = amount
      /\ \/ released'[<<u, id>>] = amount
         \/ released'[<<u, id>>] = released[<<u, id>>]
  BY <1>1, <1>2, <1>3, PairOf
<1>5. /\ granted' = [granted EXCEPT ![<<u, id>>] = granted'[<<u, id>>]]
      /\ released' = [released EXCEPT ![<<u, id>>] = released'[<<u, id>>]]
  BY OneEntryChanges
<1>6. <<u, id>> \in Pair /\ released = [p \in Pair |-> released[p]]
  BY DEF Pair, released
<1> HIDE DEF granted, released
<1>7. CASE released'[<<u, id>>] = amount
  BY <1>4, <1>5, <1>6, <1>7, LedgerGrant
<1>8. CASE released'[<<u, id>>] = released[<<u, id>>]
  <2>1. released' = released
    BY <1>5, <1>6, <1>8
  <2> QED
    BY <1>4, <1>5, <1>6, <2>1, LedgerGrant
<1> QED
  BY <1>4, <1>7, <1>8

\* A payment out of a schedule is a release of the ledger.
LEMMA VestIsRelease ==
  ASSUME SystemInv, NEW u \in Users, NEW id \in CampaignId, OthersKept(u, id),
         NEW paid \in Nat \ {0}, PairVests(u, id, paid)
  PROVE  Ledger!Release(<<u, id>>)
<1>1. /\ claimed[u][id] # None /\ claimed[u][id].amount = vesting[u][id].total_amount
      /\ vesting[u][id].claimed_amount \in Nat /\ vesting[u][id].total_amount \in Nat
  BY DEF PairVests, SystemInv, RecordsInv, PairInv, OnSchedule, RecordsTypeOK,
         VestingState
<1>2. /\ Entry(u, id) = vesting[u][id].total_amount
      /\ Entry(u, id)' = Entry(u, id)
  BY <1>1 DEF PairVests, Entry, Settled, Granted
<1>3. /\ Released(u, id) = vesting[u][id].claimed_amount
      /\ Released(u, id)' = vesting[u][id].claimed_amount + paid
      /\ Released(u, id)' <= vesting[u][id].total_amount
  BY DEF PairVests, Released
<1>4. Entry(u, id) # None
  BY <1>1, <1>2, NoneIsNoRecord
<1>5. /\ granted[<<u, id>>] # None /\ released'[<<u, id>>] \in Nat
      /\ released[<<u, id>>] < released'[<<u, id>>]
      /\ released'[<<u, id>>] <= granted[<<u, id>>]
      /\ granted'[<<u, id>>] = granted[<<u, id>>]
  BY <1>1, <1>2, <1>3, <1>4, PairOf
<1>6. /\ granted' = [granted EXCEPT ![<<u, id>>] = granted'[<<u, id>>]]
      /\ released' = [released EXCEPT ![<<u, id>>] = released'[<<u, id>>]]
  BY OneEntryChanges
<1>7. <<u, id>> \in Pair /\ granted = [p \in Pair |-> granted[p]]
  BY DEF Pair, granted
<1> HIDE DEF granted, released
<1>8. granted' = granted
  BY <1>5, <1>6, <1>7
<1> QED
  BY <1>5, <1>6, <1>7, <1>8, LedgerRelease

\* A step that is neither leaves the ledger as it is.
LEMMA OtherwiseStutter ==
  ASSUME SystemInv,
         \A u \in Users, id \in CampaignId : PairKept(u, id) \/ PairMigrates(u, id)
  PROVE  UNCHANGED Ledger!ledger
<1>1. ASSUME NEW p \in Pair
      PROVE  /\ Entry(p[1], p[2])' = Entry(p[1], p[2])
             /\ Released(p[1], p[2])' = Released(p[1], p[2])
  <2>1. p[1] \in Users /\ p[2] \in CampaignId
    BY DEF Pair
  <2> QED
    BY <2>1, KeptEntry
<1>2. granted' = granted /\ released' = released
  BY <1>1 DEF granted, released, Entry, Pair
<1> QED
  BY <1>2 DEF Ledger!ledger, granted, released, Entry

\* The three contracts implement the ledger: every step of the system is a
\* grant, a release or a stutter of it.
THEOREM ImplementsLedger == Spec => RefinesLedger
<1>1. ASSUME Init PROVE Ledger!Init
  <2>1. /\ claimedV1 \subseteq Pair
        /\ \A u \in Users, id \in CampaignId :
               claimed[u][id] = None /\ vesting[u][id] = None
    <3>1. claimedV1 \subseteq Pair
      BY <1>1, InitInv DEF SystemInv, RecordsTypeOK
    <3>2. /\ claimed = [u \in Users |-> [id \in CampaignId |-> None]]
          /\ vesting = [u \in Users |-> [id \in CampaignId |-> None]]
      BY <1>1, Zenon DEF Init
    <3> QED
      BY <3>1, <3>2
  <2>2. \A p \in Pair : /\ Settled(p[1], p[2]) <=> p \in claimedV1
                        /\ Granted(p[1], p[2]) = 0 /\ Released(p[1], p[2]) = 0
    BY <2>1 DEF Pair, Settled, Granted, Released
  <2> QED
    BY <2>1, <2>2 DEF Ledger!Init
<1>2. ASSUME SystemInv, [Next]_vars PROVE [Ledger!Next]_(Ledger!ledger)
  <2>1. StepEffect
    BY <1>2, NextEffect
  <2>2. CASE \A u \in Users, id \in CampaignId : PairKept(u, id) \/ PairMigrates(u, id)
    BY <1>2, <2>2, OtherwiseStutter
  <2>3. ASSUME NEW u \in Users, NEW id \in CampaignId, NEW amount \in Nat \ {0},
               PairClaims(u, id, amount), OthersKept(u, id)
        PROVE  Ledger!Next
    BY <1>2, <2>3, ClaimIsGrant DEF Ledger!Next, Pair
  <2>4. ASSUME NEW u \in Users, NEW id \in CampaignId, NEW paid \in Nat \ {0},
               PairVests(u, id, paid), OthersKept(u, id)
        PROVE  Ledger!Next
    BY <1>2, <2>4, VestIsRelease DEF Ledger!Next, Pair
  <2> QED
    BY <2>1, <2>2, <2>3, <2>4 DEF StepEffect
<1> QED
  BY <1>1, <1>2, SystemCorrect, PTL DEF Spec, RefinesLedger, Ledger!Spec
=============================================================================
