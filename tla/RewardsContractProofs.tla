------------------------- MODULE RewardsContractProofs -------------------------
(***************************************************************************)
(* Proofs about RewardsContract, the system of the three contracts, for    *)
(* every set of users, every deployment and every bound.                   *)
(***************************************************************************)
EXTENDS RewardsContract, FiniteSetTheorems, TLAPS

(* Integer divisions *)

\* What truncating division returns.
LEMMA DivFacts ==
  ASSUME NEW a \in Nat, NEW d \in Nat \ {0}
  PROVE  /\ a \div d \in Nat
         /\ d * (a \div d) <= a
         /\ a < d * (a \div d) + d
  OBVIOUS

\* Multiplication by a natural number keeps the order.
LEMMA MulMonotone ==
  ASSUME NEW a \in Nat, NEW b \in Nat, NEW c \in Nat, a <= b
  PROVE  c * a \in Nat /\ c * b \in Nat /\ c * a <= c * b
  OBVIOUS

\* One more factor adds one more term.
LEMMA MulSuccessor ==
  ASSUME NEW q \in Int, NEW d \in Int
  PROVE  d * (q + 1) = d * q + d
  OBVIOUS

\* Truncating division keeps the order.
LEMMA DivMonotone ==
  ASSUME NEW a \in Nat, NEW b \in Nat, NEW d \in Nat \ {0}, a <= b
  PROVE  a \div d <= b \div d
<1> DEFINE p == a \div d
           q == b \div d
<1>1. p \in Nat /\ q \in Nat /\ d * p <= a /\ b < d * q + d
  BY DivFacts
<1> HIDE DEF p, q
<1>2. ASSUME q + 1 <= p PROVE FALSE
  <2>1. d * (q + 1) <= d * p
    BY <1>1, <1>2, MulMonotone
  <2>2. d * (q + 1) = d * q + d
    BY <1>1, MulSuccessor
  <2>3. d * q \in Int /\ d * p \in Int
    BY <1>1
  <2> QED
    BY <1>1, <2>1, <2>2, <2>3
<1>3. p <= q
  BY <1>1, <1>2
<1> QED
  BY <1>3 DEF p, q

\* Division undoes multiplication.
LEMMA DivExact ==
  ASSUME NEW r \in Nat, NEW d \in Nat \ {0}
  PROVE  (d * r) \div d = r
  OBVIOUS

-----------------------------------------------------------------------------
(* The multiplier *)

\* calc_multiplier is between 1x and 2x.
LEMMA MultiplierBounds ==
  ASSUME NEW at \in Nat, NEW created \in Nat, NEW expires \in Nat
  PROVE  /\ CalcMultiplier(at, created, expires) \in Nat
         /\ OneX <= CalcMultiplier(at, created, expires)
         /\ CalcMultiplier(at, created, expires) <= OneX + OneX
<1>1. OneX \in Nat \ {0}
  BY RewardsAssumption DEF RewardsAssumption
<1>2. CASE at >= expires \/ expires <= created
  BY <1>1, <1>2 DEF CalcMultiplier
<1>3. CASE ~(at >= expires \/ expires <= created)
  <2> DEFINE extra == (OneX * (expires - at)) \div (expires - created)
  <2>1. /\ expires - at \in Nat /\ expires - created \in Nat \ {0}
        /\ OneX * (expires - at) \in Nat
    BY <1>1, <1>3
  <2>2. extra \in Nat
    BY <2>1, DivFacts
  <2>3. CalcMultiplier(at, created, expires) = OneX + Least(extra, OneX)
    BY <1>3 DEF CalcMultiplier
  <2> HIDE DEF extra
  <2>4. Least(extra, OneX) \in Nat /\ Least(extra, OneX) <= OneX
    BY <1>1, <2>2 DEF Least
  <2> QED
    BY <1>1, <2>3, <2>4
<1> QED
  BY <1>2, <1>3

\* calc_multiplier does not grow with time.
LEMMA MultiplierAntitone ==
  ASSUME NEW early \in Nat, NEW late \in Nat, early <= late,
         NEW created \in Nat, NEW expires \in Nat
  PROVE  CalcMultiplier(late, created, expires)
             <= CalcMultiplier(early, created, expires)
<1>1. OneX \in Nat \ {0}
  BY RewardsAssumption DEF RewardsAssumption
<1>2. CASE late >= expires \/ expires <= created
  <2>1. CalcMultiplier(late, created, expires) = OneX
    BY <1>2 DEF CalcMultiplier
  <2> QED
    BY <1>1, <2>1, MultiplierBounds
<1>3. CASE ~(late >= expires \/ expires <= created)
  <2> DEFINE d == expires - created
             x == (OneX * (expires - late)) \div d
             y == (OneX * (expires - early)) \div d
  <2>1. /\ expires - late \in Nat /\ expires - early \in Nat
        /\ expires - late <= expires - early /\ d \in Nat \ {0}
    BY <1>3
  <2>2. /\ OneX * (expires - late) \in Nat /\ OneX * (expires - early) \in Nat
        /\ OneX * (expires - late) <= OneX * (expires - early)
    BY <1>1, <2>1, MulMonotone
  <2>3. x \in Nat /\ y \in Nat /\ x <= y
    BY <2>1, <2>2, DivFacts, DivMonotone
  <2>4. /\ CalcMultiplier(late, created, expires) = OneX + Least(x, OneX)
        /\ CalcMultiplier(early, created, expires) = OneX + Least(y, OneX)
    BY <1>3 DEF CalcMultiplier
  <2> HIDE DEF x, y
  <2>5. /\ Least(x, OneX) \in Nat /\ Least(y, OneX) \in Nat
        /\ Least(x, OneX) <= Least(y, OneX)
    BY <1>1, <2>3 DEF Least
  <2> QED
    BY <1>1, <2>4, <2>5
<1> QED
  BY <1>2, <1>3

\* A claim is worth between one and two times the reward, and no less the
\* earlier it is made.
LEMMA FinalAmountFacts ==
  ASSUME NEW c \in Campaign!Campaign, NEW early \in Nat, NEW late \in Nat,
         early <= late
  PROVE  /\ FinalAmount(c, early) \in Nat
         /\ c.reward_amount <= FinalAmount(c, early)
         /\ FinalAmount(c, early) <= 2 * c.reward_amount
         /\ FinalAmount(c, late) <= FinalAmount(c, early)
<1> DEFINE r == c.reward_amount
           m == CalcMultiplier(early, c.created_at, c.expiration)
           n == CalcMultiplier(late, c.created_at, c.expiration)
<1>1. OneX \in Nat \ {0}
  BY RewardsAssumption DEF RewardsAssumption
<1>2. r \in Nat /\ c.created_at \in Nat /\ c.expiration \in Nat
  BY DEF Campaign!Campaign
<1>3. m \in Nat /\ n \in Nat /\ OneX <= m /\ m <= OneX + OneX /\ n <= m
  BY <1>2, MultiplierBounds, MultiplierAntitone
<1>4. FinalAmount(c, early) = (r * m) \div OneX /\ FinalAmount(c, late) = (r * n) \div OneX
  BY DEF FinalAmount
<1> HIDE DEF r, m, n
<1>5. /\ r * m \in Nat /\ r * n \in Nat /\ r * n <= r * m
      /\ r * OneX \in Nat /\ r * OneX <= r * m
      /\ r * (OneX + OneX) \in Nat /\ r * m <= r * (OneX + OneX)
  BY <1>1, <1>2, <1>3, MulMonotone
<1>6. (r * OneX) \div OneX = r
  <2>1. r * OneX = OneX * r
    BY <1>1, <1>2
  <2> QED
    BY <1>1, <1>2, <2>1, DivExact
<1>7. (r * (OneX + OneX)) \div OneX = 2 * r
  <2>1. r * (OneX + OneX) = OneX * (2 * r) /\ 2 * r \in Nat
    BY <1>1, <1>2
  <2> QED
    BY <1>1, <2>1, DivExact
<1>8. (r * m) \div OneX \in Nat
  BY <1>1, <1>5, DivFacts
<1>9. /\ (r * OneX) \div OneX <= (r * m) \div OneX
      /\ (r * m) \div OneX <= (r * (OneX + OneX)) \div OneX
      /\ (r * n) \div OneX <= (r * m) \div OneX
  BY <1>1, <1>5, DivMonotone
<1> QED
  BY <1>4, <1>6, <1>7, <1>8, <1>9 DEF r

-----------------------------------------------------------------------------
(* The token inside the system *)

\* What is left of an allowance that covers the amount is not negative.
LEMMA Spend ==
  ASSUME NEW a \in Nat, NEW x \in Int, a >= x
  PROVE  a - x \in Nat
  OBVIOUS

\* A mint of any amount keeps the token's types.
LEMMA MintType ==
  ASSUME Token!TypeOK, NEW c, NEW to \in Address, NEW x \in Int,
         Token!Mint(c, to, x)
  PROVE  Token!TypeOK'
  BY RewardsAssumption
     DEF RewardsAssumption, Token!TypeOK, Token!Mint, Token!governance,
         Token!MinI128

\* A burn of any amount keeps the token's types.
LEMMA BurnType ==
  ASSUME Token!TypeOK, NEW from \in Address, NEW x \in Int, Token!Burn(from, x)
  PROVE  Token!TypeOK'
  BY RewardsAssumption
     DEF RewardsAssumption, Token!TypeOK, Token!Burn, Token!governance,
         Token!MinI128

\* Every call of an account to the token keeps the token's types.
LEMMA TokenCallType ==
  ASSUME Token!TypeOK, TokenCall
  PROVE  Token!TypeOK'
<1>1. /\ MaxI128 \in Nat /\ AmountArgs \subseteq Int /\ AllowanceArgs \subseteq Int
      /\ MultiSigArgs \subseteq Token!MultiSigConfig /\ Users \subseteq Address
  BY RewardsAssumption DEF RewardsAssumption
<1>2. ASSUME NEW from \in Users, NEW to \in Users, NEW x \in AmountArgs,
             Token!MoveBalance(from, to, x)
      PROVE  balance' \in [Address -> 0..MaxI128] /\ x > 0
  BY <1>1, <1>2 DEF Token!TypeOK, Token!MoveBalance
<1>3. ASSUME NEW c \in Users, NEW to \in Users, NEW x \in AmountArgs,
             Token!Mint(c, to, x)
      PROVE  Token!TypeOK'
  BY <1>1, <1>3, MintType
<1>4. ASSUME NEW from \in Users, NEW x \in AmountArgs, Token!Burn(from, x)
      PROVE  Token!TypeOK'
  BY <1>1, <1>4, BurnType
<1>5. ASSUME NEW from \in Users, NEW to \in Users, NEW x \in AmountArgs,
             Token!Transfer(from, to, x)
      PROVE  Token!TypeOK'
  BY <1>1, <1>2, <1>5 DEF Token!Transfer, Token!TypeOK, Token!governance
<1>6. ASSUME NEW o \in Users, NEW s \in Users, NEW x \in AllowanceArgs,
             Token!Approve(o, s, x)
      PROVE  Token!TypeOK'
  BY <1>1, <1>6 DEF Token!Approve, Token!TypeOK, Token!governance
<1>7. ASSUME NEW s \in Users, NEW from \in Users, NEW to \in Users,
             NEW x \in AmountArgs, Token!TransferFrom(s, from, to, x)
      PROVE  Token!TypeOK'
  <2>1. allowance[from][s] >= x /\ Token!MoveBalance(from, to, x)
    BY <1>7 DEF Token!TransferFrom
  <2>2. allowance[from][s] \in Nat /\ x \in Int
    BY <1>1 DEF Token!TypeOK
  <2>3. allowance[from][s] - x \in Nat
    BY <2>1, <2>2, Spend
  <2>4. allowance' = [allowance EXCEPT ![from][s] = allowance[from][s] - x]
    BY <1>7 DEF Token!TransferFrom
  <2>5. allowance' \in [Address -> [Address -> Nat]]
    BY <1>1, <2>3, <2>4 DEF Token!TypeOK
  <2> QED
    BY <1>2, <1>7, <2>1, <2>5 DEF Token!TransferFrom, Token!TypeOK, Token!governance
<1>8. ASSUME NEW s \in Users, NEW cfg \in MultiSigArgs, NEW m \in Address,
             Token!ProposeSetAdmin(s, cfg, m)
      PROVE  Token!TypeOK'
  <2>1. <<s>> \in Seq(Address)
    BY <1>1
  <2>2. proposal' \in Token!SetAdminProposal
    BY <1>1, <1>8, <2>1 DEF Token!ProposeSetAdmin, Token!SetAdminProposal
  <2> QED
    BY <1>8, <2>2 DEF Token!ProposeSetAdmin, Token!TypeOK, Token!funds
<1>9. ASSUME NEW s \in Users, Token!ApproveSetAdmin(s)
      PROVE  Token!TypeOK'
  <2>1. proposal \in Token!SetAdminProposal
    BY <1>9 DEF Token!ApproveSetAdmin, Token!TypeOK
  <2>2. Append(proposal.signatures, s) \in Seq(Address)
    BY <1>1, <2>1 DEF Token!SetAdminProposal
  <2>3. proposal' \in Token!SetAdminProposal
    BY <1>9, <2>1, <2>2 DEF Token!ApproveSetAdmin, Token!SetAdminProposal
  <2> QED
    BY <1>9, <2>3 DEF Token!ApproveSetAdmin, Token!TypeOK, Token!funds
<1>10. ASSUME NEW s \in Users, Token!ExecuteSetAdmin(s)
      PROVE  Token!TypeOK'
  BY <1>10 DEF Token!ExecuteSetAdmin, Token!TypeOK, Token!funds,
               Token!SetAdminProposal
<1> QED
  BY <1>3, <1>4, <1>5, <1>6, <1>7, <1>8, <1>9, <1>10 DEF TokenCall

-----------------------------------------------------------------------------
(* The campaign registry inside the system *)

\* Ids are handed out in order, without gaps: the deployments start that way,
\* and only create_campaign stores a campaign.
RegistryDense == \A id \in CampaignId : campaigns[id] # None <=> id < nextId

RegistryInv == Campaign!TypeOK /\ RegistryDense

\* What a step may do to campaign id
RegistryGrows(id) ==
    campaigns[id] # None =>
        /\ campaigns'[id] # None
        /\ Campaign!Terms(campaigns'[id]) = Campaign!Terms(campaigns[id])
        /\ campaigns'[id].total_claimed >= campaigns[id].total_claimed

\* create_campaign writes a fresh id.
LEMMA CreateStep ==
  ASSUME RegistryInv,
         NEW m \in Merchants, NEW r \in RewardArgs, NEW e \in ExpirationArgs,
         NEW d \in VestingDaysArgs, Campaign!CreateCampaign(m, r, e, d)
  PROVE  /\ RegistryInv' /\ \A id \in CampaignId : RegistryGrows(id)
         /\ now' = now
<1> DEFINE c == [merchant |-> m, reward_amount |-> r, expiration |-> e,
                 created_at |-> now, active |-> TRUE, total_claimed |-> 0,
                 vesting_period_days |-> d]
<1>1. /\ MaxU64 \in Nat /\ m \in Address /\ r \in Int /\ e \in Nat /\ d \in Nat
  BY RewardsAssumption DEF RewardsAssumption
<1>2. /\ nextId \in CampaignId /\ nextId' = nextId + 1 /\ e > now /\ r > 0
      /\ campaigns' = [campaigns EXCEPT ![nextId] = c]
      /\ UNCHANGED <<adminConfig, upgradeProposal, wasm, now>>
  BY DEF Campaign!CreateCampaign, Campaign!BumpId, Campaign!upgrade, CampaignId
<1>3. nextId \in Nat /\ now \in Nat /\ CampaignId \subseteq Int
  BY DEF RegistryInv, Campaign!TypeOK, CampaignId, Campaign!CampaignId
<1>4. c \in Campaign!Campaign /\ c.created_at = now /\ c.expiration = e
  BY <1>1, <1>2, <1>3 DEF Campaign!Campaign
<1>5. c # None
  BY <1>4, NoneIsNoRecord
<1>6. campaigns[nextId] = None
  BY <1>2, <1>3 DEF RegistryInv, RegistryDense
<1>7. Campaign!TypeOK'
  <2>1. campaigns' \in [CampaignId -> Campaign!Campaign \cup {None}]
    BY <1>2, <1>4 DEF RegistryInv, Campaign!TypeOK, CampaignId
  <2>2. \A id \in CampaignId : campaigns'[id] # None =>
            /\ campaigns'[id].created_at <= now
            /\ campaigns'[id].created_at < campaigns'[id].expiration
    BY <1>2, <1>3, <1>4 DEF RegistryInv, Campaign!TypeOK, CampaignId
  <2> QED
    BY <1>2, <1>3, <2>1, <2>2 DEF RegistryInv, Campaign!TypeOK, CampaignId
<1>8. \A id \in CampaignId : campaigns'[id] = IF id = nextId THEN c ELSE campaigns[id]
  BY <1>2 DEF RegistryInv, Campaign!TypeOK, CampaignId
<1>9. RegistryDense'
  BY <1>2, <1>3, <1>5, <1>8 DEF RegistryInv, RegistryDense
<1>10. \A id \in CampaignId : campaigns[id] # None =>
           campaigns[id].total_claimed \in Nat
  BY <1>1 DEF RegistryInv, Campaign!TypeOK, Campaign!Campaign, CampaignId
<1>11. \A id \in CampaignId : RegistryGrows(id)
  BY <1>6, <1>8, <1>10 DEF RegistryGrows
<1> QED
  BY <1>2, <1>7, <1>9, <1>11 DEF RegistryInv

\* set_active and record_claim write back the campaign they read.
LEMMA UpdateStep ==
  ASSUME RegistryInv, NEW i \in CampaignId, NEW c \in Campaign!Campaign,
         campaigns[i] # None,
         Campaign!Terms(c) = Campaign!Terms(campaigns[i]),
         c.total_claimed >= campaigns[i].total_claimed,
         campaigns' = [campaigns EXCEPT ![i] = c],
         UNCHANGED <<nextId, adminConfig, upgradeProposal, wasm, now>>
  PROVE  RegistryInv' /\ \A id \in CampaignId : RegistryGrows(id)
<1>1. MaxU64 \in Nat
  BY RewardsAssumption DEF RewardsAssumption
<1>2. campaigns[i] \in Campaign!Campaign
  BY DEF RegistryInv, Campaign!TypeOK, CampaignId
<1>3. /\ c.created_at = campaigns[i].created_at
      /\ c.expiration = campaigns[i].expiration
  BY DEF Campaign!Terms
<1>4. c # None
  BY NoneIsNoRecord
<1>5. \A id \in CampaignId : campaigns'[id] = IF id = i THEN c ELSE campaigns[id]
  BY DEF RegistryInv, Campaign!TypeOK, CampaignId
<1>6. Campaign!TypeOK'
  <2>1. campaigns' \in [CampaignId -> Campaign!Campaign \cup {None}]
    BY DEF RegistryInv, Campaign!TypeOK, CampaignId
  <2>2. \A id \in CampaignId : campaigns'[id] # None =>
            /\ campaigns'[id].created_at <= now
            /\ campaigns'[id].created_at < campaigns'[id].expiration
    BY <1>3, <1>5 DEF RegistryInv, Campaign!TypeOK, CampaignId
  <2> QED
    BY <2>1, <2>2 DEF RegistryInv, Campaign!TypeOK, CampaignId
<1>7. RegistryDense'
  BY <1>4, <1>5 DEF RegistryInv, RegistryDense
<1>8. \A id \in CampaignId : campaigns[id] # None =>
          campaigns[id].total_claimed \in Nat
  BY <1>1 DEF RegistryInv, Campaign!TypeOK, Campaign!Campaign, CampaignId
<1>9. \A id \in CampaignId : RegistryGrows(id)
  BY <1>4, <1>5, <1>8 DEF RegistryGrows
<1> QED
  BY <1>6, <1>7, <1>9 DEF RegistryInv

LEMMA SetActiveStep ==
  ASSUME RegistryInv, NEW m, NEW i \in CampaignId, NEW b \in BOOLEAN,
         Campaign!SetActive(m, i, b)
  PROVE  /\ RegistryInv' /\ \A id \in CampaignId : RegistryGrows(id)
         /\ now' = now
<1> DEFINE c == [campaigns[i] EXCEPT !.active = b]
<1>1. /\ campaigns[i] # None
      /\ campaigns' = [campaigns EXCEPT ![i] = c]
      /\ UNCHANGED <<nextId, adminConfig, upgradeProposal, wasm, now>>
  BY DEF Campaign!SetActive, Campaign!Exists, Campaign!upgrade
<1>2. campaigns[i] \in Campaign!Campaign /\ MaxU64 \in Nat
  BY <1>1, RewardsAssumption
     DEF RewardsAssumption, RegistryInv, Campaign!TypeOK, CampaignId
<1>3. /\ c \in Campaign!Campaign
      /\ Campaign!Terms(c) = Campaign!Terms(campaigns[i])
      /\ c.total_claimed >= campaigns[i].total_claimed
  BY <1>2 DEF Campaign!Campaign, Campaign!Terms
<1> HIDE DEF c
<1> QED
  BY <1>1, <1>3, UpdateStep

\* record_claim adds one to the count of an existing campaign.
LEMMA RecordClaimStep ==
  ASSUME RegistryInv, NEW i \in CampaignId, Campaign!RecordClaim(i)
  PROVE  /\ RegistryInv' /\ \A id \in CampaignId : RegistryGrows(id)
         /\ now' = now
         /\ campaigns[i] # None
         /\ campaigns'[i].total_claimed = campaigns[i].total_claimed + 1
<1> DEFINE n == campaigns[i].total_claimed + 1
           c == [campaigns[i] EXCEPT !.total_claimed = n]
<1>1. /\ campaigns[i] # None /\ n <= MaxU64
      /\ campaigns' = [campaigns EXCEPT ![i] = c]
      /\ UNCHANGED <<nextId, adminConfig, upgradeProposal, wasm, now>>
  BY DEF Campaign!RecordClaim, Campaign!Exists, Campaign!upgrade
<1>2. campaigns[i] \in Campaign!Campaign /\ MaxU64 \in Nat
  BY <1>1, RewardsAssumption
     DEF RewardsAssumption, RegistryInv, Campaign!TypeOK, CampaignId
<1>3. campaigns[i].total_claimed \in 0..MaxU64
  BY <1>2 DEF Campaign!Campaign
<1>4. n \in 0..MaxU64 /\ n >= campaigns[i].total_claimed
  BY <1>1, <1>2, <1>3
<1> HIDE DEF n
<1>5. /\ c \in Campaign!Campaign
      /\ Campaign!Terms(c) = Campaign!Terms(campaigns[i])
      /\ c.total_claimed = n
  BY <1>2, <1>4 DEF Campaign!Campaign, Campaign!Terms
<1>6. campaigns'[i] = c
  BY <1>1 DEF RegistryInv, Campaign!TypeOK, CampaignId
<1> HIDE DEF c
<1>7. RegistryInv' /\ \A id \in CampaignId : RegistryGrows(id)
  BY <1>1, <1>4, <1>5, UpdateStep
<1> QED
  BY <1>1, <1>5, <1>6, <1>7 DEF n

LEMMA TickStep ==
  ASSUME RegistryInv, Campaign!Tick
  PROVE  RegistryInv' /\ campaigns' = campaigns /\ now' = now + 1
<1>1. /\ now' = now + 1
      /\ UNCHANGED <<campaigns, nextId, adminConfig, upgradeProposal, wasm>>
  BY DEF Campaign!Tick, Campaign!registry, Campaign!upgrade
<1>2. \A id \in CampaignId : campaigns[id] # None =>
          campaigns[id].created_at \in Nat /\ campaigns[id].created_at <= now + 1
  BY DEF RegistryInv, Campaign!TypeOK, Campaign!Campaign, CampaignId
<1>3. Campaign!TypeOK'
  BY <1>1, <1>2 DEF RegistryInv, Campaign!TypeOK, CampaignId
<1>4. RegistryDense'
  BY <1>1 DEF RegistryInv, RegistryDense
<1> QED
  BY <1>1, <1>3, <1>4 DEF RegistryInv
=============================================================================
