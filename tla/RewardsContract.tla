--------------------------- MODULE RewardsContract ---------------------------
(***************************************************************************)
(* The rewards contract, contracts/rewards/src/lib.rs, together with the   *)
(* two contracts it calls: `campaign_client` is Campaign! and              *)
(* `token_client` is Token!, so a cross-contract call is the conjunction   *)
(* with the callee's action, and a panic in the callee disables the whole  *)
(* invocation.                                                             *)
(*                                                                         *)
(* The module is also the deployed system: its next-state relation runs    *)
(* the entry points of all three contracts on one ledger, in any order.    *)
(* Left out: the campaign contract's upgrade entry points, which share no  *)
(* variable with the rest (see CampaignContract).                          *)
(***************************************************************************)
EXTENDS Integers, Sequences, FiniteSets

CONSTANTS
    Address, None, MaxI128, AmountArgs, AllowanceArgs, MultiSigArgs,
    MaxU64, Timelock, WasmHash, InitialWasm, MaxTime, MaxCampaigns,
    RewardArgs, ExpirationArgs, VestingDaysArgs, AdminsArgs,
    Rewards,        \* the address of the rewards contract, the initial minter
    Users,          \* accounts that claim rewards and hold tokens
    Merchants,      \* accounts that create campaigns
    OneX,           \* 10_000 basis points; coarser where balances are bounded
    SecondsPerDay,  \* 86_400; smaller where the clock is bounded
    Deployments,    \* what a run starts from, see Deployment
    MaxStrayCount   \* bound of the model: record_claim calls by others stop here

VARIABLES
    balance, allowance, totalSupply, multisig, minter, proposal,   \* token
    campaigns, nextId, adminConfig, upgradeProposal, wasm, now,    \* campaign
    claimed,         \* DataKey::Claimed(user, id): ClaimRecord or None
    claimedV1,       \* the pairs with a legacy DataKey::ClaimedV1(user, id)
    vesting,         \* DataKey::Vesting(user, id): VestingState or None
    admin,           \* DataKey::Admin, None before initialize
    migrationV1Done  \* DataKey::MigrationV1Done

Token == INSTANCE TokenContract
Campaign == INSTANCE CampaignContract

CampaignId == Campaign!CampaignId
Pair == Users \X CampaignId

tokenVars == <<balance, allowance, totalSupply, multisig, minter, proposal>>
campaignVars == <<campaigns, nextId, adminConfig, upgradeProposal, wasm, now>>
claimVars == <<claimed, claimedV1, vesting>>
rewardsVars == <<claimVars, admin, migrationV1Done>>
vars == <<tokenVars, campaignVars, rewardsVars>>

ClaimRecord == [amount : Nat, claimed_at : Nat]

VestingState == [total_amount : Nat, claimed_amount : Nat, start_time : Nat,
                 vesting_duration_secs : Nat \ {0}]

\* A state the contracts can be in when v2 of the rewards contract starts: a
\* new deployment, or one whose users claimed under v1.  v1 claims were
\* counted by record_claim and are for campaigns that exist.
Deployment ==
    [campaigns : [CampaignId -> Campaign!Campaign \cup {None}],
     nextId : Nat \ {0}, claims : SUBSET Pair, admin : Address \cup {None},
     balance : [Address -> 0..MaxI128], totalSupply : 0..MaxI128,
     multisig : Token!MultiSigConfig, adminConfig : Campaign!AdminConfig]

Claimants(claims, id) == {u \in Users : <<u, id>> \in claims}

ASSUME RewardsAssumption ==
    /\ MaxStrayCount \in Nat /\ MaxI128 \in Nat /\ MaxU64 \in Nat /\ MaxTime \in Nat
    /\ MaxCampaigns \in Nat /\ Timelock \in Nat
    /\ InitialWasm \in WasmHash
    /\ AmountArgs \subseteq Int /\ AllowanceArgs \subseteq Int
    /\ MultiSigArgs \subseteq Token!MultiSigConfig
    /\ RewardArgs \subseteq Int
    /\ ExpirationArgs \subseteq Nat /\ VestingDaysArgs \subseteq Nat
    /\ Rewards \in Address
    /\ Users \subseteq Address \ {Rewards} /\ IsFiniteSet(Users)
    /\ Merchants \subseteq Address \ {Rewards}
    /\ SecondsPerDay \in Nat \ {0} /\ OneX \in Nat \ {0}
    /\ Deployments \subseteq Deployment
    /\ \A d \in Deployments, id \in CampaignId :
           /\ d.campaigns[id] # None <=> id < d.nextId
           /\ d.campaigns[id] # None =>
                  /\ d.campaigns[id].created_at = 0
                  /\ 0 < d.campaigns[id].expiration
                  /\ Cardinality(Claimants(d.claims, id))
                         <= d.campaigns[id].total_claimed
           /\ d.campaigns[id] = None => Claimants(d.claims, id) = {}

\* An absent entry is none of the stored values
ASSUME NoneIsNoRecord ==
    None \notin Nat \cup ClaimRecord \cup VestingState \cup Campaign!Campaign

Init ==
    \E d \in Deployments :
        /\ balance = d.balance
        /\ allowance = [o \in Address |-> [s \in Address |-> 0]]
        /\ totalSupply = d.totalSupply
        /\ multisig = d.multisig
        /\ minter = Rewards
        /\ proposal = None
        /\ campaigns = d.campaigns
        /\ nextId = d.nextId
        /\ adminConfig = d.adminConfig
        /\ upgradeProposal = None
        /\ wasm = InitialWasm
        /\ now = 0
        /\ claimed = [u \in Users |-> [id \in CampaignId |-> None]]
        /\ claimedV1 = d.claims
        /\ vesting = [u \in Users |-> [id \in CampaignId |-> None]]
        /\ admin = d.admin
        /\ migrationV1Done = FALSE

-----------------------------------------------------------------------------
(* Helpers *)

\* mutant: the legacy records are not looked at
HasClaimedV2Only(u, id) == claimed[u][id] # None

\* v2 first, then v1
HasClaimed(u, id) == claimed[u][id] # None \/ <<u, id>> \in claimedV1

Least(a, b) == IF a <= b THEN a ELSE b

\* mutant: the fraction of the campaign gone by, instead of the one remaining
MultiplierOfElapsed(at, created, expires) ==
    IF at >= expires \/ expires <= created THEN OneX
    ELSE OneX + Least((OneX * (at - created)) \div (expires - created), OneX)

\* mutant: the fraction is not divided by the campaign's duration
MultiplierUndivided(at, created, expires) ==
    IF at >= expires \/ expires <= created THEN OneX
    ELSE OneX + OneX * (expires - at)

\* calc_multiplier, in basis points
CalcMultiplier(at, created, expires) ==
    IF at >= expires \/ expires <= created THEN OneX
    ELSE OneX + Least((OneX * (expires - at)) \div (expires - created), OneX)

\* the amount a claim of campaign c at time `at` is worth
FinalAmount(c, at) ==
    (c.reward_amount * CalcMultiplier(at, c.created_at, c.expiration)) \div OneX

\* neither product overflows: `10_000u64 * remaining`, `reward_amount * bp`
FinalAmountFits(c, at) ==
    /\ at < c.expiration => OneX * (c.expiration - at) <= MaxU64
    /\ c.reward_amount * CalcMultiplier(at, c.created_at, c.expiration) <= MaxI128

Elapsed(v, at) == IF at > v.start_time THEN at - v.start_time ELSE 0

\* mutant: the second that is only beginning is credited too
VestedEarly(v, at) ==
    IF Elapsed(v, at) >= v.vesting_duration_secs THEN v.total_amount
    ELSE (v.total_amount * (Elapsed(v, at) + 1)) \div v.vesting_duration_secs

\* linear vesting, all of it from the end of the duration on
VestedTotal(v, at) ==
    IF Elapsed(v, at) >= v.vesting_duration_secs THEN v.total_amount
    ELSE (v.total_amount * Elapsed(v, at)) \div v.vesting_duration_secs

\* `total_amount * elapsed` is only computed before the end
VestedTotalFits(v, at) ==
    Elapsed(v, at) < v.vesting_duration_secs =>
        v.total_amount * Elapsed(v, at) <= MaxI128

-----------------------------------------------------------------------------
(* Entry points of the rewards contract *)

\* token_contract and campaign_contract are those of this deployment
Initialize(newAdmin) ==
    /\ admin = None
    /\ admin' = newAdmin
    /\ UNCHANGED <<tokenVars, campaignVars, claimVars, migrationV1Done>>

\* The record of amount 0 written before the calls is replaced before the
\* invocation ends and no callee reads it: only the final record is visible.
ClaimReward(user, id) ==
    /\ admin # None
    /\ ~HasClaimed(user, id)
    /\ Campaign!IsActive(id)
    /\ FinalAmountFits(campaigns[id], now)
    /\ LET c == campaigns[id]
           amount == FinalAmount(c, now)
       IN /\ claimed' = [claimed EXCEPT ![user][id] =
                             [amount |-> amount, claimed_at |-> now]]
          /\ Campaign!RecordClaim(id)
          /\ \/ /\ c.vesting_period_days = 0
                /\ Token!Mint(Rewards, user, amount)
                /\ UNCHANGED vesting
             \/ /\ c.vesting_period_days # 0
                /\ vesting' = [vesting EXCEPT ![user][id] =
                       [total_amount |-> amount, claimed_amount |-> 0,
                        start_time |-> now,
                        vesting_duration_secs |->
                            c.vesting_period_days * SecondsPerDay]]
                /\ UNCHANGED tokenVars
    /\ UNCHANGED <<claimedV1, admin, migrationV1Done>>

ClaimVested(user, id) ==
    /\ admin # None
    /\ vesting[user][id] # None
    /\ LET v == vesting[user][id]
           claimable == VestedTotal(v, now) - v.claimed_amount
       IN /\ VestedTotalFits(v, now)
          /\ claimable > 0
          /\ vesting' = [vesting EXCEPT ![user][id].claimed_amount =
                             VestedTotal(v, now)]
          /\ Token!Mint(Rewards, user, claimable)
    /\ UNCHANGED <<campaignVars, claimed, claimedV1, admin, migrationV1Done>>

RedeemReward(user, amount) ==
    /\ admin # None
    /\ amount > 0
    /\ Token!Burn(user, amount)
    /\ UNCHANGED <<campaignVars, rewardsVars>>

\* mutant: the legacy keys are removed and nothing is written for them
MigrateForgets(caller, entries) ==
    /\ admin # None /\ caller = admin
    /\ ~migrationV1Done
    /\ claimedV1' = claimedV1 \ entries
    /\ migrationV1Done' = TRUE
    /\ UNCHANGED <<tokenVars, campaignVars, claimed, vesting, admin>>

\* The loop over entries: each is moved at most once, in any order
MigrateV1ToV2(caller, entries) ==
    /\ admin # None /\ caller = admin
    /\ ~migrationV1Done
    /\ LET moved == {p \in entries \cap claimedV1 : claimed[p[1]][p[2]] = None}
       IN /\ claimed' = [u \in Users |-> [id \in CampaignId |->
                 IF <<u, id>> \in moved THEN [amount |-> 0, claimed_at |-> now]
                 ELSE claimed[u][id]]]
          /\ claimedV1' = claimedV1 \ moved
    /\ migrationV1Done' = TRUE
    /\ UNCHANGED <<tokenVars, campaignVars, vesting, admin>>

-----------------------------------------------------------------------------
(* The other two contracts, called by accounts *)

CampaignCall ==
    /\ \/ \E m \in Merchants, r \in RewardArgs, e \in ExpirationArgs,
             d \in VestingDaysArgs : Campaign!CreateCampaign(m, r, e, d)
       \/ \E m \in Merchants, id \in CampaignId, b \in BOOLEAN :
              Campaign!SetActive(m, id, b)
       \/ \E id \in CampaignId :
              /\ campaigns[id] # None
              /\ campaigns[id].total_claimed < MaxStrayCount
              /\ Campaign!RecordClaim(id)
       \/ Campaign!Tick
    /\ UNCHANGED <<tokenVars, rewardsVars>>

TokenCall ==
    /\ \/ \E c, to \in Users, x \in AmountArgs : Token!Mint(c, to, x)
       \/ \E from \in Users, x \in AmountArgs : Token!Burn(from, x)
       \/ \E from, to \in Users, x \in AmountArgs : Token!Transfer(from, to, x)
       \/ \E o, s \in Users, x \in AllowanceArgs : Token!Approve(o, s, x)
       \/ \E s, from, to \in Users, x \in AmountArgs :
              Token!TransferFrom(s, from, to, x)
       \/ \E s \in Users, cfg \in MultiSigArgs, m \in Address :
              Token!ProposeSetAdmin(s, cfg, m)
       \/ \E s \in Users : Token!ApproveSetAdmin(s)
       \/ \E s \in Users : Token!ExecuteSetAdmin(s)
    /\ UNCHANGED <<campaignVars, rewardsVars>>

Next ==
    \/ \E a \in Users : Initialize(a)
    \/ \E u \in Users, id \in CampaignId : ClaimReward(u, id)
    \/ \E u \in Users, id \in CampaignId : ClaimVested(u, id)
    \/ \E u \in Users, x \in AmountArgs : RedeemReward(u, x)
    \/ \E a \in Users, entries \in SUBSET Pair : MigrateV1ToV2(a, entries)
    \/ CampaignCall
    \/ TokenCall

Spec == Init /\ [][Next]_vars

-----------------------------------------------------------------------------
(* Properties *)

\* The pair has claimed, whatever the claim guard makes of it
Settled(u, id) == claimed[u][id] # None \/ <<u, id>> \in claimedV1

\* What the contracts' records say has been granted to a pair: 0 for a legacy
\* claim, whose amount v1 did not record and v2 never pays.
Granted(u, id) == IF claimed[u][id] = None THEN 0 ELSE claimed[u][id].amount

\* What the records say has been minted of it
Released(u, id) ==
    IF vesting[u][id] = None THEN Granted(u, id)
    ELSE vesting[u][id].claimed_amount

\* Type correctness of the composed system.
TypeOK ==
    /\ Token!TypeOK
    /\ Campaign!TypeOK
    /\ claimed \in [Users -> [CampaignId -> ClaimRecord \cup {None}]]
    /\ claimedV1 \in SUBSET Pair
    /\ vesting \in [Users -> [CampaignId -> VestingState \cup {None}]]
    /\ admin \in Address \cup {None}
    /\ migrationV1Done \in BOOLEAN

\* A claim is for ever: once a pair has claimed, under v1 or v2, it stays
\* claimed and what was granted to it never changes, through migration, v1
\* fallback and vesting alike.  Nobody is rewarded twice for one campaign.
ClaimIsForever ==
    [][\A u \in Users, id \in CampaignId :
          Settled(u, id) => /\ Settled(u, id)'
                            /\ Granted(u, id)' = Granted(u, id)]_vars

\* Tokens follow the records.  Whenever the recorded release of a pair changes,
\* exactly that much is minted to that user; and while the rewards contract is
\* the minter, the supply grows in no other way.
TokensFollowRecords ==
    [][LET Pays(p) == LET paid == Released(p[1], p[2])' - Released(p[1], p[2])
                      IN /\ paid > 0
                         /\ totalSupply' = totalSupply + paid
                         /\ balance'[p[1]] = balance[p[1]] + paid
       IN /\ \A p \in Pair :
                 Released(p[1], p[2])' # Released(p[1], p[2]) => Pays(p)
          /\ (minter = Rewards /\ totalSupply' > totalSupply)
                 => \E p \in Pair : Pays(p)]_vars

\* Vesting never runs ahead of the clock nor beyond the grant: a schedule is
\* for exactly the granted amount, starts at the claim, and what has been
\* minted of it is at most the linear share of the elapsed time, however
\* often and whenever claim_vested was called.
VestingOnSchedule ==
    \A u \in Users, id \in CampaignId : vesting[u][id] # None =>
        LET v == vesting[u][id]
        IN /\ claimed[u][id] # None
           /\ v.total_amount = claimed[u][id].amount
           /\ v.start_time = claimed[u][id].claimed_at
           /\ v.claimed_amount <= v.total_amount
           /\ v.claimed_amount * v.vesting_duration_secs
                  <= v.total_amount * (now - v.start_time)

\* A migrated record carries the sentinel amount 0; the others were claimed.
ClaimedUnderV2(u, id) == claimed[u][id] # None /\ claimed[u][id].amount # 0

\* "capped [1x, 2x]": what was granted is between one and two times the
\* reward the campaign shows now, so the campaign's terms cannot have moved.
GrantWithinMultiplier ==
    \A u \in Users, id \in CampaignId : ClaimedUnderV2(u, id) =>
        /\ campaigns[id] # None
        /\ campaigns[id].reward_amount <= claimed[u][id].amount
        /\ claimed[u][id].amount <= 2 * campaigns[id].reward_amount

\* The multiplier rewards early claims: of two users who claimed the same
\* campaign, the one who claimed first was granted no less.
EarlyClaimNeverWorse ==
    \A u, w \in Users, id \in CampaignId :
        /\ ClaimedUnderV2(u, id)
        /\ ClaimedUnderV2(w, id)
        /\ claimed[u][id].claimed_at <= claimed[w][id].claimed_at
        => claimed[u][id].amount >= claimed[w][id].amount

\* A campaign's total_claimed counts every user who has claimed it, before and
\* after migration.  (It may exceed their number: record_claim is public.)
CounterCoversClaims ==
    \A id \in CampaignId :
        LET claimants == {u \in Users : Settled(u, id)}
        IN IF campaigns[id] = None THEN claimants = {}
           ELSE Cardinality(claimants) <= campaigns[id].total_claimed

\* In a deployment whose campaign contract is initialised, every campaign
\* keeps its terms for ever.
TermsKept == Campaign!CampaignTermsImmutable

\* The rewards records, read as a ledger of grants and payments
Ledger == INSTANCE RewardLedger WITH
    granted <- [p \in Pair |-> IF Settled(p[1], p[2]) THEN Granted(p[1], p[2])
                               ELSE None],
    released <- [p \in Pair |-> Released(p[1], p[2])]

\* The three contracts implement the abstract ledger: at most one grant per
\* pair, never revised, and payments that only grow, up to the grant.
RefinesLedger == Ledger!Spec

\* Legacy keys are "removed after migrate() completes"
\* (contracts/rewards/src/lib.rs:53).  The first call completes the migration,
\* whatever entries it was given.
MigrationLeavesNoLegacyKey == migrationV1Done => claimedV1 = {}
=============================================================================
