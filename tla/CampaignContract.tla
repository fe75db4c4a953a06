--------------------------- MODULE CampaignContract ---------------------------
(***************************************************************************)
(* The campaign registry, contracts/campaign/src/lib.rs: merchants create  *)
(* and toggle campaigns, the rewards contract counts claims, and a set of  *)
(* admins upgrades the contract's code behind a threshold and a timelock.  *)
(*                                                                         *)
(* The name and the description are validated for length and stored; no    *)
(* other code reads them, so they are left out.  `now` is the timestamp of *)
(* the ledger that executes the call (env.ledger().timestamp()): it never  *)
(* decreases and many calls may share one value.                           *)
(***************************************************************************)
EXTENDS Integers, Sequences, FiniteSets, Functions

CONSTANTS
    Address, None,
    MaxU64,         \* the largest u64
    Timelock,       \* TIMELOCK, seconds between a proposal and its execution
    WasmHash,       \* contract code identified by its hash
    InitialWasm,    \* the code deployed first
    MaxTime,        \* bound of the model: the clock stops here
    MaxCampaigns,   \* bound of the model: ids above it are never issued
    RewardArgs, ExpirationArgs, VestingDaysArgs,  \* create_campaign's arguments
    AdminsArgs      \* admin lists and thresholds passed to initialize

CampaignId == 1..MaxCampaigns

Campaign == [merchant : Address, reward_amount : Nat \ {0}, expiration : Nat,
             created_at : Nat, active : BOOLEAN, total_claimed : 0..MaxU64,
             vesting_period_days : Nat]

UpgradeProposal == [wasm_hash : WasmHash, proposed_at : Nat,
                    signatures : Seq(Address)]

AdminConfig == [admins : Seq(Address), threshold : Nat]

ASSUME CampaignAssumption ==
    /\ MaxU64 \in Nat /\ Timelock \in Nat /\ MaxTime \in Nat
    /\ MaxCampaigns \in Nat
    /\ InitialWasm \in WasmHash
    /\ RewardArgs \subseteq Int
    /\ ExpirationArgs \subseteq Nat
    /\ VestingDaysArgs \subseteq Nat
    /\ AdminsArgs \subseteq AdminConfig

\* An absent entry is none of the stored values
ASSUME NoneIsNoCampaign == None \notin Campaign

VARIABLES
    campaigns,        \* DataKey::Campaign(id), None where nothing is stored
    nextId,           \* DataKey::NextId; absent reads as 1
    adminConfig,      \* DataKey::Admins and DataKey::Threshold
    upgradeProposal,  \* DataKey::UpgradeProposal
    wasm,             \* the code the contract runs
    now               \* the ledger timestamp

registry == <<campaigns, nextId>>
upgrade == <<adminConfig, upgradeProposal, wasm>>
vars == <<registry, upgrade, now>>

Init ==
    /\ campaigns = [id \in CampaignId |-> None]
    /\ nextId = 1
    /\ adminConfig = None
    /\ upgradeProposal = None
    /\ wasm = InitialWasm
    /\ now = 0

-----------------------------------------------------------------------------
(* Helpers *)

Exists(id) == id \in CampaignId /\ campaigns[id] # None

\* is_active
IsActive(id) == Exists(id) /\ campaigns[id].active /\ now < campaigns[id].expiration

\* require_admin
IsAdmin(admin) == adminConfig # None /\ admin \in Range(adminConfig.admins)

\* mutant: the id is handed out again
BumpIdNotAdvancing(id) == id = nextId /\ nextId' = nextId

\* bump_id: hands out nextId; id + 1 is overflow-checked
BumpId(id) == id = nextId /\ nextId + 1 <= MaxU64 /\ nextId' = nextId + 1

-----------------------------------------------------------------------------
(* Entry points *)

Initialize(cfg) ==
    /\ adminConfig = None
    /\ cfg.threshold > 0
    /\ Len(cfg.admins) >= cfg.threshold
    /\ adminConfig' = cfg
    /\ nextId' = 1
    /\ UNCHANGED <<campaigns, upgradeProposal, wasm, now>>

\* mutant: the expiration is not compared with the ledger's time
CreateExpired(merchant, reward, expiration, days) ==
    /\ reward > 0
    /\ nextId \in CampaignId
    /\ BumpId(nextId)
    /\ campaigns' = [campaigns EXCEPT ![nextId] =
           [merchant |-> merchant, reward_amount |-> reward,
            expiration |-> expiration, created_at |-> now, active |-> TRUE,
            total_claimed |-> 0, vesting_period_days |-> days]]
    /\ UNCHANGED <<upgrade, now>>

CreateCampaign(merchant, reward, expiration, days) ==
    /\ reward > 0
    /\ expiration > now
    /\ nextId \in CampaignId
    /\ BumpId(nextId)
    /\ campaigns' = [campaigns EXCEPT ![nextId] =
           [merchant |-> merchant, reward_amount |-> reward,
            expiration |-> expiration, created_at |-> now, active |-> TRUE,
            total_claimed |-> 0, vesting_period_days |-> days]]
    /\ UNCHANGED <<upgrade, now>>

\* mutant: reactivation starts the count again
SetActiveResets(caller, id, active) ==
    /\ Exists(id)
    /\ caller = campaigns[id].merchant
    /\ campaigns' = [campaigns EXCEPT ![id].active = active,
                                      ![id].total_claimed = 0]
    /\ UNCHANGED <<nextId, upgrade, now>>

SetActive(caller, id, active) ==
    /\ Exists(id)
    /\ caller = campaigns[id].merchant
    /\ campaigns' = [campaigns EXCEPT ![id].active = active]
    /\ UNCHANGED <<nextId, upgrade, now>>

\* no authorisation: anyone may count a claim
RecordClaim(id) ==
    /\ Exists(id)
    /\ campaigns[id].total_claimed + 1 <= MaxU64
    /\ campaigns' = [campaigns EXCEPT ![id].total_claimed = @ + 1]
    /\ UNCHANGED <<nextId, upgrade, now>>

ProposeUpgrade(admin, hash) ==
    /\ IsAdmin(admin)
    /\ upgradeProposal = None
    /\ upgradeProposal' = [wasm_hash |-> hash, proposed_at |-> now,
                           signatures |-> <<admin>>]
    /\ UNCHANGED <<registry, adminConfig, wasm, now>>

\* mutant: an admin may sign twice
AuthorizeAgain(admin) ==
    /\ IsAdmin(admin)
    /\ upgradeProposal # None
    /\ upgradeProposal' = [upgradeProposal EXCEPT !.signatures = Append(@, admin)]
    /\ UNCHANGED <<registry, adminConfig, wasm, now>>

AuthorizeUpgrade(admin) ==
    /\ IsAdmin(admin)
    /\ upgradeProposal # None
    /\ admin \notin Range(upgradeProposal.signatures)
    /\ upgradeProposal' = [upgradeProposal EXCEPT !.signatures = Append(@, admin)]
    /\ UNCHANGED <<registry, adminConfig, wasm, now>>

\* proposed_at + TIMELOCK is overflow-checked
ExecuteUpgrade(admin) ==
    /\ IsAdmin(admin)
    /\ upgradeProposal # None
    /\ Len(upgradeProposal.signatures) >= adminConfig.threshold
    /\ upgradeProposal.proposed_at + Timelock <= MaxU64
    /\ now >= upgradeProposal.proposed_at + Timelock
    /\ wasm' = upgradeProposal.wasm_hash
    /\ upgradeProposal' = None
    /\ UNCHANGED <<registry, adminConfig, now>>

\* any one admin; the storage entry is removed whether or not it exists
CancelUpgrade(admin) ==
    /\ IsAdmin(admin)
    /\ upgradeProposal' = None
    /\ UNCHANGED <<registry, adminConfig, wasm, now>>

\* the next ledger closes
Tick ==
    /\ now < MaxTime
    /\ now' = now + 1
    /\ UNCHANGED <<registry, upgrade>>

Next ==
    \/ \E cfg \in AdminsArgs : Initialize(cfg)
    \/ \E m \in Address, r \in RewardArgs, e \in ExpirationArgs,
          d \in VestingDaysArgs : CreateCampaign(m, r, e, d)
    \/ \E m \in Address, id \in CampaignId, b \in BOOLEAN : SetActive(m, id, b)
    \/ \E id \in CampaignId : RecordClaim(id)
    \/ \E a \in Address, h \in WasmHash : ProposeUpgrade(a, h)
    \/ \E a \in Address : AuthorizeUpgrade(a)
    \/ \E a \in Address : ExecuteUpgrade(a)
    \/ \E a \in Address : CancelUpgrade(a)
    \/ Tick

Spec == Init /\ [][Next]_vars

-----------------------------------------------------------------------------
(* Properties *)

\* Type correctness, with the facts about time every reader of a campaign
\* relies on: a campaign was created no later than now and before it expires.
TypeOK ==
    /\ campaigns \in [CampaignId -> Campaign \cup {None}]
    /\ \A id \in CampaignId : campaigns[id] # None =>
           /\ campaigns[id].created_at <= now
           /\ campaigns[id].created_at < campaigns[id].expiration
    /\ nextId \in Nat \ {0}
    /\ adminConfig \in AdminConfig \cup {None}
    /\ upgradeProposal \in UpgradeProposal \cup {None}
    /\ wasm \in WasmHash
    /\ now \in Nat

Terms(c) == <<c.merchant, c.reward_amount, c.expiration, c.created_at,
              c.vesting_period_days>>

\* Campaign id keeps the terms it was created with and forgets no claim
KeepsItsTerms(id) ==
    Exists(id) => /\ Exists(id)'
                  /\ Terms(campaigns[id]') = Terms(campaigns[id])
                  /\ campaigns[id]'.total_claimed >= campaigns[id].total_claimed

\* "once created, `reward_amount` and `expiration` are immutable"
\* (contracts/README.md:203), of every campaign.  A campaign created before
\* initialize is overwritten by the first one created after it.
CampaignTermsImmutable == [][\A id \in CampaignId : KeepsItsTerms(id)]_vars

\* What the code does keep of it: a campaign below the id counter is never
\* replaced, whoever creates, toggles or counts, and in whatever order; and a
\* campaign is below the counter from the step that creates it.
IssuedTermsImmutable ==
    [][\A id \in CampaignId :
          /\ id < nextId => KeepsItsTerms(id)
          /\ (~Exists(id) /\ Exists(id)') => id < nextId']_vars

\* The admins whose authorisation is on the pending upgrade
Authorizers ==
    IF upgradeProposal = None \/ adminConfig = None THEN {}
    ELSE Range(upgradeProposal.signatures) \cap Range(adminConfig.admins)

\* The contract's code changes only to the hash that has been on the table for
\* the whole timelock, unchanged, and that `threshold` different admins signed:
\* a pending proposal keeps its hash and its clock until it disappears.
UpgradeNeedsQuorumAndDelay ==
    [][/\ wasm' # wasm =>
             /\ wasm' = upgradeProposal.wasm_hash
             /\ now >= upgradeProposal.proposed_at + Timelock
             /\ Cardinality(Authorizers) >= adminConfig.threshold
       /\ (upgradeProposal # None /\ upgradeProposal' # None) =>
             /\ upgradeProposal'.wasm_hash = upgradeProposal.wasm_hash
             /\ upgradeProposal'.proposed_at = upgradeProposal.proposed_at]_vars
=============================================================================
