------------------------ MODULE CampaignContractProofs ------------------------
(***************************************************************************)
(* Proofs about CampaignContract for every set of addresses, timelock,     *)
(* bound and argument.                                                     *)
(***************************************************************************)
EXTENDS CampaignContract, SignatureLemmas, TLAPS

USE CampaignAssumption DEF CampaignAssumption

LEMMA InitTypeOK == Init => TypeOK
  BY DEF Init, TypeOK, CampaignId

LEMMA NextTypeOK == TypeOK /\ [Next]_vars => TypeOK'
<1> SUFFICES ASSUME TypeOK, [Next]_vars PROVE TypeOK'
  OBVIOUS
<1> USE DEF TypeOK, registry, upgrade
<1>1. ASSUME NEW cfg \in AdminsArgs, Initialize(cfg)
      PROVE  TypeOK'
  BY <1>1 DEF Initialize
<1>2. ASSUME NEW m \in Address, NEW r \in RewardArgs, NEW e \in ExpirationArgs,
             NEW d \in VestingDaysArgs, CreateCampaign(m, r, e, d)
      PROVE  TypeOK'
  <2> DEFINE c == [merchant |-> m, reward_amount |-> r, expiration |-> e,
                   created_at |-> now, active |-> TRUE, total_claimed |-> 0,
                   vesting_period_days |-> d]
  <2>1. nextId \in CampaignId /\ nextId' = nextId + 1 /\ e > now /\ r > 0
    BY <1>2 DEF CreateCampaign, BumpId
  <2>2. c \in Campaign /\ c.created_at = now /\ c.expiration = e
    BY <2>1 DEF Campaign
  <2>3. campaigns' = [campaigns EXCEPT ![nextId] = c]
    BY <1>2 DEF CreateCampaign
  <2>4. campaigns' \in [CampaignId -> Campaign \cup {None}]
    BY <2>1, <2>2, <2>3
  <2>5. \A id \in CampaignId : campaigns'[id] # None =>
            /\ campaigns'[id].created_at <= now
            /\ campaigns'[id].created_at < campaigns'[id].expiration
    BY <2>1, <2>2, <2>3
  <2> QED
    BY <1>2, <2>1, <2>4, <2>5 DEF CreateCampaign
<1>3. ASSUME NEW m \in Address, NEW id \in CampaignId, NEW b \in BOOLEAN,
             SetActive(m, id, b)
      PROVE  TypeOK'
  <2>1. campaigns[id] \in Campaign
    BY <1>3 DEF SetActive, Exists
  <2>2. campaigns' = [campaigns EXCEPT ![id] = [campaigns[id] EXCEPT !.active = b]]
    BY <1>3 DEF SetActive
  <2>3. [campaigns[id] EXCEPT !.active = b] \in Campaign
    BY <2>1 DEF Campaign
  <2>4. campaigns' \in [CampaignId -> Campaign \cup {None}]
    BY <2>2, <2>3
  <2>5. \A i \in CampaignId : campaigns'[i] # None =>
            /\ campaigns'[i].created_at <= now
            /\ campaigns'[i].created_at < campaigns'[i].expiration
    BY <1>3, <2>1, <2>2 DEF SetActive, Exists, Campaign
  <2> QED
    BY <1>3, <2>4, <2>5 DEF SetActive
<1>4. ASSUME NEW id \in CampaignId, RecordClaim(id)
      PROVE  TypeOK'
  <2> DEFINE n == campaigns[id].total_claimed
  <2>1. campaigns[id] \in Campaign
    BY <1>4 DEF RecordClaim, Exists
  <2>2. n + 1 \in 0..MaxU64
    BY <1>4, <2>1 DEF RecordClaim, Campaign
  <2>3. campaigns' = [campaigns EXCEPT ![id] =
                          [campaigns[id] EXCEPT !.total_claimed = n + 1]]
    BY <1>4 DEF RecordClaim
  <2>4. [campaigns[id] EXCEPT !.total_claimed = n + 1] \in Campaign
    BY <2>1, <2>2 DEF Campaign
  <2>5. campaigns' \in [CampaignId -> Campaign \cup {None}]
    BY <2>3, <2>4
  <2>6. \A i \in CampaignId : campaigns'[i] # None =>
            /\ campaigns'[i].created_at <= now
            /\ campaigns'[i].created_at < campaigns'[i].expiration
    BY <1>4, <2>1, <2>3 DEF RecordClaim, Exists, Campaign
  <2> QED
    BY <1>4, <2>5, <2>6 DEF RecordClaim
<1>5. ASSUME NEW a \in Address, NEW h \in WasmHash, ProposeUpgrade(a, h)
      PROVE  TypeOK'
  <2>1. upgradeProposal' \in UpgradeProposal
    BY <1>5 DEF ProposeUpgrade, UpgradeProposal
  <2> QED
    BY <1>5, <2>1 DEF ProposeUpgrade
<1>6. ASSUME NEW a \in Address, AuthorizeUpgrade(a)
      PROVE  TypeOK'
  <2>1. upgradeProposal \in UpgradeProposal
    BY <1>6 DEF AuthorizeUpgrade
  <2>2. Append(upgradeProposal.signatures, a) \in Seq(Address)
    BY <2>1 DEF UpgradeProposal
  <2>3. upgradeProposal' \in UpgradeProposal
    BY <1>6, <2>1, <2>2 DEF AuthorizeUpgrade, UpgradeProposal
  <2> QED
    BY <1>6, <2>3 DEF AuthorizeUpgrade
<1>7. ASSUME NEW a \in Address, ExecuteUpgrade(a)
      PROVE  TypeOK'
  BY <1>7 DEF ExecuteUpgrade, UpgradeProposal
<1>8. ASSUME NEW a \in Address, CancelUpgrade(a)
      PROVE  TypeOK'
  BY <1>8 DEF CancelUpgrade
<1>9. CASE Tick
  <2>1. now' = now + 1 /\ UNCHANGED <<campaigns, nextId, adminConfig,
                                      upgradeProposal, wasm>>
    BY <1>9 DEF Tick
  <2>2. \A id \in CampaignId : campaigns[id] # None =>
            campaigns[id].created_at \in Nat /\ campaigns[id].created_at <= now + 1
    BY DEF Campaign
  <2> QED
    BY <2>1, <2>2
<1>10. CASE UNCHANGED vars
  BY <1>10 DEF vars
<1> QED
  BY <1>1, <1>2, <1>3, <1>4, <1>5, <1>6, <1>7, <1>8, <1>9, <1>10 DEF Next

\* Every stored value has its type, and every campaign's window lies around
\* the time it was created at.
THEOREM TypeCorrect == Spec => []TypeOK
  BY InitTypeOK, NextTypeOK, PTL DEF Spec

-----------------------------------------------------------------------------

\* A stored campaign keeps its terms and its count in a step that leaves the
\* registry alone.
LEMMA SameRegistry ==
  ASSUME TypeOK, NEW id \in CampaignId, campaigns'[id] = campaigns[id]
  PROVE  KeepsItsTerms(id)
<1>1. campaigns[id] # None => campaigns[id].total_claimed \in Nat
  BY DEF TypeOK, Campaign
<1> QED
  BY <1>1 DEF KeepsItsTerms, Exists, Terms

\* The step of IssuedTermsImmutable, entry point by entry point.
LEMMA IssuedTermsStep ==
  ASSUME TypeOK, [Next]_vars, NEW id \in CampaignId
  PROVE  /\ id < nextId => KeepsItsTerms(id)
         /\ (~Exists(id) /\ Exists(id)') => id < nextId'
<1>1. ASSUME NEW m \in Address, NEW r \in RewardArgs, NEW e \in ExpirationArgs,
             NEW d \in VestingDaysArgs, CreateCampaign(m, r, e, d)
      PROVE  /\ id < nextId => KeepsItsTerms(id)
             /\ (~Exists(id) /\ Exists(id)') => id < nextId'
  <2>1. nextId' = nextId + 1 /\ nextId \in Nat
    BY <1>1 DEF CreateCampaign, BumpId, TypeOK
  <2>2. id # nextId => campaigns'[id] = campaigns[id]
    BY <1>1 DEF CreateCampaign, TypeOK
  <2>3. id < nextId => KeepsItsTerms(id)
    BY <2>1, <2>2, SameRegistry
  <2>4. (~Exists(id) /\ Exists(id)') => id = nextId
    BY <2>2 DEF Exists
  <2> QED
    BY <2>1, <2>3, <2>4
<1>2. ASSUME NEW m \in Address, NEW i \in CampaignId, NEW b \in BOOLEAN,
             SetActive(m, i, b)
      PROVE  KeepsItsTerms(id) /\ Exists(id)' = Exists(id)
  <2>1. campaigns[i] \in Campaign /\ campaigns[i] # None
    BY <1>2 DEF SetActive, Exists, TypeOK
  <2>2. id # i => campaigns'[id] = campaigns[id]
    BY <1>2 DEF SetActive, TypeOK
  <2>3. CASE id = i
    <3>1. campaigns'[i] = [campaigns[i] EXCEPT !.active = b]
      BY <1>2 DEF SetActive, TypeOK
    <3>2. /\ campaigns'[i] \in Campaign
          /\ Terms(campaigns'[i]) = Terms(campaigns[i])
          /\ campaigns'[i].total_claimed = campaigns[i].total_claimed
      BY <2>1, <3>1 DEF Campaign, Terms
    <3>3. campaigns'[i] # None
      BY <3>2, NoneIsNoCampaign
    <3> QED
      BY <2>1, <2>3, <3>2, <3>3 DEF KeepsItsTerms, Exists, Campaign
  <2> QED
    BY <2>2, <2>3, SameRegistry DEF Exists
<1>3. ASSUME NEW i \in CampaignId, RecordClaim(i)
      PROVE  KeepsItsTerms(id) /\ Exists(id)' = Exists(id)
  <2> DEFINE n == campaigns[i].total_claimed
  <2>1. campaigns[i] \in Campaign /\ campaigns[i] # None /\ n \in 0..MaxU64
        /\ n + 1 \in 0..MaxU64
    BY <1>3 DEF RecordClaim, Exists, TypeOK, Campaign
  <2>2. id # i => campaigns'[id] = campaigns[id]
    BY <1>3 DEF RecordClaim, TypeOK
  <2>3. CASE id = i
    <3>1. campaigns'[i] = [campaigns[i] EXCEPT !.total_claimed = n + 1]
      BY <1>3 DEF RecordClaim, TypeOK
    <3>2. /\ campaigns'[i] \in Campaign
          /\ Terms(campaigns'[i]) = Terms(campaigns[i])
          /\ campaigns'[i].total_claimed = n + 1
      BY <2>1, <3>1 DEF Campaign, Terms
    <3>3. campaigns'[i] # None
      BY <3>2, NoneIsNoCampaign
    <3> QED
      BY <2>1, <2>3, <3>2, <3>3 DEF KeepsItsTerms, Exists
  <2> QED
    BY <2>2, <2>3, SameRegistry DEF Exists
<1>4. ASSUME UNCHANGED campaigns
      PROVE  KeepsItsTerms(id) /\ Exists(id)' = Exists(id)
  BY <1>4, SameRegistry DEF Exists
<1> QED
  BY <1>1, <1>2, <1>3, <1>4
     DEF Next, vars, registry, Initialize, ProposeUpgrade, AuthorizeUpgrade,
         ExecuteUpgrade, CancelUpgrade, Tick

\* Below the id counter no campaign is ever replaced or uncounted, and every
\* campaign is below it once created.
THEOREM IssuedTermsKept == Spec => IssuedTermsImmutable
<1>1. TypeOK /\ [Next]_vars
        => [\A id \in CampaignId :
               /\ id < nextId => KeepsItsTerms(id)
               /\ (~Exists(id) /\ Exists(id)') => id < nextId']_vars
  BY IssuedTermsStep
<1> QED
  BY <1>1, InitTypeOK, NextTypeOK, PTL DEF Spec, IssuedTermsImmutable

-----------------------------------------------------------------------------

\* The signatures on a pending upgrade are those of different admins
UpgradeSigned ==
    upgradeProposal # None =>
        /\ adminConfig # None
        /\ IsInjective(upgradeProposal.signatures)
        /\ Range(upgradeProposal.signatures) \subseteq Range(adminConfig.admins)

UpgradeInv == TypeOK /\ UpgradeSigned

LEMMA InitUpgradeInv == Init => UpgradeInv
  BY InitTypeOK DEF UpgradeInv, UpgradeSigned, Init

\* The admins are set once, and every signature is a new one of an admin.
LEMMA NextUpgradeInv == UpgradeInv /\ [Next]_vars => UpgradeInv'
<1> SUFFICES ASSUME UpgradeInv, [Next]_vars PROVE UpgradeSigned'
  BY NextTypeOK DEF UpgradeInv
<1> USE DEF UpgradeInv, UpgradeSigned
<1>1. ASSUME NEW cfg \in AdminsArgs, Initialize(cfg)
      PROVE  UpgradeSigned'
  BY <1>1 DEF Initialize
<1>2. ASSUME UNCHANGED <<adminConfig, upgradeProposal>>
      PROVE  UpgradeSigned'
  BY <1>2
<1>3. ASSUME NEW a \in Address, NEW h \in WasmHash, ProposeUpgrade(a, h)
      PROVE  UpgradeSigned'
  <2>1. /\ upgradeProposal'.signatures = <<a>>
        /\ adminConfig' = adminConfig /\ IsAdmin(a)
    BY <1>3 DEF ProposeUpgrade
  <2> QED
    BY <2>1, OneSigner DEF IsAdmin
<1>4. ASSUME NEW a \in Address, AuthorizeUpgrade(a)
      PROVE  UpgradeSigned'
  <2> DEFINE sigs == upgradeProposal.signatures
  <2>1. upgradeProposal \in UpgradeProposal
    BY <1>4 DEF AuthorizeUpgrade, TypeOK
  <2>2. sigs \in Seq(Address) /\ upgradeProposal'.signatures = Append(sigs, a)
    BY <1>4, <2>1 DEF AuthorizeUpgrade, UpgradeProposal
  <2>3. /\ IsAdmin(a) /\ a \notin Range(sigs) /\ adminConfig' = adminConfig
        /\ IsInjective(sigs) /\ Range(sigs) \subseteq Range(adminConfig.admins)
    BY <1>4 DEF AuthorizeUpgrade
  <2>4. IsInjective(Append(sigs, a)) /\ Range(Append(sigs, a)) = Range(sigs) \cup {a}
    BY <2>2, <2>3, AppendSigner
  <2> QED
    BY <2>2, <2>3, <2>4 DEF IsAdmin
<1>5. ASSUME NEW a \in Address, ExecuteUpgrade(a)
      PROVE  UpgradeSigned'
  BY <1>5 DEF ExecuteUpgrade
<1>6. ASSUME NEW a \in Address, CancelUpgrade(a)
      PROVE  UpgradeSigned'
  BY <1>6 DEF CancelUpgrade
<1> QED
  BY <1>1, <1>2, <1>3, <1>4, <1>5, <1>6
     DEF Next, vars, upgrade, CreateCampaign, SetActive, RecordClaim, Tick

\* Only execute_upgrade changes the code; what it counts are different admins.
LEMMA UpgradeStep ==
  ASSUME UpgradeInv, [Next]_vars, wasm' # wasm
  PROVE  /\ wasm' = upgradeProposal.wasm_hash
         /\ now >= upgradeProposal.proposed_at + Timelock
         /\ Cardinality(Authorizers) >= adminConfig.threshold
<1>1. \E a \in Address : ExecuteUpgrade(a)
  BY DEF Next, vars, upgrade, Initialize, CreateCampaign, SetActive, RecordClaim,
         ProposeUpgrade, AuthorizeUpgrade, CancelUpgrade, Tick
<1>2. /\ upgradeProposal # None
      /\ adminConfig # None
      /\ Len(upgradeProposal.signatures) >= adminConfig.threshold
      /\ now >= upgradeProposal.proposed_at + Timelock
      /\ wasm' = upgradeProposal.wasm_hash
  BY <1>1 DEF ExecuteUpgrade, IsAdmin
<1>3. upgradeProposal.signatures \in Seq(Address)
  BY <1>2 DEF UpgradeInv, TypeOK, UpgradeProposal
<1>4. /\ IsInjective(upgradeProposal.signatures)
      /\ Range(upgradeProposal.signatures) \subseteq Range(adminConfig.admins)
  BY <1>2 DEF UpgradeInv, UpgradeSigned
<1>5. Authorizers = Range(upgradeProposal.signatures)
  BY <1>2, <1>4 DEF Authorizers
<1>6. Cardinality(Authorizers) = Len(upgradeProposal.signatures)
  BY <1>3, <1>4, <1>5, SignersOfInjectiveList
<1> QED
  BY <1>2, <1>6

\* A pending upgrade that stays pending keeps its hash and its clock.
LEMMA PendingStep ==
  ASSUME UpgradeInv, [Next]_vars, upgradeProposal # None, upgradeProposal' # None
  PROVE  /\ upgradeProposal'.wasm_hash = upgradeProposal.wasm_hash
         /\ upgradeProposal'.proposed_at = upgradeProposal.proposed_at
<1>1. ASSUME NEW a \in Address, AuthorizeUpgrade(a)
      PROVE  /\ upgradeProposal'.wasm_hash = upgradeProposal.wasm_hash
             /\ upgradeProposal'.proposed_at = upgradeProposal.proposed_at
  <2>1. upgradeProposal \in UpgradeProposal
    BY DEF UpgradeInv, TypeOK
  <2> QED
    BY <1>1, <2>1 DEF AuthorizeUpgrade, UpgradeProposal
<1> QED
  BY <1>1 DEF Next, vars, upgrade, Initialize, CreateCampaign, SetActive,
              RecordClaim, ProposeUpgrade, ExecuteUpgrade, CancelUpgrade, Tick

\* The contract's code changes only to a hash that `threshold` different
\* admins signed and that was pending, unchanged, for the whole timelock.
THEOREM UpgradeSafe == Spec => UpgradeNeedsQuorumAndDelay
<1>1. UpgradeInv /\ [Next]_vars
        => [/\ wasm' # wasm =>
                  /\ wasm' = upgradeProposal.wasm_hash
                  /\ now >= upgradeProposal.proposed_at + Timelock
                  /\ Cardinality(Authorizers) >= adminConfig.threshold
            /\ (upgradeProposal # None /\ upgradeProposal' # None) =>
                  /\ upgradeProposal'.wasm_hash = upgradeProposal.wasm_hash
                  /\ upgradeProposal'.proposed_at = upgradeProposal.proposed_at]_vars
  BY UpgradeStep, PendingStep
<1> QED
  BY <1>1, InitUpgradeInv, NextUpgradeInv, PTL DEF Spec, UpgradeNeedsQuorumAndDelay
=============================================================================
