------------------------- MODULE TokenContractProofs -------------------------
(***************************************************************************)
(* Proofs about TokenContract for every set of addresses and arguments.    *)
(***************************************************************************)
EXTENDS TokenContract, SignatureLemmas, TLAPS

\* What is left of an allowance that covers the amount is not negative.
LEMMA Spend ==
  ASSUME NEW a \in Nat, NEW x \in Int, a >= x
  PROVE  a - x \in Nat
  OBVIOUS

USE TokenAssumption DEF TokenAssumption

\* The initial state has the right types.
LEMMA InitTypeOK == Init => TypeOK
  BY DEF Init, TypeOK, MinI128

\* Moving tokens keeps every balance between zero and the largest i128,
\* whether or not the two accounts are the same.
LEMMA MoveBalanceType ==
  ASSUME TypeOK, NEW from \in Address, NEW to \in Address,
         NEW amount \in AmountArgs, MoveBalance(from, to, amount)
  PROVE  balance' \in [Address -> 0..MaxI128]
  BY DEF TypeOK, MoveBalance

\* Every entry point keeps the types: no overdraft, no negative allowance, no
\* value outside i128.
LEMMA NextTypeOK == TypeOK /\ [Next]_vars => TypeOK'
<1> SUFFICES ASSUME TypeOK, [Next]_vars PROVE TypeOK'
  OBVIOUS
<1> USE DEF TypeOK, funds, governance, MultiSigConfig, SetAdminProposal
<1>1. ASSUME NEW cfg \in MultiSigArgs, NEW m \in Address, Initialize(cfg, m)
      PROVE  TypeOK'
  BY <1>1 DEF Initialize, MinI128
<1>2. ASSUME NEW c \in Address, NEW to \in Address, NEW x \in AmountArgs,
             Mint(c, to, x)
      PROVE  TypeOK'
  BY <1>2 DEF Mint, MinI128
<1>3. ASSUME NEW from \in Address, NEW x \in AmountArgs, Burn(from, x)
      PROVE  TypeOK'
  BY <1>3 DEF Burn, MinI128
<1>4. ASSUME NEW from \in Address, NEW to \in Address, NEW x \in AmountArgs,
             Transfer(from, to, x)
      PROVE  TypeOK'
  BY <1>4, MoveBalanceType DEF Transfer
<1>5. ASSUME NEW o \in Address, NEW s \in Address, NEW x \in AllowanceArgs,
             Approve(o, s, x)
      PROVE  TypeOK'
  BY <1>5 DEF Approve
<1>6. ASSUME NEW s \in Address, NEW from \in Address, NEW to \in Address,
             NEW x \in AmountArgs, TransferFrom(s, from, to, x)
      PROVE  TypeOK'
  <2>1. allowance[from][s] >= x /\ MoveBalance(from, to, x)
    BY <1>6 DEF TransferFrom
  <2>2. allowance[from][s] \in Nat /\ x \in Int
    OBVIOUS
  <2>3. allowance[from][s] - x \in Nat
    BY <2>1, <2>2, Spend
  <2>4. allowance' = [allowance EXCEPT ![from][s] = allowance[from][s] - x]
    BY <1>6 DEF TransferFrom
  <2>5. allowance' \in [Address -> [Address -> Nat]]
    BY <2>3, <2>4
  <2> QED
    BY <1>6, <2>5, MoveBalanceType DEF TransferFrom
<1>7. ASSUME NEW s \in Address, NEW cfg \in MultiSigArgs, NEW m \in Address,
             ProposeSetAdmin(s, cfg, m)
      PROVE  TypeOK'
  <2>1. proposal' \in SetAdminProposal
    BY <1>7 DEF ProposeSetAdmin
  <2> QED
    BY <1>7, <2>1 DEF ProposeSetAdmin
<1>8. ASSUME NEW s \in Address, ApproveSetAdmin(s)
      PROVE  TypeOK'
  <2>1. proposal \in SetAdminProposal
    BY <1>8 DEF ApproveSetAdmin
  <2>2. Append(proposal.signatures, s) \in Seq(Address)
    BY <2>1
  <2>3. proposal' \in SetAdminProposal
    BY <1>8, <2>1, <2>2 DEF ApproveSetAdmin
  <2> QED
    BY <1>8, <2>3 DEF ApproveSetAdmin
<1>9. ASSUME NEW s \in Address, ExecuteSetAdmin(s)
      PROVE  TypeOK'
  BY <1>9 DEF ExecuteSetAdmin
<1>10. CASE UNCHANGED vars
  BY <1>10 DEF vars
<1> QED
  BY <1>1, <1>2, <1>3, <1>4, <1>5, <1>6, <1>7, <1>8, <1>9, <1>10 DEF Next

\* Whatever the calls and their order, no balance or allowance is overdrawn
\* and every stored value has its type.
THEOREM TypeCorrect == Spec => []TypeOK
  BY InitTypeOK, NextTypeOK, PTL DEF Spec

-----------------------------------------------------------------------------

GovInv == TypeOK /\ ProposalSignedByCurrentSigners

\* Signatures stay those of distinct current signers: a new one is checked
\* against the list and the configuration, and the configuration changes only
\* together with the removal of the proposal.
LEMMA NextGovInv == GovInv /\ [Next]_vars => GovInv'
<1> SUFFICES ASSUME GovInv, [Next]_vars
             PROVE  ProposalSignedByCurrentSigners'
  BY NextTypeOK DEF GovInv
<1> USE DEF GovInv, ProposalSignedByCurrentSigners
<1>1. ASSUME NEW cfg \in MultiSigArgs, NEW m \in Address, Initialize(cfg, m)
      PROVE  ProposalSignedByCurrentSigners'
  BY <1>1 DEF Initialize
<1>2. ASSUME UNCHANGED governance
      PROVE  ProposalSignedByCurrentSigners'
  BY <1>2 DEF governance
<1>3. ASSUME NEW s \in Address, NEW cfg \in MultiSigArgs, NEW m \in Address,
             ProposeSetAdmin(s, cfg, m)
      PROVE  ProposalSignedByCurrentSigners'
  <2>1. proposal'.signatures = <<s>> /\ multisig' = multisig /\ IsSigner(s)
    BY <1>3 DEF ProposeSetAdmin
  <2> QED
    BY <2>1, OneSigner DEF IsSigner
<1>4. ASSUME NEW s \in Address, ApproveSetAdmin(s)
      PROVE  ProposalSignedByCurrentSigners'
  <2> DEFINE sigs == proposal.signatures
  <2>1. proposal \in SetAdminProposal
    BY <1>4 DEF ApproveSetAdmin, TypeOK
  <2>2. sigs \in Seq(Address) /\ proposal'.signatures = Append(sigs, s)
    BY <1>4, <2>1 DEF ApproveSetAdmin, SetAdminProposal
  <2>3. /\ IsSigner(s) /\ s \notin Range(sigs) /\ multisig' = multisig
        /\ IsInjective(sigs) /\ Range(sigs) \subseteq Range(multisig.signers)
    BY <1>4 DEF ApproveSetAdmin, HasSigned
  <2>4. IsInjective(Append(sigs, s)) /\ Range(Append(sigs, s)) = Range(sigs) \cup {s}
    BY <2>2, <2>3, AppendSigner
  <2> QED
    BY <2>2, <2>3, <2>4 DEF IsSigner
<1>5. ASSUME NEW s \in Address, ExecuteSetAdmin(s)
      PROVE  ProposalSignedByCurrentSigners'
  BY <1>5 DEF ExecuteSetAdmin
<1> QED
  BY <1>1, <1>2, <1>3, <1>4, <1>5
     DEF Next, vars, Mint, Burn, Transfer, Approve, TransferFrom

LEMMA InitGovInv == Init => GovInv
  BY InitTypeOK DEF GovInv, ProposalSignedByCurrentSigners, Init

\* No signature is counted twice and none outlives the configuration it was
\* given under.
THEOREM SignaturesAreCurrent == Spec => []ProposalSignedByCurrentSigners
<1>1. GovInv => ProposalSignedByCurrentSigners
  BY DEF GovInv
<1> QED
  BY <1>1, InitGovInv, NextGovInv, PTL DEF Spec

\* Only execute_set_admin changes an existing configuration, and the length it
\* compares with the threshold is a number of different current signers.
LEMMA RotationStep ==
  ASSUME GovInv, [Next]_vars, multisig # None,
         <<multisig, minter>>' # <<multisig, minter>>
  PROVE  Cardinality(Endorsers) >= multisig.threshold
<1>1. \E s \in Address : ExecuteSetAdmin(s)
  BY DEF Next, vars, governance, Initialize, Mint, Burn, Transfer, Approve,
         TransferFrom, ProposeSetAdmin, ApproveSetAdmin
<1>2. /\ proposal # None
      /\ Len(proposal.signatures) >= multisig.threshold
  BY <1>1 DEF ExecuteSetAdmin
<1>3. proposal.signatures \in Seq(Address)
  BY <1>2 DEF GovInv, TypeOK, SetAdminProposal
<1>4. /\ IsInjective(proposal.signatures)
      /\ Range(proposal.signatures) \subseteq Range(multisig.signers)
  BY <1>2 DEF GovInv, ProposalSignedByCurrentSigners
<1>5. Endorsers = Range(proposal.signatures)
  BY <1>2, <1>4 DEF Endorsers
<1>6. Cardinality(Endorsers) = Len(proposal.signatures)
  BY <1>3, <1>4, <1>5, SignersOfInjectiveList
<1> QED
  BY <1>2, <1>6

\* The minter and the multi-sig configuration of an initialised token change
\* only with the signatures of `threshold` different current signers.
THEOREM RotationSafe == Spec => RotationNeedsQuorum
<1>1. GovInv /\ [Next]_vars
        => [(multisig # None /\ <<multisig, minter>>' # <<multisig, minter>>)
               => Cardinality(Endorsers) >= multisig.threshold]_vars
  BY RotationStep
<1> QED
  BY <1>1, InitGovInv, NextGovInv, PTL DEF Spec, RotationNeedsQuorum

\* Only execute_set_admin removes or replaces a pending proposal: initialize is
\* closed by then, and propose_set_admin waits until it is gone.
LEMMA PendingStep ==
  ASSUME GovInv, [Next]_vars, proposal # None
  PROVE  \/ /\ proposal' # None
            /\ proposal'.new_config = proposal.new_config
            /\ proposal'.new_minter = proposal.new_minter
            /\ UNCHANGED <<multisig, minter>>
         \/ /\ proposal' = None
            /\ multisig' = proposal.new_config
            /\ minter' = proposal.new_minter
<1>1. multisig # None
  BY DEF GovInv, ProposalSignedByCurrentSigners
<1>2. proposal \in SetAdminProposal
  BY DEF GovInv, TypeOK
<1>3. ASSUME NEW s \in Address, ApproveSetAdmin(s)
      PROVE  /\ proposal' # None
             /\ proposal'.new_config = proposal.new_config
             /\ proposal'.new_minter = proposal.new_minter
             /\ UNCHANGED <<multisig, minter>>
  <2>1. /\ proposal' = [proposal EXCEPT !.signatures = Append(@, s)]
        /\ UNCHANGED <<multisig, minter>>
    BY <1>3 DEF ApproveSetAdmin
  <2>2. Append(proposal.signatures, s) \in Seq(Address)
    BY <1>2 DEF SetAdminProposal
  <2>3. proposal' \in SetAdminProposal
    BY <1>2, <2>1, <2>2 DEF SetAdminProposal
  <2> QED
    BY <1>2, <2>1, <2>3, NoneIsNoProposal DEF SetAdminProposal
<1>4. CASE UNCHANGED governance
  BY <1>4 DEF governance
<1>5. ASSUME NEW s \in Address, ExecuteSetAdmin(s)
      PROVE  /\ proposal' = None
             /\ multisig' = proposal.new_config
             /\ minter' = proposal.new_minter
  BY <1>5 DEF ExecuteSetAdmin
<1> QED
  BY <1>1, <1>3, <1>4, <1>5
     DEF Next, vars, governance, Initialize, Mint, Burn, Transfer, Approve,
         TransferFrom, ProposeSetAdmin

\* What the signers signed is what is installed.
THEOREM SignedTermsSafe == Spec => SignedTermsAreInstalled
<1>1. GovInv /\ [Next]_vars
        => [proposal # None =>
              \/ /\ proposal' # None
                 /\ proposal'.new_config = proposal.new_config
                 /\ proposal'.new_minter = proposal.new_minter
                 /\ UNCHANGED <<multisig, minter>>
              \/ /\ proposal' = None
                 /\ multisig' = proposal.new_config
                 /\ minter' = proposal.new_minter]_vars
  BY PendingStep
<1> QED
  BY <1>1, InitGovInv, NextGovInv, PTL DEF Spec, SignedTermsAreInstalled
=============================================================================
