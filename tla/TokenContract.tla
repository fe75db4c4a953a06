---------------------------- MODULE TokenContract ----------------------------
(***************************************************************************)
(* The loyalty token, contracts/token/src/lib.rs.                          *)
(*                                                                         *)
(* One action per contract entry point that writes storage.  A Soroban     *)
(* invocation is atomic and a panic rolls every write back, so an          *)
(* assertion or a failed checked operation is a conjunct of the guard.     *)
(* `X.require_auth()` is the first parameter of an action: the address     *)
(* that authorised the call.  Storage that was never written is None, or   *)
(* the default the code reads (`unwrap_or(0)`).                            *)
(***************************************************************************)
EXTENDS Integers, Sequences, FiniteSets, Functions

CONSTANTS
    Address,        \* accounts and contracts
    None,           \* an absent storage entry
    MaxI128,        \* the largest i128; checked arithmetic panics above it
    AmountArgs,     \* amounts callers pass to mint, burn and the transfers
    AllowanceArgs,  \* amounts owners pass to approve
    MultiSigArgs    \* multi-sig configurations callers pass

MinI128 == -MaxI128 - 1

\* MultiSigConfig { signers: Vec<Address>, threshold: u32 }; Vec allows repeats
MultiSigConfig == [signers : Seq(Address), threshold : Nat]

\* SetAdminProposal { new_config, new_minter, signatures }
SetAdminProposal == [new_config : MultiSigConfig, new_minter : Address,
                     signatures : Seq(Address)]

ASSUME TokenAssumption ==
    /\ MaxI128 \in Nat
    /\ AmountArgs \subseteq Int
    /\ AllowanceArgs \subseteq Int
    /\ MultiSigArgs \subseteq MultiSigConfig

\* An absent proposal is no proposal
ASSUME NoneIsNoProposal == None \notin SetAdminProposal

VARIABLES
    balance,      \* DataKey::Balance(addr)
    allowance,    \* DataKey::Allowance(owner, spender), as allowance[owner][spender]
    totalSupply,  \* DataKey::TotalSupply
    multisig,     \* DataKey::MultiSig, None before initialize
    minter,       \* DataKey::Minter, None before initialize
    proposal      \* DataKey::SetAdminProposal, None when nothing is pending

funds == <<balance, allowance, totalSupply>>
governance == <<multisig, minter, proposal>>
vars == <<funds, governance>>

Init ==
    /\ balance = [a \in Address |-> 0]
    /\ allowance = [o \in Address |-> [s \in Address |-> 0]]
    /\ totalSupply = 0
    /\ multisig = None
    /\ minter = None
    /\ proposal = None

-----------------------------------------------------------------------------
(* Helpers *)

\* the checks initialize and propose_set_admin make of a configuration
ValidConfig(cfg) == cfg.threshold > 0 /\ Len(cfg.signers) >= cfg.threshold

IsSigner(signer) == multisig # None /\ signer \in Range(multisig.signers)

\* mutant: the search for an earlier signature never finds one
HasSignedNever(signatures, signer) == FALSE

HasSigned(signatures, signer) == signer \in Range(signatures)

\* mutant: the balance check is missing
MoveBalanceUnchecked(from, to, amount) ==
    /\ amount > 0
    /\ balance[to] + amount <= MaxI128
    /\ balance' = [balance EXCEPT ![from] = @ - amount,
                                  ![to] = balance[to] + amount]

\* debit then credit, with both balances read before either is written: when
\* from = to the credit overwrites the debit
MoveBalance(from, to, amount) ==
    /\ amount > 0
    /\ balance[from] >= amount
    /\ balance[to] + amount <= MaxI128
    /\ balance' = [balance EXCEPT ![from] = @ - amount,
                                  ![to] = balance[to] + amount]

-----------------------------------------------------------------------------
(* Entry points *)

Initialize(cfg, newMinter) ==
    /\ multisig = None
    /\ ValidConfig(cfg)
    /\ multisig' = cfg
    /\ minter' = newMinter
    /\ totalSupply' = 0
    /\ UNCHANGED <<balance, allowance, proposal>>

\* mutant: the minter's authorisation is not asked for
MintByAnyone(caller, to, amount) ==
    /\ minter # None
    /\ amount > 0
    /\ balance[to] + amount <= MaxI128
    /\ totalSupply + amount <= MaxI128
    /\ balance' = [balance EXCEPT ![to] = @ + amount]
    /\ totalSupply' = totalSupply + amount
    /\ UNCHANGED <<allowance, governance>>

Mint(caller, to, amount) ==
    /\ minter # None
    /\ caller = minter
    /\ amount > 0
    /\ balance[to] + amount <= MaxI128
    /\ totalSupply + amount <= MaxI128
    /\ balance' = [balance EXCEPT ![to] = @ + amount]
    /\ totalSupply' = totalSupply + amount
    /\ UNCHANGED <<allowance, governance>>

\* mutant: the supply is not reduced
BurnKeepsSupply(from, amount) ==
    /\ amount > 0
    /\ balance[from] >= amount
    /\ balance' = [balance EXCEPT ![from] = @ - amount]
    /\ UNCHANGED <<allowance, totalSupply, governance>>

Burn(from, amount) ==
    /\ amount > 0
    /\ balance[from] >= amount
    /\ totalSupply - amount >= MinI128
    /\ balance' = [balance EXCEPT ![from] = @ - amount]
    /\ totalSupply' = totalSupply - amount
    /\ UNCHANGED <<allowance, governance>>

Transfer(from, to, amount) ==
    /\ MoveBalance(from, to, amount)
    /\ UNCHANGED <<allowance, totalSupply, governance>>

Approve(owner, spender, amount) ==
    /\ amount >= 0
    /\ allowance' = [allowance EXCEPT ![owner][spender] = amount]
    /\ UNCHANGED <<balance, totalSupply, governance>>

TransferFrom(spender, from, to, amount) ==
    /\ allowance[from][spender] >= amount
    /\ MoveBalance(from, to, amount)
    /\ allowance' = [allowance EXCEPT ![from][spender] = @ - amount]
    /\ UNCHANGED <<totalSupply, governance>>

\* mutant: a second proposal replaces the pending one, keeping its signatures
ProposeOverPending(signer, cfg, newMinter) ==
    /\ IsSigner(signer)
    /\ ValidConfig(cfg)
    /\ proposal' = [new_config |-> cfg, new_minter |-> newMinter,
                    signatures |-> IF proposal = None THEN <<signer>>
                                   ELSE proposal.signatures]
    /\ UNCHANGED <<funds, multisig, minter>>

ProposeSetAdmin(signer, cfg, newMinter) ==
    /\ IsSigner(signer)
    /\ ValidConfig(cfg)
    /\ proposal = None
    /\ proposal' = [new_config |-> cfg, new_minter |-> newMinter,
                    signatures |-> <<signer>>]
    /\ UNCHANGED <<funds, multisig, minter>>

ApproveSetAdmin(signer) ==
    /\ IsSigner(signer)
    /\ proposal # None
    /\ ~HasSigned(proposal.signatures, signer)
    /\ proposal' = [proposal EXCEPT !.signatures = Append(@, signer)]
    /\ UNCHANGED <<funds, multisig, minter>>

\* mutant: the executed proposal stays pending
ExecuteKeepsProposal(signer) ==
    /\ IsSigner(signer)
    /\ proposal # None
    /\ Len(proposal.signatures) >= multisig.threshold
    /\ multisig' = proposal.new_config
    /\ minter' = proposal.new_minter
    /\ UNCHANGED <<funds, proposal>>

ExecuteSetAdmin(signer) ==
    /\ IsSigner(signer)
    /\ proposal # None
    /\ Len(proposal.signatures) >= multisig.threshold
    /\ multisig' = proposal.new_config
    /\ minter' = proposal.new_minter
    /\ proposal' = None
    /\ UNCHANGED funds

Next ==
    \/ \E cfg \in MultiSigArgs, m \in Address : Initialize(cfg, m)
    \/ \E c, to \in Address, x \in AmountArgs : Mint(c, to, x)
    \/ \E from \in Address, x \in AmountArgs : Burn(from, x)
    \/ \E from, to \in Address, x \in AmountArgs : Transfer(from, to, x)
    \/ \E o, s \in Address, x \in AllowanceArgs : Approve(o, s, x)
    \/ \E s, from, to \in Address, x \in AmountArgs :
           TransferFrom(s, from, to, x)
    \/ \E s \in Address, cfg \in MultiSigArgs, m \in Address :
           ProposeSetAdmin(s, cfg, m)
    \/ \E s \in Address : ApproveSetAdmin(s)
    \/ \E s \in Address : ExecuteSetAdmin(s)

Spec == Init /\ [][Next]_vars

-----------------------------------------------------------------------------
(* Properties *)

\* Type correctness.  It carries the one numeric fact the bounds checks are
\* there for: no sequence of burns and transfers overdraws a balance or an
\* allowance, and no balance leaves the range of i128.  The supply is only
\* bounded by the width: burn's checked_sub does not stop at zero.
TypeOK ==
    /\ balance \in [Address -> 0..MaxI128]
    /\ allowance \in [Address -> [Address -> Nat]]
    /\ totalSupply \in MinI128..MaxI128
    /\ multisig \in MultiSigConfig \cup {None}
    /\ minter \in Address \cup {None}
    /\ proposal \in SetAdminProposal \cup {None}

Held == SumFunction(balance)

\* The recorded total supply equals the tokens held: the reading of
\* "Running total supply" (contracts/README.md:45) and of the supply invariant
\* of docs/audits/smart-contract-audit-plan.md.  A transfer to oneself breaks it.
SupplyMatchesBalances == totalSupply = Held

Drift == Held - totalSupply

SelfTransfer(a, amount) ==
    \/ Transfer(a, a, amount)
    \/ \E spender \in Address : TransferFrom(spender, a, a, amount)

\* What the code does keep of it: mint, burn, transfer_from and approvals move
\* the supply and the balances together; only transfer and transfer_from with
\* from = to drive them apart, by the amount transferred, and always so that
\* the supply understates the balances.
DriftOnlyBySelfTransfer ==
    [][\/ Drift' = Drift
       \/ \E a \in Address, x \in AmountArgs :
              SelfTransfer(a, x) /\ Drift' = Drift + x /\ x > 0]_vars

\* No signature is ever counted twice or outlives the configuration it was
\* given under: the signatures of a pending proposal are those of distinct
\* signers of the current configuration (has_signed, require_signer, and the
\* removal of the proposal by execute_set_admin together).
ProposalSignedByCurrentSigners ==
    proposal # None =>
        /\ multisig # None
        /\ IsInjective(proposal.signatures)
        /\ Range(proposal.signatures) \subseteq Range(multisig.signers)

\* The signers of the current configuration whose signature is on the proposal
Endorsers ==
    IF proposal = None \/ multisig = None THEN {}
    ELSE Range(proposal.signatures) \cap Range(multisig.signers)

\* The minter and the multi-sig configuration of an initialised token change
\* only when at least `threshold` different current signers have signed.
RotationNeedsQuorum ==
    [][(multisig # None /\ <<multisig, minter>>' # <<multisig, minter>>)
           => Cardinality(Endorsers) >= multisig.threshold]_vars

\* What the signers signed is what is installed: a pending proposal keeps the
\* configuration and the minter it was proposed with until it disappears, and
\* it disappears only by being installed.
SignedTermsAreInstalled ==
    [][proposal # None =>
          \/ /\ proposal' # None
             /\ proposal'.new_config = proposal.new_config
             /\ proposal'.new_minter = proposal.new_minter
             /\ UNCHANGED <<multisig, minter>>
          \/ /\ proposal' = None
             /\ multisig' = proposal.new_config
             /\ minter' = proposal.new_minter]_vars
=============================================================================
