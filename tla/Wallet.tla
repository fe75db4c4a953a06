--------------------------------- MODULE Wallet ---------------------------------
(***************************************************************************)
(* WalletContext and WalletConnector: the connected account, its balance   *)
(* and the refreshes in flight, over the Freighter extension, which is     *)
(* modelled from how lib/freighter.ts uses it.  The balance is abstracted  *)
(* to the account whose rewards it was computed from.                      *)
(***************************************************************************)
EXTENDS Browser

CONSTANT MaxRefresh   \* bound: refreshes of one account that the interval overlaps

ASSUME WalletAssumption == MaxRefresh \in Nat \ {0}

VARIABLES wallet,     \* the provider's state
          freighter   \* the extension: the active account, whether it approved the site

walletVars == <<wallet, freighter>>

WalletState ==
    [key : Account \cup {None},
     lookup : Account \cup {None, "asked", "done"},   \* getPublicKey of the first render
     connecting : BOOLEAN, modal : BOOLEAN, visible : BOOLEAN,
     balance : Account \cup {None}, loading : BOOLEAN,
     refreshing : [Account -> Nat]]

WalletInit ==
    /\ wallet = [key |-> None, lookup |-> "asked", connecting |-> FALSE, modal |-> FALSE,
                 visible |-> TRUE, balance |-> None, loading |-> FALSE,
                 refreshing |-> [a \in Account |-> 0]]
    /\ freighter = [active |-> scenario.active, allowed |-> scenario.allowed]

\* refreshBalance up to its await, for the account its closure captured
Refreshing(w, a) == [w EXCEPT !.loading = TRUE, !.refreshing[a] = @ + 1]

\* setPublicKey and the effect that depends on it
WithKey(w, k) ==
    IF k = w.key THEN w
    ELSE IF k = None THEN [w EXCEPT !.key = None, !.balance = None, !.loading = FALSE]
    ELSE Refreshing([w EXCEPT !.key = k], k)

-----------------------------------------------------------------------------

\* getPublicKey at the first render: the extension is read ...
LookupRead ==
    /\ wallet.lookup = "asked"
    /\ wallet' = [wallet EXCEPT !.lookup =
                    IF freighter.allowed THEN freighter.active ELSE None]
    /\ UNCHANGED <<freighter, changes, faults>>

\* ... and its answer is stored, whatever the user did meanwhile
LookupArrives ==
    /\ wallet.lookup \notin {"asked", "done"}
    /\ wallet' = WithKey([wallet EXCEPT !.lookup = "done"], wallet.lookup)
    /\ UNCHANGED <<freighter, changes, faults>>

\* handleConnect: connect, or the hint to install the extension
ConnectClicked ==
    /\ wallet.key = None /\ ~wallet.connecting /\ ~wallet.modal
    /\ Changes
    /\ wallet' = IF scenario.installed THEN [wallet EXCEPT !.connecting = TRUE]
                 ELSE [wallet EXCEPT !.modal = TRUE]
    /\ UNCHANGED <<freighter, faults>>

CloseModal ==
    /\ wallet.modal
    /\ wallet' = [wallet EXCEPT !.modal = FALSE]
    /\ UNCHANGED <<freighter, changes, faults>>

\* connectWallet resolves with the active account, or the user refuses
ConnectApproved ==
    /\ wallet.connecting
    /\ wallet' = WithKey([wallet EXCEPT !.connecting = FALSE], freighter.active)
    /\ freighter' = [freighter EXCEPT !.allowed = TRUE]
    /\ UNCHANGED <<changes, faults>>

ConnectRefused ==
    /\ wallet.connecting
    /\ wallet' = [wallet EXCEPT !.connecting = FALSE]
    /\ UNCHANGED <<freighter, changes, faults>>

Disconnect ==
    /\ wallet.key # None
    /\ Changes
    /\ wallet' = WithKey(wallet, None)
    /\ UNCHANGED <<freighter, faults>>

\* The user picks another account in the extension: nothing tells the client
SwitchAccount(a) ==
    /\ "switch" \in scenario.deeds
    /\ a # freighter.active
    /\ Changes
    /\ freighter' = [freighter EXCEPT !.active = a]
    /\ UNCHANGED <<wallet, faults>>

\* visibilitychange
ToggleVisibility ==
    /\ "hide" \in scenario.deeds
    /\ Changes
    /\ wallet' = [wallet EXCEPT !.visible = ~@]
    /\ UNCHANGED <<freighter, faults>>

\* mutant: the interval is not set up again after a change
IntervalFiresAtFirst ==
    /\ wallet.key # None /\ wallet.visible
    /\ changes = 0
    /\ wallet.refreshing[wallet.key] < MaxRefresh
    /\ wallet' = Refreshing(wallet, wallet.key)
    /\ UNCHANGED <<freighter, changes, faults>>

\* Every 30 seconds while the tab is visible, without waiting for an answer
IntervalFires ==
    /\ wallet.key # None /\ wallet.visible
    /\ wallet.refreshing[wallet.key] < MaxRefresh
    /\ wallet' = Refreshing(wallet, wallet.key)
    /\ UNCHANGED <<freighter, changes, faults>>

\* refreshBalance after its await: what it stores is not compared with
\* the account of now, and loading ends though others may be in flight
RefreshEnds(a) ==
    /\ wallet.refreshing[a] > 0
    /\ \/ /\ Resolves
          /\ wallet' = [wallet EXCEPT !.refreshing[a] = @ - 1, !.loading = FALSE, !.balance = a]
       \/ /\ Rejects
          /\ wallet' = [wallet EXCEPT !.refreshing[a] = @ - 1, !.loading = FALSE]
    /\ UNCHANGED <<freighter, changes>>

WalletNext ==
    \/ LookupRead \/ LookupArrives \/ ConnectClicked \/ CloseModal
    \/ ConnectApproved \/ ConnectRefused \/ Disconnect \/ ToggleVisibility \/ IntervalFires
    \/ \E a \in Account : SwitchAccount(a) \/ RefreshEnds(a)
=============================================================================
