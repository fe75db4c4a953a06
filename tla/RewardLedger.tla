----------------------------- MODULE RewardLedger -----------------------------
(***************************************************************************)
(* What the loyalty system promises for each (user, campaign) pair,        *)
(* without clocks, contracts or tokens: a reward is granted at most once,  *)
(* a grant never changes, and what is paid out of it only grows, up to the *)
(* grant.  RewardsContract.tla is shown to implement this.                 *)
(***************************************************************************)
EXTENDS Integers

CONSTANTS Pair,   \* (user, campaign) pairs
          None

VARIABLES granted,   \* granted[p]: the amount granted to p, None before
          released   \* released[p]: the part of it minted so far

ledger == <<granted, released>>

\* Some pairs may have been settled before the ledger starts: nothing is owed
Init ==
    /\ \E settled \in SUBSET Pair :
           granted = [p \in Pair |-> IF p \in settled THEN 0 ELSE None]
    /\ released = [p \in Pair |-> 0]

\* A reward is granted, and paid at once or locked
Grant(p) ==
    /\ granted[p] = None
    /\ granted'[p] \in Nat \ {0}
    /\ granted' = [granted EXCEPT ![p] = granted'[p]]
    /\ \/ released' = [released EXCEPT ![p] = granted'[p]]
       \/ UNCHANGED released

\* Part of a locked reward is paid
Release(p) ==
    /\ granted[p] # None
    /\ released'[p] \in Nat
    /\ released[p] < released'[p]
    /\ released'[p] <= granted[p]
    /\ released' = [released EXCEPT ![p] = released'[p]]
    /\ UNCHANGED granted

Next == \E p \in Pair : Grant(p) \/ Release(p)

Spec == Init /\ [][Next]_ledger
=============================================================================
