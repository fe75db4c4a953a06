------------------------------ MODULE SorobanClient ------------------------------
(***************************************************************************)
(* lib/soroban.ts: invokeContract builds, simulates, signs, submits and    *)
(* polls.  The RPC, the ledger and the Freighter popup are modelled from   *)
(* how it uses them.  Time is counted in waits of the poll loop: `left' is *)
(* what remains of the 30 seconds the transaction is valid for.            *)
(***************************************************************************)
EXTENDS Wallet

CONSTANTS TimeBound,   \* setTimeout(30), in waits of 1.5 seconds
          MaxPolls     \* the limit on attempts, in the same waits

\* 20 attempts of 1.5 seconds cover the 30 seconds
ASSUME ClientAssumption == TimeBound \in Nat /\ MaxPolls \in Nat /\ MaxPolls >= TimeBound

VARIABLES call,    \* the invocations, numbered in the order of their start
          ledger   \* claimed: the pairs claimed; sequence: each account's number

clientVars == <<call, ledger>>

\* what: the campaign to claim, or None for create_campaign; visit: the page
\* that started it; tx: what became of the transaction on the ledger; told:
\* the toasts of its handler, both for a success and then a failure; doubt: an
\* RPC answer that did not tell the truth of the ledger, or none at all
CallState ==
    [stage : {"free", "preparing", "signing", "sending", "polling", "waiting",
              "confirmed", "balance", "done"},
     key : Account \cup {None}, what : CampaignId \cup {None}, visit : Nat,
     signer : Account \cup {None}, sequence : Nat, left : 0..TimeBound, polls : 0..MaxPolls,
     tx : {"none", "pending", "applied", "failed"},
     told : {"nothing", "success", "failure", "both"}, doubt : BOOLEAN]

FreeCall ==
    [stage |-> "free", key |-> None, what |-> None, visit |-> 0, signer |-> None,
     sequence |-> 0, left |-> TimeBound, polls |-> 0, tx |-> "none",
     told |-> "nothing", doubt |-> FALSE]

ClientInit ==
    /\ call = [c \in Call |-> FreeCall]
    /\ ledger = [claimed |-> {}, sequence |-> [a \in Account |-> 0]]

\* The next invocation that the scenario allows starts with c
IsNextCall(c) ==
    /\ c <= scenario.calls
    /\ call[c].stage = "free"
    /\ \A d \in 1..(c - 1) : call[d].stage # "free"

\* invokeContract(publicKey, ...) of the page of this visit
Begin(c, key, what, visit) ==
    call' = [call EXCEPT ![c] = [FreeCall EXCEPT !.stage = "preparing", !.key = key,
                                    !.what = what, !.visit = visit]]

\* An invocation that has ended keeps what may still happen to its transaction
Ended(r, stage, told) ==
    IF r.tx = "pending" THEN [r EXCEPT !.stage = stage, !.told = told, !.polls = 0]
    ELSE [FreeCall EXCEPT !.stage = stage, !.told = told, !.key = r.key, !.what = r.what,
                          !.visit = r.visit, !.tx = r.tx, !.doubt = r.doubt]

Throws(c) == call' = [call EXCEPT ![c] = Ended(@, "done", "failure")]
ThrowsInDoubt(c) ==
    call' = [call EXCEPT ![c] = Ended([@ EXCEPT !.doubt = TRUE], "done", "failure")]
Returns(c) == call' = [call EXCEPT ![c] = Ended(@, "confirmed", "success")]

Claimed(c) == <<call[c].key, call[c].what>> \in ledger.claimed

-----------------------------------------------------------------------------

\* getAccount, build and simulateTransaction: any of them may throw, and a
\* claim that was applied before does not simulate
Prepare(c) ==
    /\ call[c].stage = "preparing"
    /\ \/ Throws(c)
       \/ /\ ~Claimed(c)
          /\ call' = [call EXCEPT ![c].stage = "signing",
                                  ![c].sequence = ledger.sequence[call[c].key]]
    /\ UNCHANGED ledger

\* The popup stays open for as long as the user likes
UserHesitates(c) ==
    /\ "hesitate" \in scenario.deeds
    /\ call[c].stage = "signing"
    /\ call[c].left > 0
    /\ call' = [call EXCEPT ![c].left = @ - 1]
    /\ UNCHANGED ledger

\* signTransaction: refused, or signed by the account active in the extension
Sign(c) ==
    /\ call[c].stage = "signing"
    /\ \/ Throws(c)
       \/ call' = [call EXCEPT ![c].stage = "sending", ![c].signer = freighter.active]
    /\ UNCHANGED ledger

\* What the RPC accepts: in time, in sequence, signed by its source account
Acceptable(c) ==
    /\ call[c].left > 0
    /\ call[c].signer = call[c].key
    /\ call[c].sequence = ledger.sequence[call[c].key]

\* sendTransaction: ERROR throws; PENDING and DUPLICATE go on, and so does
\* TRY_AGAIN_LATER, which submitted nothing; a lost answer throws whether or
\* not the transaction went in
Send(c) ==
    /\ call[c].stage = "sending"
    /\ \/ ~Acceptable(c) /\ Throws(c)
       \/ ThrowsInDoubt(c)
       \/ /\ Acceptable(c)
          /\ call' = [call EXCEPT ![c] =
                        Ended([@ EXCEPT !.doubt = TRUE, !.tx = "pending"], "done", "failure")]
       \/ call' = [call EXCEPT ![c].stage = "polling"]
       \/ Acceptable(c) /\ call' = [call EXCEPT ![c].stage = "polling", ![c].tx = "pending"]
    /\ UNCHANGED ledger

\* A ledger that closes in time includes a pending transaction, which uses up
\* its sequence number whether the contract then succeeds or not
LedgerCloses(c) ==
    /\ call[c].tx = "pending"
    /\ Acceptable(c)
    /\ \/ /\ ~Claimed(c)
          /\ call' = [call EXCEPT ![c].tx = "applied"]
          /\ ledger' = [ledger EXCEPT
                !.claimed = IF call[c].what = None THEN @ ELSE @ \cup {<<call[c].key, call[c].what>>},
                !.sequence[call[c].key] = @ + 1]
       \/ /\ call' = [call EXCEPT ![c].tx = "failed"]
          /\ ledger' = [ledger EXCEPT !.sequence[call[c].key] = @ + 1]

Included(c) == call[c].tx \in {"applied", "failed"}

\* mutant: NOT_FOUND is believed one attempt early
PollGivesUpEarly(c) ==
    /\ call[c].stage = "polling"
    /\ \/ call[c].tx = "applied" /\ Returns(c)
       \/ call[c].tx = "failed" /\ Throws(c)
       \/ /\ call[c].polls + 1 < MaxPolls
          /\ call' = [call EXCEPT ![c].stage = "waiting"]
       \/ call[c].polls + 1 >= MaxPolls /\ ~Included(c) /\ Throws(c)
       \/ ThrowsInDoubt(c)
    /\ UNCHANGED ledger

\* getTransaction: SUCCESS, FAILED, NOT_FOUND (which may lag behind the
\* ledger) or no answer; after the last attempt NOT_FOUND throws like FAILED
Poll(c) ==
    /\ call[c].stage = "polling"
    /\ \/ call[c].tx = "applied" /\ Returns(c)
       \/ call[c].tx = "failed" /\ Throws(c)
       \/ /\ call[c].polls < MaxPolls
          /\ call' = [call EXCEPT ![c].stage = "waiting"]
       \/ call[c].polls = MaxPolls /\ ~Included(c) /\ Throws(c)
       \/ ThrowsInDoubt(c)
    /\ UNCHANGED ledger

\* await setTimeout(1500), attempts++
Wait(c) ==
    /\ call[c].stage = "waiting"
    /\ call' = [call EXCEPT ![c].stage = "polling", ![c].polls = @ + 1,
                            ![c].left = IF @ = 0 THEN 0 ELSE @ - 1]
    /\ UNCHANGED ledger

ClientStep(c) == Prepare(c) \/ Sign(c) \/ Send(c) \/ Poll(c) \/ Wait(c)

-----------------------------------------------------------------------------

\* What the user is told first of an invocation is what the ledger did: a
\* success was applied, also when a failure of the reload is toasted after it;
\* and a failure alone neither was nor will be applied, unless an answer of the
\* RPC was lost or lagged behind the ledger.  The poll loop outlasts the time
\* bound of the transaction, so running out of attempts alone is no such case.
ReportsAreTrue ==
    \A c \in Call :
        /\ call[c].told \in {"success", "both"} => call[c].tx = "applied"
        /\ call[c].told = "failure" /\ ~call[c].doubt =>
               call[c].tx # "applied" /\ ~(call[c].tx = "pending" /\ Acceptable(c))
=============================================================================
