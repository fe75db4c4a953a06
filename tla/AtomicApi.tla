------------------------------- MODULE AtomicApi -------------------------------
(***************************************************************************)
(* What the backend promises to clients whose requests it handles at the   *)
(* same time, whatever they interleave and however they end: a request     *)
(* takes effect in one step or not at all, on the rows as they are then,   *)
(* but for the rows that the chain's events insert while a reorder runs:   *)
(* it moves all that was there when it was sent, and may miss those.       *)
(* A success has taken effect, a refusal has not and had its reason; only  *)
(* an error leaves it open.  Server.tla is shown to implement this.        *)
(***************************************************************************)
EXTENDS Naturals, Sequences

CONSTANTS Request, CampaignId, UserAddress, NoRow

VARIABLES op,         \* what each request asks for
          campaigns,  \* campaigns[id]: its row, or NoRow
          rewards,    \* the (user, campaign) pairs that have a reward
          missed,     \* missed[r]: the rows that came too late for the reorder r
          outcome     \* outcome[r]: "unsent", "open", "success", "refused" or "error"

atomicApi == <<op, campaigns, rewards, missed, outcome>>

\* The requests are given, and so are the rows there already
Init ==
    /\ rewards = {}
    /\ missed = [r \in Request |-> {}]
    /\ outcome = [r \in Request |-> "unsent"]

\* Neither answered nor given up
Pending(r) == outcome[r] \in {"unsent", "open"}

Ends(r, result) ==
    /\ Pending(r)
    /\ outcome' = [outcome EXCEPT ![r] = result]
    /\ missed' = [missed EXCEPT ![r] = {}]

\* Its handler has begun
Sends(r) ==
    /\ outcome[r] = "unsent"
    /\ outcome' = [outcome EXCEPT ![r] = "open"]
    /\ UNCHANGED <<op, campaigns, rewards, missed>>

HasRow(id) == campaigns[id] # NoRow
Shown(id)  == HasRow(id) /\ ~campaigns[id].deleted
Hidden(id) == HasRow(id) /\ campaigns[id].deleted

Pair(r) == <<op[r].user, op[r].campaign>>

Places(r, id) == {i \in 1..Len(op[r].order) : op[r].order[i] = id}

\* Every row on the list that was in time moves to a place that the list gives
\* it, at once
Reorders(r) ==
    /\ op[r].kind = "reorder"
    /\ campaigns' = [id \in CampaignId |-> campaigns'[id]]
    /\ \A id \in CampaignId :
           IF HasRow(id) /\ Places(r, id) # {} /\ id \notin missed[r]
           THEN \E i \in Places(r, id) :
                    campaigns'[id] = [campaigns[id] EXCEPT !.order = i - 1]
           ELSE campaigns'[id] = campaigns[id]
    /\ UNCHANGED rewards

Deletes(r) ==
    /\ op[r].kind = "delete"
    /\ Shown(op[r].campaign)
    /\ campaigns' = [campaigns EXCEPT ![op[r].campaign].deleted = TRUE]
    /\ UNCHANGED rewards

Restores(r) ==
    /\ op[r].kind = "restore"
    /\ Hidden(op[r].campaign)
    /\ campaigns' = [campaigns EXCEPT ![op[r].campaign].deleted = FALSE]
    /\ UNCHANGED rewards

Claims(r) ==
    /\ op[r].kind = "claim"
    /\ Pair(r) \notin rewards /\ HasRow(op[r].campaign)
    /\ rewards' = rewards \cup {Pair(r)}
    /\ UNCHANGED campaigns

Changing == {"reorder", "delete", "restore", "claim"}

Reads(r) == op[r].kind \notin Changing /\ UNCHANGED <<campaigns, rewards>>

\* The answer of a request that took effect may be lost
TakesEffect(r) ==
    /\ op[r].valid
    /\ Reorders(r) \/ Deletes(r) \/ Restores(r) \/ Claims(r) \/ Reads(r)
    /\ \E result \in {"success", "error"} : Ends(r, result)
    /\ UNCHANGED op

\* The reasons of a refusal: a malformed request, no token, nothing to change
\* (a signature may be wrong, too)
Refusable(r) ==
    \/ ~op[r].valid \/ op[r].merchant \/ op[r].kind = "verify"
    \/ op[r].kind = "delete" /\ ~Shown(op[r].campaign)
    \/ op[r].kind = "restore" /\ ~Hidden(op[r].campaign)
    \/ op[r].kind = "claim" /\ Pair(r) \in rewards

IsRefused(r) ==
    /\ Refusable(r)
    /\ Ends(r, "refused")
    /\ UNCHANGED <<op, campaigns, rewards>>

\* Some requests end without effect: one that failed, or all that a crash cut
Fail(failed) ==
    /\ \A r \in failed : Pending(r)
    /\ outcome' = [r \in Request |-> IF r \in failed THEN "error" ELSE outcome[r]]
    /\ missed' = [r \in Request |-> IF r \in failed THEN {} ELSE missed[r]]
    /\ UNCHANGED <<op, campaigns, rewards>>

\* What the chain's events change in the same rows
EventSetsActive(id, active) ==
    /\ HasRow(id)
    /\ campaigns' = [campaigns EXCEPT ![id].active = active]
    /\ UNCHANGED <<op, rewards, missed, outcome>>

\* A new row is shown, at place 0, and comes too late for some open reorders
EventInserts(id, active) ==
    /\ ~HasRow(id)
    /\ campaigns' = [campaigns EXCEPT ![id] =
                        [active |-> active, deleted |-> FALSE, order |-> 0]]
    /\ \E late \in SUBSET {r \in Request : outcome[r] = "open" /\ Places(r, id) # {}} :
           missed' = [r \in Request |-> IF r \in late THEN missed[r] \cup {id} ELSE missed[r]]
    /\ UNCHANGED <<op, rewards, outcome>>

EventRewards(u, id) ==
    /\ HasRow(id)
    /\ rewards' = rewards \cup {<<u, id>>}
    /\ UNCHANGED <<op, campaigns, missed, outcome>>

Next ==
    \/ \E r \in Request : Sends(r) \/ TakesEffect(r) \/ IsRefused(r)
    \/ \E failed \in SUBSET Request : Fail(failed)
    \/ \E id \in CampaignId :
           \/ \E active \in BOOLEAN : EventSetsActive(id, active) \/ EventInserts(id, active)
           \/ \E u \in UserAddress : EventRewards(u, id)

Spec == Init /\ [][Next]_atomicApi
=============================================================================
