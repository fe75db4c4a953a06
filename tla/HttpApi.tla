-------------------------------- MODULE HttpApi --------------------------------
(***************************************************************************)
(* The routes of the backend and the services they call, statement by      *)
(* statement: requests are handled concurrently, each await on the         *)
(* database is a step, and each ends in an answer (an HTTP status).        *)
(*                                                                         *)
(* PostgreSQL is modelled by what the handlers see of it: every statement  *)
(* is atomic, an UPDATE locks its row until its transaction ends, readers  *)
(* see committed rows, a cycle of waiting transactions is broken by        *)
(* aborting one of them, and a constraint refuses a statement.             *)
(***************************************************************************)
EXTENDS Integers, Sequences, FiniteSets, Relation

CONSTANTS Request,      \* requests of the clients
          CampaignId, UserAddress, NoRow,
          MaxFaults     \* bound: failed calls to the database

VARIABLES db,      \* the committed rows
          req,     \* the requests, from before they are sent to their answer
          faults

store == INSTANCE LoyaltyStore WITH Tx <- {}

ASSUME ApiAssumption == MaxFaults \in Nat /\ NoRow \notin store!CampaignRow

api == <<db, req, faults>>

\* An operation of a client: `valid` says that its parameters pass the
\* handler's validation, `merchant` that it is sent to /merchant/campaigns
Operation ==
    [kind : {"list", "get", "reorder", "delete", "restore", "rewards", "claim",
             "analytics", "health", "challenge", "verify"},
     campaign : CampaignId, user : UserAddress, order : Seq(CampaignId),
     valid : BOOLEAN, merchant : BOOLEAN]

AnalyticsQueries == {"totals", "perCampaign", "overTime"}
Checks == {"stellar", "database"}

Status == {0, 200, 201, 400, 401, 404, 409, 500, 503}

\* updated: how many UPDATEs the open transaction has done; rows: the rows they
\* found, and lock; waits: what the handler still awaits in parallel; failed:
\* the checks that threw
RequestState ==
    [op : Operation,
     pc : {"unsent", "rows", "count", "get", "delete", "restore", "rewards", "user",
           "reward", "analytics", "begin", "update", "commit", "rollback", "health",
           "done", "dropped"},
     updated : Nat, rows : SUBSET CampaignId, waits : SUBSET (AnalyticsQueries \cup Checks),
     failed : SUBSET Checks, answer : Status]

Transacting == {"begin", "update", "commit", "rollback"}

\* A handler is where the route of its request takes it, and has an answer only
\* at its end; a transaction reaches COMMIT with all its updates, and holds
\* rows that its updates named
RequestOK(q) ==
    /\ q \in RequestState
    /\ q.pc \in Transacting => q.op.kind = "reorder"
    /\ q.pc \in {"rows", "count"} => q.op.kind = "list"
    /\ q.pc \in {"user", "reward"} => q.op.kind = "claim"
    /\ q.pc \in {"get", "delete", "restore", "rewards", "analytics", "health"} =>
           q.op.kind = q.pc
    /\ q.pc \notin {"unsent", "done", "dropped"} => q.op.valid
    /\ q.pc \in {"unsent", "begin"} => q.updated = 0
    /\ q.pc = "update" => q.updated < Len(q.op.order)
    /\ q.pc = "commit" => q.updated = Len(q.op.order)
    /\ q.rows \subseteq {q.op.order[i] : i \in 1..q.updated}
    /\ q.pc # "done" => q.answer = 0

RequestsOK ==
    /\ req \in [Request -> RequestState]
    /\ \A r \in Request : RequestOK(req[r])

ApiTypeOK ==
    /\ db \in store!Database
    /\ RequestsOK
    /\ faults \in 0..MaxFaults

NewRequest(op) ==
    [op |-> op, pc |-> "unsent", updated |-> 0, rows |-> {}, waits |-> {}, failed |-> {},
     answer |-> 0]

At(r, pc) == req[r].pc = pc
InFlight(r) == req[r].pc \notin {"unsent", "done", "dropped"}

GoTo(r, pc) == req' = [req EXCEPT ![r].pc = pc]
Answer(r, status) == req' = [req EXCEPT ![r].pc = "done", ![r].answer = status]

-----------------------------------------------------------------------------
(* Transactions of the reorder route *)

Touched(r) == {req[r].op.order[i] : i \in 1..req[r].updated}

\* Rows that r has updated and not yet committed
Locked(r) == IF req[r].pc \in {"update", "commit", "rollback"} THEN req[r].rows ELSE {}

LockedByOther(r, id) == \E other \in Request \ {r} : id \in Locked(other)

NextRow(r) == req[r].op.order[req[r].updated + 1]

WaitsFor(a, b) == At(a, "update") /\ a # b /\ NextRow(a) \in Locked(b)

\* r is in a cycle of transactions that wait for one another
Deadlocked(r) ==
    LET waits == TransitiveClosure([e \in Request \X Request |-> WaitsFor(e[1], e[2])], Request)
    IN waits[r, r]

\* The rows once the updates of r are committed
Reordered(r) == store!SetDisplayOrders(db, req[r].op.order, req[r].rows)

Begin(r) ==
    /\ At(r, "begin")
    /\ GoTo(r, IF req[r].op.order = <<>> THEN "commit" ELSE "update")
    /\ UNCHANGED <<db, faults>>

\* mutant: the updates are not in a transaction
UpdateOrderAlone(r) ==
    /\ At(r, "update")
    /\ db' = IF store!HasRow(db, NextRow(r))
             THEN [db EXCEPT !.campaigns[NextRow(r)].order = req[r].updated] ELSE db
    /\ req' = [req EXCEPT ![r].updated = @ + 1,
           ![r].pc = IF req[r].updated + 1 = Len(req[r].op.order) THEN "commit" ELSE @]
    /\ UNCHANGED faults

\* The rows that the next UPDATE finds: a row inserted later it misses
Found(r) == IF store!HasRow(db, NextRow(r)) THEN {NextRow(r)} ELSE {}

\* mutant: the loop runs one statement too far
UpdateOrderPastEnd(r) ==
    /\ At(r, "update")
    /\ req[r].updated < Len(req[r].op.order) => ~LockedByOther(r, NextRow(r))
    /\ IF req[r].updated < Len(req[r].op.order)
       THEN req' = [req EXCEPT ![r].updated = @ + 1, ![r].rows = @ \cup Found(r)]
       ELSE GoTo(r, "commit")
    /\ UNCHANGED <<db, faults>>

\* UPDATE campaigns SET display_order = i WHERE id = order[i]
UpdateOrder(r) ==
    /\ At(r, "update")
    /\ ~LockedByOther(r, NextRow(r))
    /\ req' = [req EXCEPT ![r].updated = @ + 1, ![r].rows = @ \cup Found(r),
           ![r].pc = IF req[r].updated + 1 = Len(req[r].op.order) THEN "commit" ELSE @]
    /\ UNCHANGED <<db, faults>>

\* PostgreSQL ends a deadlock by failing one of its statements
AbortedByDeadlock(r) ==
    /\ At(r, "update")
    /\ Deadlocked(r)
    /\ GoTo(r, "rollback")
    /\ UNCHANGED <<db, faults>>

Commit(r) ==
    /\ At(r, "commit")
    /\ db' = Reordered(r)
    /\ Answer(r, 200)
    /\ UNCHANGED faults

\* ROLLBACK, and the error goes on to errorAlertMiddleware
Rollback(r) ==
    /\ At(r, "rollback")
    /\ Answer(r, 500)
    /\ UNCHANGED <<db, faults>>

-----------------------------------------------------------------------------
(* The other routes *)

\* getCampaigns: the page and the count are two statements
ListRows(r) == At(r, "rows") /\ GoTo(r, "count") /\ UNCHANGED <<db, faults>>
ListCount(r) == At(r, "count") /\ Answer(r, 200) /\ UNCHANGED <<db, faults>>

\* NotFoundError reaches errorAlertMiddleware, which answers 500
GetCampaign(r) ==
    /\ At(r, "get")
    /\ Answer(r, IF req[r].op.campaign \in store!Listed(db) THEN 200 ELSE 500)
    /\ UNCHANGED <<db, faults>>

\* mutant: the number of rows changed is not looked at
SoftDeleteUnchecked(r) ==
    LET id == req[r].op.campaign IN
    /\ At(r, "delete")
    /\ ~LockedByOther(r, id)
    /\ db' = IF store!HasRow(db, id) THEN store!SoftDeleteCampaign(db, id) ELSE db
    /\ Answer(r, 200)
    /\ UNCHANGED faults

SoftDelete(r) ==
    LET id == req[r].op.campaign IN
    /\ At(r, "delete")
    /\ ~LockedByOther(r, id)
    /\ \/ /\ store!CanSoftDelete(db, id)
          /\ db' = store!SoftDeleteCampaign(db, id)
          /\ Answer(r, 200)
       \/ /\ ~store!CanSoftDelete(db, id)
          /\ Answer(r, 404)
          /\ UNCHANGED db
    /\ UNCHANGED faults

Restore(r) ==
    LET id == req[r].op.campaign IN
    /\ At(r, "restore")
    /\ ~LockedByOther(r, id)
    /\ \/ /\ store!CanRestore(db, id)
          /\ db' = store!RestoreCampaign(db, id)
          /\ Answer(r, 200)
       \/ /\ ~store!CanRestore(db, id)
          /\ Answer(r, 404)
          /\ UNCHANGED db
    /\ UNCHANGED faults

ListRewards(r) == At(r, "rewards") /\ Answer(r, 200) /\ UNCHANGED <<db, faults>>

EnsureUser(r) ==
    /\ At(r, "user")
    /\ db' = store!InsertUser(db, req[r].op.user)
    /\ GoTo(r, "reward")
    /\ UNCHANGED faults

\* The INSERT of createRewardClaim and the three ways out of its handler
InsertReward(r) ==
    LET u == req[r].op.user
        id == req[r].op.campaign
    IN /\ At(r, "reward")
       /\ \/ /\ store!DuplicateReward(db, u, id)
             /\ Answer(r, 409)
             /\ UNCHANGED db
          \/ /\ ~store!DuplicateReward(db, u, id)
             /\ ~store!ReferencesExist(db, u, id)
             /\ Answer(r, 500)
             /\ UNCHANGED db
          \/ /\ ~store!DuplicateReward(db, u, id)
             /\ store!ReferencesExist(db, u, id)
             /\ db' = store!UpsertReward(db, u, id)
             /\ Answer(r, 201)
       /\ UNCHANGED faults

\* Promise.all of three queries, answered in any order
AnalyticsAnswer(r) ==
    /\ At(r, "analytics")
    /\ \E q \in req[r].waits :
           IF req[r].waits = {q} THEN Answer(r, 200)
           ELSE req' = [req EXCEPT ![r].waits = @ \ {q}]
    /\ UNCHANGED <<db, faults>>

\* What a statement may have done before its answer was lost
LostEffect(r) ==
    LET u == req[r].op.user
        id == req[r].op.campaign
    IN \/ At(r, "commit") /\ db' = Reordered(r)
       \/ /\ At(r, "delete")
          /\ store!CanSoftDelete(db, id) /\ ~LockedByOther(r, id)
          /\ db' = store!SoftDeleteCampaign(db, id)
       \/ /\ At(r, "restore")
          /\ store!CanRestore(db, id) /\ ~LockedByOther(r, id)
          /\ db' = store!RestoreCampaign(db, id)
       \/ At(r, "user") /\ db' = store!InsertUser(db, u)
       \/ /\ At(r, "reward")
          /\ store!ReferencesExist(db, u, id)
          /\ db' = store!UpsertReward(db, u, id)

\* A statement throws: the handler's catch, asyncHandler or Express answers
\* 500, after a ROLLBACK where a transaction is open
StatementFails(r) ==
    /\ InFlight(r) /\ ~At(r, "health") /\ ~At(r, "rollback")
    /\ faults < MaxFaults
    /\ faults' = faults + 1
    /\ IF req[r].pc \in {"update", "commit"} THEN GoTo(r, "rollback") ELSE Answer(r, 500)
    /\ UNCHANGED db \/ LostEffect(r)

\* One step of a handler that awaits the database
DatabaseStep(r) ==
    \/ Begin(r) \/ UpdateOrder(r) \/ AbortedByDeadlock(r) \/ Commit(r) \/ Rollback(r)
    \/ ListRows(r) \/ ListCount(r) \/ GetCampaign(r) \/ SoftDelete(r) \/ Restore(r)
    \/ ListRewards(r) \/ EnsureUser(r) \/ InsertReward(r) \/ AnalyticsAnswer(r)
    \/ StatementFails(r)

\* The first step of a valid request, by route
FirstStep(kind) ==
    CASE kind = "list" -> "rows"
      [] kind = "claim" -> "user"
      [] kind = "reorder" -> "begin"
      [] OTHER -> kind

Awaited(kind) ==
    CASE kind = "analytics" -> AnalyticsQueries
      [] kind = "health" -> Checks
      [] OTHER -> {}

\* A BadRequestError reaches errorAlertMiddleware, which answers 500 to any
\* error: createApp does not mount errorHandler.ts
Refusal(kind) == IF kind \in {"get", "reorder", "rewards"} THEN 500 ELSE 400

Dispatch(r) ==
    LET op == req[r].op IN
    IF op.valid
    THEN req' = [req EXCEPT ![r].pc = FirstStep(op.kind), ![r].waits = Awaited(op.kind)]
    ELSE Answer(r, Refusal(op.kind))
=============================================================================
