--------------------------------- MODULE Server ---------------------------------
(***************************************************************************)
(* The backend process: it starts (index.ts, env.ts, secrets.ts), answers  *)
(* the requests of HttpApi and MerchantAuth and its own health check       *)
(* (app.ts) while the indexer writes to the same database, and shuts down  *)
(* on a signal.  It may crash at any moment and is restarted.              *)
(***************************************************************************)
EXTENDS HttpApi, MerchantAuth

CONSTANTS Scenarios,     \* what the clients send and what the process meets
          MaxCrashes,    \* bound: ends of the process without a signal
          MaxRestarts    \* bound: restarts of the process

\* hang: the dependencies that never answer; variables: where the required
\* environment variables come from; rows: the campaigns there already; indexer:
\* ENABLE_INDEXER; upserts, claims: what the indexer may write
Scenario == [ops : [Request -> Operation], hang : SUBSET Checks,
             variables : {"environment", "secret"}, rows : SUBSET CampaignId,
             indexer : BOOLEAN, upserts : SUBSET (CampaignId \X BOOLEAN),
             claims : SUBSET (UserAddress \X CampaignId)]

ASSUME ServerAssumption ==
    /\ Scenarios \subseteq Scenario
    /\ MaxCrashes \in Nat /\ MaxRestarts \in Nat
    /\ UserAddress \subseteq Key

VARIABLES
    scenario, phase, crashes,
    left,    \* the health checks whose SELECT 1 still runs after its timer fired
    poll     \* "query": the indexer waits for the database, "idle": it does not

\* What holds a client of the pool although no request is in flight
clients == <<left, poll>>

vars == <<api, auth, clients, scenario, phase, crashes>>

Running == phase \in {"listening", "closing"}

Init ==
    /\ scenario \in Scenarios
    /\ db = [store!EmptyDatabase EXCEPT !.campaigns = [id \in CampaignId |->
               IF id \in scenario.rows THEN [active |-> TRUE, deleted |-> FALSE, order |-> 0]
               ELSE NoRow]]
    /\ req = [r \in Request |-> NewRequest(scenario.ops[r])]
    /\ faults = 0
    /\ AuthInit
    /\ left = {} /\ poll = "idle"
    /\ phase = "validating"
    /\ crashes = 0

-----------------------------------------------------------------------------
(* Start *)

\* env.ts validates process.env while index.ts is still importing: before
\* loadSecrets had a chance to add what only the secret holds
ValidateEnv ==
    /\ phase = "validating"
    /\ phase' = IF scenario.variables = "environment" THEN "secrets" ELSE "exited"
    /\ UNCHANGED <<api, auth, clients, scenario, crashes>>

\* loadSecrets and app.listen; a rejected call to Secrets Manager ends the
\* process
Listen ==
    /\ phase = "secrets"
    /\ \/ phase' = "listening" /\ UNCHANGED crashes
       \/ crashes < MaxCrashes /\ crashes' = crashes + 1 /\ phase' = "exited"
    /\ UNCHANGED <<api, auth, clients, scenario>>

-----------------------------------------------------------------------------
(* Requests *)

\* A token the client holds, or none, opens the merchant routes
Authorized(r) == ~req[r].op.merchant \/ \E t \in tokens : TokenAccepted(t)

Receive(r) ==
    /\ phase = "listening"
    /\ At(r, "unsent")
    /\ req[r].op.kind \notin {"challenge", "verify"}
    /\ \/ Authorized(r) /\ Dispatch(r)
       \/ req[r].op.merchant /\ Answer(r, 401)
    /\ UNCHANGED <<db, faults, auth, clients, scenario, phase, crashes>>

\* The key of the scenario's authentication requests is their user
ReceiveChallenge(r) ==
    /\ phase = "listening"
    /\ At(r, "unsent")
    /\ req[r].op.kind = "challenge"
    /\ \/ req[r].op.valid /\ Challenge(req[r].op.user) /\ Answer(r, 200)
       \/ ~req[r].op.valid /\ Answer(r, 400) /\ UNCHANGED auth
    /\ UNCHANGED <<db, faults, clients, scenario, phase, crashes>>

\* The client signs any nonce it was ever given
ReceiveVerify(r) ==
    LET key == req[r].op.user IN
    /\ phase = "listening"
    /\ At(r, "unsent")
    /\ req[r].op.kind = "verify"
    /\ \/ /\ req[r].op.valid
          /\ \E signed \in issued[key] : Verify(key, signed)
          /\ Answer(r, 200)
       \/ /\ req[r].op.valid
          /\ \E signed \in issued[key] \cup {0} : ~SignatureAccepted(key, signed)
          /\ Answer(r, 401)
          /\ UNCHANGED auth
       \/ ~req[r].op.valid /\ Answer(r, 400) /\ UNCHANGED auth
    /\ UNCHANGED <<db, faults, clients, scenario, phase, crashes>>

\* A handler's database step, while the process and the database live
Handle(r) ==
    /\ Running
    /\ "database" \notin scenario.hang
    /\ DatabaseStep(r)
    /\ UNCHANGED <<auth, clients, scenario, phase, crashes>>

-----------------------------------------------------------------------------
(* The health check: two calls, each raced against a timer *)

HealthStatus(failed) == IF failed = {} THEN 200 ELSE 503

CheckEnds(r, c, failed) ==
    req' = [req EXCEPT ![r].waits = @ \ {c}, ![r].failed = failed,
               ![r].pc = IF req[r].waits = {c} THEN "done" ELSE @,
               ![r].answer = IF req[r].waits = {c} THEN HealthStatus(failed) ELSE @]

CheckAnswers(r, c) ==
    /\ Running
    /\ At(r, "health") /\ c \in req[r].waits
    /\ c \notin scenario.hang
    /\ CheckEnds(r, c, req[r].failed)
    /\ UNCHANGED <<db, faults, auth, clients, scenario, phase, crashes>>

\* mutant: only the call to the RPC is raced against a timer
CheckTimesOutForStellar(r, c) ==
    /\ Running
    /\ At(r, "health") /\ c \in req[r].waits
    /\ c = "stellar"
    /\ CheckEnds(r, c, req[r].failed \cup {c})
    /\ UNCHANGED <<db, faults, auth, clients, scenario, phase, crashes>>

\* The call throws, or the timer wins: then the query goes on
CheckTimesOut(r, c) ==
    /\ Running
    /\ At(r, "health") /\ c \in req[r].waits
    /\ CheckEnds(r, c, req[r].failed \cup {c})
    /\ \/ c \notin scenario.hang /\ UNCHANGED left
       \/ left' = IF c = "database" THEN left \cup {r} ELSE left
    /\ UNCHANGED <<db, faults, auth, poll, scenario, phase, crashes>>

\* The answer nobody waits for gives its client back to the pool
LateAnswer(r) ==
    /\ r \in left
    /\ "database" \notin scenario.hang
    /\ left' = left \ {r}
    /\ UNCHANGED <<api, auth, poll, scenario, phase, crashes>>

-----------------------------------------------------------------------------
(* The indexer writes to the same tables *)

\* A query of a poll: it holds a client of the pool until it is answered.
\* (One at a time: overlapping polls only hold more of them.)
IndexerQueries ==
    /\ Running /\ scenario.indexer
    /\ poll = "idle"
    /\ poll' = "query"
    /\ UNCHANGED <<api, auth, left, scenario, phase, crashes>>

\* The answer, or the error: stopIndexer does not wait for it, pool.end does
QueryEnds ==
    /\ poll = "query"
    /\ "database" \notin scenario.hang
    /\ poll' = "idle"
    /\ UNCHANGED <<req, faults, auth, left, scenario, phase, crashes>>

\* A query that reads, fails, or writes what no request looks at
IndexerAnswered == QueryEnds /\ UNCHANGED db

\* An upsert of a campaign: of a new row, or of one that no transaction locks
IndexerUpsertsCampaign(id, active) ==
    /\ QueryEnds
    /\ \A r \in Request : id \notin Locked(r)
    /\ db' = store!UpsertCampaign(db, id, active)

\* upsertReward: the user's row, then the reward
IndexerInsertsUser(u) == QueryEnds /\ db' = store!InsertUser(db, u)

IndexerUpsertsReward(u, id) ==
    /\ QueryEnds
    /\ store!ReferencesExist(db, u, id)
    /\ db' = store!UpsertReward(db, u, id)

\* What the answer of a query may have done
IndexerWrites ==
    \/ IndexerAnswered
    \/ \E e \in scenario.upserts : IndexerUpsertsCampaign(e[1], e[2])
    \/ \E e \in scenario.claims : IndexerInsertsUser(e[1]) \/ IndexerUpsertsReward(e[1], e[2])

-----------------------------------------------------------------------------
(* Shutdown, crash, restart *)

\* mutant: the process does not wait for server.close
SignalExits ==
    /\ phase = "listening"
    /\ phase' = "ending"
    /\ UNCHANGED <<api, auth, clients, scenario, crashes>>

\* SIGTERM or SIGINT: server.close stops accepting, and waits for what is in
\* flight without any limit
Signal ==
    /\ phase = "listening"
    /\ phase' = "closing"
    /\ UNCHANGED <<api, auth, clients, scenario, crashes>>

\* mutant: server.close waits for idle connections too
ServerClosedWhenIdle ==
    /\ phase = "closing"
    /\ \A r \in Request : req[r].pc \in {"done", "dropped"}
    /\ phase' = "ending"
    /\ UNCHANGED <<api, auth, clients, scenario, crashes>>

\* server.close calls back: closeAllConnections, stopIndexer, and pool.end, after
\* which no query starts
ServerClosed ==
    /\ phase = "closing"
    /\ \A r \in Request : ~InFlight(r)
    /\ phase' = "ending"
    /\ UNCHANGED <<api, auth, clients, scenario, crashes>>

ClientsOut == left # {} \/ poll = "query"

\* pool.end waits for every client that is checked out, without any limit; then
\* process.exit(0)
PoolEnds ==
    /\ phase = "ending"
    /\ ~ClientsOut
    /\ phase' = "exited"
    /\ UNCHANGED <<api, auth, clients, scenario, crashes>>

\* Uncaught exception, kill: connections are cut and transactions roll back
Crash ==
    /\ phase # "exited"
    /\ crashes < MaxCrashes
    /\ crashes' = crashes + 1
    /\ phase' = "exited"
    /\ req' = [r \in Request |->
           IF InFlight(r) THEN [req[r] EXCEPT !.pc = "dropped"] ELSE req[r]]
    /\ left' = {} /\ poll' = "idle"
    /\ UNCHANGED <<db, faults, auth, scenario>>

\* The container is started again, with an empty memory
Restart ==
    /\ phase = "exited"
    /\ process < MaxRestarts
    /\ phase' = "validating"
    /\ ForgetAuth
    /\ UNCHANGED <<api, clients, scenario, crashes>>

\* Time matters to authentication only
Tick ==
    /\ phase = "listening"
    /\ \E r \in Request : req[r].op.kind = "challenge"
    /\ AuthTick
    /\ UNCHANGED <<api, clients, scenario, phase, crashes>>

Next ==
    \/ ValidateEnv \/ Listen \/ Signal \/ ServerClosed \/ PoolEnds \/ Crash \/ Restart \/ Tick
    \/ \E r \in Request :
           \/ Receive(r) \/ ReceiveChallenge(r) \/ ReceiveVerify(r) \/ Handle(r)
           \/ LateAnswer(r)
           \/ \E c \in Checks : CheckAnswers(r, c) \/ CheckTimesOut(r, c)
    \/ IndexerQueries \/ IndexerWrites

Spec == Init /\ [][Next]_vars

\* The start proceeds, timers fire, and a database that is not hung answers;
\* nothing makes a client send, an operator signal or the indexer poll
Fairness ==
    /\ WF_vars(ValidateEnv \/ Listen \/ ServerClosed \/ PoolEnds)
    /\ WF_vars(IndexerAnswered)
    /\ \A r \in Request :
           /\ WF_vars(Handle(r)) /\ WF_vars(LateAnswer(r))
           /\ WF_vars(\E c \in Checks : CheckTimesOut(r, c))

FairSpec == Spec /\ Fairness

-----------------------------------------------------------------------------
(* Properties *)

\* Type invariant: among the types, every request is at a step of its own route
\* (RequestOK), with its updates counted
TypeOK ==
    /\ ApiTypeOK /\ AuthTypeOK
    /\ scenario \in Scenarios
    /\ left \subseteq Request /\ poll \in {"idle", "query"}
    /\ phase \in {"validating", "secrets", "listening", "closing", "ending", "exited"}
    /\ crashes \in 0..MaxCrashes

Claims(u, id) ==
    {r \in Request : req[r].op.kind = "claim" /\ req[r].op.user = u /\ req[r].op.campaign = id}

\* However many claims of a pair race, and the indexer's upsert with them, at
\* most one is answered 201; and 201 or 409 means that the row is there
\* (concurrent-claim.test.ts races ten claims, without the indexer or failures)
ClaimAnsweredOnce ==
    \A u \in UserAddress, id \in CampaignId :
        LET answered(s) == {r \in Claims(u, id) : req[r].answer = s}
        IN /\ Cardinality(answered(201)) <= 1
           /\ answered(201) \cup answered(409) # {} => <<u, id>> \in db.rewards

Reorders == {r \in Request : req[r].op.kind = "reorder" /\ req[r].op.valid}

\* The rows that every reordering names: all of them, when each lists all
AlwaysOrdered == {id \in scenario.rows : \A r \in Reorders : store!Names(req[r].op.order, id)}

\* Those rows are in the order of one request, or in none yet, at every moment,
\* whatever requests race, deadlock, fail or die half way: never in a mixture
\* of two orders
OrderOfOneRequest ==
    \/ \A id \in AlwaysOrdered : db.campaigns[id].order = 0
    \/ \E r \in Reorders : \A id \in AlwaysOrdered :
           db.campaigns[id].order = store!PlaceOf(req[r].op.order, id) - 1

\* Requests are cut by a crash only: a graceful shutdown answers what it
\* accepted before it exits (gracefulShutdown, "Stop accepting new connections")
AnsweredBeforeExit ==
    phase \in {"ending", "exited"} => \A r \in Request : ~InFlight(r)

\* A health check is answered even when the RPC or the database hang, as long
\* as the process lives (app.ts, "so a slow dependency cannot block the response")
HealthAnswers ==
    \A r \in Request : At(r, "health") ~> ~At(r, "health")

\* A signalled process exits: every handler ends, deadlocked transactions
\* included, and every client comes back to the pool, unless one waits for a
\* database that hangs: a handler, a health check answered long ago, or a poll
ShutdownCompletes ==
    phase = "closing" ~>
        \/ phase = "exited"
        \/ "database" \in scenario.hang /\ (ClientsOut \/ \E r \in Request : InFlight(r))

\* "Give in-flight requests up to 10s to complete", then "Shutdown timeout
\* exceeded, forcing exit" (index.ts): the process exits whatever hangs.  It
\* does not: neither server.close before that timer nor pool.end after it has
\* a limit.
ShutdownForced == phase = "closing" ~> phase = "exited"

\* What a client knows of its request from the answer, or from having none: a
\* 500 may be the refusal of a bad request or a lost effect.  A handler that
\* rolls back can only answer 500.
Outcome(r) ==
    CASE req[r].pc = "unsent"                                     -> "unsent"
      [] req[r].answer \in {200, 201}                             -> "success"
      [] req[r].answer \in {400, 401, 404, 409}                   -> "refused"
      [] req[r].answer \in {500, 503}                             -> "error"
      [] req[r].answer = 0 /\ req[r].pc \in {"rollback", "dropped"} -> "error"
      [] OTHER                                                    -> "open"

\* The rows that came too late for a reorder: after its last UPDATE of their id
Missed(r) ==
    IF req[r].pc \in {"update", "commit"}
    THEN {id \in Touched(r) :
             /\ store!HasRow(db, id) /\ id \notin req[r].rows
             /\ \A i \in (req[r].updated + 1)..Len(req[r].op.order) : req[r].op.order[i] # id}
    ELSE {}

\* The server keeps the promise of AtomicApi: the statements of a handler, with
\* everything that other handlers, the indexer, failures and crashes do between
\* them, amount to one step
atomic == INSTANCE AtomicApi WITH
    op <- [r \in Request |-> req[r].op],
    campaigns <- db.campaigns,
    rewards <- db.rewards,
    missed <- [r \in Request |-> Missed(r)],
    outcome <- [r \in Request |-> Outcome(r)]

RefinesAtomicApi == atomic!Spec
=============================================================================
