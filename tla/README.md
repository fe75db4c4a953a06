# Soroban Loyalty: specification and proofs

TLA+ models of the Soroban loyalty platform (three Soroban contracts, an
off-chain indexer and API, a web client), checked with TLC on small instances
and, for the properties that matter most, proved with TLAPS for every value of
the parameters. Source paths are relative to the repository root.

Three specifications cover the running system: `RewardsContract` (the three
contracts on one ledger), `Indexer` and `Server` (the backend, over one store of
SQL statements), and `WebApp` (the client, from the wallet to the transaction it
submits).

## The system

| Part | State | Operations | Talks to |
|---|---|---|---|
| **Token** `src/contracts/token` | balances, allowances, total supply, multi-sig configuration, minter, pending rotation | initialize, mint, burn, transfer, approve, transfer_from, propose / approve / execute_set_admin | called by the rewards contract and by accounts |
| **Campaign** `src/contracts/campaign` | campaigns by id, next id, admins and threshold, pending upgrade, code hash | initialize, create_campaign, set_active, record_claim, propose / authorize / execute / cancel_upgrade | called by the rewards contract, merchants, anyone (record_claim) |
| **Rewards** `src/contracts/rewards` | claim records (v2 and legacy v1), vesting schedules, admin, migration flag | initialize, claim_reward, claim_vested, redeem_reward, migrate_v1_to_v2 | calls campaign (is_active, get_campaign, record_claim) and token (mint, burn) inside one invocation |
| **Deployment** `src/scripts/deploy-contracts.sh` | addresses | deploy three contracts, initialise them | decides the initial states |
| **Indexer** `src/backend/src/indexer` | cursor, backoff, dead letters | poll, process with retry, dead-letter, save cursor | reads contract events from the RPC, writes the database |
| **Services and database** `src/backend/src/services`, `src/database` | users, campaigns, rewards, transactions, display order | upserts, claim insertion, soft delete, restore, reorder | called by the indexer and the routes |
| **HTTP routes** `src/backend/src/routes` | requests in flight | list, get, rewards, claim, delete, restore, reorder, analytics | the services; answered by the error middleware when they throw |
| **Merchant authentication** `src/backend/src/auth.ts` | nonces per key, tokens | challenge, verify, requireAuth | in front of the merchant routes |
| **Server life cycle** `src/backend/src/index.ts`, `app.ts` | listening, indexer timer, pool | start, health, graceful shutdown | owns the indexer and the pool |
| **Transaction client** `src/frontend/src/lib/soroban.ts` | phase of a transaction | simulate, sign, submit, poll, report | Freighter, the RPC and, through it, the contracts |
| **Pages** `src/frontend/src/app`, `components` | what was asked for, what is shown, buttons that wait | the effects on account, page and period; claim, create, export, sort, deactivate | the API, the wallet, the transaction client |
| **Wallet state** `src/frontend/src/context/WalletContext.tsx` | public key, balance | connect, disconnect, refresh | the API |
| **Blue-green switch** `src/scripts/blue-green-switch.sh` | slot of two services | verify, patch, smoke test, roll back | the cluster |

What makes each of them correct, and what is hard:

* **Token.** Balances never overdrawn, the supply accounts for them, only a
  quorum rotates minter and signers. Hard: reads before writes when `from = to`,
  signatures counted by length, checked arithmetic at the ends of i128.
* **Campaign.** A campaign keeps the terms users claimed under; a claim count is
  never lost; code changes only after quorum and timelock. Hard: entry points
  usable before `initialize`, an id counter that is reset, whole-record
  read-modify-write.
* **Rewards.** One reward per user and campaign, for ever; vesting never ahead
  of the clock; tokens minted exactly as the records say. Hard: two record
  formats and a migration between them while users claim, three contracts in
  one invocation, rounding.
* **Indexer, services.** Every event applied, once in effect, in order; the
  cursor never skips an unapplied event. Hard: polls that overlap, crashes
  between batch and cursor, several statements per event without a transaction.
* **Routes.** At most one 201 per claimed pair, and the row is there; the display
  order is that of one request. Hard: claims that race each other and the
  indexer, transactions that deadlock, rows inserted while a reorder runs.
* **Authentication, life cycle.** A nonce buys one token; a health check answers
  though its dependencies hang; shutdown answers what it accepted and ends. Hard: a
  second challenge, restarts, timers that race answers, queries that outlive the
  requests they were made for.
* **Client, wallet, pages.** What is first reported of a transaction is what the
  ledger did; the balance ends up
  being the connected account's; a page at rest shows what is selected; buttons
  come back. Hard: nothing is cancelled, so answers arrive for accounts, pages
  and components that are gone.

`PROJECT.json` lists the hazards line by line, each with the properties that
guard it or why none does.

## Modules

| Module | Models |
|---|---|
| `TokenContract` | the token contract |
| `CampaignContract` | the campaign contract, upgrade mechanism included |
| `RewardsContract` | the rewards contract composed with instances of the two above: the deployed system |
| `RewardLedger` | the abstract promise: one grant per (user, campaign), never revised, paid out monotonically up to the grant |
| `MCToken`, `MCCampaign`, `MCRewards` | small instances for TLC |
| `SignatureLemmas` | lists of signatures without repeats: as many signers as signatures |
| `TokenContractProofs`, `CampaignContractProofs` | theorems of the two specifications |
| `RewardsContractProofs` | lemmas of the composed system: division and products, the multiplier, the token and the registry under its steps |
| `RewardsSystemProofs` | the inductive invariant of the composed system, its theorems, and the implementation of `RewardLedger` |
| `LoyaltyStore` | the database: each SQL statement as a function of the stored rows, with the schema's keys |
| `Indexer` | the event indexer: polls that step at their awaits, over `LoyaltyStore` |
| `EventIngestion` | the abstract promise of an indexer: the cursor passes settled events only, and settled events stay settled |
| `HttpApi` | the routes and services as concurrent handlers over `LoyaltyStore`, with row locks and deadlocks |
| `MerchantAuth` | challenge, verify, tokens |
| `Server` | the backend process: start, requests of `HttpApi` and `MerchantAuth`, health, shutdown, crash, restart |
| `AtomicApi` | the abstract promise of the routes: a request takes effect in one step or not at all, and its answer says which |
| `Browser` | accounts, scenarios, and `apiFetch` |
| `Wallet` | `WalletContext`, `WalletConnector` and the Freighter extension |
| `SorobanClient` | `invokeContract`, with the popup, the RPC and the ledger as it uses them |
| `Page` | what all pages do: ask in an effect, store answers in arrival order |
| `ReadingPages`, `ClaimPages`, `MerchantPages` | history, transactions, analytics, profile; dashboard and campaign page; merchant portal |
| `WebApp` | the client: the wallet, one mounted page, the invocations in flight, navigation |
| `MCIndexer`, `MCServer`, `MCWebApp` | small instances for TLC |
| `IndexerProofs` | the inductive invariant of the indexer, its theorems, and the implementation of `EventIngestion` |
| `ServerProofs` | the inductive invariant of the server, its theorems, and the implementation of `AtomicApi` |
| `WebAppProofs` | the inductive invariant of the client: the invocations, and what every page has asked for |

### How state and actions correspond to the code

A Soroban invocation is atomic: it either completes or, on a panic, leaves no
trace, in the called contracts too. So one entry point is one action, an
assertion or a checked operation that would panic is a conjunct of its guard,
and a cross-contract call is the conjunction with the callee's action. Storage
keys are functions; a key that was never written is `None`, or the value the
code reads in its place (`unwrap_or`). `require_auth` is the first parameter of
the action: who authorised the call. The order of writes inside an invocation
is kept where it can be seen: `MoveBalance` reads both balances before either
write, so that with `from = to` the credit overwrites the debit, as in
`transfer` (token, lines 244 to 249).

`claim_reward` writes a record of amount 0 before its calls and replaces it
after them. No callee reads it and the invocation is atomic, so only the final
record is visible; the model writes that one.

`now` is the ledger timestamp. `Tick` advances it between invocations; any
number of invocations may share a timestamp.

`Deployments` are the states the rewards contract may start in: a new
deployment (token and campaign initialised, the rewards contract the minter),
or one upgraded from v1 with campaigns, legacy claims, balances and an admin.
Whether and when rewards is initialised is up to the behaviour: `Initialize` is
an action. The claims of v1 are for existing campaigns and were counted by
`record_claim`; `RewardsAssumption` says so.

`RewardsContract` leaves the campaign contract's upgrade entry points to
`CampaignContract`: they share no variable with the rest of the system.

**Backend.** JavaScript runs to the next `await` without interruption, so an
action is the code from one await to the next, and everything else may happen in
between. In `Indexer` a poll carries what its local variables hold: the end of
its batch, the event it applies, the attempt, the statement within
`processEvent`. A call that fails may have failed before or after it took effect
(`AttemptFails` offers both). `ProcessEnds` is a crash or the end of a graceful
shutdown; both take the polls in flight with them. `lost` and `overlapped` are
history variables: the dead-letter writes of which only a log line is left, and
whether two polls were ever in flight together. The delay after a failed poll
delays that poll only (the interval does not wait for it), so it is one state.

In `HttpApi` a request is a handler at an await. A statement is atomic; an
`UPDATE` inside `BEGIN`/`COMMIT` locks its row until the end; the updates become
visible at `Commit`; a cycle of waiting transactions is broken by failing one of
them. `Server` adds the process: what `env.ts` validates while `index.ts` is
still importing it, what `loadSecrets` adds later, the timers of `/health`, and
`gracefulShutdown` up to `process.exit`. The indexer's statements reach the same
rows (`IndexerWrites`), each as the answer of a query that holds a client of the
pool (`poll`): an upsert updates its row, or inserts one. A database call whose
connection fails may have taken effect or not (`LostEffect`: the commit of a
reorder, a delete, a restore, a claim's insertions).

An `UPDATE` of a reorder changes the row it finds, so `rows` of a request
holds the ids it has found: a row inserted after the `UPDATE` of its id and before
the `COMMIT` keeps the place it was inserted at. `/health` answers when its timer
wins, and the `SELECT 1` it no longer waits for keeps its client (`left`) until
the database answers (`LateAnswer`); `PoolEnds` waits for those clients and for
the indexer's, as `await pool.end()` does.

The only error handler that `createApp` mounts is `errorAlertMiddleware`, which
answers 500 to every error, so a bad list or an unknown id is answered 500 (the
statuses that `middleware/errorHandler.ts` knows are never used). `AtomicApi` is
what a client may rely on: one step of effect per request, on the rows of that
moment, with the answer telling success, refusal or an error that leaves it open;
a reorder may miss the rows that were inserted while it ran (`missed`). A 500 is
an error there, since the same status may stand for a lost effect; a handler that
is rolling back counts as an error already, since 500 is all it can still answer,
and so does a request that a crash has cut.

**Client.** A page's data is abstracted to the selection it was asked for (an
account; an account and a page number; a period), so that showing the data of
another selection is visible. `page.pending` holds the questions without an
answer, in the order asked; any of them may be answered next. `settled` and
`stale` are history: whether the newest question has its answer, and whether
what is shown is known to be something else. A handler keeps the account and the
page of the render in which its button was clicked (`call[c].key`, `.visit`);
`setState` of a page that was left does nothing. In `SorobanClient` time is
counted in waits of the poll loop: `left` is what remains of the transaction's
30 seconds, which a user who hesitates in the popup uses up as well. `doubt`
marks an invocation for which the RPC lost an answer, lagged behind the ledger
or dropped a submission (`TRY_AGAIN_LATER`, which the code treats as submitted).

What the user is told of an invocation is `told`: the toast of a success, of a
failure, or `both`, the one after the other. The `try` of both claim handlers holds
the reload as well as the claim, so a reload that fails is toasted as an error
after the success of the claim (`FailsAfterClaim`).

What the client promises is stated of that: `ReportsAreTrue` says that what was
reported as a success was applied, also when an error follows; and that without
`doubt` an invocation of which a failure is all the user was told neither was nor
can still be applied. The boundary holds because 20 polls of 1.5 seconds cover the 30
seconds, and because every other transaction of the account that goes first uses
up the sequence number.

### What is read from use

The sources do not build as they stand, and names that are used but declared
nowhere are modelled from their use and marked as such in the map:
`ClaimRecord`, `DataKey::SchemaVersion` and `DataKey::MigrationV1Done` in the
rewards contract, `TIMELOCK` in the campaign contract (the constant `Timelock`,
any number of seconds). The `Campaign` literal in `create_campaign` omits the
`id` field; nothing reads it, and neither does the model. Names, descriptions,
token metadata, events, storage TTLs and fees are left out: nothing in the
contracts depends on them.

The client and the backend do not build as committed either, and are modelled as
their code means: `toast` is used in `WalletContext` but not declared there, the
network banners are rendered without their required `health`, `indexer.ts` uses
`ensureIndexerTable`, `calcBackoff`, `sleep` and `TOKEN_CONTRACT` without
declaring them, `index.ts` uses `createApp` without importing it. The create form
passes three arguments to `create_campaign`, whose contract takes five: against
this repository's contract the simulation refuses it, which `Prepare` allows; a
contract that accepts it is modelled too, for the form's behaviour after a
success. The redeem button hands a reward to a handler that expects an id and an
amount; the handler throws in `BigInt(undefined)` before it submits, so no
redemption starts in the client.

PostgreSQL, the RPC, the ledger, Freighter, React and the client router are
external: they are modelled from how the code uses them.

## Runs

| Run | Instance | Shows |
|---|---|---|
| `token` | 2 addresses, i128 cut to -3..2, amounts -1..2, 6 configurations (one with a repeated signer, two invalid) | types and ranges, drift only by self-transfer, signatures current and distinct, rotation only by quorum, what is signed is what is installed |
| `token_supply` | the same | **violated**: total supply = sum of balances |
| `campaign` | 2 addresses, 2 ids, u64 cut to 0..3, timelock 2, clock 0..3, 3 code hashes, 5 admin configurations | types, terms of issued campaigns immutable, upgrade needs quorum and delay; no deadlock |
| `campaign_terms` | the same | **violated**: terms of every campaign immutable |
| `rewards` | 2 users (one the merchant), 2 campaigns, clock 0..3, the code's 10_000 basis points, vesting of 0 or 2 days of one tick, new and legacy deployment | types, vesting on schedule, grants within 1x and 2x, early claims never worse, counter covers claims, claims are for ever, terms kept, implementation of `RewardLedger` |
| `rewards_tokens` | 1 legacy campaign, all token calls open to 2 users, i128 cut to -3..2 | tokens follow the records, through redemption, stray `record_claim` calls and rotation of the minter |
| `rewards_migration` | as `rewards` | **violated**: a completed migration leaves no legacy key |
| `indexer` | 2 polls at once, 3 histories of three events, batches of two, 2 attempts, 2 faults, 1 crash, 1 reset | no gaps, records after their effects, campaigns right after serial replays, catching up, implementation of `EventIngestion` |
| `indexer_campaigns` | the same, with the events the campaign contract publishes | **violated**: created campaigns get their row |
| `server` | 3 requests in 14 scenarios, 2 campaigns, 2 users, 1 fault, 1 crash, 1 restart, a clock of 0..2 | one token per nonce, one 201 per claim, the order of one request, accepted requests answered, health answers, shutdown completes, implementation of `AtomicApi` |
| `server_shutdown` | 3 health checks against a database that hangs, 1 fault, no crash | **violated**: a signalled process exits |
| `frontend` | 2 accounts, 2 campaigns, 2 invocations, 15 scenarios of a page or two | true reports, staleness only by a race, the balance recovers, buttons come back |

The five violated runs are disagreements between the code and its documents met
while modelling; `PROJECT.json` quotes the lines.

1. A transfer to oneself creates tokens the supply does not count.
2. A campaign created before `initialize` is overwritten after it.
3. The first `migrate_v1_to_v2` call ends the migration whatever batch it was
   given; documents describe one call per batch.
4. The indexer decodes the value of a creation as an address; the contract
   publishes a tuple. No creation is ever indexed, and claims of the campaign
   violate the foreign key and are set aside with it.
5. `index.ts` announces a forced exit after ten seconds. Its timer runs only
   after `server.close` has called back and is cleared before `await pool.end()`:
   a query that hangs, of a health check answered long ago or of a poll, keeps the
   process for ever.

Three more are in the code and in the models as the code has them, and have no run
of their own, since the texts they contradict are less clear or the code needs no
behaviour to show them:

* Integration tests and OpenAPI comments ask for 400 and 404 where the only error
  handler that `createApp` mounts answers 500 (`backend/src/logger.ts:111`): an invalid and an
  unknown id of `GET /campaigns/:id` (`get-endpoints.test.ts:110-137`,
  `campaign.routes.ts:126-129`), an invalid list of the reorder route
  (`campaign.routes.ts:179-180`). In `HttpApi` they are `Refusal` and `GetCampaign`.
* Some tests of `claim_reward` assert the bare `reward_amount` right after the
  creation of the campaign (`contracts/rewards/src/lib.rs:480`, `:504`, `:624`),
  others the doubled amount (`:418`, `:521`). The contract grants up to twice as
  much; `GrantWithinMultiplier` states the bounds.
* The guide to the wallet shows an error toast for a claim that failed
  (`docs/freighter-integration.md:350-354`). The pages also show it for a claim
  that succeeded, when the reload after it fails (`told` is `both`).

Some of the passing properties say exactly how far the code goes, because the
plain form fails:

* `SerialPollsMatchChain` excludes histories in which two polls overlapped.
  Without `~overlapped` TLC finds: a second poll starts before the first has
  saved, re-reads the old cursor and re-applies a creation after the first poll
  has applied the deactivation; a crash then ends it, and the campaign stays
  active with the cursor at the tip. The interval makes overlap certain whenever
  an event is retried to the end (2 + 4 seconds of backoff against 5).
* `StaleOnlyByRace` allows three ways in which a page rests on data of another
  selection: its newest request failed, an older answer came later, or a claim or
  a creation begun with another account ended. TLC shows each of them to
  happen; the property says that there is no fourth.
* `ShutdownCompletes` excludes a database that hangs while something waits for
  it: a request, or a client of the pool that no request is waiting for.
* `OrderOfOneRequest` speaks of the rows that were there at the start. A row the
  indexer inserts while a reorder runs may be missed by it, which `AtomicApi`
  grants (`missed`).

### Bounds, and why they are enough

`MaxI128` and `MaxU64` stand for the widths of the integers: the small values
make overflow guards bite within a few steps. Amounts include a negative, zero
and a value above some balances. Two addresses suffice for every aliasing
(`from = to`, owner = spender, signer = minter) and for quorums of one and two;
two users and two campaigns for every interference between claims. `MaxTime` is
past the expiration of every campaign and lets a clock tick between creation,
claim, partial and full vesting; `MaxCampaigns` bounds ids; `MaxStrayCount`
bounds how far outsiders raise a claim counter with `record_claim`. In `rewards`
the token's own entry points are closed (`AmountArgs` empty) and in
`rewards_tokens` campaigns are not created, which keeps both runs under two
minutes; together they fire every action. `OneX` is 10_000 in `rewards`, as in
the code, and 1 in `rewards_tokens`, where balances are cut to 0..2.
`SecondsPerDay` is 86_400 in the code and 1 or 2 in the runs, so that schedules
end within the clock's bound; the proofs hold for any value.

Deadlock is checked in `token` and `campaign`. The `rewards` runs say
`CHECK_DEADLOCK FALSE`: their bounded clock stops and a system in which
everything has been claimed has nothing left to do.

In `indexer` two polls are enough for every pair of an early and a late one, and
batches of two under histories of three make the cursor stop inside a history.
The histories are: a campaign created, claimed and deactivated; one deactivated
and redeemed from; one whose creation cannot be decoded, claimed all the same.
Two attempts exercise a retry and its end; the two faults, the crash and the
reset may come anywhere. In `server` three requests are enough for a race of two
with a third (the lock cycle of two reorders with a waiting delete; three
claims; a reorder of a row that is inserted meanwhile); a scenario fixes which
operations they send, and their order,
interleaving, failures, crash and signal are free. In `frontend` a scenario fixes
the pages visited and bounds what the user does (`changes`, `calls`), which
requests may fail (`faults`) and which kinds of events happen (`deeds`); the
order of clicks, answers, timers and ledger closes is free. `TimeBound =
MaxPolls = 2` keeps the ratio of the code (30 seconds against 20 polls of 1.5
seconds), and the equality is the boundary case. `MaxRefresh` bounds how many
refreshes of one account the interval lets overlap; with two accounts the answers
still arrive in every order.

The runs of these three say `CHECK_DEADLOCK FALSE`: a client whose user stops clicking, a
process that was stopped, and an indexer whose crashes and faults are used up at
the end of its log have nothing left to do.

### Fairness

The contracts state none. Nothing in a contract runs by itself: a claim, a payout
or a migration happens only if somebody calls it, and no liveness is claimed.

* **Indexer** (`CatchesUp`): the container restarts the process (`restart:
  unless-stopped` in `docker-compose.yml`), the interval fires, and each poll's
  pending call returns or fails. Faults, crashes and resets are bounded, so this
  is catching up once they are over. Nothing makes `startIndexer` succeed: when
  its first statement fails, `index.ts` logs it and the server runs without an
  indexer, which the property excludes by name. Overlapping polls may move the
  cursor back; the minimum of the cursor and of what polls in flight will save
  never decreases, which is why it still converges.
* **Server** (`HealthAnswers`, `ShutdownCompletes`): start-up and shutdown steps
  proceed, timers fire, and a database that does not hang answers each handler
  (deadlocks included: PostgreSQL detects them), a query nobody waits for
  (`LateAnswer`) and the indexer (`IndexerAnswered`). Nothing makes a client send,
  an operator signal or the indexer poll. A database that hangs blocks the
  shutdown without limit, because the ten seconds start after `server.close` and
  end before `pool.end`; the property says so, and `server_shutdown` shows it.
* **Client** (`BalanceRecovers`, `ButtonsComeBack`): what was begun goes on
  (`Proceeds`: promises of the backend and the extension settle, the popup is
  answered or closed, timers fire, invocations step), the 30 second interval
  fires, and refreshes end. Nothing makes the user click or a ledger include a
  transaction. One condition over all of `Proceeds` suffices, because each of its
  steps uses up something bounded.

### Mutants

Next to some definitions stands a variant with the comment `mutant:`, a
plausible mistake in the same code (a dropped check, a missing reset, an
off-by-one). Each property of a passing run is violated when the definition is
replaced by its variant; `PROJECT.json` has the list. No specification uses
them.

## Proofs

Every theorem holds for every value of the constants that satisfies the named
assumptions: any sets of addresses, users and merchants (users finite, since
claims are counted), any integer widths, arguments, timelock, basis and length
of a day, any deployment; any histories, number of polls, batch size, attempts,
faults, crashes and resets of the indexer (`IndexerAssumption`); any requests,
campaigns, users, keys, scenarios, faults, crashes, restarts and clock of the
server (`ServerAssumption`, `ApiAssumption`, `AuthAssumption`); any accounts,
scenarios and number of invocations of the client, and any limit on attempts that
is not below the time bound (`BrowserAssumption`, `WalletAssumption`,
`ClientAssumption`, `ClaimPagesAssumption`: an account is not `null`, a scenario
visits a page, and the page of a campaign only where there is one). The assumptions
of the contracts are `TokenAssumption`,
`CampaignAssumption` and `RewardsAssumption` (kinds of values; deployments are
well formed: ids dense below the counter, campaigns created before they expire,
v1 claims counted), and `NoneIsNoProposal`, `NoneIsNoCampaign` and
`NoneIsNoRecord` (an absent storage entry is none of the values a key can hold).
TLC evaluates all of them on every run of the module.

**Token.** `TypeCorrect`; then the signatures. `GovInv` adds to the types that
a pending proposal carries signatures of distinct signers of the *current*
configuration. That is inductive because the configuration changes only together
with the removal of the proposal, and it turns the length the code compares
with the threshold into a number of signers (`SignatureLemmas`):
`SignaturesAreCurrent`, `RotationSafe`, `SignedTermsSafe`.

**Campaign.** `TypeCorrect`, `IssuedTermsKept`, and `UpgradeSafe` from
`UpgradeInv`, the same strengthening for the upgrade's signatures.

**The system of the three contracts.** `SystemInv` is the conjunction of

* the types of the three contracts;
* `RegistryDense`: a campaign is stored exactly below the id counter. Without it
  `create_campaign` could be writing over a campaign;
* of each pair (user, campaign), `OneVersion` (recorded under v1 or v2, not
  both: otherwise migration would overwrite a grant), `ClaimSound` (the campaign
  exists and the claim is not in the future: otherwise elapsed time is no
  natural number), `Priced` (a grant is what the campaign *as it stands now* was
  worth at the claim: this carries both bounds and the order of claims, and is
  kept because terms are), `OnSchedule` (vesting against clock and grant);
* `CounterCoversClaims`, which needs `OneVersion` and `ClaimSound` to know that a
  claim adds exactly one claimer and a migration none.

`InitInv` shows it of every deployment and `NextInv` of every step, with one
lemma per entry point. Each is split in two: an `...Effect` lemma says what the
step does to the records of its pair (`PairClaims`, `PairVests`,
`PairMigrates`, `PairKept`), a `...Step` lemma that the invariant survives.
Products and quotients of unknown numbers are beyond the arithmetic of the
solver, so `RewardsContractProofs` proves monotonicity and exactness of `*` and `\div`
first, and `MultiplierBounds`, `MultiplierAntitone`, `FinalAmountFacts` and
`VestedFacts` say what the contract's formulas inherit. From `SystemInv` follow
`TypeCorrect`, `VestingSafe`, `CounterSafe`, `GrantsBounded`, `EarlyClaimsSafe`.

`NextEffect` sums up that every step claims for one pair, vests for one pair,
migrates some pairs, or keeps all of them and, while rewards is the minter,
mints nothing. The action properties come from it by cases:
`ClaimsPermanent`, `TokensMatchRecords`, and with the growth of the registry
`TermsAreKept`. `ImplementsLedger` maps the cases to `Grant`, `Release`, stutter
and stutter of `RewardLedger`, and legacy claims to pairs settled from the start.

**The indexer.** `CoveredEventsLeaveATrace` alone is not inductive: the cursor is
saved by a poll that fetched long ago, so what it is about to save must be known
to be settled. `IInv` therefore adds to the types

* `PollOK(p)` of each poll: its batch was served, everything below the event it
  applies is settled, and of that event the statements before the current one
  are done (what `Done` says of each statement);
* `RecordsDone`: a recorded event is one the RPC served, with all its statements
  done.

What makes this stable under other polls is that tables only grow (`Grows`):
upserts replace the columns of a row but no statement of the indexer deletes
one, so `Monotone` carries `PollOK` of every other poll, and of the past, through
any step that adds rows. `PerformFacts` shows it of each statement. One lemma
per action follows (`ApplyStep`, `AttemptFailsStep`, `DeadLetterStep`,
`SaveStep`, ...); `NextInv` of each is the same for any number of polls, which is
why overlap costs nothing here. From `IInv`: `TypeCorrect`, `NoGaps`,
`RecordsCorrect`, and `IngestionImplemented`, where each step settles one event,
moves the cursor over settled ones, publishes, or does nothing that
`EventIngestion` sees.

`SerialPollsCorrect` needs a second invariant, because a replay takes rows of
campaigns back through states they have left. `RightUpTo(k)` is right all the
same: it claims nothing of a campaign that still has an event after position k.
`SerialInv` says that, as long as no polls overlapped, at most one is in flight,
`RightUpTo` holds at the cursor and at the position the poll has reached, the
poll is never behind the cursor, and past the first statement of a campaign event
its row says what the event says. A statement writes only the row of the event's
own campaign, which has an event still to come (`Working`); the step past an
event makes it the last one or leaves it to a later one (`Advance`); an operator's
reset sets the cursor to 0, of which `RightUpTo` claims nothing. With two polls
the first part fails, and so does the property.

**The server.** `Inv` of `ServerProofs` was checked by TLC on the instance of
`server` before it was proved. It is the conjunction of

* `TypeOK`, and in it `RequestOK` of every request: where a handler stands agrees
  with its route, with whether its parameters were valid, with how many ids of its
  list it has updated, and with its answer. An answer is given only by a step that ends the handler, which makes
  every other fact about answers local to one step;
* `RowsOK` and `FoundOK`: the rows of the scenario are there, and so are the rows
  that a reorder has found. The indexer adds rows and nothing removes one (`Keeps`),
  so a row that was found is still there at a later await;
* `ClaimsOK`: a 201 or a 409 stands only for a recorded reward, and two claims of
  one pair are not both answered 201;
* `AuthInv`: nonces are numbered in the order of their issue, no two keys share
  one, and a nonce that may still be used has bought no token. `OneTokenPerNonce`
  alone is not inductive: that the next nonce is new, and that the one being
  verified is unspent, come from here, across restarts that forget the store;
* `Idle`: a process that does not run has no request in flight (`AnsweredBeforeExit`);
* `OrderOfOneRequest` itself. It is stated of the rows that *every* reordering
  names, for lists with repeats and ids that have no row. All updates of a list
  become visible in one step (`Commit`, or its lost answer). Every update of such
  an id has found its row, which was there from the start, so it takes the place of that list with all others of its kind (`OrderOps`); its last place
  exists because a non-empty set of places has a greatest element, shown over the
  finite sets under strict inclusion (`PlaceOfFacts`).

`HandlerEffect` sums up what one step of one handler may do to rows, rewards and
its own answer, with one lemma for each family of steps; `HandlerKeeps` derives the
invariant from that summary once for all of them. From `Inv`: `TypeCorrect`,
`NonceUsedOnce`, `ClaimsAnsweredOnce`, `OrdersNotMixed`, `ShutdownAnswers`.

`AtomicApiImplemented` takes the steps one by one again: a statement that changes
rows answers success in the same step (or, its answer lost, is an error that took
effect); a statement that finds nothing answers a refusal whose reason is true at
that moment; every other step leaves rows and outcomes alone; a crash ends with an
error the requests it cuts, which is `Fail` of a set. What the indexer writes
between two statements of a handler is a step of its own; when it inserts a row,
the reorders that had passed its id already (`TooLate`) miss it. At the commit a
row of the list was found, or is missed: an id whose row came before its last
`UPDATE` was found by it.

**The client.** `Inv` of `WebAppProofs` was checked by TLC on the instance of
`frontend` before it was proved. It has a part for the invocations, `SessionInv`,
and one for the page, `PageOK`; `Placed` ties them to the scenario, whose page is
the mounted one.

`ReportsAreTrue` is about the end of an invocation, and is kept by what held
during it. `CallOK` adds to the types of one invocation

* `Early`: before `sendTransaction` there is no transaction and no report;
* `NotAhead`: a sequence number that was read is never ahead of the ledger's.
  Without it a failed invocation could become includable when another one of the
  same account moves the number forward (`GrowsOK`);
* `SaidSuccess`: a handler that goes on to its reload has toasted a success, so
  that a failed reload makes it `both` and never a failure alone (`Resumed`);
* `PollsCover`: while it polls, what is left of the time bound is no more than
  the attempts that are left. So running out of attempts means that the time has
  run out, and the failure that is reported is final (`PollKeeps`). This is where
  `MaxPolls >= TimeBound` is used, which is 20 attempts against 30 seconds.

`OriginInv` says which page an invocation came from: one that creates a campaign
from the merchant's, one that claims from the dashboard or a campaign's page, and
only one of the dashboard goes on to ask for a balance. What a page of an earlier
visit left behind is told apart by it. `LedgerInv` says that an account's sequence
number counts the transactions that were included, which bounds it. One lemma per
step of `invokeContract` follows.

`StaleOnlyByRace` is about a page at rest, and needs what its questions ask for
while they are open. `QueryOK(p, sel)`: until the newest question has its answer it
is pending, is the *last* one, and asks for `sel`; once it has it, the page shows
`sel` or is marked stale. That answers come in any order is a fact about removing
an element from a sequence (`RemoveAtFacts`, `Answered`): the last question stays
last when another one is answered. A question of the handler of an earlier account
goes in front (`AskedLate`) for the same reason. `PageOK` says `QueryOK` of each
page's own selection: the connected account, the account and the page number, the
period, the campaign. Without an account the pages that ask only for one promise
nothing, since they show a hint; the merchant's, which asks for any key, promises
it even then. `PageOK` carries as well what the types need: a form waits for an
invocation only at its confirmation and with valid input, and the dashboard's
list is observed only while it has more. There is one lemma per effect
(`...Mounted`, `...EffectKeeps`), per answer (`...Answers`) and per group of handlers
(`ReadingKeepsPage`, `MerchantKeepsPage`, `ClaimPagesKeepPage`,
`AfterClaimKeepsPage`, `HandlerKeepsPage`).

The two parts hardly meet: a page begins an invocation for the connected account,
ends one's handler, or leaves all alone (`ReadingKeeps`, `MerchantKeeps`,
`ClaimPagesKeep`), and the end of an invocation releases a button of the page that
began it or reloads its list. From `Inv`: `TypeCorrect`, `ReportsCorrect`,
`FreshUnlessRaced`.

## Only model-checked

`DriftOnlyBySelfTransfer` sums a function over the addresses with a recursive
fold of the library; facts about it need induction with an operator parameter,
which the provers at hand cannot instantiate. Every other property of a passing
run of the contracts is also a theorem. Of the indexer, `CatchesUp` is liveness
and stays with TLC: fairness and `ENABLED` are out of the provers' reach.
So do `HealthAnswers` and `ShutdownCompletes` of `server`; its other properties are
theorems. The safety properties of `frontend` are theorems; `BalanceRecovers` and
`ButtonsComeBack` are liveness and model-checked only. The five
violated properties are refuted by their runs and have no theorem.

## Plan

1. Contracts and their theorems: done.
2. `Indexer` and its theorems, `EventIngestion`: done.
3. Routes, authentication and life cycle (`HttpApi`, `MerchantAuth`, `Server`):
   checked, with their theorems and `AtomicApi`: done.
4. The client (`WebApp`) and the theorems for its safety properties: done.
5. Left: an abstract specification of the client that `WebApp` implements, where an
   invocation takes effect in one step or not at all and a report follows it, as
   `AtomicApi` is for the server.

## Not modelled

* The blue-green switch: a sequential script over the cluster's API. Its hazard
  (a failure between the two patches) is listed in `PROJECT.json`.
* Client code that no page mounts or calls: `RedeemForm`, `useSorobanTransaction`,
  `useTxProgress`, `TransactionProgress`, `SortableCampaignList`, `GlobalSearch`,
  `ClientShell`, `ImageUpload`.
* Rendering beyond the choice of what is shown, translation, themes, toasts
  other than those that report a transaction (`told`), experiments, the design system.
* Backend code that nothing mounts or calls: `transaction.routes.ts` and its
  service (so the history page's requests are refused by this backend; the
  client is modelled for a backend that answers as well), `saveCampaignImageMapping`,
  `explainRewardsByUserQuery`. Uploads to S3, rate limits, metrics, OpenAPI and
  correlation ids keep no state that the parts above rely on.
* Amounts and dates in the database, and the balance as a number: the model keeps
  whose rewards a balance was computed from.
* Two backend instances at once. A rolling restart runs two indexers for a while;
  two polls of one process show what they do to each other.
* Clocks of the client and the ledger that disagree: `left` is one time for both.
* Infrastructure, monitoring, maintenance scripts, benchmarks and test suites.
