-------------------------------- MODULE Indexer --------------------------------
(***************************************************************************)
(* The event indexer of the backend (backend/src/indexer/indexer.ts): a    *)
(* timer starts a poll every five seconds whether or not the last one has  *)
(* ended; a poll reads the cursor, fetches a batch of events, applies each *)
(* with retries, dead-letters what keeps failing, and saves the cursor.    *)
(* Every await is a step, so polls interleave statement by statement.      *)
(*                                                                         *)
(* An event is its position in `log`, the events of the two contracts the  *)
(* poll filters for, and emits one row of transactions: a transaction of   *)
(* this system emits one such event.  A cursor (paging token) is the       *)
(* position of the last event of a batch.  The delay after a failed poll   *)
(* is one state: only the poll itself (and startIndexer) waits for it.     *)
(***************************************************************************)
EXTENDS Integers, Sequences

CONSTANTS Logs,            \* the histories of the chain to consider
          CampaignId, UserAddress,
          NoRow,
          Poll,            \* polls that may be in flight at once
          BatchLimit,      \* events per getEvents call
          MaxEventRetries,
          MaxFaults,       \* bound: failed calls to the RPC and the database
          MaxCrashes,      \* bound: ends of the process
          MaxResets        \* bound: deletions of the cursor by an operator

EventKind == {"CAM_CRT", "CAM_DEACT", "RWD_CLM", "RWD_RDM", "UNHANDLED"}

\* `decodable`: topics and value have the types that processEvent decodes
Event == [kind : EventKind, campaign : CampaignId, user : UserAddress,
          decodable : BOOLEAN]

VARIABLES log,        \* the chain's events of the two contracts
          tip,        \* how many of them the RPC serves
          db,         \* the database
          cursor,     \* indexer_state.cursor: 0 when there is no row
          proc,       \* the process, as far as the indexer goes
          poll,       \* the polls in flight
          faults, crashes, resets,
          lost,       \* history: events whose dead-letter write failed
          overlapped  \* history: two polls were in flight at once

store == INSTANCE LoyaltyStore WITH Tx <- Nat

ASSUME IndexerAssumption ==
    /\ \A l \in Logs : l \in Seq(Event)
    /\ BatchLimit \in Nat \ {0}
    /\ MaxEventRetries \in Nat \ {0}
    /\ MaxFaults \in Nat /\ MaxCrashes \in Nat /\ MaxResets \in Nat
    /\ NoRow \notin store!CampaignRow

vars == <<log, tip, db, cursor, proc, poll, faults, crashes, resets, lost, overlapped>>

IdlePoll == [pc |-> "idle", to |-> 0, next |-> 0, attempt |-> 1, step |-> 1]

\* to: the position the poll has fetched up to; next: the event it is applying
PollState ==
    [pc : {"idle", "fetch", "apply", "deadletter", "save", "backoff"},
     to : Nat, next : Nat, attempt : 1..MaxEventRetries, step : 1..3]

Init ==
    /\ log \in Logs
    /\ tip = 0
    /\ db = store!EmptyDatabase
    /\ cursor = 0
    /\ proc = "down"
    /\ poll = [p \in Poll |-> IdlePoll]
    /\ faults = 0 /\ crashes = 0 /\ resets = 0
    /\ lost = {}
    /\ overlapped = FALSE

-----------------------------------------------------------------------------
(* What processEvent does for each kind of event: its statements, in order *)

\* mutant: the transaction is recorded before the reward
ProgramRecordFirst ==
    [CAM_CRT   |-> <<"campaign", "transaction">>,
     CAM_DEACT |-> <<"campaign", "transaction">>,
     RWD_CLM   |-> <<"user", "transaction", "reward">>,
     RWD_RDM   |-> <<"transaction">>,
     UNHANDLED |-> <<>>]

Program ==
    [CAM_CRT   |-> <<"campaign", "transaction">>,
     CAM_DEACT |-> <<"campaign", "transaction">>,
     RWD_CLM   |-> <<"user", "reward", "transaction">>,
     RWD_RDM   |-> <<"transaction">>,
     UNHANDLED |-> <<>>]

Steps(i) == Program[log[i].kind]

\* The statement is accepted: only the reward's foreign key can refuse one
Accepted(d, i, s) ==
    Steps(i)[s] = "reward" => store!ReferencesExist(d, log[i].user, log[i].campaign)

Perform(d, i, s) ==
    CASE Steps(i)[s] = "campaign" ->
             store!UpsertCampaign(d, log[i].campaign, log[i].kind = "CAM_CRT")
      [] Steps(i)[s] = "user" -> store!InsertUser(d, log[i].user)
      [] Steps(i)[s] = "reward" -> store!UpsertReward(d, log[i].user, log[i].campaign)
      [] Steps(i)[s] = "transaction" -> store!RecordTransaction(d, i)

-----------------------------------------------------------------------------
(* The life of the process *)

Publish ==
    /\ tip < Len(log)
    /\ tip' = tip + 1
    /\ UNCHANGED <<log, db, cursor, proc, poll, faults, crashes, resets, lost, overlapped>>

\* startIndexer creates its tables, then awaits a first poll.  When that
\* fails, index.ts only logs it: the server runs on without an indexer.
Start ==
    /\ proc = "down"
    /\ \/ proc' = "starting" /\ UNCHANGED faults
       \/ faults < MaxFaults /\ proc' = "failed" /\ faults' = faults + 1
    /\ UNCHANGED <<log, tip, db, cursor, poll, crashes, resets, lost, overlapped>>

\* A crash, or the end of a graceful shutdown: the timer and every poll in
\* flight go with the process, whatever they had left to do
ProcessEnds ==
    /\ proc # "down"
    /\ crashes < MaxCrashes
    /\ crashes' = crashes + 1
    /\ proc' = "down"
    /\ poll' = [p \in Poll |-> IdlePoll]
    /\ UNCHANGED <<log, tip, db, cursor, faults, resets, lost, overlapped>>

\* The replay of the runbook: DELETE FROM indexer_state WHERE key = 'cursor'
OperatorReset ==
    /\ resets < MaxResets
    /\ resets' = resets + 1
    /\ cursor' = 0
    /\ UNCHANGED <<log, tip, db, proc, poll, faults, crashes, lost, overlapped>>

-----------------------------------------------------------------------------
(* One poll *)

InFlight(p) == poll[p].pc # "idle"

\* Once the first poll has ended, the interval is set
EndPoll(p) ==
    /\ poll' = [poll EXCEPT ![p] = IdlePoll]
    /\ proc' = IF proc = "first" THEN "running" ELSE proc

\* A failed call: the poll logs it and sleeps
FailPoll(p) ==
    /\ faults < MaxFaults
    /\ faults' = faults + 1
    /\ poll' = [poll EXCEPT ![p] = [IdlePoll EXCEPT !.pc = "backoff"]]

\* The first poll of startIndexer, or one the interval starts
Tick(p) ==
    /\ ~InFlight(p)
    /\ \/ proc = "starting" /\ proc' = "first"
       \/ proc = "running" /\ UNCHANGED proc
    /\ \/ poll' = [poll EXCEPT ![p] = [IdlePoll EXCEPT !.pc = "fetch", !.to = cursor]]
          /\ UNCHANGED faults
       \/ FailPoll(p)
    /\ overlapped' = (overlapped \/ \E q \in Poll : InFlight(q))
    /\ UNCHANGED <<log, tip, db, cursor, crashes, resets, lost>>

FirstEvent(p, to) ==
    [pc |-> "apply", to |-> to, next |-> poll[p].to + 1, attempt |-> 1, step |-> 1]

NextEvent(s) ==
    IF s.next = s.to THEN [s EXCEPT !.pc = "save", !.attempt = 1, !.step = 1]
    ELSE [s EXCEPT !.pc = "apply", !.next = @ + 1, !.attempt = 1, !.step = 1]

BatchEnd(from) == IF from + BatchLimit < tip THEN from + BatchLimit ELSE tip

\* getEvents from the cursor that was read: an empty batch ends the poll
Fetch(p) ==
    /\ poll[p].pc = "fetch"
    /\ \/ /\ poll[p].to >= tip
          /\ EndPoll(p)
          /\ UNCHANGED faults
       \/ /\ poll[p].to < tip
          /\ poll' = [poll EXCEPT ![p] = FirstEvent(p, BatchEnd(poll[p].to))]
          /\ UNCHANGED <<proc, faults>>
       \/ FailPoll(p) /\ UNCHANGED proc
    /\ UNCHANGED <<log, tip, db, cursor, crashes, resets, lost, overlapped>>

Applying(p) == poll[p].pc = "apply"

\* An event that no branch of processEvent handles
Ignore(p) ==
    /\ Applying(p)
    /\ Steps(poll[p].next) = <<>>
    /\ poll' = [poll EXCEPT ![p] = NextEvent(@)]
    /\ UNCHANGED <<log, tip, db, cursor, proc, faults, crashes, resets, lost, overlapped>>

NextStatement(s) == [s EXCEPT !.step = @ + 1]

\* One statement of processEvent
Apply(p) ==
    LET i == poll[p].next
        s == poll[p].step
    IN /\ Applying(p)
       /\ log[i].decodable
       /\ s <= Len(Steps(i))
       /\ Accepted(db, i, s)
       /\ db' = Perform(db, i, s)
       /\ poll' = [poll EXCEPT ![p] = IF s = Len(Steps(i)) THEN NextEvent(@)
                                      ELSE NextStatement(@)]
       /\ UNCHANGED <<log, tip, cursor, proc, faults, crashes, resets, lost, overlapped>>

\* mutant: one attempt too many
NextAttemptBeyond(s) ==
    IF s.attempt <= MaxEventRetries THEN [s EXCEPT !.attempt = @ + 1, !.step = 1]
    ELSE [s EXCEPT !.pc = "deadletter"]

\* processEvent throws, and is tried again from its first statement
NextAttempt(s) ==
    IF s.attempt < MaxEventRetries THEN [s EXCEPT !.attempt = @ + 1, !.step = 1]
    ELSE [s EXCEPT !.pc = "deadletter"]

\* The event cannot be decoded, or its reward references a missing row
Refused(p) ==
    LET i == poll[p].next
        s == poll[p].step
    IN /\ Applying(p)
       /\ Steps(i) # <<>>
       /\ ~log[i].decodable \/ ~Accepted(db, i, s)
       /\ poll' = [poll EXCEPT ![p] = NextAttempt(@)]
       /\ UNCHANGED <<log, tip, db, cursor, proc, faults, crashes, resets, lost, overlapped>>

\* A statement fails on the way to the database, or its answer is lost
AttemptFails(p) ==
    LET i == poll[p].next
        s == poll[p].step
    IN /\ Applying(p)
       /\ log[i].decodable
       /\ s <= Len(Steps(i))
       /\ faults < MaxFaults
       /\ faults' = faults + 1
       /\ db' \in {db} \cup (IF Accepted(db, i, s) THEN {Perform(db, i, s)} ELSE {})
       /\ poll' = [poll EXCEPT ![p] = NextAttempt(@)]
       /\ UNCHANGED <<log, tip, cursor, proc, crashes, resets, lost, overlapped>>

\* mutant: the failure of an event ends the batch, whose cursor is saved
DeadLetterEndsBatch(p) ==
    LET i == poll[p].next IN
    /\ poll[p].pc = "deadletter"
    /\ db' = store!InsertDeadLetter(db, i)
    /\ poll' = [poll EXCEPT ![p] = [@ EXCEPT !.pc = "save"]]
    /\ UNCHANGED <<log, tip, cursor, proc, faults, crashes, resets, lost, overlapped>>

\* The dead-letter row is written, or the failure is only logged; either way
\* the batch goes on
DeadLetter(p) ==
    LET i == poll[p].next IN
    /\ poll[p].pc = "deadletter"
    /\ \/ db' = store!InsertDeadLetter(db, i) /\ UNCHANGED <<faults, lost>>
       \/ faults < MaxFaults /\ faults' = faults + 1 /\ lost' = lost \cup {i} /\ UNCHANGED db
    /\ poll' = [poll EXCEPT ![p] = NextEvent(@)]
    /\ UNCHANGED <<log, tip, cursor, proc, crashes, resets, overlapped>>

\* mutant: the cursor is saved as the tip the batch was fetched at
SaveTip(p) ==
    /\ poll[p].pc = "save"
    /\ cursor' = tip
    /\ EndPoll(p)
    /\ UNCHANGED <<log, tip, db, faults, crashes, resets, lost, overlapped>>

\* The cursor becomes the last event of the batch, whatever it is by now
Save(p) ==
    /\ poll[p].pc = "save"
    /\ \/ cursor' = poll[p].to /\ EndPoll(p) /\ UNCHANGED faults
       \/ UNCHANGED <<cursor, proc>> /\ FailPoll(p)
    /\ UNCHANGED <<log, tip, db, crashes, resets, lost, overlapped>>

\* mutant: a first poll that failed leaves the interval unset
WakeUpWithoutInterval(p) ==
    /\ poll[p].pc = "backoff"
    /\ poll' = [poll EXCEPT ![p] = IdlePoll]
    /\ UNCHANGED <<log, tip, db, cursor, proc, faults, crashes, resets, lost, overlapped>>

\* The sleep of a failed poll is over
WakeUp(p) ==
    /\ poll[p].pc = "backoff"
    /\ EndPoll(p)
    /\ UNCHANGED <<log, tip, db, cursor, faults, crashes, resets, lost, overlapped>>

PollStep(p) ==
    \/ Fetch(p) \/ Ignore(p) \/ Apply(p) \/ Refused(p) \/ AttemptFails(p)
    \/ DeadLetter(p) \/ Save(p) \/ WakeUp(p)

Next ==
    \/ Publish \/ Start \/ ProcessEnds \/ OperatorReset
    \/ \E p \in Poll : Tick(p) \/ PollStep(p)

Spec == Init /\ [][Next]_vars

\* The process is restarted (restart: unless-stopped), the interval fires, and
\* every call a poll awaits returns or fails
Fairness ==
    /\ WF_vars(Start)
    /\ WF_vars(\E p \in Poll : Tick(p))
    /\ \A p \in Poll : WF_vars(PollStep(p))

FairSpec == Spec /\ Fairness

-----------------------------------------------------------------------------
(* Properties *)

\* Type invariant; polls hold positions of events the RPC already served
TypeOK ==
    /\ log \in Logs
    /\ tip \in 0..Len(log)
    /\ db \in store!Database
    /\ cursor \in 0..tip
    /\ proc \in {"down", "starting", "first", "running", "failed"}
    /\ poll \in [Poll -> PollState]
    /\ faults \in 0..MaxFaults /\ crashes \in 0..MaxCrashes /\ resets \in 0..MaxResets
    /\ lost \in SUBSET Nat
    /\ overlapped \in BOOLEAN

\* The trace of an event: its row, its dead-letter row, or the log line of a
\* dead-letter write that failed
Settled(i) ==
    \/ Steps(i) = <<>>
    \/ i \in db.transactions \cup db.deadLetters \cup lost

\* No gaps: every event the cursor has passed left a trace, however polls
\* overlap, calls fail, the process crashes or an operator resets the cursor
\* (the header of indexer.ts, "restarts resume from where they left off")
CoveredEventsLeaveATrace == \A i \in 1..cursor : Settled(i)

\* The statements of an event are not one transaction, but a claim's row of
\* transactions is the last of them: wherever a crash, a retry or another poll
\* cuts in, the history never shows a claim whose reward, user or campaign is
\* missing, nor a campaign event without its campaign
RecordsFollowEffects ==
    \A i \in db.transactions :
        /\ log[i].kind \in {"CAM_CRT", "CAM_DEACT"} => store!HasRow(db, log[i].campaign)
        /\ log[i].kind = "RWD_CLM" =>
               /\ <<log[i].user, log[i].campaign>> \in db.rewards
               /\ store!ReferencesExist(db, log[i].user, log[i].campaign)

CampaignEvents(id) ==
    {i \in 1..tip : log[i].kind \in {"CAM_CRT", "CAM_DEACT"} /\ log[i].campaign = id}

\* A campaign's row shows what its last event says, once the indexer has
\* caught up and rests: a replay after a crash or a reset goes through stale
\* states but ends right.  Only polls that overlapped, or an event that was set
\* aside, leave it wrong (upserts are not idempotent across two polls).
SerialPollsMatchChain ==
    (~overlapped /\ cursor = tip /\ \A p \in Poll : ~InFlight(p)) =>
        \A id \in CampaignId :
            \/ CampaignEvents(id) = {}
            \/ CampaignEvents(id) \cap (db.deadLetters \cup lost) # {}
            \/ \E last \in CampaignEvents(id) :
                   /\ \A i \in CampaignEvents(id) : i <= last
                   /\ store!HasRow(db, id)
                   /\ db.campaigns[id].active = (log[last].kind = "CAM_CRT")

\* With the RPC and the database back and no more restarts, the indexer
\* catches up with the chain, although a slow poll may move the cursor back;
\* unless its start failed, which nothing retries
CatchesUp == <>[](cursor = tip \/ proc = "failed")

\* The indexer keeps the promise of EventIngestion
ingestion == INSTANCE EventIngestion WITH
    published <- tip,
    settled <- {i \in 1..Len(log) : Settled(i)}

RefinesIngestion == ingestion!Spec

\* docs/indexer.md:75 says of a CAM_CRT event that its effect is a row of
\* campaigns.  The contract's event has the value (merchant, name,
\* description), which decodeAddress cannot decode: the event is set aside and
\* the campaign never gets its row.
CreatedCampaignsHaveRows ==
    \A i \in 1..cursor :
        log[i].kind = "CAM_CRT" /\ i \notin lost => store!HasRow(db, log[i].campaign)
=============================================================================
