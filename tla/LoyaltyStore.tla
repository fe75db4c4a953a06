----------------------------- MODULE LoyaltyStore -----------------------------
(***************************************************************************)
(* The database of the backend (users, campaigns, rewards, transactions,   *)
(* dead_letter_events), as the SQL statements of campaign.service.ts,      *)
(* reward.service.ts and indexer.ts read and write it.  Every operator is  *)
(* one statement: a function of the stored data, no state of its own.      *)
(*                                                                         *)
(* Columns no statement decides on (merchant, amounts, names, dates, image *)
(* URLs) are left out; a transaction hash is an element of Tx.             *)
(***************************************************************************)
EXTENDS Naturals, Sequences

CONSTANTS CampaignId,  \* primary keys of campaigns
          UserAddress, \* primary keys of users
          Tx,          \* transaction hashes
          NoRow        \* a campaign that has no row, no member of CampaignRow

CampaignRow == [active : BOOLEAN, deleted : BOOLEAN, order : Nat]

Database ==
    [users        : SUBSET UserAddress,
     campaigns    : [CampaignId -> CampaignRow \cup {NoRow}],
     rewards      : SUBSET (UserAddress \X CampaignId),
     transactions : SUBSET Tx,
     deadLetters  : SUBSET Tx]

EmptyDatabase ==
    [users |-> {}, campaigns |-> [id \in CampaignId |-> NoRow], rewards |-> {},
     transactions |-> {}, deadLetters |-> {}]

HasRow(db, id) == db.campaigns[id] # NoRow

-----------------------------------------------------------------------------
(* campaigns *)

\* mutant: ON CONFLICT (id) DO NOTHING
UpsertCampaignOnce(db, id, active) ==
    [db EXCEPT !.campaigns[id] =
        IF HasRow(db, id) THEN @
        ELSE [active |-> active, deleted |-> FALSE, order |-> 0]]

\* INSERT ... ON CONFLICT (id) DO UPDATE: `active` is overwritten, deleted_at
\* and display_order are kept
UpsertCampaign(db, id, active) ==
    [db EXCEPT !.campaigns[id] =
        IF HasRow(db, id) THEN [@ EXCEPT !.active = active]
        ELSE [active |-> active, deleted |-> FALSE, order |-> 0]]

\* The rows an unfiltered list or a lookup by id can see
Listed(db) == {id \in CampaignId : HasRow(db, id) /\ ~db.campaigns[id].deleted}

\* UPDATE ... SET deleted_at: the number of rows it changes says if it worked
CanSoftDelete(db, id) == id \in Listed(db)
SoftDeleteCampaign(db, id) == [db EXCEPT !.campaigns[id].deleted = TRUE]

CanRestore(db, id) == HasRow(db, id) /\ id \notin Listed(db)
RestoreCampaign(db, id) == [db EXCEPT !.campaigns[id].deleted = FALSE]

Names(order, id) == \E i \in 1..Len(order) : order[i] = id

\* The last place of id on a list that names it
PlaceOf(order, id) ==
    CHOOSE i \in 1..Len(order) :
        order[i] = id /\ \A j \in (i + 1)..Len(order) : order[j] # id

\* UPDATE campaigns SET display_order = i WHERE id = order[i], for each i from
\* 0 on: the last one for a row counts.  `rows` are those that the statements
\* found: an id that had no row yet, or never has one, changes nothing.
SetDisplayOrders(db, order, rows) ==
    [db EXCEPT !.campaigns = [id \in CampaignId |->
        IF id \in rows THEN [@[id] EXCEPT !.order = PlaceOf(order, id) - 1] ELSE @[id]]]

-----------------------------------------------------------------------------
(* users, rewards, transactions, dead_letter_events *)

InsertUser(db, u) == [db EXCEPT !.users = @ \cup {u}]

\* The foreign keys of rewards: both rows must be there
ReferencesExist(db, u, id) == u \in db.users /\ HasRow(db, id)

\* INSERT INTO rewards ... ON CONFLICT DO UPDATE
UpsertReward(db, u, id) == [db EXCEPT !.rewards = @ \cup {<<u, id>>}]

\* mutant: no unique constraint
NeverDuplicate(db, u, id) == FALSE

\* The unique constraint (user_address, campaign_id) rejects a second INSERT
DuplicateReward(db, u, id) == <<u, id>> \in db.rewards

RecordTransaction(db, tx) == [db EXCEPT !.transactions = @ \cup {tx}]

InsertDeadLetter(db, tx) == [db EXCEPT !.deadLetters = @ \cup {tx}]
=============================================================================
