------------------------------- MODULE ServerProofs -------------------------------
(***************************************************************************)
(* The safety properties of Server, and that it implements AtomicApi, for  *)
(* any requests, campaigns, scenarios, faults, crashes and restarts.       *)
(***************************************************************************)
EXTENDS Server, FiniteSetTheorems, WellFoundedInduction, TLAPS

(* Authentication *)

\* Nonces are numbered in the order of their issue, none is given to two keys,
\* and the one a key may still use has bought no token
AuthInv ==
    /\ \E n \in Nat : UNION {issued[k] : k \in Key} = 1..n
    /\ \A j, k \in Key : j # k => issued[j] \cap issued[k] = {}
    /\ \A k \in Key : nonces[k] # NoEntry =>
           /\ nonces[k].nonce \in issued[k]
           /\ \A t \in tokens : t.nonce # nonces[k].nonce
    /\ IsFiniteSet(tokens)
    /\ OneTokenPerNonce

\* A new nonce is the next number
LEMMA FreshFacts ==
    ASSUME AuthTypeOK, AuthInv
    PROVE  /\ FreshNonce \in Nat \ {0}
           /\ \A k \in Key : FreshNonce \notin issued[k]
           /\ (UNION {issued[k] : k \in Key}) \cup {FreshNonce} = 1..FreshNonce
<1> DEFINE all == UNION {issued[k] : k \in Key}
<1>1. PICK n \in Nat : all = 1..n
  BY DEF AuthInv
<1>2. Cardinality(1..n) = n
  <2>1. Cardinality(1..n) = IF 1 > n THEN 0 ELSE n - 1 + 1
    BY FS_Interval
  <2> QED
    BY <2>1
<1>3. FreshNonce = 1 + Cardinality(all)
  BY DEF FreshNonce
<1>4. \A k \in Key : issued[k] \subseteq all
  OBVIOUS
<1> HIDE DEF all
<1>5. n + 1 \notin all /\ all \cup {n + 1} = 1..(n + 1)
  BY <1>1
<1>6. FreshNonce = n + 1
  BY <1>1, <1>2, <1>3
<1> QED
  BY <1>4, <1>5, <1>6 DEF all

LEMMA ChallengeKeeps ==
    ASSUME AuthTypeOK, AuthInv, NEW key \in Key, Challenge(key)
    PROVE  AuthTypeOK' /\ AuthInv'
<1> DEFINE fresh == FreshNonce
<1>1. /\ fresh \in Nat \ {0}
      /\ \A k \in Key : fresh \notin issued[k]
      /\ (UNION {issued[k] : k \in Key}) \cup {fresh} = 1..fresh
  BY FreshFacts
<1>2. /\ nonces' = [k \in Key |->
             IF k = key THEN [nonce |-> fresh, expiresAt |-> now + NonceTTL]
             ELSE IF nonces[k].expiresAt < now THEN NoEntry ELSE nonces[k]]
      /\ issued' = [issued EXCEPT ![key] = @ \cup {fresh}]
      /\ UNCHANGED <<now, tokens, process>>
  BY DEF Challenge
<1> HIDE DEF fresh
<1>3. issued' = [k \in Key |-> IF k = key THEN issued[k] \cup {fresh} ELSE issued[k]]
  BY <1>2 DEF AuthTypeOK
<1>4. AuthTypeOK'
  <2>1. now + NonceTTL \in Nat
    BY AuthAssumption DEF AuthTypeOK, AuthAssumption
  <2>2. nonces' \in [Key -> Entry]
    BY <1>1, <1>2, <2>1 DEF AuthTypeOK, Entry, NoEntry
  <2>3. issued' \in [Key -> SUBSET Nat]
    BY <1>1, <1>3 DEF AuthTypeOK
  <2> QED
    BY <1>2, <2>2, <2>3 DEF AuthTypeOK
<1>5. UNION {issued'[k] : k \in Key} = 1..fresh
  BY <1>1, <1>3
<1>6. \A j, k \in Key : j # k => issued'[j] \cap issued'[k] = {}
  BY <1>1, <1>3 DEF AuthInv
<1>7. \A t \in tokens : t.nonce \in issued[t.sub] /\ t.sub \in Key
  BY DEF AuthInv, OneTokenPerNonce, AuthTypeOK, Token
<1>8. ASSUME NEW k \in Key, nonces'[k] # NoEntry
      PROVE  /\ nonces'[k].nonce \in issued'[k]
             /\ \A t \in tokens' : t.nonce # nonces'[k].nonce
  <2>1. CASE k = key
    <3>1. nonces'[k].nonce = fresh
      BY <1>2, <2>1
    <3> QED
      BY <1>1, <1>2, <1>3, <1>7, <2>1, <3>1
  <2>2. CASE k # key
    <3>1. nonces'[k] = nonces[k]
      BY <1>2, <1>8, <2>2
    <3> QED
      BY <1>2, <1>3, <1>8, <2>2, <3>1 DEF AuthInv
  <2> QED
    BY <2>1, <2>2
<1>9. OneTokenPerNonce'
  BY <1>2, <1>3, <1>7 DEF AuthInv, OneTokenPerNonce
<1>10. IsFiniteSet(tokens')
  BY <1>2 DEF AuthInv
<1> QED
  BY <1>1, <1>4, <1>5, <1>6, <1>8, <1>9, <1>10 DEF AuthInv

\* The nonce is gone before another signature of it can arrive
LEMMA VerifyKeeps ==
    ASSUME AuthTypeOK, AuthInv, NEW key \in Key, NEW signed, Verify(key, signed)
    PROVE  AuthTypeOK' /\ AuthInv'
<1> DEFINE new == Sign(key)
<1>1. /\ nonces[key] # NoEntry
      /\ nonces' = [nonces EXCEPT ![key] = NoEntry]
      /\ tokens' = tokens \cup {new}
      /\ UNCHANGED <<now, issued, process>>
  BY DEF Verify, SignatureAccepted
<1>2. new \in Token /\ new.sub = key /\ new.nonce = nonces[key].nonce
  <2>1. Cardinality(tokens) \in Nat
    BY FS_CardinalityType DEF AuthInv
  <2>2. Secret \in Nat
    BY AuthAssumption DEF Secret, AuthTypeOK
  <2>3. now + JwtExpiry \in Nat /\ nonces[key].nonce \in Nat
    BY AuthAssumption DEF AuthAssumption, AuthTypeOK, Entry
  <2> QED
    BY <2>1, <2>2, <2>3 DEF Sign, Token
<1> HIDE DEF new
<1>3. AuthTypeOK'
  BY <1>1, <1>2 DEF AuthTypeOK, Entry, NoEntry
<1>4. IsFiniteSet(tokens')
  BY <1>1, FS_AddElement DEF AuthInv
<1>5. nonces[key].nonce \in issued[key] /\ \A t \in tokens : t.nonce # nonces[key].nonce
  BY <1>1 DEF AuthInv
<1>6. OneTokenPerNonce'
  BY <1>1, <1>2, <1>5 DEF AuthInv, OneTokenPerNonce
<1>7. ASSUME NEW k \in Key, nonces'[k] # NoEntry
      PROVE  /\ nonces'[k].nonce \in issued'[k]
             /\ \A t \in tokens' : t.nonce # nonces'[k].nonce
  <2>1. k # key /\ nonces'[k] = nonces[k]
    BY <1>1, <1>7 DEF AuthTypeOK
  <2>2. nonces[k].nonce \in issued[k] /\ \A t \in tokens : t.nonce # nonces[k].nonce
    BY <1>7, <2>1 DEF AuthInv
  <2>3. nonces[k].nonce # nonces[key].nonce
    BY <1>5, <2>1, <2>2 DEF AuthInv
  <2> QED
    BY <1>1, <1>2, <2>1, <2>2, <2>3
<1> QED
  BY <1>1, <1>3, <1>4, <1>6, <1>7 DEF AuthInv

\* What leaves the nonces alone, or forgets all of them, keeps the invariant
LEMMA OtherAuthKeeps ==
    ASSUME AuthTypeOK, AuthInv, AuthTick \/ ForgetAuth \/ UNCHANGED auth
    PROVE  AuthTypeOK' /\ AuthInv'
<1>1. CASE AuthTick
  BY <1>1, AuthAssumption DEF AuthTick, AuthTypeOK, AuthInv, OneTokenPerNonce, AuthAssumption
<1>2. CASE ForgetAuth
  BY <1>2 DEF ForgetAuth, AuthTypeOK, AuthInv, OneTokenPerNonce, NoEntry, Entry
<1>3. CASE UNCHANGED auth
  BY <1>3 DEF auth, AuthTypeOK, AuthInv, OneTokenPerNonce
<1> QED
  BY <1>1, <1>2, <1>3

-----------------------------------------------------------------------------
(* The database *)

\* A list that names id has a last place that does: the shortest of its ends
\* that begin with id begins there
LEMMA PlaceOfFacts ==
    ASSUME NEW S, NEW order \in Seq(S), NEW id, store!Names(order, id)
    PROVE  /\ store!PlaceOf(order, id) \in 1..Len(order)
           /\ order[store!PlaceOf(order, id)] = id
<1> DEFINE n == Len(order)
           places == {i \in 1..n : order[i] = id}
           ends == {i..n : i \in places}
<1>1. n \in Nat /\ places # {}
  BY DEF store!Names
<1>2. ends \subseteq FiniteSubsetsOf(Nat) /\ ends # {}
  <2>1. ASSUME NEW i \in places PROVE i..n \in FiniteSubsetsOf(Nat)
    BY <1>1, FS_Interval DEF FiniteSubsetsOf
  <2> QED
    BY <1>1, <2>1
<1>3. PICK shortest \in ends : \A e \in ends : ~(<<e, shortest>> \in StrictSubsetOrdering(Nat))
  BY <1>2, FS_StrictSubsetOrderingWellFounded, WFMin
<1>4. PICK last \in places : shortest = last..n
  OBVIOUS
<1>5. ASSUME NEW j \in (last + 1)..n, order[j] = id PROVE FALSE
  <2>1. j \in places /\ j..n \in ends /\ last \in 1..n
    BY <1>1, <1>5
  <2>2. j..n \subseteq last..n /\ last \in last..n /\ last \notin j..n
    BY <1>1, <2>1
  <2>3. <<j..n, last..n>> \in StrictSubsetOrdering(Nat)
    BY <1>1, <2>1, <2>2 DEF StrictSubsetOrdering
  <2> QED
    BY <1>3, <1>4, <2>1, <2>3
<1>6. \E i \in 1..n : order[i] = id /\ \A j \in (i + 1)..n : order[j] # id
  BY <1>5
<1> QED
  BY <1>6 DEF store!PlaceOf

\* A statement of the server loses no reward and no row
Keeps(d, e) ==
    /\ e \in store!Database
    /\ d.rewards \subseteq e.rewards
    /\ \A id \in CampaignId : store!HasRow(d, id) => store!HasRow(e, id)

\* Only the indexer adds rows
SameRows(d, e) == \A id \in CampaignId : store!HasRow(e, id) <=> store!HasRow(d, id)

SameOrders(d, e) ==
    \A id \in CampaignId :
        store!HasRow(d, id) => e.campaigns[id].order = d.campaigns[id].order

LEMMA NoRowIsNoRow == \A row \in store!CampaignRow : row # NoRow
  BY ApiAssumption DEF ApiAssumption

\* One row replaced by another one
LEMMA RowChanged ==
    ASSUME NEW d \in store!Database, NEW id \in CampaignId, store!HasRow(d, id),
           NEW row \in store!CampaignRow, row.order = d.campaigns[id].order,
           NEW e, e = [d EXCEPT !.campaigns = [d.campaigns EXCEPT ![id] = row]]
    PROVE  Keeps(d, e) /\ SameRows(d, e) /\ SameOrders(d, e)
<1>1. /\ e.campaigns = [d.campaigns EXCEPT ![id] = row] /\ e.users = d.users
      /\ e.rewards = d.rewards /\ e.transactions = d.transactions
      /\ e.deadLetters = d.deadLetters
      /\ d.campaigns \in [CampaignId -> store!CampaignRow \cup {NoRow}]
  BY DEF store!Database
<1>2. e.campaigns \in [CampaignId -> store!CampaignRow \cup {NoRow}]
  BY <1>1
<1>3. e \in store!Database
  BY <1>1, <1>2 DEF store!Database
<1>4. \A i \in CampaignId : e.campaigns[i] = IF i = id THEN row ELSE d.campaigns[i]
  BY <1>1
<1> QED
  BY <1>1, <1>3, <1>4, NoRowIsNoRow DEF Keeps, SameRows, SameOrders, store!HasRow

\* One row more
LEMMA RowAdded ==
    ASSUME NEW d \in store!Database, NEW id \in CampaignId, ~store!HasRow(d, id),
           NEW active \in BOOLEAN, NEW e, e = store!UpsertCampaign(d, id, active)
    PROVE  /\ Keeps(d, e) /\ SameOrders(d, e)
           /\ \A i \in CampaignId : store!HasRow(e, i) <=> store!HasRow(d, i) \/ i = id
           /\ e.campaigns = [d.campaigns EXCEPT ![id] =
                                [active |-> active, deleted |-> FALSE, order |-> 0]]
           /\ e.rewards = d.rewards
<1> DEFINE row == [active |-> active, deleted |-> FALSE, order |-> 0]
<1>1. row \in store!CampaignRow
  BY DEF store!CampaignRow
<1>2. e = [d EXCEPT !.campaigns = [d.campaigns EXCEPT ![id] = row]]
  BY DEF store!UpsertCampaign
<1> HIDE DEF row
<1>3. /\ e.campaigns = [d.campaigns EXCEPT ![id] = row] /\ e.users = d.users
      /\ e.rewards = d.rewards /\ e.transactions = d.transactions
      /\ e.deadLetters = d.deadLetters
      /\ d.campaigns \in [CampaignId -> store!CampaignRow \cup {NoRow}]
  BY <1>2 DEF store!Database
<1>4. e.campaigns \in [CampaignId -> store!CampaignRow \cup {NoRow}]
  BY <1>1, <1>3
<1>5. e \in store!Database
  BY <1>2, <1>3, <1>4 DEF store!Database
<1>6. \A i \in CampaignId : e.campaigns[i] = IF i = id THEN row ELSE d.campaigns[i]
  BY <1>3
<1> QED
  BY <1>1, <1>3, <1>5, <1>6, NoRowIsNoRow DEF Keeps, SameOrders, store!HasRow, row

LEMMA RowOps ==
    ASSUME NEW d \in store!Database, NEW id \in CampaignId, store!HasRow(d, id),
           NEW active \in BOOLEAN,
           NEW e \in {store!SoftDeleteCampaign(d, id), store!RestoreCampaign(d, id),
                      store!UpsertCampaign(d, id, active)}
    PROVE  Keeps(d, e) /\ SameRows(d, e) /\ SameOrders(d, e)
<1> DEFINE row == d.campaigns[id]
<1>1. row \in store!CampaignRow /\ d.campaigns \in [CampaignId -> store!CampaignRow \cup {NoRow}]
  BY DEF store!HasRow, store!Database
<1>2. /\ [row EXCEPT !.deleted = TRUE] \in store!CampaignRow
      /\ [row EXCEPT !.deleted = FALSE] \in store!CampaignRow
      /\ [row EXCEPT !.active = active] \in store!CampaignRow
      /\ [row EXCEPT !.deleted = TRUE].order = row.order
      /\ [row EXCEPT !.deleted = FALSE].order = row.order
      /\ [row EXCEPT !.active = active].order = row.order
  BY <1>1 DEF store!CampaignRow
<1>3. CASE e = store!SoftDeleteCampaign(d, id)
  <2>1. e = [d EXCEPT !.campaigns = [d.campaigns EXCEPT ![id] = [row EXCEPT !.deleted = TRUE]]]
    BY <1>3, <1>1 DEF store!SoftDeleteCampaign
  <2> QED
    BY <1>2, <2>1, RowChanged
<1>4. CASE e = store!RestoreCampaign(d, id)
  <2>1. e = [d EXCEPT !.campaigns = [d.campaigns EXCEPT ![id] = [row EXCEPT !.deleted = FALSE]]]
    BY <1>4, <1>1 DEF store!RestoreCampaign
  <2> QED
    BY <1>2, <2>1, RowChanged
<1>5. CASE e = store!UpsertCampaign(d, id, active)
  <2>1. e = [d EXCEPT !.campaigns = [d.campaigns EXCEPT ![id] = [row EXCEPT !.active = active]]]
    BY <1>5, <1>1 DEF store!UpsertCampaign
  <2> QED
    BY <1>2, <2>1, RowChanged
<1> QED
  BY <1>3, <1>4, <1>5

LEMMA OtherOps ==
    ASSUME NEW d \in store!Database, NEW u \in UserAddress, NEW id \in CampaignId,
           NEW e \in {store!InsertUser(d, u), store!UpsertReward(d, u, id), d}
    PROVE  Keeps(d, e) /\ SameRows(d, e) /\ SameOrders(d, e)
<1>1. e.campaigns = d.campaigns /\ d.rewards \subseteq e.rewards /\ e \in store!Database
  BY DEF store!InsertUser, store!UpsertReward, store!Database
<1> QED
  BY <1>1 DEF Keeps, SameRows, SameOrders, store!HasRow

LEMMA OrderOps ==
    ASSUME NEW d \in store!Database, NEW order \in Seq(CampaignId),
           NEW rows \in SUBSET CampaignId,
           \A id \in rows : store!HasRow(d, id) /\ store!Names(order, id),
           NEW e, e = store!SetDisplayOrders(d, order, rows)
    PROVE  /\ Keeps(d, e) /\ SameRows(d, e)
           /\ \A id \in rows : e.campaigns[id].order = store!PlaceOf(order, id) - 1
<1> DEFINE new(id) == IF id \in rows
                      THEN [d.campaigns[id] EXCEPT !.order = store!PlaceOf(order, id) - 1]
                      ELSE d.campaigns[id]
<1>1. e = [d EXCEPT !.campaigns = [id \in CampaignId |-> new(id)]]
  BY DEF store!SetDisplayOrders
<1>2. ASSUME NEW id \in CampaignId
      PROVE  /\ new(id) \in store!CampaignRow \cup {NoRow}
             /\ new(id) # NoRow <=> d.campaigns[id] # NoRow
             /\ id \in rows => new(id).order = store!PlaceOf(order, id) - 1
  <2>1. CASE id \in rows
    <3>1. d.campaigns[id] \in store!CampaignRow
      BY <2>1 DEF store!HasRow, store!Database
    <3>2. store!PlaceOf(order, id) - 1 \in Nat
      BY <2>1, PlaceOfFacts
    <3>3. [d.campaigns[id] EXCEPT !.order = store!PlaceOf(order, id) - 1] \in store!CampaignRow
      BY <3>1, <3>2 DEF store!CampaignRow
    <3>4. [d.campaigns[id] EXCEPT !.order = store!PlaceOf(order, id) - 1].order
              = store!PlaceOf(order, id) - 1
      BY <3>1 DEF store!CampaignRow
    <3> QED
      BY <2>1, <3>1, <3>3, <3>4, NoRowIsNoRow
  <2>2. CASE id \notin rows
    BY <2>2 DEF store!Database
  <2> QED
    BY <2>1, <2>2
<1> HIDE DEF new
<1>3. /\ e.campaigns = [id \in CampaignId |-> new(id)] /\ e.users = d.users
      /\ e.rewards = d.rewards /\ e.transactions = d.transactions
      /\ e.deadLetters = d.deadLetters
  BY <1>1 DEF store!Database
<1>4. e \in store!Database
  <2>1. e.campaigns \in [CampaignId -> store!CampaignRow \cup {NoRow}]
    BY <1>2, <1>3
  <2>2. e = [users |-> d.users, campaigns |-> e.campaigns, rewards |-> d.rewards,
             transactions |-> d.transactions, deadLetters |-> d.deadLetters]
    BY <1>1, <1>3 DEF store!Database
  <2> QED
    BY <2>1, <2>2 DEF store!Database
<1> QED
  BY <1>2, <1>3, <1>4 DEF Keeps, SameRows, store!HasRow

-----------------------------------------------------------------------------
(* Requests *)

\* Request r alone changes, and keeps what it asks for
OnlyChanges(r) ==
    /\ req' = [req EXCEPT ![r] = req'[r]]
    /\ RequestOK(req'[r])
    /\ req'[r].op = req[r].op

LEMMA OneRequest ==
    ASSUME RequestsOK, NEW r \in Request, OnlyChanges(r)
    PROVE  /\ RequestsOK'
           /\ \A s \in Request \ {r} : req'[s] = req[s]
           /\ \A s \in Request : req'[s].op = req[s].op
<1>1. req' = [s \in Request |-> IF s = r THEN req'[r] ELSE req[s]]
  BY DEF RequestsOK, OnlyChanges
<1>2. \A s \in Request \ {r} : req'[s] = req[s]
  BY <1>1
<1>3. \A s \in Request : RequestOK(req'[s])
  BY <1>2 DEF RequestsOK, OnlyChanges
<1>4. req' \in [Request -> RequestState]
  BY <1>1, <1>3 DEF RequestOK
<1> QED
  BY <1>2, <1>3, <1>4 DEF RequestsOK, OnlyChanges

LEMMA AnswerFacts ==
    ASSUME RequestsOK, NEW r \in Request, NEW status \in Status, Answer(r, status)
    PROVE  /\ OnlyChanges(r)
           /\ req'[r].pc = "done" /\ req'[r].answer = status
<1>1. req[r] \in RequestState /\ RequestOK(req[r])
  BY DEF RequestsOK
<1>2. /\ req' = [req EXCEPT ![r] = req'[r]]
      /\ req'[r] = [req[r] EXCEPT !.pc = "done", !.answer = status]
  BY DEF Answer, RequestsOK
<1> DEFINE q == req'[r]
<1>3. /\ q.pc = "done" /\ q.answer = status /\ q.op = req[r].op
      /\ q.updated = req[r].updated /\ q.rows = req[r].rows
      /\ q \in RequestState
  BY <1>1, <1>2 DEF RequestState
<1> HIDE DEF q
<1>4. RequestOK(q)
  BY <1>1, <1>3 DEF RequestOK, Transacting
<1> QED
  BY <1>2, <1>3, <1>4 DEF OnlyChanges, q

\* The next await of a handler, in the same transaction or route
LEMMA GoToFacts ==
    ASSUME RequestsOK, NEW r \in Request, NEW pc, GoTo(r, pc),
           ~At(r, "done"), req[r].op.valid,
           \/ At(r, "rows") /\ pc = "count"
           \/ At(r, "user") /\ pc = "reward"
           \/ At(r, "begin") /\ pc = IF req[r].op.order = <<>> THEN "commit" ELSE "update"
           \/ req[r].pc \in {"update", "commit"} /\ pc = "rollback"
    PROVE  /\ OnlyChanges(r)
           /\ req'[r].pc = pc /\ req'[r].answer = 0
           /\ req'[r].updated = req[r].updated /\ req'[r].rows = req[r].rows
<1>1. req[r] \in RequestState /\ RequestOK(req[r])
  BY DEF RequestsOK
<1>2. req' = [req EXCEPT ![r] = req'[r]] /\ req'[r] = [req[r] EXCEPT !.pc = pc]
  BY DEF GoTo, RequestsOK
<1> DEFINE q == req'[r]
<1>3. /\ q.pc = pc /\ q.answer = req[r].answer /\ q.op = req[r].op /\ q.updated = req[r].updated
      /\ q.rows = req[r].rows /\ q \in RequestState
  <2>1. pc \in {"count", "reward", "commit", "update", "rollback"}
    OBVIOUS
  <2> QED
    BY <1>1, <1>2, <2>1 DEF RequestState
<1> HIDE DEF q
<1>4. q.answer = 0
  BY <1>1, <1>3 DEF RequestOK, At
<1>5. At(r, "begin") => Len(req[r].op.order) \in Nat
                       /\ (req[r].op.order = <<>> <=> Len(req[r].op.order) = 0)
  <2>1. req[r].op.order \in Seq(CampaignId)
    BY <1>1 DEF RequestState, Operation
  <2> QED
    BY <2>1
<1>6. RequestOK(q)
  BY <1>1, <1>3, <1>4, <1>5 DEF RequestOK, Transacting, At
<1> QED
  BY <1>2, <1>3, <1>4, <1>6 DEF OnlyChanges, q

-----------------------------------------------------------------------------
(* The steps of the handlers *)

PairOf(r) == <<req[r].op.user, req[r].op.campaign>>

\* An open transaction holds rows that exist, among them all that were there
\* before every request and that its updates named
FoundRows(q, d) ==
    q.pc \in {"update", "commit"} =>
        /\ \A id \in q.rows : id \in CampaignId /\ store!HasRow(d, id)
        /\ \A id \in scenario.rows :
               (\E i \in 1..q.updated : q.op.order[i] = id) => id \in q.rows

FoundOK == \A r \in Request : FoundRows(req[r], db)

\* The campaigns of the scenario have a row
RowsOK == \A id \in scenario.rows : id \in CampaignId /\ store!HasRow(db, id)

\* The rows that all reorderings name, in the order of r
OrderedBy(r) ==
    \A id \in AlwaysOrdered :
        db'.campaigns[id].order = store!PlaceOf(req[r].op.order, id) - 1

\* What a step of the handler of r does to what the invariants speak of
HandlerEffect(r) ==
    /\ OnlyChanges(r)
    /\ Keeps(db, db') /\ SameRows(db, db')
    /\ FoundRows(req'[r], db')
    /\ \/ SameOrders(db, db')
       \/ r \in Reorders /\ OrderedBy(r)
    /\ req'[r].answer \in {201, 409} => PairOf(r) \in db'.rewards
    /\ req'[r].answer = 201 => PairOf(r) \notin db.rewards

LEMMA OpTypes ==
    ASSUME RequestsOK, NEW r \in Request
    PROVE  /\ req[r].op.user \in UserAddress /\ req[r].op.campaign \in CampaignId
           /\ req[r].op.order \in Seq(CampaignId)
  BY DEF RequestsOK, RequestState, Operation

\* An answer, or the next await, without a change of rows
LEMMA QuietStep ==
    ASSUME RequestsOK, db \in store!Database, NEW r \in Request, OnlyChanges(r),
           req'[r].answer \notin {201, 409}, FoundRows(req'[r], db), UNCHANGED db
    PROVE  HandlerEffect(r)
<1>1. Keeps(db, db') /\ SameRows(db, db') /\ SameOrders(db, db') /\ FoundRows(req'[r], db')
  BY DEF Keeps, SameRows, SameOrders, store!HasRow
<1> QED
  BY <1>1 DEF HandlerEffect

\* Whoever is not in its transaction holds no rows
LEMMA NoTransaction ==
    ASSUME NEW q, NEW d, q.pc \notin {"update", "commit"}
    PROVE  FoundRows(q, d)
  BY DEF FoundRows

\* COMMIT comes after the updates of the whole list
LEMMA WholeList ==
    ASSUME RequestsOK, db \in store!Database, RowsOK, FoundOK, NEW r \in Request,
           At(r, "commit"), db' = Reordered(r)
    PROVE  /\ r \in Reorders /\ OrderedBy(r)
           /\ Keeps(db, db') /\ SameRows(db, db')
<1> DEFINE order == req[r].op.order
           rows == req[r].rows
<1>1. /\ req[r].updated = Len(order) /\ req[r].op.kind = "reorder" /\ req[r].op.valid
      /\ rows \subseteq {order[i] : i \in 1..Len(order)} /\ rows \in SUBSET CampaignId
  BY DEF RequestsOK, RequestOK, RequestState, At, Transacting
<1>2. \A id \in rows : store!HasRow(db, id) /\ store!Names(order, id)
  BY <1>1 DEF FoundOK, FoundRows, At, store!Names
<1>3. r \in Reorders /\ order \in Seq(CampaignId)
  BY <1>1, OpTypes DEF Reorders
<1>4. ASSUME NEW id \in AlwaysOrdered PROVE id \in rows
  <2>1. id \in scenario.rows /\ \E i \in 1..req[r].updated : order[i] = id
    BY <1>1, <1>3, <1>4 DEF AlwaysOrdered, store!Names
  <2> QED
    BY <2>1 DEF FoundOK, FoundRows, At
<1>5. db' = store!SetDisplayOrders(db, order, rows)
  BY DEF Reordered
<1> HIDE DEF order, rows
<1>6. /\ Keeps(db, db') /\ SameRows(db, db')
      /\ \A id \in rows : db'.campaigns[id].order = store!PlaceOf(order, id) - 1
  BY <1>1, <1>2, <1>3, <1>5, OrderOps
<1> QED
  BY <1>3, <1>4, <1>6 DEF OrderedBy, order

LEMMA TransactionSteps ==
    ASSUME RequestsOK, db \in store!Database, RowsOK, FoundOK, NEW r \in Request,
           Begin(r) \/ UpdateOrder(r) \/ AbortedByDeadlock(r) \/ Commit(r) \/ Rollback(r)
    PROVE  HandlerEffect(r)
<1>0. req[r] \in RequestState /\ RequestOK(req[r])
  BY DEF RequestsOK
<1>1. CASE Begin(r)
  <2>1. OnlyChanges(r) /\ req'[r].answer = 0 /\ req'[r].updated = 0 /\ req'[r].rows = {}
    <3>1. req[r].updated = 0 /\ req[r].rows = {}
      BY <1>0, <1>1 DEF Begin, At, RequestOK
    <3> QED
      BY <1>0, <1>1, <3>1, GoToFacts DEF Begin, At, RequestOK
  <2>2. FoundRows(req'[r], db)
    BY <2>1 DEF FoundRows
  <2> QED
    BY <1>1, <2>1, <2>2, QuietStep DEF Begin
<1>2. CASE UpdateOrder(r)
  <2> DEFINE q == req'[r]
             next == IF req[r].updated + 1 = Len(req[r].op.order) THEN "commit" ELSE "update"
  <2>1. /\ req' = [req EXCEPT ![r] = q]
        /\ q = [req[r] EXCEPT !.updated = @ + 1, !.rows = @ \cup Found(r), !.pc = next]
    BY <1>0, <1>2 DEF UpdateOrder, RequestsOK, At
  <2>0. next \in {"commit", "update"}
    OBVIOUS
  <2> HIDE DEF next
  <2> DEFINE n == req[r].updated
             order == req[r].op.order
             found == Found(r)
  <2>7. /\ n \in Nat /\ n < Len(order) /\ Len(order) \in Nat /\ order[n + 1] \in CampaignId
        /\ found = IF store!HasRow(db, order[n + 1]) THEN {order[n + 1]} ELSE {}
    <3>1. order \in Seq(CampaignId)
      BY OpTypes
    <3> QED
      BY <1>0, <1>2, <3>1 DEF RequestOK, RequestState, UpdateOrder, At, Found, NextRow
  <2> HIDE DEF n, found
  <2>2. /\ q \in RequestState /\ q.updated = n + 1 /\ q.pc = next
        /\ q.rows = req[r].rows \cup found
        /\ q.op = req[r].op /\ q.answer = req[r].answer
    <3>1. n + 1 \in Nat /\ req[r].rows \cup found \in SUBSET CampaignId
      BY <1>0, <2>7 DEF RequestState
    <3>2. q = [req[r] EXCEPT !.updated = n + 1, !.rows = req[r].rows \cup found, !.pc = next]
      BY <1>0, <2>1 DEF RequestState, n, found
    <3> QED
      BY <1>0, <2>0, <3>1, <3>2 DEF RequestState
  <2>3. /\ req[r].updated < Len(req[r].op.order) /\ req[r].updated \in Nat
        /\ Len(req[r].op.order) \in Nat /\ req[r].op.kind = "reorder" /\ req[r].op.valid
        /\ req[r].answer = 0
    BY <1>0, <1>2, OpTypes DEF RequestOK, UpdateOrder, At, RequestState, Transacting
  <2> HIDE DEF q
  <2>8. \A i \in 1..(n + 1) : i \in 1..n \/ i = n + 1
    BY <2>7
  <2>9. /\ 1..n \subseteq 1..(n + 1) /\ n + 1 \in 1..(n + 1)
        /\ req[r].rows \subseteq {order[i] : i \in 1..n}
    BY <1>0, <2>7 DEF RequestOK, n
  <2>10. q.rows \subseteq {q.op.order[i] : i \in 1..q.updated}
    <3>1. found \subseteq {order[i] : i \in 1..(n + 1)}
      BY <2>7, <2>9
    <3> QED
      BY <2>2, <2>9, <3>1
  <2>4. RequestOK(q) /\ q.answer = 0
    BY <2>2, <2>3, <2>10 DEF RequestOK, Transacting, next, n
  <2>11. FoundRows(q, db)
    <3>1. FoundRows(req[r], db) /\ At(r, "update")
      BY <1>2 DEF FoundOK, UpdateOrder
    <3>2. \A id \in q.rows : store!HasRow(db, id)
      BY <2>2, <2>7, <3>1 DEF FoundRows, At
    <3>4. q.rows \subseteq CampaignId
      BY <2>2 DEF RequestState
    <3>3. ASSUME NEW id \in scenario.rows, NEW i \in 1..(n + 1), order[i] = id
          PROVE  id \in q.rows
      <4>1. CASE i \in 1..n
        BY <2>2, <3>1, <3>3, <4>1 DEF FoundRows, At, n
      <4>2. CASE i = n + 1
        BY <2>2, <2>7, <3>3, <4>2 DEF RowsOK
      <4> QED
        BY <2>8, <4>1, <4>2
    <3> QED
      BY <2>2, <3>2, <3>3, <3>4 DEF FoundRows
  <2>5. OnlyChanges(r)
    BY <2>1, <2>2, <2>4 DEF OnlyChanges, q
  <2>6. UNCHANGED db
    BY <1>2 DEF UpdateOrder
  <2> QED
    BY <2>4, <2>5, <2>6, <2>11, QuietStep DEF q
<1>3. CASE AbortedByDeadlock(r)
  <2>1. OnlyChanges(r) /\ req'[r].answer = 0 /\ req'[r].pc = "rollback"
    BY <1>0, <1>3, GoToFacts DEF AbortedByDeadlock, At, RequestOK
  <2> QED
    BY <1>3, <2>1, NoTransaction, QuietStep DEF AbortedByDeadlock
<1>4. CASE Commit(r)
  <2>1. OnlyChanges(r) /\ req'[r].answer = 200 /\ req'[r].pc = "done"
    BY <1>4, AnswerFacts DEF Commit, Status
  <2> QED
    BY <1>4, <2>1, NoTransaction, WholeList DEF Commit, HandlerEffect
<1>5. CASE Rollback(r)
  <2>1. OnlyChanges(r) /\ req'[r].answer = 500 /\ req'[r].pc = "done"
    BY <1>5, AnswerFacts DEF Rollback, Status
  <2> QED
    BY <1>5, <2>1, NoTransaction, QuietStep DEF Rollback
<1> QED
  BY <1>1, <1>2, <1>3, <1>4, <1>5

LEMMA ReadingSteps ==
    ASSUME RequestsOK, db \in store!Database, RowsOK, FoundOK, NEW r \in Request,
           \/ ListRows(r) \/ ListCount(r) \/ GetCampaign(r) \/ ListRewards(r)
           \/ AnalyticsAnswer(r)
    PROVE  HandlerEffect(r)
<1>0. req[r] \in RequestState /\ RequestOK(req[r])
  BY DEF RequestsOK
<1>1. CASE ListRows(r)
  <2>1. OnlyChanges(r) /\ req'[r].answer = 0 /\ req'[r].pc = "count"
    BY <1>0, <1>1, GoToFacts DEF ListRows, At, RequestOK
  <2> QED
    BY <1>1, <2>1, NoTransaction, QuietStep DEF ListRows
<1>2. CASE ListCount(r) \/ GetCampaign(r) \/ ListRewards(r)
  <2>1. PICK status \in {200, 500} : Answer(r, status) /\ UNCHANGED db
    BY <1>2 DEF ListCount, GetCampaign, ListRewards
  <2>2. OnlyChanges(r) /\ req'[r].answer = status /\ req'[r].pc = "done"
    BY <2>1, AnswerFacts DEF Status
  <2> QED
    BY <2>1, <2>2, NoTransaction, QuietStep
<1>3. CASE AnalyticsAnswer(r)
  <2>1. PICK query \in req[r].waits :
            IF req[r].waits = {query} THEN Answer(r, 200)
            ELSE req' = [req EXCEPT ![r].waits = @ \ {query}]
    BY <1>3 DEF AnalyticsAnswer
  <2>2. CASE req[r].waits = {query}
    <3>1. OnlyChanges(r) /\ req'[r].answer = 200 /\ req'[r].pc = "done"
      BY <2>1, <2>2, AnswerFacts DEF Status
    <3> QED
      BY <1>3, <3>1, NoTransaction, QuietStep DEF AnalyticsAnswer
  <2>3. CASE req[r].waits # {query}
    <3> DEFINE q == req'[r]
    <3>1. req' = [req EXCEPT ![r] = q] /\ q = [req[r] EXCEPT !.waits = @ \ {query}]
      BY <2>1, <2>3 DEF RequestsOK
    <3>2. /\ q \in RequestState /\ q.updated = req[r].updated /\ q.pc = req[r].pc
          /\ q.op = req[r].op /\ q.answer = req[r].answer /\ q.rows = req[r].rows
      BY <1>0, <3>1 DEF RequestState
    <3>3. q.pc = "analytics"
      BY <1>3, <3>2 DEF AnalyticsAnswer, At
    <3> HIDE DEF q
    <3>4. RequestOK(q) /\ q.answer = 0
      BY <1>0, <3>2, <3>3 DEF RequestOK
    <3>5. OnlyChanges(r)
      BY <3>1, <3>2, <3>4 DEF OnlyChanges, q
    <3> QED
      BY <1>3, <3>3, <3>4, <3>5, NoTransaction, QuietStep DEF AnalyticsAnswer, q
  <2> QED
    BY <2>2, <2>3
<1> QED
  BY <1>1, <1>2, <1>3

\* A statement whose answer is lost may have done what it does
LEMMA LostEffects ==
    ASSUME RequestsOK, db \in store!Database, RowsOK, FoundOK, NEW r \in Request, LostEffect(r)
    PROVE  /\ Keeps(db, db') /\ SameRows(db, db')
           /\ \/ SameOrders(db, db')
              \/ r \in Reorders /\ OrderedBy(r)
<1> DEFINE u == req[r].op.user
           id == req[r].op.campaign
<1>0. u \in UserAddress /\ id \in CampaignId
  BY OpTypes
<1>1. CASE At(r, "commit") /\ db' = Reordered(r)
  BY <1>1, WholeList
<1>2. CASE store!CanSoftDelete(db, id) /\ db' = store!SoftDeleteCampaign(db, id)
  <2>1. store!HasRow(db, id)
    BY <1>2 DEF store!CanSoftDelete, store!Listed
  <2>2. db' \in {store!SoftDeleteCampaign(db, id), store!RestoreCampaign(db, id),
                 store!UpsertCampaign(db, id, TRUE)}
    BY <1>2
  <2> QED
    BY <1>0, <2>1, <2>2, RowOps
<1>3. CASE store!CanRestore(db, id) /\ db' = store!RestoreCampaign(db, id)
  <2>1. store!HasRow(db, id)
    BY <1>3 DEF store!CanRestore
  <2>2. db' \in {store!SoftDeleteCampaign(db, id), store!RestoreCampaign(db, id),
                 store!UpsertCampaign(db, id, TRUE)}
    BY <1>3
  <2> QED
    BY <1>0, <2>1, <2>2, RowOps
<1>4. CASE db' = store!InsertUser(db, u) \/ db' = store!UpsertReward(db, u, id)
  BY <1>0, <1>4, OtherOps
<1> QED
  BY <1>1, <1>2, <1>3, <1>4 DEF LostEffect

LEMMA ChangingSteps ==
    ASSUME RequestsOK, db \in store!Database, RowsOK, FoundOK, NEW r \in Request,
           SoftDelete(r) \/ Restore(r) \/ EnsureUser(r) \/ InsertReward(r)
    PROVE  HandlerEffect(r)
<1> DEFINE u == req[r].op.user
           id == req[r].op.campaign
<1>0. u \in UserAddress /\ id \in CampaignId /\ RequestOK(req[r])
  BY OpTypes DEF RequestsOK
<1>1. ASSUME NEW status \in {200, 404, 409, 500}, Answer(r, status), UNCHANGED db,
             status = 409 => <<u, id>> \in db.rewards
      PROVE  HandlerEffect(r)
  <2>1. OnlyChanges(r) /\ req'[r].answer = status /\ req'[r].pc = "done"
    BY <1>1, AnswerFacts DEF Status
  <2>2. Keeps(db, db') /\ SameRows(db, db') /\ SameOrders(db, db')
    BY <1>1 DEF Keeps, SameRows, SameOrders, store!HasRow
  <2> QED
    BY <1>1, <2>1, <2>2, NoTransaction DEF HandlerEffect, PairOf
<1>2. CASE SoftDelete(r)
  <2>1. CASE store!CanSoftDelete(db, id) /\ db' = store!SoftDeleteCampaign(db, id) /\ Answer(r, 200)
    <3>1. LostEffect(r)
      BY <1>2, <2>1 DEF SoftDelete, LostEffect
    <3>2. OnlyChanges(r) /\ req'[r].answer = 200 /\ req'[r].pc = "done"
      BY <2>1, AnswerFacts DEF Status
    <3> QED
      BY <3>1, <3>2, NoTransaction, LostEffects DEF HandlerEffect
  <2>2. CASE Answer(r, 404) /\ UNCHANGED db
    BY <1>1, <2>2
  <2> QED
    BY <1>2, <2>1, <2>2 DEF SoftDelete
<1>3. CASE Restore(r)
  <2>1. CASE store!CanRestore(db, id) /\ db' = store!RestoreCampaign(db, id) /\ Answer(r, 200)
    <3>1. LostEffect(r)
      BY <1>3, <2>1 DEF Restore, LostEffect
    <3>2. OnlyChanges(r) /\ req'[r].answer = 200 /\ req'[r].pc = "done"
      BY <2>1, AnswerFacts DEF Status
    <3> QED
      BY <3>1, <3>2, NoTransaction, LostEffects DEF HandlerEffect
  <2>2. CASE Answer(r, 404) /\ UNCHANGED db
    BY <1>1, <2>2
  <2> QED
    BY <1>3, <2>1, <2>2 DEF Restore
<1>4. CASE EnsureUser(r)
  <2>1. OnlyChanges(r) /\ req'[r].answer = 0 /\ req'[r].pc = "reward"
    BY <1>0, <1>4, GoToFacts DEF EnsureUser, At, RequestOK
  <2>2. Keeps(db, db') /\ SameRows(db, db') /\ SameOrders(db, db')
    BY <1>0, <1>4, OtherOps DEF EnsureUser
  <2> QED
    BY <2>1, <2>2, NoTransaction DEF HandlerEffect
<1>5. CASE InsertReward(r)
  <2>1. CASE /\ ~store!DuplicateReward(db, u, id)
             /\ db' = store!UpsertReward(db, u, id)
             /\ Answer(r, 201)
    <3>1. OnlyChanges(r) /\ req'[r].answer = 201 /\ req'[r].pc = "done"
      BY <2>1, AnswerFacts DEF Status
    <3>2. Keeps(db, db') /\ SameRows(db, db') /\ SameOrders(db, db')
      BY <1>0, <2>1, OtherOps
    <3>3. <<u, id>> \in db'.rewards /\ <<u, id>> \notin db.rewards
      BY <2>1 DEF store!DuplicateReward, store!UpsertReward, store!Database
    <3>4. PairOf(r) = <<u, id>> /\ (PairOf(r) \in db'.rewards) /\ PairOf(r) \notin db.rewards
      BY <3>3 DEF PairOf
    <3> QED
      BY <3>1, <3>2, <3>4, NoTransaction DEF HandlerEffect
  <2>2. CASE store!DuplicateReward(db, u, id) /\ Answer(r, 409) /\ UNCHANGED db
    BY <1>1, <2>2 DEF store!DuplicateReward
  <2>3. CASE Answer(r, 500) /\ UNCHANGED db
    BY <1>1, <2>3
  <2> QED
    BY <1>5, <2>1, <2>2, <2>3 DEF InsertReward
<1> QED
  BY <1>2, <1>3, <1>4, <1>5

LEMMA FailingStep ==
    ASSUME RequestsOK, db \in store!Database, RowsOK, FoundOK, faults \in 0..MaxFaults,
           NEW r \in Request, StatementFails(r)
    PROVE  HandlerEffect(r) /\ faults' \in 0..MaxFaults
<1>0. req[r] \in RequestState /\ RequestOK(req[r])
  BY DEF RequestsOK
<1>1. /\ OnlyChanges(r) /\ req'[r].answer \in {0, 500}
      /\ \A d : FoundRows(req'[r], d)
  <2>1. CASE req[r].pc \in {"update", "commit"}
    <3>1. req[r].op.valid /\ ~At(r, "done")
      BY <1>0, <2>1 DEF RequestOK, At
    <3> QED
      BY <2>1, <3>1, GoToFacts, NoTransaction DEF StatementFails
  <2>2. CASE req[r].pc \notin {"update", "commit"}
    <3>1. Answer(r, 500)
      BY <2>2 DEF StatementFails
    <3> QED
      BY <3>1, AnswerFacts, NoTransaction DEF Status
  <2> QED
    BY <2>1, <2>2
<1>2. faults' \in 0..MaxFaults
  BY ApiAssumption DEF StatementFails, ApiAssumption
<1>3. CASE UNCHANGED db
  BY <1>1, <1>2, <1>3, QuietStep
<1>4. CASE LostEffect(r)
  BY <1>1, <1>2, <1>4, LostEffects DEF HandlerEffect
<1> QED
  BY <1>3, <1>4 DEF StatementFails

LEMMA DatabaseSteps ==
    ASSUME RequestsOK, db \in store!Database, RowsOK, FoundOK, faults \in 0..MaxFaults,
           NEW r \in Request, DatabaseStep(r)
    PROVE  HandlerEffect(r) /\ faults' \in 0..MaxFaults
<1>1. CASE Begin(r) \/ UpdateOrder(r) \/ AbortedByDeadlock(r) \/ Commit(r) \/ Rollback(r)
  BY <1>1, TransactionSteps DEF Begin, UpdateOrder, AbortedByDeadlock, Commit, Rollback
<1>2. CASE \/ ListRows(r) \/ ListCount(r) \/ GetCampaign(r) \/ ListRewards(r)
           \/ AnalyticsAnswer(r)
  BY <1>2, ReadingSteps DEF ListRows, ListCount, GetCampaign, ListRewards, AnalyticsAnswer
<1>3. CASE SoftDelete(r) \/ Restore(r) \/ EnsureUser(r) \/ InsertReward(r)
  BY <1>3, ChangingSteps DEF SoftDelete, Restore, EnsureUser, InsertReward
<1>4. CASE StatementFails(r)
  BY <1>4, FailingStep
<1> QED
  BY <1>1, <1>2, <1>3, <1>4 DEF DatabaseStep

-----------------------------------------------------------------------------
(* The steps of the process *)

LEMMA DispatchFacts ==
    ASSUME RequestsOK, NEW r \in Request, At(r, "unsent"),
           req[r].op.kind \notin {"challenge", "verify"}, Dispatch(r)
    PROVE  /\ OnlyChanges(r) /\ req'[r].answer \in {0, 400, 500}
           /\ req'[r].pc \notin {"update", "commit"}
<1> DEFINE op == req[r].op
<1>0. req[r] \in RequestState /\ RequestOK(req[r]) /\ op \in Operation
  BY DEF RequestsOK, RequestState
<1>1. CASE ~op.valid
  <2>1. PICK status \in {400, 500} : Answer(r, status)
    BY <1>1 DEF Dispatch, Refusal
  <2> QED
    BY <2>1, AnswerFacts DEF Status
<1>2. CASE op.valid
  <2> DEFINE q == req'[r]
             first == FirstStep(op.kind)
             awaited == Awaited(op.kind)
  <2>1. req' = [req EXCEPT ![r] = q] /\ q = [req[r] EXCEPT !.pc = first, !.waits = awaited]
    BY <1>2 DEF Dispatch, RequestsOK
  <2>2. op.kind \in {"list", "get", "reorder", "delete", "restore", "rewards", "claim",
                     "analytics", "health"}
    BY <1>0 DEF Operation
  <2>3. \/ first = "rows" /\ op.kind = "list"
        \/ first = "user" /\ op.kind = "claim"
        \/ first = "begin" /\ op.kind = "reorder"
        \/ first = op.kind /\ op.kind \in {"get", "delete", "restore", "rewards",
                                          "analytics", "health"}
    <3>1. CASE op.kind \in {"list", "claim", "reorder"}
      BY <3>1 DEF FirstStep
    <3>2. CASE op.kind \notin {"list", "claim", "reorder"}
      BY <2>2, <3>2 DEF FirstStep
    <3> QED
      BY <3>1, <3>2
  <2>4. awaited \in SUBSET (AnalyticsQueries \cup Checks)
    BY DEF Awaited
  <2> HIDE DEF first, awaited, q
  <2>5. /\ q.pc = first /\ q.op = op /\ q.answer = req[r].answer /\ q.updated = req[r].updated
        /\ q.rows = req[r].rows /\ q \in RequestState
    <3>1. first \in {"rows", "user", "begin", "get", "delete", "restore", "rewards",
                     "analytics", "health"}
      BY <2>3
    <3> QED
      BY <1>0, <2>1, <2>4, <3>1 DEF RequestState
  <2>6. req[r].answer = 0 /\ req[r].updated = 0
    BY <1>0 DEF RequestOK, At
  <2>7. RequestOK(q)
    BY <1>0, <1>2, <2>3, <2>5, <2>6 DEF RequestOK, Transacting
  <2>8. q.pc \notin {"update", "commit"}
    BY <2>3, <2>5
  <2> QED
    BY <2>1, <2>5, <2>6, <2>7, <2>8 DEF OnlyChanges, q
<1> QED
  BY <1>1, <1>2

LEMMA ReceivingSteps ==
    ASSUME RequestsOK, db \in store!Database, RowsOK, FoundOK, NEW r \in Request,
           Receive(r) \/ ReceiveChallenge(r) \/ ReceiveVerify(r)
    PROVE  HandlerEffect(r)
<1>1. CASE Receive(r)
  <2>1. CASE Dispatch(r)
    BY <1>1, <2>1, DispatchFacts, NoTransaction, QuietStep DEF Receive
  <2>2. CASE Answer(r, 401)
    <3>1. OnlyChanges(r) /\ req'[r].answer = 401 /\ req'[r].pc = "done"
      BY <2>2, AnswerFacts DEF Status
    <3> QED
      BY <1>1, <3>1, NoTransaction, QuietStep DEF Receive
  <2> QED
    BY <1>1, <2>1, <2>2 DEF Receive
<1>2. CASE ReceiveChallenge(r) \/ ReceiveVerify(r)
  <2>1. PICK status \in {200, 400, 401} : Answer(r, status)
    BY <1>2 DEF ReceiveChallenge, ReceiveVerify
  <2>2. OnlyChanges(r) /\ req'[r].answer = status /\ req'[r].pc = "done"
    BY <2>1, AnswerFacts DEF Status
  <2> QED
    BY <1>2, <2>1, <2>2, NoTransaction, QuietStep DEF ReceiveChallenge, ReceiveVerify
<1> QED
  BY <1>1, <1>2

LEMMA CheckFacts ==
    ASSUME RequestsOK, NEW r \in Request, At(r, "health"), NEW c \in Checks,
           NEW failed \in SUBSET Checks, CheckEnds(r, c, failed)
    PROVE  /\ OnlyChanges(r)
           /\ \/ req'[r].pc = "health" /\ req'[r].answer = 0
              \/ req'[r].pc = "done" /\ req'[r].answer \in {200, 503}
<1> DEFINE q == req'[r]
           last == req[r].waits = {c}
           pc == IF last THEN "done" ELSE "health"
           answer == IF last THEN HealthStatus(failed) ELSE 0
<1>0. req[r] \in RequestState /\ RequestOK(req[r]) /\ req[r].answer = 0
  BY DEF RequestsOK, RequestOK, At
<1>1. /\ req' = [req EXCEPT ![r] = q]
      /\ q = [req[r] EXCEPT !.waits = @ \ {c}, !.failed = failed, !.pc = pc, !.answer = answer]
  BY <1>0 DEF CheckEnds, RequestsOK, At
<1>2. \/ pc = "health" /\ answer = 0
      \/ pc = "done" /\ answer \in {200, 503}
  BY DEF HealthStatus
<1> HIDE DEF q, pc, answer
<1>3. /\ q \in RequestState /\ q.pc = pc /\ q.answer = answer /\ q.op = req[r].op
      /\ q.rows = req[r].rows /\ q.updated = req[r].updated
  <2>1. pc \in {"health", "done"} /\ answer \in Status
    BY <1>2 DEF Status
  <2> QED
    BY <1>0, <1>1, <2>1 DEF RequestState
<1>4. RequestOK(q)
  BY <1>0, <1>2, <1>3 DEF RequestOK, Transacting, At
<1> QED
  BY <1>1, <1>2, <1>3, <1>4 DEF OnlyChanges, q

LEMMA HealthSteps ==
    ASSUME RequestsOK, db \in store!Database, RowsOK, FoundOK, NEW r \in Request, NEW c \in Checks,
           CheckAnswers(r, c) \/ CheckTimesOut(r, c)
    PROVE  HandlerEffect(r)
<1>1. req[r].failed \in SUBSET Checks
  BY DEF RequestsOK, RequestState
<1>2. PICK failed \in SUBSET Checks : CheckEnds(r, c, failed)
  BY <1>1 DEF CheckAnswers, CheckTimesOut
<1>3. /\ OnlyChanges(r) /\ req'[r].answer \in {0, 200, 503}
      /\ req'[r].pc \notin {"update", "commit"}
  BY <1>2, CheckFacts DEF CheckAnswers, CheckTimesOut
<1> QED
  BY <1>3, NoTransaction, QuietStep DEF CheckAnswers, CheckTimesOut

-----------------------------------------------------------------------------
(* The inductive invariant *)

\* What a claim was answered is true of the rows, and two claims of a pair are
\* not both answered 201
ClaimsOK ==
    /\ \A r \in Request : req[r].answer \in {201, 409} => PairOf(r) \in db.rewards
    /\ \A r, s \in Request :
           req[r].answer = 201 /\ req[s].answer = 201 /\ PairOf(r) = PairOf(s) => r = s

\* Handlers run in a process that has started and has not ended
Idle == ~Running => \A r \in Request : ~InFlight(r)

Inv ==
    /\ TypeOK /\ AuthInv /\ RowsOK /\ FoundOK /\ ClaimsOK
    /\ OrderOfOneRequest /\ Idle

LEMMA ScenarioFacts ==
    ASSUME scenario \in Scenarios
    PROVE  /\ scenario.ops \in [Request -> Operation] /\ scenario.rows \subseteq CampaignId
           /\ scenario.upserts \subseteq CampaignId \X BOOLEAN
           /\ scenario.claims \subseteq UserAddress \X CampaignId
  BY ServerAssumption DEF ServerAssumption, Scenario

\* The rows stay in one order when a statement changes no place, or all at once
LEMMA RowsKeep ==
    ASSUME Inv, UNCHANGED scenario,
           \A s \in Request : req'[s].op = req[s].op,
           \A s \in Request : FoundRows(req'[s], db') \/ FoundRows(req'[s], db),
           Keeps(db, db'),
           \/ SameOrders(db, db')
           \/ \E r \in Reorders : OrderedBy(r)
    PROVE  db' \in store!Database /\ RowsOK' /\ FoundOK' /\ OrderOfOneRequest'
<1>0. scenario.rows \subseteq CampaignId /\ db \in store!Database /\ RequestsOK
  BY ScenarioFacts DEF Inv, TypeOK, ApiTypeOK
<1>1. db' \in store!Database /\ RowsOK'
  BY <1>0 DEF Keeps, RowsOK, Inv
<1>2. Reorders' = Reorders /\ AlwaysOrdered' = AlwaysOrdered
  BY DEF Reorders, AlwaysOrdered
<1>3. \A id \in AlwaysOrdered : id \in CampaignId /\ store!HasRow(db, id)
  BY <1>0 DEF AlwaysOrdered, Inv, RowsOK
<1>6. FoundOK'
  <2> SUFFICES ASSUME NEW s \in Request, FoundRows(req'[s], db)
               PROVE  FoundRows(req'[s], db')
    BY DEF FoundOK, FoundRows
  <2> QED
    BY DEF FoundRows, Keeps, store!HasRow
<1>4. CASE SameOrders(db, db')
  <2>1. \A id \in AlwaysOrdered : db'.campaigns[id].order = db.campaigns[id].order
    BY <1>3, <1>4 DEF SameOrders
  <2>2. \/ \A id \in AlwaysOrdered : db'.campaigns[id].order = 0
        \/ \E r \in Reorders : \A id \in AlwaysOrdered :
               db'.campaigns[id].order = store!PlaceOf(req[r].op.order, id) - 1
    BY <2>1 DEF Inv, OrderOfOneRequest
  <2>3. Reorders \subseteq Request
    BY DEF Reorders
  <2> QED
    BY <1>1, <1>2, <1>6, <2>2, <2>3 DEF OrderOfOneRequest
<1>5. CASE \E r \in Reorders : OrderedBy(r)
  <2>1. PICK r \in Reorders : OrderedBy(r)
    BY <1>5
  <2>2. r \in Request /\ req'[r].op = req[r].op
    BY DEF Reorders
  <2>3. \A id \in AlwaysOrdered :
            db'.campaigns[id].order = store!PlaceOf(req'[r].op.order, id) - 1
    BY <2>1, <2>2 DEF OrderedBy
  <2> QED
    BY <1>1, <1>2, <1>6, <2>1, <2>3 DEF OrderOfOneRequest
<1> QED
  BY <1>4, <1>5

LEMMA HandlerKeeps ==
    ASSUME Inv, UNCHANGED scenario, NEW r \in Request, HandlerEffect(r)
    PROVE  /\ RequestsOK' /\ db' \in store!Database /\ RowsOK' /\ FoundOK' /\ ClaimsOK'
           /\ OrderOfOneRequest'
<1>1. /\ RequestsOK'
      /\ \A s \in Request \ {r} : req'[s] = req[s]
      /\ \A s \in Request : req'[s].op = req[s].op
  BY OneRequest DEF Inv, TypeOK, ApiTypeOK, HandlerEffect
<1>2. db' \in store!Database /\ RowsOK' /\ FoundOK' /\ OrderOfOneRequest'
  <2>1. ASSUME NEW s \in Request PROVE FoundRows(req'[s], db') \/ FoundRows(req'[s], db)
    BY <1>1 DEF HandlerEffect, Inv, FoundOK
  <2>2. Keeps(db, db') /\ (SameOrders(db, db') \/ \E s \in Reorders : OrderedBy(s))
    BY DEF HandlerEffect
  <2> QED
    BY <1>1, <2>1, <2>2, RowsKeep
<1>3. \A s \in Request : PairOf(s)' = PairOf(s)
  BY <1>1 DEF PairOf
<1>4. db.rewards \subseteq db'.rewards
  BY DEF HandlerEffect, Keeps
<1>5. ASSUME NEW s \in Request, req'[s].answer \in {201, 409}
      PROVE  PairOf(s)' \in db'.rewards
  BY <1>1, <1>3, <1>4, <1>5 DEF HandlerEffect, Inv, ClaimsOK
<1>6. ASSUME NEW s \in Request \ {r}, req'[r].answer = 201, req'[s].answer = 201
      PROVE  PairOf(s)' # PairOf(r)'
  <2>1. PairOf(s) \in db.rewards
    BY <1>1, <1>6 DEF Inv, ClaimsOK
  <2>2. PairOf(r) \notin db.rewards
    BY <1>6 DEF HandlerEffect
  <2> QED
    BY <1>3, <2>1, <2>2
<1>7. ASSUME NEW s \in Request, NEW t \in Request,
             req'[s].answer = 201, req'[t].answer = 201, PairOf(s)' = PairOf(t)'
      PROVE  s = t
  <2>1. CASE s # r /\ t # r
    BY <1>1, <1>3, <1>7, <2>1 DEF Inv, ClaimsOK
  <2>2. CASE s = r \/ t = r
    BY <1>6, <1>7, <2>2
  <2> QED
    BY <2>1, <2>2
<1>8. ClaimsOK'
  BY <1>5, <1>7 DEF ClaimsOK
<1> QED
  BY <1>1, <1>2, <1>8

LEMMA InitInv == Init => Inv
<1> SUFFICES ASSUME Init PROVE Inv
  OBVIOUS
<1>1. /\ scenario.ops \in [Request -> Operation] /\ scenario.rows \subseteq CampaignId
      /\ scenario \in Scenarios
  BY ScenarioFacts DEF Init
<1> DEFINE new(id) == IF id \in scenario.rows
                      THEN [active |-> TRUE, deleted |-> FALSE, order |-> 0] ELSE NoRow
<1>2. /\ db = [users |-> {}, campaigns |-> [id \in CampaignId |-> new(id)], rewards |-> {},
               transactions |-> {}, deadLetters |-> {}]
  BY DEF Init, store!EmptyDatabase
<1>3. \A id \in CampaignId :
          /\ new(id) \in store!CampaignRow \cup {NoRow}
          /\ new(id) # NoRow <=> id \in scenario.rows
          /\ id \in scenario.rows => new(id).order = 0
  <2>1. [active |-> TRUE, deleted |-> FALSE, order |-> 0] \in store!CampaignRow
    BY DEF store!CampaignRow
  <2> QED
    BY <2>1, NoRowIsNoRow
<1> HIDE DEF new
<1>4. db \in store!Database
  BY <1>2, <1>3 DEF store!Database
<1>5. RowsOK
  BY <1>1, <1>2, <1>3 DEF RowsOK, store!HasRow
<1>6. OrderOfOneRequest
  BY <1>1, <1>2, <1>3 DEF OrderOfOneRequest, AlwaysOrdered
<1>7. ASSUME NEW r \in Request
      PROVE  /\ RequestOK(req[r]) /\ req[r].pc = "unsent" /\ req[r].answer = 0
  <2>1. scenario.ops[r] \in Operation
    BY <1>1
  <2>2. req[r] = [op |-> scenario.ops[r], pc |-> "unsent", updated |-> 0, rows |-> {},
                  waits |-> {}, failed |-> {}, answer |-> 0]
    BY DEF Init, NewRequest
  <2>3. req[r] \in RequestState
    BY <2>1, <2>2 DEF RequestState, Status
  <2> QED
    BY <2>2, <2>3 DEF RequestOK, Transacting
<1>8. RequestsOK
  BY <1>7 DEF Init, RequestsOK, RequestOK
<1>9. ClaimsOK /\ Idle /\ FoundOK
  BY <1>7 DEF ClaimsOK, Idle, InFlight, FoundOK, FoundRows
<1>10. AuthTypeOK
  BY AuthAssumption DEF Init, AuthInit, AuthTypeOK, AuthAssumption, NoEntry, Entry
<1>11. AuthInv
  <2>1. UNION {issued[k] : k \in Key} = 1..0
    BY DEF Init, AuthInit
  <2>2. IsFiniteSet(tokens)
    BY FS_EmptySet DEF Init, AuthInit
  <2> QED
    BY <2>1, <2>2 DEF Init, AuthInit, AuthInv, OneTokenPerNonce
<1>12. TypeOK
  <2>1. ApiTypeOK
    BY <1>4, <1>8, ApiAssumption DEF ApiTypeOK, RequestsOK, Init, ApiAssumption
  <2> QED
    BY <1>1, <1>10, <2>1, ServerAssumption DEF TypeOK, Init, ServerAssumption
<1> QED
  BY <1>5, <1>6, <1>8, <1>9, <1>11, <1>12 DEF Inv

\* Steps of the process that no request and no row takes part in
LEMMA LifeKeeps ==
    ASSUME Inv, UNCHANGED <<api, scenario>>,
           AuthTick \/ ForgetAuth \/ UNCHANGED auth,
           left' \subseteq Request, poll' \in {"idle", "query"},
           phase' \in {"validating", "secrets", "listening", "closing", "ending", "exited"},
           crashes' \in 0..MaxCrashes, Idle'
    PROVE  Inv'
<1>1. AuthTypeOK' /\ AuthInv'
  BY OtherAuthKeeps DEF Inv, TypeOK
<1>2. TypeOK'
  BY <1>1 DEF Inv, TypeOK, ApiTypeOK, RequestsOK, api
<1>3. RowsOK' /\ FoundOK' /\ ClaimsOK'
  BY DEF Inv, RowsOK, FoundOK, FoundRows, ClaimsOK, PairOf, api
<1>4. OrderOfOneRequest'
  BY DEF Inv, OrderOfOneRequest, AlwaysOrdered, Reorders, api
<1> QED
  BY <1>1, <1>2, <1>3, <1>4 DEF Inv

LEMMA LifeSteps ==
    ASSUME Inv,
           \/ ValidateEnv \/ Listen \/ Signal \/ ServerClosed \/ PoolEnds \/ Restart \/ Tick
           \/ IndexerQueries
    PROVE  Inv'
<1>0. /\ \A r \in Request : ~Running => ~InFlight(r)
      /\ UNCHANGED clients => left' \subseteq Request /\ poll' \in {"idle", "query"}
      /\ MaxCrashes \in Nat /\ crashes \in 0..MaxCrashes
  BY ServerAssumption DEF Inv, Idle, TypeOK, ServerAssumption, clients
<1>1. CASE ValidateEnv
  <2>1. Idle'
    BY <1>0, <1>1 DEF ValidateEnv, Idle, Running, InFlight, api
  <2> QED
    BY <1>0, <1>1, <2>1, LifeKeeps DEF ValidateEnv
<1>2. CASE Listen
  <2>1. Idle'
    BY <1>0, <1>2 DEF Listen, Idle, Running, InFlight, api
  <2>2. crashes' \in 0..MaxCrashes
    BY <1>0, <1>2 DEF Listen
  <2> QED
    BY <1>0, <1>2, <2>1, <2>2, LifeKeeps DEF Listen
<1>3. CASE Signal
  <2>1. Idle'
    BY <1>3 DEF Signal, Idle, Running
  <2> QED
    BY <1>0, <1>3, <2>1, LifeKeeps DEF Signal
<1>4. CASE ServerClosed
  <2>1. Idle'
    BY <1>4 DEF ServerClosed, Idle, Running, InFlight, api
  <2> QED
    BY <1>0, <1>4, <2>1, LifeKeeps DEF ServerClosed
<1>5. CASE PoolEnds
  <2>1. Idle'
    BY <1>0, <1>5 DEF PoolEnds, Idle, Running, InFlight, api
  <2> QED
    BY <1>0, <1>5, <2>1, LifeKeeps DEF PoolEnds
<1>6. CASE Restart
  <2>1. Idle'
    BY <1>0, <1>6 DEF Restart, Idle, Running, InFlight, api
  <2> QED
    BY <1>0, <1>6, <2>1, LifeKeeps DEF Restart
<1>7. CASE Tick
  <2>1. Idle'
    BY <1>7 DEF Tick, Idle, Running
  <2> QED
    BY <1>0, <1>7, <2>1, LifeKeeps DEF Tick
<1>8. CASE IndexerQueries
  <2>1. Idle' /\ left' \subseteq Request
    BY <1>8 DEF IndexerQueries, Idle, Running, Inv, TypeOK
  <2>2. /\ UNCHANGED <<api, auth, scenario, phase, crashes>>
        /\ poll' \in {"idle", "query"}
    BY <1>8 DEF IndexerQueries
  <2>3. /\ phase' \in {"validating", "secrets", "listening", "closing", "ending", "exited"}
        /\ crashes' \in 0..MaxCrashes
    BY <2>2 DEF Inv, TypeOK
  <2> QED
    BY <2>1, <2>2, <2>3, LifeKeeps
<1> QED
  BY <1>1, <1>2, <1>3, <1>4, <1>5, <1>6, <1>7, <1>8

\* A crash drops what is in flight, with what its transactions did
LEMMA CrashKeeps ==
    ASSUME Inv, Crash
    PROVE  Inv'
<1>1. req' = [r \in Request |-> IF InFlight(r) THEN [req[r] EXCEPT !.pc = "dropped"] ELSE req[r]]
  BY DEF Crash
<1>2. ASSUME NEW r \in Request
      PROVE  /\ RequestOK(req'[r]) /\ req'[r].op = req[r].op /\ req'[r].answer = req[r].answer
             /\ req'[r].pc \in {"unsent", "done", "dropped"}
  <2>1. CASE InFlight(r)
    <3>1. req[r] \in RequestState /\ RequestOK(req[r]) /\ req'[r] = [req[r] EXCEPT !.pc = "dropped"]
      BY <1>1, <2>1 DEF Inv, TypeOK, ApiTypeOK, RequestsOK
    <3>2. /\ req'[r] \in RequestState /\ req'[r].op = req[r].op
          /\ req'[r].answer = req[r].answer /\ req'[r].pc = "dropped"
          /\ req'[r].rows = req[r].rows /\ req'[r].updated = req[r].updated
      BY <3>1 DEF RequestState
    <3> QED
      BY <2>1, <3>1, <3>2 DEF RequestOK, Transacting, InFlight
  <2>2. CASE ~InFlight(r)
    BY <1>1, <2>2 DEF Inv, TypeOK, ApiTypeOK, RequestsOK, InFlight
  <2> QED
    BY <2>1, <2>2
<1>3. RequestsOK' /\ Idle'
  BY <1>1, <1>2 DEF RequestsOK, RequestOK, Idle, InFlight
<1>4. Keeps(db, db') /\ SameOrders(db, db') /\ UNCHANGED <<db, faults, auth, scenario>>
  BY DEF Crash, Keeps, SameOrders, store!HasRow, Inv, TypeOK, ApiTypeOK
<1>5. db' \in store!Database /\ RowsOK' /\ FoundOK' /\ OrderOfOneRequest'
  <2>1. \A r \in Request : FoundRows(req'[r], db')
    BY <1>2, NoTransaction
  <2> QED
    BY <1>2, <1>4, <2>1, RowsKeep
<1>6. ClaimsOK'
  BY <1>2, <1>4 DEF Inv, ClaimsOK, PairOf
<1>7. AuthTypeOK' /\ AuthInv'
  BY <1>4, OtherAuthKeeps DEF Inv, TypeOK
<1>8. TypeOK'
  <2>1. crashes' \in 0..MaxCrashes /\ phase' = "exited" /\ left' = {} /\ poll' = "idle"
    BY ServerAssumption DEF Crash, ServerAssumption, Inv, TypeOK
  <2> QED
    BY <1>3, <1>4, <1>5, <1>7, <2>1 DEF Inv, TypeOK, ApiTypeOK, RequestsOK
<1> QED
  BY <1>3, <1>5, <1>6, <1>7, <1>8 DEF Inv

\* A step of one request, which may touch the rows or the nonces
LEMMA RequestKeeps ==
    ASSUME Inv, NEW r \in Request, HandlerEffect(r), faults' \in 0..MaxFaults,
           AuthTypeOK', AuthInv', Running, left' \subseteq Request,
           UNCHANGED <<poll, scenario, phase, crashes>>
    PROVE  Inv'
<1>1. /\ RequestsOK' /\ db' \in store!Database /\ RowsOK' /\ FoundOK' /\ ClaimsOK'
      /\ OrderOfOneRequest'
  BY HandlerKeeps
<1>2. TypeOK'
  BY <1>1 DEF Inv, TypeOK, ApiTypeOK, RequestsOK
<1>3. Idle'
  BY DEF Idle, Running
<1> QED
  BY <1>1, <1>2, <1>3 DEF Inv

LEMMA RequestSteps ==
    ASSUME Inv, NEW r \in Request,
           \/ Receive(r) \/ ReceiveChallenge(r) \/ ReceiveVerify(r) \/ Handle(r)
           \/ \E c \in Checks : CheckAnswers(r, c) \/ CheckTimesOut(r, c)
    PROVE  Inv'
<1>0. /\ RequestsOK /\ db \in store!Database /\ faults \in 0..MaxFaults
      /\ AuthTypeOK /\ AuthInv /\ RowsOK /\ FoundOK
      /\ UNCHANGED clients => left' \subseteq Request /\ UNCHANGED poll
  BY DEF Inv, TypeOK, ApiTypeOK, clients
<1>1. CASE Receive(r)
  <2>1. AuthTypeOK' /\ AuthInv'
    BY <1>0, <1>1, OtherAuthKeeps DEF Receive
  <2> QED
    BY <1>0, <1>1, <2>1, ReceivingSteps, RequestKeeps DEF Receive, Running
<1>2. CASE ReceiveChallenge(r)
  <2>1. req[r].op.user \in Key
    BY <1>0, OpTypes, ServerAssumption DEF ServerAssumption
  <2>2. AuthTypeOK' /\ AuthInv'
    BY <1>0, <1>2, <2>1, ChallengeKeeps, OtherAuthKeeps DEF ReceiveChallenge
  <2> QED
    BY <1>0, <1>2, <2>2, ReceivingSteps, RequestKeeps DEF ReceiveChallenge, Running
<1>3. CASE ReceiveVerify(r)
  <2>1. req[r].op.user \in Key
    BY <1>0, OpTypes, ServerAssumption DEF ServerAssumption
  <2>2. AuthTypeOK' /\ AuthInv'
    BY <1>0, <1>3, <2>1, VerifyKeeps, OtherAuthKeeps DEF ReceiveVerify
  <2> QED
    BY <1>0, <1>3, <2>2, ReceivingSteps, RequestKeeps DEF ReceiveVerify, Running
<1>4. CASE Handle(r)
  <2>1. AuthTypeOK' /\ AuthInv'
    BY <1>0, <1>4, OtherAuthKeeps DEF Handle
  <2> QED
    BY <1>0, <1>4, <2>1, DatabaseSteps, RequestKeeps DEF Handle
<1>5. CASE \E c \in Checks : CheckAnswers(r, c) \/ CheckTimesOut(r, c)
  <2>1. PICK c \in Checks : CheckAnswers(r, c) \/ CheckTimesOut(r, c)
    BY <1>5
  <2>2. AuthTypeOK' /\ AuthInv'
    BY <1>0, <2>1, OtherAuthKeeps DEF CheckAnswers, CheckTimesOut
  <2>3. left' \subseteq Request /\ UNCHANGED poll
    BY <1>0, <2>1 DEF CheckAnswers, CheckTimesOut, Inv, TypeOK
  <2> QED
    BY <1>0, <2>1, <2>2, <2>3, HealthSteps, RequestKeeps DEF CheckAnswers, CheckTimesOut
<1> QED
  BY <1>1, <1>2, <1>3, <1>4, <1>5

\* An answer that comes late changes no row and no request
LEMMA LateKeeps ==
    ASSUME Inv, NEW r \in Request, LateAnswer(r)
    PROVE  Inv'
<1>1. left' \subseteq Request /\ poll' \in {"idle", "query"} /\ crashes' \in 0..MaxCrashes
  BY DEF LateAnswer, Inv, TypeOK
<1>2. Idle'
  BY DEF LateAnswer, Inv, Idle, Running, InFlight, api
<1>3. phase' \in {"validating", "secrets", "listening", "closing", "ending", "exited"}
  BY DEF LateAnswer, Inv, TypeOK
<1> QED
  BY <1>1, <1>2, <1>3, LifeKeeps DEF LateAnswer

\* The indexer's writes move no row and take no reward away
LEMMA IndexerSteps ==
    ASSUME Inv, IndexerWrites
    PROVE  Inv'
<1>0. /\ db \in store!Database /\ RequestsOK
      /\ scenario.upserts \subseteq CampaignId \X BOOLEAN
      /\ scenario.claims \subseteq UserAddress \X CampaignId
  BY ScenarioFacts DEF Inv, TypeOK, ApiTypeOK
<1>6. QueryEnds
  BY DEF IndexerWrites, IndexerAnswered, IndexerUpsertsCampaign, IndexerInsertsUser,
         IndexerUpsertsReward
<1>1. Keeps(db, db') /\ SameOrders(db, db')
  <2>1. CASE \E e \in scenario.upserts : IndexerUpsertsCampaign(e[1], e[2])
    <3>1. PICK e \in scenario.upserts : IndexerUpsertsCampaign(e[1], e[2])
      BY <2>1
    <3>2. e[1] \in CampaignId /\ e[2] \in BOOLEAN
      BY <1>0
    <3>3. db' \in {store!SoftDeleteCampaign(db, e[1]), store!RestoreCampaign(db, e[1]),
                   store!UpsertCampaign(db, e[1], e[2])}
      BY <3>1 DEF IndexerUpsertsCampaign
    <3>4. CASE store!HasRow(db, e[1])
      BY <1>0, <3>2, <3>3, <3>4, RowOps
    <3>5. CASE ~store!HasRow(db, e[1])
      <4>1. db' = store!UpsertCampaign(db, e[1], e[2])
        BY <3>1 DEF IndexerUpsertsCampaign
      <4> HIDE DEF Keeps, SameOrders
      <4>2. \A i \in CampaignId, b \in BOOLEAN :
                ~store!HasRow(db, i) => /\ Keeps(db, store!UpsertCampaign(db, i, b))
                                        /\ SameOrders(db, store!UpsertCampaign(db, i, b))
        BY <1>0, RowAdded
      <4> QED
        BY <3>2, <3>5, <4>1, <4>2
    <3> QED
      BY <3>4, <3>5
  <2>2. CASE \E e \in scenario.claims : IndexerInsertsUser(e[1]) \/ IndexerUpsertsReward(e[1], e[2])
    <3>1. PICK e \in scenario.claims : IndexerInsertsUser(e[1]) \/ IndexerUpsertsReward(e[1], e[2])
      BY <2>2
    <3>2. e[1] \in UserAddress /\ e[2] \in CampaignId
      BY <1>0
    <3> QED
      BY <1>0, <3>1, <3>2, OtherOps DEF IndexerUpsertsReward, IndexerInsertsUser
  <2>3. CASE IndexerAnswered
    BY <1>0, <2>3 DEF IndexerAnswered, Keeps, SameOrders, store!HasRow
  <2> QED
    BY <2>1, <2>2, <2>3 DEF IndexerWrites
<1>2. RequestsOK'
  BY <1>0, <1>6 DEF RequestsOK, QueryEnds
<1>3. db' \in store!Database /\ RowsOK' /\ FoundOK' /\ OrderOfOneRequest'
  <2>1. \A s \in Request : FoundRows(req'[s], db)
    BY <1>6 DEF Inv, FoundOK, QueryEnds
  <2> QED
    BY <1>1, <1>6, <2>1, RowsKeep DEF QueryEnds
<1>4. ClaimsOK'
  BY <1>1, <1>6 DEF Inv, ClaimsOK, PairOf, Keeps, QueryEnds
<1>5. AuthTypeOK' /\ AuthInv'
  BY <1>6, OtherAuthKeeps DEF Inv, TypeOK, QueryEnds
<1>7. TypeOK' /\ Idle'
  BY <1>2, <1>3, <1>5, <1>6 DEF Inv, TypeOK, ApiTypeOK, Idle, Running, InFlight, QueryEnds
<1> QED
  BY <1>3, <1>4, <1>5, <1>7 DEF Inv

LEMMA NextInv == Inv /\ [Next]_vars => Inv'
<1> SUFFICES ASSUME Inv, [Next]_vars PROVE Inv'
  OBVIOUS
<1>1. CASE \/ ValidateEnv \/ Listen \/ Signal \/ ServerClosed \/ PoolEnds \/ Restart \/ Tick
           \/ IndexerQueries
  BY <1>1, LifeSteps
<1>2. CASE Crash
  BY <1>2, CrashKeeps
<1>3. CASE \E r \in Request :
               \/ Receive(r) \/ ReceiveChallenge(r) \/ ReceiveVerify(r) \/ Handle(r)
               \/ \E c \in Checks : CheckAnswers(r, c) \/ CheckTimesOut(r, c)
  BY <1>3, RequestSteps
<1>4. CASE IndexerWrites
  BY <1>4, IndexerSteps
<1>6. CASE \E r \in Request : LateAnswer(r)
  BY <1>6, LateKeeps
<1>5. CASE UNCHANGED vars
  <2>1. phase' \in {"validating", "secrets", "listening", "closing", "ending", "exited"}
        /\ crashes' \in 0..MaxCrashes /\ left' \subseteq Request /\ poll' \in {"idle", "query"}
    BY <1>5 DEF vars, clients, Inv, TypeOK
  <2>2. Idle'
    BY <1>5 DEF vars, api, Inv, Idle, Running, InFlight
  <2> QED
    BY <1>5, <2>1, <2>2, LifeKeeps DEF vars
<1> QED
  BY <1>1, <1>2, <1>3, <1>4, <1>5, <1>6 DEF Next

LEMMA InvAlways == Spec => []Inv
  BY InitInv, NextInv, PTL DEF Spec

-----------------------------------------------------------------------------
(* The safety properties *)

\* The state of the server keeps its types: in particular every request is at a
\* step of the route of its kind, a transaction commits when all its updates are
\* done and holds only rows they named, and nothing is answered before its end
THEOREM TypeCorrect == Spec => []TypeOK
<1>1. Inv => TypeOK
  BY DEF Inv
<1> QED
  BY <1>1, InvAlways, PTL

\* A nonce is exchanged for one token at most, one of the key it was given to
\* (verifyHandler), for any number of keys, requests, restarts and any clock
THEOREM NonceUsedOnce == Spec => []OneTokenPerNonce
<1>1. Inv => OneTokenPerNonce
  BY DEF Inv, AuthInv
<1> QED
  BY <1>1, InvAlways, PTL

LEMMA AtMostOne ==
    ASSUME NEW S, \A x, y \in S : x = y
    PROVE  Cardinality(S) <= 1
<1>1. CASE S = {}
  BY <1>1, FS_EmptySet
<1>2. CASE S # {}
  <2>1. PICK x \in S : S = {x}
    BY <1>2
  <2>2. Cardinality({x}) = 1
    BY FS_Singleton
  <2> QED
    BY <2>1, <2>2
<1> QED
  BY <1>1, <1>2

\* Of all the claims of one user for one campaign, at most one is answered 201,
\* and 201 and 409 are answered only when the reward is recorded
\* (createRewardClaim), whatever races, fails or crashes
THEOREM ClaimsAnsweredOnce == Spec => []ClaimAnsweredOnce
<1>1. ASSUME Inv PROVE ClaimAnsweredOnce
  <2> SUFFICES ASSUME NEW u \in UserAddress, NEW id \in CampaignId
               PROVE  LET answered(s) == {r \in Claims(u, id) : req[r].answer = s}
                      IN /\ Cardinality(answered(201)) <= 1
                         /\ answered(201) \cup answered(409) # {} => <<u, id>> \in db.rewards
    BY DEF ClaimAnsweredOnce
  <2> DEFINE created == {r \in Claims(u, id) : req[r].answer = 201}
             known == {r \in Claims(u, id) : req[r].answer = 409}
  <2>1. ASSUME NEW r \in created \cup known
        PROVE  r \in Request /\ PairOf(r) = <<u, id>> /\ PairOf(r) \in db.rewards
    BY <1>1, <2>1 DEF Claims, PairOf, Inv, ClaimsOK
  <2>2. created \cup known # {} => <<u, id>> \in db.rewards
    BY <2>1
  <2>3. \A r, s \in created : r = s
    BY <1>1, <2>1 DEF Inv, ClaimsOK
  <2> HIDE DEF created
  <2>4. Cardinality(created) <= 1
    BY <2>3, AtMostOne
  <2> QED
    BY <2>2, <2>4 DEF created
<1> QED
  BY <1>1, InvAlways, PTL

\* Rows that all reorderings name are never in a mixture of two orders
\* (reorderCampaigns, its transaction and its row locks), for any lists, with
\* repeats and unknown ids, and any number of requests that race and fail
THEOREM OrdersNotMixed == Spec => []OrderOfOneRequest
<1>1. Inv => OrderOfOneRequest
  BY DEF Inv
<1> QED
  BY <1>1, InvAlways, PTL

\* The process ends with no request in flight, but for those a crash cut
\* (gracefulShutdown)
THEOREM ShutdownAnswers == Spec => []AnsweredBeforeExit
<1>1. Inv => AnsweredBeforeExit
  BY DEF Inv, AnsweredBeforeExit, Idle, Running
<1> QED
  BY <1>1, InvAlways, PTL

-----------------------------------------------------------------------------
(* The refinement *)

AtomicStep == [atomic!Next]_(atomic!atomicApi)

Open(q) == q.answer = 0 /\ q.pc \notin {"unsent", "rollback", "dropped"}

\* An outcome follows from the answer, except that a rollback can only fail
LEMMA OutcomeFacts ==
    ASSUME RequestsOK, NEW r \in Request
    PROVE  /\ At(r, "unsent") => Outcome(r) = "unsent"
           /\ Open(req[r]) => Outcome(r) = "open"
           /\ req[r].answer \in {200, 201} => Outcome(r) = "success"
           /\ req[r].answer \in {400, 401, 404, 409} => Outcome(r) = "refused"
           /\ req[r].answer \in {500, 503} => Outcome(r) = "error"
           /\ req[r].answer = 0 /\ req[r].pc \in {"rollback", "dropped"} => Outcome(r) = "error"
<1>1. req[r].pc # "done" => req[r].answer = 0
  BY DEF RequestsOK, RequestOK
<1> QED
  BY <1>1 DEF Outcome, Open, At

LEMMA NewOutcomeFacts ==
    ASSUME RequestsOK', NEW r \in Request
    PROVE  /\ Open(req'[r]) => Outcome(r)' = "open"
           /\ req'[r].answer \in {200, 201} => Outcome(r)' = "success"
           /\ req'[r].answer \in {400, 401, 404, 409} => Outcome(r)' = "refused"
           /\ req'[r].answer \in {500, 503} => Outcome(r)' = "error"
           /\ req'[r].answer = 0 /\ req'[r].pc \in {"rollback", "dropped"} =>
                  Outcome(r)' = "error"
<1>1. req'[r].pc # "done" => req'[r].answer = 0
  BY DEF RequestsOK, RequestOK
<1> QED
  BY <1>1 DEF Outcome, Open

\* The rows that come too late for a transaction, as a function of its request
\* and of the rows there are
TooLate(q, d) ==
    IF q.pc \in {"update", "commit"}
    THEN {id \in {q.op.order[i] : i \in 1..q.updated} :
             /\ store!HasRow(d, id) /\ id \notin q.rows
             /\ \A i \in (q.updated + 1)..Len(q.op.order) : q.op.order[i] # id}
    ELSE {}

LEMMA MissedFacts ==
    ASSUME NEW r \in Request
    PROVE  Missed(r) = TooLate(req[r], db) /\ Missed(r)' = TooLate(req'[r], db')
  BY DEF Missed, TooLate, Touched

\* No row is added: none comes too late
LEMMA SameTooLate ==
    ASSUME RequestsOK, NEW r \in Request, SameRows(db, db')
    PROVE  TooLate(req[r], db') = TooLate(req[r], db)
<1>1. ASSUME NEW i \in 1..req[r].updated, req[r].pc \in {"update", "commit"}
      PROVE  store!HasRow(db', req[r].op.order[i]) <=> store!HasRow(db, req[r].op.order[i])
  <2>1. /\ req[r].updated \in Nat /\ req[r].updated <= Len(req[r].op.order)
        /\ Len(req[r].op.order) \in Nat /\ req[r].op.order \in Seq(CampaignId)
    BY <1>1, OpTypes DEF RequestsOK, RequestOK, RequestState
  <2>2. req[r].op.order[i] \in CampaignId
    BY <2>1
  <2> QED
    BY <2>2 DEF SameRows
<1> QED
  BY <1>1 DEF TooLate

\* The abstract state, when request r alone takes a step
LEMMA MappedStep ==
    ASSUME RequestsOK, NEW r \in Request, OnlyChanges(r), SameRows(db, db')
    PROVE  /\ [s \in Request |-> req[s].op]' = [s \in Request |-> req[s].op]
           /\ [s \in Request |-> Outcome(s)]'
                  = [[s \in Request |-> Outcome(s)] EXCEPT ![r] = Outcome(r)']
           /\ [s \in Request |-> Missed(s)]'
                  = [[s \in Request |-> Missed(s)] EXCEPT ![r] = TooLate(req'[r], db')]
<1>1. /\ \A s \in Request \ {r} : req'[s] = req[s]
      /\ \A s \in Request : req'[s].op = req[s].op
  BY OneRequest
<1>2. \A s \in Request \ {r} : Outcome(s)' = Outcome(s)
  BY <1>1 DEF Outcome
<1>3. ASSUME NEW s \in Request \ {r} PROVE Missed(s)' = Missed(s)
  <2>1. TooLate(req'[s], db') = TooLate(req[s], db)
    BY <1>1, SameTooLate
  <2> QED
    BY <2>1, MissedFacts
<1>4. Missed(r)' = TooLate(req'[r], db')
  BY MissedFacts
<1> QED
  BY <1>1, <1>2, <1>3, <1>4

LEMMA SameRowsFacts ==
    ASSUME UNCHANGED <<db.campaigns, db.rewards>>
    PROVE  SameRows(db, db')
  BY DEF SameRows, store!HasRow

LEMMA StutterStep ==
    ASSUME RequestsOK, NEW r \in Request, OnlyChanges(r), Outcome(r)' = Outcome(r),
           TooLate(req'[r], db) = TooLate(req[r], db), UNCHANGED <<db.campaigns, db.rewards>>
    PROVE  AtomicStep
<1>1. TooLate(req'[r], db') = Missed(r)
  <2>1. TooLate(req'[r], db') = TooLate(req'[r], db)
    BY DEF TooLate, store!HasRow
  <2> QED
    BY <2>1, MissedFacts
<1>2. [s \in Request |-> Missed(s)]' = [s \in Request |-> Missed(s)]
  BY <1>1, MappedStep, SameRowsFacts
<1>3. UNCHANGED atomic!atomicApi
  BY <1>2, MappedStep, SameRowsFacts DEF atomic!atomicApi
<1> QED
  BY <1>3 DEF AtomicStep

\* A request that ends, or only rolls back from now on, misses nothing
Ended(q) == q.pc \notin {"update", "commit"}

LEMMA EndsStep ==
    ASSUME RequestsOK, NEW r \in Request, OnlyChanges(r), SameRows(db, db'),
           Outcome(r) \in {"unsent", "open"}, Ended(req'[r])
    PROVE  atomic!Ends(r, Outcome(r)')
<1>1. TooLate(req'[r], db') = {}
  BY DEF TooLate, Ended
<1> QED
  BY <1>1, MappedStep DEF atomic!Ends, atomic!Pending

LEMMA SentStep ==
    ASSUME RequestsOK, NEW r \in Request, OnlyChanges(r), At(r, "unsent"),
           Open(req'[r]), Ended(req'[r]), UNCHANGED db
    PROVE  AtomicStep
<1>1. Outcome(r) = "unsent" /\ Outcome(r)' = "open"
  BY OneRequest, OutcomeFacts, NewOutcomeFacts
<1>2. TooLate(req'[r], db') = {} /\ Missed(r) = {}
  BY MissedFacts DEF TooLate, Ended, At
<1>3. SameRows(db, db')
  BY DEF SameRows
<1>4. [s \in Request |-> Missed(s)]' = [s \in Request |-> Missed(s)]
  BY <1>2, <1>3, MappedStep
<1>5. atomic!Sends(r)
  BY <1>1, <1>3, <1>4, MappedStep DEF atomic!Sends
<1> QED
  BY <1>5 DEF AtomicStep, atomic!Next

LEMMA EffectStep ==
    ASSUME RequestsOK, NEW r \in Request, OnlyChanges(r), SameRows(db, db'),
           Outcome(r) \in {"unsent", "open"}, Outcome(r)' \in {"success", "error"},
           Ended(req'[r]), req[r].op.valid,
           \/ atomic!Reorders(r) \/ atomic!Deletes(r) \/ atomic!Restores(r)
           \/ atomic!Claims(r) \/ atomic!Reads(r)
    PROVE  AtomicStep
<1>1. atomic!TakesEffect(r)
  BY MappedStep, EndsStep DEF atomic!TakesEffect
<1> QED
  BY <1>1 DEF AtomicStep, atomic!Next

LEMMA RefusedStep ==
    ASSUME RequestsOK, NEW r \in Request, OnlyChanges(r),
           Outcome(r) \in {"unsent", "open"}, Outcome(r)' = "refused",
           Ended(req'[r]), atomic!Refusable(r), UNCHANGED <<db.campaigns, db.rewards>>
    PROVE  AtomicStep
<1>1. atomic!IsRefused(r)
  BY MappedStep, EndsStep, SameRowsFacts DEF atomic!IsRefused
<1> QED
  BY <1>1 DEF AtomicStep, atomic!Next

LEMMA FailedStep ==
    ASSUME RequestsOK, NEW r \in Request, OnlyChanges(r),
           Outcome(r) \in {"unsent", "open"}, Outcome(r)' = "error",
           Ended(req'[r]), UNCHANGED <<db.campaigns, db.rewards>>
    PROVE  AtomicStep
<1>1. /\ [s \in Request |-> Missed(s)]'
             = [s \in Request |-> IF s \in {r} THEN {} ELSE Missed(s)]
      /\ [s \in Request |-> Outcome(s)]'
             = [s \in Request |-> IF s \in {r} THEN "error" ELSE Outcome(s)]
  <2>1. TooLate(req'[r], db') = {}
    BY DEF TooLate, Ended
  <2> QED
    BY <2>1, MappedStep, SameRowsFacts
<1>2. [s \in Request |-> req[s].op]' = [s \in Request |-> req[s].op]
  BY MappedStep, SameRowsFacts
<1>3. atomic!Fail({r})
  BY <1>1, <1>2 DEF atomic!Fail, atomic!Pending
<1>4. {r} \in SUBSET Request
  OBVIOUS
<1> QED
  BY <1>3, <1>4 DEF AtomicStep, atomic!Next

LEMMA OpenFacts ==
    ASSUME RequestsOK, NEW r \in Request, InFlight(r), ~At(r, "rollback")
    PROVE  Open(req[r]) /\ Outcome(r) = "open" /\ req[r].op.valid
<1>1. Open(req[r]) /\ req[r].op.valid
  BY DEF RequestsOK, RequestOK, InFlight, At, Open
<1> QED
  BY <1>1, OutcomeFacts

\* The rows that COMMIT makes visible are reordered in one step: all on the list
\* but those that came too late
LEMMA ReordersAtOnce ==
    ASSUME RequestsOK, db \in store!Database, FoundOK, NEW r \in Request, At(r, "commit"),
           db' = Reordered(r)
    PROVE  atomic!Reorders(r)
<1> DEFINE order == req[r].op.order
           rows == req[r].rows
           new(id) == IF id \in rows
                      THEN [db.campaigns[id] EXCEPT !.order = store!PlaceOf(order, id) - 1]
                      ELSE db.campaigns[id]
<1>0. /\ order \in Seq(CampaignId) /\ req[r].op.kind = "reorder"
      /\ req[r].updated = Len(order) /\ rows \subseteq {order[i] : i \in 1..Len(order)}
      /\ \A id \in rows : store!HasRow(db, id)
  BY OpTypes DEF RequestsOK, RequestOK, At, Transacting, FoundOK, FoundRows
<1>1. db' = [db EXCEPT !.campaigns = [id \in CampaignId |-> new(id)]]
  BY DEF Reordered, store!SetDisplayOrders
<1> HIDE DEF new
<1>2. db'.campaigns = [id \in CampaignId |-> new(id)] /\ db'.rewards = db.rewards
  BY <1>1 DEF store!Database
<1>3. db'.campaigns = [id \in CampaignId |-> db'.campaigns[id]]
  BY <1>2
<1>4. \A id \in CampaignId : db'.campaigns[id] = new(id)
  BY <1>2
<1>5. Missed(r) = {id \in {order[i] : i \in 1..Len(order)} : store!HasRow(db, id) /\ id \notin rows}
  <2>1. (Len(order) + 1)..Len(order) = {}
    BY <1>0
  <2> QED
    BY <1>0, <2>1, MissedFacts DEF TooLate, At
<1>6. ASSUME NEW id \in CampaignId
      PROVE  IF atomic!HasRow(id) /\ atomic!Places(r, id) # {} /\ id \notin Missed(r)
             THEN \E i \in atomic!Places(r, id) :
                      db'.campaigns[id] = [db.campaigns[id] EXCEPT !.order = i - 1]
             ELSE db'.campaigns[id] = db.campaigns[id]
  <2>1. /\ atomic!HasRow(id) <=> store!HasRow(db, id)
        /\ atomic!Places(r, id) = {i \in 1..Len(order) : order[i] = id}
    BY DEF atomic!HasRow, store!HasRow, atomic!Places
  <2>2. CASE id \in rows
    <3>1. store!Names(order, id) /\ store!HasRow(db, id) /\ id \notin Missed(r)
      BY <1>0, <1>5, <2>2 DEF store!Names
    <3>2. store!PlaceOf(order, id) \in 1..Len(order) /\ order[store!PlaceOf(order, id)] = id
      BY <1>0, <3>1, PlaceOfFacts
    <3>3. store!PlaceOf(order, id) \in atomic!Places(r, id)
      BY <2>1, <3>2
    <3>4. db'.campaigns[id] = [db.campaigns[id] EXCEPT !.order = store!PlaceOf(order, id) - 1]
      BY <1>4, <2>2 DEF new
    <3> QED
      BY <2>1, <3>1, <3>3, <3>4
  <2>3. CASE id \notin rows
    <3>1. ~(store!HasRow(db, id) /\ atomic!Places(r, id) # {} /\ id \notin Missed(r))
      BY <1>5, <2>1, <2>3
    <3> QED
      BY <1>4, <2>1, <2>3, <3>1 DEF new
  <2> QED
    BY <2>2, <2>3
<1>7. [s \in Request |-> Missed(s)][r] = Missed(r)
  OBVIOUS
<1> QED
  BY <1>0, <1>2, <1>3, <1>6, <1>7 DEF atomic!Reorders

\* The effects of the other routes, each on a row that allows it
LEMMA RowEffects ==
    ASSUME RequestsOK, db \in store!Database, RowsOK, FoundOK, NEW r \in Request,
           NEW u, u = req[r].op.user, NEW id, id = req[r].op.campaign
    PROVE  /\ /\ At(r, "delete") /\ store!CanSoftDelete(db, id)
              /\ db' = store!SoftDeleteCampaign(db, id)
              => atomic!Deletes(r)
           /\ /\ At(r, "restore") /\ store!CanRestore(db, id)
              /\ db' = store!RestoreCampaign(db, id)
              => atomic!Restores(r)
           /\ /\ At(r, "reward") /\ store!ReferencesExist(db, u, id)
              /\ ~store!DuplicateReward(db, u, id)
              /\ db' = store!UpsertReward(db, u, id)
              => atomic!Claims(r)
<1>0. /\ u \in UserAddress /\ id \in CampaignId /\ RequestOK(req[r])
      /\ db.campaigns \in [CampaignId -> store!CampaignRow \cup {NoRow}]
  BY OpTypes DEF RequestsOK, store!Database
<1>1. CASE /\ At(r, "delete") /\ store!CanSoftDelete(db, id)
           /\ db' = store!SoftDeleteCampaign(db, id)
  <2>1. /\ db'.campaigns = [db.campaigns EXCEPT ![id].deleted = TRUE]
        /\ db'.rewards = db.rewards
    BY <1>1 DEF store!SoftDeleteCampaign, store!Database
  <2>2. req[r].op.kind = "delete"
    BY <1>0, <1>1 DEF RequestOK, At
  <2>3. store!HasRow(db, id) /\ ~db.campaigns[id].deleted
    BY <1>1 DEF store!CanSoftDelete, store!Listed
  <2> QED
    BY <1>1, <2>1, <2>2, <2>3
    DEF atomic!Deletes, atomic!Shown, atomic!HasRow, store!HasRow, At
<1>2. CASE /\ At(r, "restore") /\ store!CanRestore(db, id)
           /\ db' = store!RestoreCampaign(db, id)
  <2>1. /\ db'.campaigns = [db.campaigns EXCEPT ![id].deleted = FALSE]
        /\ db'.rewards = db.rewards
    BY <1>2 DEF store!RestoreCampaign, store!Database
  <2>2. req[r].op.kind = "restore"
    BY <1>0, <1>2 DEF RequestOK, At
  <2>3. store!HasRow(db, id) /\ db.campaigns[id].deleted
    BY <1>0, <1>2 DEF store!CanRestore, store!Listed
  <2> QED
    BY <1>2, <2>1, <2>2, <2>3
    DEF atomic!Restores, atomic!Hidden, atomic!HasRow, store!HasRow, At
<1>3. CASE /\ At(r, "reward") /\ store!ReferencesExist(db, u, id)
           /\ ~store!DuplicateReward(db, u, id)
           /\ db' = store!UpsertReward(db, u, id)
  <2>1. /\ db'.rewards = db.rewards \cup {<<u, id>>} /\ db'.campaigns = db.campaigns
        /\ req[r].op.kind = "claim" /\ store!HasRow(db, id) /\ <<u, id>> \notin db.rewards
    BY <1>0, <1>3
    DEF store!UpsertReward, store!Database, RequestOK, At, store!ReferencesExist,
        store!DuplicateReward
  <2> QED
    BY <1>3, <2>1 DEF atomic!Claims, atomic!Pair, atomic!HasRow, store!HasRow, At
<1> QED
  BY <1>1, <1>2, <1>3

\* What is lost with an answer is the whole effect of the request, or nothing
\* that a client can see
LEMMA LostEffectMaps ==
    ASSUME RequestsOK, db \in store!Database, RowsOK, FoundOK, NEW r \in Request, LostEffect(r)
    PROVE  \/ atomic!Reorders(r) \/ atomic!Deletes(r) \/ atomic!Restores(r) \/ atomic!Claims(r)
           \/ UNCHANGED <<db.campaigns, db.rewards>>
<1> DEFINE u == req[r].op.user
           id == req[r].op.campaign
<1>1. CASE At(r, "commit") /\ db' = Reordered(r)
  BY <1>1, ReordersAtOnce
<1>2. CASE \/ /\ At(r, "delete") /\ store!CanSoftDelete(db, id)
              /\ db' = store!SoftDeleteCampaign(db, id)
           \/ /\ At(r, "restore") /\ store!CanRestore(db, id)
              /\ db' = store!RestoreCampaign(db, id)
  BY <1>2, RowEffects
<1>3. CASE db' = store!InsertUser(db, u)
  BY <1>3 DEF store!InsertUser, store!Database
<1>4. CASE /\ At(r, "reward") /\ store!ReferencesExist(db, u, id)
           /\ db' = store!UpsertReward(db, u, id)
  <2>1. CASE store!DuplicateReward(db, u, id)
    BY <1>4, <2>1 DEF store!UpsertReward, store!Database, store!DuplicateReward
  <2>2. CASE ~store!DuplicateReward(db, u, id)
    BY <1>4, <2>2, RowEffects
  <2> QED
    BY <2>1, <2>2
<1> QED
  BY <1>1, <1>2, <1>3, <1>4 DEF LostEffect

\* BEGIN and the UPDATEs make no row come too late: the row of an UPDATE is found,
\* or is not there
LEMMA BeginMissesNone ==
    ASSUME RequestsOK, NEW r \in Request, Begin(r)
    PROVE  TooLate(req'[r], db) = TooLate(req[r], db)
<1>1. req'[r].updated = 0 /\ req[r].pc = "begin"
  BY DEF Begin, GoTo, At, RequestsOK, RequestOK, RequestState
<1>2. {req'[r].op.order[i] : i \in 1..req'[r].updated} = {}
  BY <1>1
<1> QED
  BY <1>1, <1>2 DEF TooLate

LEMMA UpdateMissesNone ==
    ASSUME RequestsOK, NEW r \in Request, UpdateOrder(r)
    PROVE  TooLate(req'[r], db) = TooLate(req[r], db)
<1> DEFINE n == req[r].updated
           order == req[r].op.order
           rows == req[r].rows
           next == order[n + 1]
           found == IF store!HasRow(db, next) THEN {next} ELSE {}
<1>1. /\ n \in Nat /\ Len(order) \in Nat /\ n < Len(order) /\ req[r].pc = "update"
      /\ req[r] \in RequestState
  BY OpTypes DEF UpdateOrder, At, RequestsOK, RequestOK, RequestState
<1>2. /\ req'[r].updated = n + 1 /\ req'[r].rows = rows \cup found /\ req'[r].op.order = order
      /\ req'[r].pc \in {"update", "commit"}
  BY <1>1 DEF UpdateOrder, Found, NextRow, RequestsOK, RequestState
<1> DEFINE late(id) == store!HasRow(db, id) /\ id \notin rows
           before == {id \in {order[i] : i \in 1..n} :
                         late(id) /\ \A i \in (n + 1)..Len(order) : order[i] # id}
           after == {id \in {order[i] : i \in 1..(n + 1)} :
                         /\ store!HasRow(db, id) /\ id \notin rows \cup found
                         /\ \A i \in (n + 1 + 1)..Len(order) : order[i] # id}
<1>3. TooLate(req[r], db) = before /\ TooLate(req'[r], db) = after
  BY <1>1, <1>2 DEF TooLate
<1>4. /\ \A i : i \in 1..(n + 1) <=> i \in 1..n \/ i = n + 1
      /\ \A i : i \in (n + 1)..Len(order) <=> i \in (n + 1 + 1)..Len(order) \/ i = n + 1
  BY <1>1
<1> HIDE DEF n, order, rows
<1>5. ASSUME NEW id PROVE id \in before <=> id \in after
  <2>1. CASE id = next
    BY <1>4, <2>1
  <2>2. CASE id # next
    BY <1>4, <2>2
  <2> QED
    BY <2>1, <2>2
<1> QED
  BY <1>3, <1>5

LEMMA TransactionMaps ==
    ASSUME RequestsOK, db \in store!Database, RowsOK, FoundOK, NEW r \in Request,
           Begin(r) \/ UpdateOrder(r) \/ AbortedByDeadlock(r) \/ Commit(r) \/ Rollback(r)
    PROVE  AtomicStep
<1>0. /\ OnlyChanges(r) /\ req[r] \in RequestState /\ RequestOK(req[r]) /\ RequestsOK'
      /\ SameRows(db, db')
  BY TransactionSteps, OneRequest DEF HandlerEffect, RequestsOK
<1>1. CASE Begin(r) \/ UpdateOrder(r)
  <2>1. Outcome(r) = "open" /\ req[r].op.valid /\ req[r].answer = 0
    BY <1>1, OpenFacts DEF Begin, UpdateOrder, At, InFlight, Open
  <2>2. req'[r].pc \in {"update", "commit"} /\ req'[r].answer = 0
    BY <1>0, <1>1, <2>1 DEF Begin, UpdateOrder, GoTo, At, RequestsOK, RequestState
  <2>3. TooLate(req'[r], db) = TooLate(req[r], db)
    BY <1>0, <1>1, UpdateMissesNone, BeginMissesNone
  <2> QED
    BY <1>0, <1>1, <2>1, <2>2, <2>3, NewOutcomeFacts, StutterStep DEF Begin, UpdateOrder, Open
<1>2. CASE AbortedByDeadlock(r)
  <2>1. Outcome(r) = "open" /\ req[r].op.valid
    BY <1>2, OpenFacts DEF AbortedByDeadlock, At, InFlight
  <2>2. req'[r].pc = "rollback" /\ req'[r].answer = 0
    BY <1>2, <2>1, GoToFacts DEF AbortedByDeadlock, At
  <2> QED
    BY <1>0, <1>2, <2>1, <2>2, NewOutcomeFacts, FailedStep DEF AbortedByDeadlock, Ended
<1>3. CASE Commit(r)
  <2>1. Outcome(r) = "open" /\ req[r].op.valid
    BY <1>3, OpenFacts DEF Commit, At, InFlight
  <2>2. req'[r].answer = 200 /\ Ended(req'[r])
    BY <1>3, AnswerFacts DEF Commit, Status, Ended
  <2>3. atomic!Reorders(r)
    BY <1>3, ReordersAtOnce DEF Commit
  <2> QED
    BY <1>0, <2>1, <2>2, <2>3, NewOutcomeFacts, EffectStep
<1>4. CASE Rollback(r)
  <2>1. Outcome(r) = "error"
    BY <1>0, <1>4, OutcomeFacts DEF Rollback, At, RequestOK
  <2>2. req'[r].answer = 500 /\ Ended(req'[r])
    BY <1>4, AnswerFacts DEF Rollback, Status, Ended
  <2>3. TooLate(req'[r], db) = TooLate(req[r], db)
    BY <1>4, <2>2 DEF TooLate, Ended, Rollback, At
  <2> QED
    BY <1>0, <1>4, <2>1, <2>2, <2>3, NewOutcomeFacts, StutterStep DEF Rollback
<1> QED
  BY <1>1, <1>2, <1>3, <1>4

\* A read answers, fails, or waits on
LEMMA ReadingMaps ==
    ASSUME RequestsOK, db \in store!Database, RowsOK, FoundOK, NEW r \in Request,
           \/ ListRows(r) \/ ListCount(r) \/ GetCampaign(r) \/ ListRewards(r)
           \/ AnalyticsAnswer(r)
    PROVE  AtomicStep
<1>0. /\ OnlyChanges(r) /\ req[r] \in RequestState /\ RequestOK(req[r]) /\ RequestsOK'
      /\ UNCHANGED db /\ SameRows(db, db')
  BY ReadingSteps, OneRequest
  DEF HandlerEffect, RequestsOK, ListRows, ListCount, GetCampaign, ListRewards, AnalyticsAnswer
<1>1. /\ Outcome(r) = "open" /\ req[r].op.valid /\ req[r].answer = 0
      /\ req[r].pc \in {"rows", "count", "get", "rewards", "analytics"}
  <2>1. req[r].pc \in {"rows", "count", "get", "rewards", "analytics"}
    BY DEF ListRows, ListCount, GetCampaign, ListRewards, AnalyticsAnswer, At
  <2> QED
    BY <2>1, OpenFacts DEF InFlight, At, Open
<1>2. atomic!Reads(r)
  <2>1. req[r].op.kind \notin {"reorder", "delete", "restore", "claim"}
    BY <1>0, <1>1 DEF RequestOK
  <2> QED
    BY <1>0, <2>1 DEF atomic!Reads, atomic!Changing
<1>3. CASE \E status \in {200, 500} : Answer(r, status)
  <2>1. PICK status \in {200, 500} : Answer(r, status)
    BY <1>3
  <2>2. req'[r].answer \in {200, 500} /\ Ended(req'[r])
    BY <2>1, AnswerFacts DEF Status, Ended
  <2>3. Outcome(r)' \in {"success", "error"}
    BY <1>0, <2>2, NewOutcomeFacts
  <2> QED
    BY <1>0, <1>1, <1>2, <2>2, <2>3, EffectStep
<1>4. CASE \/ GoTo(r, "count")
           \/ \E query \in req[r].waits : req' = [req EXCEPT ![r].waits = @ \ {query}]
  <2>1. req'[r].answer = 0 /\ req'[r].pc \in {"count", req[r].pc}
    BY <1>0, <1>1, <1>4 DEF GoTo, RequestsOK, RequestState
  <2>2. TooLate(req'[r], db) = TooLate(req[r], db)
    BY <1>1, <2>1 DEF TooLate
  <2> QED
    BY <1>0, <1>1, <2>1, <2>2, NewOutcomeFacts, StutterStep DEF Open
<1> QED
  BY <1>3, <1>4 DEF ListRows, ListCount, GetCampaign, ListRewards, AnalyticsAnswer

LEMMA ChangingMaps ==
    ASSUME RequestsOK, db \in store!Database, RowsOK, FoundOK, NEW r \in Request,
           SoftDelete(r) \/ Restore(r) \/ EnsureUser(r) \/ InsertReward(r)
    PROVE  AtomicStep
<1> DEFINE u == req[r].op.user
           id == req[r].op.campaign
<1>0. /\ OnlyChanges(r) /\ req[r] \in RequestState /\ RequestOK(req[r]) /\ RequestsOK'
      /\ u \in UserAddress /\ id \in CampaignId /\ SameRows(db, db')
      /\ db.campaigns \in [CampaignId -> store!CampaignRow \cup {NoRow}]
  BY ChangingSteps, OneRequest, OpTypes DEF HandlerEffect, RequestsOK, store!Database
<1>1. /\ Outcome(r) = "open" /\ req[r].op.valid /\ req[r].answer = 0
      /\ req[r].pc \in {"delete", "restore", "user", "reward"}
  <2>1. req[r].pc \in {"delete", "restore", "user", "reward"}
    BY DEF SoftDelete, Restore, EnsureUser, InsertReward, At
  <2> QED
    BY <2>1, OpenFacts DEF InFlight, At, Open
<1>2. ASSUME NEW status \in Status, Answer(r, status)
      PROVE  /\ status \in {200, 201} => Outcome(r)' = "success"
             /\ status \in {404, 409} => Outcome(r)' = "refused"
             /\ status = 500 => Outcome(r)' = "error"
             /\ Ended(req'[r])
  BY <1>0, <1>2, AnswerFacts, NewOutcomeFacts DEF Ended
<1>3. CASE SoftDelete(r)
  <2>1. CASE store!CanSoftDelete(db, id) /\ db' = store!SoftDeleteCampaign(db, id) /\ Answer(r, 200)
    <3>1. atomic!Deletes(r)
      BY <1>3, <2>1, RowEffects DEF SoftDelete
    <3> QED
      BY <1>0, <1>1, <1>2, <2>1, <3>1, EffectStep DEF Status
  <2>2. CASE ~store!CanSoftDelete(db, id) /\ Answer(r, 404) /\ UNCHANGED db
    <3>1. req[r].op.kind = "delete" /\ ~(store!HasRow(db, id) /\ ~db.campaigns[id].deleted)
      BY <1>0, <1>3, <2>2 DEF SoftDelete, At, RequestOK, store!CanSoftDelete, store!Listed
    <3>2. atomic!Refusable(r)
      BY <3>1 DEF atomic!Refusable, atomic!Shown, atomic!HasRow, store!HasRow
    <3> QED
      BY <1>0, <1>1, <1>2, <2>2, <3>2, RefusedStep DEF Status
  <2> QED
    BY <1>3, <2>1, <2>2 DEF SoftDelete
<1>4. CASE Restore(r)
  <2>1. CASE store!CanRestore(db, id) /\ db' = store!RestoreCampaign(db, id) /\ Answer(r, 200)
    <3>1. atomic!Restores(r)
      BY <1>4, <2>1, RowEffects DEF Restore
    <3> QED
      BY <1>0, <1>1, <1>2, <2>1, <3>1, EffectStep DEF Status
  <2>2. CASE ~store!CanRestore(db, id) /\ Answer(r, 404) /\ UNCHANGED db
    <3>1. req[r].op.kind = "restore" /\ ~(store!HasRow(db, id) /\ db.campaigns[id].deleted)
      BY <1>0, <1>4, <2>2 DEF Restore, At, RequestOK, store!CanRestore, store!Listed
    <3>2. atomic!Refusable(r)
      BY <3>1 DEF atomic!Refusable, atomic!Hidden, atomic!HasRow, store!HasRow
    <3> QED
      BY <1>0, <1>1, <1>2, <2>2, <3>2, RefusedStep DEF Status
  <2> QED
    BY <1>4, <2>1, <2>2 DEF Restore
<1>5. CASE EnsureUser(r)
  <2>1. req'[r].pc = "reward" /\ req'[r].answer = 0
    BY <1>1, <1>5, GoToFacts DEF EnsureUser, At
  <2>2. UNCHANGED <<db.campaigns, db.rewards>>
    BY <1>5 DEF EnsureUser, store!InsertUser, store!Database
  <2>3. TooLate(req'[r], db) = TooLate(req[r], db)
    BY <1>1, <2>1 DEF TooLate
  <2> QED
    BY <1>0, <1>1, <2>1, <2>2, <2>3, NewOutcomeFacts, StutterStep DEF Open
<1>6. CASE InsertReward(r)
  <2>1. CASE /\ ~store!DuplicateReward(db, u, id) /\ store!ReferencesExist(db, u, id)
             /\ db' = store!UpsertReward(db, u, id) /\ Answer(r, 201)
    <3>1. atomic!Claims(r)
      BY <1>6, <2>1, RowEffects DEF InsertReward
    <3> QED
      BY <1>0, <1>1, <1>2, <2>1, <3>1, EffectStep DEF Status
  <2>2. CASE store!DuplicateReward(db, u, id) /\ Answer(r, 409) /\ UNCHANGED db
    <3>1. req[r].op.kind = "claim" /\ <<u, id>> \in db.rewards
      BY <1>0, <1>6, <2>2 DEF InsertReward, At, RequestOK, store!DuplicateReward
    <3>2. atomic!Refusable(r)
      BY <3>1 DEF atomic!Refusable, atomic!Pair
    <3> QED
      BY <1>0, <1>1, <1>2, <2>2, <3>2, RefusedStep DEF Status
  <2>3. CASE Answer(r, 500) /\ UNCHANGED db
    BY <1>0, <1>1, <1>2, <2>3, FailedStep DEF Status
  <2> QED
    BY <1>6, <2>1, <2>2, <2>3 DEF InsertReward
<1> QED
  BY <1>3, <1>4, <1>5, <1>6

LEMMA FailingMaps ==
    ASSUME RequestsOK, db \in store!Database, RowsOK, FoundOK, faults \in 0..MaxFaults,
           NEW r \in Request, StatementFails(r)
    PROVE  AtomicStep
<1>1. /\ OnlyChanges(r) /\ Outcome(r) = "open" /\ req[r].op.valid
      /\ RequestsOK' /\ SameRows(db, db')
  BY FailingStep, OneRequest, OpenFacts DEF HandlerEffect, StatementFails
<1>2. Outcome(r)' = "error" /\ Ended(req'[r])
  <2>1. CASE req[r].pc \in {"update", "commit"}
    <3>1. req'[r].pc = "rollback" /\ req'[r].answer = 0
      BY <1>1, <2>1, GoToFacts DEF StatementFails, At
    <3> QED
      BY <1>1, <3>1, NewOutcomeFacts DEF Ended
  <2>2. CASE req[r].pc \notin {"update", "commit"}
    <3>1. req'[r].answer = 500 /\ req'[r].pc = "done"
      BY <2>2, AnswerFacts DEF StatementFails, Status
    <3> QED
      BY <1>1, <3>1, NewOutcomeFacts DEF Ended
  <2> QED
    BY <2>1, <2>2
<1>3. CASE UNCHANGED <<db.campaigns, db.rewards>>
  BY <1>1, <1>2, <1>3, FailedStep
<1>4. CASE LostEffect(r) /\ ~UNCHANGED <<db.campaigns, db.rewards>>
  BY <1>1, <1>2, <1>4, LostEffectMaps, EffectStep
<1> QED
  BY <1>3, <1>4 DEF StatementFails

LEMMA DatabaseMaps ==
    ASSUME RequestsOK, db \in store!Database, RowsOK, FoundOK, faults \in 0..MaxFaults,
           NEW r \in Request, DatabaseStep(r)
    PROVE  AtomicStep
<1>1. CASE Begin(r) \/ UpdateOrder(r) \/ AbortedByDeadlock(r) \/ Commit(r) \/ Rollback(r)
  BY <1>1, TransactionMaps
<1>2. CASE \/ ListRows(r) \/ ListCount(r) \/ GetCampaign(r) \/ ListRewards(r)
           \/ AnalyticsAnswer(r)
  BY <1>2, ReadingMaps
<1>3. CASE SoftDelete(r) \/ Restore(r) \/ EnsureUser(r) \/ InsertReward(r)
  BY <1>3, ChangingMaps
<1>4. CASE StatementFails(r)
  BY <1>4, FailingMaps
<1> QED
  BY <1>1, <1>2, <1>3, <1>4 DEF DatabaseStep

\* A request is taken in without effect, refused, or answered at once
LEMMA ReceivingMaps ==
    ASSUME RequestsOK, db \in store!Database, RowsOK, FoundOK, NEW r \in Request,
           Receive(r) \/ ReceiveChallenge(r) \/ ReceiveVerify(r)
    PROVE  AtomicStep
<1>0. /\ OnlyChanges(r) /\ req[r] \in RequestState /\ UNCHANGED <<db.campaigns, db.rewards>>
      /\ Outcome(r) = "unsent" /\ At(r, "unsent") /\ req[r].answer = 0
      /\ RequestsOK' /\ SameRows(db, db') /\ UNCHANGED db
  <2>1. At(r, "unsent") /\ UNCHANGED db
    BY DEF Receive, ReceiveChallenge, ReceiveVerify
  <2>2. req[r] \in RequestState /\ req[r].answer = 0
    BY <2>1 DEF RequestsOK, RequestOK, At
  <2> QED
    BY <2>1, <2>2, ReceivingSteps, OneRequest, OutcomeFacts DEF HandlerEffect
<1>1. ASSUME NEW status \in {400, 401}, Answer(r, status), atomic!Refusable(r)
      PROVE  AtomicStep
  <2>1. req'[r].answer = status /\ Ended(req'[r])
    BY <1>1, AnswerFacts DEF Status, Ended
  <2> QED
    BY <1>0, <1>1, <2>1, NewOutcomeFacts, RefusedStep
<1>2. CASE Receive(r)
  <2>1. CASE Dispatch(r) /\ req[r].op.valid
    <3>1. FirstStep(req[r].op.kind) \notin {"unsent", "update", "commit", "rollback", "dropped"}
      <4>1. req[r].op.kind \notin {"unsent", "update", "commit", "rollback", "dropped"}
        BY <1>0 DEF RequestState, Operation
      <4> QED
        BY <4>1 DEF FirstStep
    <3>2. req'[r].pc = FirstStep(req[r].op.kind) /\ req'[r].answer = 0
      BY <1>0, <2>1 DEF Dispatch, RequestsOK, RequestState
    <3> QED
      BY <1>0, <3>1, <3>2, SentStep DEF Open, Ended
  <2>2. CASE Dispatch(r) /\ ~req[r].op.valid
    <3>1. PICK status \in {400, 500} : Answer(r, status)
      BY <2>2 DEF Dispatch, Refusal
    <3>2. req'[r].answer = status /\ Ended(req'[r])
      BY <3>1, AnswerFacts DEF Status, Ended
    <3>3. CASE status = 400
      BY <1>1, <2>2, <3>1, <3>3 DEF atomic!Refusable
    <3>4. CASE status = 500
      BY <1>0, <3>2, <3>4, NewOutcomeFacts, FailedStep
    <3> QED
      BY <3>3, <3>4
  <2>3. CASE req[r].op.merchant /\ Answer(r, 401)
    BY <1>1, <2>3 DEF atomic!Refusable
  <2> QED
    BY <1>2, <2>1, <2>2, <2>3 DEF Receive
<1>3. CASE ReceiveChallenge(r) \/ ReceiveVerify(r)
  <2>1. req[r].op.kind \in {"challenge", "verify"}
    BY <1>3 DEF ReceiveChallenge, ReceiveVerify
  <2>2. CASE Answer(r, 200) /\ req[r].op.valid
    <3>1. req'[r].answer = 200 /\ Ended(req'[r])
      BY <2>2, AnswerFacts DEF Status, Ended
    <3>2. atomic!Reads(r)
      BY <1>0, <2>1 DEF atomic!Reads, atomic!Changing
    <3> QED
      BY <1>0, <2>2, <3>1, <3>2, NewOutcomeFacts, EffectStep
  <2>3. CASE Answer(r, 400) /\ ~req[r].op.valid
    BY <1>1, <2>3 DEF atomic!Refusable
  <2>4. CASE Answer(r, 401) /\ req[r].op.kind = "verify"
    BY <1>1, <2>4 DEF atomic!Refusable
  <2> QED
    BY <1>3, <2>2, <2>3, <2>4 DEF ReceiveChallenge, ReceiveVerify
<1> QED
  BY <1>2, <1>3

LEMMA HealthMaps ==
    ASSUME RequestsOK, db \in store!Database, RowsOK, FoundOK, NEW r \in Request, NEW c \in Checks,
           CheckAnswers(r, c) \/ CheckTimesOut(r, c)
    PROVE  AtomicStep
<1>0. /\ At(r, "health") /\ UNCHANGED <<db.campaigns, db.rewards>>
      /\ req[r].failed \in SUBSET Checks
  BY DEF CheckAnswers, CheckTimesOut, RequestsOK, RequestState
<1>1. PICK failed \in SUBSET Checks : CheckEnds(r, c, failed)
  BY <1>0 DEF CheckAnswers, CheckTimesOut
<1>2. /\ OnlyChanges(r)
      /\ \/ req'[r].pc = "health" /\ req'[r].answer = 0
         \/ req'[r].pc = "done" /\ req'[r].answer \in {200, 503}
      /\ RequestsOK' /\ SameRows(db, db')
  BY <1>0, <1>1, CheckFacts, OneRequest, SameRowsFacts
<1>3. Outcome(r) = "open" /\ req[r].op.valid
  BY <1>0, OpenFacts DEF At, InFlight
<1>4. atomic!Reads(r)
  <2>1. req[r].op.kind = "health"
    BY <1>0 DEF RequestsOK, RequestOK, At
  <2> QED
    BY <1>0, <2>1 DEF atomic!Reads, atomic!Changing
<1>5. Outcome(r)' \in {"open", "success", "error"}
  BY <1>2, NewOutcomeFacts DEF Open
<1>6. Ended(req'[r]) /\ TooLate(req'[r], db) = TooLate(req[r], db)
  BY <1>0, <1>2 DEF Ended, TooLate, At
<1> QED
  BY <1>0, <1>2, <1>3, <1>4, <1>5, <1>6, StutterStep, EffectStep

\* A row that is inserted comes too late for the transactions that have no UPDATE
\* of it left
LEMMA InsertedTooLate ==
    ASSUME RequestsOK, NEW r \in Request, NEW id \in CampaignId, ~store!HasRow(db, id),
           \A i \in CampaignId : store!HasRow(db', i) <=> store!HasRow(db, i) \/ i = id
    PROVE  \/ TooLate(req[r], db') = TooLate(req[r], db)
           \/ /\ TooLate(req[r], db') = TooLate(req[r], db) \cup {id}
              /\ Outcome(r) = "open" /\ \E i \in 1..Len(req[r].op.order) : req[r].op.order[i] = id
<1> DEFINE order == req[r].op.order
           n == req[r].updated
           may(i) == i \notin req[r].rows /\ \A k \in (n + 1)..Len(order) : order[k] # i
<1>1. CASE req[r].pc \notin {"update", "commit"}
  BY <1>1 DEF TooLate
<1>2. CASE req[r].pc \in {"update", "commit"}
  <2>1. n \in Nat /\ Len(order) \in Nat /\ n <= Len(order) /\ order \in Seq(CampaignId)
    BY <1>2, OpTypes DEF RequestsOK, RequestOK, RequestState
  <2>2. 1..n \subseteq 1..Len(order) /\ \A i \in 1..n : order[i] \in CampaignId
    BY <2>1
  <2>3. Outcome(r) = "open"
    BY <1>2, OpenFacts DEF InFlight, At
  <2> DEFINE named == {order[i] : i \in 1..n}
  <2>4. /\ TooLate(req[r], db) = {i \in named : store!HasRow(db, i) /\ may(i)}
        /\ TooLate(req[r], db') = {i \in named : store!HasRow(db', i) /\ may(i)}
    BY <1>2 DEF TooLate
  <2>5. named \subseteq CampaignId
    BY <2>2
  <2>6. id \in named => \E i \in 1..Len(order) : order[i] = id
    BY <2>2
  <2> HIDE DEF named, may
  <2> QED
    BY <2>3, <2>4, <2>5, <2>6
<1> QED
  BY <1>1, <1>2

LEMMA IndexerMaps ==
    ASSUME Inv, IndexerWrites
    PROVE  AtomicStep
<1>0. /\ db \in store!Database /\ RequestsOK
      /\ scenario.upserts \subseteq CampaignId \X BOOLEAN
      /\ scenario.claims \subseteq UserAddress \X CampaignId
  BY ScenarioFacts DEF Inv, TypeOK, ApiTypeOK
<1>1. /\ [s \in Request |-> req[s].op]' = [s \in Request |-> req[s].op]
      /\ [s \in Request |-> Outcome(s)]' = [s \in Request |-> Outcome(s)]
      /\ UNCHANGED req
  <2>1. UNCHANGED req
    BY DEF IndexerWrites, IndexerAnswered, IndexerUpsertsCampaign, IndexerInsertsUser,
           IndexerUpsertsReward, QueryEnds
  <2> QED
    BY <2>1 DEF Outcome
<1>2. ASSUME SameRows(db, db')
      PROVE  [s \in Request |-> Missed(s)]' = [s \in Request |-> Missed(s)]
  <2>1. \A s \in Request : TooLate(req'[s], db') = TooLate(req[s], db)
    BY <1>0, <1>1, <1>2, SameTooLate
  <2> QED
    BY <2>1, MissedFacts
<1>3. CASE \E e \in scenario.upserts : IndexerUpsertsCampaign(e[1], e[2])
  <2>1. PICK e \in scenario.upserts : IndexerUpsertsCampaign(e[1], e[2])
    BY <1>3
  <2> DEFINE id == e[1]
             active == e[2]
  <2>2. id \in CampaignId /\ active \in BOOLEAN /\ db' = store!UpsertCampaign(db, id, active)
    BY <1>0, <2>1 DEF IndexerUpsertsCampaign
  <2> HIDE DEF id, active
  <2>3. CASE store!HasRow(db, id)
    <3>1. /\ db'.campaigns = [db.campaigns EXCEPT ![id].active = active]
          /\ db'.rewards = db.rewards
      BY <1>0, <2>2, <2>3 DEF store!UpsertCampaign, store!Database
    <3>2. SameRows(db, db')
      <4>1. db' \in {store!SoftDeleteCampaign(db, id), store!RestoreCampaign(db, id),
                     store!UpsertCampaign(db, id, active)}
        BY <2>2
      <4> QED
        BY <1>0, <2>2, <2>3, <4>1, RowOps
    <3>3. atomic!EventSetsActive(id, active)
      BY <1>1, <1>2, <2>3, <3>1, <3>2 DEF atomic!EventSetsActive, atomic!HasRow, store!HasRow
    <3> QED
      BY <2>2, <3>3 DEF AtomicStep, atomic!Next
  <2>4. CASE ~store!HasRow(db, id)
    <3>1. /\ \A i \in CampaignId : store!HasRow(db', i) <=> store!HasRow(db, i) \/ i = id
          /\ db'.campaigns = [db.campaigns EXCEPT ![id] =
                                [active |-> active, deleted |-> FALSE, order |-> 0]]
          /\ db'.rewards = db.rewards
      BY <1>0, <2>2, <2>4, RowAdded
    <3> DEFINE late == {r \in Request : TooLate(req[r], db') # TooLate(req[r], db)}
    <3>2. ASSUME NEW r \in late
          PROVE  /\ TooLate(req[r], db') = TooLate(req[r], db) \cup {id}
                 /\ Outcome(r) = "open" /\ atomic!Places(r, id) # {}
      <4>1. /\ TooLate(req[r], db') = TooLate(req[r], db) \cup {id}
            /\ Outcome(r) = "open" /\ \E i \in 1..Len(req[r].op.order) : req[r].op.order[i] = id
        BY <1>0, <2>2, <2>4, <3>1, InsertedTooLate
      <4> QED
        BY <4>1 DEF atomic!Places
    <3>3. [s \in Request |-> Missed(s)]'
              = [s \in Request |-> IF s \in late THEN Missed(s) \cup {id} ELSE Missed(s)]
      <4>1. ASSUME NEW s \in Request
            PROVE  Missed(s)' = IF s \in late THEN Missed(s) \cup {id} ELSE Missed(s)
        BY <1>1, <3>2, MissedFacts
      <4> QED
        BY <4>1
    <3>4. late \in SUBSET {r \in Request : Outcome(r) = "open" /\ atomic!Places(r, id) # {}}
      BY <3>2
    <3> HIDE DEF late
    <3>5. atomic!EventInserts(id, active)
      <4>1. ~atomic!HasRow(id)
        BY <2>4 DEF atomic!HasRow, store!HasRow
      <4>2. /\ late \in SUBSET {r \in Request :
                   [s \in Request |-> Outcome(s)][r] = "open" /\ atomic!Places(r, id) # {}}
            /\ [s \in Request |-> Missed(s)]'
                   = [r \in Request |-> IF r \in late THEN [s \in Request |-> Missed(s)][r] \cup {id}
                                        ELSE [s \in Request |-> Missed(s)][r]]
        BY <3>3, <3>4
      <4> QED
        BY <1>1, <3>1, <4>1, <4>2 DEF atomic!EventInserts
    <3> QED
      BY <2>2, <3>5 DEF AtomicStep, atomic!Next
  <2> QED
    BY <2>3, <2>4
<1>4. CASE \E e \in scenario.claims : IndexerUpsertsReward(e[1], e[2])
  <2>1. PICK e \in scenario.claims : IndexerUpsertsReward(e[1], e[2])
    BY <1>4
  <2>2. e[1] \in UserAddress /\ e[2] \in CampaignId
    BY <1>0
  <2>3. /\ store!HasRow(db, e[2])
        /\ db'.rewards = db.rewards \cup {<<e[1], e[2]>>}
        /\ db'.campaigns = db.campaigns
    BY <1>0, <2>1
    DEF IndexerUpsertsReward, store!UpsertReward, store!Database, store!ReferencesExist
  <2>4. SameRows(db, db')
    BY <2>3 DEF SameRows, store!HasRow
  <2>5. atomic!EventRewards(e[1], e[2])
    BY <1>1, <1>2, <2>3, <2>4 DEF atomic!EventRewards, atomic!HasRow, store!HasRow
  <2> QED
    BY <2>2, <2>5 DEF AtomicStep, atomic!Next
<1>5. CASE IndexerAnswered \/ \E e \in scenario.claims : IndexerInsertsUser(e[1])
  <2>1. UNCHANGED <<db.campaigns, db.rewards>>
    BY <1>0, <1>5 DEF IndexerAnswered, IndexerInsertsUser, store!InsertUser, store!Database
  <2>2. UNCHANGED atomic!atomicApi
    BY <1>1, <1>2, <2>1, SameRowsFacts DEF atomic!atomicApi
  <2> QED
    BY <2>2 DEF AtomicStep
<1> QED
  BY <1>3, <1>4, <1>5 DEF IndexerWrites

\* All that a crash cuts fails at once, but for what was failing already
LEMMA CrashMaps ==
    ASSUME Inv, Crash
    PROVE  AtomicStep
<1> DEFINE failed == {r \in Request : InFlight(r) /\ ~At(r, "rollback")}
<1>0. RequestsOK /\ UNCHANGED db
  BY DEF Inv, TypeOK, ApiTypeOK, Crash
<1>5. RequestsOK'
  BY CrashKeeps DEF Inv, TypeOK, ApiTypeOK
<1>1. \A r \in failed : Outcome(r) = "open"
  BY <1>0, OpenFacts
<1>2. ASSUME NEW r \in Request
      PROVE  /\ req'[r].op = req[r].op
             /\ Outcome(r)' = IF r \in failed THEN "error" ELSE Outcome(r)
             /\ TooLate(req'[r], db') = IF r \in failed THEN {} ELSE TooLate(req[r], db)
  <2>1. CASE ~InFlight(r)
    <3>1. req'[r] = req[r]
      BY <2>1 DEF Crash
    <3> QED
      BY <1>0, <2>1, <3>1 DEF Outcome, TooLate
  <2>2. CASE InFlight(r)
    <3>1. req[r] \in RequestState /\ RequestOK(req[r]) /\ req'[r] = [req[r] EXCEPT !.pc = "dropped"]
      BY <1>0, <2>2 DEF Crash, RequestsOK
    <3>2. req'[r].pc = "dropped" /\ req'[r].answer = 0 /\ req'[r].op = req[r].op
          /\ req[r].answer = 0
      BY <2>2, <3>1 DEF RequestState, RequestOK, InFlight
    <3>3. Outcome(r)' = "error"
      BY <1>5, <3>2, NewOutcomeFacts
    <3>4. r \notin failed => Outcome(r) = "error"
      BY <1>0, <2>2, <3>2, OutcomeFacts DEF At
    <3>5. /\ TooLate(req'[r], db') = {}
          /\ r \notin failed => TooLate(req[r], db) = {}
      BY <2>2, <3>2 DEF TooLate, At
    <3> QED
      BY <3>2, <3>3, <3>4, <3>5
  <2> QED
    BY <2>1, <2>2
<1>3. failed \in SUBSET Request
  OBVIOUS
<1> HIDE DEF failed
<1>4. atomic!Fail(failed)
  <2>1. [s \in Request |-> req[s].op]' = [s \in Request |-> req[s].op]
    BY <1>2
  <2>2. [s \in Request |-> Outcome(s)]'
            = [s \in Request |-> IF s \in failed THEN "error" ELSE Outcome(s)]
    BY <1>2
  <2>3. [s \in Request |-> Missed(s)]'
            = [s \in Request |-> IF s \in failed THEN {} ELSE Missed(s)]
    BY <1>2, MissedFacts
  <2> QED
    BY <1>0, <1>1, <1>3, <2>1, <2>2, <2>3 DEF atomic!Fail, atomic!Pending
<1> QED
  BY <1>3, <1>4 DEF AtomicStep, atomic!Next

\* Start, shutdown, restart and time are not seen
LEMMA LifeMaps ==
    ASSUME \/ ValidateEnv \/ Listen \/ Signal \/ ServerClosed \/ PoolEnds \/ Restart \/ Tick
           \/ IndexerQueries \/ UNCHANGED vars \/ \E r \in Request : LateAnswer(r)
    PROVE  AtomicStep
<1>1. UNCHANGED <<db, req>>
  BY DEF IndexerQueries, LateAnswer, ValidateEnv, Listen, Signal, ServerClosed, PoolEnds, Restart, Tick, vars, api
<1>2. UNCHANGED atomic!atomicApi
  BY <1>1 DEF atomic!atomicApi, Outcome, Missed, Touched
<1> QED
  BY <1>2 DEF AtomicStep

LEMMA NextMaps == Inv /\ [Next]_vars => AtomicStep
<1> SUFFICES ASSUME Inv, [Next]_vars PROVE AtomicStep
  OBVIOUS
<1>0. /\ RequestsOK /\ db \in store!Database /\ faults \in 0..MaxFaults
      /\ RowsOK /\ FoundOK
  BY DEF Inv, TypeOK, ApiTypeOK
<1>1. CASE \/ ValidateEnv \/ Listen \/ Signal \/ ServerClosed \/ PoolEnds \/ Restart \/ Tick
           \/ IndexerQueries \/ UNCHANGED vars \/ \E r \in Request : LateAnswer(r)
  BY <1>1, LifeMaps
<1>2. CASE Crash
  BY <1>2, CrashMaps
<1>3. CASE \E r \in Request : Receive(r) \/ ReceiveChallenge(r) \/ ReceiveVerify(r)
  BY <1>0, <1>3, ReceivingMaps
<1>4. CASE \E r \in Request : Handle(r)
  BY <1>0, <1>4, DatabaseMaps DEF Handle
<1>5. CASE \E r \in Request, c \in Checks : CheckAnswers(r, c) \/ CheckTimesOut(r, c)
  BY <1>0, <1>5, HealthMaps
<1>6. CASE IndexerWrites
  BY <1>6, IndexerMaps
<1> QED
  BY <1>1, <1>2, <1>3, <1>4, <1>5, <1>6 DEF Next

\* The server implements AtomicApi (campaign.service.ts, reward.service.ts and
\* the routes): however the statements of its requests, the indexer's writes,
\* lost answers, deadlocks, shutdowns and crashes interleave, every request
\* takes effect in one step or not at all, and its answer says which; a reorder
\* may leave out only rows that the indexer inserted while it ran
THEOREM AtomicApiImplemented == Spec => RefinesAtomicApi
<1>1. Init => atomic!Init
  <2> SUFFICES ASSUME Init PROVE atomic!Init
    OBVIOUS
  <2>1. db.rewards = {}
    BY DEF Init, store!EmptyDatabase
  <2>2. \A r \in Request : At(r, "unsent") /\ req[r].answer = 0
    BY DEF Init, NewRequest, At
  <2>3. ASSUME NEW r \in Request
        PROVE  Outcome(r) = "unsent" /\ Missed(r) = {}
    BY <2>2 DEF Outcome, Missed, At
  <2>4. /\ [r \in Request |-> Outcome(r)] = [r \in Request |-> "unsent"]
        /\ [r \in Request |-> Missed(r)] = [r \in Request |-> {}]
    BY <2>3
  <2> QED
    BY <2>1, <2>4 DEF atomic!Init
<1>2. Inv /\ [Next]_vars => [atomic!Next]_(atomic!atomicApi)
  BY NextMaps DEF AtomicStep
<1> QED
  BY <1>1, <1>2, InvAlways, PTL DEF Spec, RefinesAtomicApi, atomic!Spec
=============================================================================
