----------------------------- MODULE IndexerProofs -----------------------------
(***************************************************************************)
(* For every history of the chain, any number of overlapping polls, and    *)
(* any number of faults, crashes and resets: the indexer leaves no gap     *)
(* behind its cursor, records nothing before its effects are stored, and   *)
(* implements EventIngestion.  If no polls overlap, the rows of campaigns  *)
(* also end up right after every crash, reset and replay.                  *)
(*                                                                         *)
(* The argument: tables only grow (Grows), so what a poll has settled      *)
(* stays settled whatever other polls do; each poll therefore carries its  *)
(* own proof (PollOK) that the cursor it will save passes settled events   *)
(* only, however late it saves it.                                         *)
(***************************************************************************)
EXTENDS Indexer, TLAPS

-----------------------------------------------------------------------------
(* Facts about the program of an event *)

Statement == {"campaign", "user", "reward", "transaction"}

\* The events the RPC serves are events, and their programs are short and end
\* in the row of transactions.
LEMMA ProgramShape ==
  ASSUME TypeOK, NEW i \in 1..tip
  PROVE  /\ i \in 1..Len(log) /\ i \in Nat
         /\ log[i] \in Event
         /\ Steps(i) \in Seq(Statement)
         /\ Len(Steps(i)) \in 0..3
         /\ Steps(i) = <<>> <=> Len(Steps(i)) = 0
         /\ \A s \in 1..Len(Steps(i)) :
                Steps(i)[s] = "transaction" <=> s = Len(Steps(i))
<1>1. log \in Seq(Event) /\ tip \in 0..Len(log)
  BY IndexerAssumption DEF TypeOK
<1>2. i \in 1..Len(log) /\ log[i] \in Event /\ i \in Nat
  BY <1>1
<1>3. log[i].kind \in EventKind
  BY <1>2 DEF Event
<1>4. CASE log[i].kind \in {"CAM_CRT", "CAM_DEACT"}
  <2>1. Steps(i) = <<"campaign", "transaction">>
    BY <1>4 DEF Steps, Program
  <2> QED
    BY <1>2, <2>1 DEF Statement
<1>5. CASE log[i].kind = "RWD_CLM"
  <2>1. Steps(i) = <<"user", "reward", "transaction">>
    BY <1>5 DEF Steps, Program
  <2> QED
    BY <1>2, <2>1 DEF Statement
<1>6. CASE log[i].kind = "RWD_RDM"
  <2>1. Steps(i) = <<"transaction">>
    BY <1>6 DEF Steps, Program
  <2> QED
    BY <1>2, <2>1 DEF Statement
<1>7. CASE log[i].kind = "UNHANDLED"
  <2>1. Steps(i) = <<>>
    BY <1>7 DEF Steps, Program
  <2> QED
    BY <1>2, <2>1 DEF Statement
<1> QED
  BY <1>3, <1>4, <1>5, <1>6, <1>7 DEF EventKind

\* The effect a statement leaves in the tables
Done(d, i, s) ==
    /\ Steps(i)[s] = "campaign" => store!HasRow(d, log[i].campaign)
    /\ Steps(i)[s] = "user" => log[i].user \in d.users
    /\ Steps(i)[s] = "reward" =>
           /\ <<log[i].user, log[i].campaign>> \in d.rewards
           /\ store!ReferencesExist(d, log[i].user, log[i].campaign)

\* Rows are added, never removed
Grows(d, e) ==
    /\ d.users \subseteq e.users
    /\ \A id \in CampaignId : store!HasRow(d, id) => store!HasRow(e, id)
    /\ d.rewards \subseteq e.rewards
    /\ d.transactions \subseteq e.transactions
    /\ d.deadLetters \subseteq e.deadLetters

\* A statement of an event keeps the database well formed, adds rows only,
\* leaves its effect, and records the event if it is the last one.
LEMMA PerformFacts ==
  ASSUME TypeOK, NEW i \in 1..tip, NEW s \in 1..Len(Steps(i)), Accepted(db, i, s)
  PROVE  /\ Perform(db, i, s) \in store!Database
         /\ Grows(db, Perform(db, i, s))
         /\ Done(Perform(db, i, s), i, s)
         /\ Perform(db, i, s).deadLetters = db.deadLetters
         /\ Perform(db, i, s).transactions =
                IF s = Len(Steps(i)) THEN db.transactions \cup {i} ELSE db.transactions
<1> DEFINE e == Perform(db, i, s)
<1>1. /\ log[i].campaign \in CampaignId /\ log[i].user \in UserAddress /\ i \in Nat
      /\ Steps(i)[s] \in Statement
      /\ Steps(i)[s] = "transaction" <=> s = Len(Steps(i))
  BY ProgramShape DEF Event
<1>2. db \in store!Database
  BY DEF TypeOK
<1>3. CASE Steps(i)[s] = "campaign"
  <2> DEFINE id == log[i].campaign
             active == log[i].kind = "CAM_CRT"
             row == IF store!HasRow(db, id)
                    THEN [db.campaigns[id] EXCEPT !.active = active]
                    ELSE [active |-> active, deleted |-> FALSE, order |-> 0]
  <2>1. e = [db EXCEPT !.campaigns[id] = row]
    BY <1>1, <1>2, <1>3 DEF Perform, store!UpsertCampaign, store!Database
  <2>2. row \in store!CampaignRow
    BY <1>1, <1>2 DEF store!Database, store!CampaignRow, store!HasRow
  <2>3. row # NoRow
    BY <2>2, IndexerAssumption
  <2> HIDE DEF row
  <2>4. /\ e.campaigns = [db.campaigns EXCEPT ![id] = row]
        /\ e.users = db.users /\ e.rewards = db.rewards
        /\ e.transactions = db.transactions /\ e.deadLetters = db.deadLetters
        /\ e \in store!Database
    BY <1>1, <1>2, <2>1, <2>2 DEF store!Database
  <2>5. \A c \in CampaignId : store!HasRow(db, c) => store!HasRow(e, c)
    BY <1>1, <1>2, <2>3, <2>4 DEF store!HasRow, store!Database
  <2>6. store!HasRow(e, id)
    BY <1>1, <1>2, <2>3, <2>4 DEF store!HasRow, store!Database
  <2> QED
    BY <1>1, <1>3, <2>4, <2>5, <2>6 DEF Grows, Done
<1>4. CASE Steps(i)[s] = "user"
  <2>1. e = [db EXCEPT !.users = @ \cup {log[i].user}]
    BY <1>4 DEF Perform, store!InsertUser
  <2> QED
    BY <1>1, <1>2, <1>4, <2>1 DEF store!Database, Grows, Done, store!HasRow
<1>5. CASE Steps(i)[s] = "reward"
  <2>1. e = [db EXCEPT !.rewards = @ \cup {<<log[i].user, log[i].campaign>>}]
    BY <1>5 DEF Perform, store!UpsertReward
  <2>2. store!ReferencesExist(db, log[i].user, log[i].campaign)
    BY <1>5 DEF Accepted
  <2> QED
    BY <1>1, <1>2, <1>5, <2>1, <2>2
       DEF store!Database, Grows, Done, store!HasRow, store!ReferencesExist
<1>6. CASE Steps(i)[s] = "transaction"
  <2>1. e = [db EXCEPT !.transactions = @ \cup {i}]
    BY <1>6 DEF Perform, store!RecordTransaction
  <2> QED
    BY <1>1, <1>2, <1>6, <2>1 DEF store!Database, Grows, Done, store!HasRow
<1> QED
  BY <1>1, <1>3, <1>4, <1>5, <1>6 DEF Statement

-----------------------------------------------------------------------------
(* The inductive invariant *)

\* What a poll in flight knows: its batch was served, everything below the
\* event it applies is settled, and so are that event's earlier statements
PollOK(p) ==
    /\ poll[p].pc \in {"fetch", "save"} =>
           /\ poll[p].to \in 0..tip
           /\ \A j \in 1..poll[p].to : Settled(j)
    /\ poll[p].pc \in {"apply", "deadletter"} =>
           /\ poll[p].next \in 1..poll[p].to
           /\ poll[p].to \in 0..tip
           /\ \A j \in 1..(poll[p].next - 1) : Settled(j)
    /\ poll[p].pc = "apply" =>
           /\ poll[p].step = 1 \/ poll[p].step <= Len(Steps(poll[p].next))
           /\ \A s \in 1..(poll[p].step - 1) : Done(db, poll[p].next, s)

\* A recorded event is one of the chain's, and all its statements are done
RecordsDone ==
    /\ db.transactions \subseteq 1..tip
    /\ \A i \in db.transactions : \A s \in 1..Len(Steps(i)) : Done(db, i, s)

IInv ==
    /\ TypeOK
    /\ \A p \in Poll : PollOK(p)
    /\ CoveredEventsLeaveATrace
    /\ RecordsDone

LEMMA InitIInv == Init => IInv
<1> SUFFICES ASSUME Init PROVE IInv
  OBVIOUS
<1>1. db \in store!Database /\ db.transactions = {}
  BY DEF Init, store!EmptyDatabase, store!Database
<1>2. IdlePoll \in PollState
  BY IndexerAssumption DEF IdlePoll, PollState
<1>3. log \in Seq(Event)
  BY IndexerAssumption DEF Init
<1>4. TypeOK
  <2>1. log \in Logs /\ tip \in 0..Len(log) /\ cursor \in 0..tip
    BY <1>3 DEF Init
  <2>2. poll \in [Poll -> PollState] /\ lost \in SUBSET Nat /\ overlapped \in BOOLEAN
    BY <1>2 DEF Init
  <2>3. faults \in 0..MaxFaults /\ crashes \in 0..MaxCrashes /\ resets \in 0..MaxResets
    BY IndexerAssumption DEF Init
  <2>4. proc \in {"down", "starting", "first", "running", "failed"}
    BY DEF Init
  <2> QED
    BY <1>1, <2>1, <2>2, <2>3, <2>4 DEF TypeOK
<1> QED
  BY <1>1, <1>4 DEF Init, IInv, PollOK, IdlePoll, CoveredEventsLeaveATrace, RecordsDone

\* What the other polls, and the past, keep of a step that only adds rows.
LEMMA Monotone ==
  ASSUME IInv, tip' \in Nat, tip <= tip', log' = log, Grows(db, db'), lost \subseteq lost'
  PROVE  /\ \A j \in 1..tip : Settled(j) => Settled(j)'
         /\ \A i \in 1..tip : \A s \in 1..Len(Steps(i)) : Done(db, i, s) => Done(db, i, s)'
         /\ \A i : Steps(i)' = Steps(i)
         /\ \A p \in Poll : poll'[p] = poll[p] => PollOK(p)'
         /\ cursor' = cursor => CoveredEventsLeaveATrace'
         /\ db'.transactions = db.transactions => RecordsDone'
<1>1. \A i : Steps(i)' = Steps(i)
  BY DEF Steps
<1>2. TypeOK /\ tip \in Nat /\ cursor \in 0..tip
  BY IndexerAssumption DEF IInv, TypeOK
<1>3. \A j \in 1..tip : Settled(j) => Settled(j)'
  BY <1>1 DEF Settled, Grows
<1>4. ASSUME NEW i \in 1..tip, NEW s \in 1..Len(Steps(i)), Done(db, i, s)
      PROVE  Done(db, i, s)'
  <2>1. log[i].campaign \in CampaignId
    BY <1>2, ProgramShape DEF Event
  <2> QED
    BY <1>1, <1>4, <2>1 DEF Done, Grows, store!ReferencesExist
<1>5. ASSUME NEW p \in Poll, poll'[p] = poll[p] PROVE PollOK(p)'
  <2>1. PollOK(p) /\ poll[p] \in PollState
    BY DEF IInv, TypeOK
  <2>2. poll[p].pc \in {"fetch", "save"} =>
            /\ poll[p].to \in 0..tip'
            /\ \A j \in 1..poll[p].to : Settled(j)'
    BY <1>2, <1>3, <2>1 DEF PollOK, PollState
  <2>3. poll[p].pc \in {"apply", "deadletter"} =>
            /\ poll[p].next \in 1..tip
            /\ poll[p].next \in 1..poll[p].to
            /\ poll[p].to \in 0..tip'
            /\ \A j \in 1..(poll[p].next - 1) : Settled(j)'
    BY <1>2, <1>3, <2>1 DEF PollOK, PollState
  <2>4. ASSUME poll[p].pc = "apply"
        PROVE  /\ poll[p].step = 1 \/ poll[p].step <= Len(Steps(poll[p].next))
               /\ \A s \in 1..(poll[p].step - 1) : Done(db, poll[p].next, s)'
    <3>1. Len(Steps(poll[p].next)) \in 0..3
      BY <1>2, <2>3, <2>4, ProgramShape
    <3>2. \A s \in 1..(poll[p].step - 1) : s \in 1..Len(Steps(poll[p].next))
      BY <2>1, <2>4, <3>1 DEF PollOK, PollState
    <3>3. \A s \in 1..(poll[p].step - 1) : Done(db, poll[p].next, s)
      BY <2>1, <2>4 DEF PollOK
    <3>4. ASSUME NEW s \in 1..(poll[p].step - 1) PROVE Done(db, poll[p].next, s)'
      BY <1>4, <1>5, <2>3, <2>4, <3>2, <3>3
    <3> QED
      BY <2>1, <2>4, <3>4 DEF PollOK
  <2> QED
    BY <1>1, <1>5, <2>2, <2>3, <2>4 DEF PollOK
<1>6. cursor' = cursor => CoveredEventsLeaveATrace'
  BY <1>2, <1>3 DEF IInv, CoveredEventsLeaveATrace
<1>7. db'.transactions = db.transactions => RecordsDone'
  BY <1>1, <1>2, <1>4 DEF IInv, RecordsDone
<1> QED
  BY <1>1, <1>3, <1>4, <1>5, <1>6, <1>7

\* A poll that is idle or asleep has nothing to answer for.
LEMMA AtRest ==
  ASSUME NEW p \in Poll, poll'[p].pc \in {"idle", "backoff"}
  PROVE  PollOK(p)'
  BY DEF PollOK

LEMMA GrowsReflexive == ASSUME db' = db PROVE Grows(db, db')
  BY DEF Grows

\* A poll that is through with a settled event goes on to the next one, or to
\* save a cursor below which everything is settled.
LEMMA NextEventOK ==
  ASSUME IInv, NEW p \in Poll, poll[p].pc \in {"apply", "deadletter"},
         NEW i, i = poll[p].next, Settled(i)',
         poll' = [poll EXCEPT ![p] = NextEvent(poll[p])],
         tip' = tip, log' = log, Grows(db, db'), lost \subseteq lost'
  PROVE  poll' \in [Poll -> PollState] /\ \A q \in Poll : PollOK(q)'
<1> DEFINE s == poll[p]
           n == NextEvent(s)
<1>1. TypeOK /\ tip \in Nat /\ s \in PollState /\ PollOK(p)
  BY IndexerAssumption DEF IInv, TypeOK
<1>2. /\ s.next \in 1..s.to /\ s.to \in 0..tip
      /\ \A j \in 1..(s.next - 1) : Settled(j)
  BY <1>1 DEF PollOK
<1>3. /\ \A j \in 1..tip : Settled(j) => Settled(j)'
      /\ \A q \in Poll : poll'[q] = poll[q] => PollOK(q)'
  BY <1>1, Monotone
<1>4. i \in Nat /\ \A j \in 1..i : Settled(j)'
  <2>1. i \in 1..tip
    BY <1>1, <1>2
  <2>2. ASSUME NEW j \in 1..i PROVE Settled(j)'
    <3>1. CASE j = i
      BY <3>1
    <3>2. CASE j # i
      <4>1. j \in 1..(i - 1) /\ j \in 1..tip
        BY <1>1, <2>1, <3>2
      <4>2. Settled(j)
        BY <1>2, <4>1
      <4> QED
        BY <1>3, <4>1, <4>2
    <3> QED
      BY <3>1, <3>2
  <2> QED
    BY <2>1, <2>2
<1>5. 1 \in 1..MaxEventRetries /\ 1 \in 1..3
  BY IndexerAssumption
<1>6. CASE s.next = s.to
  <2>1. n = [s EXCEPT !.pc = "save", !.attempt = 1, !.step = 1]
    BY <1>6 DEF NextEvent
  <2>2. n \in PollState /\ n.pc = "save" /\ n.to = s.to
    BY <1>1, <1>5, <2>1 DEF PollState
  <2> HIDE DEF n
  <2>3. poll'[p] = n /\ poll' \in [Poll -> PollState]
    BY <1>1, <2>2 DEF TypeOK, n
  <2>4. PollOK(p)'
    BY <1>2, <1>4, <1>6, <2>2, <2>3 DEF PollOK
  <2>5. \A q \in Poll \ {p} : poll'[q] = poll[q]
    BY <1>1 DEF TypeOK
  <2> QED
    BY <1>3, <2>3, <2>4, <2>5
<1>7. CASE s.next # s.to
  <2>1. n = [s EXCEPT !.pc = "apply", !.next = s.next + 1, !.attempt = 1, !.step = 1]
    BY <1>7 DEF NextEvent
  <2>2. /\ n \in PollState /\ n.pc = "apply" /\ n.to = s.to /\ n.next = i + 1
        /\ n.step = 1
    <3> HIDE DEF n
    <3>1. s.next + 1 \in Nat /\ s.next = i
      BY <1>4
    <3> QED
      BY <1>1, <1>5, <2>1, <3>1 DEF PollState
  <2> HIDE DEF n
  <2>3. poll'[p] = n /\ poll' \in [Poll -> PollState]
    BY <1>1, <2>2 DEF TypeOK, n
  <2>4. n.next \in 1..n.to /\ \A j \in 1..(n.next - 1) : Settled(j)'
    BY <1>1, <1>2, <1>4, <1>7, <2>2
  <2>5. PollOK(p)'
    BY <1>2, <2>2, <2>3, <2>4 DEF PollOK
  <2>6. \A q \in Poll \ {p} : poll'[q] = poll[q]
    BY <1>1 DEF TypeOK
  <2> QED
    BY <1>3, <2>3, <2>5, <2>6
<1> QED
  BY <1>6, <1>7

-----------------------------------------------------------------------------
(* Every step preserves the invariant *)

\* A step that leaves the tables, the cursor and the log of lost events alone
LEMMA Quiet ==
  ASSUME IInv, TypeOK', tip <= tip', UNCHANGED <<log, db, lost, cursor>>,
         \A q \in Poll : poll'[q] = poll[q] \/ PollOK(q)'
  PROVE  IInv'
<1>1. tip' \in Nat
  BY IndexerAssumption DEF TypeOK
<1>2. Grows(db, db')
  BY GrowsReflexive
<1> QED
  BY <1>1, <1>2, Monotone DEF IInv

LEMMA PollChoices ==
  ASSUME IInv
  PROVE  /\ IdlePoll \in PollState
         /\ [IdlePoll EXCEPT !.pc = "backoff"] \in PollState
         /\ [IdlePoll EXCEPT !.pc = "fetch", !.to = cursor] \in PollState
<1>1. 1 \in 1..MaxEventRetries /\ 1 \in 1..3 /\ cursor \in Nat
  BY IndexerAssumption DEF IInv, TypeOK
<1>2. IdlePoll \in PollState
  BY <1>1 DEF IdlePoll, PollState
<1>3. [IdlePoll EXCEPT !.pc = "backoff"] \in PollState
  BY <1>2 DEF PollState
<1>4. [IdlePoll EXCEPT !.pc = "fetch", !.to = cursor] \in PollState
  BY <1>1, <1>2 DEF PollState
<1> QED
  BY <1>2, <1>3, <1>4

\* The process starts, ends, and the operator resets the cursor.
LEMMA ProcessSteps ==
  ASSUME IInv, Publish \/ Start \/ ProcessEnds \/ OperatorReset
  PROVE  IInv'
<1>1. TypeOK /\ tip \in Nat
  BY IndexerAssumption DEF IInv, TypeOK
<1>2. CASE Publish
  <2>1. TypeOK' /\ tip <= tip'
    BY <1>1, <1>2, IndexerAssumption DEF TypeOK, Publish
  <2> QED
    BY <1>2, <2>1, Quiet DEF Publish
<1>3. CASE Start
  <2>1. TypeOK'
    BY <1>1, <1>3, IndexerAssumption DEF TypeOK, Start
  <2> QED
    BY <1>1, <1>3, <2>1, Quiet DEF Start
<1>4. CASE ProcessEnds
  <2>1. TypeOK'
    BY <1>1, <1>4, IndexerAssumption, PollChoices DEF TypeOK, ProcessEnds
  <2>2. \A q \in Poll : PollOK(q)'
    BY <1>4, AtRest DEF ProcessEnds, IdlePoll
  <2> QED
    BY <1>1, <1>4, <2>1, <2>2, Quiet DEF ProcessEnds
<1>5. CASE OperatorReset
  <2>1. TypeOK'
    BY <1>1, <1>5, IndexerAssumption DEF TypeOK, OperatorReset
  <2>2. Grows(db, db')
    BY <1>5, GrowsReflexive DEF OperatorReset
  <2>3. CoveredEventsLeaveATrace'
    BY <1>5 DEF OperatorReset, CoveredEventsLeaveATrace
  <2> QED
    BY <1>1, <1>5, <2>1, <2>2, <2>3, Monotone DEF OperatorReset, IInv
<1> QED
  BY <1>2, <1>3, <1>4, <1>5

\* A poll begins.
LEMMA TickStep ==
  ASSUME IInv, NEW p \in Poll, Tick(p)
  PROVE  IInv'
<1>1. TypeOK /\ tip \in Nat
  BY IndexerAssumption DEF IInv, TypeOK
<1>2. PICK n \in PollState :
        /\ poll' = [poll EXCEPT ![p] = n]
        /\ \/ n = [IdlePoll EXCEPT !.pc = "fetch", !.to = cursor]
           \/ n = [IdlePoll EXCEPT !.pc = "backoff"]
  BY PollChoices DEF Tick, FailPoll
<1>3. faults' \in 0..MaxFaults /\ UNCHANGED <<log, tip, db, cursor, crashes, resets, lost>>
  BY <1>1, IndexerAssumption DEF Tick, FailPoll, TypeOK
<1>4. proc' \in {"down", "starting", "first", "running", "failed"} /\ overlapped' \in BOOLEAN
  BY <1>1 DEF Tick, TypeOK
<1>5. TypeOK'
  <2>1. poll' \in [Poll -> PollState]
    BY <1>1, <1>2 DEF TypeOK
  <2> QED
    BY <1>1, <1>3, <1>4, <2>1 DEF TypeOK
<1>6. poll'[p] = n /\ \A q \in Poll \ {p} : poll'[q] = poll[q]
  BY <1>1, <1>2 DEF TypeOK
<1>7. PollOK(p)'
  <2>1. CASE n = [IdlePoll EXCEPT !.pc = "backoff"]
    BY <1>6, <2>1, AtRest DEF IdlePoll
  <2>2. CASE n = [IdlePoll EXCEPT !.pc = "fetch", !.to = cursor]
    <3>1. n.pc = "fetch" /\ n.to = cursor
      BY <2>2 DEF IdlePoll
    <3>2. cursor \in 0..tip' /\ \A j \in 1..cursor : Settled(j)'
      BY <1>1, <1>3 DEF TypeOK, IInv, CoveredEventsLeaveATrace, Settled, Steps
    <3> QED
      BY <1>6, <3>1, <3>2 DEF PollOK
  <2> QED
    BY <1>2, <2>1, <2>2
<1> QED
  BY <1>1, <1>3, <1>5, <1>6, <1>7, Quiet

\* A poll that fails, or ends, leaves nothing of its own behind.
LEMMA PollEnds ==
  ASSUME IInv, NEW p \in Poll, UNCHANGED <<log, tip, db, cursor, crashes, resets, lost>>,
         overlapped' = overlapped,
         \/ FailPoll(p) /\ proc' = proc
         \/ EndPoll(p) /\ faults' = faults
  PROVE  IInv'
<1>1. TypeOK /\ tip \in Nat
  BY IndexerAssumption DEF IInv, TypeOK
<1>2. PICK n \in PollState : poll' = [poll EXCEPT ![p] = n] /\ n.pc \in {"idle", "backoff"}
  BY PollChoices DEF FailPoll, EndPoll, IdlePoll
<1>3. poll' \in [Poll -> PollState] /\ poll'[p] = n /\ \A q \in Poll \ {p} : poll'[q] = poll[q]
  BY <1>1, <1>2 DEF TypeOK
<1>4. faults' \in 0..MaxFaults
  BY <1>1, IndexerAssumption DEF FailPoll, TypeOK
<1>5. proc' \in {"down", "starting", "first", "running", "failed"}
  BY <1>1 DEF EndPoll, TypeOK
<1>6. TypeOK'
  BY <1>1, <1>3, <1>4, <1>5 DEF TypeOK
<1> QED
  BY <1>1, <1>2, <1>3, <1>6, AtRest, Quiet

LEMMA FetchStep ==
  ASSUME IInv, NEW p \in Poll, Fetch(p)
  PROVE  IInv'
<1>1. TypeOK /\ tip \in Nat /\ poll[p] \in PollState /\ PollOK(p)
  BY IndexerAssumption DEF IInv, TypeOK
<1>2. CASE \/ FailPoll(p) /\ proc' = proc
           \/ EndPoll(p) /\ faults' = faults
  BY <1>2, PollEnds DEF Fetch
<1>3. CASE /\ poll[p].to < tip
           /\ poll' = [poll EXCEPT ![p] = FirstEvent(p, BatchEnd(poll[p].to))]
           /\ UNCHANGED <<proc, faults>>
  <2> DEFINE to == BatchEnd(poll[p].to)
             n == FirstEvent(p, to)
  <2>1. poll[p].to \in Nat /\ poll[p].to \in 0..tip /\ \A j \in 1..poll[p].to : Settled(j)
    BY <1>1 DEF Fetch, PollOK
  <2>2. to \in Nat /\ poll[p].to + 1 <= to /\ to <= tip
    BY <1>1, <1>3, <2>1, IndexerAssumption DEF BatchEnd
  <2> HIDE DEF to
  <2>3. /\ n \in PollState /\ n.pc = "apply" /\ n.to = to /\ n.next = poll[p].to + 1
        /\ n.step = 1
    BY <2>1, <2>2, IndexerAssumption DEF FirstEvent, PollState
  <2>4. poll' = [poll EXCEPT ![p] = n]
    BY <1>3 DEF to
  <2> HIDE DEF n
  <2>5. poll' \in [Poll -> PollState] /\ poll'[p] = n /\ \A q \in Poll \ {p} : poll'[q] = poll[q]
    BY <1>1, <2>3, <2>4 DEF TypeOK
  <2>6. TypeOK'
    BY <1>1, <1>3, <2>5 DEF Fetch, TypeOK
  <2>7. n.next \in 1..n.to /\ n.to \in 0..tip' /\ \A j \in 1..(n.next - 1) : Settled(j)'
    BY <1>1, <2>1, <2>2, <2>3 DEF Fetch, Settled, Steps
  <2>8. PollOK(p)'
    BY <2>3, <2>5, <2>7 DEF PollOK
  <2> QED
    BY <1>1, <2>5, <2>6, <2>8, Quiet DEF Fetch
<1> QED
  BY <1>2, <1>3 DEF Fetch

LEMMA WakeUpStep ==
  ASSUME IInv, NEW p \in Poll, WakeUp(p)
  PROVE  IInv'
  BY PollEnds DEF WakeUp

\* The cursor is saved, as late as it may be: what it passes is settled.
LEMMA SaveStep ==
  ASSUME IInv, NEW p \in Poll, Save(p)
  PROVE  IInv'
<1>1. CASE UNCHANGED <<cursor, proc>> /\ FailPoll(p)
  BY <1>1, PollEnds DEF Save
<1>2. CASE cursor' = poll[p].to /\ EndPoll(p) /\ UNCHANGED faults
  <2>1. TypeOK /\ tip \in Nat /\ PollOK(p)
    BY IndexerAssumption DEF IInv, TypeOK
  <2>2. cursor' \in 0..tip /\ \A j \in 1..cursor' : Settled(j)
    BY <1>2, <2>1 DEF Save, PollOK
  <2>3. poll' \in [Poll -> PollState] /\ \A q \in Poll : poll'[q] = poll[q] \/ poll'[q] = IdlePoll
    BY <1>2, <2>1, PollChoices DEF EndPoll, TypeOK
  <2>4. proc' \in {"down", "starting", "first", "running", "failed"}
    BY <1>2, <2>1 DEF EndPoll, TypeOK
  <2>5. TypeOK'
    BY <1>2, <2>1, <2>2, <2>3, <2>4 DEF Save, TypeOK
  <2>6. Grows(db, db')
    BY GrowsReflexive DEF Save
  <2>7. \A q \in Poll : PollOK(q)'
    BY <2>1, <2>3, <2>6, AtRest, Monotone DEF Save, IdlePoll
  <2>8. CoveredEventsLeaveATrace'
    BY <2>2 DEF Save, CoveredEventsLeaveATrace, Settled, Steps
  <2>9. RecordsDone'
    BY <2>1, <2>6, Monotone DEF Save
  <2> QED
    BY <2>5, <2>7, <2>8, <2>9 DEF IInv
<1> QED
  BY <1>1, <1>2 DEF Save

-----------------------------------------------------------------------------
(* Applying an event *)

\* The event a poll applies, or sets aside, is one that the RPC served.
LEMMA CurrentEvent ==
  ASSUME IInv, NEW p \in Poll, poll[p].pc \in {"apply", "deadletter"}
  PROVE  /\ poll[p] \in PollState /\ PollOK(p)
         /\ poll[p].next \in 1..tip
         /\ TypeOK /\ tip \in Nat
<1>1. TypeOK /\ tip \in Nat /\ poll[p] \in PollState /\ PollOK(p)
  BY IndexerAssumption DEF IInv, TypeOK
<1> QED
  BY <1>1 DEF PollOK

LEMMA IgnoreStep ==
  ASSUME IInv, NEW p \in Poll, Ignore(p)
  PROVE  IInv'
<1>1. poll[p].next \in 1..tip /\ TypeOK /\ tip \in Nat
  BY CurrentEvent DEF Ignore, Applying
<1>2. Settled(poll[p].next)
  BY DEF Ignore, Settled
<1>3. PICK i \in 1..tip : i = poll[p].next /\ Settled(i)
  BY <1>1, <1>2
<1>4. Settled(i)' /\ Grows(db, db')
  BY <1>3, GrowsReflexive DEF Ignore, Settled, Steps
<1>5. poll' \in [Poll -> PollState] /\ \A q \in Poll : PollOK(q)'
  BY <1>3, <1>4, NextEventOK DEF Ignore, Applying
<1>6. TypeOK'
  BY <1>1, <1>5 DEF Ignore, TypeOK
<1> QED
  BY <1>1, <1>5, <1>6, Quiet DEF Ignore

LEMMA AttemptIsPollState ==
  ASSUME NEW s \in PollState, NEW a \in 1..MaxEventRetries
  PROVE  [s EXCEPT !.attempt = a, !.step = 1] \in PollState
<1>1. 1 \in 1..3
  OBVIOUS
<1> DEFINE q == [s EXCEPT !.attempt = a]
<1>2. q \in PollState
  BY DEF PollState
<1>3. [q EXCEPT !.step = 1] \in PollState
  <2> HIDE DEF q
  <2> QED
    BY <1>1, <1>2 DEF PollState
<1>4. [s EXCEPT !.attempt = a, !.step = 1] = [q EXCEPT !.step = 1]
  BY DEF PollState
<1> QED
  BY <1>3, <1>4

\* A failed attempt starts over, or leads to the dead-letter table.
LEMMA NextAttemptOK ==
  ASSUME IInv, NEW p \in Poll, poll[p].pc = "apply",
         poll' = [poll EXCEPT ![p] = NextAttempt(poll[p])],
         tip' = tip, log' = log, Grows(db, db'), lost \subseteq lost'
  PROVE  poll' \in [Poll -> PollState] /\ \A q \in Poll : PollOK(q)'
<1> DEFINE s == poll[p]
           n == NextAttempt(s)
<1>1. TypeOK /\ tip \in Nat /\ s \in PollState /\ PollOK(p) /\ s.next \in 1..tip
  BY CurrentEvent
<1>2. /\ n \in PollState /\ n.pc \in {"apply", "deadletter"}
      /\ n.next = s.next /\ n.to = s.to /\ (n.pc = "apply" => n.step = 1)
  <2>1. CASE s.attempt < MaxEventRetries
    <3>1. PICK a \in 1..MaxEventRetries : a = s.attempt + 1
      BY <1>1, <2>1, IndexerAssumption DEF PollState
    <3>2. n = [s EXCEPT !.attempt = a, !.step = 1]
      BY <2>1, <3>1 DEF NextAttempt
    <3> HIDE DEF n
    <3>3. n.pc = "apply" /\ n.next = s.next /\ n.to = s.to /\ n.step = 1
      BY <1>1, <3>2 DEF PollState
    <3>4. n \in PollState
      BY <1>1, <3>2, AttemptIsPollState
    <3> QED
      BY <3>3, <3>4
  <2>2. CASE ~(s.attempt < MaxEventRetries)
    <3>1. n = [s EXCEPT !.pc = "deadletter"]
      BY <2>2 DEF NextAttempt
    <3> HIDE DEF n
    <3> QED
      BY <1>1, <3>1 DEF PollState
  <2> QED
    BY <2>1, <2>2
<1>3. /\ \A j \in 1..tip : Settled(j) => Settled(j)'
      /\ \A q \in Poll : poll'[q] = poll[q] => PollOK(q)'
  BY <1>1, Monotone
<1> HIDE DEF n
<1>4. poll' \in [Poll -> PollState] /\ poll'[p] = n /\ \A q \in Poll \ {p} : poll'[q] = poll[q]
  BY <1>1, <1>2 DEF TypeOK, n
<1>5. /\ n.next \in 1..n.to /\ n.to \in 0..tip'
      /\ \A j \in 1..(n.next - 1) : Settled(j)'
  <2>1. s.next \in 1..s.to /\ s.to \in 0..tip /\ \A j \in 1..(s.next - 1) : Settled(j)
    BY <1>1 DEF PollOK
  <2>2. \A j \in 1..(s.next - 1) : j \in 1..tip
    BY <1>1
  <2> QED
    BY <1>2, <1>3, <2>1, <2>2
<1>6. PollOK(p)'
  BY <1>2, <1>4, <1>5 DEF PollOK
<1> QED
  BY <1>3, <1>4, <1>6

LEMMA RefusedStep ==
  ASSUME IInv, NEW p \in Poll, Refused(p)
  PROVE  IInv'
<1>1. TypeOK /\ tip \in Nat
  BY CurrentEvent DEF Refused, Applying
<1>2. poll' \in [Poll -> PollState] /\ \A q \in Poll : PollOK(q)'
  BY GrowsReflexive, NextAttemptOK DEF Refused, Applying
<1>3. TypeOK'
  BY <1>1, <1>2 DEF Refused, TypeOK
<1> QED
  BY <1>1, <1>2, <1>3, Quiet DEF Refused

\* A statement that took effect: the tables grow, and the event is recorded
\* when it was the last one, after all the others.
LEMMA StatementDone ==
  ASSUME IInv, NEW p \in Poll, Applying(p),
         NEW i, i = poll[p].next, NEW s, s = poll[p].step,
         s <= Len(Steps(i)), Accepted(db, i, s),
         db' = Perform(db, i, s), UNCHANGED <<log, tip, lost, cursor>>
  PROVE  /\ i \in 1..tip /\ s \in 1..Len(Steps(i)) /\ Len(Steps(i)) \in 0..3
         /\ db' \in store!Database /\ Grows(db, db')
         /\ db'.deadLetters = db.deadLetters
         /\ db'.transactions = IF s = Len(Steps(i)) THEN db.transactions \cup {i}
                               ELSE db.transactions
         /\ \A t \in 1..s : Done(db, i, t)'
         /\ RecordsDone' /\ CoveredEventsLeaveATrace'
<1>1. /\ poll[p] \in PollState /\ PollOK(p) /\ i \in 1..tip
      /\ TypeOK /\ tip \in Nat
  BY CurrentEvent DEF Applying
<1>2. s \in 1..Len(Steps(i)) /\ Len(Steps(i)) \in 0..3
  BY <1>1, ProgramShape DEF PollState
<1>3. /\ db' \in store!Database /\ Grows(db, db') /\ Done(db', i, s)
      /\ db'.deadLetters = db.deadLetters
      /\ db'.transactions = IF s = Len(Steps(i)) THEN db.transactions \cup {i}
                            ELSE db.transactions
  BY <1>1, <1>2, PerformFacts
<1>4. /\ \A k \in 1..tip : \A t \in 1..Len(Steps(k)) : Done(db, k, t) => Done(db, k, t)'
      /\ \A k : Steps(k)' = Steps(k)
      /\ CoveredEventsLeaveATrace'
      /\ db'.transactions = db.transactions => RecordsDone'
  BY <1>1, <1>3, Monotone
<1>5. ASSUME NEW t \in 1..s PROVE Done(db, i, t)'
  <2>1. CASE t = s
    <3>1. Done(db', i, t)
      BY <1>3, <2>1
    <3> QED
      BY <1>4, <3>1 DEF Done, store!ReferencesExist, store!HasRow
  <2>2. CASE t # s
    <3>1. t \in 1..(s - 1) /\ t \in 1..Len(Steps(i))
      BY <1>1, <1>2, <2>2 DEF PollState
    <3>2. Done(db, i, t)
      BY <1>1, <3>1 DEF PollOK, Applying
    <3> QED
      BY <1>1, <1>4, <3>1, <3>2
  <2> QED
    BY <2>1, <2>2
<1>6. RecordsDone'
  <2>1. CASE s = Len(Steps(i))
    <3>1. db'.transactions = db.transactions \cup {i}
      BY <1>3, <2>1
    <3>2. \A t \in 1..Len(Steps(i)) : Done(db, i, t)'
      BY <1>5, <2>1
    <3>3. ASSUME NEW k \in db'.transactions
          PROVE  k \in 1..tip /\ \A t \in 1..Len(Steps(k)) : Done(db, k, t)'
      BY <1>1, <1>4, <3>1, <3>2 DEF IInv, RecordsDone
    <3> QED
      BY <1>4, <3>3 DEF RecordsDone
  <2>2. CASE s # Len(Steps(i))
    BY <1>3, <1>4, <2>2
  <2> QED
    BY <2>1, <2>2
<1> QED
  BY <1>1, <1>2, <1>3, <1>4, <1>5, <1>6

LEMMA ApplyStep ==
  ASSUME IInv, NEW p \in Poll, Apply(p)
  PROVE  IInv'
<1>1. PICK i, s : i = poll[p].next /\ s = poll[p].step
  OBVIOUS
<1>2. /\ s <= Len(Steps(i)) /\ Accepted(db, i, s) /\ db' = Perform(db, i, s)
      /\ UNCHANGED <<log, tip, lost, cursor, proc, faults, crashes, resets, overlapped>>
      /\ Applying(p)
      /\ s = Len(Steps(i)) => poll' = [poll EXCEPT ![p] = NextEvent(poll[p])]
      /\ s # Len(Steps(i)) => poll' = [poll EXCEPT ![p] = [poll[p] EXCEPT !.step = s + 1]]
  <2>1. /\ s <= Len(Steps(i)) /\ Accepted(db, i, s) /\ db' = Perform(db, i, s)
        /\ UNCHANGED <<log, tip, lost, cursor, proc, faults, crashes, resets, overlapped>>
        /\ Applying(p)
    BY <1>1 DEF Apply
  <2>2. /\ s = Len(Steps(i)) => poll' = [poll EXCEPT ![p] = NextEvent(poll[p])]
        /\ s # Len(Steps(i)) => poll' = [poll EXCEPT ![p] = [poll[p] EXCEPT !.step = s + 1]]
    BY <1>1 DEF Apply, NextStatement
  <2> QED
    BY <2>1, <2>2
<1>3. /\ i \in 1..tip /\ s \in 1..Len(Steps(i)) /\ Len(Steps(i)) \in 0..3
      /\ db' \in store!Database /\ Grows(db, db')
      /\ db'.transactions = IF s = Len(Steps(i)) THEN db.transactions \cup {i}
                            ELSE db.transactions
      /\ \A t \in 1..s : Done(db, i, t)'
      /\ RecordsDone' /\ CoveredEventsLeaveATrace'
  BY <1>1, <1>2, StatementDone
<1>4. poll[p] \in PollState /\ PollOK(p) /\ TypeOK /\ tip \in Nat
  BY <1>2, CurrentEvent DEF Applying
<1>5. poll' \in [Poll -> PollState] /\ \A q \in Poll : PollOK(q)'
  <2>1. CASE s = Len(Steps(i))
    <3>1. Settled(i)'
      BY <1>3, <2>1 DEF Settled
    <3>2. poll' = [poll EXCEPT ![p] = NextEvent(poll[p])]
      BY <1>2, <2>1
    <3> QED
      BY <1>1, <1>2, <1>3, <3>1, <3>2, NextEventOK DEF Applying
  <2>2. CASE s # Len(Steps(i))
    <3> DEFINE n == [poll[p] EXCEPT !.step = s + 1]
    <3>1. s \in Nat /\ s + 1 \in 1..3 /\ s + 1 <= Len(Steps(i))
      <4> DEFINE last == Len(Steps(i))
      <4>1. s \in 1..last /\ last \in 0..3 /\ s # last
        BY <1>3, <2>2
      <4> HIDE DEF last
      <4>2. s \in Nat /\ s + 1 \in 1..3 /\ s + 1 <= last
        BY <4>1
      <4> QED
        BY <4>2 DEF last
    <3>2. /\ n \in PollState /\ n.pc = "apply" /\ n.to = poll[p].to
          /\ n.next = i /\ n.step = s + 1
      BY <1>1, <1>2, <1>4, <3>1 DEF PollState, Applying
    <3>3. poll' = [poll EXCEPT ![p] = n]
      BY <1>2, <2>2
    <3> HIDE DEF n
    <3>4. /\ poll' \in [Poll -> PollState] /\ poll'[p] = n
          /\ \A q \in Poll \ {p} : poll'[q] = poll[q]
      BY <1>4, <3>2, <3>3 DEF TypeOK
    <3>5. /\ \A j \in 1..tip : Settled(j) => Settled(j)'
          /\ \A k : Steps(k)' = Steps(k)
          /\ \A q \in Poll : poll'[q] = poll[q] => PollOK(q)'
      BY <1>2, <1>3, <1>4, Monotone
    <3>6. i \in 1..poll[p].to /\ poll[p].to \in 0..tip /\ \A j \in 1..(i - 1) : Settled(j)
      BY <1>1, <1>2, <1>4 DEF PollOK, Applying
    <3>7. n.next \in 1..n.to /\ n.to \in 0..tip' /\ \A j \in 1..(n.next - 1) : Settled(j)'
      <4>1. \A j \in 1..(i - 1) : j \in 1..tip
        BY <1>3, <1>4
      <4> QED
        BY <1>2, <3>2, <3>5, <3>6, <4>1
    <3>8. Steps(i)' = Steps(i) /\ n.step - 1 = s
      BY <3>1, <3>2, <3>5
    <3>9. \A t \in 1..(n.step - 1) : Done(db, i, t)'
      BY <1>3, <3>8
    <3>10. /\ poll'[p].pc = "apply" /\ poll'[p].next = i
           /\ poll'[p].step <= Len(Steps(i)')
      BY <3>1, <3>2, <3>4, <3>8
    <3>11. PollOK(p)'
      BY <3>4, <3>7, <3>9, <3>10 DEF PollOK
    <3> QED
      BY <3>4, <3>5, <3>11
  <2> QED
    BY <2>1, <2>2
<1>6. TypeOK'
  BY <1>2, <1>3, <1>4, <1>5 DEF TypeOK
<1> QED
  BY <1>3, <1>5, <1>6 DEF IInv

\* A failed attempt: nothing was done, or the statement was and its answer lost.
LEMMA AttemptFailsStep ==
  ASSUME IInv, NEW p \in Poll, AttemptFails(p)
  PROVE  IInv'
<1>1. PICK i, s : i = poll[p].next /\ s = poll[p].step
  OBVIOUS
<1>2. /\ Applying(p) /\ s <= Len(Steps(i)) /\ faults < MaxFaults /\ faults' = faults + 1
      /\ db' = db \/ (Accepted(db, i, s) /\ db' = Perform(db, i, s))
      /\ poll' = [poll EXCEPT ![p] = NextAttempt(poll[p])]
      /\ UNCHANGED <<log, tip, lost, cursor, proc, crashes, resets, overlapped>>
  BY <1>1 DEF AttemptFails
<1>3. TypeOK /\ tip \in Nat
  BY <1>2, CurrentEvent DEF Applying
<1>4. db' \in store!Database /\ Grows(db, db') /\ RecordsDone' /\ CoveredEventsLeaveATrace'
  <2>1. CASE db' = db
    <3>1. Grows(db, db')
      BY <2>1, GrowsReflexive
    <3>2. RecordsDone' /\ CoveredEventsLeaveATrace'
      BY <1>2, <1>3, <2>1, <3>1, Monotone
    <3> QED
      BY <1>3, <2>1, <3>1, <3>2 DEF TypeOK
  <2>2. CASE Accepted(db, i, s) /\ db' = Perform(db, i, s)
    BY <1>1, <1>2, <2>2, StatementDone
  <2> QED
    BY <1>2, <2>1, <2>2
<1>5. poll' \in [Poll -> PollState] /\ \A q \in Poll : PollOK(q)'
  BY <1>2, <1>4, NextAttemptOK DEF Applying
<1>6. faults' \in 0..MaxFaults
  BY <1>2, <1>3, IndexerAssumption DEF TypeOK
<1>7. TypeOK'
  BY <1>2, <1>3, <1>4, <1>5, <1>6 DEF TypeOK
<1> QED
  BY <1>4, <1>5, <1>7 DEF IInv

\* The event is set aside, or the log line that it could not be is all there
\* is; both leave it settled.
LEMMA DeadLetterStep ==
  ASSUME IInv, NEW p \in Poll, DeadLetter(p)
  PROVE  IInv'
<1>1. PICK i : i = poll[p].next
  OBVIOUS
<1>2. /\ poll[p].pc = "deadletter"
      /\ \/ db' = store!InsertDeadLetter(db, i) /\ UNCHANGED <<faults, lost>>
         \/ /\ faults < MaxFaults /\ faults' = faults + 1
            /\ lost' = lost \cup {i} /\ db' = db
      /\ poll' = [poll EXCEPT ![p] = NextEvent(poll[p])]
      /\ UNCHANGED <<log, tip, cursor, proc, crashes, resets, overlapped>>
  BY <1>1 DEF DeadLetter
<1>3. TypeOK /\ tip \in Nat /\ i \in 1..tip /\ db \in store!Database
  BY <1>1, <1>2, CurrentEvent DEF TypeOK
<1>4. /\ db' \in store!Database /\ Grows(db, db') /\ db'.transactions = db.transactions
      /\ lost \subseteq lost' /\ lost' \in SUBSET Nat /\ faults' \in 0..MaxFaults
      /\ i \in db'.deadLetters \cup lost'
  <2>1. CASE db' = store!InsertDeadLetter(db, i) /\ UNCHANGED <<faults, lost>>
    <3>1. db' = [db EXCEPT !.deadLetters = @ \cup {i}]
      BY <2>1 DEF store!InsertDeadLetter
    <3> QED
      BY <1>3, <2>1, <3>1 DEF TypeOK, store!Database, Grows, store!HasRow
  <2>2. CASE /\ faults < MaxFaults /\ faults' = faults + 1
             /\ lost' = lost \cup {i} /\ db' = db
    <3>1. i \in Nat /\ lost \in SUBSET Nat
      BY <1>3 DEF TypeOK
    <3>2. lost \subseteq lost' /\ lost' \in SUBSET Nat /\ i \in lost'
      BY <2>2, <3>1
    <3>3. faults' \in 0..MaxFaults
      BY <1>3, <2>2, IndexerAssumption DEF TypeOK
    <3>4. Grows(db, db')
      BY <2>2, GrowsReflexive
    <3> QED
      BY <1>3, <2>2, <3>2, <3>3, <3>4
  <2> QED
    BY <1>2, <2>1, <2>2
<1>5. Settled(i)'
  BY <1>4 DEF Settled
<1>6. poll' \in [Poll -> PollState] /\ \A q \in Poll : PollOK(q)'
  BY <1>1, <1>2, <1>4, <1>5, NextEventOK
<1>7. RecordsDone' /\ CoveredEventsLeaveATrace'
  BY <1>2, <1>3, <1>4, Monotone
<1>8. TypeOK'
  BY <1>2, <1>3, <1>4, <1>6 DEF TypeOK
<1> QED
  BY <1>6, <1>7, <1>8 DEF IInv

LEMMA StutterStep ==
  ASSUME IInv, UNCHANGED vars
  PROVE  IInv'
  BY DEF vars, IInv, TypeOK, PollOK, CoveredEventsLeaveATrace, RecordsDone, Settled,
         Steps, Done, store!HasRow, store!ReferencesExist

LEMMA NextIInv == IInv /\ [Next]_vars => IInv'
<1> SUFFICES ASSUME IInv, [Next]_vars PROVE IInv'
  OBVIOUS
<1>1. CASE Publish \/ Start \/ ProcessEnds \/ OperatorReset
  BY <1>1, ProcessSteps
<1>2. ASSUME NEW p \in Poll, Tick(p) PROVE IInv'
  BY <1>2, TickStep
<1>3. ASSUME NEW p \in Poll, PollStep(p) PROVE IInv'
  BY <1>3, FetchStep, IgnoreStep, ApplyStep, RefusedStep, AttemptFailsStep,
     DeadLetterStep, SaveStep, WakeUpStep DEF PollStep
<1>4. CASE UNCHANGED vars
  BY <1>4, StutterStep
<1> QED
  BY <1>1, <1>2, <1>3, <1>4 DEF Next

LEMMA Invariance == Spec => []IInv
<1> QED
  BY InitIInv, NextIInv, PTL DEF Spec

-----------------------------------------------------------------------------
(* What the invariant gives *)

\* Every variable keeps its type: positions stay positions of served events,
\* and no poll makes more than MaxEventRetries attempts.
THEOREM TypeCorrect == Spec => []TypeOK
<1>1. IInv => TypeOK
  BY DEF IInv
<1> QED
  BY <1>1, Invariance, PTL

\* No gaps: every event the cursor has passed left a trace, for any number of
\* overlapping polls, faults, crashes and resets.
THEOREM NoGaps == Spec => []CoveredEventsLeaveATrace
<1>1. IInv => CoveredEventsLeaveATrace
  BY DEF IInv
<1> QED
  BY <1>1, Invariance, PTL

\* A recorded event has all its effects in the tables, although its statements
\* are not one transaction.
THEOREM RecordsCorrect == Spec => []RecordsFollowEffects
<1>1. IInv => RecordsFollowEffects
  <2> SUFFICES ASSUME IInv, NEW i \in db.transactions
               PROVE  /\ log[i].kind \in {"CAM_CRT", "CAM_DEACT"} => store!HasRow(db, log[i].campaign)
                      /\ log[i].kind = "RWD_CLM" =>
                             /\ <<log[i].user, log[i].campaign>> \in db.rewards
                             /\ store!ReferencesExist(db, log[i].user, log[i].campaign)
    BY DEF RecordsFollowEffects
  <2>1. \A s \in 1..Len(Steps(i)) : Done(db, i, s)
    BY DEF IInv, RecordsDone
  <2>2. CASE log[i].kind \in {"CAM_CRT", "CAM_DEACT"}
    <3>1. Steps(i) = <<"campaign", "transaction">>
      BY <2>2 DEF Steps, Program
    <3>2. 1 \in 1..Len(Steps(i)) /\ Steps(i)[1] = "campaign"
      BY <3>1
    <3>3. Done(db, i, 1)
      BY <2>1, <3>2
    <3> QED
      BY <2>2, <3>2, <3>3 DEF Done
  <2>3. CASE log[i].kind = "RWD_CLM"
    <3>1. Steps(i) = <<"user", "reward", "transaction">>
      BY <2>3 DEF Steps, Program
    <3>2. 2 \in 1..Len(Steps(i)) /\ Steps(i)[2] = "reward"
      BY <3>1
    <3>3. Done(db, i, 2)
      BY <2>1, <3>2
    <3> QED
      BY <2>3, <3>2, <3>3 DEF Done
  <2> QED
    BY <2>2, <2>3
<1> QED
  BY <1>1, Invariance, PTL

-----------------------------------------------------------------------------
(* The indexer implements EventIngestion *)

\* A step that publishes nothing and leaves the cursor where it is settles one
\* event of the chain, or none.
LEMMA OneEventSettled ==
  ASSUME IInv, UNCHANGED <<log, tip, cursor>>, NEW i \in 1..tip,
         db'.transactions \in {db.transactions, db.transactions \cup {i}},
         db'.deadLetters \in {db.deadLetters, db.deadLetters \cup {i}},
         lost' \in {lost, lost \cup {i}}
  PROVE  [ingestion!Next]_(ingestion!ingestion)
<1> DEFINE settled == {j \in 1..Len(log) : Settled(j)}
<1>1. i \in 1..Len(log) /\ tip \in Nat
  BY ProgramShape, IndexerAssumption DEF IInv, TypeOK
<1>2. \A j \in 1..Len(log) : j # i => (Settled(j)' <=> Settled(j))
  BY DEF Settled, Steps
<1>3. Settled(i) => Settled(i)'
  BY DEF Settled, Steps
<1>4. settled' = {j \in 1..Len(log) : Settled(j)'}
  OBVIOUS
<1>5. settled' = settled \/ settled' = settled \cup {i}
  BY <1>1, <1>2, <1>3, <1>4
<1> QED
  BY <1>1, <1>5 DEF ingestion!Next, ingestion!Settle, ingestion!ingestion

\* A step of a poll that leaves the database, the cursor and the chain alone
LEMMA NothingSettled ==
  ASSUME UNCHANGED <<log, tip, db, cursor, lost>>
  PROVE  UNCHANGED ingestion!ingestion
  BY DEF ingestion!ingestion, Settled, Steps

\* A step that moves the cursor over settled events only
LEMMA CursorMoved ==
  ASSUME IInv, UNCHANGED <<log, tip, db, lost>>, cursor' \in 0..tip,
         \A j \in 1..cursor' : Settled(j)
  PROVE  ingestion!Next
<1> DEFINE settled == {j \in 1..Len(log) : Settled(j)}
<1>1. tip \in 0..Len(log) /\ Len(log) \in Nat
  BY IndexerAssumption DEF IInv, TypeOK
<1>2. 1..cursor' \subseteq settled
  BY <1>1
<1>3. settled' = settled
  BY DEF Settled, Steps
<1> QED
  BY <1>2, <1>3 DEF ingestion!Next, ingestion!Checkpoint

\* Every step of the indexer is a step of EventIngestion, or none of its
\* business.
LEMMA StepImplements ==
  ASSUME IInv, [Next]_vars
  PROVE  [ingestion!Next]_(ingestion!ingestion)
<1>1. TypeOK /\ tip \in Nat
  BY IndexerAssumption DEF IInv, TypeOK
<1>2. CASE Publish
  <2>1. tip' = tip + 1 /\ UNCHANGED <<log, db, cursor, lost>>
    BY <1>2 DEF Publish
  <2>2. {j \in 1..Len(log) : Settled(j)}' = {j \in 1..Len(log) : Settled(j)}
    BY <2>1 DEF Settled, Steps
  <2> QED
    BY <2>1, <2>2 DEF ingestion!Next, ingestion!Publish
<1>3. CASE Start \/ ProcessEnds \/ UNCHANGED vars
  BY <1>3, NothingSettled DEF Start, ProcessEnds, vars
<1>4. CASE OperatorReset
  <2>1. cursor' = 0 /\ UNCHANGED <<log, tip, db, lost>>
    BY <1>4 DEF OperatorReset
  <2> QED
    BY <1>1, <2>1, CursorMoved
<1>5. ASSUME NEW p \in Poll, Tick(p)
      PROVE  [ingestion!Next]_(ingestion!ingestion)
  BY <1>5, NothingSettled DEF Tick
<1>6. ASSUME NEW p \in Poll, PollStep(p)
      PROVE  [ingestion!Next]_(ingestion!ingestion)
  <2>1. CASE Fetch(p) \/ Ignore(p) \/ Refused(p) \/ WakeUp(p)
    BY <2>1, NothingSettled DEF Fetch, Ignore, Refused, WakeUp
  <2>2. CASE Apply(p) \/ AttemptFails(p)
    <3>1. PICK i, s : i = poll[p].next /\ s = poll[p].step
      OBVIOUS
    <3>2. /\ Applying(p) /\ s <= Len(Steps(i)) /\ UNCHANGED <<log, tip, lost, cursor>>
          /\ db' = db \/ (Accepted(db, i, s) /\ db' = Perform(db, i, s))
      BY <2>2, <3>1 DEF Apply, AttemptFails
    <3>3. i \in 1..tip
      BY <3>1, <3>2, CurrentEvent DEF Applying
    <3>4. CASE db' = db
      BY <3>2, <3>4, NothingSettled
    <3>5. CASE Accepted(db, i, s) /\ db' = Perform(db, i, s)
      <4>1. /\ db'.deadLetters = db.deadLetters
            /\ db'.transactions \in {db.transactions, db.transactions \cup {i}}
        BY <3>1, <3>2, <3>5, StatementDone
      <4> QED
        BY <3>2, <3>3, <4>1, OneEventSettled
    <3> QED
      BY <3>2, <3>4, <3>5
  <2>3. CASE DeadLetter(p)
    <3>1. PICK i : i = poll[p].next
      OBVIOUS
    <3>2. /\ poll[p].pc = "deadletter" /\ UNCHANGED <<log, tip, cursor>>
          /\ \/ db' = store!InsertDeadLetter(db, i) /\ lost' = lost
             \/ db' = db /\ lost' = lost \cup {i}
      BY <2>3, <3>1 DEF DeadLetter
    <3>3. i \in 1..tip
      BY <3>1, <3>2, CurrentEvent
    <3>4. db \in store!Database
      BY <1>1 DEF TypeOK
    <3>5. /\ db'.transactions = db.transactions
          /\ db'.deadLetters \in {db.deadLetters, db.deadLetters \cup {i}}
      BY <3>2, <3>4 DEF store!InsertDeadLetter, store!Database
    <3> QED
      BY <3>2, <3>3, <3>5, OneEventSettled
  <2>4. CASE Save(p)
    <3>1. PICK k : k = poll[p].to
      OBVIOUS
    <3>2. PollOK(p)
      BY DEF IInv
    <3>3. k \in 0..tip /\ \A j \in 1..k : Settled(j)
      BY <2>4, <3>1, <3>2 DEF Save, PollOK
    <3>4. UNCHANGED <<log, tip, db, lost>> /\ cursor' \in {k, cursor}
      BY <2>4, <3>1 DEF Save
    <3>5. CASE cursor' = cursor
      BY <3>4, <3>5, NothingSettled
    <3>6. CASE cursor' = k
      BY <3>3, <3>4, <3>6, CursorMoved
    <3> QED
      BY <3>4, <3>5, <3>6
  <2> QED
    BY <1>6, <2>1, <2>2, <2>3, <2>4 DEF PollStep
<1> QED
  BY <1>2, <1>3, <1>4, <1>5, <1>6 DEF Next

\* The indexer implements EventIngestion: its cursor passes settled events
\* only, and what is settled stays so.
THEOREM IngestionImplemented == Spec => RefinesIngestion
<1>1. Init => ingestion!Init
  <2> SUFFICES ASSUME Init PROVE ingestion!Init
    OBVIOUS
  <2>1. Len(log) \in Nat
    BY IndexerAssumption DEF Init
  <2> QED
    BY <2>1 DEF Init, ingestion!Init
<1>2. IInv /\ [Next]_vars => [ingestion!Next]_(ingestion!ingestion)
  BY StepImplements
<1> QED
  BY <1>1, <1>2, Invariance, PTL DEF Spec, RefinesIngestion, ingestion!Spec

-----------------------------------------------------------------------------
(* Without overlap, the rows of campaigns follow the chain *)

CampaignKinds == {"CAM_CRT", "CAM_DEACT"}

\* The row of a campaign shows what its event i says
RowShows(id, i) ==
    store!HasRow(db, id) /\ db.campaigns[id].active = (log[i].kind = "CAM_CRT")

\* The same of the last event of the campaign, unless one was set aside
ShowsLast(id) ==
    \/ CampaignEvents(id) = {}
    \/ CampaignEvents(id) \cap (db.deadLetters \cup lost) # {}
    \/ \E last \in CampaignEvents(id) :
           (\A i \in CampaignEvents(id) : i <= last) /\ RowShows(id, last)

\* A campaign with no event after position k is as the chain says: what a
\* replay writes into the others is corrected by the events it has yet to reach
RightUpTo(k) ==
    \A id \in CampaignId : (\E i \in CampaignEvents(id) : i > k) \/ ShowsLast(id)

\* How far a poll has applied the chain
Position(p) ==
    IF poll[p].pc \in {"apply", "deadletter"} THEN poll[p].next - 1 ELSE poll[p].to

\* A working poll is never behind the cursor, and has written the row of a
\* campaign event once it is past that event's first statement
SerialPoll(p) ==
    /\ poll[p].pc \in {"fetch", "apply", "deadletter", "save"} =>
           cursor <= Position(p) /\ RightUpTo(Position(p))
    /\ poll[p].pc = "apply" /\ poll[p].step > 1 /\ log[poll[p].next].kind \in CampaignKinds =>
           RowShows(log[poll[p].next].campaign, poll[p].next)

SerialInv ==
    ~overlapped =>
        /\ \A p, q \in Poll : InFlight(p) /\ InFlight(q) => p = q
        /\ RightUpTo(cursor)
        /\ \A p \in Poll : SerialPoll(p)

\* A step that changes the rows only of campaigns with events to come
LEMMA RowsKept ==
  ASSUME TypeOK, NEW k \in 0..tip, RightUpTo(k),
         log' = log, tip' \in Nat, tip <= tip',
         db.deadLetters \subseteq db'.deadLetters, lost \subseteq lost',
         \A id \in CampaignId : \/ db'.campaigns[id] = db.campaigns[id]
                                \/ \E j \in CampaignEvents(id) : j > k
  PROVE  RightUpTo(k)'
<1>1. tip \in Nat
  BY IndexerAssumption DEF TypeOK
<1> SUFFICES ASSUME NEW id \in CampaignId, ~(\E j \in CampaignEvents(id)' : j > k)
             PROVE  ShowsLast(id)'
  BY DEF RightUpTo
<1>2. CampaignEvents(id) \subseteq CampaignEvents(id)'
  BY <1>1 DEF CampaignEvents
<1>3. CampaignEvents(id)' \subseteq CampaignEvents(id)
  BY <1>1 DEF CampaignEvents
<1>4. CampaignEvents(id)' = CampaignEvents(id)
  BY <1>2, <1>3
<1>5. ShowsLast(id) /\ db'.campaigns[id] = db.campaigns[id]
  BY <1>4 DEF RightUpTo
<1>6. \A i : RowShows(id, i) => RowShows(id, i)'
  BY <1>5 DEF RowShows, store!HasRow
<1> QED
  BY <1>4, <1>5, <1>6 DEF ShowsLast

\* The event after position k - 1 is applied, or set aside
LEMMA Advance ==
  ASSUME NEW e \in 1..tip, tip \in Nat, UNCHANGED <<log, tip>>, RightUpTo(e - 1)',
         log[e].kind \in CampaignKinds =>
             RowShows(log[e].campaign, e)' \/ e \in db'.deadLetters \cup lost'
  PROVE  RightUpTo(e)'
<1> SUFFICES ASSUME NEW id \in CampaignId, ~(\E j \in CampaignEvents(id)' : j > e)
             PROVE  ShowsLast(id)'
  BY DEF RightUpTo
<1>1. \A j \in CampaignEvents(id)' : j \in Nat /\ j <= e
  BY DEF CampaignEvents
<1>2. CASE e \in CampaignEvents(id)'
  <2>1. log[e].campaign = id /\ log[e].kind \in CampaignKinds
    BY <1>2 DEF CampaignEvents, CampaignKinds
  <2>2. CASE e \in db'.deadLetters \cup lost'
    BY <1>2, <2>2 DEF ShowsLast
  <2>3. CASE RowShows(id, e)'
    BY <1>1, <1>2, <2>3 DEF ShowsLast
  <2> QED
    BY <2>1, <2>2, <2>3
<1>3. CASE e \notin CampaignEvents(id)'
  <2>1. \A j \in CampaignEvents(id)' : ~(j > e - 1)
    BY <1>1, <1>3
  <2> QED
    BY <2>1 DEF RightUpTo
<1> QED
  BY <1>2, <1>3

\* A statement writes the row of no campaign but its event's, and that row
\* only as the first statement of a campaign event
LEMMA PerformRows ==
  ASSUME TypeOK, NEW i \in 1..tip, NEW s \in 1..Len(Steps(i)),
         db' = Perform(db, i, s), log' = log
  PROVE  /\ \A id \in CampaignId :
                \/ db'.campaigns[id] = db.campaigns[id]
                \/ id = log[i].campaign /\ log[i].kind \in CampaignKinds
         /\ s = 1 /\ log[i].kind \in CampaignKinds => RowShows(log[i].campaign, i)'
         /\ s > 1 => db'.campaigns = db.campaigns
         /\ db'.deadLetters = db.deadLetters
<1>1. /\ log[i].campaign \in CampaignId /\ log[i].user \in UserAddress /\ i \in Nat
      /\ Steps(i)[s] \in Statement /\ log[i].kind \in EventKind
  BY ProgramShape DEF Event
<1>2. db \in store!Database
  BY DEF TypeOK
<1>3. CASE Steps(i)[s] = "campaign"
  <2> DEFINE id == log[i].campaign
             active == log[i].kind = "CAM_CRT"
             row == IF store!HasRow(db, id)
                    THEN [db.campaigns[id] EXCEPT !.active = active]
                    ELSE [active |-> active, deleted |-> FALSE, order |-> 0]
  <2>1. db' = [db EXCEPT !.campaigns[id] = row]
    BY <1>1, <1>2, <1>3 DEF Perform, store!UpsertCampaign, store!Database
  <2>2. row \in store!CampaignRow /\ row.active = active
    BY <1>1, <1>2 DEF store!Database, store!CampaignRow, store!HasRow
  <2>3. row # NoRow
    BY <2>2, IndexerAssumption
  <2> HIDE DEF row
  <2>4. db'.campaigns = [db.campaigns EXCEPT ![id] = row] /\ db'.deadLetters = db.deadLetters
    BY <1>1, <1>2, <2>1 DEF store!Database
  <2>5. db'.campaigns[id] = row /\ \A c \in CampaignId \ {id} : db'.campaigns[c] = db.campaigns[c]
    BY <1>1, <1>2, <2>4 DEF store!Database
  <2>6. RowShows(id, i)'
    BY <1>1, <2>2, <2>3, <2>5 DEF RowShows, store!HasRow
  <2>7. log[i].kind \in CampaignKinds /\ s = 1
    BY <1>1, <1>3 DEF Steps, Program, EventKind, CampaignKinds
  <2> QED
    BY <2>4, <2>5, <2>6, <2>7
<1>4. CASE Steps(i)[s] # "campaign"
  <2>1. db'.campaigns = db.campaigns /\ db'.deadLetters = db.deadLetters
    <3>1. CASE Steps(i)[s] = "user"
      BY <1>2, <3>1 DEF Perform, store!InsertUser, store!Database
    <3>2. CASE Steps(i)[s] = "reward"
      BY <1>2, <3>2 DEF Perform, store!UpsertReward, store!Database
    <3>3. CASE Steps(i)[s] = "transaction"
      BY <1>2, <3>3 DEF Perform, store!RecordTransaction, store!Database
    <3> QED
      BY <1>1, <1>4, <3>1, <3>2, <3>3 DEF Statement
  <2>2. ~(s = 1 /\ log[i].kind \in CampaignKinds)
    BY <1>4 DEF Steps, Program, CampaignKinds
  <2> QED
    BY <2>1, <2>2
<1> QED
  BY <1>3, <1>4

\* The only poll in flight carries the invariant
LEMMA OnePoll ==
  ASSUME SerialInv, ~overlapped, poll \in [Poll -> PollState],
         NEW p \in Poll, InFlight(p),
         NEW n, poll' = [poll EXCEPT ![p] = n], overlapped' = overlapped,
         SerialPoll(p)', RightUpTo(cursor)'
  PROVE  SerialInv'
<1>1. \A q \in Poll \ {p} : poll[q].pc = "idle" /\ poll'[q] = poll[q]
  BY DEF SerialInv, InFlight
<1>2. \A q \in Poll : SerialPoll(q)'
  BY <1>1 DEF SerialPoll
<1>3. \A q, r \in Poll : InFlight(q)' /\ InFlight(r)' => q = r
  BY <1>1 DEF InFlight
<1>4. (\A q, r \in Poll : InFlight(q) /\ InFlight(r) => q = r)'
  BY <1>3
<1> QED
  BY <1>2, <1>4 DEF SerialInv

\* While a poll works on event e, all that is below e stays right
LEMMA Working ==
  ASSUME IInv, SerialInv, ~overlapped, NEW p \in Poll, poll[p].pc \in {"apply", "deadletter"},
         NEW e, e = poll[p].next, UNCHANGED <<log, tip, cursor>>,
         db.deadLetters \subseteq db'.deadLetters, lost \subseteq lost',
         \A id \in CampaignId :
             \/ db'.campaigns[id] = db.campaigns[id]
             \/ id = log[e].campaign /\ log[e].kind \in CampaignKinds
  PROVE  /\ e \in 1..tip /\ tip \in Nat /\ cursor <= e - 1
         /\ RightUpTo(cursor)' /\ RightUpTo(e - 1)'
<1>1. e \in 1..tip /\ TypeOK /\ tip \in Nat /\ cursor \in 0..tip
  BY CurrentEvent DEF TypeOK
<1>2. cursor <= e - 1 /\ RightUpTo(e - 1) /\ RightUpTo(cursor)
  BY DEF SerialInv, SerialPoll, Position
<1>3. ASSUME NEW k \in 0..tip, k <= e - 1, RightUpTo(k) PROVE RightUpTo(k)'
  <2>1. ASSUME NEW id \in CampaignId, id = log[e].campaign, log[e].kind \in CampaignKinds
        PROVE  \E j \in CampaignEvents(id) : j > k
    <3>1. e \in CampaignEvents(id) /\ e > k
      BY <1>1, <1>3, <2>1 DEF CampaignEvents, CampaignKinds
    <3> QED
      BY <3>1
  <2>2. tip' \in Nat /\ tip <= tip'
    BY <1>1
  <2>3. \A id \in CampaignId : \/ db'.campaigns[id] = db.campaigns[id]
                               \/ \E j \in CampaignEvents(id) : j > k
    BY <2>1
  <2> QED
    BY <1>1, <1>3, <2>2, <2>3, RowsKept
<1>4. e - 1 \in 0..tip
  BY <1>1
<1>5. RightUpTo(cursor)'
  BY <1>1, <1>2, <1>3
<1>6. RightUpTo(e - 1)'
  BY <1>2, <1>3, <1>4
<1> QED
  BY <1>1, <1>2, <1>5, <1>6

\* A poll that is through with event e
LEMMA SerialNextEvent ==
  ASSUME IInv, SerialInv, ~overlapped, NEW p \in Poll, poll[p].pc \in {"apply", "deadletter"},
         NEW e, e = poll[p].next, UNCHANGED <<log, tip, cursor, overlapped>>,
         e \in 1..tip, tip \in Nat, cursor <= e - 1,
         RightUpTo(cursor)', RightUpTo(e - 1)',
         log[e].kind \in CampaignKinds =>
             RowShows(log[e].campaign, e)' \/ e \in db'.deadLetters \cup lost',
         poll' = [poll EXCEPT ![p] = NextEvent(poll[p])]
  PROVE  SerialInv'
<1>1. RightUpTo(e)'
  BY Advance
<1>2. poll \in [Poll -> PollState] /\ cursor \in Nat
  BY DEF IInv, TypeOK
<1> DEFINE n == NextEvent(poll[p])
<1>3. /\ n.pc = "save" => n.to = e
      /\ n.pc = "apply" => n.next = e + 1 /\ n.step = 1
      /\ n.pc \in {"save", "apply"}
  BY <1>2 DEF NextEvent, PollState
<1> HIDE DEF n
<1>4. poll' = [poll EXCEPT ![p] = n] /\ poll'[p] = n
  BY <1>2 DEF n
<1>5. Position(p)' = e
  BY <1>3, <1>4 DEF Position
<1>6. SerialPoll(p)'
  <2>1. cursor' <= e
    BY <1>2
  <2>2. RightUpTo(Position(p))'
    BY <1>1, <1>5 DEF RightUpTo
  <2>3. ~(poll'[p].step > 1) \/ poll'[p].pc # "apply"
    BY <1>3, <1>4
  <2> QED
    BY <1>5, <2>1, <2>2, <2>3 DEF SerialPoll
<1>7. InFlight(p)
  BY DEF InFlight
<1> QED
  BY <1>2, <1>4, <1>6, <1>7, OnePoll

\* Nothing that the invariant is about changes, but the chain may grow
LEMMA SerialQuiet ==
  ASSUME IInv, SerialInv, ~overlapped, UNCHANGED <<log, db, lost>>, tip' \in Nat, tip <= tip'
  PROVE  /\ RightUpTo(cursor)'  \/ cursor' # cursor
         /\ \A k \in 0..tip : RightUpTo(k) => RightUpTo(k)'
         /\ \A p \in Poll : poll'[p] = poll[p] /\ cursor' = cursor => SerialPoll(p)'
<1>1. TypeOK /\ cursor \in 0..tip /\ tip \in Nat
  BY IndexerAssumption DEF IInv, TypeOK
<1>2. \A k \in 0..tip : RightUpTo(k) => RightUpTo(k)'
  BY <1>1, RowsKept
<1>3. RightUpTo(cursor)' \/ cursor' # cursor
  BY <1>1, <1>2 DEF SerialInv, RightUpTo
<1>4. ASSUME NEW p \in Poll, poll'[p] = poll[p], cursor' = cursor PROVE SerialPoll(p)'
  <2>1. SerialPoll(p) /\ PollOK(p) /\ poll[p] \in PollState
    BY <1>1 DEF SerialInv, IInv, TypeOK
  <2>2. Position(p)' = Position(p)
    BY <1>4 DEF Position
  <2>3. poll[p].pc \in {"fetch", "apply", "deadletter", "save"} => Position(p) \in 0..tip
    BY <1>1, <2>1 DEF Position, PollOK, PollState
  <2>4. \A id, i : RowShows(id, i) => RowShows(id, i)'
    BY DEF RowShows, store!HasRow
  <2>5. poll[p].pc \in {"fetch", "apply", "deadletter", "save"} =>
            cursor' <= Position(p)' /\ RightUpTo(Position(p))'
    <3>1. ASSUME NEW k, k = Position(p), k \in 0..tip, RightUpTo(k) PROVE RightUpTo(Position(p))'
      BY <1>2, <2>2, <3>1 DEF RightUpTo
    <3> QED
      BY <1>4, <2>1, <2>2, <2>3, <3>1 DEF SerialPoll
  <2> QED
    BY <1>4, <2>1, <2>4, <2>5 DEF SerialPoll
<1> QED
  BY <1>2, <1>3, <1>4

\* The process starts and ends, the chain grows, the operator resets the cursor
LEMMA SerialProcess ==
  ASSUME IInv, SerialInv, Publish \/ Start \/ ProcessEnds \/ OperatorReset
  PROVE  SerialInv'
<1> SUFFICES ASSUME ~overlapped PROVE SerialInv'
  BY DEF SerialInv, Publish, Start, ProcessEnds, OperatorReset
<1>1. UNCHANGED <<log, db, lost>> /\ tip' \in Nat /\ tip <= tip' /\ tip \in Nat
  BY IndexerAssumption DEF IInv, TypeOK, Publish, Start, ProcessEnds, OperatorReset
<1>2. CASE Publish \/ Start
  <2>1. UNCHANGED <<poll, cursor>>
    BY <1>2 DEF Publish, Start
  <2>2. RightUpTo(cursor)' /\ \A p \in Poll : SerialPoll(p)'
    BY <1>1, <2>1, SerialQuiet
  <2> QED
    BY <2>1, <2>2 DEF SerialInv, InFlight
<1>3. CASE ProcessEnds
  <2>1. \A p \in Poll : poll'[p].pc = "idle"
    BY <1>3 DEF ProcessEnds, IdlePoll
  <2>2. RightUpTo(cursor)'
    BY <1>1, <1>3, SerialQuiet DEF ProcessEnds
  <2> QED
    BY <2>1, <2>2 DEF SerialInv, SerialPoll, InFlight
<1>4. CASE OperatorReset
  <2>1. UNCHANGED <<poll, tip>> /\ cursor' = 0
    BY <1>4 DEF OperatorReset
  <2>2. RightUpTo(cursor)'
    <3>1. ASSUME NEW id \in CampaignId PROVE (\E i \in CampaignEvents(id)' : i > 0) \/ ShowsLast(id)'
      BY <1>1 DEF CampaignEvents, ShowsLast
    <3> QED
      BY <2>1, <3>1 DEF RightUpTo
  <2>3. ASSUME NEW p \in Poll PROVE SerialPoll(p)'
    <3>1. PollOK(p) /\ SerialPoll(p) /\ poll[p] \in PollState
      BY DEF IInv, TypeOK, SerialInv
    <3>2. poll[p].pc \in {"fetch", "apply", "deadletter", "save"} =>
              Position(p) \in 0..tip /\ RightUpTo(Position(p))
      BY <1>1, <3>1 DEF Position, PollOK, PollState, SerialPoll
    <3>3. Position(p)' = Position(p)
      BY <2>1 DEF Position
    <3>4. ASSUME NEW k, k = Position(p), k \in 0..tip, RightUpTo(k)
          PROVE  RightUpTo(Position(p))' /\ cursor' <= Position(p)'
      BY <1>1, <2>1, <3>3, <3>4, SerialQuiet DEF RightUpTo
    <3>5. \A id, i : RowShows(id, i) => RowShows(id, i)'
      BY <1>1 DEF RowShows, store!HasRow
    <3> QED
      BY <1>1, <2>1, <3>1, <3>2, <3>4, <3>5 DEF SerialPoll
  <2> QED
    BY <2>1, <2>2, <2>3 DEF SerialInv, InFlight
<1> QED
  BY <1>2, <1>3, <1>4

\* A poll begins at the cursor, when no other is in flight
LEMMA SerialTick ==
  ASSUME IInv, SerialInv, NEW p \in Poll, Tick(p)
  PROVE  SerialInv'
<1> SUFFICES ASSUME ~overlapped' PROVE SerialInv'
  BY DEF SerialInv
<1>1. ~overlapped /\ \A q \in Poll : poll[q].pc = "idle"
  BY DEF Tick, InFlight
<1>2. UNCHANGED <<log, tip, db, lost, cursor>> /\ TypeOK /\ cursor \in 0..tip /\ tip \in Nat
  BY IndexerAssumption DEF Tick, IInv, TypeOK
<1>3. RightUpTo(cursor)'
  BY <1>1, <1>2, SerialQuiet
<1>4. PICK n \in PollState :
        /\ poll' = [poll EXCEPT ![p] = n]
        /\ \/ n.pc = "fetch" /\ n.to = cursor
           \/ n.pc = "backoff"
  BY PollChoices DEF Tick, FailPoll, IdlePoll
<1>5. poll'[p] = n /\ \A q \in Poll \ {p} : poll'[q].pc = "idle"
  BY <1>1, <1>2, <1>4 DEF TypeOK
<1>6. SerialPoll(p)'
  <2>1. CASE n.pc = "backoff"
    BY <1>5, <2>1 DEF SerialPoll
  <2>2. CASE n.pc = "fetch" /\ n.to = cursor
    <3>1. Position(p)' = cursor'
      BY <1>2, <1>5, <2>2 DEF Position
    <3>2. RightUpTo(Position(p))'
      BY <1>3, <3>1 DEF RightUpTo
    <3> QED
      BY <1>2, <1>5, <2>2, <3>1, <3>2 DEF SerialPoll
  <2> QED
    BY <1>4, <2>1, <2>2
<1>7. \A q \in Poll : SerialPoll(q)'
  BY <1>5, <1>6 DEF SerialPoll
<1>8. (\A q, r \in Poll : InFlight(q) /\ InFlight(r) => q = r)'
  BY <1>5 DEF InFlight
<1> QED
  BY <1>3, <1>7, <1>8 DEF SerialInv

\* A poll that ends or falls asleep leaves the cursor right
LEMMA SerialRest ==
  ASSUME IInv, SerialInv, ~overlapped, NEW p \in Poll, InFlight(p), overlapped' = overlapped,
         FailPoll(p) \/ EndPoll(p), RightUpTo(cursor)'
  PROVE  SerialInv'
<1>1. poll \in [Poll -> PollState]
  BY DEF IInv, TypeOK
<1>2. PICK n \in PollState : poll' = [poll EXCEPT ![p] = n] /\ n.pc \in {"idle", "backoff"}
  BY PollChoices DEF FailPoll, EndPoll, IdlePoll
<1>3. SerialPoll(p)'
  BY <1>1, <1>2 DEF SerialPoll
<1> QED
  BY <1>1, <1>2, <1>3, OnePoll

LEMMA SerialFetch ==
  ASSUME IInv, SerialInv, ~overlapped, NEW p \in Poll, Fetch(p)
  PROVE  SerialInv'
<1>1. /\ UNCHANGED <<log, tip, db, lost, cursor, overlapped>> /\ InFlight(p)
      /\ TypeOK /\ tip \in Nat /\ cursor \in 0..tip /\ poll \in [Poll -> PollState]
  BY IndexerAssumption DEF Fetch, InFlight, IInv, TypeOK
<1>2. RightUpTo(cursor)' /\ \A k \in 0..tip : RightUpTo(k) => RightUpTo(k)'
  BY <1>1, SerialQuiet
<1>3. CASE FailPoll(p) \/ EndPoll(p)
  BY <1>1, <1>2, <1>3, SerialRest
<1>4. CASE poll' = [poll EXCEPT ![p] = FirstEvent(p, BatchEnd(poll[p].to))]
  <2>1. PICK k : k = poll[p].to
    OBVIOUS
  <2>2. k \in 0..tip /\ cursor <= k /\ RightUpTo(k)
    BY <2>1 DEF Fetch, IInv, PollOK, SerialInv, SerialPoll, Position
  <2> DEFINE n == FirstEvent(p, BatchEnd(poll[p].to))
  <2>3. n.pc = "apply" /\ n.next = k + 1 /\ n.step = 1
    BY <2>1 DEF FirstEvent
  <2> HIDE DEF n
  <2>4. poll' = [poll EXCEPT ![p] = n] /\ poll'[p] = n
    BY <1>1, <1>4 DEF n
  <2>5. Position(p)' = k
    BY <1>1, <2>2, <2>3, <2>4 DEF Position
  <2>6. RightUpTo(Position(p))'
    BY <1>2, <2>2, <2>5 DEF RightUpTo
  <2>7. SerialPoll(p)'
    BY <1>1, <2>2, <2>3, <2>4, <2>5, <2>6 DEF SerialPoll
  <2> QED
    BY <1>1, <1>2, <2>4, <2>7, OnePoll
<1> QED
  BY <1>3, <1>4 DEF Fetch

LEMMA SerialSave ==
  ASSUME IInv, SerialInv, ~overlapped, NEW p \in Poll, Save(p) \/ WakeUp(p)
  PROVE  SerialInv'
<1>1. /\ UNCHANGED <<log, tip, db, lost, overlapped>> /\ InFlight(p)
      /\ TypeOK /\ tip \in Nat /\ cursor \in 0..tip
  BY IndexerAssumption DEF Save, WakeUp, InFlight, IInv, TypeOK
<1>2. RightUpTo(cursor)' \/ cursor' # cursor
  BY <1>1, SerialQuiet
<1>3. CASE cursor' = cursor
  BY <1>1, <1>2, <1>3, SerialRest DEF Save, WakeUp
<1>4. CASE poll[p].pc = "save" /\ cursor' = poll[p].to /\ EndPoll(p)
  <2>1. PICK k : k = poll[p].to
    OBVIOUS
  <2>2. k \in 0..tip /\ RightUpTo(k)
    BY <1>4, <2>1 DEF IInv, PollOK, SerialInv, SerialPoll, Position
  <2>3. RightUpTo(k)'
    BY <1>1, <2>2, SerialQuiet
  <2>4. RightUpTo(cursor)'
    BY <1>4, <2>1, <2>3 DEF RightUpTo
  <2> QED
    BY <1>1, <1>4, <2>4, SerialRest
<1> QED
  BY <1>3, <1>4 DEF Save, WakeUp

LEMMA SerialIgnore ==
  ASSUME IInv, SerialInv, ~overlapped, NEW p \in Poll, Ignore(p)
  PROVE  SerialInv'
<1>1. PICK e : e = poll[p].next
  OBVIOUS
<1>2. /\ UNCHANGED <<log, tip, db, lost, cursor, overlapped>> /\ poll[p].pc = "apply"
      /\ poll' = [poll EXCEPT ![p] = NextEvent(poll[p])]
  BY DEF Ignore, Applying
<1>3. /\ e \in 1..tip /\ tip \in Nat /\ cursor <= e - 1
      /\ RightUpTo(cursor)' /\ RightUpTo(e - 1)'
  BY <1>1, <1>2, Working
<1>4. log[e].kind \notin CampaignKinds
  BY <1>1 DEF Ignore, Steps, Program, CampaignKinds
<1> QED
  BY <1>1, <1>2, <1>3, <1>4, SerialNextEvent

\* An attempt is over: the next one starts with the first statement
LEMMA SerialNextAttempt ==
  ASSUME IInv, SerialInv, ~overlapped, NEW p \in Poll, poll[p].pc = "apply",
         NEW e, e = poll[p].next, UNCHANGED <<log, tip, cursor, overlapped>>,
         cursor <= e - 1, RightUpTo(cursor)', RightUpTo(e - 1)',
         poll' = [poll EXCEPT ![p] = NextAttempt(poll[p])]
  PROVE  SerialInv'
<1> DEFINE n == NextAttempt(poll[p])
<1>1. poll \in [Poll -> PollState]
  BY DEF IInv, TypeOK
<1>2. n.pc \in {"apply", "deadletter"} /\ n.next = e /\ (n.pc = "apply" => n.step = 1)
  BY <1>1 DEF NextAttempt, PollState
<1> HIDE DEF n
<1>3. poll' = [poll EXCEPT ![p] = n] /\ poll'[p] = n
  BY <1>1 DEF n
<1>4. Position(p)' = e - 1
  BY <1>2, <1>3 DEF Position
<1>5. RightUpTo(Position(p))'
  BY <1>4 DEF RightUpTo
<1>6. SerialPoll(p)'
  BY <1>2, <1>3, <1>4, <1>5 DEF SerialPoll
<1>7. InFlight(p)
  BY DEF InFlight
<1> QED
  BY <1>1, <1>3, <1>6, <1>7, OnePoll

LEMMA SerialRefused ==
  ASSUME IInv, SerialInv, ~overlapped, NEW p \in Poll, Refused(p)
  PROVE  SerialInv'
<1>1. PICK e : e = poll[p].next
  OBVIOUS
<1>2. /\ UNCHANGED <<log, tip, db, lost, cursor, overlapped>> /\ poll[p].pc = "apply"
      /\ poll' = [poll EXCEPT ![p] = NextAttempt(poll[p])]
  BY DEF Refused, Applying
<1>3. cursor <= e - 1 /\ RightUpTo(cursor)' /\ RightUpTo(e - 1)'
  BY <1>1, <1>2, Working
<1> QED
  BY <1>1, <1>2, <1>3, SerialNextAttempt

LEMMA SerialAttemptFails ==
  ASSUME IInv, SerialInv, ~overlapped, NEW p \in Poll, AttemptFails(p)
  PROVE  SerialInv'
<1>1. PICK e, s : e = poll[p].next /\ s = poll[p].step
  OBVIOUS
<1>2. /\ UNCHANGED <<log, tip, lost, cursor, overlapped>> /\ Applying(p)
      /\ poll' = [poll EXCEPT ![p] = NextAttempt(poll[p])] /\ s <= Len(Steps(e))
      /\ db' = db \/ (Accepted(db, e, s) /\ db' = Perform(db, e, s))
  BY <1>1 DEF AttemptFails
<1>3. TypeOK /\ e \in 1..tip /\ s \in 1..Len(Steps(e))
  BY <1>1, <1>2, CurrentEvent, ProgramShape DEF Applying, PollState
<1>4. /\ db.deadLetters \subseteq db'.deadLetters
      /\ \A id \in CampaignId : \/ db'.campaigns[id] = db.campaigns[id]
                                \/ id = log[e].campaign /\ log[e].kind \in CampaignKinds
  BY <1>2, <1>3, PerformRows
<1>5. cursor <= e - 1 /\ RightUpTo(cursor)' /\ RightUpTo(e - 1)'
  BY <1>1, <1>2, <1>4, Working DEF Applying
<1> QED
  BY <1>1, <1>2, <1>5, SerialNextAttempt DEF Applying

LEMMA SerialDeadLetter ==
  ASSUME IInv, SerialInv, ~overlapped, NEW p \in Poll, DeadLetter(p)
  PROVE  SerialInv'
<1>1. PICK e : e = poll[p].next
  OBVIOUS
<1>2. /\ UNCHANGED <<log, tip, cursor, overlapped>> /\ poll[p].pc = "deadletter"
      /\ poll' = [poll EXCEPT ![p] = NextEvent(poll[p])]
      /\ db \in store!Database
  BY DEF DeadLetter, IInv, TypeOK
<1>3. /\ db.deadLetters \subseteq db'.deadLetters /\ lost \subseteq lost'
      /\ db'.campaigns = db.campaigns /\ e \in db'.deadLetters \cup lost'
  BY <1>1, <1>2 DEF DeadLetter, store!InsertDeadLetter, store!Database
<1>4. /\ e \in 1..tip /\ tip \in Nat /\ cursor <= e - 1
      /\ RightUpTo(cursor)' /\ RightUpTo(e - 1)'
  BY <1>1, <1>2, <1>3, Working
<1> QED
  BY <1>1, <1>2, <1>3, <1>4, SerialNextEvent

LEMMA SerialApply ==
  ASSUME IInv, SerialInv, ~overlapped, NEW p \in Poll, Apply(p)
  PROVE  SerialInv'
<1>1. PICK e, s : e = poll[p].next /\ s = poll[p].step
  OBVIOUS
<1>2. /\ UNCHANGED <<log, tip, lost, cursor, overlapped>> /\ Applying(p)
      /\ s <= Len(Steps(e)) /\ Accepted(db, e, s) /\ db' = Perform(db, e, s)
      /\ s = Len(Steps(e)) => poll' = [poll EXCEPT ![p] = NextEvent(poll[p])]
      /\ s # Len(Steps(e)) => poll' = [poll EXCEPT ![p] = [poll[p] EXCEPT !.step = s + 1]]
  BY <1>1 DEF Apply, NextStatement
<1>3. TypeOK /\ e \in 1..tip /\ s \in 1..Len(Steps(e)) /\ s \in Nat
      /\ poll \in [Poll -> PollState]
  <2>1. TypeOK /\ e \in 1..tip /\ poll[p] \in PollState
    BY <1>1, <1>2, CurrentEvent DEF Applying
  <2>2. s \in 1..3 /\ Len(Steps(e)) \in 0..3
    BY <1>1, <2>1, ProgramShape DEF PollState
  <2> QED
    BY <1>2, <2>1, <2>2 DEF TypeOK
<1>4. /\ db.deadLetters \subseteq db'.deadLetters
      /\ \A id \in CampaignId : \/ db'.campaigns[id] = db.campaigns[id]
                                \/ id = log[e].campaign /\ log[e].kind \in CampaignKinds
      /\ s = 1 /\ log[e].kind \in CampaignKinds => RowShows(log[e].campaign, e)'
      /\ s > 1 => db'.campaigns = db.campaigns
  BY <1>2, <1>3, PerformRows
<1>5. /\ tip \in Nat /\ cursor <= e - 1 /\ RightUpTo(cursor)' /\ RightUpTo(e - 1)'
  BY <1>1, <1>2, <1>4, Working DEF Applying
<1>6. log[e].kind \in CampaignKinds => RowShows(log[e].campaign, e)'
  <2>1. CASE s > 1 /\ log[e].kind \in CampaignKinds
    <3>1. RowShows(log[e].campaign, e)
      BY <1>1, <1>2, <2>1 DEF SerialInv, SerialPoll, Applying
    <3> QED
      BY <1>2, <1>4, <2>1, <3>1 DEF RowShows, store!HasRow
  <2> QED
    BY <1>3, <1>4, <2>1
<1>7. CASE s = Len(Steps(e))
  BY <1>1, <1>2, <1>3, <1>5, <1>6, <1>7, SerialNextEvent DEF Applying
<1>8. CASE s # Len(Steps(e))
  <2> DEFINE n == [poll[p] EXCEPT !.step = s + 1]
  <2>1. n.pc = "apply" /\ n.next = e
    BY <1>1, <1>2, <1>3 DEF Applying, PollState
  <2> HIDE DEF n
  <2>2. poll' = [poll EXCEPT ![p] = n] /\ poll'[p] = n
    BY <1>2, <1>3, <1>8 DEF n
  <2>3. Position(p)' = e - 1
    BY <2>1, <2>2 DEF Position
  <2>4. RightUpTo(Position(p))'
    BY <1>5, <2>3 DEF RightUpTo
  <2>5. SerialPoll(p)'
    BY <1>2, <1>5, <1>6, <2>1, <2>2, <2>3, <2>4 DEF SerialPoll, RowShows
  <2>6. InFlight(p)
    BY <1>2 DEF InFlight, Applying
  <2> QED
    BY <1>2, <1>3, <1>5, <2>2, <2>5, <2>6, OnePoll
<1> QED
  BY <1>7, <1>8

LEMMA SerialNext == IInv /\ SerialInv /\ [Next]_vars => SerialInv'
<1> SUFFICES ASSUME IInv, SerialInv, [Next]_vars PROVE SerialInv'
  OBVIOUS
<1>1. CASE Publish \/ Start \/ ProcessEnds \/ OperatorReset
  BY <1>1, SerialProcess
<1>2. ASSUME NEW p \in Poll, Tick(p) PROVE SerialInv'
  BY <1>2, SerialTick
<1>3. ASSUME NEW p \in Poll, PollStep(p) PROVE SerialInv'
  <2>1. UNCHANGED overlapped
    BY <1>3 DEF PollStep, Fetch, Ignore, Apply, Refused, AttemptFails, DeadLetter, Save, WakeUp
  <2>2. CASE overlapped
    BY <2>1, <2>2 DEF SerialInv
  <2>3. CASE ~overlapped
    BY <1>3, <2>3, SerialFetch, SerialIgnore, SerialApply, SerialRefused, SerialAttemptFails,
       SerialDeadLetter, SerialSave DEF PollStep
  <2> QED
    BY <2>2, <2>3
<1>4. CASE UNCHANGED vars
  <2> SUFFICES ASSUME ~overlapped PROVE SerialInv'
    BY <1>4 DEF SerialInv, vars
  <2>1. UNCHANGED <<log, db, lost, poll, cursor>> /\ tip' \in Nat /\ tip <= tip'
    BY <1>4, IndexerAssumption DEF vars, IInv, TypeOK
  <2>2. RightUpTo(cursor)' /\ \A p \in Poll : SerialPoll(p)'
    BY <2>1, SerialQuiet
  <2> QED
    BY <2>1, <2>2 DEF SerialInv, InFlight
<1> QED
  BY <1>1, <1>2, <1>3, <1>4 DEF Next

\* A campaign's row shows what its last event says once the indexer has caught
\* up and rests, for any crashes, resets and replays, if no polls overlapped and
\* no event of the campaign was set aside.
THEOREM SerialPollsCorrect == Spec => []SerialPollsMatchChain
<1>1. Init => SerialInv
  <2> SUFFICES ASSUME Init PROVE SerialInv
    OBVIOUS
  <2>1. \A id \in CampaignId : CampaignEvents(id) = {}
    BY DEF Init, CampaignEvents
  <2>2. RightUpTo(cursor) /\ \A p \in Poll : poll[p].pc = "idle"
    BY <2>1 DEF Init, RightUpTo, ShowsLast, IdlePoll
  <2> QED
    BY <2>2 DEF SerialInv, SerialPoll, InFlight
<1>2. IInv /\ SerialInv => SerialPollsMatchChain
  <2> SUFFICES ASSUME IInv, SerialInv, ~overlapped, cursor = tip, NEW id \in CampaignId
               PROVE  ShowsLast(id)
    BY DEF SerialPollsMatchChain, ShowsLast, RowShows
  <2>1. ~(\E i \in CampaignEvents(id) : i > cursor)
    BY IndexerAssumption DEF CampaignEvents, IInv, TypeOK
  <2> QED
    BY <2>1 DEF SerialInv, RightUpTo
<1> QED
  BY <1>1, <1>2, Invariance, SerialNext, PTL DEF Spec
=============================================================================
