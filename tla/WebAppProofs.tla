------------------------------ MODULE WebAppProofs ------------------------------
(***************************************************************************)
(* The safety of WebApp, for any accounts, scenarios, campaigns and        *)
(* number of invocations: what the user is told is what the ledger did, a  *)
(* page at rest shows what is selected, and the types.  The inductive      *)
(* invariant is Inv below.  Its two halves hardly meet.  Of the            *)
(* invocations (SessionInv) it says that the time a transaction has left   *)
(* is covered by the attempts left to poll it, that a sequence number is   *)
(* never ahead of the ledger and counts the transactions included, and     *)
(* which page each one came from.  Of the page (PageOK) it says what its   *)
(* newest question asks for.  The pages matter to the invocations only in  *)
(* that they begin one for a connected account or end their handler, the   *)
(* invocations to the pages only in that they release a button or reload   *)
(* a list: lemmas for both directions.                                     *)
(***************************************************************************)
EXTENDS WebApp, SequenceTheorems, FiniteSetTheorems, TLAPS

\* The ledger would include r, given the sequence numbers s
Includable(r, s) == r.left > 0 /\ r.signer = r.key /\ r.sequence = s[r.key]

\* Before it is sent an invocation has no outcome
Early(r) ==
    r.stage \in {"free", "preparing", "signing", "sending"} =>
        r.tx = "none" /\ r.told = "nothing" /\ r.polls = 0

\* A sequence number that was read is never ahead of the ledger
NotAhead(r, s) ==
    r.stage \in {"signing", "sending"} \/ r.tx = "pending" =>
        r.key \in Account /\ r.sequence <= s[r.key]

\* While it polls, the time that is left is covered by the attempts that are left
PollsCover(r) ==
    /\ r.stage \in {"polling", "waiting"} => r.left + r.polls <= MaxPolls /\ r.told = "nothing"
    /\ r.stage = "waiting" => r.polls < MaxPolls

\* A handler that reloads after its invocation has toasted its success
SaidSuccess(r) == r.stage \in {"confirmed", "balance"} => r.told = "success"

\* What ReportsAreTrue says of one invocation
TrueReport(r, s) ==
    /\ r.told \in {"success", "both"} => r.tx = "applied"
    /\ r.told = "failure" /\ ~r.doubt =>
           r.tx # "applied" /\ ~(r.tx = "pending" /\ Includable(r, s))

CallOK(r, s) ==
    /\ r \in CallState
    /\ r.stage # "free" => r.key \in Account
    /\ Early(r) /\ NotAhead(r, s) /\ PollsCover(r) /\ SaidSuccess(r) /\ TrueReport(r, s)

ClientInv ==
    /\ call = [c \in Call |-> call[c]]
    /\ ledger \in [claimed : {ledger.claimed}, sequence : [Account -> Nat]]
    /\ \A c \in Call : CallOK(call[c], ledger.sequence)

WalletInv ==
    /\ wallet \in WalletState
    /\ freighter \in [active : Account, allowed : BOOLEAN]

-----------------------------------------------------------------------------
(* One invocation *)

\* An invocation that changes alone, and rightly, keeps the invariant
LEMMA OneCall ==
    ASSUME ClientInv, NEW c \in Call,
           call' = [call EXCEPT ![c] = call'[c]],
           CallOK(call'[c], ledger.sequence), UNCHANGED ledger
    PROVE  ClientInv'
<1>1. call' = [d \in Call |-> call'[d]]
  BY DEF ClientInv
<1>2. ASSUME NEW d \in Call PROVE CallOK(call'[d], ledger.sequence)
  <2>1. CASE d = c
    BY <2>1
  <2>2. CASE d # c
    <3>1. call'[d] = call[d]
      BY <2>2 DEF ClientInv
    <3> QED
      BY <3>1 DEF ClientInv
  <2> QED
    BY <2>1, <2>2
<1> QED
  BY <1>1, <1>2 DEF ClientInv

\* Ended keeps what the ledger may still do, and nothing else
LEMMA EndedOK ==
    ASSUME NEW r, NEW s, CallOK(r, s), r.key \in Account,
           NEW stage \in {"confirmed", "done"},
           NEW told \in {"success", "failure"}, stage = "confirmed" => told = "success",
           TrueReport([r EXCEPT !.told = told], s)
    PROVE  CallOK(Ended(r, stage, told), s)
<1> DEFINE e == Ended(r, stage, told)
<1>0. r \in CallState
  BY DEF CallOK
<1>1. CASE r.tx = "pending"
  <2>1. e = [r EXCEPT !.stage = stage, !.told = told, !.polls = 0]
    BY <1>1 DEF Ended
  <2>2. e = [stage |-> stage, key |-> r.key, what |-> r.what, visit |-> r.visit,
             signer |-> r.signer, sequence |-> r.sequence, left |-> r.left, polls |-> 0,
             tx |-> r.tx, told |-> told, doubt |-> r.doubt]
    BY <1>0, <2>1 DEF CallState
  <2>3. e \in CallState
    <3>1. e = [r EXCEPT !.stage = stage, !.told = told, !.polls = 0] /\ 0 \in 0..MaxPolls
      BY <2>1, ClientAssumption
    <3> QED
      BY <1>0, <3>1 DEF CallState
  <2>4. Early(e) /\ PollsCover(e) /\ SaidSuccess(e)
    BY <2>2 DEF Early, PollsCover, SaidSuccess
  <2>5. NotAhead(e, s)
    BY <1>1, <2>2 DEF CallOK, NotAhead
  <2>6. TrueReport(e, s)
    BY <1>0, <2>2 DEF TrueReport, Includable, CallState
  <2> QED
    BY <2>2, <2>3, <2>4, <2>5, <2>6 DEF CallOK
<1>2. CASE r.tx # "pending"
  <2>1. e = [FreeCall EXCEPT !.stage = stage, !.told = told, !.key = r.key, !.what = r.what,
                             !.visit = r.visit, !.tx = r.tx, !.doubt = r.doubt]
    BY <1>2 DEF Ended
  <2>2. e = [stage |-> stage, key |-> r.key, what |-> r.what, visit |-> r.visit, signer |-> None,
             sequence |-> 0, left |-> TimeBound, polls |-> 0, tx |-> r.tx, told |-> told,
             doubt |-> r.doubt]
    BY <2>1 DEF FreeCall
  <2>3. e \in CallState
    <3>1. /\ r.key \in Account \cup {None} /\ r.what \in CampaignId \cup {None} /\ r.visit \in Nat
          /\ r.tx \in {"none", "pending", "applied", "failed"} /\ r.doubt \in BOOLEAN
      BY <1>0 DEF CallState
    <3>2. TimeBound \in 0..TimeBound /\ 0 \in 0..MaxPolls
      BY ClientAssumption
    <3> QED
      BY <2>2, <3>1, <3>2 DEF CallState
  <2>4. Early(e) /\ PollsCover(e) /\ SaidSuccess(e)
    BY <2>2 DEF Early, PollsCover, SaidSuccess
  <2>5. NotAhead(e, s)
    BY <1>2, <2>2 DEF NotAhead
  <2>6. TrueReport(e, s)
    BY <1>0, <1>2, <2>2 DEF TrueReport, CallState
  <2> QED
    BY <2>2, <2>3, <2>4, <2>5, <2>6 DEF CallOK
<1> QED
  BY <1>1, <1>2

\* Throwing with no transaction that could be applied, or in doubt
LEMMA ThrowsOK ==
    ASSUME ClientInv, NEW c \in Call, Throws(c), UNCHANGED ledger,
           call[c].stage # "free",
           call[c].tx # "applied", call[c].tx = "pending" => ~Acceptable(c)
    PROVE  ClientInv'
<1> DEFINE r == call[c]
           s == ledger.sequence
<1>1. CallOK(r, s)
  BY DEF ClientInv
<1>2. TrueReport([r EXCEPT !.told = "failure"], s)
  BY <1>1 DEF CallOK, CallState, TrueReport, Includable, Acceptable
<1>3. call' = [call EXCEPT ![c] = Ended(r, "done", "failure")]
  BY DEF Throws
<1>4. call'[c] = Ended(r, "done", "failure")
  BY <1>3 DEF ClientInv
<1>5. CallOK(call'[c], s)
  BY <1>1, <1>2, <1>4, EndedOK DEF CallOK
<1> QED
  BY <1>3, <1>4, <1>5, OneCall

\* An invocation in doubt may say failure of anything
LEMMA DoubtOK ==
    ASSUME NEW r, NEW s, CallOK(r, s), r.key \in Account, r.doubt = TRUE
    PROVE  CallOK(Ended(r, "done", "failure"), s)
<1>1. TrueReport([r EXCEPT !.told = "failure"], s)
  BY DEF CallOK, CallState, TrueReport
<1> QED
  BY <1>1, EndedOK

LEMMA ThrowsInDoubtOK ==
    ASSUME ClientInv, NEW c \in Call, ThrowsInDoubt(c), UNCHANGED ledger,
           call[c].stage # "free", call[c].told = "nothing"
    PROVE  ClientInv'
<1> DEFINE r == [call[c] EXCEPT !.doubt = TRUE]
           s == ledger.sequence
<1>1. CallOK(call[c], s)
  BY DEF ClientInv
<1>2. r.doubt = TRUE /\ r.key \in Account
  BY <1>1 DEF CallOK, CallState
<1>3. CallOK(r, s)
  BY <1>1 DEF CallOK, CallState, Early, NotAhead, PollsCover, SaidSuccess, TrueReport, Includable
<1>4. call' = [call EXCEPT ![c] = Ended(r, "done", "failure")]
  BY DEF ThrowsInDoubt
<1>5. call'[c] = Ended(r, "done", "failure")
  BY <1>4 DEF ClientInv
<1>6. CallOK(call'[c], s)
  BY <1>2, <1>3, <1>5, DoubtOK
<1> QED
  BY <1>4, <1>5, <1>6, OneCall

-----------------------------------------------------------------------------
(* The steps of an invocation *)

LEMMA PrepareKeeps == ASSUME ClientInv, NEW c \in Call, Prepare(c) PROVE ClientInv'
<1>1. CallOK(call[c], ledger.sequence)
  BY DEF ClientInv
<1>2. CASE Throws(c)
  <2>1. call[c].tx = "none" /\ call[c].stage # "free" /\ UNCHANGED ledger
    BY <1>1 DEF Prepare, CallOK, Early
  <2> QED
    BY <1>2, <2>1, ThrowsOK
<1>3. CASE call' = [call EXCEPT ![c].stage = "signing",
                                ![c].sequence = ledger.sequence[call[c].key]]
  <2> DEFINE r == [call[c] EXCEPT !.stage = "signing", !.sequence = ledger.sequence[call[c].key]]
  <2>1. call'[c] = r /\ call' = [call EXCEPT ![c] = r]
    BY <1>3 DEF ClientInv
  <2>2. ledger.sequence[call[c].key] \in Nat
    BY <1>1 DEF Prepare, CallOK, ClientInv
  <2>3. /\ r.stage = "signing" /\ r.sequence = ledger.sequence[r.key] /\ r.key \in Account
        /\ r.tx = "none" /\ r.told = "nothing" /\ r.polls = 0
    BY <1>1 DEF Prepare, CallOK, CallState, Early
  <2>4. r \in CallState
    BY <1>1, <2>2 DEF CallOK, CallState
  <2>5. CallOK(r, ledger.sequence)
    BY <2>2, <2>3, <2>4 DEF CallOK, Early, NotAhead, PollsCover, SaidSuccess, TrueReport
  <2>6. UNCHANGED ledger
    BY DEF Prepare
  <2> QED
    BY <2>1, <2>5, <2>6, OneCall
<1> QED
  BY <1>2, <1>3 DEF Prepare

\* The time that the popup takes is taken from the transaction's
LEMMA HesitateKeeps == ASSUME ClientInv, NEW c \in Call, UserHesitates(c) PROVE ClientInv'
<1> DEFINE r == [call[c] EXCEPT !.left = @ - 1]
<1>1. CallOK(call[c], ledger.sequence)
  BY DEF ClientInv
<1>2. call'[c] = r /\ call' = [call EXCEPT ![c] = r] /\ UNCHANGED ledger
  BY DEF UserHesitates, ClientInv
<1>3. r.left \in 0..TimeBound
  BY <1>1, ClientAssumption DEF UserHesitates, CallOK, CallState
<1>4. CallOK(r, ledger.sequence)
  BY <1>1, <1>3 DEF UserHesitates, CallOK, CallState, Early, NotAhead, PollsCover, SaidSuccess, TrueReport
<1> QED
  BY <1>2, <1>4, OneCall

LEMMA SignKeeps == ASSUME WalletInv, ClientInv, NEW c \in Call, Sign(c) PROVE ClientInv'
<1>1. CallOK(call[c], ledger.sequence) /\ UNCHANGED ledger
  BY DEF ClientInv, Sign
<1>2. CASE Throws(c)
  <2>1. call[c].tx = "none" /\ call[c].stage # "free"
    BY <1>1 DEF Sign, CallOK, Early
  <2> QED
    BY <1>1, <1>2, <2>1, ThrowsOK
<1>3. CASE call' = [call EXCEPT ![c].stage = "sending", ![c].signer = freighter.active]
  <2> DEFINE r == [call[c] EXCEPT !.stage = "sending", !.signer = freighter.active]
  <2>1. call'[c] = r /\ call' = [call EXCEPT ![c] = r]
    BY <1>3 DEF ClientInv
  <2>2. CallOK(r, ledger.sequence)
    BY <1>1 DEF WalletInv, Sign, CallOK, CallState, Early, NotAhead, PollsCover, SaidSuccess, TrueReport
  <2> QED
    BY <1>1, <2>1, <2>2, OneCall
<1> QED
  BY <1>2, <1>3 DEF Sign

\* Polling starts with all attempts left, which cover the whole time bound
LEMMA SendKeeps == ASSUME ClientInv, NEW c \in Call, Send(c) PROVE ClientInv'
<1> DEFINE r == call[c]
           s == ledger.sequence
<1>1. CallOK(r, s) /\ UNCHANGED ledger /\ r.stage = "sending"
  BY DEF ClientInv, Send
<1>2. r.tx = "none" /\ r.told = "nothing" /\ r.polls = 0 /\ r.key \in Account
  BY <1>1 DEF CallOK, Early
<1>3. CASE Throws(c)
  BY <1>1, <1>2, <1>3, ThrowsOK
<1>4. CASE ThrowsInDoubt(c)
  BY <1>1, <1>2, <1>4, ThrowsInDoubtOK
<1>5. CASE call' = [call EXCEPT ![c] =
                      Ended([@ EXCEPT !.doubt = TRUE, !.tx = "pending"], "done", "failure")]
  <2> DEFINE q == [r EXCEPT !.doubt = TRUE, !.tx = "pending"]
             p == [q EXCEPT !.stage = "done"]
  <2>1. CallOK(p, s) /\ p.doubt = TRUE /\ p.key \in Account
    BY <1>1, <1>2 DEF CallOK, CallState, Early, NotAhead, PollsCover, SaidSuccess, TrueReport
  <2>2. Ended(q, "done", "failure") = Ended(p, "done", "failure")
    BY <1>1 DEF Ended, CallOK, CallState
  <2>3. CallOK(Ended(p, "done", "failure"), s)
    BY <2>1, DoubtOK
  <2>4. call'[c] = Ended(q, "done", "failure") /\ call' = [call EXCEPT ![c] = call'[c]]
    BY <1>5 DEF ClientInv
  <2> QED
    BY <1>1, <2>2, <2>3, <2>4, OneCall
<1>6. CASE \/ call' = [call EXCEPT ![c].stage = "polling"]
           \/ call' = [call EXCEPT ![c].stage = "polling", ![c].tx = "pending"]
  <2>1. PICK tx \in {"none", "pending"} : call'[c] = [r EXCEPT !.stage = "polling", !.tx = tx]
    <3>1. [r EXCEPT !.stage = "polling"] = [r EXCEPT !.stage = "polling", !.tx = "none"]
      BY <1>1, <1>2 DEF CallOK, CallState
    <3> QED
      BY <1>6, <3>1 DEF ClientInv
  <2> DEFINE q == [r EXCEPT !.stage = "polling", !.tx = tx]
  <2>2. r.left + 0 <= MaxPolls
    BY <1>1, ClientAssumption DEF CallOK, CallState
  <2>3. CallOK(q, s)
    BY <1>1, <1>2, <2>2 DEF CallOK, CallState, Early, NotAhead, PollsCover, SaidSuccess, TrueReport
  <2>4. call' = [call EXCEPT ![c] = call'[c]]
    BY <1>6 DEF ClientInv
  <2> QED
    BY <1>1, <2>1, <2>3, <2>4, OneCall
<1> QED
  BY <1>3, <1>4, <1>5, <1>6 DEF Send

\* Running out of attempts means that the transaction ran out of time
LEMMA PollKeeps == ASSUME ClientInv, NEW c \in Call, Poll(c) PROVE ClientInv'
<1> DEFINE r == call[c]
           s == ledger.sequence
<1>1. CallOK(r, s) /\ UNCHANGED ledger /\ r.stage = "polling"
  BY DEF ClientInv, Poll
<1>2. r.told = "nothing" /\ r.key \in Account
  BY <1>1 DEF CallOK, PollsCover
<1>3. CASE call[c].tx = "applied" /\ Returns(c)
  <2>1. TrueReport([r EXCEPT !.told = "success"], s)
    BY <1>1, <1>3 DEF CallOK, CallState, TrueReport
  <2>2. call' = [call EXCEPT ![c] = Ended(r, "confirmed", "success")]
    BY <1>3 DEF Returns
  <2>3. call'[c] = Ended(r, "confirmed", "success")
    BY <2>2 DEF ClientInv
  <2>4. CallOK(call'[c], s)
    BY <1>1, <1>2, <2>1, <2>3, EndedOK
  <2> QED
    BY <1>1, <2>2, <2>3, <2>4, OneCall
<1>4. CASE call[c].tx = "failed" /\ Throws(c)
  BY <1>1, <1>4, ThrowsOK
<1>5. CASE call[c].polls < MaxPolls /\ call' = [call EXCEPT ![c].stage = "waiting"]
  <2> DEFINE q == [r EXCEPT !.stage = "waiting"]
  <2>1. CallOK(q, s)
    BY <1>1, <1>5 DEF CallOK, CallState, Early, NotAhead, PollsCover, SaidSuccess, TrueReport, Includable
  <2>2. call'[c] = q /\ call' = [call EXCEPT ![c] = q]
    BY <1>5 DEF ClientInv
  <2> QED
    BY <1>1, <2>1, <2>2, OneCall
<1>6. CASE call[c].polls = MaxPolls /\ ~Included(c) /\ Throws(c)
  <2>1. ~(r.left > 0)
    BY <1>1, <1>6, ClientAssumption DEF CallOK, CallState, PollsCover
  <2>2. r.tx # "applied" /\ ~Acceptable(c)
    BY <1>6, <2>1 DEF Included, Acceptable
  <2> QED
    BY <1>1, <1>6, <2>2, ThrowsOK
<1>7. CASE ThrowsInDoubt(c)
  BY <1>1, <1>2, <1>7, ThrowsInDoubtOK
<1> QED
  BY <1>3, <1>4, <1>5, <1>6, <1>7 DEF Poll

\* A wait takes one attempt and, while there is any, one unit of the time
LEMMA WaitKeeps == ASSUME ClientInv, NEW c \in Call, Wait(c) PROVE ClientInv'
<1> DEFINE r == call[c]
           s == ledger.sequence
           left == IF r.left = 0 THEN 0 ELSE r.left - 1
           q == [r EXCEPT !.stage = "polling", !.polls = r.polls + 1, !.left = left]
<1>1. CallOK(r, s) /\ UNCHANGED ledger /\ r.stage = "waiting"
  BY DEF ClientInv, Wait
<1>2. call'[c] = q /\ call' = [call EXCEPT ![c] = q]
  BY DEF Wait, ClientInv
<1>3. /\ left \in 0..TimeBound /\ r.polls + 1 \in Nat
      /\ left + (r.polls + 1) <= MaxPolls /\ left <= r.left /\ r.polls + 1 \in 0..MaxPolls
  BY <1>1, ClientAssumption DEF CallOK, CallState, PollsCover
<1>4. q \in CallState
  BY <1>1, <1>3 DEF CallOK, CallState
<1>5. /\ q.stage = "polling" /\ q.told = "nothing" /\ q.tx = r.tx /\ q.key = r.key
      /\ q.sequence = r.sequence /\ q.polls = r.polls + 1 /\ q.left = left
  BY <1>1 DEF CallOK, CallState, PollsCover
<1>6. CallOK(q, s)
  BY <1>1, <1>3, <1>4, <1>5 DEF CallOK, Early, NotAhead, PollsCover, SaidSuccess, TrueReport
<1> QED
  BY <1>1, <1>2, <1>6, OneCall

\* A closed ledger moves one sequence number forward: what could not be
\* included before it cannot be after
LEMMA GrowsOK ==
    ASSUME NEW r, NEW s \in [Account -> Nat], NEW a \in Account, CallOK(r, s)
    PROVE  CallOK(r, [s EXCEPT ![a] = @ + 1])
<1> DEFINE t == [s EXCEPT ![a] = @ + 1]
<1>1. r \in CallState
  BY DEF CallOK
<1>2. ASSUME r.key \in Account, r.sequence <= s[r.key]
      PROVE  r.sequence <= t[r.key] /\ (r.sequence = t[r.key] => r.sequence = s[r.key])
  <2>1. r.sequence \in Nat /\ s[r.key] \in Nat /\ t[r.key] \in {s[r.key], s[r.key] + 1}
    BY <1>1, <1>2 DEF CallState
  <2> QED
    BY <1>2, <2>1
<1>3. NotAhead(r, t)
  BY <1>2 DEF CallOK, NotAhead
<1>4. TrueReport(r, t)
  BY <1>2 DEF CallOK, NotAhead, TrueReport, Includable
<1> QED
  BY <1>1, <1>3, <1>4 DEF CallOK

LEMMA LedgerKeeps == ASSUME ClientInv, NEW c \in Call, LedgerCloses(c) PROVE ClientInv'
<1> DEFINE r == call[c]
           s == ledger.sequence
           t == [s EXCEPT ![r.key] = @ + 1]
<1>1. CallOK(r, s) /\ s \in [Account -> Nat]
  BY DEF ClientInv
<1>2. r.tx = "pending" /\ Includable(r, s) /\ r.key \in Account
  BY <1>1 DEF LedgerCloses, Acceptable, Includable, CallOK, NotAhead
<1>3. ledger'.sequence = t /\ ledger' \in [claimed : {ledger'.claimed}, sequence : [Account -> Nat]]
  <2>1. ledger = [claimed |-> ledger.claimed, sequence |-> s]
    BY DEF ClientInv
  <2>2. \E set : ledger' = [claimed |-> set, sequence |-> t]
    BY <2>1 DEF LedgerCloses
  <2>3. t \in [Account -> Nat]
    BY <1>1, <1>2
  <2> QED
    BY <2>2, <2>3
<1>4. PICK tx \in {"applied", "failed"} : call' = [call EXCEPT ![c].tx = tx]
  BY DEF LedgerCloses
<1> DEFINE q == [r EXCEPT !.tx = tx]
<1>5. call' = [call EXCEPT ![c] = q] /\ call'[c] = q
  BY <1>4 DEF ClientInv
<1>6. CallOK(q, s)
  BY <1>1, <1>2 DEF CallOK, CallState, Early, NotAhead, PollsCover, SaidSuccess, TrueReport
<1>7. ASSUME NEW d \in Call PROVE CallOK(call'[d], t)
  <2>1. CallOK(call'[d], s)
    BY <1>5, <1>6 DEF ClientInv
  <2> QED
    BY <1>1, <1>2, <2>1, GrowsOK
<1>8. call' = [d \in Call |-> call'[d]]
  BY <1>5 DEF ClientInv
<1> QED
  BY <1>3, <1>7, <1>8 DEF ClientInv

LEMMA FreeCallOK == ASSUME NEW s PROVE CallOK(FreeCall, s) /\ FreeCall.stage = "free"
<1>1. PICK d \in BOOLEAN : FreeCall = [stage |-> "free", key |-> None, what |-> None, visit |-> 0,
                           signer |-> None, sequence |-> 0, left |-> TimeBound, polls |-> 0,
                           tx |-> "none", told |-> "nothing", doubt |-> d]
  <2>1. FreeCall = [stage |-> "free", key |-> None, what |-> None, visit |-> 0,
                    signer |-> None, sequence |-> 0, left |-> TimeBound, polls |-> 0,
                    tx |-> "none", told |-> "nothing", doubt |-> FALSE]
    BY Zenon DEF FreeCall
  <2> QED
    BY <2>1, Zenon
<1>2. FreeCall \in CallState
  BY <1>1, ClientAssumption DEF CallState
<1> QED
  BY <1>1, <1>2 DEF CallOK, Early, NotAhead, PollsCover, SaidSuccess, TrueReport

\* A page starts an invocation
LEMMA BegunOK ==
    ASSUME NEW r, NEW s, CallOK(r, s), r.stage = "free",
           NEW key \in Account, NEW what \in CampaignId \cup {None}, NEW visit \in Nat
    PROVE  CallOK([r EXCEPT !.stage = "preparing", !.key = key, !.what = what,
                            !.visit = visit], s)
<1> DEFINE q == [r EXCEPT !.stage = "preparing", !.key = key, !.what = what, !.visit = visit]
<1>1. q \in CallState
  BY DEF CallOK, CallState
<1>2. q.stage = "preparing" /\ q.key = key /\ q.tx = r.tx /\ q.told = r.told /\ q.polls = r.polls
  BY DEF CallOK, CallState
<1> QED
  BY <1>1, <1>2 DEF CallOK, Early, NotAhead, PollsCover, SaidSuccess, TrueReport

LEMMA BeginKeeps ==
    ASSUME ClientInv, NEW c \in Call, NEW key \in Account,
           NEW what \in CampaignId \cup {None}, NEW visit \in Nat,
           Begin(c, key, what, visit), UNCHANGED ledger
    PROVE  ClientInv'
<1> DEFINE q == [FreeCall EXCEPT !.stage = "preparing", !.key = key, !.what = what,
                                 !.visit = visit]
<1>1. call' = [call EXCEPT ![c] = q] /\ call'[c] = q
  BY DEF Begin, ClientInv
<1>2. CallOK(q, ledger.sequence)
  BY BegunOK, FreeCallOK
<1> QED
  BY <1>1, <1>2, OneCall

\* The handler of a claim goes on to its next await, ends, or ends with the
\* error of its reload, which is toasted as well
Resumed(q, r) ==
    /\ r.stage \in {"confirmed", "balance"}
    /\ \/ \E stage \in {"balance", "done"} : q = [r EXCEPT !.stage = stage]
       \/ r.stage = "confirmed" /\ q = [r EXCEPT !.stage = "done", !.told = "both"]

LEMMA ResumeKeeps ==
    ASSUME ClientInv, NEW c \in Call, NEW q, Resumed(q, call[c]),
           call' = [call EXCEPT ![c] = q], UNCHANGED ledger
    PROVE  ClientInv'
<1>1. CallOK(call[c], ledger.sequence)
  BY DEF ClientInv
<1>2. call' = [call EXCEPT ![c] = q] /\ call'[c] = q
  BY DEF ClientInv
<1>3. CallOK(q, ledger.sequence)
  <2>1. CASE \E stage \in {"balance", "done"} : q = [call[c] EXCEPT !.stage = stage]
    BY <1>1, <2>1 DEF Resumed, CallOK, CallState, Early, NotAhead, PollsCover, SaidSuccess,
                      TrueReport, Includable
  <2>2. CASE call[c].stage = "confirmed" /\ q = [call[c] EXCEPT !.stage = "done", !.told = "both"]
    BY <1>1, <2>2 DEF CallOK, CallState, Early, NotAhead, PollsCover, SaidSuccess,
                      TrueReport, Includable
  <2> QED
    BY <2>1, <2>2 DEF Resumed
<1> QED
  BY <1>2, <1>3, OneCall

LEMMA InvocationKeeps ==
    ASSUME WalletInv, ClientInv, NEW c \in Call,
           ClientStep(c) \/ UserHesitates(c) \/ LedgerCloses(c)
    PROVE  ClientInv'
  BY PrepareKeeps, SignKeeps, SendKeeps, PollKeeps, WaitKeeps, HesitateKeeps, LedgerKeeps
     DEF ClientStep

-----------------------------------------------------------------------------
(* The wallet *)

LEMMA WithKeyOK ==
    ASSUME NEW w \in WalletState, NEW k \in Account \cup {None}
    PROVE  WithKey(w, k) \in WalletState
<1>1. CASE k = w.key \/ k = None
  BY <1>1 DEF WithKey, WalletState
<1>2. CASE k # w.key /\ k # None
  <2>1. WithKey(w, k) = [w EXCEPT !.key = k, !.loading = TRUE,
                                  !.refreshing = [w.refreshing EXCEPT ![k] = @ + 1]]
    BY <1>2 DEF WithKey, Refreshing, WalletState
  <2>2. [w.refreshing EXCEPT ![k] = @ + 1] \in [Account -> Nat]
    BY <1>2 DEF WalletState
  <2> QED
    BY <2>1, <2>2 DEF WalletState
<1> QED
  BY <1>1, <1>2

LEMMA WalletKeeps == ASSUME WalletInv, WalletNext PROVE WalletInv'
<1> USE DEF WalletInv
<1>1. CASE LookupRead
  BY <1>1 DEF LookupRead, WalletState
<1>2. CASE LookupArrives
  <2>1. wallet.lookup \in Account \cup {None} /\ [wallet EXCEPT !.lookup = "done"] \in WalletState
    BY <1>2 DEF LookupArrives, WalletState
  <2> QED
    BY <1>2, <2>1, WithKeyOK DEF LookupArrives
<1>3. CASE ConnectClicked \/ CloseModal \/ ConnectRefused \/ ToggleVisibility
  <2>1. CASE ConnectClicked
    BY <2>1 DEF ConnectClicked, WalletState
  <2>2. CASE CloseModal \/ ConnectRefused
    BY <2>2 DEF CloseModal, ConnectRefused, WalletState
  <2>3. CASE ToggleVisibility
    BY <2>3 DEF ToggleVisibility, WalletState
  <2> QED
    BY <1>3, <2>1, <2>2, <2>3
<1>4. CASE ConnectApproved
  <2>1. [wallet EXCEPT !.connecting = FALSE] \in WalletState /\ freighter.active \in Account
    BY DEF WalletState
  <2>2. wallet' \in WalletState
    BY <1>4, <2>1, WithKeyOK DEF ConnectApproved
  <2> QED
    BY <1>4, <2>2 DEF ConnectApproved
<1>5. CASE Disconnect
  BY <1>5, WithKeyOK DEF Disconnect
<1>6. CASE IntervalFires
  <2>1. wallet.key \in Account
    BY <1>6 DEF IntervalFires, WalletState
  <2>2. [wallet.refreshing EXCEPT ![wallet.key] = @ + 1] \in [Account -> Nat]
    BY <2>1 DEF WalletState
  <2> QED
    BY <1>6, <2>2 DEF IntervalFires, Refreshing, WalletState
<1>7. ASSUME NEW a \in Account, SwitchAccount(a) PROVE WalletInv'
  BY <1>7 DEF SwitchAccount
<1>8. ASSUME NEW a \in Account, RefreshEnds(a) PROVE WalletInv'
  <2>1. [wallet.refreshing EXCEPT ![a] = @ - 1] \in [Account -> Nat]
    BY <1>8 DEF RefreshEnds, WalletState
  <2> QED
    BY <1>8, <2>1 DEF RefreshEnds, WalletState
<1> QED
  BY <1>1, <1>2, <1>3, <1>4, <1>5, <1>6, <1>7, <1>8 DEF WalletNext

-----------------------------------------------------------------------------
(* What an invocation keeps to its end: whose it is, what for and which page *)
(* started it                                                                *)

Continues(q, r) ==
    /\ q.key = r.key /\ q.what = r.what /\ q.visit = r.visit
    /\ r.stage # "free" /\ q.stage # "free" /\ (q.stage = "balance" => r.stage = "balance")

\* The transaction of r is on the ledger, applied or not
OnLedger(r) == r.tx \in {"applied", "failed"}

LEMMA EndedContinues ==
    ASSUME NEW r \in CallState, r.stage # "free", NEW stage \in {"confirmed", "done"}, NEW told
    PROVE  Continues(Ended(r, stage, told), r) /\ Ended(r, stage, told).tx = r.tx
<1>1. CASE r.tx = "pending"
  BY <1>1 DEF Ended, CallState, Continues
<1>2. CASE r.tx # "pending"
  <2>1. Ended(r, stage, told) =
            [FreeCall EXCEPT !.stage = stage, !.told = told, !.key = r.key, !.what = r.what,
                             !.visit = r.visit, !.tx = r.tx, !.doubt = r.doubt]
    BY <1>2 DEF Ended
  <2>2. Ended(r, stage, told) =
            [stage |-> stage, key |-> r.key, what |-> r.what, visit |-> r.visit,
             signer |-> None, sequence |-> 0, left |-> TimeBound, polls |-> 0,
             tx |-> r.tx, told |-> told, doubt |-> r.doubt]
    BY <2>1 DEF FreeCall
  <2> QED
    BY <2>2 DEF Continues
<1> QED
  BY <1>1, <1>2

\* A step of the client or the user, which the ledger does not see
LEMMA StepContinues ==
    ASSUME ClientInv, NEW c \in Call, ClientStep(c) \/ UserHesitates(c)
    PROVE  /\ UNCHANGED ledger /\ call' = [call EXCEPT ![c] = call'[c]]
           /\ Continues(call'[c], call[c]) /\ (OnLedger(call'[c]) <=> OnLedger(call[c]))
<1> DEFINE r == call[c]
           Good(q) == Continues(q, r) /\ (OnLedger(q) <=> OnLedger(r))
<1>0. UNCHANGED ledger
  BY DEF ClientStep, Prepare, Sign, Send, Poll, Wait, UserHesitates
<1>1. r \in CallState /\ r.stage \notin {"free", "balance"} /\ (r.stage = "sending" => r.tx = "none")
  BY DEF ClientInv, CallOK, Early, ClientStep, Prepare, Sign, Send, Poll, Wait, UserHesitates
<1>2. PICK q : call' = [call EXCEPT ![c] = q] /\ Good(q)
  <2>0. r \in CallState /\ r.stage \notin {"free", "balance"}
    BY <1>1
  <2>1. ASSUME NEW p \in CallState, Continues(p, r), OnLedger(p) <=> OnLedger(r),
               NEW stage \in {"confirmed", "done"}, NEW told
        PROVE  Good(Ended(p, stage, told))
    <3>1. Continues(Ended(p, stage, told), p) /\ Ended(p, stage, told).tx = p.tx
      BY <2>1, EndedContinues DEF Continues
    <3> QED
      BY <2>1, <3>1 DEF Continues, OnLedger
  <2>2. Continues(r, r)
    BY <1>1 DEF Continues
  <2>3. CASE Throws(c)
    BY <1>1, <2>1, <2>2, <2>3 DEF Throws
  <2>4. CASE Returns(c)
    BY <1>1, <2>1, <2>2, <2>4 DEF Returns
  <2>5. CASE ThrowsInDoubt(c)
    <3> DEFINE p == [r EXCEPT !.doubt = TRUE]
    <3>0. p \in CallState
      BY <2>0 DEF CallState
    <3>1. p \in CallState /\ Continues(p, r) /\ (OnLedger(p) <=> OnLedger(r))
      <4>1. p.key = r.key /\ p.what = r.what /\ p.visit = r.visit /\ p.stage = r.stage /\ p.tx = r.tx
        BY <2>0 DEF CallState
      <4> QED
        BY <2>0, <3>0, <4>1 DEF Continues, OnLedger
    <3>2. call' = [call EXCEPT ![c] = Ended(p, "done", "failure")]
      BY <2>5 DEF ThrowsInDoubt
    <3> HIDE DEF p
    <3> QED
      BY <2>1, <3>1, <3>2
  <2>6. CASE Send(c) /\ call' = [call EXCEPT ![c] =
                           Ended([@ EXCEPT !.doubt = TRUE, !.tx = "pending"], "done", "failure")]
    <3> DEFINE p == [r EXCEPT !.doubt = TRUE, !.tx = "pending"]
    <3>1. p \in CallState /\ Continues(p, r) /\ (OnLedger(p) <=> OnLedger(r))
      BY <1>1, <2>6 DEF CallState, Continues, OnLedger, Send
    <3>2. call' = [call EXCEPT ![c] = Ended(p, "done", "failure")]
      BY <2>6
    <3> HIDE DEF p
    <3> QED
      BY <2>1, <3>1, <3>2
  <2>7. CASE Prepare(c) /\ ~Throws(c)
    <3> DEFINE p == [r EXCEPT !.stage = "signing", !.sequence = ledger.sequence[r.key]]
    <3>1. call' = [call EXCEPT ![c] = p]
      BY <2>7 DEF Prepare, ClientInv
    <3>2. Good(p)
      BY <2>0 DEF CallState, Continues, OnLedger
    <3> QED
      BY <3>1, <3>2
  <2>8. CASE Sign(c) /\ ~Throws(c)
    <3> DEFINE p == [r EXCEPT !.stage = "sending", !.signer = freighter.active]
    <3>1. call' = [call EXCEPT ![c] = p]
      BY <2>8 DEF Sign, ClientInv
    <3>2. Good(p)
      BY <2>0 DEF CallState, Continues, OnLedger
    <3> QED
      BY <3>1, <3>2
  <2>9. CASE Send(c) /\ (\/ call' = [call EXCEPT ![c].stage = "polling"]
                         \/ call' = [call EXCEPT ![c].stage = "polling", ![c].tx = "pending"])
    <3> DEFINE p == [r EXCEPT !.stage = "polling"]
               sent == [r EXCEPT !.stage = "polling", !.tx = "pending"]
    <3>1. call' = [call EXCEPT ![c] = p] \/ call' = [call EXCEPT ![c] = sent]
      BY <2>9 DEF ClientInv
    <3>2. r.tx = "none"
      BY <1>1, <2>9 DEF Send
    <3>3. Good(p) /\ Good(sent)
      BY <2>0, <3>2 DEF CallState, Continues, OnLedger
    <3> QED
      BY <3>1, <3>3
  <2>10. CASE call' = [call EXCEPT ![c].stage = "waiting"]
    <3> DEFINE p == [r EXCEPT !.stage = "waiting"]
    <3>1. call' = [call EXCEPT ![c] = p]
      BY <2>10
    <3>2. Good(p)
      BY <2>0 DEF CallState, Continues, OnLedger
    <3> QED
      BY <3>1, <3>2
  <2>11. CASE Wait(c)
    <3> DEFINE p == [r EXCEPT !.stage = "polling", !.polls = @ + 1,
                              !.left = IF @ = 0 THEN 0 ELSE @ - 1]
    <3>1. call' = [call EXCEPT ![c] = p]
      BY <2>11 DEF Wait, ClientInv
    <3>2. Good(p)
      BY <2>0 DEF CallState, Continues, OnLedger
    <3> QED
      BY <3>1, <3>2
  <2>12. CASE UserHesitates(c)
    <3> DEFINE p == [r EXCEPT !.left = @ - 1]
    <3>1. call' = [call EXCEPT ![c] = p]
      BY <2>12 DEF UserHesitates
    <3>2. Good(p)
      BY <2>0 DEF CallState, Continues, OnLedger
    <3> QED
      BY <3>1, <3>2
  <2> QED
    BY <2>3, <2>4, <2>5, <2>6, <2>7, <2>8, <2>9, <2>10, <2>11, <2>12
       DEF ClientStep, Send, Poll
<1>3. call'[c] = q
  BY <1>2 DEF ClientInv
<1> QED
  BY <1>0, <1>2, <1>3

\* A ledger closes with the transaction of c
LEMMA ClosingContinues ==
    ASSUME ClientInv, NEW c \in Call, LedgerCloses(c)
    PROVE  /\ call' = [call EXCEPT ![c] = call'[c]]
           /\ Continues(call'[c], call[c]) /\ OnLedger(call'[c]) /\ ~OnLedger(call[c])
           /\ call[c].key \in Account
           /\ ledger'.sequence = [ledger.sequence EXCEPT ![call[c].key] = @ + 1]
           /\ \/ ledger'.claimed = ledger.claimed
              \/ /\ call[c].what # None
                 /\ ledger'.claimed = ledger.claimed \cup {<<call[c].key, call[c].what>>}
<1> DEFINE r == call[c]
<1>1. r \in CallState /\ r.tx = "pending" /\ r.stage # "free" /\ r.key \in Account
  BY DEF ClientInv, CallOK, Early, NotAhead, LedgerCloses
<1>2. PICK tx \in {"applied", "failed"} : call' = [call EXCEPT ![c] = [r EXCEPT !.tx = tx]]
  BY DEF LedgerCloses
<1>3. call'[c] = [r EXCEPT !.tx = tx]
  BY <1>2 DEF ClientInv
<1>4. Continues(call'[c], r) /\ OnLedger(call'[c]) /\ ~OnLedger(r)
  BY <1>1, <1>3 DEF CallState, Continues, OnLedger
<1>5. ledger = [claimed |-> ledger.claimed, sequence |-> ledger.sequence]
  BY DEF ClientInv
<1>6. /\ ledger'.sequence = [ledger.sequence EXCEPT ![r.key] = @ + 1]
      /\ \/ ledger'.claimed = ledger.claimed
         \/ r.what # None /\ ledger'.claimed = ledger.claimed \cup {<<r.key, r.what>>}
  BY <1>5 DEF LedgerCloses
<1> QED
  BY <1>1, <1>2, <1>3, <1>4, <1>6

\* An invocation belongs to a page of the scenario: one of the merchant's that
\* creates a campaign, or one of those that claim
Origin(r) ==
    r.stage # "free" =>
        /\ r.visit \in 1..Len(scenario.routes)
        /\ \/ r.what = None /\ scenario.routes[r.visit] = "merchant"
           \/ r.what \in CampaignId /\ scenario.routes[r.visit] \in {"dashboard", "detail"}
        /\ r.stage = "balance" => scenario.routes[r.visit] = "dashboard"

OriginInv == \A c \in Call : Origin(call[c])

LEMMA ContinuesOrigin ==
    ASSUME NEW r, NEW q, Continues(q, r), Origin(r) PROVE Origin(q)
  BY DEF Continues, Origin

\* One invocation changes and keeps its origin
LEMMA OneOrigin ==
    ASSUME OriginInv, UNCHANGED scenario, ClientInv, NEW c \in Call,
           call' = [call EXCEPT ![c] = call'[c]], Origin(call'[c])
    PROVE  OriginInv'
<1>1. ASSUME NEW d \in Call PROVE Origin(call'[d])
  <2>1. d # c => call'[d] = call[d]
    BY DEF ClientInv
  <2> QED
    BY <2>1 DEF OriginInv
<1> QED
  BY <1>1 DEF OriginInv, Origin

\* The invocations of an account that a ledger included; its sequence number
\* counts them
Inclusions(a) == {c \in Call : OnLedger(call[c]) /\ call[c].key = a}

LedgerInv ==
    /\ ledger.claimed \subseteq Account \X CampaignId
    /\ \A a \in Account : ledger.sequence[a] = Cardinality(Inclusions(a))

LEMMA CallFinite == IsFiniteSet(Call) /\ Cardinality(Call) = MaxCalls
<1>1. MaxCalls \in Nat /\ 1 \in Int /\ MaxCalls \in Int
  BY BrowserAssumption
<1>2. IsFiniteSet(1..MaxCalls)
      /\ Cardinality(1..MaxCalls) = IF 1 > MaxCalls THEN 0 ELSE MaxCalls - 1 + 1
  BY <1>1, FS_Interval
<1> QED
  BY <1>1, <1>2 DEF Call

LEMMA InclusionsFinite ==
    ASSUME NEW a
    PROVE  IsFiniteSet(Inclusions(a)) /\ Cardinality(Inclusions(a)) \in 0..MaxCalls
<1>1. Inclusions(a) \subseteq Call
  BY DEF Inclusions
<1>2. /\ IsFiniteSet(Inclusions(a)) /\ Cardinality(Inclusions(a)) <= MaxCalls
  BY <1>1, CallFinite, FS_Subset
<1>3. Cardinality(Inclusions(a)) \in Nat
  BY <1>2, FS_CardinalityType
<1> QED
  BY <1>2, <1>3, BrowserAssumption

\* No transaction enters or leaves the ledger
LEMMA LedgerSame ==
    ASSUME LedgerInv, UNCHANGED ledger,
           \A d \in Call : /\ OnLedger(call'[d]) <=> OnLedger(call[d])
                           /\ OnLedger(call[d]) => call'[d].key = call[d].key
    PROVE  LedgerInv'
<1>1. ASSUME NEW a PROVE Inclusions(a)' = Inclusions(a)
  BY DEF Inclusions, OnLedger
<1> QED
  BY <1>1 DEF LedgerInv

LEMMA LedgerGrows ==
    ASSUME LedgerInv, ClientInv, OriginInv, NEW c \in Call, LedgerCloses(c)
    PROVE  LedgerInv'
<1> DEFINE k == call[c].key
<1>1. /\ call' = [call EXCEPT ![c] = call'[c]]
      /\ Continues(call'[c], call[c]) /\ OnLedger(call'[c]) /\ ~OnLedger(call[c])
      /\ k \in Account
      /\ ledger'.sequence = [ledger.sequence EXCEPT ![k] = @ + 1]
      /\ \/ ledger'.claimed = ledger.claimed
         \/ /\ call[c].what # None
            /\ ledger'.claimed = ledger.claimed \cup {<<k, call[c].what>>}
  BY ClosingContinues
<1>2. ledger'.claimed \subseteq Account \X CampaignId
  <2>1. call[c].what # None => call[c].what \in CampaignId
    BY <1>1 DEF OriginInv, Origin, Continues
  <2> QED
    BY <1>1, <2>1 DEF LedgerInv
<1>3. ASSUME NEW d \in Call, d # c PROVE call'[d] = call[d]
  BY <1>1, <1>3 DEF ClientInv
<1>4. ASSUME NEW a \in Account PROVE ledger'.sequence[a] = Cardinality(Inclusions(a)')
  <2>0. ledger.sequence[a] = Cardinality(Inclusions(a)) /\ ledger.sequence \in [Account -> Nat]
    BY DEF LedgerInv, ClientInv
  <2>1. CASE a = k
    <3>1. Inclusions(a)' = Inclusions(a) \cup {c} /\ c \notin Inclusions(a)
      BY <1>1, <1>3, <2>1 DEF Inclusions, OnLedger, Continues
    <3>2. Cardinality(Inclusions(a) \cup {c}) = Cardinality(Inclusions(a)) + 1
      BY <3>1, InclusionsFinite, FS_AddElement
    <3>3. ledger'.sequence[a] = ledger.sequence[a] + 1
      BY <1>1, <2>0, <2>1
    <3> QED
      BY <2>0, <3>1, <3>2, <3>3
  <2>2. CASE a # k
    <3>1. Inclusions(a)' = Inclusions(a)
      BY <1>1, <1>3, <2>2 DEF Inclusions, OnLedger, Continues
    <3>2. ledger'.sequence[a] = ledger.sequence[a]
      BY <1>1, <2>0, <2>2
    <3> QED
      BY <2>0, <3>1, <3>2
  <2> QED
    BY <2>1, <2>2
<1> QED
  BY <1>2, <1>4 DEF LedgerInv
-----------------------------------------------------------------------------
(* The pages *)

LEMMA ReadingKeeps == ReadingNext => UNCHANGED <<walletVars, clientVars>>
<1> SUFFICES ASSUME ReadingNext PROVE UNCHANGED <<walletVars, clientVars>>
    OBVIOUS
<1>1. ASSUME NEW i, HistoryAnswer(i) \/ TransactionsAnswer(i) \/ AnalyticsAnswer(i) \/ ProfileAnswer(i)
      PROVE  UNCHANGED <<walletVars, clientVars>>
  BY <1>1 DEF HistoryAnswer, TransactionsAnswer, AnalyticsAnswer, ProfileAnswer
<1>2. CASE PreviousPage \/ NextPage
  BY <1>2 DEF PreviousPage, NextPage, TurnsPage
<1>3. CASE \E range \in DateRanges \cup {None} : EnterDates(range)
  BY <1>3 DEF EnterDates, EditsDates
<1>4. CASE ApplyDateFilter \/ ClearDateFilter \/ StartExport \/ StartPrint
  BY <1>4 DEF ApplyDateFilter, ClearDateFilter, StartExport, StartPrint, EditsDates
<1>5. CASE ExportEnds \/ PrintEnds \/ CopyAddress \/ CopyForgotten
  BY <1>5 DEF ExportEnds, PrintEnds, CopyAddress, CopyForgotten, PageOnly
<1>6. CASE \E d \in Days : SelectDays(d)
  BY <1>6 DEF SelectDays
<1> QED
  BY <1>1, <1>2, <1>3, <1>4, <1>5, <1>6 DEF ReadingNext

\* The mounted page is the one the scenario visits
Placed ==
    /\ scenario \in Scenarios
    /\ page.visit \in 1..Len(scenario.routes)
    /\ page.route = scenario.routes[page.visit]

LEMMA RoutesFacts ==
    ASSUME scenario \in Scenarios
    PROVE  /\ scenario.routes \in Seq(Route) /\ scenario.routes # <<>>
           /\ 1 \in 1..Len(scenario.routes) /\ Len(scenario.routes) \in Nat
           /\ scenario.faults \in Nat /\ scenario.changes \in Nat
<1>1. scenario.routes \in Seq(Route) /\ scenario.routes # <<>>
      /\ scenario.faults \in Nat /\ scenario.changes \in Nat
  BY BrowserAssumption DEF Scenario
<1> DEFINE s == scenario.routes
<1> HIDE DEF s
<1>2. s \in Seq(Route) /\ s # <<>> => 1 \in 1..Len(s) /\ Len(s) \in Nat
  OBVIOUS
<1> QED
  BY <1>1, <1>2 DEF s

LEMMA TheCampaignType ==
    ASSUME Placed, HasPage("detail") PROVE TheCampaign \in CampaignId
<1> DEFINE s == scenario.routes
<1>1. s \in Seq(Route)
  BY RoutesFacts DEF Placed
<1>2. page.visit \in DOMAIN s /\ s[page.visit] = "detail"
  BY <1>1 DEF Placed, HasPage
<1>3. "detail" \in Range(s)
  BY <1>2 DEF Range
<1>4. Campaigns # <<>> /\ Campaigns \in Seq(CampaignId)
  BY <1>3, ClaimPagesAssumption DEF Placed
<1> QED
  BY <1>4 DEF TheCampaign

\* An invocation starts for the connected account, on a page that starts such
Begins ==
    /\ wallet.key # None
    /\ \E c \in Call, what \in CampaignId \cup {None} :
           /\ call[c].stage = "free"
           /\ Begin(c, wallet.key, what, page.visit)
           /\ IF what = None THEN page.route = "merchant" ELSE page.route \in {"dashboard", "detail"}
    /\ UNCHANGED <<walletVars, ledger>>

LEMMA MerchantKeeps == ASSUME MerchantNext PROVE Begins \/ UNCHANGED <<walletVars, clientVars>>
<1>1. ASSUME NEW i, MerchantAnswer(i) PROVE UNCHANGED <<walletVars, clientVars>>
  BY <1>1 DEF MerchantAnswer
<1>2. ASSUME NEW c \in Call, Confirm(c) PROVE Begins
  BY <1>2 DEF Confirm, UsesForm, HasPage, IsNextCall, Begins
<1>3. CASE \/ \E fields \in Inputs : Fill(fields)
           \/ Review \/ BackToInput \/ CreateAnother
  BY <1>3 DEF Fill, Review, BackToInput, CreateAnother, PageOnly
<1>4. CASE \/ \E hits \in Searches : Search(hits)
           \/ \E key \in SortKey : ToggleSort(key)
           \/ HasPage("merchant") /\ \E no \in {page.table.no - 1, page.table.no + 1} : TurnTable(no)
           \/ \E id \in CampaignId : AskToDeactivate(id)
           \/ CancelDeactivate \/ Deactivate
  <2>1. UsesTable
    BY <1>4 DEF Search, ToggleSort, TurnTable, AskToDeactivate, CancelDeactivate, Deactivate
  <2> QED
    BY <2>1 DEF UsesTable, PageOnly
<1> QED
  BY <1>1, <1>2, <1>3, <1>4 DEF MerchantNext

LEMMA ClaimPagesKeep ==
    ASSUME Placed, ClaimPagesNext
    PROVE  \/ Begins
           \/ UNCHANGED <<walletVars, clientVars>>
           \/ \E c \in Call : AfterClaim(c)
<1>1. ASSUME NEW id, CountdownEnds(id) PROVE UNCHANGED <<walletVars, clientVars>>
  BY <1>1 DEF CountdownEnds
<1>2. CASE CampaignsAnswer \/ Intersecting \/ SwitchLanguage
  BY <1>2 DEF CampaignsAnswer, Intersecting, SwitchLanguage, PageOnly
<1>3. ASSUME NEW i, RewardsAnswer(i) \/ DetailAnswer(i) PROVE UNCHANGED <<walletVars, clientVars>>
  BY <1>3 DEF RewardsAnswer, DetailAnswer
<1>4. ASSUME NEW answered, NEW ok, NEW stellar, NEW database,
             CheckHealth(answered, ok, stellar, database)
      PROVE  UNCHANGED <<walletVars, clientVars>>
  BY <1>4 DEF CheckHealth, PageOnly
<1>5. ASSUME NEW c \in Call, NEW id \in CampaignId, ClaimOnDashboard(c, id) PROVE Begins
  <2>1. id # None
    BY BrowserAssumption
  <2> QED
    BY <1>5, <2>1 DEF ClaimOnDashboard, HasPage, IsNextCall, Begins
<1>6. ASSUME NEW c \in Call, ClaimOnDetail(c) PROVE Begins
  <2>1. TheCampaign \in CampaignId /\ TheCampaign # None
    BY <1>6, TheCampaignType, BrowserAssumption DEF ClaimOnDetail
  <2> QED
    BY <1>6, <2>1 DEF ClaimOnDetail, HasPage, IsNextCall, Begins
<1> QED
  BY <1>1, <1>2, <1>3, <1>4, <1>5, <1>6 DEF ClaimPagesNext

LEMMA AfterClaimResumes ==
    ASSUME ClientInv, NEW c \in Call, AfterClaim(c)
    PROVE  \E q : /\ call' = [call EXCEPT ![c] = q] /\ Resumed(q, call[c])
                  /\ q.stage \in {"balance", "done"}
                  /\ q.stage = "balance" => Handler(c) = "dashboard"
<1> DEFINE r == call[c]
<1>1. r \in CallState
  BY DEF ClientInv, CallOK
<1>2. CASE \E stage \in {"balance", "done"} :
              /\ call' = [call EXCEPT ![c].stage = stage]
              /\ r.stage \in {"confirmed", "balance"}
              /\ stage = "balance" => Handler(c) = "dashboard"
  <2>1. PICK stage \in {"balance", "done"} :
              /\ call' = [call EXCEPT ![c].stage = stage]
              /\ r.stage \in {"confirmed", "balance"}
              /\ stage = "balance" => Handler(c) = "dashboard"
    BY <1>2
  <2>2. [r EXCEPT !.stage = stage].stage = stage
    BY <1>1 DEF CallState
  <2>3. call' = [call EXCEPT ![c] = [r EXCEPT !.stage = stage]]
    BY <2>1
  <2> QED
    BY <2>1, <2>2, <2>3 DEF Resumed
<1>3. CASE /\ r.stage = "confirmed"
           /\ call' = [call EXCEPT ![c].stage = "done", ![c].told = "both"]
  <2>1. [r EXCEPT !.stage = "done", !.told = "both"].stage = "done"
    BY <1>1 DEF CallState
  <2>2. call' = [call EXCEPT ![c] = [r EXCEPT !.stage = "done", !.told = "both"]]
    BY <1>3 DEF ClientInv
  <2> QED
    BY <1>3, <2>1, <2>2 DEF Resumed
<1> QED
  BY <1>2, <1>3
     DEF AfterClaim, RewardsAfterClaim, BalanceAfterClaim, CampaignAfterClaim, FailsAfterClaim

\* A handler goes on after its claim: the balance of its account may be stored
LEMMA AfterClaimKeeps ==
    ASSUME WalletInv, ClientInv, NEW c \in Call, AfterClaim(c)
    PROVE  WalletInv' /\ ClientInv'
<1>1. call[c].stage \in {"confirmed", "balance"} /\ UNCHANGED <<freighter, ledger>>
  BY DEF AfterClaim, RewardsAfterClaim, BalanceAfterClaim, CampaignAfterClaim, walletVars
<1>2. call[c].key \in Account
  BY <1>1 DEF ClientInv, CallOK
<1>3. \E q : call' = [call EXCEPT ![c] = q] /\ Resumed(q, call[c])
  BY AfterClaimResumes
<1>4. ClientInv'
  BY <1>1, <1>3, ResumeKeeps
<1>5. wallet' \in WalletState
  <2>1. \/ wallet' = [wallet EXCEPT !.loading = TRUE]
        \/ wallet' = [wallet EXCEPT !.loading = FALSE]
        \/ wallet' = [wallet EXCEPT !.loading = FALSE, !.balance = call[c].key]
        \/ wallet' = wallet
    BY DEF AfterClaim, RewardsAfterClaim, BalanceAfterClaim, CampaignAfterClaim, walletVars
  <2> QED
    BY <1>2, <2>1 DEF WalletInv, WalletState
<1> QED
  BY <1>1, <1>4, <1>5 DEF WalletInv

-----------------------------------------------------------------------------
(* Questions and answers of a page *)

\* The newest question asks for the selection sel as long as it is open, and
\* once it has its answer the page shows sel or is known to be stale
QueryOK(p, sel) ==
    /\ ~p.settled => p.pending # <<>> /\ p.pending[Len(p.pending)] = sel
    /\ p.settled /\ ~p.stale => p.shown = sel

\* What is behind the first i elements
LEMMA RearFacts ==
    ASSUME NEW Q, NEW s \in Seq(Q), NEW i \in 1..Len(s)
    PROVE  /\ SubSeq(s, i + 1, Len(s)) \in Seq(Q)
           /\ Len(SubSeq(s, i + 1, Len(s))) = Len(s) - i
           /\ i < Len(s) => SubSeq(s, i + 1, Len(s))[Len(s) - i] = s[Len(s)]
<1> DEFINE n == Len(s)
           m == i + 1
           rear == SubSeq(s, m, n)
<1>1. n \in Nat /\ i \in 1..n /\ \A j \in 1..n : s[j] \in Q
  OBVIOUS
<1> HIDE DEF n
<1>2. m \in Int /\ n \in Int /\ \A j \in m..n : s[j] \in Q
  BY <1>1
<1> HIDE DEF m
<1>3. /\ rear \in Seq(Q)
      /\ Len(rear) = IF m <= n THEN n - m + 1 ELSE 0
      /\ \A j \in 1..(n - m + 1) : rear[j] = s[m + j - 1]
  BY <1>2, SubSeqProperties
<1> HIDE DEF rear
<1>4. Len(rear) = n - i
  BY <1>1, <1>3 DEF m
<1>5. ASSUME i < n PROVE rear[n - i] = s[n]
  <2>1. n - i \in 1..(n - m + 1) /\ m + (n - i) - 1 = n
    BY <1>1, <1>5 DEF m
  <2> QED
    BY <1>3, <2>1
<1> QED
  BY <1>3, <1>4, <1>5 DEF n, m, rear

LEMMA RemoveAtFacts ==
    ASSUME NEW Q, NEW s \in Seq(Q), NEW i \in 1..Len(s)
    PROVE  /\ RemoveAt(s, i) \in Seq(Q)
           /\ i < Len(s) => /\ RemoveAt(s, i) # <<>>
                            /\ RemoveAt(s, i)[Len(RemoveAt(s, i))] = s[Len(s)]
<1> DEFINE t == RemoveAt(s, i)
           front == SubSeq(s, 1, i - 1)
           rear == SubSeq(s, i + 1, Len(s))
<1>0. Len(s) \in Nat
  OBVIOUS
<1>1. front \in Seq(Q) /\ Len(front) = i - 1
  BY <1>0, SubSeqProperties
<1>2. /\ rear \in Seq(Q) /\ Len(rear) = Len(s) - i
      /\ i < Len(s) => rear[Len(rear)] = s[Len(s)]
  BY RearFacts
<1>3. t = front \o rear
  BY DEF RemoveAt
<1> HIDE DEF front, rear, t
<1>4. /\ t \in Seq(Q) /\ Len(t) = Len(front) + Len(rear)
      /\ \A j \in 1..(Len(front) + Len(rear)) :
             t[j] = IF j <= Len(front) THEN front[j] ELSE rear[j - Len(front)]
  <2>1. front \in Seq(Q) /\ rear \in Seq(Q)
    BY <1>1, <1>2
  <2> QED
    BY <1>3, <2>1, ConcatProperties
<1>5. ASSUME i < Len(s) PROVE t # <<>> /\ t[Len(t)] = s[Len(s)]
  <2> DEFINE f == Len(front)
             n == Len(rear)
  <2>1. f \in Nat /\ n \in Nat /\ n >= 1
    <3>1. f = i - 1 /\ n = Len(s) - i
      BY <1>1, <1>2
    <3> HIDE DEF f, n
    <3> QED
      BY <1>0, <1>5, <3>1
  <2>2. Len(t) = f + n /\ t[f + n] = IF f + n <= f THEN front[f + n] ELSE rear[(f + n) - f]
    <3> DEFINE m == f + n
    <3>1. /\ Len(t) = m
          /\ \A j \in 1..m : t[j] = IF j <= f THEN front[j] ELSE rear[j - f]
      BY <1>4
    <3>2. m \in 1..m
      BY <2>1
    <3> HIDE DEF f, n, m
    <3>3. t[m] = IF m <= f THEN front[m] ELSE rear[m - f]
      BY <3>1, <3>2
    <3> QED
      BY <3>1, <3>3 DEF m
  <2>3. rear[n] = s[Len(s)]
    BY <1>2, <1>5
  <2>4. Len(t) >= 1 => t # <<>>
    <3>1. Len(<<>>) = 0
      OBVIOUS
    <3> QED
      BY <3>1
  <2> HIDE DEF f, n
  <2>5. (f + n) - f = n /\ ~(f + n <= f) /\ f + n >= 1
    BY <2>1
  <2> QED
    BY <2>2, <2>3, <2>4, <2>5
<1> QED
  BY <1>4, <1>5 DEF t

\* A question is asked
LEMMA Asked ==
    ASSUME NEW Q, NEW p, NEW q, NEW sel \in Q, p.pending \in Seq(Q),
           q.pending = Append(p.pending, sel), q.settled = FALSE
    PROVE  QueryOK(q, sel) /\ q.pending \in Seq(Q)
  BY DEF QueryOK

\* A question of an earlier render is asked
LEMMA AskedLate ==
    ASSUME NEW Q, NEW p, NEW q, NEW sel, NEW other \in Q, p.pending \in Seq(Q),
           q.pending = <<other>> \o p.pending,
           q.settled = p.settled, q.shown = p.shown, q.stale = p.stale
    PROVE  (QueryOK(p, sel) => QueryOK(q, sel)) /\ q.pending \in Seq(Q)
<1> DEFINE s == p.pending
<1>1. <<other>> \o s \in Seq(Q) /\ Len(<<other>> \o s) = 1 + Len(s) /\ Len(s) \in Nat
  OBVIOUS
<1>2. ASSUME s # <<>>
      PROVE  <<other>> \o s # <<>> /\ (<<other>> \o s)[1 + Len(s)] = s[Len(s)]
  BY <1>1, <1>2
<1> QED
  BY <1>1, <1>2 DEF QueryOK

\* The i-th question has its answer, or was refused
LEMMA Answered ==
    ASSUME NEW Q, NEW p, NEW q, NEW sel, p.pending \in Seq(Q), p.settled \in BOOLEAN,
           NEW i \in 1..Len(p.pending),
           q.pending = RemoveAt(p.pending, i), q.settled = (p.settled \/ IsNewest(p, i)),
           \/ q.shown = p.pending[i] /\ q.stale = ~IsNewest(p, i)
           \/ q.shown = p.shown /\ q.stale = (p.stale \/ IsNewest(p, i))
    PROVE  (QueryOK(p, sel) => QueryOK(q, sel)) /\ q.pending \in Seq(Q)
<1>1. /\ q.pending \in Seq(Q) /\ Len(p.pending) \in Nat
      /\ i < Len(p.pending) => /\ q.pending # <<>>
                               /\ q.pending[Len(q.pending)] = p.pending[Len(p.pending)]
  BY RemoveAtFacts
<1>2. CASE IsNewest(p, i)
  BY <1>1, <1>2 DEF QueryOK, IsNewest
<1>3. CASE ~IsNewest(p, i)
  <2>1. p.settled \/ i < Len(p.pending)
    BY <1>1, <1>3 DEF IsNewest
  <2> QED
    BY <1>1, <1>3, <2>1 DEF QueryOK
<1> QED
  BY <1>2, <1>3

-----------------------------------------------------------------------------
(* The fields of each page, and its questions *)

HomeFields(p) ==
    p \in [route : {"home"}, visit : {p.visit}, pending : {<<>>}, settled : {FALSE},
           stale : {FALSE}, shown : {Nothing}]

DashboardFields(p) ==
    p \in [route : {"dashboard"}, visit : {p.visit}, pending : Seq(Account),
           settled : BOOLEAN, stale : BOOLEAN, shown : Account \cup {Nothing},
           listing : 0..Len(Campaigns) \cup {None}, offset : 0..Len(Campaigns),
           total : {None, Len(Campaigns)}, initial : BOOLEAN, observed : BOOLEAN,
           claiming : CampaignId \cup {None},
           health : {"connected", "degraded", "unreachable"}]

DetailFields(p) ==
    p \in [route : {"detail"}, visit : {p.visit}, pending : Seq({TheCampaign}),
           settled : BOOLEAN, stale : BOOLEAN, shown : {p.shown},
           loading : BOOLEAN, error : BOOLEAN, claiming : {p.claiming}]

HistoryFields(p) ==
    p \in [route : {"history"}, visit : {p.visit}, pending : Seq(Account \X Nat),
           settled : BOOLEAN, stale : BOOLEAN, shown : {p.shown}, no : Nat, loading : BOOLEAN]

TransactionsFields(p) ==
    /\ p \in [route : {"transactions"}, visit : {p.visit}, pending : Seq(Account),
              settled : BOOLEAN, stale : BOOLEAN, shown : {p.shown}, loading : BOOLEAN,
              error : BOOLEAN, typed : {p.typed}, applied : {p.applied},
              exporting : BOOLEAN, export : {p.export}, printing : BOOLEAN]
    /\ p.exporting \/ p.export = None

AnalyticsFields(p) ==
    p \in [route : {"analytics"}, visit : {p.visit}, pending : Seq(Days),
           settled : BOOLEAN, stale : BOOLEAN, shown : {p.shown},
           days : Days, loading : BOOLEAN, error : BOOLEAN]

ProfileFields(p) ==
    p \in [route : {"profile"}, visit : {p.visit}, pending : Seq(Account),
           settled : BOOLEAN, stale : BOOLEAN, shown : {p.shown}, copied : BOOLEAN]

\* The form waits for an invocation only while it asks for confirmation of
\* input that is valid
FormOK(f) ==
    /\ f \in [step : {"input", "confirm", "success"}, valid : {f.valid}, errors : {f.errors},
              loading : BOOLEAN, failed : BOOLEAN, call : Nat]
    /\ f.loading => f.step = "confirm" /\ f.call # 0
    /\ f.step = "confirm" => Validate(f) = {}

TableOK(t) ==
    t \in [search : {t.search}, key : {t.key}, dir : {t.dir}, no : Nat \ {0},
           confirm : CampaignId \cup {None}]

MerchantFields(p) ==
    /\ p \in [route : {"merchant"}, visit : {p.visit}, pending : Seq(Account \cup {None}),
              settled : BOOLEAN, stale : BOOLEAN, shown : {p.shown},
              inactive : {p.inactive}, form : {p.form}, table : {p.table}]
    /\ FormOK(p.form) /\ TableOK(p.table)

\* Page p is in order when k is the connected account.  A page that asks only
\* for a connected account promises nothing without one, where it shows a hint.
DashboardOK(p, k) ==
    /\ DashboardFields(p)
    /\ p.observed => k # None /\ HasMore(p)
    /\ k # None => QueryOK(p, k)
DetailOK(p)          == DetailFields(p) /\ QueryOK(p, TheCampaign)
HistoryOK(p, k)      == HistoryFields(p) /\ (k # None => QueryOK(p, <<k, p.no>>))
TransactionsOK(p, k) == TransactionsFields(p) /\ (k # None => QueryOK(p, k))
AnalyticsOK(p)       == AnalyticsFields(p) /\ QueryOK(p, p.days)
ProfileOK(p, k)      == ProfileFields(p) /\ (k # None => QueryOK(p, k))
MerchantOK(p, k)     == MerchantFields(p) /\ QueryOK(p, k)

PageOK(p, k) ==
    \/ HomeFields(p) \/ DashboardOK(p, k) \/ DetailOK(p) \/ HistoryOK(p, k)
    \/ TransactionsOK(p, k) \/ AnalyticsOK(p) \/ ProfileOK(p, k) \/ MerchantOK(p, k)

-----------------------------------------------------------------------------
(* The effects *)

LEMMA DashboardKeyKeeps ==
    ASSUME NEW p, NEW j, NEW k \in Account \cup {None}, DashboardOK(p, j)
    PROVE  DashboardOK(DashboardKeyEffect(p, k), k) /\ DashboardKeyEffect(p, k).visit = p.visit
<1> DEFINE q == DashboardKeyEffect(p, k)
<1>1. CASE k = None
  BY <1>1 DEF DashboardOK, DashboardFields, DashboardKeyEffect, HasMore
<1>2. CASE k # None
  <2>1. q = [p EXCEPT !.pending = Append(p.pending, k), !.settled = FALSE]
    BY <1>2 DEF DashboardKeyEffect, Asking, DashboardOK, DashboardFields
  <2>2. Append(p.pending, k) \in Seq(Account)
    BY <1>2 DEF DashboardOK, DashboardFields
  <2>3. QueryOK(q, k)
    BY <1>2, <2>1, Asked DEF DashboardOK, DashboardFields
  <2> QED
    BY <1>2, <2>1, <2>2, <2>3 DEF DashboardOK, DashboardFields, HasMore
<1> QED
  BY <1>1, <1>2

LEMMA DetailEffectKeeps ==
    ASSUME NEW p, DetailFields(p)
    PROVE  DetailOK(DetailEffect(p)) /\ DetailEffect(p).visit = p.visit
<1> DEFINE q == DetailEffect(p)
<1>1. q = [p EXCEPT !.pending = Append(p.pending, TheCampaign), !.settled = FALSE, !.loading = TRUE]
  BY DEF DetailEffect, Asking, DetailFields
<1> HIDE DEF q
<1>2. QueryOK(q, TheCampaign) /\ q.pending \in Seq({TheCampaign})
  <2>1. /\ q.pending = Append(p.pending, TheCampaign) /\ q.settled = FALSE
        /\ p.pending \in Seq({TheCampaign}) /\ TheCampaign \in {TheCampaign}
    BY <1>1 DEF DetailFields
  <2> QED
    BY <2>1, Asked
<1>3. DetailFields(q) /\ q.visit = p.visit
  BY <1>1, <1>2 DEF DetailFields
<1> QED
  BY <1>2, <1>3 DEF DetailOK, q

LEMMA HistoryEffectKeeps ==
    ASSUME NEW p, NEW k \in Account \cup {None}, HistoryFields(p)
    PROVE  HistoryOK(HistoryEffect(p, k), k) /\ HistoryEffect(p, k).visit = p.visit
<1> DEFINE q == HistoryEffect(p, k)
<1>1. CASE k = None
  BY <1>1 DEF HistoryOK, HistoryEffect
<1>2. CASE k # None
  <2>1. q = [p EXCEPT !.pending = Append(p.pending, <<k, p.no>>), !.settled = FALSE, !.loading = TRUE]
    BY <1>2 DEF HistoryEffect, Asking, HistoryFields
  <2>2. <<k, p.no>> \in Account \X Nat
    BY <1>2 DEF HistoryFields
  <2> HIDE DEF q
  <2>3. QueryOK(q, <<k, p.no>>) /\ q.pending \in Seq(Account \X Nat)
    <3> DEFINE sel == <<k, p.no>>
    <3> HIDE DEF sel
    <3>1. q.pending = Append(p.pending, sel) /\ q.settled = FALSE /\ p.pending \in Seq(Account \X Nat)
      BY <2>1 DEF HistoryFields, sel
    <3> QED
      BY <2>2, <3>1, Asked DEF sel
  <2>4. HistoryFields(q) /\ q.visit = p.visit /\ q.no = p.no
    BY <2>1, <2>3 DEF HistoryFields
  <2> QED
    BY <2>3, <2>4 DEF HistoryOK, q
<1> QED
  BY <1>1, <1>2

LEMMA TransactionsEffectKeeps ==
    ASSUME NEW p, NEW k \in Account \cup {None}, TransactionsFields(p)
    PROVE  TransactionsOK(TransactionsEffect(p, k), k) /\ TransactionsEffect(p, k).visit = p.visit
<1> DEFINE q == TransactionsEffect(p, k)
<1>1. CASE k = None
  BY <1>1 DEF TransactionsOK, TransactionsFields, TransactionsEffect
<1>2. CASE k # None
  <2>1. q = [p EXCEPT !.pending = Append(p.pending, k), !.settled = FALSE, !.loading = TRUE,
                      !.error = FALSE]
    BY <1>2 DEF TransactionsEffect, Asking, TransactionsFields
  <2> HIDE DEF q
  <2>2. QueryOK(q, k) /\ q.pending \in Seq(Account)
    <3>1. /\ q.pending = Append(p.pending, k) /\ q.settled = FALSE
          /\ p.pending \in Seq(Account) /\ k \in Account
      BY <1>2, <2>1 DEF TransactionsFields
    <3> QED
      BY <3>1, Asked
  <2>3. TransactionsFields(q) /\ q.visit = p.visit
    BY <2>1, <2>2 DEF TransactionsFields
  <2> QED
    BY <2>2, <2>3 DEF TransactionsOK, q
<1> QED
  BY <1>1, <1>2

LEMMA AnalyticsEffectKeeps ==
    ASSUME NEW p, AnalyticsFields(p)
    PROVE  AnalyticsOK(AnalyticsEffect(p)) /\ AnalyticsEffect(p).visit = p.visit
<1> DEFINE q == AnalyticsEffect(p)
<1>1. q = [p EXCEPT !.pending = Append(p.pending, p.days), !.settled = FALSE, !.loading = TRUE,
                    !.error = FALSE]
  BY DEF AnalyticsEffect, Asking, AnalyticsFields
<1> HIDE DEF q
<1>2. QueryOK(q, p.days) /\ q.pending \in Seq(Days)
  <2>1. /\ q.pending = Append(p.pending, p.days) /\ q.settled = FALSE
        /\ p.pending \in Seq(Days) /\ p.days \in Days
    BY <1>1 DEF AnalyticsFields
  <2> QED
    BY <2>1, Asked
<1>3. AnalyticsFields(q) /\ q.visit = p.visit /\ q.days = p.days
  BY <1>1, <1>2 DEF AnalyticsFields
<1> QED
  BY <1>2, <1>3 DEF AnalyticsOK, q

LEMMA ProfileEffectKeeps ==
    ASSUME NEW p, NEW k \in Account \cup {None}, ProfileFields(p)
    PROVE  ProfileOK(ProfileEffect(p, k), k) /\ ProfileEffect(p, k).visit = p.visit
<1> DEFINE q == ProfileEffect(p, k)
<1>1. CASE k = None
  BY <1>1 DEF ProfileOK, ProfileEffect
<1>2. CASE k # None
  <2>1. q = [p EXCEPT !.pending = Append(p.pending, k), !.settled = FALSE]
    BY <1>2 DEF ProfileEffect, Asking, ProfileFields
  <2> HIDE DEF q
  <2>2. QueryOK(q, k) /\ q.pending \in Seq(Account)
    <3>1. /\ q.pending = Append(p.pending, k) /\ q.settled = FALSE
          /\ p.pending \in Seq(Account) /\ k \in Account
      BY <1>2, <2>1 DEF ProfileFields
    <3> QED
      BY <3>1, Asked
  <2>3. ProfileFields(q) /\ q.visit = p.visit
    BY <2>1, <2>2 DEF ProfileFields
  <2> QED
    BY <2>2, <2>3 DEF ProfileOK, q
<1> QED
  BY <1>1, <1>2

\* loadCampaigns for the connected account
LEMMA LoadKeeps ==
    ASSUME NEW p, NEW k \in Account \cup {None}, MerchantFields(p)
    PROVE  MerchantOK(LoadCampaigns(p, k), k) /\ LoadCampaigns(p, k).visit = p.visit
<1> DEFINE q == LoadCampaigns(p, k)
<1>1. q = [p EXCEPT !.pending = Append(p.pending, k), !.settled = FALSE]
  BY DEF LoadCampaigns, Asking, MerchantFields
<1> HIDE DEF q
<1>2. QueryOK(q, k) /\ q.pending \in Seq(Account \cup {None})
  <2>1. /\ q.pending = Append(p.pending, k) /\ q.settled = FALSE
        /\ p.pending \in Seq(Account \cup {None}) /\ k \in Account \cup {None}
    BY <1>1 DEF MerchantFields
  <2> QED
    BY <2>1, Asked
<1>3. MerchantFields(q) /\ q.visit = p.visit
  BY <1>1, <1>2 DEF MerchantFields
<1> QED
  BY <1>2, <1>3 DEF MerchantOK, q

LEMMA FormOpenedOK == FormOK(FormOpened)
  BY DEF FormOK, FormOpened, Validate

\* A change of the form alone
LEMMA FormKeeps ==
    ASSUME NEW p, NEW form, MerchantFields(p), FormOK(form)
    PROVE  /\ MerchantFields([p EXCEPT !.form = form])
           /\ [p EXCEPT !.form = form].visit = p.visit
           /\ \A k : QueryOK(p, k) => QueryOK([p EXCEPT !.form = form], k)
  BY DEF MerchantFields, QueryOK

LEMMA MerchantKeyKeeps ==
    ASSUME NEW p, NEW k \in Account \cup {None}, MerchantFields(p)
    PROVE  MerchantOK(MerchantKeyEffect(p, k), k) /\ MerchantKeyEffect(p, k).visit = p.visit
<1> DEFINE form == IF k = None THEN FormOpened ELSE p.form
           q == [p EXCEPT !.form = form]
<1>1. FormOK(form)
  BY FormOpenedOK DEF MerchantFields
<1>2. MerchantKeyEffect(p, k) = LoadCampaigns(q, k)
  BY DEF MerchantKeyEffect
<1> HIDE DEF form
<1>3. MerchantFields(q) /\ q.visit = p.visit
  BY <1>1, FormKeeps
<1> HIDE DEF q
<1> QED
  BY <1>2, <1>3, LoadKeeps

-----------------------------------------------------------------------------
(* The pages when they are mounted: MountedWith makes a record of the fields *)
(* that all pages have and the page's own                                    *)

LEMMA MerchantOpensOK == FormOK(FormOpened) /\ TableOK(TableOpened)
  BY FormOpenedOK DEF TableOK, TableOpened

LEMMA DashboardMounted ==
    ASSUME NEW visit,
           NEW p, p = MountedWith("dashboard", visit,
               [listing |-> None, offset |-> 0, total |-> None, initial |-> TRUE,
                observed |-> FALSE, claiming |-> None, health |-> "connected"])
    PROVE  DashboardFields(p) /\ p.visit = visit /\ ~p.observed
<1> DEFINE own == [listing |-> None, offset |-> 0, total |-> None, initial |-> TRUE,
                   observed |-> FALSE, claiming |-> None, health |-> "connected"]
           common == Mounted("dashboard", visit)
           names == {"listing", "offset", "total", "initial", "observed", "claiming",
                     "health"}
           all == {"route", "visit", "pending", "settled", "stale", "shown", "listing",
                   "offset", "total", "initial", "observed", "claiming", "health"}
<1>1. DOMAIN own = names /\ DOMAIN common \cup DOMAIN own = all
  BY DEF Mounted
<1>2. p = [x \in all |-> IF x \in names THEN own[x] ELSE common[x]]
  <2> HIDE DEF own, common, all, names
  <2> QED
    BY <1>1, Zenon DEF MountedWith, common, own
<1>3. p = [route |-> "dashboard", visit |-> visit, pending |-> <<>>, settled |-> FALSE,
           stale |-> FALSE, shown |-> Nothing, listing |-> None, offset |-> 0,
           total |-> None, initial |-> TRUE, observed |-> FALSE, claiming |-> None,
           health |-> "connected"]
  BY <1>2 DEF Mounted
<1> QED
  BY ONLY <1>3, ClaimPagesAssumption DEF DashboardFields, ClaimPagesAssumption

LEMMA DetailMounted ==
    ASSUME NEW visit,
           NEW p, p = MountedWith("detail", visit,
               [loading |-> TRUE, error |-> FALSE, claiming |-> None])
    PROVE  DetailFields(p) /\ p.visit = visit
<1> DEFINE own == [loading |-> TRUE, error |-> FALSE, claiming |-> None]
           common == Mounted("detail", visit)
           names == {"loading", "error", "claiming"}
           all == {"route", "visit", "pending", "settled", "stale", "shown", "loading",
                   "error", "claiming"}
<1>1. DOMAIN own = names /\ DOMAIN common \cup DOMAIN own = all
  BY DEF Mounted
<1>2. p = [x \in all |-> IF x \in names THEN own[x] ELSE common[x]]
  <2> HIDE DEF own, common, all, names
  <2> QED
    BY <1>1, Zenon DEF MountedWith, common, own
<1>3. p = [route |-> "detail", visit |-> visit, pending |-> <<>>, settled |-> FALSE,
           stale |-> FALSE, shown |-> Nothing, loading |-> TRUE, error |-> FALSE,
           claiming |-> None]
  BY <1>2 DEF Mounted
<1> QED
  BY ONLY <1>3 DEF DetailFields

LEMMA HistoryMounted ==
    ASSUME NEW visit,
           NEW p, p = MountedWith("history", visit,
               [no |-> 0, loading |-> TRUE])
    PROVE  HistoryFields(p) /\ p.visit = visit
<1> DEFINE own == [no |-> 0, loading |-> TRUE]
           common == Mounted("history", visit)
           names == {"no", "loading"}
           all == {"route", "visit", "pending", "settled", "stale", "shown", "no", "loading"}
<1>1. DOMAIN own = names /\ DOMAIN common \cup DOMAIN own = all
  BY DEF Mounted
<1>2. p = [x \in all |-> IF x \in names THEN own[x] ELSE common[x]]
  <2> HIDE DEF own, common, all, names
  <2> QED
    BY <1>1, Zenon DEF MountedWith, common, own
<1>3. p = [route |-> "history", visit |-> visit, pending |-> <<>>, settled |-> FALSE,
           stale |-> FALSE, shown |-> Nothing, no |-> 0, loading |-> TRUE]
  BY <1>2 DEF Mounted
<1> QED
  BY ONLY <1>3 DEF HistoryFields

LEMMA TransactionsMounted ==
    ASSUME NEW visit,
           NEW p, p = MountedWith("transactions", visit,
               [loading |-> TRUE, error |-> FALSE, typed |-> None, applied |-> None,
                exporting |-> FALSE, export |-> None, printing |-> FALSE])
    PROVE  TransactionsFields(p) /\ p.visit = visit
<1> DEFINE own == [loading |-> TRUE, error |-> FALSE, typed |-> None, applied |-> None,
                   exporting |-> FALSE, export |-> None, printing |-> FALSE]
           common == Mounted("transactions", visit)
           names == {"loading", "error", "typed", "applied", "exporting", "export",
                     "printing"}
           all == {"route", "visit", "pending", "settled", "stale", "shown", "loading",
                   "error", "typed", "applied", "exporting", "export", "printing"}
<1>1. DOMAIN own = names /\ DOMAIN common \cup DOMAIN own = all
  BY DEF Mounted
<1>2. p = [x \in all |-> IF x \in names THEN own[x] ELSE common[x]]
  <2> HIDE DEF own, common, all, names
  <2> QED
    BY <1>1, Zenon DEF MountedWith, common, own
<1>3. p = [route |-> "transactions", visit |-> visit, pending |-> <<>>, settled |-> FALSE,
           stale |-> FALSE, shown |-> Nothing, loading |-> TRUE, error |-> FALSE,
           typed |-> None, applied |-> None, exporting |-> FALSE, export |-> None,
           printing |-> FALSE]
  BY <1>2 DEF Mounted
<1> QED
  BY ONLY <1>3 DEF TransactionsFields

LEMMA AnalyticsMounted ==
    ASSUME NEW visit,
           NEW p, p = MountedWith("analytics", visit,
               [days |-> FirstDays, loading |-> TRUE, error |-> FALSE])
    PROVE  AnalyticsFields(p) /\ p.visit = visit
<1> DEFINE own == [days |-> FirstDays, loading |-> TRUE, error |-> FALSE]
           common == Mounted("analytics", visit)
           names == {"days", "loading", "error"}
           all == {"route", "visit", "pending", "settled", "stale", "shown", "days",
                   "loading", "error"}
<1>1. DOMAIN own = names /\ DOMAIN common \cup DOMAIN own = all
  BY DEF Mounted
<1>2. p = [x \in all |-> IF x \in names THEN own[x] ELSE common[x]]
  <2> HIDE DEF own, common, all, names
  <2> QED
    BY <1>1, Zenon DEF MountedWith, common, own
<1>3. p = [route |-> "analytics", visit |-> visit, pending |-> <<>>, settled |-> FALSE,
           stale |-> FALSE, shown |-> Nothing, days |-> FirstDays, loading |-> TRUE,
           error |-> FALSE]
  BY <1>2 DEF Mounted
<1> QED
  BY ONLY <1>3, ReadingAssumption DEF ReadingAssumption, AnalyticsFields

LEMMA ProfileMounted ==
    ASSUME NEW visit,
           NEW p, p = MountedWith("profile", visit,
               [copied |-> FALSE])
    PROVE  ProfileFields(p) /\ p.visit = visit
<1> DEFINE own == [copied |-> FALSE]
           common == Mounted("profile", visit)
           names == {"copied"}
           all == {"route", "visit", "pending", "settled", "stale", "shown", "copied"}
<1>1. DOMAIN own = names /\ DOMAIN common \cup DOMAIN own = all
  BY DEF Mounted
<1>2. p = [x \in all |-> IF x \in names THEN own[x] ELSE common[x]]
  <2> HIDE DEF own, common, all, names
  <2> QED
    BY <1>1, Zenon DEF MountedWith, common, own
<1>3. p = [route |-> "profile", visit |-> visit, pending |-> <<>>, settled |-> FALSE,
           stale |-> FALSE, shown |-> Nothing, copied |-> FALSE]
  BY <1>2 DEF Mounted
<1> QED
  BY ONLY <1>3 DEF ProfileFields

LEMMA MerchantMounted ==
    ASSUME NEW visit,
           NEW p, p = MountedWith("merchant", visit,
               [inactive |-> {}, form |-> FormOpened, table |-> TableOpened])
    PROVE  MerchantFields(p) /\ p.visit = visit
<1> DEFINE own == [inactive |-> {}, form |-> FormOpened, table |-> TableOpened]
           common == Mounted("merchant", visit)
           names == {"inactive", "form", "table"}
           all == {"route", "visit", "pending", "settled", "stale", "shown", "inactive",
                   "form", "table"}
<1>1. DOMAIN own = names /\ DOMAIN common \cup DOMAIN own = all
  BY DEF Mounted
<1>2. p = [x \in all |-> IF x \in names THEN own[x] ELSE common[x]]
  <2> HIDE DEF own, common, all, names
  <2> QED
    BY <1>1, Zenon DEF MountedWith, common, own
<1>3. p = [route |-> "merchant", visit |-> visit, pending |-> <<>>, settled |-> FALSE,
           stale |-> FALSE, shown |-> Nothing, inactive |-> {}, form |-> FormOpened,
           table |-> TableOpened]
  BY <1>2 DEF Mounted
<1> QED
  BY ONLY <1>3, MerchantOpensOK DEF MerchantFields

\* The observer is set up again, for a sentinel that is there
LEMMA ObservingKeeps ==
    ASSUME NEW p, NEW k, DashboardFields(p), k # None => QueryOK(p, k)
    PROVE  DashboardOK(Observing(p, k), k) /\ Observing(p, k).visit = p.visit
<1> DEFINE q == Observing(p, k)
<1>1. q = [p EXCEPT !.observed = (k # None /\ HasMore(p))]
  BY DEF Observing
<1>2. HasMore(p) \in BOOLEAN /\ HasMore(q) = HasMore(p)
  BY <1>1 DEF HasMore, DashboardFields
<1> HIDE DEF q
<1>3. DashboardFields(q) /\ q.visit = p.visit /\ q.observed = (k # None /\ HasMore(p))
  BY <1>1, <1>2 DEF DashboardFields
<1>4. k # None => QueryOK(q, k)
  BY <1>1 DEF DashboardFields, QueryOK
<1> QED
  BY <1>2, <1>3, <1>4 DEF DashboardOK, q

LEMMA LoadingKeeps ==
    ASSUME NEW p, NEW k, DashboardFields(p), k # None => QueryOK(p, k),
           NEW offset \in 0..Len(Campaigns)
    PROVE  DashboardOK(Loading(p, offset, k), k) /\ Loading(p, offset, k).visit = p.visit
<1> DEFINE q == [p EXCEPT !.listing = offset]
<1>1. DashboardFields(q) /\ q.visit = p.visit /\ (k # None => QueryOK(q, k))
  BY DEF DashboardFields, QueryOK
<1>2. Loading(p, offset, k) = Observing(q, k)
  BY DEF Loading
<1> HIDE DEF q
<1> QED
  BY <1>1, <1>2, ObservingKeeps

\* A page is mounted with its questions asked
LEMMA OpenedOK ==
    ASSUME NEW route \in Route, NEW visit, NEW k \in Account \cup {None}
    PROVE  /\ PageOK(Opened(route, visit, k), k)
           /\ Opened(route, visit, k).route = route /\ Opened(route, visit, k).visit = visit
<1> DEFINE q == Opened(route, visit, k)
<1>1. CASE route = "home"
  <2>1. q = Mounted("home", visit)
    BY <1>1 DEF Opened
  <2>2. q = [route |-> "home", visit |-> visit, pending |-> <<>>, settled |-> FALSE,
             stale |-> FALSE, shown |-> Nothing]
    BY <2>1 DEF Mounted
  <2> HIDE DEF q
  <2>3. HomeFields(q) /\ q.route = "home" /\ q.visit = visit
    BY <2>2 DEF HomeFields
  <2> QED
    BY <1>1, <2>3 DEF PageOK, q
<1>2. CASE route = "dashboard"
  <2> DEFINE m == MountedWith("dashboard", visit,
                      [listing |-> None, offset |-> 0, total |-> None, initial |-> TRUE,
                       observed |-> FALSE, claiming |-> None, health |-> "connected"])
             e == DashboardKeyEffect(m, k)
  <2>1. q = Loading(e, 0, k)
    BY <1>2 DEF Opened, DashboardOpened
  <2>2. DashboardFields(m) /\ m.visit = visit /\ ~m.observed
    <3> HIDE DEF m
    <3> QED
      BY DashboardMounted DEF m
  <2> HIDE DEF m
  <2>3. DashboardOK(m, None)
    BY <2>2 DEF DashboardOK
  <2>4. DashboardOK(e, k) /\ e.visit = visit
    BY <2>2, <2>3, DashboardKeyKeeps
  <2>5. 0 \in 0..Len(Campaigns)
    BY ClaimPagesAssumption DEF ClaimPagesAssumption
  <2> HIDE DEF e
  <2>6. DashboardFields(e) /\ (k # None => QueryOK(e, k))
    BY <2>4 DEF DashboardOK
  <2>7. DashboardOK(q, k) /\ q.visit = visit
    BY <2>1, <2>4, <2>5, <2>6, LoadingKeeps
  <2> QED
    BY <1>2, <2>7 DEF PageOK, DashboardOK, DashboardFields
<1>3. CASE route = "detail"
  <2> DEFINE m == MountedWith("detail", visit,
                      [loading |-> TRUE, error |-> FALSE, claiming |-> None])
  <2>1. q = DetailEffect(m)
    BY <1>3 DEF Opened, DetailOpened
  <2>2. DetailFields(m) /\ m.visit = visit
    <3> HIDE DEF m
    <3> QED
      BY DetailMounted DEF m
  <2> HIDE DEF m
  <2>3. DetailOK(q) /\ q.visit = visit
    BY <2>1, <2>2, DetailEffectKeeps
  <2> QED
    BY <1>3, <2>3 DEF PageOK, DetailOK, DetailFields
<1>4. CASE route = "history"
  <2> DEFINE m == MountedWith("history", visit, [no |-> 0, loading |-> TRUE])
  <2>1. q = HistoryEffect(m, k)
    BY <1>4 DEF Opened, HistoryOpened
  <2>2. HistoryFields(m) /\ m.visit = visit
    <3> HIDE DEF m
    <3> QED
      BY HistoryMounted DEF m
  <2> HIDE DEF m
  <2>3. HistoryOK(q, k) /\ q.visit = visit
    BY <2>1, <2>2, HistoryEffectKeeps
  <2> QED
    BY <1>4, <2>3 DEF PageOK, HistoryOK, HistoryFields
<1>5. CASE route = "transactions"
  <2> DEFINE m == MountedWith("transactions", visit,
                      [loading |-> TRUE, error |-> FALSE, typed |-> None, applied |-> None,
                       exporting |-> FALSE, export |-> None, printing |-> FALSE])
  <2>1. q = TransactionsEffect(m, k)
    BY <1>5 DEF Opened, TransactionsOpened
  <2>2. TransactionsFields(m) /\ m.visit = visit
    <3> HIDE DEF m
    <3> QED
      BY TransactionsMounted DEF m
  <2> HIDE DEF m
  <2>3. TransactionsOK(q, k) /\ q.visit = visit
    BY <2>1, <2>2, TransactionsEffectKeeps
  <2> QED
    BY <1>5, <2>3 DEF PageOK, TransactionsOK, TransactionsFields
<1>6. CASE route = "analytics"
  <2> DEFINE m == MountedWith("analytics", visit,
                      [days |-> FirstDays, loading |-> TRUE, error |-> FALSE])
  <2>1. q = AnalyticsEffect(m)
    BY <1>6 DEF Opened, AnalyticsOpened
  <2>2. AnalyticsFields(m) /\ m.visit = visit
    <3> HIDE DEF m
    <3> QED
      BY AnalyticsMounted DEF m
  <2> HIDE DEF m
  <2>3. AnalyticsOK(q) /\ q.visit = visit
    BY <2>1, <2>2, AnalyticsEffectKeeps
  <2> QED
    BY <1>6, <2>3 DEF PageOK, AnalyticsOK, AnalyticsFields
<1>7. CASE route = "profile"
  <2> DEFINE m == MountedWith("profile", visit, [copied |-> FALSE])
  <2>1. q = ProfileEffect(m, k)
    BY <1>7 DEF Opened, ProfileOpened
  <2>2. ProfileFields(m) /\ m.visit = visit
    <3> HIDE DEF m
    <3> QED
      BY ProfileMounted DEF m
  <2> HIDE DEF m
  <2>3. ProfileOK(q, k) /\ q.visit = visit
    BY <2>1, <2>2, ProfileEffectKeeps
  <2> QED
    BY <1>7, <2>3 DEF PageOK, ProfileOK, ProfileFields
<1>8. CASE route = "merchant"
  <2> DEFINE m == MountedWith("merchant", visit,
                      [inactive |-> {}, form |-> FormOpened, table |-> TableOpened])
  <2>1. q = MerchantKeyEffect(m, k)
    BY <1>8 DEF Opened, MerchantOpened
  <2>2. MerchantFields(m) /\ m.visit = visit
    <3> HIDE DEF m
    <3> QED
      BY MerchantMounted DEF m
  <2> HIDE DEF m
  <2>3. MerchantOK(q, k) /\ q.visit = visit
    BY <2>1, <2>2, MerchantKeyKeeps
  <2> QED
    BY <1>8, <2>3 DEF PageOK, MerchantOK, MerchantFields
<1> QED
  BY <1>1, <1>2, <1>3, <1>4, <1>5, <1>6, <1>7, <1>8 DEF Route

\* The effects of a page when the account changes
LEMMA KeyEffectKeeps ==
    ASSUME NEW p, NEW j, NEW k \in Account \cup {None}, PageOK(p, j)
    PROVE  /\ PageOK(KeyEffect(p, k), k)
           /\ KeyEffect(p, k).route = p.route /\ KeyEffect(p, k).visit = p.visit
<1> DEFINE q == KeyEffect(p, k)
<1>1. CASE HomeFields(p) \/ DetailOK(p) \/ AnalyticsOK(p)
  <2>1. q = p
    BY <1>1 DEF KeyEffect, HomeFields, DetailOK, DetailFields, AnalyticsOK, AnalyticsFields
  <2> QED
    BY <1>1, <2>1 DEF PageOK
<1>2. CASE DashboardOK(p, j)
  <2>1. q = DashboardKeyEffect(p, k) /\ p.route = "dashboard"
    BY <1>2 DEF KeyEffect, DashboardOK, DashboardFields
  <2>2. DashboardOK(q, k) /\ q.visit = p.visit
    BY <1>2, <2>1, DashboardKeyKeeps
  <2> QED
    BY <2>1, <2>2 DEF PageOK, DashboardOK, DashboardFields
<1>3. CASE HistoryOK(p, j)
  <2>1. q = HistoryEffect(p, k) /\ p.route = "history"
    BY <1>3 DEF KeyEffect, HistoryKeyEffect, HistoryOK, HistoryFields
  <2>2. HistoryOK(q, k) /\ q.visit = p.visit
    BY <1>3, <2>1, HistoryEffectKeeps DEF HistoryOK
  <2> QED
    BY <2>1, <2>2 DEF PageOK, HistoryOK, HistoryFields
<1>4. CASE TransactionsOK(p, j)
  <2>1. q = TransactionsEffect(p, k) /\ p.route = "transactions"
    BY <1>4 DEF KeyEffect, TransactionsOK, TransactionsFields
  <2>2. TransactionsOK(q, k) /\ q.visit = p.visit
    BY <1>4, <2>1, TransactionsEffectKeeps DEF TransactionsOK
  <2> QED
    BY <2>1, <2>2 DEF PageOK, TransactionsOK, TransactionsFields
<1>5. CASE ProfileOK(p, j)
  <2>1. q = ProfileEffect(p, k) /\ p.route = "profile"
    BY <1>5 DEF KeyEffect, ProfileOK, ProfileFields
  <2>2. ProfileOK(q, k) /\ q.visit = p.visit
    BY <1>5, <2>1, ProfileEffectKeeps DEF ProfileOK
  <2> QED
    BY <2>1, <2>2 DEF PageOK, ProfileOK, ProfileFields
<1>6. CASE MerchantOK(p, j)
  <2>1. q = MerchantKeyEffect(p, k) /\ p.route = "merchant"
    BY <1>6 DEF KeyEffect, MerchantOK, MerchantFields
  <2>2. MerchantOK(q, k) /\ q.visit = p.visit
    BY <1>6, <2>1, MerchantKeyKeeps DEF MerchantOK
  <2> QED
    BY <2>1, <2>2 DEF PageOK, MerchantOK, MerchantFields
<1> QED
  BY <1>1, <1>2, <1>3, <1>4, <1>5, <1>6 DEF PageOK

-----------------------------------------------------------------------------
(* The answers *)

\* q is page p after the i-th question was answered or refused
IsAnswered(p, q, i) ==
    /\ q.pending = RemoveAt(p.pending, i) /\ q.settled = (p.settled \/ IsNewest(p, i))
    /\ \/ q.shown = p.pending[i] /\ q.stale = ~IsNewest(p, i)
       \/ q.shown = p.shown /\ q.stale = (p.stale \/ IsNewest(p, i))

LEMMA NewestBoolean ==
    ASSUME NEW p, NEW i, p.settled \in BOOLEAN
    PROVE  IsNewest(p, i) \in BOOLEAN
  BY DEF IsNewest

LEMMA HistoryAnswers ==
    ASSUME NEW k, HistoryOK(page, k), NEW i \in 1..Len(page.pending), HistoryAnswer(i)
    PROVE  HistoryOK(page', k) /\ page'.visit = page.visit
<1> DEFINE s == RemoveAt(page.pending, i)
           newest == IsNewest(page, i)
           settled == (page.settled \/ newest)
<1>1. newest \in BOOLEAN /\ page.settled \in BOOLEAN /\ page.stale \in BOOLEAN
  BY NewestBoolean DEF HistoryOK, HistoryFields
<1>2. page.pending \in Seq((Account \X Nat)) /\ s \in Seq((Account \X Nat)) /\ page.pending[i] \in (Account \X Nat)
  BY RemoveAtFacts DEF HistoryOK, HistoryFields
<1>3. \/ page' = [page EXCEPT !.pending = s, !.settled = settled, !.loading = FALSE,
                              !.shown = page.pending[i], !.stale = ~newest]
      \/ page' = [page EXCEPT !.pending = s, !.settled = settled, !.loading = FALSE,
                              !.stale = (page.stale \/ newest)]
  BY DEF HistoryAnswer, Stored, Dropped, Taken, HistoryOK, HistoryFields
<1> HIDE DEF s, newest
<1>4. HistoryFields(page') /\ page'.visit = page.visit /\ page'.no = page.no
  BY <1>1, <1>2, <1>3 DEF HistoryOK, HistoryFields
<1>5. IsAnswered(page, page', i)
  BY <1>1, <1>2, <1>3 DEF IsAnswered, s, newest, HistoryOK, HistoryFields
<1>6. \A sel : QueryOK(page, sel) => QueryOK(page', sel)
  BY <1>1, <1>2, <1>5, Answered DEF IsAnswered
<1> QED
  BY <1>4, <1>6 DEF HistoryOK

LEMMA TransactionsAnswers ==
    ASSUME NEW k, TransactionsOK(page, k), NEW i \in 1..Len(page.pending), TransactionsAnswer(i)
    PROVE  TransactionsOK(page', k) /\ page'.visit = page.visit
<1> DEFINE s == RemoveAt(page.pending, i)
           newest == IsNewest(page, i)
           settled == (page.settled \/ newest)
<1>1. newest \in BOOLEAN /\ page.settled \in BOOLEAN /\ page.stale \in BOOLEAN
  BY NewestBoolean DEF TransactionsOK, TransactionsFields
<1>2. page.pending \in Seq(Account) /\ s \in Seq(Account) /\ page.pending[i] \in Account
  BY RemoveAtFacts DEF TransactionsOK, TransactionsFields
<1>3. \/ page' = [page EXCEPT !.pending = s, !.settled = settled, !.loading = FALSE,
                              !.shown = page.pending[i], !.stale = ~newest]
      \/ page' = [page EXCEPT !.pending = s, !.settled = settled, !.loading = FALSE, !.error = TRUE,
                              !.stale = (page.stale \/ newest)]
  BY DEF TransactionsAnswer, Stored, Dropped, Taken, TransactionsOK, TransactionsFields
<1> HIDE DEF s, newest
<1>4. TransactionsFields(page') /\ page'.visit = page.visit
  <2>1. /\ page'.exporting = page.exporting /\ page'.export = page.export
        /\ page.exporting \/ page.export = None
    BY <1>3 DEF TransactionsOK, TransactionsFields
  <2> DEFINE stored == [page EXCEPT !.pending = s, !.settled = settled, !.loading = FALSE,
                                    !.shown = page.pending[i], !.stale = ~newest]
  <2>2. CASE page' = stored
    BY <1>1, <1>2, <2>1, <2>2 DEF TransactionsOK, TransactionsFields
  <2>3. CASE page' # stored
    BY <1>1, <1>2, <1>3, <2>1, <2>3 DEF TransactionsOK, TransactionsFields
  <2> QED
    BY <2>2, <2>3
<1>5. IsAnswered(page, page', i)
  BY <1>1, <1>2, <1>3 DEF IsAnswered, s, newest, TransactionsOK, TransactionsFields
<1>6. \A sel : QueryOK(page, sel) => QueryOK(page', sel)
  BY <1>1, <1>2, <1>5, Answered DEF IsAnswered
<1> QED
  BY <1>4, <1>6 DEF TransactionsOK

LEMMA AnalyticsAnswers ==
    ASSUME AnalyticsOK(page), NEW i \in 1..Len(page.pending), AnalyticsAnswer(i)
    PROVE  AnalyticsOK(page') /\ page'.visit = page.visit
<1> DEFINE s == RemoveAt(page.pending, i)
           newest == IsNewest(page, i)
           settled == (page.settled \/ newest)
<1>1. newest \in BOOLEAN /\ page.settled \in BOOLEAN /\ page.stale \in BOOLEAN
  BY NewestBoolean DEF AnalyticsOK, AnalyticsFields
<1>2. page.pending \in Seq(Days) /\ s \in Seq(Days) /\ page.pending[i] \in Days
  BY RemoveAtFacts DEF AnalyticsOK, AnalyticsFields
<1>3. \/ page' = [page EXCEPT !.pending = s, !.settled = settled, !.loading = FALSE,
                              !.shown = page.pending[i], !.stale = ~newest]
      \/ page' = [page EXCEPT !.pending = s, !.settled = settled, !.loading = FALSE, !.error = TRUE,
                              !.stale = (page.stale \/ newest)]
  BY DEF AnalyticsAnswer, Stored, Dropped, Taken, AnalyticsOK, AnalyticsFields
<1> HIDE DEF s, newest
<1>4. AnalyticsFields(page') /\ page'.visit = page.visit /\ page'.days = page.days
  BY <1>1, <1>2, <1>3 DEF AnalyticsOK, AnalyticsFields
<1>5. IsAnswered(page, page', i)
  BY <1>1, <1>2, <1>3 DEF IsAnswered, s, newest, AnalyticsOK, AnalyticsFields
<1>6. \A sel : QueryOK(page, sel) => QueryOK(page', sel)
  BY <1>1, <1>2, <1>5, Answered DEF IsAnswered
<1> QED
  BY <1>4, <1>6 DEF AnalyticsOK

LEMMA ProfileAnswers ==
    ASSUME NEW k, ProfileOK(page, k), NEW i \in 1..Len(page.pending), ProfileAnswer(i)
    PROVE  ProfileOK(page', k) /\ page'.visit = page.visit
<1> DEFINE s == RemoveAt(page.pending, i)
           newest == IsNewest(page, i)
           settled == (page.settled \/ newest)
<1>1. newest \in BOOLEAN /\ page.settled \in BOOLEAN /\ page.stale \in BOOLEAN
  BY NewestBoolean DEF ProfileOK, ProfileFields
<1>2. page.pending \in Seq(Account) /\ s \in Seq(Account) /\ page.pending[i] \in Account
  BY RemoveAtFacts DEF ProfileOK, ProfileFields
<1>3. \/ page' = [page EXCEPT !.pending = s, !.settled = settled,
                              !.shown = page.pending[i], !.stale = ~newest]
      \/ page' = [page EXCEPT !.pending = s, !.settled = settled,
                              !.stale = (page.stale \/ newest)]
  BY DEF ProfileAnswer, Stored, Dropped, Taken, ProfileOK, ProfileFields
<1> HIDE DEF s, newest
<1>4. ProfileFields(page') /\ page'.visit = page.visit
  BY <1>1, <1>2, <1>3 DEF ProfileOK, ProfileFields
<1>5. IsAnswered(page, page', i)
  BY <1>1, <1>2, <1>3 DEF IsAnswered, s, newest, ProfileOK, ProfileFields
<1>6. \A sel : QueryOK(page, sel) => QueryOK(page', sel)
  BY <1>1, <1>2, <1>5, Answered DEF IsAnswered
<1> QED
  BY <1>4, <1>6 DEF ProfileOK

LEMMA DashboardAnswers ==
    ASSUME NEW k, DashboardOK(page, k), NEW i \in 1..Len(page.pending), RewardsAnswer(i)
    PROVE  DashboardOK(page', k) /\ page'.visit = page.visit
<1> DEFINE s == RemoveAt(page.pending, i)
           newest == IsNewest(page, i)
           settled == (page.settled \/ newest)
<1>1. newest \in BOOLEAN /\ page.settled \in BOOLEAN /\ page.stale \in BOOLEAN
  BY NewestBoolean DEF DashboardOK, DashboardFields
<1>2. page.pending \in Seq(Account) /\ s \in Seq(Account) /\ page.pending[i] \in Account
  BY RemoveAtFacts DEF DashboardOK, DashboardFields
<1>3. \/ page' = [page EXCEPT !.pending = s, !.settled = settled,
                              !.shown = page.pending[i], !.stale = ~newest]
      \/ page' = [page EXCEPT !.pending = s, !.settled = settled,
                              !.stale = (page.stale \/ newest)]
  BY DEF RewardsAnswer, Stored, Dropped, Taken, DashboardOK, DashboardFields
<1> HIDE DEF s, newest
<1>4. DashboardFields(page') /\ page'.visit = page.visit
      /\ page'.observed = page.observed /\ (HasMore(page') <=> HasMore(page))
  BY <1>1, <1>2, <1>3 DEF DashboardOK, DashboardFields, HasMore
<1>5. IsAnswered(page, page', i)
  BY <1>1, <1>2, <1>3 DEF IsAnswered, s, newest, DashboardOK, DashboardFields
<1>6. \A sel : QueryOK(page, sel) => QueryOK(page', sel)
  BY <1>1, <1>2, <1>5, Answered DEF IsAnswered
<1> QED
  BY <1>4, <1>6 DEF DashboardOK

LEMMA DetailAnswers ==
    ASSUME DetailOK(page), NEW i \in 1..Len(page.pending), DetailAnswer(i)
    PROVE  DetailOK(page') /\ page'.visit = page.visit
<1> DEFINE s == RemoveAt(page.pending, i)
           newest == IsNewest(page, i)
           settled == (page.settled \/ newest)
<1>1. newest \in BOOLEAN /\ page.settled \in BOOLEAN /\ page.stale \in BOOLEAN
  BY NewestBoolean DEF DetailOK, DetailFields
<1>2. page.pending \in Seq({TheCampaign}) /\ s \in Seq({TheCampaign}) /\ page.pending[i] \in {TheCampaign}
  BY RemoveAtFacts DEF DetailOK, DetailFields
<1>3. \/ page' = [page EXCEPT !.pending = s, !.settled = settled, !.loading = FALSE, !.error = FALSE,
                              !.shown = page.pending[i], !.stale = ~newest]
      \/ page' = [page EXCEPT !.pending = s, !.settled = settled, !.loading = FALSE, !.error = TRUE,
                              !.stale = (page.stale \/ newest)]
  BY DEF DetailAnswer, Stored, Dropped, Taken, DetailOK, DetailFields
<1> HIDE DEF s, newest
<1>4. DetailFields(page') /\ page'.visit = page.visit
  BY <1>1, <1>2, <1>3 DEF DetailOK, DetailFields
<1>5. IsAnswered(page, page', i)
  BY <1>1, <1>2, <1>3 DEF IsAnswered, s, newest, DetailOK, DetailFields
<1>6. \A sel : QueryOK(page, sel) => QueryOK(page', sel)
  BY <1>1, <1>2, <1>5, Answered DEF IsAnswered
<1> QED
  BY <1>4, <1>6 DEF DetailOK

LEMMA MerchantAnswers ==
    ASSUME NEW k, MerchantOK(page, k), NEW i \in 1..Len(page.pending), MerchantAnswer(i)
    PROVE  MerchantOK(page', k) /\ page'.visit = page.visit
<1> DEFINE s == RemoveAt(page.pending, i)
           newest == IsNewest(page, i)
           settled == (page.settled \/ newest)
<1>1. newest \in BOOLEAN /\ page.settled \in BOOLEAN /\ page.stale \in BOOLEAN
  BY NewestBoolean DEF MerchantOK, MerchantFields
<1>2. page.pending \in Seq((Account \cup {None})) /\ s \in Seq((Account \cup {None})) /\ page.pending[i] \in (Account \cup {None})
  BY RemoveAtFacts DEF MerchantOK, MerchantFields
<1>3. \/ page' = [page EXCEPT !.pending = s, !.settled = settled, !.inactive = {},
                              !.shown = page.pending[i], !.stale = ~newest]
      \/ page' = [page EXCEPT !.pending = s, !.settled = settled,
                              !.stale = (page.stale \/ newest)]
  BY DEF MerchantAnswer, Stored, Dropped, Taken, MerchantOK, MerchantFields
<1> HIDE DEF s, newest
<1>4. MerchantFields(page') /\ page'.visit = page.visit
  BY <1>1, <1>2, <1>3 DEF MerchantOK, MerchantFields
<1>5. IsAnswered(page, page', i)
  BY <1>1, <1>2, <1>3 DEF IsAnswered, s, newest, MerchantOK, MerchantFields
<1>6. \A sel : QueryOK(page, sel) => QueryOK(page', sel)
  BY <1>1, <1>2, <1>5, Answered DEF IsAnswered
<1> QED
  BY <1>4, <1>6 DEF MerchantOK

-----------------------------------------------------------------------------
(* The steps of the pages *)

\* The route tells which page it is
LEMMA RouteFacts ==
    ASSUME NEW p, NEW k, PageOK(p, k)
    PROVE  /\ p.route = "home" => HomeFields(p)
           /\ p.route = "dashboard" => DashboardOK(p, k)
           /\ p.route = "detail" => DetailOK(p)
           /\ p.route = "history" => HistoryOK(p, k)
           /\ p.route = "transactions" => TransactionsOK(p, k)
           /\ p.route = "analytics" => AnalyticsOK(p)
           /\ p.route = "profile" => ProfileOK(p, k)
           /\ p.route = "merchant" => MerchantOK(p, k)
<1>1. HomeFields(p) => p.route = "home"
  BY DEF HomeFields
<1>2. DashboardOK(p, k) => p.route = "dashboard"
  BY DEF DashboardOK, DashboardFields
<1>3. DetailOK(p) => p.route = "detail"
  BY DEF DetailOK, DetailFields
<1>4. HistoryOK(p, k) => p.route = "history"
  BY DEF HistoryOK, HistoryFields
<1>5. TransactionsOK(p, k) => p.route = "transactions"
  BY DEF TransactionsOK, TransactionsFields
<1>6. AnalyticsOK(p) => p.route = "analytics"
  BY DEF AnalyticsOK, AnalyticsFields
<1>7. ProfileOK(p, k) => p.route = "profile"
  BY DEF ProfileOK, ProfileFields
<1>8. MerchantOK(p, k) => p.route = "merchant"
  BY DEF MerchantOK, MerchantFields
<1> QED
  BY <1>1, <1>2, <1>3, <1>4, <1>5, <1>6, <1>7, <1>8 DEF PageOK

\* The mounted page keeps being in order
PageKept ==
    /\ PageOK(page', wallet'.key)
    /\ page'.route = page.route /\ page'.visit = page.visit

\* A page is known by its route
LEMMA KeptByRoute ==
    ASSUME NEW p, NEW q, NEW k, q.visit = p.visit,
           \/ DashboardOK(p, k) /\ DashboardOK(q, k)
           \/ DetailOK(p) /\ DetailOK(q)
           \/ HistoryOK(p, k) /\ HistoryOK(q, k)
           \/ TransactionsOK(p, k) /\ TransactionsOK(q, k)
           \/ AnalyticsOK(p) /\ AnalyticsOK(q)
           \/ ProfileOK(p, k) /\ ProfileOK(q, k)
           \/ MerchantOK(p, k) /\ MerchantOK(q, k)
    PROVE  PageOK(q, k) /\ q.route = p.route
<1>1. PageOK(q, k)
  BY DEF PageOK
<1>2. q.route = p.route
  BY DEF DashboardOK, DetailOK, HistoryOK, TransactionsOK, AnalyticsOK, ProfileOK, MerchantOK,
         DashboardFields, DetailFields, HistoryFields, TransactionsFields, AnalyticsFields,
         ProfileFields, MerchantFields
<1> QED
  BY <1>1, <1>2

LEMMA ReadingKeepsPage ==
    ASSUME PageOK(page, wallet.key), wallet.key \in Account \cup {None}, ReadingNext
    PROVE  PageKept
<1> DEFINE k == wallet.key
<1>0. wallet'.key = k
  BY ReadingKeeps DEF walletVars
<1>1. ASSUME NEW q, q = page', q.visit = page.visit,
             \/ HistoryOK(page, k) /\ HistoryOK(q, k)
             \/ TransactionsOK(page, k) /\ TransactionsOK(q, k)
             \/ AnalyticsOK(page) /\ AnalyticsOK(q)
             \/ ProfileOK(page, k) /\ ProfileOK(q, k)
      PROVE  PageKept
  <2>1. PageOK(q, k) /\ q.route = page.route
    BY <1>1, KeptByRoute
  <2> QED
    BY <1>0, <1>1, <2>1 DEF PageKept
<1>2. ASSUME NEW i \in 1..Len(page.pending),
             HistoryAnswer(i) \/ TransactionsAnswer(i) \/ AnalyticsAnswer(i) \/ ProfileAnswer(i)
      PROVE  PageKept
  <2>1. CASE HistoryAnswer(i)
    <3>1. HistoryOK(page, k)
      BY <2>1, RouteFacts DEF HistoryAnswer, HasPage
    <3> QED
      BY <1>1, <2>1, <3>1, HistoryAnswers
  <2>2. CASE TransactionsAnswer(i)
    <3>1. TransactionsOK(page, k)
      BY <2>2, RouteFacts DEF TransactionsAnswer, HasPage
    <3> QED
      BY <1>1, <2>2, <3>1, TransactionsAnswers
  <2>3. CASE AnalyticsAnswer(i)
    <3>1. AnalyticsOK(page)
      BY <2>3, RouteFacts DEF AnalyticsAnswer, HasPage
    <3> QED
      BY <1>1, <2>3, <3>1, AnalyticsAnswers
  <2>4. CASE ProfileAnswer(i)
    <3>1. ProfileOK(page, k)
      BY <2>4, RouteFacts DEF ProfileAnswer, HasPage
    <3> QED
      BY <1>1, <2>4, <3>1, ProfileAnswers
  <2> QED
    BY <1>2, <2>1, <2>2, <2>3, <2>4
<1>3. CASE PreviousPage \/ NextPage
  <2>1. HistoryOK(page, k) /\ page.no \in Nat
    BY <1>3, RouteFacts DEF PreviousPage, NextPage, HasPage, HistoryOK, HistoryFields
  <2>2. PICK no \in Nat : page' = HistoryEffect([page EXCEPT !.no = no], k)
    <3>1. CASE PreviousPage
      BY <2>1, <3>1 DEF PreviousPage, TurnsPage
    <3>2. CASE NextPage
      <4>1. TurnsPage(page.no + 1)
        BY <3>2 DEF NextPage
      <4>2. page' = HistoryEffect([page EXCEPT !.no = page.no + 1], k)
        BY <4>1 DEF TurnsPage
      <4>3. page.no + 1 \in Nat
        BY <2>1
      <4> QED
        BY <4>2, <4>3
    <3> QED
      BY <1>3, <3>1, <3>2
  <2> DEFINE p == [page EXCEPT !.no = no]
  <2>3. HistoryFields(p) /\ p.visit = page.visit
    BY <2>1 DEF HistoryOK, HistoryFields
  <2> HIDE DEF p
  <2>4. HistoryOK(page', k) /\ page'.visit = page.visit
    BY <2>2, <2>3, HistoryEffectKeeps DEF p
  <2> QED
    BY <1>1, <2>1, <2>4
<1>4. CASE \/ \E range \in DateRanges \cup {None} : EnterDates(range)
           \/ ApplyDateFilter \/ ClearDateFilter \/ StartExport \/ ExportEnds
           \/ StartPrint \/ PrintEnds
  <2>1. TransactionsOK(page, k)
    BY <1>4, RouteFacts
       DEF EnterDates, ApplyDateFilter, ClearDateFilter, StartExport, ExportEnds, StartPrint,
           PrintEnds, EditsDates, HasPage
  <2>2. \/ \E typed : page' = [page EXCEPT !.typed = typed]
        \/ \E typed, applied : page' = [page EXCEPT !.typed = typed, !.applied = applied]
        \/ \E applied : page' = [page EXCEPT !.applied = applied]
        \/ \E export : page' = [page EXCEPT !.exporting = TRUE, !.export = export]
        \/ page' = [page EXCEPT !.exporting = FALSE, !.export = None]
        \/ \E printing \in BOOLEAN : page' = [page EXCEPT !.printing = printing]
    BY <1>4
       DEF EnterDates, ApplyDateFilter, ClearDateFilter, StartExport, ExportEnds, StartPrint,
           PrintEnds
  <2>3. TransactionsFields(page') /\ page'.visit = page.visit
    <3>1. TransactionsFields(page)
      BY <2>1 DEF TransactionsOK
    <3>2. /\ page'.exporting \/ page'.export = None
          /\ page'.exporting \in BOOLEAN /\ page'.printing \in BOOLEAN
      BY <2>2, <3>1 DEF TransactionsFields
    <3>3. page' = [page EXCEPT !.typed = page'.typed, !.applied = page'.applied,
                               !.exporting = page'.exporting, !.export = page'.export,
                               !.printing = page'.printing]
      BY <2>2, <3>1 DEF TransactionsFields
    <3> QED
      BY <3>1, <3>2, <3>3 DEF TransactionsFields
  <2>4. k # None => QueryOK(page', k)
    BY <2>1, <2>2 DEF TransactionsOK, TransactionsFields, QueryOK
  <2> QED
    BY <1>1, <2>1, <2>3, <2>4 DEF TransactionsOK
<1>5. ASSUME NEW d \in Days, SelectDays(d) PROVE PageKept
  <2> DEFINE p == [page EXCEPT !.days = d]
  <2>1. AnalyticsOK(page)
    BY <1>5, RouteFacts DEF SelectDays, HasPage
  <2>2. AnalyticsFields(p) /\ p.visit = page.visit
    BY <2>1 DEF AnalyticsOK, AnalyticsFields
  <2>3. page' = AnalyticsEffect(p)
    BY <1>5 DEF SelectDays
  <2> HIDE DEF p
  <2>4. AnalyticsOK(page') /\ page'.visit = page.visit
    BY <2>2, <2>3, AnalyticsEffectKeeps
  <2> QED
    BY <1>1, <2>1, <2>4
<1>6. CASE CopyAddress \/ CopyForgotten
  <2>1. ProfileOK(page, k)
    BY <1>6, RouteFacts DEF CopyAddress, CopyForgotten, HasPage
  <2>2. \E copied \in BOOLEAN : page' = [page EXCEPT !.copied = copied]
    BY <1>6 DEF CopyAddress, CopyForgotten
  <2>3. ProfileOK(page', k) /\ page'.visit = page.visit
    BY <2>1, <2>2 DEF ProfileOK, ProfileFields, QueryOK
  <2> QED
    BY <1>1, <2>1, <2>3
<1> QED
  BY <1>2, <1>3, <1>4, <1>5, <1>6 DEF ReadingNext

\* A change of the table, and of what is marked inactive in it
LEMMA TableKeeps ==
    ASSUME NEW k, NEW table, NEW inactive, MerchantOK(page, k), TableOK(table),
           page' = [page EXCEPT !.table = table, !.inactive = inactive]
    PROVE  MerchantOK(page', k) /\ page'.visit = page.visit
  BY DEF MerchantOK, MerchantFields, QueryOK

LEMMA MerchantFormKeeps ==
    ASSUME NEW k, NEW form, MerchantOK(page, k), FormOK(form),
           page' = [page EXCEPT !.form = form]
    PROVE  MerchantOK(page', k) /\ page'.visit = page.visit
  BY FormKeeps DEF MerchantOK

\* The table starts again with its first page, by another search or order
LEMMA TableRestarts ==
    ASSUME NEW t, TableOK(t), NEW search, NEW key, NEW dir
    PROVE  /\ TableOK([t EXCEPT !.search = search, !.no = 1])
           /\ TableOK([t EXCEPT !.key = key, !.no = 1, !.dir = dir])
<1> DEFINE sought == [t EXCEPT !.search = search, !.no = 1]
           sorted == [t EXCEPT !.key = key, !.no = 1, !.dir = dir]
           No == Nat \ {0}
           Rows == CampaignId \cup {None}
<1>0. PICK S, K, D : t \in [search : S, key : K, dir : D, no : No, confirm : Rows]
  BY DEF TableOK
<1>1. 1 \in No
  OBVIOUS
<1> HIDE DEF No, Rows
<1>2. sought \in [search : {search}, key : K, dir : D, no : No, confirm : Rows]
  BY <1>0, <1>1
<1>3. sorted \in [search : S, key : {key}, dir : {dir}, no : No, confirm : Rows]
  BY <1>0, <1>1
<1> HIDE DEF sought, sorted
<1>4. TableOK(sought) /\ TableOK(sorted)
  BY <1>2, <1>3 DEF TableOK, No, Rows
<1> QED
  BY <1>4 DEF sought, sorted

LEMMA MerchantKeepsPage ==
    ASSUME PageOK(page, wallet.key), MerchantNext
    PROVE  PageKept
<1> DEFINE k == wallet.key
           f == page.form
           t == page.table
<1>0. wallet'.key = k
  BY MerchantKeeps DEF Begins, walletVars
<1>1. ASSUME MerchantOK(page', k) /\ page'.visit = page.visit, MerchantOK(page, k)
      PROVE  PageKept
  <2>1. PageOK(page', k) /\ page'.route = page.route
    BY <1>1, KeptByRoute
  <2> QED
    BY <1>0, <1>1, <2>1 DEF PageKept
<1>2. HasPage("merchant")
  BY DEF MerchantNext, MerchantAnswer, Fill, Review, BackToInput, CreateAnother, Confirm, UsesForm,
         Search, ToggleSort, TurnTable, AskToDeactivate, CancelDeactivate, Deactivate, UsesTable
<1>3. MerchantOK(page, k)
  BY <1>2, RouteFacts DEF HasPage
<1>4. FormOK(f) /\ TableOK(t)
  BY <1>3 DEF MerchantOK, MerchantFields
<1>5. page = [page EXCEPT !.inactive = page.inactive] /\ page = [page EXCEPT !.form = f]
  BY <1>3 DEF MerchantOK, MerchantFields
<1>6. ASSUME NEW i \in 1..Len(page.pending), MerchantAnswer(i) PROVE PageKept
  BY <1>1, <1>3, <1>6, MerchantAnswers
<1>7. ASSUME NEW form, FormOK(form), page' = [page EXCEPT !.form = form] PROVE PageKept
  BY <1>1, <1>3, <1>7, MerchantFormKeeps
<1>8. ASSUME NEW fields, Fill(fields) PROVE PageKept
  <2> DEFINE form == [f EXCEPT !.valid = fields]
  <2>1. page' = [page EXCEPT !.form = form] /\ f.step = "input"
    BY <1>8 DEF Fill, UsesForm
  <2>2. FormOK(form)
    BY <1>4, <2>1 DEF FormOK
  <2> QED
    BY <1>7, <2>1, <2>2
<1>9. CASE Review
  <2> DEFINE errors == Validate(f)
             step == IF errors = {} THEN "confirm" ELSE f.step
             form == [f EXCEPT !.errors = errors, !.step = step]
  <2>1. page' = [page EXCEPT !.form = form] /\ f.step = "input"
    BY <1>4, <1>9 DEF Review, UsesForm, FormOK
  <2>2. Validate(form) = errors
    BY <1>4 DEF FormOK, Validate
  <2>3. FormOK(form)
    <3> HIDE DEF errors
    <3> QED
      BY <1>4, <2>1, <2>2 DEF FormOK
  <2> QED
    BY <1>7, <2>1, <2>3
<1>10. CASE BackToInput
  <2> DEFINE form == [f EXCEPT !.step = "input"]
  <2>1. page' = [page EXCEPT !.form = form] /\ ~f.loading
    BY <1>10 DEF BackToInput
  <2>2. FormOK(form)
    BY <1>4, <2>1 DEF FormOK
  <2> QED
    BY <1>7, <2>1, <2>2
<1>11. CASE CreateAnother
  BY <1>7, <1>11, FormOpenedOK DEF CreateAnother
<1>12. ASSUME NEW c \in Call, Confirm(c) PROVE PageKept
  <2> DEFINE form == [f EXCEPT !.loading = TRUE, !.failed = FALSE, !.call = c]
  <2>1. page' = [page EXCEPT !.form = form] /\ f.step = "confirm"
    BY <1>12 DEF Confirm, UsesForm
  <2>2. c \in Nat /\ c # 0
    BY BrowserAssumption DEF Call
  <2>3. FormOK(form)
    BY <1>4, <2>1, <2>2 DEF FormOK, Validate
  <2> QED
    BY <1>7, <2>1, <2>3
<1>13. ASSUME NEW table, TableOK(table), NEW inactive,
              page' = [page EXCEPT !.table = table, !.inactive = inactive]
       PROVE  PageKept
  BY <1>1, <1>3, <1>13, TableKeeps
<1>14. ASSUME NEW table, TableOK(table), page' = [page EXCEPT !.table = table] PROVE PageKept
  <2>1. page' = [page EXCEPT !.table = table, !.inactive = page.inactive]
    BY <1>3, <1>14 DEF MerchantOK, MerchantFields
  <2> QED
    BY <1>13, <1>14, <2>1
<1>15. ASSUME NEW hits, Search(hits) PROVE PageKept
  <2>1. page' = [page EXCEPT !.table = [t EXCEPT !.search = hits, !.no = 1]]
    BY <1>15 DEF Search
  <2> QED
    BY <1>4, <1>14, <2>1, TableRestarts
<1>16. ASSUME NEW key, ToggleSort(key) PROVE PageKept
  <2>1. PICK dir : page' = [page EXCEPT !.table = [t EXCEPT !.key = key, !.no = 1, !.dir = dir]]
    BY <1>16 DEF ToggleSort
  <2> QED
    BY <1>4, <1>14, <2>1, TableRestarts
<1>17. ASSUME NEW no, TurnTable(no) PROVE PageKept
  <2> DEFINE table == [t EXCEPT !.no = no]
  <2>1. page' = [page EXCEPT !.table = table]
    BY <1>17 DEF TurnTable
  <2>2. no \in Nat \ {0}
    BY <1>4, <1>17 DEF TurnTable, TableOK
  <2>3. TableOK(table)
    BY <1>4, <2>2 DEF TableOK
  <2> QED
    BY <1>14, <2>1, <2>3
<1>18. CASE (\E id \in CampaignId : AskToDeactivate(id)) \/ CancelDeactivate
  <2>1. PICK id \in CampaignId \cup {None} : page' = [page EXCEPT !.table.confirm = id]
    BY <1>18 DEF AskToDeactivate, CancelDeactivate
  <2>2. TableOK([t EXCEPT !.confirm = id])
    BY <1>4 DEF TableOK
  <2> QED
    BY <1>14, <2>1, <2>2
<1>19. CASE Deactivate
  <2> DEFINE table == [t EXCEPT !.confirm = None]
             inactive == page.inactive \cup {t.confirm}
  <2>1. page' = [page EXCEPT !.table = table, !.inactive = inactive]
    BY <1>3, <1>19 DEF Deactivate, MerchantOK, MerchantFields
  <2>2. TableOK(table)
    BY <1>4 DEF TableOK
  <2> QED
    BY <1>13, <2>1, <2>2
<1> QED
  BY <1>6, <1>8, <1>9, <1>10, <1>11, <1>12, <1>15, <1>16, <1>17, <1>18, <1>19 DEF MerchantNext

\* The flag of the claim button changes
LEMMA ClaimingKeeps ==
    ASSUME NEW p, NEW k, PageOK(p, k), NEW id \in CampaignId \cup {None},
           p.route \in {"dashboard", "detail"}
    PROVE  /\ PageOK([p EXCEPT !.claiming = id], k)
           /\ [p EXCEPT !.claiming = id].route = p.route
           /\ [p EXCEPT !.claiming = id].visit = p.visit
<1> DEFINE q == [p EXCEPT !.claiming = id]
<1>1. CASE p.route = "dashboard"
  <2>1. DashboardOK(p, k)
    BY <1>1, RouteFacts
  <2>2. DashboardOK(q, k) /\ q.visit = p.visit
    BY <2>1 DEF DashboardOK, DashboardFields, QueryOK, HasMore
  <2> QED
    BY <2>1, <2>2, KeptByRoute
<1>2. CASE p.route = "detail"
  <2>1. DetailOK(p)
    BY <1>2, RouteFacts
  <2>2. DetailOK(q) /\ q.visit = p.visit
    BY <2>1 DEF DetailOK, DetailFields, QueryOK
  <2> QED
    BY <2>1, <2>2, KeptByRoute
<1> QED
  BY <1>1, <1>2

LEMMA ReleasedKeeps ==
    ASSUME NEW k, NEW c, PageOK(page, k),
           StartedHere(page, c) => page.route \in {"dashboard", "detail"}
    PROVE  /\ PageOK(ClaimReleased(page, c), k)
           /\ ClaimReleased(page, c).route = page.route
           /\ ClaimReleased(page, c).visit = page.visit
  BY ClaimingKeeps DEF ClaimReleased

\* The campaigns of one answer do not go beyond the list
LEMMA ReceivedCount ==
    ASSUME NEW n \in 0..Len(Campaigns)
    PROVE  n + Cardinality({i \in DOMAIN Campaigns : i > n /\ i <= n + PageSize})
               \in 0..Len(Campaigns)
<1> DEFINE received == {i \in DOMAIN Campaigns : i > n /\ i <= n + PageSize}
           m == Len(Campaigns)
<1>1. m \in Nat /\ DOMAIN Campaigns = 1..m
  BY ClaimPagesAssumption
<1>2. received \subseteq (n + 1)..m
  BY <1>1
<1>3. n + 1 \in Int /\ m \in Int
  BY <1>1
<1>4. IsFiniteSet((n + 1)..m) /\ Cardinality((n + 1)..m) = IF n + 1 > m THEN 0 ELSE m - (n + 1) + 1
  BY <1>3, FS_Interval
<1>5. IsFiniteSet(received) /\ Cardinality(received) <= Cardinality((n + 1)..m)
  BY <1>2, <1>4, FS_Subset
<1>6. Cardinality(received) \in Nat
  BY <1>5, FS_CardinalityType
<1> HIDE DEF received
<1>7. n + Cardinality(received) \in 0..m
  BY <1>1, <1>4, <1>5, <1>6 DEF m
<1> QED
  BY <1>7 DEF received

LEMMA CampaignsAnswerKeeps ==
    ASSUME NEW k, k = wallet.key, DashboardOK(page, k), CampaignsAnswer
    PROVE  DashboardOK(page', k) /\ page'.visit = page.visit
<1> DEFINE received == {i \in DOMAIN Campaigns : i > page.listing /\ i <= page.listing + PageSize}
           initial == IF page.listing = 0 THEN FALSE ELSE page.initial
           offset == page.listing + Cardinality(received)
           ended == [page EXCEPT !.listing = None, !.initial = initial]
           more == [page EXCEPT !.listing = None, !.initial = initial, !.offset = offset,
                                !.total = Len(Campaigns)]
<1>1. page.listing \in 0..Len(Campaigns) /\ initial \in BOOLEAN
  BY DEF CampaignsAnswer, DashboardOK, DashboardFields
<1>2. offset \in 0..Len(Campaigns)
  BY <1>1, ReceivedCount
<1> HIDE DEF received, offset, initial
<1>3. ASSUME NEW q \in {ended, more} PROVE DashboardFields(q) /\ q.visit = page.visit
  <2>1. CASE q = ended
    BY <1>1, <2>1 DEF DashboardOK, DashboardFields
  <2>2. CASE q = more
    BY <1>1, <1>2, <2>2 DEF DashboardOK, DashboardFields
  <2> QED
    BY <1>3, <2>1, <2>2
<1>4. ASSUME NEW q \in {ended, more}, k # None PROVE QueryOK(q, k)
  BY <1>1, <1>4 DEF DashboardOK, DashboardFields, QueryOK
<1>5. page' = Observing(more, k) \/ page' = Observing(ended, k)
  BY DEF CampaignsAnswer, initial, offset, received
<1> HIDE DEF ended, more
<1> QED
  BY <1>3, <1>4, <1>5, ObservingKeeps

\* What a claim leaves behind in the page that started it
LEMMA AfterClaimKeepsPage ==
    ASSUME PageOK(page, wallet.key), Placed, WalletInv, ClientInv, OriginInv, NEW c \in Call,
           AfterClaim(c)
    PROVE  PageKept
<1> DEFINE k == wallet.key
<1>1. /\ call[c].stage \in {"confirmed", "balance"}
      /\ call[c].stage = "confirmed" => Handler(c) \in {"dashboard", "detail"}
      /\ wallet'.key = k
  BY DEF AfterClaim, RewardsAfterClaim, BalanceAfterClaim, CampaignAfterClaim, walletVars,
         WalletInv, WalletState
<1>2. call[c].key \in Account /\ Handler(c) \in {"dashboard", "detail"}
  BY <1>1 DEF ClientInv, CallOK, OriginInv, Origin, Handler
<1>3. StartedHere(page, c) => page.route = Handler(c)
  BY DEF StartedHere, Placed, Handler
<1>4. CASE page' = ClaimReleased(page, c)
  BY <1>1, <1>2, <1>3, <1>4, ReleasedKeeps DEF PageKept
<1>5. CASE page' = page
  BY <1>1, <1>5 DEF PageKept
<1>6. CASE /\ Handler(c) = "dashboard" /\ StartedHere(page, c)
           /\ page' = [page EXCEPT !.shown = call[c].key, !.stale = @ \/ call[c].key # wallet.key]
  <2> DEFINE key == call[c].key
             stale == (page.stale \/ key # k)
  <2>1. DashboardOK(page, k)
    BY <1>3, <1>6, RouteFacts
  <2>2. page' = [page EXCEPT !.shown = key, !.stale = stale] /\ stale \in BOOLEAN
    BY <1>6
  <2>3. page.stale \in BOOLEAN
    BY <2>1 DEF DashboardOK, DashboardFields
  <2>4. k # None => QueryOK(page', k)
    BY <2>1, <2>2, <2>3 DEF DashboardOK, DashboardFields, QueryOK
  <2> HIDE DEF stale
  <2>5. DashboardOK(page', k) /\ page'.visit = page.visit
    BY <1>2, <2>1, <2>2, <2>4 DEF DashboardOK, DashboardFields, HasMore
  <2>6. PageOK(page', k) /\ page'.route = page.route
    BY <2>1, <2>5, KeptByRoute
  <2> QED
    BY <1>1, <2>5, <2>6 DEF PageKept
<1>7. CASE /\ Handler(c) = "detail" /\ StartedHere(page, c)
           /\ page' = [ClaimReleased(page, c) EXCEPT !.shown = TheCampaign]
  <2>1. DetailOK(page)
    BY <1>3, <1>7, RouteFacts
  <2>2. page' = [page EXCEPT !.claiming = None, !.shown = TheCampaign]
    BY <1>7 DEF ClaimReleased
  <2>3. DetailOK(page') /\ page'.visit = page.visit
    BY <2>1, <2>2 DEF DetailOK, DetailFields, QueryOK
  <2>4. PageOK(page', k) /\ page'.route = page.route
    BY <2>1, <2>3, KeptByRoute
  <2> QED
    BY <1>1, <2>3, <2>4 DEF PageKept
<1> QED
  BY <1>4, <1>5, <1>6, <1>7
     DEF AfterClaim, RewardsAfterClaim, BalanceAfterClaim, CampaignAfterClaim, FailsAfterClaim

LEMMA ClaimPagesKeepPage ==
    ASSUME PageOK(page, wallet.key), Placed, WalletInv, ClientInv, OriginInv, ClaimPagesNext
    PROVE  PageKept
<1> DEFINE k == wallet.key
<1>1. CASE \E c \in Call : AfterClaim(c)
  BY <1>1, AfterClaimKeepsPage
<1>2. CASE ~\E c \in Call : AfterClaim(c)
  <2>0. wallet'.key = k
    BY <1>2, ClaimPagesKeep DEF Begins, walletVars
  <2>1. ASSUME DashboardOK(page, k), DashboardOK(page', k), page'.visit = page.visit PROVE PageKept
    BY <2>0, <2>1, KeptByRoute DEF PageKept
  <2>2. ASSUME DetailOK(page), DetailOK(page'), page'.visit = page.visit PROVE PageKept
    BY <2>0, <2>2, KeptByRoute DEF PageKept
  <2>3. HasPage("dashboard") => DashboardOK(page, k)
    BY RouteFacts DEF HasPage
  <2>4. HasPage("detail") => DetailOK(page)
    BY RouteFacts DEF HasPage
  <2>5. ASSUME NEW id, CountdownEnds(id) PROVE PageKept
    BY <2>0, <2>5 DEF CountdownEnds, PageKept
  <2>6. CASE CampaignsAnswer
    <3>1. DashboardOK(page, k)
      BY <2>3, <2>6 DEF CampaignsAnswer
    <3> QED
      BY <2>1, <2>6, <3>1, CampaignsAnswerKeeps
  <2>7. CASE Intersecting
    <3>1. DashboardOK(page, k) /\ page' = Loading(page, page.offset, k)
      BY <2>3, <2>7 DEF Intersecting
    <3>2. DashboardFields(page) /\ (k # None => QueryOK(page, k)) /\ page.offset \in 0..Len(Campaigns)
      BY <3>1 DEF DashboardOK, DashboardFields
    <3> QED
      BY <2>1, <3>1, <3>2, LoadingKeeps
  <2>8. CASE SwitchLanguage
    <3>1. DetailOK(page) /\ page' = DetailEffect(page)
      BY <2>4, <2>8 DEF SwitchLanguage
    <3> QED
      BY <2>2, <3>1, DetailEffectKeeps DEF DetailOK
  <2>9. ASSUME NEW i \in 1..Len(page.pending), RewardsAnswer(i) PROVE PageKept
    <3>1. DashboardOK(page, k)
      BY <2>3, <2>9 DEF RewardsAnswer
    <3> QED
      BY <2>1, <2>9, <3>1, DashboardAnswers
  <2>10. ASSUME NEW i \in 1..Len(page.pending), DetailAnswer(i) PROVE PageKept
    <3>1. DetailOK(page)
      BY <2>4, <2>10 DEF DetailAnswer
    <3> QED
      BY <2>2, <2>10, <3>1, DetailAnswers
  <2>11. ASSUME NEW answered \in BOOLEAN, NEW ok \in BOOLEAN, NEW stellar \in BOOLEAN,
                NEW database \in BOOLEAN, CheckHealth(answered, ok, stellar, database)
         PROVE  PageKept
    <3>1. DashboardOK(page, k)
      BY <2>3, <2>11 DEF CheckHealth
    <3>2. PICK h \in {"connected", "degraded", "unreachable"} : page' = [page EXCEPT !.health = h]
      BY <2>11 DEF CheckHealth, HealthOf
    <3>3. DashboardOK(page', k) /\ page'.visit = page.visit
      BY <3>1, <3>2 DEF DashboardOK, DashboardFields, QueryOK, HasMore
    <3> QED
      BY <2>1, <3>1, <3>3
  <2>12. ASSUME NEW id \in CampaignId, page.route \in {"dashboard", "detail"},
                page' = [page EXCEPT !.claiming = id]
         PROVE  PageKept
    BY <2>0, <2>12, ClaimingKeeps DEF PageKept
  <2>13. ASSUME NEW c, NEW id \in CampaignId, ClaimOnDashboard(c, id) PROVE PageKept
    BY <2>12, <2>13 DEF ClaimOnDashboard, HasPage
  <2>14. ASSUME NEW c, ClaimOnDetail(c) PROVE PageKept
    BY <2>12, <2>14, TheCampaignType DEF ClaimOnDetail, HasPage
  <2> QED
    BY <1>2, <2>5, <2>6, <2>7, <2>8, <2>9, <2>10, <2>11, <2>13, <2>14 DEF ClaimPagesNext
<1> QED
  BY <1>1, <1>2

-----------------------------------------------------------------------------
(* The page under the steps of the wallet and of the invocations *)

LEMMA WalletStepKeepsPage ==
    ASSUME PageOK(page, wallet.key), WalletInv', WalletStep(WalletNext)
    PROVE  PageKept
<1>1. wallet'.key \in Account \cup {None}
  BY DEF WalletInv, WalletState
<1>2. CASE wallet'.key = wallet.key
  BY <1>2 DEF WalletStep, PageKept
<1>3. CASE wallet'.key # wallet.key
  <2> DEFINE k == wallet'.key
  <2>1. page' = KeyEffect(page, k)
    BY <1>3 DEF WalletStep
  <2> HIDE DEF k
  <2>2. /\ PageOK(KeyEffect(page, k), k)
        /\ KeyEffect(page, k).route = page.route /\ KeyEffect(page, k).visit = page.visit
    BY <1>1, KeyEffectKeeps DEF k
  <2> QED
    BY <2>1, <2>2 DEF PageKept, k
<1> QED
  BY <1>2, <1>3

\* The form is told that its invocation failed
LEMMA FailedKeeps ==
    ASSUME NEW k, NEW c, MerchantOK(page, k)
    PROVE  MerchantOK(CreateFailed(page, c), k) /\ CreateFailed(page, c).visit = page.visit
<1> DEFINE form == [page.form EXCEPT !.failed = TRUE, !.step = "input", !.loading = FALSE]
<1>1. MerchantFields(page) /\ QueryOK(page, k) /\ FormOK(page.form)
  BY DEF MerchantOK, MerchantFields
<1>2. FormOK(form)
  BY <1>1 DEF FormOK
<1>3. CreateFailed(page, c) = page \/ CreateFailed(page, c) = [page EXCEPT !.form = form]
  BY DEF CreateFailed
<1> HIDE DEF form
<1>4. MerchantOK([page EXCEPT !.form = form], k) /\ [page EXCEPT !.form = form].visit = page.visit
  BY <1>1, <1>2, FormKeeps DEF MerchantOK
<1> QED
  BY <1>3, <1>4

\* ... or succeeded, and the list is asked for again, for the account of now or
\* for that of the render in which the form was confirmed
LEMMA SucceededKeeps ==
    ASSUME NEW c, MerchantOK(page, wallet.key), wallet.key \in Account \cup {None},
           call[c].key \in Account
    PROVE  /\ MerchantOK(CreateSucceeded(page, c), wallet.key)
           /\ CreateSucceeded(page, c).visit = page.visit
<1> DEFINE k == wallet.key
           key == call[c].key
           form == [page.form EXCEPT !.step = "success", !.loading = FALSE]
           answered == IF WaitsFor(page, c) THEN [page EXCEPT !.form = form] ELSE page
<1>1. MerchantFields(page) /\ QueryOK(page, k) /\ FormOK(page.form)
  BY DEF MerchantOK, MerchantFields
<1>2. FormOK(form)
  BY <1>1 DEF FormOK
<1>3. MerchantFields(answered) /\ QueryOK(answered, k) /\ answered.visit = page.visit
  BY <1>1, <1>2, FormKeeps
<1>4. CreateSucceeded(page, c) = IF ~StartedHere(page, c) THEN page
                                 ELSE IF key = k THEN LoadCampaigns(answered, key)
                                 ELSE AskingLate(answered, key)
  <2>1. [page EXCEPT !.form.step = "success", !.form.loading = FALSE] = [page EXCEPT !.form = form]
    BY <1>1 DEF MerchantFields
  <2> HIDE DEF form
  <2> QED
    BY <2>1 DEF CreateSucceeded
<1> HIDE DEF answered
<1>5. MerchantOK(LoadCampaigns(answered, k), k) /\ LoadCampaigns(answered, k).visit = page.visit
  BY <1>3, LoadKeeps
<1>6. MerchantOK(AskingLate(answered, key), k) /\ AskingLate(answered, key).visit = page.visit
  <2> DEFINE q == AskingLate(answered, key)
             s == <<key>> \o answered.pending
  <2>1. q = [answered EXCEPT !.pending = s]
    BY <1>3 DEF AskingLate, MerchantFields
  <2>2. key \in Account \cup {None} /\ answered.pending \in Seq(Account \cup {None})
    BY <1>3 DEF MerchantFields
  <2>3. /\ q.pending = s /\ q.settled = answered.settled /\ q.shown = answered.shown
        /\ q.stale = answered.stale /\ q.visit = page.visit
    BY <1>3, <2>1 DEF MerchantFields
  <2> HIDE DEF q
  <2>4. QueryOK(q, k) /\ q.pending \in Seq(Account \cup {None})
    <3> DEFINE Q == Account \cup {None}
    <3>1. key \in Q /\ answered.pending \in Seq(Q)
      BY <2>2
    <3> HIDE DEF Q, key
    <3>2. (QueryOK(answered, k) => QueryOK(q, k)) /\ q.pending \in Seq(Q)
      BY <2>3, <3>1, AskedLate
    <3> QED
      BY <1>3, <3>2 DEF Q
  <2> HIDE DEF s
  <2>5. MerchantFields(q)
    BY <1>3, <2>1, <2>3, <2>4 DEF MerchantFields
  <2> QED
    BY <2>3, <2>4, <2>5 DEF MerchantOK, q
<1> QED
  BY <1>4, <1>5, <1>6

LEMMA HandlerKeepsPage ==
    ASSUME PageOK(page, wallet.key), Placed, WalletInv, ClientInv, OriginInv, NEW c \in Call,
           Invocation(c)
    PROVE  PageKept
<1> DEFINE k == wallet.key
<1>1. k \in Account \cup {None} /\ wallet'.key = k
  BY DEF WalletInv, WalletState, Invocation, walletVars
<1>2. Continues(call'[c], call[c])
  BY StepContinues DEF Invocation
<1>3. call[c].key \in Account
  BY <1>2 DEF Continues, ClientInv, CallOK
<1>4. CASE page' = page
  BY <1>1, <1>4 DEF PageKept
<1>5. CASE call[c].what # None /\ page' = ClaimReleased(page, c)
  <2>1. StartedHere(page, c) => page.route \in {"dashboard", "detail"}
    BY <1>2, <1>5 DEF StartedHere, Placed, Continues, OriginInv, Origin
  <2> QED
    BY <1>1, <1>5, <2>1, ReleasedKeeps DEF PageKept
<1>6. CASE call[c].what = None /\ page' \in {CreateFailed(page, c), CreateSucceeded(page, c)}
  <2>1. CASE ~StartedHere(page, c)
    <3>1. page' = page
      BY <1>6, <2>1 DEF CreateFailed, CreateSucceeded, WaitsFor
    <3> QED
      BY <1>4, <3>1
  <2>2. CASE StartedHere(page, c)
    <3>1. page.route = "merchant"
      BY <1>2, <1>6, <2>2, BrowserAssumption
         DEF StartedHere, Placed, Continues, OriginInv, Origin
    <3>2. MerchantOK(page, k)
      BY <3>1, RouteFacts
    <3>3. MerchantOK(page', k) /\ page'.visit = page.visit
      BY <1>1, <1>3, <1>6, <3>2, FailedKeeps, SucceededKeeps
    <3>4. PageOK(page', k) /\ page'.route = page.route
      BY <3>2, <3>3, KeptByRoute
    <3> QED
      BY <1>1, <3>3, <3>4 DEF PageKept
  <2> QED
    BY <2>1, <2>2
<1> QED
  BY <1>4, <1>5, <1>6 DEF Invocation, HandlerResumes

-----------------------------------------------------------------------------
(* The bounds of a scenario *)

Bounded ==
    /\ changes \in 0..scenario.changes /\ faults \in 0..scenario.faults
    /\ expired \subseteq CampaignId

\* A step counts at most one change and one failed request
Counted == (UNCHANGED changes \/ Changes) /\ (UNCHANGED faults \/ Rejects)

LEMMA CountedKeeps ==
    ASSUME Bounded, scenario \in Scenarios, UNCHANGED scenario, Counted,
           \/ UNCHANGED expired
           \/ \E id \in CampaignId : CountdownEnds(id)
    PROVE  Bounded'
<1>1. scenario.changes \in Nat /\ scenario.faults \in Nat
  BY RoutesFacts
<1>2. changes' \in 0..scenario.changes
  BY <1>1 DEF Bounded, Counted, Changes
<1>3. faults' \in 0..scenario.faults
  BY <1>1 DEF Bounded, Counted, Rejects
<1>4. expired' \subseteq CampaignId
  BY DEF Bounded, CountdownEnds
<1> QED
  BY <1>2, <1>3, <1>4 DEF Bounded

LEMMA WalletCounted == ASSUME WalletNext PROVE Counted
<1>1. CASE LookupRead \/ LookupArrives \/ CloseModal \/ ConnectApproved \/ ConnectRefused
           \/ IntervalFires
  BY <1>1 DEF LookupRead, LookupArrives, CloseModal, ConnectApproved, ConnectRefused,
              IntervalFires, Counted
<1>2. CASE ConnectClicked \/ Disconnect \/ ToggleVisibility \/ \E a \in Account : SwitchAccount(a)
  BY <1>2 DEF ConnectClicked, Disconnect, ToggleVisibility, SwitchAccount, Counted
<1>3. CASE \E a \in Account : RefreshEnds(a)
  BY <1>3 DEF RefreshEnds, Resolves, Counted
<1> QED
  BY <1>1, <1>2, <1>3 DEF WalletNext

LEMMA ReadingCounted == ASSUME ReadingNext PROVE Counted
<1>1. ASSUME NEW i, HistoryAnswer(i) \/ TransactionsAnswer(i) \/ AnalyticsAnswer(i) \/ ProfileAnswer(i)
      PROVE  Counted
  BY <1>1 DEF HistoryAnswer, TransactionsAnswer, AnalyticsAnswer, ProfileAnswer, Resolves, Counted
<1>2. CASE PreviousPage \/ NextPage
  BY <1>2 DEF PreviousPage, NextPage, TurnsPage, Counted
<1>3. CASE \/ \E range \in DateRanges \cup {None} : EnterDates(range)
           \/ ApplyDateFilter \/ ClearDateFilter \/ StartExport \/ StartPrint
  BY <1>3 DEF EnterDates, ApplyDateFilter, ClearDateFilter, StartExport, StartPrint, EditsDates,
              Counted
<1>4. CASE ExportEnds \/ PrintEnds \/ CopyAddress \/ CopyForgotten
  BY <1>4 DEF ExportEnds, PrintEnds, CopyAddress, CopyForgotten, PageOnly, Counted
<1>5. CASE \E d \in Days : SelectDays(d)
  BY <1>5 DEF SelectDays, Counted
<1> QED
  BY <1>1, <1>2, <1>3, <1>4, <1>5 DEF ReadingNext

LEMMA MerchantCounted == ASSUME MerchantNext PROVE Counted
<1>1. ASSUME NEW i, MerchantAnswer(i) PROVE Counted
  BY <1>1 DEF MerchantAnswer, Resolves, Counted
<1>2. ASSUME NEW c, Confirm(c) PROVE Counted
  BY <1>2 DEF Confirm, Counted
<1>3. CASE (\E fields \in Inputs : Fill(fields)) \/ Review \/ BackToInput \/ CreateAnother
  BY <1>3 DEF Fill, Review, BackToInput, CreateAnother, PageOnly, Counted
<1>4. CASE \/ \E hits \in Searches : Search(hits)
           \/ \E key \in SortKey : ToggleSort(key)
           \/ HasPage("merchant") /\ \E no \in {page.table.no - 1, page.table.no + 1} : TurnTable(no)
           \/ \E id \in CampaignId : AskToDeactivate(id)
           \/ CancelDeactivate \/ Deactivate
  <2>1. UsesTable
    BY <1>4 DEF Search, ToggleSort, TurnTable, AskToDeactivate, CancelDeactivate, Deactivate
  <2> QED
    BY <2>1 DEF UsesTable, PageOnly, Counted
<1> QED
  BY <1>1, <1>2, <1>3, <1>4 DEF MerchantNext

LEMMA ClaimPagesCounted ==
    ASSUME ClaimPagesNext
    PROVE  Counted /\ (UNCHANGED expired \/ \E id \in CampaignId : CountdownEnds(id))
<1>1. ASSUME NEW id, CountdownEnds(id) PROVE Counted
  BY <1>1 DEF CountdownEnds, Counted
<1>2. CASE CampaignsAnswer \/ Intersecting \/ SwitchLanguage
  BY <1>2 DEF CampaignsAnswer, Intersecting, SwitchLanguage, PageOnly, Resolves, Counted
<1>3. ASSUME NEW i, RewardsAnswer(i) \/ DetailAnswer(i) PROVE Counted /\ UNCHANGED expired
  BY <1>3 DEF RewardsAnswer, DetailAnswer, Resolves, Counted
<1>4. ASSUME NEW answered, NEW ok, NEW stellar, NEW database,
             CheckHealth(answered, ok, stellar, database)
      PROVE  Counted /\ UNCHANGED expired
  BY <1>4 DEF CheckHealth, PageOnly, Counted
<1>5. ASSUME NEW c, NEW id, ClaimOnDashboard(c, id) PROVE Counted /\ UNCHANGED expired
  BY <1>5 DEF ClaimOnDashboard, Counted
<1>6. ASSUME NEW c, ClaimOnDetail(c) PROVE Counted /\ UNCHANGED expired
  BY <1>6 DEF ClaimOnDetail, Counted
<1>7. ASSUME NEW c, AfterClaim(c) PROVE Counted /\ UNCHANGED expired
  BY <1>7 DEF AfterClaim, RewardsAfterClaim, BalanceAfterClaim, CampaignAfterClaim,
              FailsAfterClaim, Resolves, Counted
<1> QED
  BY <1>1, <1>2, <1>3, <1>4, <1>5, <1>6, <1>7
     DEF ClaimPagesNext, CampaignsAnswer, Intersecting, SwitchLanguage

-----------------------------------------------------------------------------
(* The client *)

SessionInv == WalletInv /\ ClientInv /\ OriginInv /\ LedgerInv

\* The inductive invariant
Inv == Placed /\ Bounded /\ SessionInv /\ PageOK(page, wallet.key)

LEMMA InitInv == ASSUME Init PROVE Inv
<1>0. /\ scenario \in Scenarios /\ scenario.active \in Account /\ scenario.allowed \in BOOLEAN
  BY BrowserAssumption DEF Init, Scenario
<1>1. wallet.key = None
  BY DEF Init, WalletInit
<1>2. WalletInv
  BY <1>0 DEF Init, WalletInit, WalletInv, WalletState
<1>3. \A c \in Call : call[c] = FreeCall
  BY DEF Init, ClientInit
<1>4. ClientInv
  <2>1. \A c \in Call : CallOK(call[c], ledger.sequence)
    BY <1>3, FreeCallOK
  <2>2. call = [c \in Call |-> call[c]]
    BY DEF Init, ClientInit
  <2>3. ledger \in [claimed : {ledger.claimed}, sequence : [Account -> Nat]]
    BY DEF Init, ClientInit
  <2> QED
    BY <2>1, <2>2, <2>3 DEF ClientInv
<1>5. OriginInv
  BY <1>3, FreeCallOK DEF OriginInv, Origin
<1>6. LedgerInv
  <2>1. ledger.claimed = {} /\ \A a \in Account : ledger.sequence[a] = 0
    BY DEF Init, ClientInit
  <2>2. ASSUME NEW a PROVE Inclusions(a) = {}
    <3>1. ~OnLedger(FreeCall)
      BY DEF FreeCall, OnLedger
    <3> QED
      BY <1>3, <3>1 DEF Inclusions
  <2> QED
    BY <2>1, <2>2, FS_EmptySet DEF LedgerInv
<1>7. Bounded
  BY <1>0, RoutesFacts DEF Init, Bounded
<1>8. scenario.routes \in Seq(Route) /\ 1 \in 1..Len(scenario.routes)
  BY <1>0, RoutesFacts
<1> DEFINE route == scenario.routes[1]
<1>9. route \in Route /\ page = Opened(route, 1, None)
  BY <1>8 DEF Init
<1> HIDE DEF route
<1>10. /\ PageOK(Opened(route, 1, None), None)
       /\ Opened(route, 1, None).route = route /\ Opened(route, 1, None).visit = 1
  BY <1>9, OpenedOK
<1>11. PageOK(page, wallet.key) /\ Placed
  BY <1>0, <1>1, <1>8, <1>9, <1>10 DEF Placed, route
<1> QED
  BY <1>2, <1>4, <1>5, <1>6, <1>7, <1>11 DEF Inv, SessionInv

\* What changes neither the wallet nor an invocation
LEMMA NothingKeeps ==
    ASSUME SessionInv, UNCHANGED <<scenario, walletVars, clientVars>> PROVE SessionInv'
<1>1. UNCHANGED <<wallet, freighter, call, ledger, scenario>>
  BY DEF walletVars, clientVars
<1>2. WalletInv' /\ ClientInv' /\ OriginInv'
  BY <1>1 DEF SessionInv, WalletInv, ClientInv, OriginInv, Origin
<1>3. LedgerInv'
  BY <1>1, LedgerSame DEF SessionInv
<1> QED
  BY <1>2, <1>3 DEF SessionInv

LEMMA BeginsKeeps == ASSUME SessionInv, Placed, Begins, UNCHANGED scenario PROVE SessionInv'
<1>1. /\ wallet.key \in Account /\ UNCHANGED <<wallet, freighter, ledger>>
      /\ page.visit \in Nat /\ page.visit \in 1..Len(scenario.routes)
  BY RoutesFacts DEF SessionInv, WalletInv, WalletState, Begins, walletVars, Placed
<1>2. PICK c \in Call, what \in CampaignId \cup {None} :
        /\ call[c].stage = "free"
        /\ Begin(c, wallet.key, what, page.visit)
        /\ IF what = None THEN page.route = "merchant" ELSE page.route \in {"dashboard", "detail"}
  BY DEF Begins
<1> DEFINE q == [FreeCall EXCEPT !.stage = "preparing", !.key = wallet.key, !.what = what,
                                 !.visit = page.visit]
<1>3. call' = [call EXCEPT ![c] = q] /\ call'[c] = q
  BY <1>2 DEF Begin, SessionInv, ClientInv
<1>4. ClientInv' /\ WalletInv'
  BY <1>1, <1>2, BeginKeeps DEF SessionInv, WalletInv
<1>5. q.stage = "preparing" /\ q.what = what /\ q.visit = page.visit /\ q.tx = "none"
  BY DEF FreeCall
<1> HIDE DEF q
<1>6. Origin(q)
  BY <1>1, <1>2, <1>5 DEF Origin, Placed
<1>7. OriginInv'
  BY <1>3, <1>6, OneOrigin DEF SessionInv
<1>8. ~OnLedger(call[c]) /\ ~OnLedger(q)
  BY <1>2, <1>5 DEF OnLedger, SessionInv, ClientInv, CallOK, Early
<1>9. ASSUME NEW d \in Call, d # c PROVE call'[d] = call[d]
  BY <1>3, <1>9 DEF SessionInv, ClientInv
<1>10. LedgerInv'
  BY <1>1, <1>3, <1>8, <1>9, LedgerSame DEF SessionInv
<1> QED
  BY <1>4, <1>7, <1>10 DEF SessionInv

LEMMA WalletStepKeeps ==
    ASSUME SessionInv, WalletStep(WalletNext), UNCHANGED scenario PROVE SessionInv'
<1>1. WalletInv'
  BY WalletKeeps DEF WalletStep, SessionInv
<1>2. UNCHANGED <<call, ledger>>
  BY DEF WalletStep, clientVars
<1>3. ClientInv' /\ OriginInv'
  BY <1>2 DEF SessionInv, ClientInv, OriginInv, Origin
<1>4. LedgerInv'
  BY <1>2, LedgerSame DEF SessionInv
<1> QED
  BY <1>1, <1>3, <1>4 DEF SessionInv

\* A handler that awaits its balance is one of the dashboard's
LEMMA AfterClaimKeepsSession ==
    ASSUME SessionInv, NEW c \in Call, AfterClaim(c), UNCHANGED scenario PROVE SessionInv'
<1> DEFINE r == call[c]
<1>1. WalletInv' /\ ClientInv'
  BY AfterClaimKeeps DEF SessionInv
<1>2. /\ r.stage \in {"confirmed", "balance"} /\ UNCHANGED ledger
      /\ r \in CallState
  BY DEF AfterClaim, RewardsAfterClaim, BalanceAfterClaim, CampaignAfterClaim,
         SessionInv, ClientInv, CallOK
<1>9. PICK q : /\ call' = [call EXCEPT ![c] = q] /\ Resumed(q, r)
               /\ q.stage \in {"balance", "done"}
               /\ q.stage = "balance" => Handler(c) = "dashboard"
  BY AfterClaimResumes DEF SessionInv
<1>3. call'[c] = q
  BY <1>9 DEF SessionInv, ClientInv
<1>4. q.key = r.key /\ q.what = r.what /\ q.visit = r.visit /\ q.tx = r.tx
  BY <1>2, <1>9 DEF CallState, Resumed
<1>5. Origin(q)
  BY <1>2, <1>4, <1>9 DEF Handler, SessionInv, OriginInv, Origin
<1>6. OriginInv'
  BY <1>2, <1>3, <1>5, <1>9, OneOrigin DEF SessionInv
<1>7. ASSUME NEW d \in Call, d # c PROVE call'[d] = call[d]
  BY <1>7, <1>9 DEF SessionInv, ClientInv
<1>8. LedgerInv'
  BY <1>2, <1>3, <1>4, <1>7, <1>9, LedgerSame DEF SessionInv, OnLedger
<1> QED
  BY <1>1, <1>6, <1>8 DEF SessionInv

LEMMA InvocationKeepsSession ==
    ASSUME SessionInv, NEW c \in Call, Invocation(c) \/ OutsideStep(c), UNCHANGED scenario
    PROVE  SessionInv'
<1>1. UNCHANGED <<wallet, freighter>> /\ (ClientStep(c) \/ UserHesitates(c) \/ LedgerCloses(c))
  BY DEF Invocation, OutsideStep, walletVars
<1>2. WalletInv' /\ ClientInv'
  BY <1>1, InvocationKeeps DEF SessionInv, WalletInv
<1>3. call' = [call EXCEPT ![c] = call'[c]] /\ Continues(call'[c], call[c])
  BY <1>1, StepContinues, ClosingContinues DEF SessionInv
<1>4. OriginInv'
  <2>1. Origin(call'[c])
    BY <1>3, ContinuesOrigin DEF SessionInv, OriginInv
  <2> QED
    BY <1>3, <2>1, OneOrigin DEF SessionInv
<1>5. LedgerInv'
  <2>1. CASE LedgerCloses(c)
    BY <2>1, LedgerGrows DEF SessionInv
  <2>2. CASE ClientStep(c) \/ UserHesitates(c)
    <3>1. UNCHANGED ledger /\ (OnLedger(call'[c]) <=> OnLedger(call[c]))
      BY <2>2, StepContinues DEF SessionInv
    <3>2. ASSUME NEW d \in Call, d # c PROVE call'[d] = call[d]
      BY <1>3, <3>2 DEF SessionInv, ClientInv
    <3>3. call'[c].key = call[c].key
      BY <1>3 DEF Continues
    <3>4. ASSUME NEW d \in Call
          PROVE  /\ OnLedger(call'[d]) <=> OnLedger(call[d])
                 /\ OnLedger(call[d]) => call'[d].key = call[d].key
      BY <3>1, <3>2, <3>3
    <3> QED
      BY <3>1, <3>4, LedgerSame DEF SessionInv
  <2> QED
    BY <1>1, <2>1, <2>2
<1> QED
  BY <1>2, <1>4, <1>5 DEF SessionInv

LEMMA PageKeptPlaces == ASSUME Placed, PageKept, UNCHANGED scenario PROVE Placed'
  BY DEF Placed, PageKept

\* A link opens the next page of the scenario
LEMMA NavigateKeeps ==
    ASSUME Inv, Navigate, UNCHANGED scenario
    PROVE  Placed' /\ PageOK(page', wallet'.key)
<1> DEFINE n == page.visit + 1
           route == scenario.routes[n]
           k == wallet.key
<1>1. scenario.routes \in Seq(Route) /\ Len(scenario.routes) \in Nat
  BY RoutesFacts DEF Inv, Placed
<1>2. n \in 1..Len(scenario.routes) /\ page' = Opened(route, n, k) /\ wallet'.key = k
  BY <1>1 DEF Inv, Placed, Navigate, walletVars
<1>3. k \in Account \cup {None} /\ route \in Route
  BY <1>1, <1>2 DEF Inv, SessionInv, WalletInv, WalletState
<1> HIDE DEF n, route, k
<1>4. /\ PageOK(Opened(route, n, k), k)
      /\ Opened(route, n, k).route = route /\ Opened(route, n, k).visit = n
  BY <1>3, OpenedOK
<1> QED
  BY <1>2, <1>4 DEF Inv, Placed, route

LEMMA NextInv == ASSUME Inv, [Next]_vars PROVE Inv'
<1>0. CASE UNCHANGED vars
  <2>1. SessionInv'
    BY <1>0, NothingKeeps DEF Inv, vars, walletVars, clientVars
  <2>2. Placed' /\ Bounded' /\ PageOK(page', wallet'.key)
    BY <1>0 DEF Inv, Placed, Bounded, vars
  <2> QED
    BY <2>1, <2>2 DEF Inv
<1> SUFFICES ASSUME Next PROVE Inv'
  BY <1>0
<1> USE DEF Inv
<1>1. UNCHANGED scenario /\ scenario \in Scenarios
  BY DEF Next, Placed
<1>2. wallet.key \in Account \cup {None}
  BY DEF SessionInv, WalletInv, WalletState
<1>3. ASSUME SessionInv', PageKept, Bounded' PROVE Inv'
  BY <1>1, <1>3, PageKeptPlaces DEF PageKept
<1>4. ASSUME Counted, UNCHANGED expired PROVE Bounded'
  BY <1>1, <1>4, CountedKeeps
<1>5. CASE WalletStep(WalletNext)
  <2>1. SessionInv'
    BY <1>1, <1>5, WalletStepKeeps
  <2>2. PageKept
    BY <1>5, <2>1, WalletStepKeepsPage DEF SessionInv
  <2>3. Bounded'
    BY <1>4, <1>5, WalletCounted DEF WalletStep
  <2> QED
    BY <1>3, <2>1, <2>2, <2>3
<1>6. CASE ReadingNext /\ UNCHANGED expired
  <2>1. SessionInv'
    BY <1>1, <1>6, ReadingKeeps, NothingKeeps
  <2> QED
    BY <1>2, <1>3, <1>4, <1>6, <2>1, ReadingKeepsPage, ReadingCounted
<1>7. CASE ClaimPagesNext
  <2>1. SessionInv'
    <3>1. CASE \E c \in Call : AfterClaim(c)
      BY <1>1, <3>1, AfterClaimKeepsSession
    <3> QED
      BY <1>1, <1>7, <3>1, ClaimPagesKeep, NothingKeeps, BeginsKeeps
  <2>2. PageKept
    BY <1>7, ClaimPagesKeepPage DEF SessionInv
  <2>3. Bounded'
    BY <1>1, <1>7, ClaimPagesCounted, CountedKeeps
  <2> QED
    BY <1>3, <2>1, <2>2, <2>3
<1>8. CASE MerchantNext /\ UNCHANGED expired
  <2>1. SessionInv'
    BY <1>1, <1>8, MerchantKeeps, NothingKeeps, BeginsKeeps
  <2> QED
    BY <1>3, <1>4, <1>8, <2>1, MerchantKeepsPage, MerchantCounted
<1>9. ASSUME NEW c \in Call, Invocation(c) \/ OutsideStep(c) PROVE Inv'
  <2>1. SessionInv'
    BY <1>1, <1>9, InvocationKeepsSession
  <2>2. PageKept
    <3>1. CASE Invocation(c)
      BY <3>1, HandlerKeepsPage DEF SessionInv
    <3>2. CASE OutsideStep(c)
      BY <3>2 DEF OutsideStep, walletVars, PageKept
    <3> QED
      BY <1>9, <3>1, <3>2
  <2>3. Bounded'
    BY <1>4, <1>9 DEF Invocation, OutsideStep, Counted
  <2> QED
    BY <1>3, <2>1, <2>2, <2>3
<1>10. CASE Navigate
  <2>1. SessionInv'
    BY <1>1, <1>10, NothingKeeps DEF Navigate
  <2>2. Bounded'
    BY <1>4, <1>10 DEF Navigate, Counted
  <2> QED
    BY <1>1, <1>10, <2>1, <2>2, NavigateKeeps
<1> QED
  BY <1>5, <1>6, <1>7, <1>8, <1>9, <1>10 DEF Next
-----------------------------------------------------------------------------
(* What the invariant says *)

LEMMA InvReportsAreTrue == ASSUME Inv PROVE ReportsAreTrue
<1>1. ASSUME NEW c \in Call PROVE TrueReport(call[c], ledger.sequence)
  BY DEF Inv, SessionInv, ClientInv, CallOK
<1> QED
  BY <1>1 DEF TrueReport, Includable, ReportsAreTrue, Acceptable

\* The newest question of a page at rest has its answer
LEMMA Rested ==
    ASSUME NEW p, NEW sel, QueryOK(p, sel), p.settled \in BOOLEAN, p.pending = <<>>, ~p.stale
    PROVE  p.shown = sel
  BY DEF QueryOK

LEMMA InvStaleOnlyByRace == ASSUME Inv PROVE StaleOnlyByRace
<1> DEFINE k == wallet.key
<1> SUFFICES ASSUME DisplaysData, page.pending = <<>>, ~page.stale PROVE page.shown = Selection
  BY DEF StaleOnlyByRace
<1>1. PageOK(page, k) /\ page.route \in Route
  BY RoutesFacts DEF Inv, Placed
<1>2. CASE page.route = "home"
  <2>1. HomeFields(page)
    BY <1>1, <1>2, RouteFacts
  <2>2. page.shown = Nothing
    BY <2>1 DEF HomeFields
  <2> QED
    BY <1>2, <2>2 DEF Selection
<1>3. CASE page.route = "dashboard"
  <2>1. k # None /\ Selection = k
    BY <1>3 DEF DisplaysData, Selection
  <2>2. QueryOK(page, k) /\ page.settled \in BOOLEAN
    BY <1>1, <1>3, <2>1, RouteFacts DEF DashboardOK, DashboardFields
  <2> QED
    BY <2>1, <2>2, Rested
<1>4. CASE page.route = "detail"
  <2>1. QueryOK(page, TheCampaign) /\ page.settled \in BOOLEAN
    BY <1>1, <1>4, RouteFacts DEF DetailOK, DetailFields
  <2> QED
    BY <1>4, <2>1, Rested DEF Selection
<1>5. CASE page.route = "history"
  <2> DEFINE sel == <<k, page.no>>
  <2>1. k # None /\ Selection = sel
    BY <1>5 DEF DisplaysData, HistoryView, Selection
  <2>2. QueryOK(page, sel) /\ page.settled \in BOOLEAN
    BY <1>1, <1>5, <2>1, RouteFacts DEF HistoryOK, HistoryFields
  <2> HIDE DEF sel
  <2> QED
    BY <2>1, <2>2, Rested
<1>6. CASE page.route = "transactions"
  <2>1. k # None /\ Selection = k
    BY <1>6 DEF DisplaysData, TransactionsView, Selection
  <2>2. QueryOK(page, k) /\ page.settled \in BOOLEAN
    BY <1>1, <1>6, <2>1, RouteFacts DEF TransactionsOK, TransactionsFields
  <2> QED
    BY <2>1, <2>2, Rested
<1>7. CASE page.route = "analytics"
  <2>1. QueryOK(page, page.days) /\ page.settled \in BOOLEAN
    BY <1>1, <1>7, RouteFacts DEF AnalyticsOK, AnalyticsFields
  <2> QED
    BY <1>7, <2>1, Rested DEF Selection
<1>8. CASE page.route = "profile"
  <2>1. k # None /\ Selection = k
    BY <1>8 DEF DisplaysData, ProfileShowsStats, Selection
  <2>2. QueryOK(page, k) /\ page.settled \in BOOLEAN
    BY <1>1, <1>8, <2>1, RouteFacts DEF ProfileOK, ProfileFields
  <2> QED
    BY <2>1, <2>2, Rested
<1>9. CASE page.route = "merchant"
  <2>1. QueryOK(page, k) /\ page.settled \in BOOLEAN
    BY <1>1, <1>9, RouteFacts DEF MerchantOK, MerchantFields
  <2> QED
    BY <1>9, <2>1, Rested DEF Selection
<1> QED
  BY <1>1, <1>2, <1>3, <1>4, <1>5, <1>6, <1>7, <1>8, <1>9 DEF Route

LEMMA InvPageTypeOK == ASSUME Inv PROVE PageTypeOK
<1> DEFINE k == wallet.key
<1>1. PageOK(page, k) /\ page.route \in Route
  BY RoutesFacts DEF Inv, Placed
<1>2. page.visit \in 1..Len(scenario.routes) /\ page.route = scenario.routes[page.visit]
  BY DEF Inv, Placed
<1>3. page.settled \in BOOLEAN /\ page.stale \in BOOLEAN
  BY <1>1 DEF PageOK, HomeFields, DashboardOK, DetailOK, HistoryOK, TransactionsOK, AnalyticsOK,
              ProfileOK, MerchantOK, DashboardFields, DetailFields, HistoryFields,
              TransactionsFields, AnalyticsFields, ProfileFields, MerchantFields
<1>4. HasPage("dashboard") =>
        /\ page.offset \in 0..Len(Campaigns)
        /\ page.claiming \in CampaignId \cup {None}
        /\ page.shown \in Account \cup {Nothing}
        /\ page.observed => k # None /\ HasMore(page)
        /\ page.health \in {"connected", "degraded", "unreachable"}
  BY <1>1, RouteFacts DEF HasPage, DashboardOK, DashboardFields
<1>5. HasPage("history") => page.no \in Nat /\ page.loading \in BOOLEAN
  BY <1>1, RouteFacts DEF HasPage, HistoryOK, HistoryFields
<1>6. HasPage("transactions") => page.exporting \/ page.export = None
  BY <1>1, RouteFacts DEF HasPage, TransactionsOK, TransactionsFields
<1>7. HasPage("merchant") => FormOK(page.form) /\ TableOK(page.table)
  BY <1>1, RouteFacts DEF HasPage, MerchantOK, MerchantFields
<1>8. ASSUME NEW t, TableOK(t) PROVE t.no \in Nat \ {0} /\ t.confirm \in CampaignId \cup {None}
  BY <1>8 DEF TableOK
<1>9. ASSUME NEW f, FormOK(f)
      PROVE  (f.loading => f.step = "confirm" /\ f.call # 0) /\ (f.step = "confirm" => Validate(f) = {})
  BY <1>9 DEF FormOK
<1> QED
  BY <1>2, <1>3, <1>4, <1>5, <1>6, <1>7, <1>8, <1>9 DEF PageTypeOK

LEMMA InvTypeOK == ASSUME Inv PROVE TypeOK
<1>1. scenario \in Scenarios /\ Bounded /\ WalletInv
  BY DEF Inv, Placed, SessionInv
<1>2. call \in [Call -> CallState]
  BY DEF Inv, SessionInv, ClientInv, CallOK
<1>3. ledger.claimed \subseteq Account \X CampaignId
  BY DEF Inv, SessionInv, LedgerInv
<1>4. ledger.sequence \in [Account -> 0..MaxCalls]
  <2>1. ledger.sequence \in [Account -> Nat]
    BY DEF Inv, SessionInv, ClientInv
  <2>2. ASSUME NEW a \in Account PROVE ledger.sequence[a] \in 0..MaxCalls
    BY InclusionsFinite DEF Inv, SessionInv, LedgerInv
  <2> QED
    BY <2>1, <2>2
<1> QED
  BY <1>1, <1>2, <1>3, <1>4, InvPageTypeOK DEF TypeOK, Bounded, WalletInv

\* What the user is told of an invocation is what the ledger did, whatever
\* pages are visited, however long the popups stay open, and however many
\* invocations compete for the sequence numbers of an account
THEOREM ReportsCorrect == Spec => []ReportsAreTrue
<1> QED
  BY InitInv, NextInv, InvReportsAreTrue, PTL DEF Spec

\* A page at rest shows what is selected now, unless the answer of its newest
\* question is known to be lost or overwritten, in whatever order the effects,
\* the answers and the claims of other accounts come (the effects of the pages
\* on publicKey, page and days)
THEOREM FreshUnlessRaced == Spec => []StaleOnlyByRace
<1> QED
  BY InitInv, NextInv, InvStaleOnlyByRace, PTL DEF Spec

\* The client keeps its types: a form waits only for an invocation of input
\* that is valid, the list is observed only while it has more, and a ledger
\* includes no more transactions of an account than were begun
THEOREM TypeCorrect == Spec => []TypeOK
<1> QED
  BY InitInv, NextInv, InvTypeOK, PTL DEF Spec
=============================================================================
