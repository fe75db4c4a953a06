---------------------------- MODULE EventIngestion ----------------------------
(***************************************************************************)
(* What an indexer of the chain's events promises, whatever its polls, its *)
(* retries and its crashes: the cursor never passes an event that was not  *)
(* settled (recorded, or set aside for inspection), and no settled event   *)
(* is forgotten.  Indexer.tla is shown to implement this.                  *)
(***************************************************************************)
EXTENDS Naturals

VARIABLES published,  \* number of events of the chain so far
          settled,    \* the events recorded or set aside
          cursor      \* events 1..cursor are not fetched again

ingestion == <<published, settled, cursor>>

\* Events that nothing has to be recorded for are settled from the start
Init ==
    /\ published = 0
    /\ settled \subseteq Nat
    /\ cursor = 0

Publish ==
    /\ published' = published + 1
    /\ UNCHANGED <<settled, cursor>>

\* An event of the chain is settled, in any order, any number of times
Settle(i) ==
    /\ i \in 1..published
    /\ settled' = settled \cup {i}
    /\ UNCHANGED <<published, cursor>>

\* The cursor moves, forwards or backwards, over settled events only
Checkpoint(k) ==
    /\ k \in 0..published
    /\ 1..k \subseteq settled
    /\ cursor' = k
    /\ UNCHANGED <<published, settled>>

Next ==
    \/ Publish
    \/ \E i \in 1..published : Settle(i)
    \/ \E k \in 0..published : Checkpoint(k)

Spec == Init /\ [][Next]_ingestion
=============================================================================
