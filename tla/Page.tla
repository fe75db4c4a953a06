---------------------------------- MODULE Page ----------------------------------
(***************************************************************************)
(* What the pages have in common: the page mounted now keeps what it has   *)
(* asked the backend for and what it shows.  Every page asks in an effect  *)
(* when its selection changes and stores each answer as it arrives; none   *)
(* of them cancels or compares.  Data is abstracted to the selection it    *)
(* was asked for; `stale' is the one way a page may show another one.      *)
(***************************************************************************)
EXTENDS SorobanClient

VARIABLE page

\* pending: the selections asked for, in that order; settled: the newest
\* question has its answer; stale: it failed, or something else was stored
\* after it
Mounted(route, visit) ==
    [route |-> route, visit |-> visit, pending |-> <<>>, settled |-> FALSE, stale |-> FALSE,
     shown |-> Nothing]

\* ... with the state of the page itself
MountedWith(route, visit, own) ==
    LET common == Mounted(route, visit)
    IN [field \in DOMAIN common \cup DOMAIN own |->
            IF field \in DOMAIN own THEN own[field] ELSE common[field]]

Asking(p, selection) == [p EXCEPT !.pending = Append(@, selection), !.settled = FALSE]

\* A question of a handler that began under another account is not the page's
\* newest one, whenever it is asked
AskingLate(p, selection) == [p EXCEPT !.pending = <<selection>> \o @]

IsNewest(p, i) == ~p.settled /\ i = Len(p.pending)

Taken(p, i) == [p EXCEPT !.pending = RemoveAt(@, i), !.settled = @ \/ IsNewest(p, i)]

\* .then: the answer to the i-th question is stored
Stored(p, i) == [Taken(p, i) EXCEPT !.shown = p.pending[i], !.stale = ~IsNewest(p, i)]

\* .catch
Dropped(p, i) == [Taken(p, i) EXCEPT !.stale = @ \/ IsNewest(p, i)]

HasPage(route) == page.route = route

\* An invocation that the mounted page started, and nothing it leaves behind
\* in the page when another one is mounted
StartedHere(p, c) == call[c].visit = p.visit

\* The page's own state only
PageOnly == UNCHANGED <<walletVars, clientVars, changes, faults>>
=============================================================================
