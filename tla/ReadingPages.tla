------------------------------ MODULE ReadingPages ------------------------------
(***************************************************************************)
(* The pages that only read: the dashboard's history, transactions with    *)
(* their export, analytics and profile.                                    *)
(***************************************************************************)
EXTENDS Page

CONSTANTS HistoryPages,   \* [Account -> Nat]: pages of transactions of an account
          Days,           \* the periods of analytics
          FirstDays,      \* the one selected at first
          Rewards,        \* [Account -> set of dates]: when an account claimed
          DateRanges      \* the sets of dates a user may enter as a range

ASSUME ReadingAssumption ==
    /\ HistoryPages \in [Account -> Nat]
    /\ FirstDays \in Days

-----------------------------------------------------------------------------
(* dashboard/history *)

HistoryEffect(p, k) ==
    IF k = None THEN p ELSE Asking([p EXCEPT !.loading = TRUE], <<k, p.no>>)

\* mutant: the effect does not depend on publicKey
HistoryKeyEffectOfPage(p, k) ==
    IF p.pending # <<>> \/ p.settled THEN p ELSE HistoryEffect(p, k)

HistoryKeyEffect(p, k) == HistoryEffect(p, k)

HistoryOpened(visit, k) ==
    HistoryEffect(MountedWith("history", visit, [no |-> 0, loading |-> TRUE]), k)

HistoryTotalPages(p) == IF p.shown = Nothing THEN 0 ELSE HistoryPages[p.shown[1]]

HistoryView(p) ==
    CASE wallet.key = None -> "connect"
      [] wallet.key # None /\ p.loading -> "loading"
      [] wallet.key # None /\ ~p.loading ->
            IF p.shown = Nothing \/ p.shown[2] >= HistoryTotalPages(p) THEN "empty" ELSE "table"

\* The answer of any question ends loading, though a newer one may be open
HistoryAnswer(i) ==
    /\ HasPage("history")
    /\ \/ Resolves /\ page' = [Stored(page, i) EXCEPT !.loading = FALSE]
       \/ Rejects /\ page' = [Dropped(page, i) EXCEPT !.loading = FALSE]
    /\ UNCHANGED <<walletVars, clientVars, changes>>

\* The pager is part of the table, and counts the pages of what is shown
TurnsPage(no) ==
    /\ HasPage("history")
    /\ HistoryView(page) = "table" /\ HistoryTotalPages(page) > 1
    /\ Changes
    /\ page' = HistoryEffect([page EXCEPT !.no = no], wallet.key)
    /\ UNCHANGED <<walletVars, clientVars, faults>>

PreviousPage == HasPage("history") /\ page.no > 0 /\ TurnsPage(page.no - 1)
NextPage ==
    HasPage("history") /\ page.no < HistoryTotalPages(page) - 1 /\ TurnsPage(page.no + 1)

-----------------------------------------------------------------------------
(* transactions *)

TransactionsEffect(p, k) ==
    IF k = None THEN [p EXCEPT !.loading = FALSE]
    ELSE Asking([p EXCEPT !.loading = TRUE, !.error = FALSE], k)

TransactionsOpened(visit, k) ==
    TransactionsEffect(MountedWith("transactions", visit,
        [loading |-> TRUE, error |-> FALSE, typed |-> None, applied |-> None,
         exporting |-> FALSE, export |-> None, printing |-> FALSE]), k)

FilterByDateRange(dates, range) == IF range = None THEN dates ELSE dates \cap range

AllTransactions(p) == IF p.shown = Nothing THEN {} ELSE Rewards[p.shown]
FilteredTransactions(p) == FilterByDateRange(AllTransactions(p), p.applied)

TransactionsView(p) ==
    CASE wallet.key = None -> "connect"
      [] wallet.key # None /\ p.loading -> "loading"
      [] wallet.key # None /\ ~p.loading ->
            IF FilteredTransactions(p) = {} THEN "empty" ELSE "table"

TransactionsAnswer(i) ==
    /\ HasPage("transactions")
    /\ \/ Resolves /\ page' = [Stored(page, i) EXCEPT !.loading = FALSE]
       \/ Rejects /\ page' = [Dropped(page, i) EXCEPT !.loading = FALSE, !.error = TRUE]
    /\ UNCHANGED <<walletVars, clientVars, changes>>

EditsDates ==
    /\ HasPage("transactions")
    /\ "dates" \in scenario.deeds
    /\ TransactionsView(page) \in {"empty", "table"}
    /\ UNCHANGED <<walletVars, clientVars, faults>>

\* None stands for a range with an end missing
EnterDates(range) ==
    /\ EditsDates
    /\ range # page.typed
    /\ page' = [page EXCEPT !.typed = range]
    /\ UNCHANGED changes

ApplyDateFilter ==
    EditsDates /\ page' = [page EXCEPT !.applied = page.typed] /\ UNCHANGED changes

ClearDateFilter ==
    EditsDates /\ page' = [page EXCEPT !.typed = None, !.applied = None] /\ UNCHANGED changes

\* handleExport filters by the dates entered, applied or not, and captures
\* the transactions of now; the file is written after a timer when they are many
StartExport ==
    /\ EditsDates
    /\ TransactionsView(page) = "table"
    /\ ~page.exporting
    /\ Changes
    /\ page' = [page EXCEPT !.exporting = TRUE,
                    !.export = FilterByDateRange(AllTransactions(page), page.typed)]

ExportEnds ==
    /\ HasPage("transactions")
    /\ page.exporting
    /\ page' = [page EXCEPT !.exporting = FALSE, !.export = None]
    /\ PageOnly

StartPrint ==
    /\ EditsDates
    /\ TransactionsView(page) = "table"
    /\ Changes
    /\ page' = [page EXCEPT !.printing = TRUE]

PrintEnds ==
    /\ HasPage("transactions")
    /\ page.printing
    /\ page' = [page EXCEPT !.printing = FALSE]
    /\ PageOnly

-----------------------------------------------------------------------------
(* analytics *)

AnalyticsEffect(p) == Asking([p EXCEPT !.loading = TRUE, !.error = FALSE], p.days)

AnalyticsOpened(visit) ==
    AnalyticsEffect(MountedWith("analytics", visit,
        [days |-> FirstDays, loading |-> TRUE, error |-> FALSE]))

\* An error does not hide the charts of the period before
AnalyticsShowsCharts(p) == ~p.loading /\ p.shown # Nothing

AnalyticsAnswer(i) ==
    /\ HasPage("analytics")
    /\ \/ Resolves /\ page' = [Stored(page, i) EXCEPT !.loading = FALSE]
       \/ Rejects /\ page' = [Dropped(page, i) EXCEPT !.loading = FALSE, !.error = TRUE]
    /\ UNCHANGED <<walletVars, clientVars, changes>>

\* The buttons are enabled while an answer is pending
SelectDays(d) ==
    /\ HasPage("analytics")
    /\ d # page.days
    /\ Changes
    /\ page' = AnalyticsEffect([page EXCEPT !.days = d])
    /\ UNCHANGED <<walletVars, clientVars, faults>>

-----------------------------------------------------------------------------
(* profile *)

ProfileEffect(p, k) == IF k = None THEN p ELSE Asking(p, k)

ProfileOpened(visit, k) == ProfileEffect(MountedWith("profile", visit, [copied |-> FALSE]), k)

ProfileShowsStats(p) == wallet.key # None

ProfileAnswer(i) ==
    /\ HasPage("profile")
    /\ \/ Resolves /\ page' = Stored(page, i)
       \/ Rejects /\ page' = Dropped(page, i)
    /\ UNCHANGED <<walletVars, clientVars, changes>>

CopyAddress ==
    /\ HasPage("profile")
    /\ "copy" \in scenario.deeds
    /\ wallet.key # None
    /\ page' = [page EXCEPT !.copied = TRUE]
    /\ PageOnly

\* Two seconds later
CopyForgotten ==
    /\ HasPage("profile")
    /\ page.copied
    /\ page' = [page EXCEPT !.copied = FALSE]
    /\ PageOnly

ReadingNext ==
    \/ \E i \in 1..Len(page.pending) :
           HistoryAnswer(i) \/ TransactionsAnswer(i) \/ AnalyticsAnswer(i) \/ ProfileAnswer(i)
    \/ PreviousPage \/ NextPage
    \/ \E range \in DateRanges \cup {None} : EnterDates(range)
    \/ ApplyDateFilter \/ ClearDateFilter \/ StartExport \/ ExportEnds \/ StartPrint \/ PrintEnds
    \/ \E d \in Days : SelectDays(d)
    \/ CopyAddress \/ CopyForgotten
=============================================================================
