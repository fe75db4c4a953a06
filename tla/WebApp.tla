---------------------------------- MODULE WebApp ----------------------------------
(***************************************************************************)
(* The web client: the wallet, one mounted page, and the contract          *)
(* invocations that pages start and that go on when they are left.         *)
(***************************************************************************)
EXTENDS ReadingPages, ClaimPages, MerchantPages

vars == <<scenario, changes, faults, wallet, freighter, call, ledger, page, expired>>

\* The effects of a page when it is mounted
Opened(route, visit, k) ==
    CASE route = "home"         -> Mounted(route, visit)
      [] route = "dashboard"    -> DashboardOpened(visit, k)
      [] route = "detail"       -> DetailOpened(visit)
      [] route = "history"      -> HistoryOpened(visit, k)
      [] route = "transactions" -> TransactionsOpened(visit, k)
      [] route = "analytics"    -> AnalyticsOpened(visit)
      [] route = "profile"      -> ProfileOpened(visit, k)
      [] route = "merchant"     -> MerchantOpened(visit, k)

\* The effects that depend on publicKey, when it changes
KeyEffect(p, k) ==
    CASE p.route = "dashboard"    -> DashboardKeyEffect(p, k)
      [] p.route = "history"      -> HistoryKeyEffect(p, k)
      [] p.route = "transactions" -> TransactionsEffect(p, k)
      [] p.route = "profile"      -> ProfileEffect(p, k)
      [] p.route = "merchant"     -> MerchantKeyEffect(p, k)
      [] OTHER                    -> p

Init ==
    /\ scenario \in Scenarios
    /\ changes = 0 /\ faults = 0
    /\ WalletInit
    /\ ClientInit
    /\ expired = {}
    /\ page = Opened(scenario.routes[1], 1, None)

\* A step of the wallet, and the page's effects when the account changed
WalletStep(Step) ==
    /\ Step
    /\ page' = IF wallet'.key = wallet.key THEN page ELSE KeyEffect(page, wallet'.key)
    /\ UNCHANGED <<clientVars, expired>>

\* What the handler that awaits c does in the same turn in which it ends
HandlerResumes(c) ==
    page' = CASE call'[c].told = call[c].told -> page
              [] call'[c].told # call[c].told ->
                    IF call[c].what # None
                    THEN IF call'[c].told = "failure" THEN ClaimReleased(page, c) ELSE page
                    ELSE IF call'[c].told = "failure" THEN CreateFailed(page, c)
                         ELSE CreateSucceeded(page, c)

Invocation(c) ==
    /\ ClientStep(c)
    /\ HandlerResumes(c)
    /\ UNCHANGED <<walletVars, changes, faults, expired>>

\* What happens to an invocation outside the client
OutsideStep(c) ==
    /\ UserHesitates(c) \/ LedgerCloses(c)
    /\ UNCHANGED <<walletVars, page, changes, faults, expired>>

\* A link: the page is unmounted and its pending answers reach no one
Navigate ==
    /\ page.visit < Len(scenario.routes)
    /\ page' = Opened(scenario.routes[page.visit + 1], page.visit + 1, wallet.key)
    /\ UNCHANGED <<walletVars, clientVars, changes, faults, expired>>

Next ==
    /\ \/ WalletStep(WalletNext)
       \/ ReadingNext /\ UNCHANGED expired
       \/ ClaimPagesNext
       \/ MerchantNext /\ UNCHANGED expired
       \/ \E c \in Call : Invocation(c) \/ OutsideStep(c)
       \/ Navigate
    /\ UNCHANGED scenario

Spec == Init /\ [][Next]_vars

\* What was begun goes on: the extension and the backend answer, the user
\* answers or closes a popup, a timer fires, an invocation takes its next step
Proceeds ==
    /\ \/ WalletStep(LookupRead \/ LookupArrives \/ ConnectApproved \/ ConnectRefused)
       \/ /\ \/ \E i \in 1..Len(page.pending) :
                    \/ HistoryAnswer(i) \/ TransactionsAnswer(i) \/ AnalyticsAnswer(i)
                    \/ ProfileAnswer(i) \/ MerchantAnswer(i)
             \/ ExportEnds \/ PrintEnds
          /\ UNCHANGED expired
       \/ \E i \in 1..Len(page.pending) : RewardsAnswer(i) \/ DetailAnswer(i)
       \/ CampaignsAnswer
       \/ \E c \in Call : Invocation(c) \/ AfterClaim(c)
    /\ UNCHANGED scenario

\* Nothing makes the user click, or a ledger include a transaction.  The
\* refreshes, which never run out, have a fairness of their own.
Fairness ==
    /\ WF_vars(Proceeds)
    /\ WF_vars(WalletStep(IntervalFires) /\ UNCHANGED scenario)
    /\ WF_vars(WalletStep(\E a \in Account : RefreshEnds(a)) /\ UNCHANGED scenario)

FairSpec == Spec /\ Fairness

-----------------------------------------------------------------------------
(* Properties *)

\* The fields that every page has, with the state of the page itself
PageTypeOK ==
    /\ page.visit \in 1..Len(scenario.routes)
    /\ page.route = scenario.routes[page.visit]
    /\ page.settled \in BOOLEAN /\ page.stale \in BOOLEAN
    /\ HasPage("dashboard") =>
           /\ page.offset \in 0..Len(Campaigns)
           /\ page.claiming \in CampaignId \cup {None}
           /\ page.shown \in Account \cup {Nothing}
           /\ page.observed => wallet.key # None /\ HasMore(page)
           /\ page.health \in {"connected", "degraded", "unreachable"}
    /\ HasPage("history") => page.no \in Nat /\ page.loading \in BOOLEAN
    /\ HasPage("transactions") => page.exporting \/ page.export = None
    /\ HasPage("merchant") =>
           /\ page.form.loading => page.form.step = "confirm" /\ page.form.call # 0
           /\ page.form.step = "confirm" => Validate(page.form) = {}
           /\ page.table.no \in Nat \ {0}
           /\ page.table.confirm \in CampaignId \cup {None}

\* Type invariant
TypeOK ==
    /\ scenario \in Scenarios
    /\ changes \in 0..scenario.changes /\ faults \in 0..scenario.faults
    /\ wallet \in WalletState
    /\ freighter \in [active : Account, allowed : BOOLEAN]
    /\ call \in [Call -> CallState]
    /\ ledger.claimed \subseteq Account \X CampaignId
    /\ ledger.sequence \in [Account -> 0..MaxCalls]
    /\ expired \subseteq CampaignId
    /\ PageTypeOK

\* What the mounted page is asked to show
Selection ==
    CASE page.route = "dashboard"    -> wallet.key
      [] page.route = "history"      -> <<wallet.key, page.no>>
      [] page.route = "transactions" -> wallet.key
      [] page.route = "profile"      -> wallet.key
      [] page.route = "merchant"     -> wallet.key
      [] page.route = "analytics"    -> page.days
      [] page.route = "detail"       -> TheCampaign
      [] page.route = "home"         -> Nothing

\* Whether it shows its data now, and not a hint, a spinner or an error
DisplaysData ==
    CASE page.route = "dashboard"    -> wallet.key # None
      [] page.route = "history"      -> HistoryView(page) \in {"empty", "table"}
      [] page.route = "transactions" -> TransactionsView(page) \in {"empty", "table"}
      [] page.route = "analytics"    -> AnalyticsShowsCharts(page)
      [] page.route = "profile"      -> ProfileShowsStats(page)
      [] page.route = "merchant"     -> TRUE
      [] page.route = "detail"       -> DetailShowsCard(page)
      [] page.route = "home"         -> TRUE

\* Whatever is clicked, switched and answered in whatever order, a page at
\* rest shows the data of the account, page and period selected now, unless
\* the newest request failed, an older answer came after it, or a claim begun
\* with another account ended (the effects of the pages on publicKey, page, days)
StaleOnlyByRace ==
    DisplaysData /\ page.pending = <<>> /\ ~page.stale => page.shown = Selection

\* The balance in the header ends up being that of the connected account, in
\* whatever order the refreshes of earlier accounts are answered, as long as
\* the tab is visible (WalletContext refreshes it every 30 seconds)
BalanceRecovers ==
    <>[](wallet.key # None /\ wallet.visible => wallet.balance = wallet.key)

Busy ==
    \/ wallet.connecting
    \/ HasPage("dashboard") /\ (page.claiming # None \/ page.listing # None)
    \/ HasPage("detail") /\ (page.claiming # None \/ page.loading)
    \/ HasPage("merchant") /\ page.form.loading
    \/ HasPage("history") /\ wallet.key # None /\ page.loading
    \/ HasPage("transactions") /\ (page.loading \/ page.exporting \/ page.printing)
    \/ HasPage("analytics") /\ page.loading

\* Every button that is disabled and every spinner that is shown while
\* something is in flight comes back, whether it succeeds or fails (the
\* finally blocks of the handlers)
ButtonsComeBack == Busy ~> ~Busy
=============================================================================
