------------------------------- MODULE ClaimPages -------------------------------
(***************************************************************************)
(* The pages that claim: the dashboard, with its scrolled list of          *)
(* campaigns and its rewards, and the page of one campaign.  A claim goes  *)
(* on when its page is left, and its handler keeps the account it started  *)
(* with.                                                                   *)
(***************************************************************************)
EXTENDS Page

CONSTANTS Campaigns,   \* the campaigns in the order the backend lists them
          PageSize     \* campaigns of one answer

\* The page of one campaign is visited for a campaign that is there
ASSUME ClaimPagesAssumption ==
    /\ Campaigns \in Seq(CampaignId)
    /\ (\E s \in Scenarios : "detail" \in Range(s.routes)) => Campaigns # <<>>
    /\ PageSize \in Nat \ {0}

VARIABLE expired       \* campaigns whose countdown has ended

\* useCountdown: every second, and never back
CountdownEnds(id) ==
    /\ id \in scenario.ends \ expired
    /\ expired' = expired \cup {id}
    /\ UNCHANGED <<page, walletVars, clientVars, changes, faults>>

\* CampaignCard: the button of a card
CanClaim(id) == id \notin expired
ClaimEnabled(id, claiming) == CanClaim(id) /\ ~claiming

-----------------------------------------------------------------------------
(* dashboard: the list *)

HasMore(p) == p.total # None /\ p.offset < p.total

\* mutant: the observer is kept when the sentinel is gone
ObservingAlways(p, k) == [p EXCEPT !.observed = HasMore(p)]

\* The effect that observes the sentinel runs when hasMore, loadingMore or
\* offset changes: at other times a sentinel that appears is not observed
Observing(p, k) == [p EXCEPT !.observed = k # None /\ HasMore(p)]

\* loadCampaigns up to its await
Loading(p, offset, k) == Observing([p EXCEPT !.listing = offset], k)

DashboardKeyEffect(p, k) ==
    IF k = None THEN [p EXCEPT !.observed = FALSE] ELSE Asking(p, k)

DashboardOpened(visit, k) ==
    Loading(DashboardKeyEffect(
        MountedWith("dashboard", visit,
            [listing |-> None, offset |-> 0, total |-> None, initial |-> TRUE,
             observed |-> FALSE, claiming |-> None, health |-> "connected"]), k), 0, k)

CampaignsShown(p) == {Campaigns[i] : i \in 1..p.offset}

CampaignsAnswer ==
    LET received == {i \in DOMAIN Campaigns : i > page.listing /\ i <= page.listing + PageSize}
        ended    == [page EXCEPT !.listing = None,
                         !.initial = IF page.listing = 0 THEN FALSE ELSE @]
    IN /\ HasPage("dashboard")
       /\ page.listing # None
       /\ \/ /\ Resolves
             /\ page' = Observing([ended EXCEPT !.offset = page.listing + Cardinality(received),
                                                !.total = Len(Campaigns)], wallet.key)
          \/ Rejects /\ page' = Observing(ended, wallet.key)
       /\ UNCHANGED <<walletVars, clientVars, changes, expired>>

\* The sentinel is scrolled into view
Intersecting ==
    /\ HasPage("dashboard")
    /\ "scroll" \in scenario.deeds
    /\ page.observed /\ page.listing = None /\ HasMore(page)
    /\ page' = Loading(page, page.offset, wallet.key)
    /\ PageOnly /\ UNCHANGED expired

-----------------------------------------------------------------------------
(* dashboard: rewards and claims *)

RewardsAnswer(i) ==
    /\ HasPage("dashboard")
    /\ \/ Resolves /\ page' = Stored(page, i)
       \/ Rejects /\ page' = Dropped(page, i)
    /\ UNCHANGED <<walletVars, clientVars, changes, expired>>

\* checkHealth: one answer of /health, or none in five seconds
HealthOf(answered, ok, stellar, database) ==
    CASE ~answered                 -> "unreachable"
      [] answered /\ ~ok           -> "degraded"
      [] answered /\ ok            -> IF ~stellar /\ ~database THEN "unreachable"
                                      ELSE IF stellar /\ database THEN "connected"
                                      ELSE "degraded"

CheckHealth(answered, ok, stellar, database) ==
    /\ HasPage("dashboard")
    /\ "health" \in scenario.deeds
    /\ page' = [page EXCEPT !.health = HealthOf(answered, ok, stellar, database)]
    /\ PageOnly /\ UNCHANGED expired

\* handleClaim up to its await; an unreachable network is only a toast
ClaimOnDashboard(c, id) ==
    /\ HasPage("dashboard")
    /\ wallet.key # None
    /\ ~page.initial /\ id \in CampaignsShown(page)
    /\ ClaimEnabled(id, page.claiming = id)
    /\ page.health # "unreachable"
    /\ IsNextCall(c)
    /\ Begin(c, wallet.key, id, page.visit)
    /\ page' = [page EXCEPT !.claiming = id]
    /\ UNCHANGED <<walletVars, ledger, changes, faults, expired>>

-----------------------------------------------------------------------------
(* campaigns/[id] *)

TheCampaign == Campaigns[1]

DetailEffect(p) == Asking([p EXCEPT !.loading = TRUE], TheCampaign)

DetailOpened(visit) ==
    DetailEffect(MountedWith("detail", visit,
        [loading |-> TRUE, error |-> FALSE, claiming |-> None]))

DetailShowsCard(p) == ~p.loading /\ ~p.error /\ p.shown # Nothing

DetailAnswer(i) ==
    /\ HasPage("detail")
    /\ \/ Resolves /\ page' = [Stored(page, i) EXCEPT !.loading = FALSE, !.error = FALSE]
       \/ Rejects /\ page' = [Dropped(page, i) EXCEPT !.loading = FALSE, !.error = TRUE]
    /\ UNCHANGED <<walletVars, clientVars, changes, expired>>

\* The effect depends on the translations as well
SwitchLanguage ==
    /\ HasPage("detail")
    /\ "language" \in scenario.deeds
    /\ Changes
    /\ page' = DetailEffect(page)
    /\ UNCHANGED <<walletVars, clientVars, faults, expired>>

\* Without a wallet the click is only a toast
ClaimOnDetail(c) ==
    /\ HasPage("detail")
    /\ wallet.key # None
    /\ DetailShowsCard(page)
    /\ ClaimEnabled(TheCampaign, page.claiming # None)
    /\ IsNextCall(c)
    /\ Begin(c, wallet.key, TheCampaign, page.visit)
    /\ page' = [page EXCEPT !.claiming = TheCampaign]
    /\ UNCHANGED <<walletVars, ledger, changes, faults, expired>>

-----------------------------------------------------------------------------
(* Both handlers after their await *)

\* mutant: the flag is not cleared in finally, but after a success
ClaimReleasedOnSuccess(p, c) ==
    IF StartedHere(p, c) /\ call[c].told = "success" THEN [p EXCEPT !.claiming = None] ELSE p

\* finally: the flag is cleared whichever claim set it last; setState of a
\* page that was left does nothing
ClaimReleased(p, c) ==
    IF StartedHere(p, c) THEN [p EXCEPT !.claiming = None] ELSE p

\* The page that started c may have been left: its route is in the scenario
Handler(c) == scenario.routes[call[c].visit]

\* The catch of the handler: a failed reload is toasted like a failed claim,
\* after the success was
FailsAfterClaim(c) ==
    /\ Rejects
    /\ page' = ClaimReleased(page, c)
    /\ call' = [call EXCEPT ![c].stage = "done", ![c].told = "both"]

\* After a success: await getUserRewards(publicKey) and setRewards
RewardsAfterClaim(c) ==
    /\ call[c].stage = "confirmed" /\ Handler(c) = "dashboard"
    /\ \/ /\ Resolves
          /\ page' = IF StartedHere(page, c)
                     THEN [page EXCEPT !.shown = call[c].key,
                                       !.stale = @ \/ call[c].key # wallet.key]
                     ELSE page
          /\ call' = [call EXCEPT ![c].stage = "balance"]
          /\ wallet' = [wallet EXCEPT !.loading = TRUE]
       \/ FailsAfterClaim(c) /\ UNCHANGED wallet
    /\ UNCHANGED <<freighter, ledger, changes, expired>>

\* await refreshBalance() of the account of the claim, which never rejects
BalanceAfterClaim(c) ==
    /\ call[c].stage = "balance"
    /\ \/ Resolves /\ wallet' = [wallet EXCEPT !.loading = FALSE, !.balance = call[c].key]
       \/ Rejects /\ wallet' = [wallet EXCEPT !.loading = FALSE]
    /\ page' = ClaimReleased(page, c)
    /\ call' = [call EXCEPT ![c].stage = "done"]
    /\ UNCHANGED <<freighter, ledger, changes, expired>>

\* await getCampaign(id) and setCampaign, which does not take back an error
CampaignAfterClaim(c) ==
    /\ call[c].stage = "confirmed" /\ Handler(c) = "detail"
    /\ \/ /\ Resolves
          /\ page' = IF StartedHere(page, c)
                     THEN [ClaimReleased(page, c) EXCEPT !.shown = TheCampaign]
                     ELSE page
          /\ call' = [call EXCEPT ![c].stage = "done"]
       \/ FailsAfterClaim(c)
    /\ UNCHANGED <<walletVars, ledger, changes, expired>>

AfterClaim(c) == RewardsAfterClaim(c) \/ BalanceAfterClaim(c) \/ CampaignAfterClaim(c)

ClaimPagesNext ==
    \/ \E id \in CampaignId : CountdownEnds(id)
    \/ CampaignsAnswer \/ Intersecting \/ SwitchLanguage
    \/ \E i \in 1..Len(page.pending) : RewardsAnswer(i) \/ DetailAnswer(i)
    \/ \E answered, ok, stellar, database \in BOOLEAN :
           CheckHealth(answered, ok, stellar, database)
    \/ \E c \in Call :
           \/ \E id \in CampaignId : ClaimOnDashboard(c, id)
           \/ ClaimOnDetail(c) \/ AfterClaim(c)
=============================================================================
