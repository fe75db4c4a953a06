-------------------------------- MODULE MCWebApp --------------------------------
(* A small instance of WebApp: two accounts, two campaigns, two invocations,    *)
(* and scenarios that each let the user do a few things on a page or two.       *)
EXTENDS WebApp

CONSTANTS a1, a2, c1, c2, id, claims

MCAccounts == {a1, a2}
MCCampaignIds == {c1, c2}
MCCampaigns == <<c1, c2>>
MCHistoryPages == (a1 :> 2) @@ (a2 :> 1)
MCRewards == (a1 :> {1, 2}) @@ (a2 :> {2})
MCDateRanges == {{1}}
MCMerchantOf == (c1 :> a1) @@ (c2 :> a2)
MCSortKeys == {id, claims}
MCColumn == (id :> ((c1 :> 1) @@ (c2 :> 2))) @@ (claims :> ((c1 :> 0) @@ (c2 :> 0)))
MCInputs == {Field}
MCSearches == {MCCampaignIds, {c2}}

\* The user of a scenario visits these pages, with a wallet that approved the site
Visits(routes, n, invocations) ==
    [routes |-> routes, active |-> a1, installed |-> TRUE, allowed |-> TRUE, changes |-> n,
     calls |-> invocations, faults |-> IF invocations = 2 THEN 0 ELSE 1,
     ends |-> {}, deeds |-> {}]

WalletOnly     == [Visits(<<"home">>, 4, 0) EXCEPT !.allowed = FALSE, !.deeds = {"switch", "hide"}]
NoExtension    == [Visits(<<"home">>, 2, 0) EXCEPT !.allowed = FALSE, !.installed = FALSE]
Scrolling      == [Visits(<<"dashboard">>, 2, 0) EXCEPT !.allowed = FALSE, !.ends = {c1}, !.deeds = {"health", "scroll"}]
ClaimAndSwitch == [Visits(<<"dashboard">>, 3, 1) EXCEPT !.deeds = {"switch"}, !.faults = 0]
ClaimFails     == Visits(<<"dashboard">>, 0, 1)
ClaimTwice     == [Visits(<<"dashboard">>, 0, 2) EXCEPT !.deeds = {"scroll"}]
ClaimAndLeave  == [Visits(<<"dashboard", "detail">>, 0, 2) EXCEPT !.deeds = {"hesitate"}]
OneCampaign    == [Visits(<<"detail">>, 1, 1) EXCEPT !.deeds = {"language", "hesitate"}, !.ends = {c1}]
History        == [Visits(<<"history">>, 4, 0) EXCEPT !.deeds = {"switch"}]
Exporting      == [Visits(<<"transactions">>, 3, 0) EXCEPT !.deeds = {"switch", "dates"}]
Reading        == [Visits(<<"analytics", "profile">>, 3, 0) EXCEPT !.deeds = {"switch", "copy"}]
Creating       == [Visits(<<"merchant">>, 2, 1) EXCEPT !.deeds = {"form"}, !.faults = 0]
CreatingTwice  == [Visits(<<"merchant">>, 0, 2) EXCEPT !.deeds = {"form"}]
ListFails      == Visits(<<"merchant">>, 1, 0)
Tabulating     == [Visits(<<"merchant">>, 2, 0) EXCEPT !.deeds = {"table"}, !.faults = 0]

MCScenarios ==
    {WalletOnly, NoExtension, Scrolling, ClaimAndSwitch, ClaimFails, ClaimTwice, ClaimAndLeave,
     OneCampaign, History, Exporting, Reading, Creating, CreatingTwice, ListFails, Tabulating}
=============================================================================
