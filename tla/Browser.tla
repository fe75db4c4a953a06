-------------------------------- MODULE Browser --------------------------------
(***************************************************************************)
(* What the parts of the web client share: the accounts, what the user may *)
(* do in a scenario, and lib/api.ts, through which every part asks the     *)
(* backend.  A request has no timeout and no cancellation: it resolves or  *)
(* rejects, in any order with the others.                                  *)
(***************************************************************************)
EXTENDS Naturals, Sequences, FiniteSets, SequencesExt

CONSTANTS Account,      \* the accounts of the user's wallet
          None,         \* null
          Nothing,      \* no data yet
          CampaignId,   \* campaigns
          Scenarios,    \* what the user and the wallet may do
          MaxCalls      \* bound: contract invocations of one session

Route == {"home", "dashboard", "detail", "history", "transactions", "analytics",
          "profile", "merchant"}

\* routes: the pages that are visited, first one first; active, installed,
\* allowed: the first account in Freighter, whether the extension is there, and
\* whether it has approved the site before; changes: how often the user
\* connects, disconnects, switches account, hides the tab, turns a page, selects
\* a period, exports, prints or changes the language; calls: how many
\* invocations are started; faults: how many requests to the backend reject;
\* ends: the campaigns that expire while they are shown; deeds: what else happens
Deed == {"switch", "scroll", "hide", "language", "health", "hesitate", "table", "form",
         "dates", "copy"}

Scenario == [routes : Seq(Route), active : Account, installed : BOOLEAN, allowed : BOOLEAN,
             changes : Nat, calls : 0..MaxCalls, faults : Nat, ends : SUBSET CampaignId,
             deeds : SUBSET Deed]

ASSUME BrowserAssumption ==
    /\ None \notin Account \cup CampaignId /\ Nothing \notin Account \cup {None}
    /\ Scenarios \subseteq Scenario
    /\ \A s \in Scenarios : s.routes # <<>>
    /\ MaxCalls \in Nat

VARIABLES scenario,   \* the scenario of this session
          changes,    \* changes made so far
          faults      \* requests that rejected so far

Call == 1..MaxCalls

\* apiFetch: the response is ok, or it is not, or there is none
Resolves == UNCHANGED faults
Rejects  == faults < scenario.faults /\ faults' = faults + 1

Changes == changes < scenario.changes /\ changes' = changes + 1
=============================================================================
