------------------------------ MODULE MerchantPages ------------------------------
(***************************************************************************)
(* The merchant portal: the form that creates a campaign, and the table of *)
(* the merchant's campaigns.                                               *)
(***************************************************************************)
EXTENDS Page

CONSTANTS ListedCampaigns,   \* campaigns in the order the backend lists them
          MerchantOf,        \* [CampaignId -> Account]
          SortKey,           \* columns that sort
          FirstSortKey,      \* the column that sorts at first
          Column,            \* [SortKey -> [CampaignId -> Nat]]
          Inputs,            \* what may be typed into the form: the sets of valid fields
          Searches,          \* what may be typed: the sets of campaigns that match
          TablePageSize      \* rows of one page of the table

ASSUME MerchantAssumption ==
    /\ ListedCampaigns \in Seq(CampaignId)
    /\ MerchantOf \in [CampaignId -> Account]
    /\ FirstSortKey \in SortKey
    /\ Column \in [SortKey -> [CampaignId -> Nat]]
    /\ CampaignId \in Searches
    /\ Inputs \subseteq SUBSET {"name", "rewardAmount", "expiresAt"}
    /\ TablePageSize \in Nat \ {0}

Field == {"name", "rewardAmount", "expiresAt"}

\* valid: the fields whose text passes validate; call: the invocation that
\* this mount of the form waits for, or 0
FormOpened == [step |-> "input", valid |-> {}, errors |-> {}, loading |-> FALSE,
               failed |-> FALSE, call |-> 0]

TableOpened == [search |-> CampaignId, key |-> FirstSortKey, dir |-> "desc", no |-> 1,
                confirm |-> None]

\* loadCampaigns of the closure that captured k
LoadCampaigns(p, k) == Asking(p, k)

\* The form is mounted while a wallet is connected
MerchantKeyEffect(p, k) ==
    LoadCampaigns([p EXCEPT !.form = IF k = None THEN FormOpened ELSE @], k)

MerchantOpened(visit, k) ==
    MerchantKeyEffect(MountedWith("merchant", visit,
        [inactive |-> {}, form |-> FormOpened, table |-> TableOpened]), k)

MerchantAnswer(i) ==
    /\ HasPage("merchant")
    /\ \/ Resolves /\ page' = [Stored(page, i) EXCEPT !.inactive = {}]
       \/ Rejects /\ page' = Dropped(page, i)
    /\ UNCHANGED <<walletVars, clientVars, changes>>

-----------------------------------------------------------------------------
(* CreateCampaignForm *)

UsesForm(step) ==
    /\ HasPage("merchant")
    /\ "form" \in scenario.deeds
    /\ wallet.key # None
    /\ page.form.step = step

Validate(form) == Field \ form.valid

Fill(fields) ==
    /\ UsesForm("input")
    /\ fields # page.form.valid
    /\ page' = [page EXCEPT !.form.valid = fields]
    /\ PageOnly

Review ==
    /\ UsesForm("input")
    /\ page' = [page EXCEPT !.form.errors = Validate(page.form),
                    !.form.step = IF Validate(page.form) = {} THEN "confirm" ELSE @]
    /\ PageOnly

BackToInput ==
    /\ UsesForm("confirm")
    /\ ~page.form.loading
    /\ page' = [page EXCEPT !.form.step = "input"]
    /\ PageOnly

\* handleConfirm up to its await
Confirm(c) ==
    /\ UsesForm("confirm")
    /\ ~page.form.loading
    /\ IsNextCall(c)
    /\ Begin(c, wallet.key, None, page.visit)
    /\ page' = [page EXCEPT !.form.loading = TRUE, !.form.failed = FALSE, !.form.call = c]
    /\ UNCHANGED <<walletVars, ledger, changes, faults>>

\* A form that was unmounted meanwhile, or filled in anew, is not touched
WaitsFor(p, c) == StartedHere(p, c) /\ p.form.call = c

CreateFailed(p, c) ==
    IF WaitsFor(p, c)
    THEN [p EXCEPT !.form.failed = TRUE, !.form.step = "input", !.form.loading = FALSE]
    ELSE p

\* onSuccess is the loadCampaigns of the render in which confirm was clicked,
\* which the page runs even when its form is gone
CreateSucceeded(p, c) ==
    LET answered == IF WaitsFor(p, c)
                    THEN [p EXCEPT !.form.step = "success", !.form.loading = FALSE]
                    ELSE p
    IN IF ~StartedHere(p, c) THEN p
       ELSE IF call[c].key = wallet.key THEN LoadCampaigns(answered, call[c].key)
       ELSE AskingLate(answered, call[c].key)

CreateAnother ==
    /\ UsesForm("success")
    /\ page' = [page EXCEPT !.form = FormOpened]
    /\ PageOnly

-----------------------------------------------------------------------------
(* CampaignTable *)

\* setCampaigns(r.campaigns.filter(...)), or all of them without a wallet
CampaignsOf(p) ==
    SelectSeq(ListedCampaigns, LAMBDA id :
        p.shown # Nothing /\ (p.shown = None \/ MerchantOf[id] = p.shown))

\* The sort is stable: equal values keep the order of the list
Sorted(p) ==
    LET filtered == SelectSeq(CampaignsOf(p), LAMBDA id : id \in p.table.search)
        value(i) == Column[p.table.key][filtered[i]]
        before(i, j) == \/ IF p.table.dir = "asc" THEN value(i) < value(j) ELSE value(i) > value(j)
                        \/ value(i) = value(j) /\ i < j
        order == SetToSortSeq(DOMAIN filtered, before)
    IN [i \in DOMAIN filtered |-> filtered[order[i]]]

TotalPages(p) == LET rows == Len(Sorted(p))
                 IN IF rows = 0 THEN 1 ELSE (rows + TablePageSize - 1) \div TablePageSize

\* The number of the page is kept when the list under it shrinks
PageData(p) ==
    {Sorted(p)[i] : i \in {i \in DOMAIN Sorted(p) :
                             (i - 1) \div TablePageSize = p.table.no - 1}}

UsesTable ==
    /\ HasPage("merchant")
    /\ "table" \in scenario.deeds
    /\ PageOnly

Search(hits) ==
    /\ UsesTable
    /\ page' = [page EXCEPT !.table.search = hits, !.table.no = 1]

ToggleSort(key) ==
    /\ UsesTable
    /\ page' = [page EXCEPT !.table.key = key, !.table.no = 1,
                    !.table.dir = IF page.table.key = key /\ @ = "asc" THEN "desc" ELSE "asc"]

TurnTable(no) ==
    /\ UsesTable
    /\ TotalPages(page) > 1
    /\ \/ page.table.no # 1 /\ no = page.table.no - 1
       \/ page.table.no # TotalPages(page) /\ no = page.table.no + 1
    /\ page' = [page EXCEPT !.table.no = no]

AskToDeactivate(id) ==
    /\ UsesTable
    /\ id \in PageData(page) \ page.inactive
    /\ page.table.confirm # id
    /\ page' = [page EXCEPT !.table.confirm = id]

CancelDeactivate ==
    /\ UsesTable
    /\ page.table.confirm \in PageData(page)
    /\ page' = [page EXCEPT !.table.confirm = None]

\* onDeactivate changes the list in memory, and nothing else
Deactivate ==
    /\ UsesTable
    /\ page.table.confirm \in PageData(page)
    /\ page' = [page EXCEPT !.inactive = @ \cup {page.table.confirm}, !.table.confirm = None]

MerchantNext ==
    \/ \E i \in 1..Len(page.pending) : MerchantAnswer(i)
    \/ \E fields \in Inputs : Fill(fields)
    \/ Review \/ BackToInput \/ CreateAnother
    \/ \E c \in Call : Confirm(c)
    \/ \E hits \in Searches : Search(hits)
    \/ \E key \in SortKey : ToggleSort(key)
    \/ HasPage("merchant") /\ \E no \in {page.table.no - 1, page.table.no + 1} : TurnTable(no)
    \/ \E id \in CampaignId : AskToDeactivate(id)
    \/ CancelDeactivate \/ Deactivate
=============================================================================
