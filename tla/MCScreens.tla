----------------------------- MODULE MCScreens -----------------------------
(***************************************************************************)
(* The app's screens, an area at a time: what the screens of an area share *)
(* with those of another is the session and the query cache's rules.  A    *)
(* behaviour stays in one of Areas, and leaves the others as they began.   *)
(***************************************************************************)
EXTENDS MCAreas, TLC

CONSTANTS
    Areas,
    Receipts, NoReceipt, History, Bin, Stored0, MaxReceiptActs, MaxReceiptFaults,
    Now, Bought, MaxPlanActs, MaxPlanFaults,
    Months, LONG, SHORT, START_DAY, WINDOW_DAYS, Offered, BuyDays, FirstDay, LastDay, MaxPurchases, Cap

VARIABLES area
VARIABLES stored, cache, stack, scan, saving, moving, creating, manual, prompts, prompted, untold, acts,
          faults
VARIABLES plan, planCache, planStack, planCalls, planUntold, planActs, planFaults
VARIABLES purchases, day, item, groups, trend, summary

receiptVars == <<stored, cache, stack, scan, saving, moving, creating, manual, prompts, prompted, untold,
                 acts, faults>>
planVars == <<plan, planCache, planStack, planCalls, planUntold, planActs, planFaults>>
figureVars == <<purchases, day, item, groups, trend, summary>>

R == INSTANCE ReceiptScreens
P == INSTANCE PlanScreens
F == INSTANCE Figures

\* Three items, the first bought under two names; questions about it and the last.
BoughtAs == <<1, 1, 2, 3>>
Names == <<"milk", "whole milk", "oat milk", "soy milk">>
Raised == <<[item |-> 1, other |-> 2], [item |-> 1, other |-> 3], [item |-> 3, other |-> 2]>>

\* Milk by weight at two stores, and by the piece at the first.
Milk == {[price |-> 100, unit |-> "kg", store |-> 1], [price |-> 250, unit |-> "kg", store |-> 2],
         [price |-> 90, unit |-> "each", store |-> 1]}

\* One way for an area to begin, when it is not the one explored.
Init ==
    /\ area \in Areas
    /\ R!Init /\ (area # "receipts" => \A r \in Receipts : stored[r].status # "pending_review")
    /\ ItemInit
    /\ AlertInit /\ (area # "alerts" => alertCache["me"].fresh /\ \A k \in DOMAIN held.end : held.end[k] = "no")
    /\ BudgetInit /\ (area # "budgets" => ledger.premium)
    /\ AccountInit /\ (area # "accounts" => who = NoOne)
    /\ P!PlanInit /\ (area # "plan" => plan.premium)
    /\ F!Init

In(here) == area = here /\ UNCHANGED area

Next ==
    \/ In("receipts") /\ R!Next /\ UNCHANGED <<itemVars, alertVars, budgetVars, accountVars, planVars, figureVars>>
    \/ In("items") /\ ItemNext /\ UNCHANGED <<receiptVars, alertVars, budgetVars, accountVars, planVars, figureVars>>
    \/ In("alerts") /\ AlertNext /\ UNCHANGED <<receiptVars, itemVars, budgetVars, accountVars, planVars, figureVars>>
    \/ In("budgets") /\ BudgetNext /\ UNCHANGED <<receiptVars, itemVars, alertVars, accountVars, planVars, figureVars>>
    \/ In("accounts") /\ AccountNext /\ UNCHANGED <<receiptVars, itemVars, alertVars, budgetVars, planVars, figureVars>>
    \/ In("plan") /\ P!PlanNext /\ UNCHANGED <<receiptVars, itemVars, alertVars, budgetVars, accountVars, figureVars>>
    \/ In("figures") /\ F!Next /\ UNCHANGED <<receiptVars, itemVars, alertVars, budgetVars, accountVars, planVars>>

vars == <<area, receiptVars, itemVars, alertVars, budgetVars, accountVars, planVars, figureVars>>
Spec == Init /\ [][Next]_vars

-----------------------------------------------------------------------------

\* Every variable of the screens has its type.
ScreensTypeOK ==
    /\ area \in Areas
    /\ area = "receipts" => R!TypeOK
    /\ area = "items" => ItemsTypeOK
    /\ area = "alerts" => AlertsTypeOK
    /\ area = "budgets" => BudgetsTypeOK
    /\ area = "accounts" => AccountsTypeOK
    /\ area = "plan" => P!PlanTypeOK
    /\ area = "figures" => F!TypeOK

\* Once no call is under way, a screen shows what the server has, whatever was
\* saved, moved, merged, bought or answered late before (the invalidations of the
\* app's hooks).  Excepted are changes the app was not told of; reads that failed;
\* a first read, or one no screen waits for, that was under way when the app's own
\* change ended, which no invalidation stops or repeats; the detail of a receipt
\* deleted from History meanwhile; and the offer another session on the phone left
\* in the cache.
WhatIsShownIsTrue ==
    /\ area = "receipts" => R!ShownIsTrue
    /\ area = "items" => ItemsShownAreTrue
    /\ area = "budgets" => BudgetsShownAreTrue
    /\ area = "accounts" => AccountsShownAreTrue
    /\ area = "plan" => P!PlanShownIsTrue

\* A save of Review changes on its receipt only what was typed into its form
\* (review.tsx onSave, buildReceiptUpdate).
SavesOnlyWhatWasTyped == R!SavesOnlyWhatWasTyped

\* A review opened for a stored receipt saves that receipt (review.tsx:65
\* "Opened from History: a stored receipt").
SavesTheReceiptOpened == R!SavesTheReceiptOpened

\* What the screens compute of prices and spending agrees with the server's
\* figures and with each other, on every day (priceTrend.ts, storeComparison.ts,
\* trendHighlights.ts, pace.ts against price_service.py, budget_service.py), but for
\* the average of a group in which two units are in as many lines as each other:
\* there the split screen averages the unit bought last and the server the one
\* bought first.
FiguresAgree == area = "figures" => F!FiguresAgree

=============================================================================
