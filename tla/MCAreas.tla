------------------------------ MODULE MCAreas ------------------------------
(***************************************************************************)
(* The areas of the app that change what the server keeps of a user's      *)
(* alerts and stores, budgets and categories, account, and items: side by  *)
(* side, with the query cache's rules and the session shared.              *)
(***************************************************************************)
EXTENDS AlertScreens, BudgetScreens, AccountScreens, ItemScreens

areasVars == <<alertVars, budgetVars, accountVars, itemVars>>

AreasInit == AlertInit /\ BudgetInit /\ AccountInit /\ ItemInit

AreasNext ==
    \/ AlertNext /\ UNCHANGED <<budgetVars, accountVars, itemVars>>
    \/ BudgetNext /\ UNCHANGED <<alertVars, accountVars, itemVars>>
    \/ AccountNext /\ UNCHANGED <<alertVars, budgetVars, itemVars>>
    \/ ItemNext /\ UNCHANGED <<alertVars, budgetVars, accountVars>>

AreasSpec == AreasInit /\ [][AreasNext]_areasVars

\* An edit changes what it names and keeps the rest, also where another screen
\* saves at the same time: alert settings, and the user's categories.  Excepted are
\* the muted categories, one list sent and replaced whole, where it was sent while
\* another was under way, or for one category while the screen did not show another
\* as it was set (users.py update_me, price_alert_service.py update_settings,
\* notification-settings.tsx, categories.tsx onEditorSave).
EditsKeepTheRest == [][FieldsAsSet']_alertVars /\ CategoriesKeepTheRest

=============================================================================
