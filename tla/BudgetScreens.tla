---------------------------- MODULE BudgetScreens ----------------------------
(***************************************************************************)
(* The app's screens over budgets and categories: the Budget tab, Spending *)
(* trend, Top items, Budget (the form of limits), Settings, Settings ->    *)
(* Categories with its editor, and the budget of onboarding.  A Save of    *)
(* the form is one call after another, decided when Save is tapped.        *)
(*                                                                         *)
(* A limit is 0 where there is none.  What a user types is a new number; a *)
(* category's look is its colour and icon.                                 *)
(***************************************************************************)
EXTENDS Integers, Sequences, FiniteSets, SequencesExt, Queries

CONSTANTS
    BuiltIn, Own,           \* the default categories; the custom ones there may be
    CategoryNames,
    Own0,                   \* the custom categories at the start
    MaxCustom,              \* MAX_CUSTOM_CATEGORIES
    MaxBudgetActs,          \* bound: what the user does
    MaxBudgetFaults         \* bound: calls lost, changes elsewhere, Premium lapsing

\* Names and keys are none of the model's own words.
ASSUME BudgetsAssumption ==
    CategoryNames # {} /\ "none" \notin CategoryNames /\ "overall" \notin Own

Overall == "overall"
Limits == {Overall} \cup BuiltIn \cup Own
NoCategory == [name |-> "none", look |-> 0]
BudgetKeys == {"budgets", "categories", "dash", "ranged", "me"}
BudgetKinds == {"onboarding", "tab", "trend", "top", "limits", "settings", "categories", "paywall"}
Hooks == {"create", "update", "remove"}

VARIABLES
    ledger,         \* the server's budgets and custom categories of the user
    budgetCache,    \* ['budgets'], ['categories'], ['dashboard', ...] twice, ME_QUERY_KEY
    budgetStack,    \* the screens, with the state each keeps
    saves,          \* handleSave, under way
    editor,         \* Settings -> Categories: the editor sheet
    categoryCalls,  \* the mutations of Settings -> Categories
    budgetUntold,   \* keys the server changed without the app being told
    budgetActs, budgetFaults

budgetWorld == <<budgetActs, budgetFaults>>
budgetVars == <<ledger, budgetCache, budgetStack, saves, editor, categoryCalls, budgetUntold, budgetWorld>>

Amounts == 0 .. MaxBudgetActs + 1
BlankForm == [amount |-> [k \in Limits |-> 0], day |-> 0, rollover |-> [k \in Limits |-> FALSE],
              known |-> {}, prefilled |-> FALSE]
BudgetScreen(kind) == [kind |-> kind, form |-> BlankForm, ranged |-> FALSE]
Front0 == [mode |-> "none", id |-> Overall, from |-> NoCategory, refused |-> FALSE, lapsed |-> {}]
BTop == Last(budgetStack)

BudgetsTypeOK ==
    /\ ledger.amount \in [Limits -> Amounts] /\ ledger.rollover \in [Limits -> BOOLEAN]
    /\ ledger.day \in Amounts /\ ledger.premium \in BOOLEAN
    /\ ledger.custom \in [Own -> [name : CategoryNames \cup {"none"}, look : Amounts]]
    /\ Cardinality({c \in Own : ledger.custom[c] # NoCategory}) <= MaxCustom
    /\ \A k \in BudgetKeys : budgetCache[k].call \in {"none", "asked", "read", "failed"}
    /\ \A i \in 1 .. Len(budgetStack) :
        /\ budgetStack[i].kind \in BudgetKinds /\ budgetStack[i].ranged \in BOOLEAN
        /\ budgetStack[i].form.amount \in [Limits -> Amounts] /\ budgetStack[i].form.known \subseteq Limits
    /\ \A n \in 1 .. Len(saves) : /\ saves[n].pc \in {"sent", "done", "lapsed", "failed"}
                                  /\ saves[n].plan # <<>> /\ saves[n].at \in 0 .. Len(budgetStack)
    /\ editor.mode \in {"none", "create", "edit"} /\ editor.lapsed \subseteq Hooks
    /\ \A n \in 1 .. Len(categoryCalls) : categoryCalls[n].pc \in {"sent", "done", "lapsed", "failed"}
    /\ budgetUntold \subseteq BudgetKeys

-----------------------------------------------------------------------------
(* The server                                                               *)

Customs(h) == {c \in Own : h.custom[c] # NoCategory}
HasLimit(h, k) == h.amount[k] # 0

BudgetTruth(h, k) ==
    CASE k = "budgets" -> [amount |-> h.amount, rollover |-> h.rollover, day |-> h.day]
      [] k = "categories" -> h.custom
      [] k = "me" -> h.premium
      [] OTHER -> [amount |-> h.amount, rollover |-> h.rollover, day |-> h.day,
                   looks |-> [c \in {d \in Own : HasLimit(h, d)} |-> h.custom[c]]]

\* ensure_usable; or no check.
AnyCategory(h, k) == TRUE
Usable(h, k) == k \in Own => k \in Customs(h)

SetLimit(h, k, amount) ==
    [h EXCEPT !.amount[k] = amount, !.rollover[k] = @ /\ HasLimit(h, k) /\ amount # 0]

\* save_budget, update_budget, soft_delete_budget and set_rollover: is the call accepted, and what it does.
BudgetAccepts(h, c) ==
    CASE c.call = "create" -> Usable(h, c.key)
      [] c.call = "rollover" -> h.premium /\ HasLimit(h, c.key)
      [] OTHER -> HasLimit(h, c.key)
BudgetPerformed(h, c) ==
    CASE c.call = "rollover" -> [h EXCEPT !.rollover[c.key] = c.on]
      [] c.call = "delete" -> SetLimit(h, c.key, 0)
      [] c.key = Overall /\ c.moves -> [SetLimit(h, Overall, c.amount) EXCEPT !.day = c.day]
      [] OTHER -> SetLimit(h, c.key, c.amount)

NameFree(h, name, c) == \A o \in Customs(h) \ {c} : h.custom[o].name # name

\* create, update and delete of a custom category; a delete takes its budget along.
AcceptsCategory(h, c) ==
    CASE c.hook = "create" -> /\ h.premium /\ h.custom[c.id] = NoCategory /\ NameFree(h, c.to.name, c.id)
                              /\ Cardinality(Customs(h)) < MaxCustom
      [] c.hook = "update" -> h.premium /\ c.id \in Customs(h) /\ ("name" \in c.fields => NameFree(h, c.to.name, c.id))
      [] OTHER -> c.id \in Customs(h)
ChangedCategory(h, c) ==
    CASE c.hook = "create" -> [h EXCEPT !.custom[c.id] = c.to]
      [] c.hook = "update" -> [h EXCEPT !.custom[c.id] = [f \in {"name", "look"} |-> IF f \in c.fields THEN c.to[f] ELSE @[f]]]
      [] OTHER -> [SetLimit(h, c.id, 0) EXCEPT !.custom[c.id] = NoCategory]

-----------------------------------------------------------------------------
(* The cache and the screens                                                *)

BudgetAct == budgetActs < MaxBudgetActs /\ budgetActs' = budgetActs + 1 /\ UNCHANGED budgetFaults
BudgetFault == /\ budgetActs < MaxBudgetActs /\ budgetFaults < MaxBudgetFaults
               /\ budgetActs' = budgetActs + 1 /\ budgetFaults' = budgetFaults + 1
Typed == budgetActs + 2

\* The profile is shown by the root layout, whatever is over it.
BudgetShows(s) ==
    CASE s.kind = "trend" /\ s.ranged -> {"dash", "ranged"}
      [] s.kind \in {"tab", "top", "trend"} -> {"dash"}
      [] s.kind = "limits" -> {"budgets", "categories"}
      [] s.kind = "settings" -> {"budgets"}
      [] s.kind = "categories" -> {"categories"}
      [] OTHER -> {}
BMounted(st) == {"me"} \cup UNION {BudgetShows(st[i]) : i \in 1 .. Len(st)}
BMounting(st) == {k \in BudgetKeys : \E i \in 1 .. Len(st) :
    k \in BudgetShows(st[i]) /\ (i > Len(budgetStack) \/ k \notin BudgetShows(budgetStack[i]))}
BData(k) == budgetCache[k].data
BHas(k) == BData(k) # NoData

\* Prefill once, when the saved budgets first arrive: over what was typed.
Prefill(s, data) ==
    IF s.kind # "limits" \/ s.form.prefilled \/ data = NoData THEN s
    ELSE [s EXCEPT !.form = [amount |-> [k \in Limits |-> IF k = Overall /\ data.amount[k] = 0 THEN s.form.amount[k]
                                                          ELSE data.amount[k]],
                             day |-> data.day, rollover |-> data.rollover, prefilled |-> TRUE,
                             known |-> {k \in Limits \ {Overall} : data.amount[k] # 0}]]

BNavigate(st, cache) ==
    /\ budgetStack' = [i \in 1 .. Len(st) |-> Prefill(st[i], cache["budgets"].data)]
    /\ budgetCache' = [k \in BudgetKeys |->
        IF k \in BMounting(st) THEN Observe(cache[k]) ELSE cache[k]]

StaleIn(cache, keys) ==
    [k \in BudgetKeys |-> IF k \in keys THEN Invalidate(cache[k], k \in BMounted(budgetStack)) ELSE cache[k]]
BOvertaken(keys) ==
    {k \in keys : budgetCache[k].call = "read" /\ (BData(k) = NoData \/ k \notin BMounted(budgetStack))}

BPopped == IF Len(budgetStack) = 1 THEN budgetStack ELSE Front(budgetStack)
SavesAfter(ss, st) == [n \in 1 .. Len(ss) |-> IF ss[n].at > Len(st) THEN [ss[n] EXCEPT !.at = 0] ELSE ss[n]]
\* The screen's callbacks, and its editor, end with it.
CategoriesAfter(st) ==
    IF Last(st).kind = "categories" \/ BTop.kind # "categories" THEN UNCHANGED <<editor, categoryCalls>>
    ELSE IF \E i \in 1 .. Len(st) : st[i].kind = "categories" THEN editor' = [editor EXCEPT !.mode = "none"] /\ UNCHANGED categoryCalls
    ELSE editor' = Front0 /\ categoryCalls' = [n \in 1 .. Len(categoryCalls) |-> [categoryCalls[n] EXCEPT !.here = FALSE]]

BGo(st) ==
    /\ BNavigate(st, budgetCache) /\ saves' = SavesAfter(saves, st) /\ CategoriesAfter(st)

\* Who is not Premium, as far as the screen knows, is invited to the paywall.
Invited == IF BTop.kind = "trend" THEN BTop.ranged /\ budgetCache["ranged"].call = "failed" /\ ~ledger.premium
           ELSE ~(BHas("me") /\ BData("me")) \/ (BTop.kind = "categories" /\ (editor.refused \/ editor.lapsed # {}))
Leads == [tab |-> {"trend", "top", "limits", "settings"}, settings |-> {"limits", "categories", "paywall"},
          trend |-> {"paywall"}, limits |-> {"paywall"}, categories |-> {"paywall"}]
OpenBudget(kind) ==
    /\ BudgetAct /\ BTop.kind \in DOMAIN Leads /\ kind \in Leads[BTop.kind]
    /\ kind = "paywall" => BTop.kind = "settings" \/ Invited
    /\ BGo(Append(budgetStack, BudgetScreen(kind)))
    /\ UNCHANGED <<ledger, budgetUntold>>

BackBudget ==
    /\ BudgetAct /\ Len(budgetStack) > 1 /\ BGo(BPopped)
    /\ UNCHANGED <<ledger, budgetUntold>>

\* Trend's range: 3 months as on the Budget tab, or a longer one of its own.
setRange ==
    /\ BudgetAct /\ BTop.kind = "trend" /\ BHas("dash")
    /\ BNavigate([budgetStack EXCEPT ![Len(budgetStack)].ranged = ~@], budgetCache)
    /\ UNCHANGED <<ledger, saves, editor, categoryCalls, budgetUntold>>

PullBudget ==
    /\ BudgetAct /\ BTop.kind = "tab"
    /\ budgetCache' = [budgetCache EXCEPT !["dash"] = Refetch(@)]
    /\ UNCHANGED <<ledger, budgetStack, saves, editor, categoryCalls, budgetUntold>>

-----------------------------------------------------------------------------
(* The form of limits                                                       *)

FormFields == {<<"amount", k>> : k \in Limits} \cup {<<"rollover", k>> : k \in Limits} \cup {<<"day", Overall>>}

\* A category has a row while the list shows it, a rollover while it has an amount.
RowShown(k) == k \in Own => BHas("categories") /\ BData("categories")[k] # NoCategory
SwitchShown(k) == BHas("me") /\ BData("me") /\ RowShown(k) /\ BTop.form.amount[k] # 0

EditForm(f) ==
    /\ BudgetAct /\ BTop.kind = "limits" /\ RowShown(f[2])
    /\ \E form \in
        CASE f[1] = "amount" -> {[BTop.form EXCEPT !.amount[f[2]] = a, !.known = @ \cup ({f[2]} \ {Overall})] : a \in {0, Typed}}
          [] f[1] = "day" -> {[BTop.form EXCEPT !.day = Typed]}
          [] OTHER -> {[BTop.form EXCEPT !.rollover[f[2]] = ~@] : x \in {y \in {1} : SwitchShown(f[2])}} :
        budgetStack' = [budgetStack EXCEPT ![Len(budgetStack)].form = form]
    /\ UNCHANGED <<ledger, budgetCache, saves, editor, categoryCalls, budgetUntold>>

Call(call, k, amount) == [call |-> call, key |-> k, amount |-> amount, day |-> 0, moves |-> FALSE, on |-> FALSE]

\* Update in place; a blank field leaves the overall limit alone.
OverallCalls(form, saved) ==
    LET was == saved.amount[Overall]
        amount == IF form.amount[Overall] > 0 THEN form.amount[Overall] ELSE was
        moves == form.day # saved.day IN
    IF was = 0 THEN IF amount = 0 THEN <<>>
                    ELSE <<[Call("create", Overall, amount) EXCEPT !.day = form.day, !.moves = TRUE]>>
    ELSE IF amount # was \/ moves
    THEN <<[Call("update", Overall, amount) EXCEPT !.day = form.day, !.moves = moves]>> ELSE <<>>

\* Update a changed limit, delete a cleared one, create a new one; or keep a cleared one.
CategoryCallsKept(form, saved, k) ==
    IF form.amount[k] \in {0, saved.amount[k]} THEN <<>>
    ELSE <<Call(IF saved.amount[k] = 0 THEN "create" ELSE "update", k, form.amount[k])>>
CategoryCalls(form, saved, k) ==
    CASE form.amount[k] = saved.amount[k] -> <<>>
      [] form.amount[k] = 0 -> <<Call("delete", k, 0)>>
      [] saved.amount[k] = 0 -> <<Call("create", k, form.amount[k])>>
      [] OTHER -> <<Call("update", k, form.amount[k])>>

savedIds(form, saved) ==
    {k \in Limits : IF k = Overall THEN form.amount[k] + saved.amount[k] > 0 ELSE k \in form.known /\ form.amount[k] > 0}
RolloverCalls(form, saved, premium) ==
    LET flipped == {k \in savedIds(form, saved) : form.rollover[k] # (saved.amount[k] > 0 /\ saved.rollover[k])} IN
    IF premium THEN [n \in 1 .. Cardinality(flipped) |->
                        [Call("rollover", SetToSeq(flipped)[n], 0) EXCEPT !.on = form.rollover[SetToSeq(flipped)[n]]]]
    ELSE <<>>

\* What handleSave will send, from the form and the budgets shown as Save is tapped.
Plan(form, saved, premium) ==
    LET known == SetToSeq(form.known) IN
    OverallCalls(form, saved)
    \o FlattenSeq([n \in 1 .. Len(known) |-> CategoryCalls(form, saved, known[n])])
    \o RolloverCalls(form, saved, premium)

NoBudgets == [amount |-> [k \in Limits |-> 0], rollover |-> [k \in Limits |-> FALSE], day |-> 0]
Saved == IF BHas("budgets") THEN BData("budgets") ELSE NoBudgets
isSaving == \E n \in 1 .. Len(saves) : saves[n].at = Len(budgetStack)

handleSave ==
    /\ BudgetAct /\ BTop.kind = "limits" /\ ~isSaving
    /\ LET plan == Plan(BTop.form, Saved, BHas("me") /\ BData("me")) IN
       IF plan = <<>> THEN BGo(BPopped)
       ELSE /\ saves' = Append([n \in 1 .. Len(saves) |-> [saves[n] EXCEPT !.alone = FALSE]],
                   [pc |-> "sent", plan |-> plan, at |-> Len(budgetStack), form |-> BTop.form,
                    alone |-> saves = <<>> /\ Saved = BudgetTruth(ledger, "budgets")])
            /\ UNCHANGED <<budgetCache, budgetStack, editor, categoryCalls>>
    /\ UNCHANGED <<ledger, budgetUntold>>

NotAlone == saves' = [n \in 1 .. Len(saves) |-> [saves[n] EXCEPT !.alone = FALSE]]

ServeBudget(n) ==
    /\ saves[n].pc = "sent"
    /\ LET c == Head(saves[n].plan) IN
       IF BudgetAccepts(ledger, c)
       THEN ledger' = BudgetPerformed(ledger, c) /\ saves' = [saves EXCEPT ![n].pc = "done"]
       ELSE /\ saves' = [saves EXCEPT ![n].pc = IF c.call = "rollover" /\ ~ledger.premium THEN "lapsed" ELSE "failed"]
            /\ UNCHANGED ledger
    /\ UNCHANGED <<budgetCache, budgetStack, editor, categoryCalls, budgetUntold, budgetWorld>>

BudgetLost(n) ==
    /\ BudgetFault /\ saves[n].pc \in {"sent", "done"}
    /\ saves' = [saves EXCEPT ![n].pc = "failed"]
    /\ budgetUntold' = budgetUntold \cup (IF saves[n].pc = "done" THEN {"budgets", "dash", "ranged"} ELSE {})
    /\ UNCHANGED <<ledger, budgetCache, budgetStack, editor, categoryCalls>>

\* The call is answered: the next is sent, or the screen on top is left.
BudgetAnswered(n) ==
    /\ saves[n].pc = "done"
    /\ LET keys == {"dash", "ranged", "budgets"}
           rest == Tail(saves[n].plan)
           st == IF rest = <<>> THEN BPopped ELSE budgetStack
           left == IF rest = <<>> THEN RemoveAt(saves, n) ELSE [saves EXCEPT ![n].plan = rest, ![n].pc = "sent"] IN
       /\ BNavigate(st, StaleIn(budgetCache, keys))
       /\ saves' = SavesAfter(left, st) /\ CategoriesAfter(st)
       /\ budgetUntold' = budgetUntold \cup BOvertaken(keys)
    /\ UNCHANGED <<ledger, budgetWorld>>

\* The rest is not sent.  A lapse invites to the paywall; else an alert.
SaveFailed(n) ==
    /\ saves[n].pc \in {"lapsed", "failed"}
    /\ LET st == IF saves[n].pc = "lapsed" THEN Append(budgetStack, BudgetScreen("paywall")) ELSE budgetStack IN
       /\ BNavigate(st, budgetCache) /\ CategoriesAfter(st)
       /\ saves' = RemoveAt(saves, n)
    /\ UNCHANGED <<ledger, budgetUntold, budgetWorld>>

\* Onboarding: the budget is created if it can be, and onboarding goes on; or Skip.
onContinue ==
    /\ BudgetAct /\ BTop.kind = "onboarding" /\ saves = <<>>
    /\ saves' = <<[pc |-> "sent", at |-> 1, form |-> BlankForm, alone |-> FALSE,
                   plan |-> <<[Call("create", Overall, Typed) EXCEPT !.day = 1, !.moves = TRUE]>>]>>
    /\ UNCHANGED <<ledger, budgetCache, budgetStack, editor, categoryCalls, budgetUntold>>
Onboarded ==
    /\ BTop.kind = "onboarding" /\ saves = <<>>
    /\ BNavigate(<<BudgetScreen("tab")>>, budgetCache)
    /\ UNCHANGED <<ledger, saves, editor, categoryCalls, budgetUntold, budgetWorld>>

-----------------------------------------------------------------------------
(* Settings -> Categories                                                   *)

\* Premium as the backend says; a refused call means it lapsed meanwhile.
premium == BHas("me") /\ BData("me") /\ editor.lapsed = {}
Mine == IF BHas("categories") THEN {c \in Own : BData("categories")[c] # NoCategory} ELSE {}
OnCategories == BTop.kind = "categories"
IsPending(hook) == \E n \in 1 .. Len(categoryCalls) : categoryCalls[n].hook = hook /\ categoryCalls[n].here

\* mutate: the hook's earlier call loses its callbacks, and its error is forgotten.
MutateCategory(hook, id, to, fields, typed) ==
    categoryCalls' = Append([n \in 1 .. Len(categoryCalls) |-> [categoryCalls[n] EXCEPT !.here = @ /\ categoryCalls[n].hook # hook]],
                            [hook |-> hook, id |-> id, to |-> to, fields |-> fields, typed |-> typed, here |-> TRUE, pc |-> "sent"])

openEditor ==
    /\ OnCategories /\ editor.mode = "none"
    /\ \/ /\ premium /\ Cardinality(Mine) < MaxCustom /\ ~IsPending("create")
          /\ editor' = [editor EXCEPT !.mode = "create", !.id = Overall, !.from = NoCategory, !.refused = FALSE]
       \/ \E c \in Mine : editor' = [editor EXCEPT !.mode = "edit", !.id = c, !.from = BData("categories")[c], !.refused = FALSE]
    /\ UNCHANGED <<ledger, budgetCache, budgetStack, saves, categoryCalls, budgetUntold, budgetWorld>>

closeEditor ==
    /\ editor.mode # "none" /\ editor' = [editor EXCEPT !.mode = "none"]
    /\ UNCHANGED <<ledger, budgetCache, budgetStack, saves, categoryCalls, budgetUntold, budgetWorld>>

canSaveCategory == premium /\ ~editor.refused /\ ~IsPending("create") /\ ~IsPending("update")

\* The fields that differ from the category the editor was opened with.
Edited(to, from) == {f \in {"name", "look"} : to[f] # from[f]}

onEditorSave(to) ==
    /\ BudgetAct /\ OnCategories /\ editor.mode # "none" /\ canSaveCategory
    /\ IF editor.mode = "create"
       THEN LET id == CHOOSE c \in Own : ledger.custom[c] = NoCategory \/ Customs(ledger) = Own IN
            MutateCategory("create", id, to, {"name", "look"}, {"name", "look"}) /\ UNCHANGED editor
       ELSE IF to = editor.from THEN editor' = [editor EXCEPT !.mode = "none"] /\ UNCHANGED categoryCalls
       ELSE /\ MutateCategory("update", editor.id, to, Edited(to, editor.from),
                              {f \in {"name", "look"} : to[f] # editor.from[f]})
            /\ editor' = [editor EXCEPT !.lapsed = @ \ {"update"}]
    /\ UNCHANGED <<ledger, budgetCache, budgetStack, saves, budgetUntold>>

onRename(c, name) ==
    /\ BudgetAct /\ OnCategories /\ editor.mode = "none" /\ premium /\ c \in Mine /\ BData("categories")[c].name # name
    /\ MutateCategory("update", c, [name |-> name, look |-> 0], {"name"}, {"name"})
    /\ UNCHANGED <<ledger, budgetCache, budgetStack, saves, editor, budgetUntold>>

onDeleteCategory(c) ==
    /\ BudgetAct /\ OnCategories /\ editor.mode = "none" /\ c \in Mine
    /\ MutateCategory("remove", c, NoCategory, {}, {})
    /\ UNCHANGED <<ledger, budgetCache, budgetStack, saves, editor, budgetUntold>>

ServeCategory(n) ==
    /\ categoryCalls[n].pc = "sent"
    /\ LET c == categoryCalls[n] IN
       IF AcceptsCategory(ledger, c)
       THEN ledger' = ChangedCategory(ledger, c) /\ categoryCalls' = [categoryCalls EXCEPT ![n].pc = "done"]
       ELSE /\ categoryCalls' = [categoryCalls EXCEPT ![n].pc = IF c.hook # "remove" /\ ~ledger.premium THEN "lapsed" ELSE "failed"]
            /\ UNCHANGED ledger
    /\ NotAlone
    /\ UNCHANGED <<budgetCache, budgetStack, editor, budgetUntold, budgetWorld>>

CategoryRefreshes == [create |-> {"categories"}, update |-> {"categories", "dash", "ranged"},
                      remove |-> {"categories", "budgets", "dash", "ranged"}]

\* An update closes the editor, whichever category it is open for.
CategoryAnswered(n) ==
    /\ categoryCalls[n].pc # "sent"
    /\ LET c == categoryCalls[n] IN
       /\ IF c.pc = "done"
          THEN /\ budgetCache' = StaleIn(budgetCache, CategoryRefreshes[c.hook])
               /\ budgetUntold' = budgetUntold \cup BOvertaken(CategoryRefreshes[c.hook])
               /\ editor' = IF c.here /\ c.hook # "remove" THEN [editor EXCEPT !.mode = "none"] ELSE editor
          ELSE /\ editor' = IF c.here /\ c.pc = "lapsed" THEN [editor EXCEPT !.refused = TRUE, !.lapsed = @ \cup {c.hook}] ELSE editor
               /\ UNCHANGED <<budgetCache, budgetUntold>>
    /\ categoryCalls' = RemoveAt(categoryCalls, n)
    /\ UNCHANGED <<ledger, budgetStack, saves, budgetWorld>>

-----------------------------------------------------------------------------
(* The paywall, the other device, and the queries                           *)

\* A purchase: the profile the backend returns is kept, the rest asked for again.
Purchased ==
    /\ BudgetAct /\ BTop.kind = "paywall" /\ ~ledger.premium
    /\ ledger' = [ledger EXCEPT !.premium = TRUE]
    /\ LET rest == BudgetKeys \ {"me"} IN
       /\ budgetCache' = [StaleIn(budgetCache, rest) EXCEPT !["me"] = SetData(@, TRUE)]
       /\ budgetUntold' = budgetUntold \cup BOvertaken(rest) \cup {k \in {"me"} : InFlight(budgetCache[k])}
    /\ UNCHANGED <<budgetStack, saves, editor, categoryCalls>>

BudgetsElsewhere ==
    /\ BudgetFault
    /\ \/ \E k \in Limits : /\ Usable(ledger, k)
                            /\ ledger' = SetLimit(ledger, k, IF HasLimit(ledger, k) /\ k # Overall THEN 0 ELSE Typed)
                            /\ budgetUntold' = budgetUntold \cup {"budgets", "dash", "ranged"}
       \/ \E c \in Customs(ledger) : /\ ledger' = [ledger EXCEPT !.custom[c].look = Typed]
                                     /\ budgetUntold' = budgetUntold \cup {"categories", "dash", "ranged"}
       \/ ledger.premium /\ ledger' = [ledger EXCEPT !.premium = FALSE] /\ budgetUntold' = budgetUntold \cup {"me"}
    /\ NotAlone
    /\ UNCHANGED <<budgetCache, budgetStack, editor, categoryCalls>>

ServeBudgetRead(k) ==
    /\ budgetCache[k].call = "asked"
    /\ budgetCache' = [budgetCache EXCEPT ![k] = IF k = "ranged" /\ ~ledger.premium THEN Fail(@) ELSE Reads(@, BudgetTruth(ledger, k))]
    /\ budgetUntold' = budgetUntold \ {k}
    /\ UNCHANGED <<ledger, budgetStack, saves, editor, categoryCalls, budgetWorld>>

BudgetReadLost(k) ==
    /\ BudgetFault /\ InFlight(budgetCache[k])
    /\ budgetCache' = [budgetCache EXCEPT ![k] = Fail(@)]
    /\ UNCHANGED <<ledger, budgetStack, saves, editor, categoryCalls, budgetUntold>>

BudgetReadAnswered(k) ==
    /\ budgetCache[k].call = "read"
    /\ budgetCache' = [budgetCache EXCEPT ![k] = [Arrived(@) EXCEPT !.fresh = k # "budgets"]]
    /\ budgetStack' = IF k # "budgets" THEN budgetStack
                      ELSE [i \in 1 .. Len(budgetStack) |-> Prefill(budgetStack[i], budgetCache[k].read)]
    /\ UNCHANGED <<ledger, saves, editor, categoryCalls, budgetUntold, budgetWorld>>

RetryCategories ==
    /\ BudgetAct /\ OnCategories /\ budgetCache["categories"].call = "failed"
    /\ budgetCache' = [budgetCache EXCEPT !["categories"] = Refetch(@)]
    /\ UNCHANGED <<ledger, budgetStack, saves, editor, categoryCalls, budgetUntold>>

-----------------------------------------------------------------------------

\* An account with an overall budget, one limit and Own0; or a new one.
BudgetInit ==
    /\ \E new \in BOOLEAN :
        /\ ledger = [amount |-> [k \in Limits |-> IF new \/ k \notin ({Overall} \cup Own0) THEN 0 ELSE 1],
                     rollover |-> [k \in Limits |-> FALSE], day |-> IF new THEN 0 ELSE 1, premium |-> ~new,
                     custom |-> [c \in Own |-> IF new \/ c \notin Own0 THEN NoCategory
                                               ELSE [name |-> CHOOSE n \in CategoryNames : TRUE, look |-> 0]]]
        /\ budgetStack = <<BudgetScreen(IF new THEN "onboarding" ELSE "tab")>>
        /\ budgetCache = [k \in BudgetKeys |-> IF k = "me" \/ (k = "dash" /\ ~new) THEN Loaded(BudgetTruth(ledger, k)) ELSE Unloaded]
    /\ saves = <<>> /\ editor = Front0 /\ categoryCalls = <<>> /\ budgetUntold = {}
    /\ budgetActs = 0 /\ budgetFaults = 0

BudgetNext ==
    \/ (\E kind \in BudgetKinds : OpenBudget(kind)) \/ BackBudget \/ setRange \/ PullBudget
    \/ (\E f \in FormFields : EditForm(f)) \/ handleSave \/ onContinue \/ Onboarded
    \/ \E n \in 1 .. Len(saves) : ServeBudget(n) \/ BudgetLost(n) \/ BudgetAnswered(n) \/ SaveFailed(n)
    \/ openEditor \/ closeEditor
    \/ \E name \in CategoryNames : (\E look \in {0, 1} : onEditorSave([name |-> name, look |-> look]))
    \/ \E c \in Own : onDeleteCategory(c) \/ (\E name \in CategoryNames : onRename(c, name))
    \/ \E n \in 1 .. Len(categoryCalls) : ServeCategory(n) \/ CategoryAnswered(n)
    \/ Purchased \/ BudgetsElsewhere
    \/ \E k \in BudgetKeys : ServeBudgetRead(k) \/ BudgetReadLost(k) \/ BudgetReadAnswered(k)
    \/ RetryCategories

BudgetSpec == BudgetInit /\ [][BudgetNext]_budgetVars

-----------------------------------------------------------------------------
(* Properties                                                               *)

\* Once no call is under way, the screens show what the server has, but for
\* changes the app was not told of, reads that failed, and a first read, or one no
\* screen waits for, under way when the app's own change ended.
BudgetsShownAreTrue ==
    saves = <<>> /\ categoryCalls = <<>> =>
        \A k \in BMounted(budgetStack) \ budgetUntold :
            budgetCache[k].call = "none" => BData(k) = BudgetTruth(ledger, k)

\* When a Save ends well, and nobody else changed the budgets since it was
\* tapped, the server has every limit, the start day and every switch as the
\* form had them (budget-settings.tsx handleSave).
SavedAsTyped ==
    [][\A n \in 1 .. Len(saves) :
        BudgetAnswered(n) /\ Len(saves[n].plan) = 1 /\ saves[n].alone =>
            LET form == saves[n].form IN
            /\ \A k \in form.known : ledger.amount[k] = form.amount[k]
            /\ form.amount[Overall] # 0 => ledger.amount[Overall] = form.amount[Overall] /\ ledger.day = form.day
            /\ ledger.premium => \A k \in form.known : HasLimit(ledger, k) => ledger.rollover[k] = form.rollover[k]]_budgetVars

\* No budget outlives its category, whatever form still held it
\* (category_service.py ensure_usable, delete).
BudgetsHaveCategories == \A c \in Own : HasLimit(ledger, c) => c \in Customs(ledger)

\* What an update of a category leaves alone, as it is served.
KeepsTheRest ==
    \A n \in 1 .. Len(categoryCalls) :
        ServeCategory(n) /\ categoryCalls[n].hook = "update" =>
            LET c == categoryCalls[n] IN
            \A f \in {"name", "look"} \ c.typed : ledger'.custom[c.id][f] = ledger.custom[c.id][f]

\* A change of a custom category leaves what the user did not edit in it as it
\* is by then, on whatever device that was set (categories.tsx onEditorSave, onRename).
CategoriesKeepTheRest == [][KeepsTheRest]_budgetVars

=============================================================================
